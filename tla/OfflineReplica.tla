--------------------------- MODULE OfflineReplica ---------------------------
(* What one browser keeps of one vault (web/src/offline/replica.ts, eviction.ts,
   prefetch.ts, db.ts, and the residency accounting of shell/note-surface.ts).

   Two kinds of IndexedDB database are involved and no transaction spans them:
   the bookkeeping (which bodies are here, which of them hold unsent changes,
   the pins) and one database per note with the body itself, which the editor's
   persistence fills on its own.  A transaction on the bookkeeping of bodies is
   queued when it is called and runs in the order of the calls; its caller goes
   on when it has run.  Panes, their eviction sweeps, the background fetch of
   pinned notes and the reconciliation with the server's catalogue interleave at
   those points.  The transport is the ConnectionState it announces: whether the
   server's state has ever arrived, and what is still pending. *)
EXTENDS Sequences, Naturals

CONSTANTS
  Note,     \* paths of the vault
  Pane,     \* slots for open notes: panes, and the background fetch
  Edit,     \* what a person may type
  Shared,   \* whether two panes may show the same note
  World,    \* the circumstances to look at, see WorldAssumption
  NoNote

(* edits: what may be typed; cap: resident bodies the device should not exceed;
   access: how the user's access may change; quits: how the browser may end. *)
ASSUME WorldAssumption ==
  World \subseteq [edits : SUBSET Edit, cap : Nat, access : SUBSET {"lose", "regain"},
                   quits : SUBSET {"settled", "abrupt"}]
ASSUME SharedAssumption == Shared \in BOOLEAN
ASSUME NamesAssumption == NoNote \notin Note /\ "catalog" \notin Pane

VARIABLES
  world,     \* the circumstances of this behaviour
  readable,  \* server: the notes this user may read
  server,    \* server: per note, the edits it holds
  resident,  \* bodies store: the notes with a record, least recently opened first
  unsynced,  \* bodies store: the records with dirty = true
  pins,      \* pins store
  body,      \* per note, the edits in the document's own database
  calls,     \* transactions on the bodies store, called and not yet run
  pane,      \* the open notes and their sessions
  catalog,   \* the reconciliation with the server's note index
  used,      \* history: edits typed so far
  late       \* history: notes opened since the last reconciliation began

stores == <<resident, unsynced, pins, body>>
vars == <<world, readable, server, stores, calls, pane, catalog, used, late>>

Phases == {"closed", "asking", "loading", "open", "settling", "measuring",
           "fetching", "fetched"}
Flags == {"unknown", "clean", "dirty"}

Closed == [note |-> NoNote, phase |-> "closed", resident |-> FALSE, covered |-> TRUE,
           doc |-> {}, pending |-> {}, synced |-> FALSE, attached |-> FALSE,
           opened |-> FALSE, dirty |-> "unknown", revoked |-> FALSE,
           sweep |-> "none", pinned |-> {}, dropping |-> <<>>]

Callers == Pane \cup {"catalog"}
Call == [op : {"ask", "open", "measure", "size", "list", "delete", "clear"},
         by : Callers, note : Note \cup {NoNote}, dirty : Flags]

Residents == {resident[i] : i \in DOMAIN resident}

TypeOK ==
  /\ world \in World
  /\ readable \subseteq Note /\ pins \subseteq Note /\ late \subseteq Note
  /\ server \in [Note -> SUBSET Edit] /\ body \in [Note -> SUBSET Edit]
  /\ resident \in Seq(Note)
  /\ \A i, j \in DOMAIN resident : resident[i] = resident[j] => i = j
  /\ unsynced \subseteq Residents
  /\ calls \in Seq(Call)
  /\ pane \in [Pane ->
       [note : Note \cup {NoNote}, phase : Phases, resident : BOOLEAN,
        covered : BOOLEAN, doc : SUBSET Edit, pending : SUBSET Edit, synced : BOOLEAN,
        attached : BOOLEAN, opened : BOOLEAN, dirty : Flags, revoked : BOOLEAN,
        sweep : {"none", "opening", "pins", "list", "drop", "delete"},
        pinned : SUBSET Note, dropping : Seq(Note)]]
  /\ catalog \in [pc : {"idle", "list", "pins", "clear", "drop", "delete"},
                  denied : BOOLEAN, answer : SUBSET Note, todo : SUBSET Note]
  /\ used \subseteq Edit

(* A device that has never held anything of the vault. *)
Init ==
  /\ world \in World
  /\ readable = Note /\ server = [n \in Note |-> {}]
  /\ resident = <<>> /\ unsynced = {} /\ pins = {} /\ body = [n \in Note |-> {}]
  /\ calls = <<>>
  /\ pane = [p \in Pane |-> Closed]
  /\ catalog = [pc |-> "idle", denied |-> FALSE, answer |-> Note, todo |-> {}]
  /\ used = {} /\ late = {}

-----------------------------------------------------------------------------
(* Transactions on the bodies store. *)
Enqueue(op, by, n, dirty) ==
  Append(calls, [op |-> op, by |-> by, note |-> n, dirty |-> dirty])

(* The records but that of n, in their order. *)
Without(n) ==
  LET k == CHOOSE k \in DOMAIN resident : resident[k] = n
  IN IF n \notin Residents THEN resident
     ELSE [i \in 1..(Len(resident) - 1) |-> resident[IF i < k THEN i ELSE i + 1]]

(* DropBody: the note's database goes.  A pane that has it open is cut off: its
   later edits are stored nowhere. *)
DropBody(n, panes) ==
  /\ body' = [body EXCEPT ![n] = {}]
  /\ pane' = [p \in Pane |->
       IF panes[p].note = n THEN [panes[p] EXCEPT !.attached = FALSE] ELSE panes[p]]

(* A session's writes count while it is neither revoked nor closed. *)
Current(p) == ~pane[p].revoked

(* Mutant of Opened: the record is added beside the one that is there. *)
OpenedAgain(p, n, dirty) ==
  IF ~Current(p) THEN UNCHANGED <<resident, unsynced>>
  ELSE resident' = Append(resident, n) /\ UNCHANGED unsynced

(* updateResident of `opened`: residency, recency and the flag in one write;
   what is not known of the flag stays as it was. *)
Opened(p, n, dirty) ==
  IF ~Current(p) THEN UNCHANGED <<resident, unsynced>>
  ELSE /\ resident' = Append(Without(n), n)
       /\ unsynced' = CASE dirty = "dirty" -> unsynced \cup {n}
                        [] dirty = "clean" -> unsynced \ {n}
                        [] OTHER -> unsynced

(* updateResident of `measured`: it changes a record and never makes one. *)
Measured(p, n, dirty) ==
  /\ UNCHANGED resident
  /\ unsynced' = IF n \notin Residents \/ ~Current(p) THEN unsynced
                 ELSE CASE dirty = "dirty" -> unsynced \cup {n}
                        [] dirty = "clean" -> unsynced \ {n}
                        [] OTHER -> unsynced

(* evictable: oldest first, records that are neither pinned nor dirty, until the
   vault is within its cap. *)
Evictable(pinned) ==
  LET evicting[i \in 0..Len(resident)] ==
        IF i = 0 THEN <<>>
        ELSE IF \/ resident[i] \in pinned \cup unsynced
                \/ Len(resident) <= world.cap + Len(evicting[i - 1])
        THEN evicting[i - 1]
        ELSE Append(evicting[i - 1], resident[i])
  IN evicting[Len(resident)]

-----------------------------------------------------------------------------
(* Open notes. *)

(* Mutant of Report: a fresh transport's zero is taken at its word. *)
ReportEager(p, now) ==
  LET next == IF now.pending # {} THEN "dirty" ELSE "clean" IN
  \/ /\ ~now.revoked /\ ~now.opened /\ (now.resident \/ now.synced)
     /\ pane' = [pane EXCEPT ![p] =
          [now EXCEPT !.opened = TRUE, !.dirty = next, !.sweep = "opening"]]
     /\ calls' = Enqueue("open", p, now.note, next)
  \/ /\ ~now.revoked /\ now.opened /\ next # now.dirty
     /\ pane' = [pane EXCEPT ![p] = [now EXCEPT !.dirty = next]]
     /\ calls' = Enqueue("measure", p, now.note, next)
  \/ /\ \/ now.revoked
        \/ ~now.opened /\ ~now.resident /\ ~now.synced
        \/ now.opened /\ next = now.dirty
     /\ pane' = [pane EXCEPT ![p] = now]
     /\ UNCHANGED calls

(* trackResidency's listener: `now` is the pane with the state the transport
   announces.  A fresh transport counts from zero, so before the server's state
   arrives a zero says nothing. *)
Report(p, now) ==
  LET next == IF now.pending # {} THEN "dirty"
              ELSE IF now.synced THEN "clean" ELSE "unknown"
      told == next # "unknown" /\ next # now.dirty
  IN
  \/ /\ ~now.revoked /\ ~now.opened /\ (now.resident \/ now.synced)
     /\ pane' = [pane EXCEPT ![p] =
          [now EXCEPT !.opened = TRUE, !.dirty = next, !.sweep = "opening"]]
     /\ calls' = Enqueue("open", p, now.note, next)
  \/ /\ ~now.revoked /\ now.opened /\ told
     /\ pane' = [pane EXCEPT ![p] = [now EXCEPT !.dirty = next]]
     /\ calls' = Enqueue("measure", p, now.note, next)
  \/ /\ \/ now.revoked
        \/ ~now.opened /\ ~now.resident /\ ~now.synced
        \/ now.opened /\ ~told
     /\ pane' = [pane EXCEPT ![p] = now]
     /\ UNCHANGED calls

(* openNoteSurface: the session first, then whether the body is here. *)
Open(p, n) ==
  /\ pane[p].phase = "closed"
  /\ Shared \/ \A q \in Pane : pane[q].note # n \/ pane[q].phase \in {"fetching", "fetched"}
  /\ pane' = [pane EXCEPT ![p] = [Closed EXCEPT !.note = n, !.phase = "asking"]]
  /\ calls' = Enqueue("ask", p, n, "unknown")
  /\ late' = late \cup {n}
  /\ UNCHANGED <<readable, server, stores, catalog, used>>

(* startNoteEditor: the document is restored from its database and mounted. *)
Load(p) ==
  /\ pane[p].phase = "loading"
  /\ Report(p, [pane[p] EXCEPT !.phase = "open", !.attached = TRUE,
                               !.covered = pane[p].revoked \/ ~pane[p].resident,
                               !.doc = body[pane[p].note]])
  /\ UNCHANGED <<readable, server, stores, catalog, used, late>>

(* A body that is not here stays covered until the server's state arrives. *)
Type(p, e) ==
  /\ pane[p].phase = "open" /\ ~pane[p].covered /\ e \in world.edits \ used
  /\ used' = used \cup {e}
  /\ body' = IF pane[p].attached
             THEN [body EXCEPT ![pane[p].note] = @ \cup {e}] ELSE body
  /\ Report(p, [pane[p] EXCEPT !.doc = @ \cup {e}, !.pending = @ \cup {e}])
  /\ UNCHANGED <<readable, server, resident, unsynced, pins, catalog, late>>

(* The transport connects or reconnects: the server's state arrives and what it
   lacks is counted as pending. *)
Sync(p) ==
  LET n == pane[p].note IN
  /\ pane[p].phase = "open" /\ n \in readable
  /\ body' = IF pane[p].attached
             THEN [body EXCEPT ![n] = @ \cup server[n]] ELSE body
  /\ Report(p, [pane[p] EXCEPT !.doc = @ \cup server[n], !.synced = TRUE,
                               !.covered = @ /\ pane[p].revoked,
                               !.pending = pane[p].doc \ server[n]])
  /\ UNCHANGED <<readable, server, resident, unsynced, pins, catalog, used, late>>

(* The server accepts what is pending and its echo arrives. *)
Acknowledge(p) ==
  LET n == pane[p].note IN
  /\ pane[p].phase = "open" /\ pane[p].synced /\ pane[p].pending # {}
  /\ n \in readable
  /\ server' = [server EXCEPT ![n] = @ \cup pane[p].pending]
  /\ Report(p, [pane[p] EXCEPT !.pending = {}])
  /\ UNCHANGED <<readable, stores, catalog, used, late>>

(* Closing a pane stops the accounting, waits for its opening and its sweep, and
   measures the body before it lets the session go. *)
Settle(p) ==
  /\ pane[p].phase = "open"
  /\ pane' = [pane EXCEPT ![p].phase = "settling"]
  /\ UNCHANGED <<readable, server, stores, calls, catalog, used, late>>

MeasureSize(p) ==
  /\ pane[p].phase = "settling" /\ pane[p].sweep = "none"
  /\ pane' = [pane EXCEPT ![p].phase = "measuring"]
  /\ calls' = Enqueue("size", p, pane[p].note, "unknown")
  /\ UNCHANGED <<readable, server, stores, catalog, used, late>>

SetPinned(n, pinned) ==
  /\ pins' = IF pinned THEN pins \cup {n} ELSE pins \ {n}
  /\ pins' # pins
  /\ UNCHANGED <<readable, server, resident, unsynced, body, calls, pane, catalog, used, late>>

-----------------------------------------------------------------------------
(* evict, run by the pane whose opening has just been recorded. *)
EvictPins(p) ==
  /\ pane[p].sweep = "pins"
  /\ pane' = [pane EXCEPT ![p].sweep = "list", ![p].pinned = pins]
  /\ calls' = Enqueue("list", p, NoNote, "unknown")
  /\ UNCHANGED <<readable, server, stores, catalog, used, late>>

EvictDrop(p) ==
  LET n == Head(pane[p].dropping) IN
  /\ pane[p].sweep = "drop"
  /\ DropBody(n, [pane EXCEPT ![p].sweep = "delete"])
  /\ calls' = Enqueue("delete", p, n, "unknown")
  /\ UNCHANGED <<readable, server, resident, unsynced, pins, catalog, used, late>>

-----------------------------------------------------------------------------
(* prefetchPinned: one pinned note at a time, without an editor. *)
Prefetch(p, n) ==
  /\ pane[p].phase = "closed" /\ n \in pins
  /\ \A q \in Pane : pane[q].phase \notin {"fetching", "fetched"}
  /\ pane' = [pane EXCEPT ![p] = [Closed EXCEPT !.note = n, !.phase = "fetching",
                                                !.attached = TRUE, !.doc = body[n]]]
  /\ late' = late \cup {n}
  /\ UNCHANGED <<readable, server, stores, calls, catalog, used>>

(* The server's state arrives; what it lacks is sent and not waited for. *)
Fetched(p) ==
  LET n == pane[p].note IN
  /\ pane[p].phase = "fetching" /\ n \in readable
  /\ body' = IF pane[p].attached
             THEN [body EXCEPT ![n] = @ \cup server[n]] ELSE body
  /\ server' \in {server, [server EXCEPT ![n] = @ \cup pane[p].doc]}
  /\ IF pane[p].revoked
     THEN pane' = [pane EXCEPT ![p] = Closed] /\ UNCHANGED calls
     ELSE /\ pane' = [pane EXCEPT ![p].phase = "fetched"]
          /\ calls' = Enqueue("open", p, n, "unknown")
  /\ UNCHANGED <<readable, resident, unsynced, pins, catalog, used, late>>

FetchFails(p) ==
  /\ pane[p].phase = "fetching"
  /\ pane' = [pane EXCEPT ![p] = Closed]
  /\ UNCHANGED <<readable, server, stores, calls, catalog, used, late>>

-----------------------------------------------------------------------------
(* reconcile.  The catalogue applies its answers one after the other. *)

(* Mutant of Revoked: only panes whose server state has arrived are revoked. *)
RevokedSynced(answer) ==
  {p \in Pane : pane[p].phase # "closed" /\ pane[p].note \notin answer /\ pane[p].synced}

Revoked(answer) ==
  {p \in Pane : pane[p].phase # "closed" /\ pane[p].note \notin answer}

(* The sessions of notes that are not listed end before the first await. *)
Reconcile(denied) ==
  LET answer == IF denied THEN {} ELSE readable
      ending == Revoked(answer)
  IN
  /\ catalog.pc = "idle"
  /\ denied => readable = {}
  /\ pane' = [p \in Pane |->
       IF p \in ending THEN [pane[p] EXCEPT !.revoked = TRUE] ELSE pane[p]]
  /\ catalog' = [pc |-> "list", denied |-> denied, answer |-> answer,
                 todo |-> {pane[p].note : p \in ending}]
  /\ calls' = Enqueue("list", "catalog", NoNote, "unknown")
  /\ late' = {}
  /\ UNCHANGED <<readable, server, stores, used>>

ReconcilePins ==
  /\ catalog.pc = "pins"
  /\ pins' = pins \cap catalog.answer
  /\ catalog' = [catalog EXCEPT !.pc = "drop"]
  /\ UNCHANGED <<readable, server, resident, unsynced, body, calls, pane, used, late>>

(* deleteVault takes the records at once, and the bodies follow. *)
ReconcileDenied ==
  /\ catalog.pc = "clear"
  /\ calls' = Enqueue("clear", "catalog", NoNote, "unknown")
  /\ catalog' = [catalog EXCEPT !.pc = "delete"]
  /\ UNCHANGED <<readable, server, stores, pane, used, late>>

ReconcileDrop(n) ==
  /\ catalog.pc = "drop" /\ n \in catalog.todo
  /\ DropBody(n, pane)
  /\ IF catalog.denied
     THEN /\ catalog' = [catalog EXCEPT !.todo = @ \ {n}]
          /\ UNCHANGED calls
     ELSE /\ catalog' = [catalog EXCEPT !.pc = "delete"]
          /\ calls' = Enqueue("delete", "catalog", n, "unknown")
  /\ UNCHANGED <<readable, server, resident, unsynced, pins, used, late>>

ReconcileDone ==
  /\ catalog.pc = "drop" /\ catalog.todo = {}
  /\ catalog' = [catalog EXCEPT !.pc = "idle"]
  /\ UNCHANGED <<readable, server, stores, calls, pane, used, late>>

-----------------------------------------------------------------------------
(* The next transaction runs and its caller goes on. *)
Run(op) == calls # <<>> /\ Head(calls).op = op /\ calls' = Tail(calls)

RunAsk ==
  LET c == Head(calls) IN
  /\ Run("ask")
  /\ pane' = [pane EXCEPT ![c.by].resident = c.note \in Residents,
                          ![c.by].phase = "loading"]
  /\ UNCHANGED <<readable, server, stores, catalog, used, late>>

RunOpen ==
  LET c == Head(calls) IN
  /\ Run("open")
  /\ Opened(c.by, c.note, c.dirty)
  /\ pane' = [pane EXCEPT ![c.by] =
       IF @.phase = "fetched" THEN Closed ELSE [@ EXCEPT !.sweep = "pins"]]
  /\ UNCHANGED <<readable, server, pins, body, catalog, used, late>>

RunMeasure ==
  LET c == Head(calls) IN
  /\ Run("measure")
  /\ Measured(c.by, c.note, c.dirty)
  /\ UNCHANGED <<readable, server, pins, body, pane, catalog, used, late>>

RunSize ==
  /\ Run("size")
  /\ pane' = [pane EXCEPT ![Head(calls).by] = Closed]
  /\ UNCHANGED <<readable, server, stores, catalog, used, late>>

RunEvictList ==
  LET c == Head(calls)
      dropping == Evictable(pane[c.by].pinned)
  IN
  /\ Run("list") /\ c.by \in Pane
  /\ pane' = [pane EXCEPT ![c.by].dropping = dropping,
                          ![c.by].sweep = IF dropping = <<>> THEN "none" ELSE "drop"]
  /\ UNCHANGED <<readable, server, stores, catalog, used, late>>

RunEvictDelete ==
  LET c == Head(calls)
      rest == Tail(pane[c.by].dropping)
  IN
  /\ Run("delete") /\ c.by \in Pane
  /\ resident' = Without(c.note) /\ unsynced' = unsynced \ {c.note}
  /\ pane' = [pane EXCEPT ![c.by].dropping = rest,
                          ![c.by].sweep = IF rest = <<>> THEN "none" ELSE "drop"]
  /\ UNCHANGED <<readable, server, pins, body, catalog, used, late>>

RunCatalogList ==
  /\ Run("list") /\ Head(calls).by = "catalog"
  /\ catalog' = [catalog EXCEPT !.todo = @ \cup (Residents \ catalog.answer),
                                !.pc = IF catalog.denied THEN "clear" ELSE "pins"]
  /\ UNCHANGED <<readable, server, stores, pane, used, late>>

RunCatalogDelete ==
  LET c == Head(calls) IN
  /\ Run("delete") /\ c.by = "catalog"
  /\ resident' = Without(c.note) /\ unsynced' = unsynced \ {c.note}
  /\ catalog' = [catalog EXCEPT !.todo = @ \ {c.note}, !.pc = "drop"]
  /\ UNCHANGED <<readable, server, pins, body, pane, used, late>>

RunClear ==
  /\ Run("clear")
  /\ resident' = <<>> /\ unsynced' = {} /\ pins' = {}
  /\ catalog' = [catalog EXCEPT !.pc = "drop"]
  /\ UNCHANGED <<readable, server, body, pane, used, late>>

-----------------------------------------------------------------------------
(* The world: access changes, and the browser goes away. *)
ChangeAccess(notes) ==
  /\ notes # readable
  /\ notes \subseteq readable \/ "regain" \in world.access
  /\ readable \subseteq notes \/ "lose" \in world.access
  /\ readable' = notes
  /\ UNCHANGED <<server, stores, calls, pane, catalog, used, late>>

(* A quit leaves the databases; an abrupt one also loses queued transactions and
   the rest of a reconciliation. *)
Quit ==
  /\ \/ "settled" \in world.quits /\ calls = <<>> /\ catalog.pc = "idle"
     \/ "abrupt" \in world.quits
  /\ \E p \in Pane : pane[p].phase # "closed"
  /\ calls' = <<>>
  /\ pane' = [p \in Pane |-> Closed]
  /\ catalog' = [pc |-> "idle", denied |-> FALSE, answer |-> Note, todo |-> {}]
  /\ UNCHANGED <<readable, server, stores, used, late>>

Transaction ==
  \/ RunAsk \/ RunOpen \/ RunMeasure \/ RunSize \/ RunEvictList \/ RunEvictDelete
  \/ RunCatalogList \/ RunCatalogDelete \/ RunClear

Step ==
  \/ \E p \in Pane :
       \/ Load(p) \/ Sync(p) \/ Acknowledge(p) \/ Settle(p) \/ MeasureSize(p)
       \/ EvictPins(p) \/ EvictDrop(p) \/ Fetched(p) \/ FetchFails(p)
       \/ \E n \in Note : Open(p, n) \/ Prefetch(p, n)
       \/ \E e \in Edit : Type(p, e)
  \/ \E n \in Note, pinned \in BOOLEAN : SetPinned(n, pinned)
  \/ \E denied \in BOOLEAN : Reconcile(denied)
  \/ ReconcilePins \/ ReconcileDenied \/ ReconcileDone
  \/ \E n \in Note : ReconcileDrop(n)
  \/ Transaction
  \/ \E notes \in SUBSET Note : ChangeAccess(notes)
  \/ Quit

Next == Step /\ UNCHANGED world

Spec == Init /\ [][Next]_vars
-----------------------------------------------------------------------------
(* A record that says nothing is unsent is right about it: every edit in the
   body is on the server.  It is what lets the eviction, the only other reader of
   the flag, delete the body (trackResidency, `opened`).  It takes a browser that
   runs its transactions before it goes, and access that does not come back. *)
CleanMeansSent ==
  ("abrupt" \notin world.quits /\ "regain" \notin world.access) =>
  \A n \in Residents \ (unsynced \cup catalog.todo) :
    (\A i \in DOMAIN calls : calls[i].note # n) => body[n] \subseteq server[n]

(* When a reconciliation is over, a record of a note the server did not list
   was made by a session younger than its answer: none of the older ones, however
   far it had come, brings the record back (`session`, `reconcile`). *)
RevokedStaysGone ==
  catalog.pc = "idle" => Residents \subseteq catalog.answer \cup late
=============================================================================
