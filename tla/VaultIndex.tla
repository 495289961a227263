----------------------------- MODULE VaultIndex -----------------------------
(* The index of a vault against the files it describes: the maintenance loop of
   serve_listener (http.rs), indexing.rs, and mb-index's reconcile, upsert and
   publish, fed by the signal of WatchSignal.

   Files change at any time.  The index learns of it from the watcher, which may
   lose events, or from a walk over the vault that compares stamps; it reads a
   note in three steps (stamp, text, rows), and the rows of a note are committed
   one note at a time while the full-text documents wait for one commit at the
   end.  A stamp (length and modification time) tells changes apart: one that
   leaves both alone is outside the model, as it is outside the walk. *)
EXTENDS WatchSignal

CONSTANTS
  Text,       \* what a note may say
  Absent,     \* no file, no row, no document
  Keep,       \* nothing queued for the full-text index
  MaxWrites,  \* bound: changes of files
  Faults      \* a subset of FaultKinds

FaultKinds == {"crash",    \* the process dies and is started again
               "lost",     \* the platform drops an event
               "read",     \* a note cannot be read, the vault not be listed
               "sql",      \* a row cannot be committed
               "publish"}  \* the full-text index refuses a document or its commit

ASSUME FaultsAssumption == Faults \subseteq FaultKinds

ASSUME MaxWritesAssumption == MaxWrites \in Nat

VARIABLES
  file,    \* per path, its text and its stamp
  writes,  \* changes of files so far; a change stamps with its number
  events,  \* changes the platform has not delivered yet
  row,     \* SQLite: per path, the text its rows were made from and its stamp
  found,   \* full-text: per path, the published documents
  queued,  \* full-text: per path, what the next commit changes
  job,     \* the maintenance tick
  steady,  \* history: paths unchanged, and read when tried, since the walk began
  lost     \* history: an event was lost

index == <<row, found, queued>>
vars == <<signal, file, writes, events, index, job, steady, lost>>

Texts == Text \cup {Absent}
Stamps == 0..MaxWrites
Idle == [pc |-> "idle", full |-> FALSE, present |-> {}, todo |-> {}, at |-> {},
         stamp |-> 0, text |-> Absent]

IndexTypeOK ==
  /\ TypeOK
  /\ file \in [Path -> [text : Texts, stamp : Stamps]] /\ writes \in Stamps
  /\ events \subseteq Path
  /\ row \in [Path -> [text : Texts, stamp : Stamps]]
  /\ found \in [Path -> Texts] /\ queued \in [Path -> Texts \cup {Keep}]
  /\ job \in [pc : {"down", "idle", "tick", "list", "reconcile", "next", "read",
                    "upsert", "publish"},
              full : BOOLEAN, present : SUBSET Path, todo : SUBSET Path,
              at : SUBSET Path, stamp : Stamps, text : Texts]
  /\ Cardinality(job.at) <= 1 /\ steady \subseteq Path
  /\ lost \in BOOLEAN

NoRow == [text |-> Absent, stamp |-> 0]

(* A vault that was never indexed; the server has just been started. *)
InitIndex ==
  /\ Init
  /\ file \in [Path -> {[text |-> t, stamp |-> 0] : t \in Texts}]
  /\ writes = 0 /\ events = {}
  /\ row = [p \in Path |-> NoRow]
  /\ found = [p \in Path |-> Absent] /\ queued = [p \in Path |-> Keep]
  /\ job = [Idle EXCEPT !.pc = "down"]
  /\ steady = {} /\ lost = FALSE

-----------------------------------------------------------------------------
(* The files. *)
Put(p, t) ==
  /\ file' = [file EXCEPT ![p] = [text |-> t, stamp |-> IF t = Absent THEN 0 ELSE writes + 1]]
  /\ writes' = writes + 1
  /\ events' = IF job.pc = "down" THEN events ELSE events \cup {p}
  /\ steady' = steady \ {p}

(* Another program, or a handler of the server, replaces, touches or deletes. *)
Write(p, t) ==
  /\ writes < MaxWrites /\ (t # Absent \/ file[p].text # Absent)
  /\ Put(p, t)
  /\ UNCHANGED <<signal, index, job, lost>>

(* The watcher delivers an event, does not understand it, or never gets it. *)
Deliver(p) ==
  /\ p \in events /\ events' = events \ {p}
  /\ \/ (TouchInsert(p) \/ TouchClear(p) \/ Overflowed) /\ UNCHANGED lost
     \/ "lost" \in Faults /\ lost' = TRUE /\ UNCHANGED signal
  /\ UNCHANGED <<file, writes, index, job, steady>>

FinishTouch ==
  TouchFlag /\ UNCHANGED <<file, writes, events, index, job, steady, lost>>

-----------------------------------------------------------------------------
(* The tick of the maintenance loop: it takes the signal, *)
Take ==
  /\ \/ job.pc = "idle" /\ TakeSwap /\ UNCHANGED job
     \/ job.pc = "idle" /\ (TakeClear \/ TakeSet) /\ job' = [job EXCEPT !.pc = "tick"]
  /\ UNCHANGED <<file, writes, events, index, steady, lost>>

Begin(full, paths) ==
  job' = [Idle EXCEPT !.full = full,
            !.todo = IF full THEN {} ELSE paths,
            !.pc = IF full THEN "list" ELSE IF paths = {} THEN "idle" ELSE "next"]

(* the sync pass writes the notes whose rooms are due, *)
Flush(p, t) ==
  /\ job.pc = "tick" /\ writes < MaxWrites /\ t # Absent
  /\ Put(p, t)
  /\ job' = [job EXCEPT !.todo = @ \cup {p}]
  /\ UNCHANGED <<signal, index, lost>>

(* and the index gets what was taken, widened by the recovery sweep of the open
   notes (`sweep`) or by its own walk (`walk`), and the notes just written. *)
Maintain(sweep, walk) ==
  /\ job.pc = "tick"
  /\ Begin(given.all \/ sweep \/ walk, given.paths \cup job.todo)
  /\ UNCHANGED <<signal, file, writes, events, index, steady, lost>>

(* Mutant of List: a note that is indexed is taken to be current. *)
ListKnown ==
  /\ job.pc = "list"
  /\ job' = [job EXCEPT !.pc = "reconcile",
               !.present = {p \in Path : file[p].text # Absent},
               !.todo = {p \in Path : file[p].text # Absent /\ row[p].text = Absent}]
  /\ steady' = Path
  /\ UNCHANGED <<signal, file, writes, events, index, lost>>

(* reconcile: every note is listed and stamped, *)
List ==
  /\ job.pc = "list"
  /\ job' = [job EXCEPT !.pc = "reconcile",
               !.present = {p \in Path : file[p].text # Absent},
               !.todo = {p \in Path : file[p].text # Absent
                                        /\ (row[p].text = Absent \/ row[p].stamp # file[p].stamp)}]
  /\ steady' = Path
  /\ UNCHANGED <<signal, file, writes, events, index, lost>>

(* and rows of notes that are gone go. *)
Reconcile ==
  LET removed == {p \in Path \ job.present : row[p].text # Absent} IN
  /\ job.pc = "reconcile"
  /\ row' = [p \in Path |-> IF p \in removed THEN NoRow ELSE row[p]]
  /\ queued' = [p \in Path |-> IF p \in removed THEN Absent ELSE queued[p]]
  /\ job' = [job EXCEPT !.pc = "next"]
  /\ UNCHANGED <<signal, file, writes, events, found, steady, lost>>

(* reindex: a note that is gone loses its rows, another is stamped, *)
StampNote(p) ==
  /\ job.pc = "next" /\ p \in job.todo
  /\ IF file[p].text = Absent
     THEN /\ row' = [row EXCEPT ![p] = NoRow]
          /\ queued' = IF row[p].text = Absent THEN queued ELSE [queued EXCEPT ![p] = Absent]
          /\ job' = [job EXCEPT !.todo = @ \ {p}]
     ELSE /\ job' = [job EXCEPT !.todo = @ \ {p}, !.at = {p}, !.pc = "read",
                                !.stamp = file[p].stamp]
          /\ UNCHANGED <<row, queued, lost>>
  /\ UNCHANGED <<signal, file, writes, events, found, steady, lost>>

(* then read; one that cannot be read is left for the next walk, *)
ReadNote(p) ==
  /\ job.pc = "read" /\ p \in job.at
  /\ \/ /\ file[p].text # Absent
        /\ job' = [job EXCEPT !.pc = "upsert", !.text = file[p].text]
        /\ UNCHANGED steady
     \/ /\ file[p].text = Absent \/ "read" \in Faults
        /\ job' = [job EXCEPT !.pc = "next", !.at = {}]
        /\ steady' = steady \ {p}
  /\ UNCHANGED <<signal, file, writes, events, index, lost>>

(* Mutant of Upsert: the stamp is taken after the text. *)
UpsertStampedLate(p) ==
  /\ job.pc = "upsert" /\ p \in job.at
  /\ row' = [row EXCEPT ![p] = [text |-> job.text, stamp |-> file[p].stamp]]
  /\ queued' = IF row[p].text = job.text THEN queued ELSE [queued EXCEPT ![p] = job.text]
  /\ job' = [job EXCEPT !.pc = "next", !.at = {}, !.text = Absent]
  /\ UNCHANGED <<signal, file, writes, events, found, steady, lost>>

(* then written: the rows of a text already indexed only get the new stamp. *)
Upsert(p) ==
  /\ job.pc = "upsert" /\ p \in job.at
  /\ row' = [row EXCEPT ![p] = [text |-> job.text, stamp |-> job.stamp]]
  /\ queued' = IF row[p].text = job.text THEN queued ELSE [queued EXCEPT ![p] = job.text]
  /\ job' = [job EXCEPT !.pc = "next", !.at = {}, !.text = Absent]
  /\ UNCHANGED <<signal, file, writes, events, found, steady, lost>>

(* A failure ends the pass and what was queued stays queued: rows that cannot be
   committed, or documents refused when the rows already are and the old documents
   are to go. *)
UpsertFails(p) ==
  /\ job.pc = "upsert" /\ p \in job.at
  /\ \/ "sql" \in Faults /\ UNCHANGED <<row, queued>>
     \/ /\ "publish" \in Faults /\ row[p].text # job.text
        /\ row' = [row EXCEPT ![p] = [text |-> job.text, stamp |-> job.stamp]]
        /\ queued' = [queued EXCEPT ![p] = Absent]
  /\ job' = Idle /\ steady' = {}
  /\ UNCHANGED <<signal, file, writes, events, found, lost>>

(* So does a vault that cannot be listed, and a row that cannot be removed. *)
PassFails ==
  /\ \/ "read" \in Faults /\ job.pc = "list"
     \/ "sql" \in Faults /\ job.pc = "reconcile"
     \/ "sql" \in Faults /\ job.pc = "next" /\ \E p \in job.todo : file[p].text = Absent
  /\ job' = Idle /\ steady' = {}
  /\ UNCHANGED <<signal, file, writes, events, index, lost>>

Settled ==
  /\ job.pc = "next" /\ job.todo = {}
  /\ job' = [job EXCEPT !.pc = "publish"]
  /\ UNCHANGED <<signal, file, writes, events, index, steady, lost>>

Merged == [p \in Path |-> IF queued[p] = Keep THEN found[p] ELSE queued[p]]

Publish ==
  /\ job.pc = "publish"
  /\ found' = Merged
  /\ queued' = [p \in Path |-> Keep]
  /\ job' = Idle /\ steady' = {}
  /\ UNCHANGED <<signal, file, writes, events, row, lost>>

(* A commit that fails may or may not keep what was queued. *)
PublishFails ==
  /\ "publish" \in Faults /\ job.pc = "publish"
  /\ queued' \in {queued, [p \in Path |-> Keep]}
  /\ job' = Idle /\ steady' = {}
  /\ UNCHANGED <<signal, file, writes, events, row, found, lost>>

-----------------------------------------------------------------------------
(* The process dies: both databases keep what was committed. *)
Crash ==
  /\ "crash" \in Faults /\ job.pc # "down"
  /\ dirty' = {} /\ overflow' = FALSE /\ clearing' = FALSE /\ taking' = "no"
  /\ given' = Only({}) /\ fresh' = {} /\ waiting' = {}
  /\ events' = {} /\ queued' = [p \in Path |-> Keep]
  /\ job' = [Idle EXCEPT !.pc = "down"]
  /\ steady' = {}
  /\ UNCHANGED <<file, writes, row, found, lost>>

(* It is started: the watchers first, then one half of the index is emptied if
   the other is empty, then the vault is walked before the first request. *)
Start ==
  /\ job.pc = "down"
  /\ row' = IF \A p \in Path : found[p] = Absent THEN [p \in Path |-> NoRow] ELSE row
  /\ found' = IF \A p \in Path : row[p].text = Absent
              THEN [p \in Path |-> Absent] ELSE found
  /\ Begin(TRUE, {})
  /\ UNCHANGED <<signal, file, writes, events, queued, steady, lost>>

Walking ==
  List \/ Reconcile \/ Settled \/ Publish \/ \E p \in Path : StampNote(p) \/ ReadNote(p) \/ Upsert(p)

NextIndex ==
  \/ \E p \in Path :
       Deliver(p) \/ UpsertFails(p) \/ \E t \in Texts : Write(p, t) \/ Flush(p, t)
  \/ FinishTouch \/ Take
  \/ \E sweep, walk \in BOOLEAN : Maintain(sweep, walk)
  \/ Walking \/ PassFails \/ PublishFails \/ Crash \/ Start

SpecIndex == InitIndex /\ [][NextIndex]_vars

(* The loop ticks, a pass goes on to its end, the watcher's thread runs. *)
Running ==
  /\ WF_vars(Start) /\ WF_vars(Take) /\ WF_vars(FinishTouch) /\ WF_vars(Walking)
  /\ WF_vars(\E p \in Path : Deliver(p))
  /\ WF_vars(\E sweep, walk \in BOOLEAN : Maintain(sweep, walk))

FairSpec == SpecIndex /\ Running
-----------------------------------------------------------------------------
(* When a walk is through, every note that did not change meanwhile has the rows
   of its text, whatever was changing while earlier passes read it and whatever
   failed in them (indexing.rs, `reconcile`; write.rs, `Stamp`). *)
WalkIsRight ==
  job.pc = "publish" /\ job.full => \A p \in steady : row[p].text = file[p].text

(* Once files stop changing, the rows and documents of every note are those of
   its text and stay so: *)
CatchesUp == <>[](\A p \in Path : row[p].text = file[p].text /\ found[p] = file[p].text)

(* the hint does it alone where no event is lost (watch.rs, `touch`, `take`), *)
HintCatchesUp == []~lost => CatchesUp

(* and the walk, if it comes round again and again, whatever is lost (http.rs,
   RECOVERY_SWEEP_INTERVAL, INDEX_SWEEP_INTERVAL). *)
WalkCatchesUp == []<>(job.pc = "list") => CatchesUp
=============================================================================
