----------------------------- MODULE MediaQueue -----------------------------
(* The browser's side of an upload, media-upload.ts, against the server of MediaStore.

   A picture that was made smaller goes up as two objects: the original first, then
   the display, which names the original in a header.  What cannot be sent is queued
   in IndexedDB, a record per object, and the editor gets a promise that lives as long
   as the page.  Loops of the page, started when it opens and whenever it comes online,
   send a snapshot of the queue, originals first; nothing keeps two of them apart.

   A client of MediaStore is here a loop or a paste of one page.  A record is known by
   its object: the same bytes are not queued twice at a time. *)
EXTENDS MediaStore

CONSTANT Original   \* per display, the original it was made from

ASSUME OriginalAssumption ==
  /\ Original \in [Object -> Slot]
  /\ \A d \in Object : Original[d] # None => Original[Original[d]] = None

VARIABLES
  queue,    \* IndexedDB: per object, its record
  pending,  \* displays the open page owes its editor a path for
  job,      \* per client, what the page is doing
  whole,    \* history: of these, those queued before a loop saw half of them
  given     \* history: displays whose path the editor got, sent at once or queued whole

promises == <<whole, given>>
browser == <<queue, pending, job, promises>>
allvars == <<vars, browser>>

Gone == "gone"
Records == {Gone, "queued", "known"}  \* "known": with the path of its uploaded original
Shown(o) == \A d \in Object : Original[d] # o
Dependents(o) == {d \in Object : Original[d] = o}

Nothing == [o \in Object |-> Gone]
NoJob == [kind |-> "none", step |-> "rest", at |-> None, snapshot |-> Nothing,
          todo |-> {}, resolved |-> {}]
Jobs == [kind : {"none", "paste", "flush", "single"},
         step : {"rest", "original", "display", "sent", "queue_original", "queue_display",
                 "pick", "send", "tell", "drop"},
         at : Slot, snapshot : [Object -> Records], todo : SUBSET Object,
         resolved : SUBSET Object]

QueueTypeOK ==
  /\ TypeOK
  /\ queue \in [Object -> Records] /\ pending \subseteq Object
  /\ whole \subseteq pending /\ given \subseteq Object
  /\ job \in [Client -> Jobs]

InitQueue ==
  /\ Init /\ queue = Nothing /\ pending = {} /\ whole = {} /\ given = {}
  /\ job = [c \in Client |-> NoJob]

-----------------------------------------------------------------------------
Step(c, step) == job' = [job EXCEPT ![c].step = step]
Ends(c) == job' = [job EXCEPT ![c] = NoJob]
Doing(c, kind, step) == job[c].kind = kind /\ job[c].step = step
Snapped(o) == \E c \in Client : job[c].snapshot[o] # Gone
Unused(o) == queue[o] = Gone /\ ~Snapped(o) /\ \A c \in Client : job[c].at # o
Unseen(o) == queue[o] # Gone /\ ~Snapped(o)

Heard(c, answer) == At(c, answer) /\ Answer(c)

-----------------------------------------------------------------------------
(* upload: a picture is pasted. *)
Paste(c, d) ==
  /\ job[c] = NoJob /\ At(c, "idle") /\ Shown(d) /\ Unused(d)
  /\ Original[d] # None => Unused(Original[d])
  /\ job' = [job EXCEPT ![c].kind = "paste", ![c].at = d,
                        ![c].step = IF Original[d] = None THEN "display" ELSE "original"]
  /\ UNCHANGED <<vars, queue, pending, promises>>

SendOriginal(c) ==
  /\ Doing(c, "paste", "original")
  /\ Begin(c, Original[job[c].at], "none", None)
  /\ UNCHANGED browser

SendDisplay(c) ==
  LET d == job[c].at IN
  /\ Doing(c, "paste", "display")
  /\ Begin(c, d, IF Original[d] = None THEN "none" ELSE "original", Original[d])
  /\ UNCHANGED browser

OriginalSent(c) ==
  /\ Doing(c, "paste", "original") /\ Heard(c, "created")
  /\ Step(c, "display")
  /\ UNCHANGED <<queue, pending, promises>>

DisplaySent(c) ==
  /\ Doing(c, "paste", "display") /\ Heard(c, "created")
  /\ Ends(c) /\ given' = given \cup {job[c].at}
  /\ UNCHANGED <<queue, pending, whole>>

(* A refusal is an error in the editor. *)
PasteRefused(c) ==
  /\ job[c].kind \in {"paste", "single"} /\ Heard(c, "refused")
  /\ Ends(c)
  /\ UNCHANGED <<queue, pending, promises>>

(* No connection, before, while or after the server acts: both objects are queued, *)
PasteOffline(c) ==
  /\ job[c].kind = "paste" /\ job[c].step \in {"original", "display"}
  /\ Step(c, IF Original[job[c].at] = None THEN "queue_display" ELSE "queue_original")
  /\ UNCHANGED <<vars, queue, pending, promises>>

QueueOriginal(c) ==
  /\ Doing(c, "paste", "queue_original")
  /\ queue' = [queue EXCEPT ![Original[job[c].at]] = "queued"]
  /\ Step(c, "queue_display")
  /\ UNCHANGED <<vars, pending, promises>>

(* and the editor gets a promise. *)
QueueDisplay(c) ==
  LET d == job[c].at IN
  /\ Doing(c, "paste", "queue_display")
  /\ queue' = [queue EXCEPT ![d] = "queued"]
  /\ pending' = pending \cup {d}
  /\ whole' = IF Original[d] = None \/ Unseen(Original[d]) THEN whole \cup {d} ELSE whole
  /\ Ends(c)
  /\ UNCHANGED <<vars, given>>

-----------------------------------------------------------------------------
(* flush: a snapshot of the queue, *)
StartFlush(c) ==
  /\ job[c] = NoJob /\ At(c, "idle") /\ queue # Nothing
  /\ job' = [job EXCEPT ![c] = [NoJob EXCEPT !.kind = "flush", !.step = "pick", !.snapshot = queue,
                                             !.todo = {o \in Object : queue[o] # Gone}]]
  /\ UNCHANGED <<vars, queue, pending, promises>>

(* Mutant of Pick: the queue is sent in the order of its keys. *)
PickAny(c, o) ==
  /\ Doing(c, "flush", "pick") /\ o \in job[c].todo
  /\ queue' = IF Shown(o) /\ o \notin pending THEN [queue EXCEPT ![o] = job[c].snapshot[o]]
              ELSE queue
  /\ job' = [job EXCEPT ![c].at = o, ![c].step = "send"]
  /\ UNCHANGED <<vars, pending, promises>>

(* those without an original first.  A display that another page queued is shown
   again, and its record written back as the snapshot has it. *)
Pick(c, o) ==
  /\ Doing(c, "flush", "pick") /\ o \in job[c].todo
  /\ Original[o] # None => \A x \in job[c].todo : Original[x] # None
  /\ queue' = IF Shown(o) /\ o \notin pending THEN [queue EXCEPT ![o] = job[c].snapshot[o]]
              ELSE queue
  /\ job' = [job EXCEPT ![c].at = o, ![c].step = "send"]
  /\ UNCHANGED <<vars, pending, promises>>

Send(c) ==
  LET o == job[c].at
      named == job[c].snapshot[o] = "known" \/ Original[o] \in job[c].resolved
  IN
  /\ Doing(c, "flush", "send")
  /\ Begin(c, o, IF named THEN "original" ELSE "none", IF named THEN Original[o] ELSE None)
  /\ UNCHANGED browser

Sent(c) ==
  LET o == job[c].at IN
  /\ Doing(c, "flush", "send") /\ Heard(c, "created")
  /\ job' = [job EXCEPT ![c].step = IF Shown(o) THEN "drop" ELSE "tell",
                        ![c].resolved = IF Shown(o) THEN @ ELSE @ \cup {o}]
  /\ UNCHANGED <<queue, pending, promises>>

(* The path of an uploaded original is written into the records that wait for it, *)
Tell(c) ==
  LET o == job[c].at
      told == {d \in Dependents(o) : job[c].snapshot[d] # Gone}
  IN
  /\ Doing(c, "flush", "tell")
  /\ queue' = [x \in Object |-> IF x \in told THEN "known" ELSE queue[x]]
  /\ Step(c, "drop")
  /\ UNCHANGED <<vars, pending, promises>>

(* the record goes, and the editor has its path. *)
Drop(c) ==
  LET o == job[c].at IN
  /\ Doing(c, "flush", "drop")
  /\ queue' = [queue EXCEPT ![o] = Gone]
  /\ pending' = pending \ {o} /\ whole' = whole \ {o} /\ given' = given \cup ({o} \cap whole)
  /\ job' = [job EXCEPT ![c].step = "pick", ![c].at = None, ![c].todo = @ \ {o}]
  /\ UNCHANGED vars

(* Mutant of Refused: the editor is told only of the upload that was refused. *)
RefusedAlone(c) ==
  LET o == job[c].at
      lost == {o} \cup {d \in Dependents(o) : job[c].snapshot[d] # Gone}
  IN
  /\ Doing(c, "flush", "send") /\ Heard(c, "refused")
  /\ queue' = [x \in Object |-> IF x \in lost THEN Gone ELSE queue[x]]
  /\ pending' = pending \ {o} /\ whole' = whole \ {o}
  /\ job' = [job EXCEPT ![c].step = "pick", ![c].at = None, ![c].todo = @ \ {o}]
  /\ UNCHANGED given

(* An upload that is refused leaves the queue with those that needed it, and the
   editor is told. *)
Refused(c) ==
  LET o == job[c].at
      lost == {o} \cup {d \in Dependents(o) : job[c].snapshot[d] # Gone}
  IN
  /\ Doing(c, "flush", "send") /\ Heard(c, "refused")
  /\ queue' = [x \in Object |-> IF x \in lost THEN Gone ELSE queue[x]]
  /\ pending' = pending \ lost /\ whole' = whole \ lost
  /\ job' = [job EXCEPT ![c].step = "pick", ![c].at = None, ![c].todo = @ \ {o}]
  /\ UNCHANGED given

(* No connection: the loop returns. *)
FlushOffline(c) ==
  /\ Doing(c, "flush", "send")
  /\ Ends(c)
  /\ UNCHANGED <<vars, queue, pending, promises>>

FlushEnds(c) ==
  /\ Doing(c, "flush", "pick") /\ job[c].todo = {}
  /\ Ends(c)
  /\ UNCHANGED <<vars, queue, pending, promises>>

-----------------------------------------------------------------------------
(* uploadDerived, and a clip: one request each, which is not queued. *)
Single(c, o, header, of) ==
  /\ job[c] = NoJob /\ Begin(c, o, header, of)
  /\ job' = [job EXCEPT ![c].kind = "single"]
  /\ UNCHANGED <<queue, pending, promises>>

SingleSent(c) ==
  /\ job[c].kind = "single" /\ Heard(c, "created")
  /\ Ends(c)
  /\ UNCHANGED <<queue, pending, promises>>

(* The page is closed or dies; the server finishes what it was asked. *)
PageDies ==
  /\ \E c \in Client : job[c] # NoJob \/ pending # {}
  /\ job' = [c \in Client |-> NoJob] /\ pending' = {} /\ whole' = {}
  /\ UNCHANGED <<vars, queue, given>>

NoOneListens(c) == job[c] = NoJob /\ Answer(c) /\ UNCHANGED browser

Page(c) ==
  \/ \E o \in Object : Paste(c, o) \/ Pick(c, o) \/ Single(c, o, "clip", None)
  \/ \E o, of \in Object : o # of /\ Single(c, o, "source", of)
  \/ SendOriginal(c) \/ SendDisplay(c) \/ OriginalSent(c) \/ DisplaySent(c)
  \/ PasteRefused(c) \/ PasteOffline(c) \/ QueueOriginal(c) \/ QueueDisplay(c)
  \/ StartFlush(c) \/ Send(c) \/ Sent(c) \/ Tell(c) \/ Drop(c) \/ Refused(c)
  \/ FlushOffline(c) \/ FlushEnds(c) \/ SingleSent(c) \/ NoOneListens(c)

Server == (\E c \in Client : Upload(c)) \/ Notes \/ Maintain \/ Crash

NextQueue == (\E c \in Client : Page(c)) \/ PageDies \/ (Server /\ UNCHANGED browser)

SpecQueue == InitQueue /\ [][NextQueue]_allvars
-----------------------------------------------------------------------------
(* A picture that was made from an original has it on record by the time the editor gets
   its path, if the page sent both at once or queued both before a loop saw one of them
   and is still open: however often the connection fails between the two, and however
   many loops send them, the display never goes up alone (media-upload.ts, `flush`). *)
RetainsOriginal == \A d \in given : Original[d] # None => manifest[d] # None

(* A promise does not hang: what the editor waits for is in the queue, or a loop has
   it in hand (media-upload.ts, `flush`). *)
PendingIsQueued == \A d \in pending : queue[d] # Gone
=============================================================================
