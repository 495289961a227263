----------------------------- MODULE MediaStore -----------------------------
(* The media of a vault: media.rs, and the upload, clip and maintenance of http.rs.

   An upload stores an object under the hash of its bytes and then, as the last thing
   it does, grants its uploader five minutes to save a note that cites it.  The
   maintenance loop takes the grants, reads the notes one after the other and the
   manifest of retained originals, lists the store, and removes what nothing needs,
   one object at a time; with a bucket behind the vault it also copies what is cited
   into the vault.  None of these steps excludes the others.

   An object stands for its content address.  Saving, deleting and restoring a note
   are one thing to the media: the set of objects the Markdown cites changes; a
   renamed note is one that loses its citations and another that gains them. *)
EXTENDS FiniteSets

CONSTANTS
  Object, Note, User,
  Client,     \* whoever has a request under way
  Owner,      \* per client, its user
  None,
  Backends,   \* a subset of {"local", "s3"}
  Faults      \* a subset of FaultKinds

FaultKinds == {"put",      \* an object cannot be stored
               "manifest", \* the manifest cannot be written
               "read",     \* a note or the manifest cannot be read
               "remove",   \* an object cannot be removed
               "crash"}    \* the process dies and is started again

ASSUME NoneAssumption == None \notin Object

ASSUME OwnerAssumption == Owner \in [Client -> User]

ASSUME KindsAssumption == Backends \subseteq {"local", "s3"} /\ Faults \subseteq FaultKinds

VARIABLES
  backend,  \* where objects live, from the configuration
  objects,  \* what the backend holds
  copies,   \* with a bucket: what the pass put, or found, in the vault's media/
  manifest, \* media-originals.json: per display object, its original
  cites,    \* per note, the objects its Markdown refers to
  grants,   \* uploads whose five minutes are not over, by user
  request,  \* per client, the upload or clip under way
  pass,     \* the pass of the maintenance loop
  steady,   \* history: <<note, object>> cited throughout the pass
  bound,    \* history: displays with the same original throughout the pass
  outrun    \* history: grants made after a prune had taken the grants

store == <<backend, objects, manifest>>
history == <<steady, bound, outrun>>
loop == <<copies, pass, history>>
vars == <<store, cites, grants, request, loop>>

Slot == Object \cup {None}
Resting == [pc |-> "idle", object |-> None, header |-> "none", of |-> None, raced |-> FALSE]
NoPass == [kind |-> "none", pc |-> "idle", protected |-> {}, unread |-> {},
           referenced |-> {}, left |-> {}]

Requests == [pc : {"idle", "put", "rename", "check", "retain", "grant", "note",
                   "created", "refused"},
             object : Slot, header : {"none", "source", "original", "clip"}, of : Slot,
             raced : BOOLEAN]
Passes == [kind : {"none", "prune", "materialize"},
           pc : {"idle", "read", "manifest", "list", "remove", "copy"},
           protected : SUBSET Object, unread : SUBSET Note,
           referenced : SUBSET Object, left : SUBSET Object]

(* Types; a request past its beginning has an object, and one with a header names another. *)
TypeOK ==
  /\ backend \in Backends /\ objects \subseteq Object /\ copies \subseteq Object
  /\ manifest \in [Object -> Slot] /\ cites \in [Note -> SUBSET Object]
  /\ grants \subseteq User \X Object
  /\ request \in [Client -> Requests] /\ pass \in Passes
  /\ steady \subseteq Note \X Object /\ bound \subseteq Object /\ outrun \subseteq grants
  /\ \A c \in Client :
       /\ request[c].pc # "idle" => request[c].object # None
       /\ request[c].pc \in {"check", "retain"} => request[c].of # None

Init ==
  /\ backend \in Backends
  /\ objects = {} /\ copies = {} /\ manifest = [o \in Object |-> None]
  /\ cites = [n \in Note |-> {}] /\ grants = {}
  /\ request = [c \in Client |-> Resting] /\ pass = NoPass
  /\ steady = {} /\ bound = {} /\ outrun = {}

-----------------------------------------------------------------------------
(* The upload. *)
Pruning == pass.kind = "prune"
Cited == UNION {cites[n] : n \in Note}
Staged(c, o) == <<Owner[c], o>> \in grants
At(c, step) == request[c].pc = step
Go(c, step) == request' = [request EXCEPT ![c].pc = step]
Done(c, step) ==
  request' = [request EXCEPT ![c] = [Resting EXCEPT !.pc = step, !.object = request[c].object]]

Begin(c, o, header, of) ==
  /\ At(c, "idle")
  /\ request' = [request EXCEPT ![c] = [Resting EXCEPT !.pc = "put", !.object = o,
                                                       !.header = header, !.of = of]]
  /\ UNCHANGED <<store, cites, grants, loop>>

AfterPut(header) ==
  IF header = "none" THEN "grant" ELSE IF header = "clip" THEN "note" ELSE "check"

Stored(c) ==
  /\ objects' = objects \cup {request[c].object}
  /\ request' = [request EXCEPT ![c].pc = AfterPut(request[c].header), ![c].raced = Pruning]
  /\ UNCHANGED <<backend, manifest, cites, grants, loop>>

(* Store::put: a bucket takes the object at once; the vault gets a temporary file,
   unless the object is there already, *)
Put(c) ==
  /\ At(c, "put")
  /\ IF backend = "local" /\ request[c].object \notin objects
     THEN Go(c, "rename") /\ UNCHANGED <<store, cites, grants, loop>>
     ELSE Stored(c)

(* which is renamed. *)
Rename(c) == At(c, "rename") /\ Stored(c)

(* A prune may list the temporary file, whose name has the form of an object's, or
   remove its directory, which is still empty.  A clip goes on without the picture. *)
PutFails(c) ==
  /\ At(c, "put") \/ At(c, "rename")
  /\ "put" \in Faults \/ (Pruning /\ backend = "local")
  /\ Done(c, "refused")
  /\ UNCHANGED <<store, cites, grants, loop>>

(* Mutant of Check: only what has an original of its own can be a source. *)
CheckChained(c) ==
  LET header == request[c].header
      of == request[c].of
  IN
  /\ At(c, "check")
  /\ IF Staged(c, of) \/ (header = "source" /\ of \in Cited)
     THEN request' = [request EXCEPT
            ![c].pc = "retain", ![c].of = IF header = "source" THEN manifest[of] ELSE of]
     ELSE Done(c, "refused")
  /\ UNCHANGED <<store, cites, grants, loop>>

(* A source has to be cited by a note the user may read (here: by a note) or staged by
   the user, and stands for its own original; an original has to be staged. *)
Check(c) ==
  LET header == request[c].header
      of == request[c].of
  IN
  /\ At(c, "check")
  /\ IF Staged(c, of) \/ (header = "source" /\ of \in Cited)
     THEN request' = [request EXCEPT
            ![c].pc = "retain",
            ![c].of = IF header = "source" /\ manifest[of] # None THEN manifest[of] ELSE of]
     ELSE Done(c, "refused")
  /\ UNCHANGED <<store, cites, grants, loop>>

(* retain_original, under the mutex of the manifest. *)
Retain(c) ==
  LET display == request[c].object
      original == request[c].of
  IN
  /\ At(c, "retain")
  /\ manifest' = [manifest EXCEPT ![display] = original]
  /\ bound' = IF manifest[display] = original THEN bound ELSE bound \ {display}
  /\ request' = [request EXCEPT ![c].pc = "grant", ![c].header = "none", ![c].of = None]
  /\ UNCHANGED <<backend, objects, cites, grants, copies, pass, steady, outrun>>

RetainFails(c) ==
  /\ "manifest" \in Faults /\ At(c, "retain")
  /\ Done(c, "refused")
  /\ UNCHANGED <<store, cites, grants, loop>>

(* The last step of an upload. *)
Grant(c) ==
  LET o == request[c].object
      grant == <<Owner[c], o>>
  IN
  /\ At(c, "grant")
  /\ grants' = grants \cup {grant}
  /\ outrun' = IF request[c].raced /\ grant \notin grants /\ (Pruning \/ o \notin objects)
               THEN outrun \cup {grant} ELSE outrun
  /\ Done(c, "created")
  /\ UNCHANGED <<store, cites, copies, pass, steady, bound>>

Answer(c) ==
  /\ At(c, "created") \/ At(c, "refused")
  /\ request' = [request EXCEPT ![c] = Resting]
  /\ UNCHANGED <<store, cites, grants, loop>>

-----------------------------------------------------------------------------
(* The notes. *)
Cite(n, os) ==
  /\ cites' = [cites EXCEPT ![n] = os]
  /\ steady' = {s \in steady : s[1] = n => s[2] \in os}

(* The Markdown of a note is written, by the server or by another program. *)
Save(n, os) ==
  /\ cites[n] # os
  /\ Cite(n, os)
  /\ UNCHANGED <<store, grants, request, copies, pass, bound, outrun>>

(* clip_note: a new note cites the picture that was stored for it, without a grant. *)
Clip(c, n) ==
  /\ At(c, "note") /\ cites[n] = {}
  /\ Cite(n, {request[c].object})
  /\ Done(c, "created")
  /\ UNCHANGED <<store, grants, copies, pass, bound, outrun>>

(* Five minutes are over. *)
Expire(u, o) ==
  /\ <<u, o>> \in grants
  /\ grants' = grants \ {<<u, o>>} /\ outrun' = outrun \ {<<u, o>>}
  /\ UNCHANGED <<store, cites, request, copies, pass, steady, bound>>

-----------------------------------------------------------------------------
(* The maintenance loop. *)
Referencing(kind, protected) ==
  /\ pass.kind = "none"
  /\ pass' = [NoPass EXCEPT !.kind = kind, !.pc = "read", !.unread = Note,
                            !.protected = protected]
  /\ steady' = {s \in Note \X Object : s[2] \in cites[s[1]]}
  /\ bound' = {o \in Object : manifest[o] # None}
  /\ UNCHANGED <<store, cites, grants, copies, outrun>>

(* Uploads under way that the pass has not seen the grants of. *)
Raced ==
  [c \in Client |-> [request[c] EXCEPT
     !.raced = @ \/ request[c].pc \in {"check", "retain", "grant", "note"}]]

(* Mutant of StartPrune: the grants are not taken. *)
StartPruneUnprotected ==
  /\ Referencing("prune", {})
  /\ request' = Raced

(* prune_media takes the grants that have not run out, *)
StartPrune ==
  /\ Referencing("prune", {g[2] : g \in grants})
  /\ request' = Raced

(* materialize_media passes over vaults without a bucket. *)
StartMaterialize ==
  /\ backend = "s3" /\ Referencing("materialize", {}) /\ UNCHANGED request

(* references: note by note, *)
ReadNote(n) ==
  /\ pass.pc = "read" /\ n \in pass.unread
  /\ pass' = [pass EXCEPT !.unread = @ \ {n}, !.referenced = @ \cup cites[n],
                          !.pc = IF pass.unread = {n} THEN "manifest" ELSE "read"]
  /\ UNCHANGED <<store, cites, grants, request, copies, history>>

(* Mutant of ReadManifest: the originals are forgotten. *)
ReadManifestSkipped ==
  /\ pass.pc = "manifest"
  /\ pass' = IF Pruning THEN [pass EXCEPT !.pc = "list"]
             ELSE [NoPass EXCEPT !.kind = "materialize", !.pc = "copy", !.left = pass.referenced]
  /\ UNCHANGED <<store, cites, grants, request, copies, history>>

(* and the originals of the displays among them. *)
ReadManifest ==
  LET all == pass.referenced \cup ({manifest[d] : d \in pass.referenced} \ {None}) IN
  /\ pass.pc = "manifest"
  /\ pass' = IF Pruning THEN [pass EXCEPT !.pc = "list", !.referenced = all]
             ELSE [NoPass EXCEPT !.kind = "materialize", !.pc = "copy", !.left = all]
  /\ UNCHANGED <<store, cites, grants, request, copies, history>>

(* What the backend lists and neither a reference nor a grant holds. *)
ListStore ==
  /\ pass.pc = "list"
  /\ pass' = [NoPass EXCEPT !.kind = "prune", !.pc = "remove",
                            !.left = objects \ (pass.referenced \cup pass.protected)]
  /\ UNCHANGED <<store, cites, grants, request, copies, history>>

Remove(o) ==
  /\ pass.pc = "remove" /\ o \in pass.left
  /\ objects' = objects \ {o}
  /\ pass' = [pass EXCEPT !.left = @ \ {o}]
  /\ UNCHANGED <<backend, manifest, cites, grants, request, copies, history>>

(* Mutant of Copy: an object the bucket does not have is passed over. *)
CopyLenient(o) ==
  /\ pass.pc = "copy" /\ o \in pass.left
  /\ copies' = IF o \in objects THEN copies \cup {o} ELSE copies
  /\ pass' = [pass EXCEPT !.left = @ \ {o}]
  /\ UNCHANGED <<store, cites, grants, request, history>>

(* write_exact, for an object the bucket has; *)
Copy(o) ==
  /\ pass.pc = "copy" /\ o \in pass.left /\ o \in objects
  /\ copies' = copies \cup {o}
  /\ pass' = [pass EXCEPT !.left = @ \ {o}]
  /\ UNCHANGED <<store, cites, grants, request, history>>

(* The pass is over.  What a raced grant is for and is still there is safe from now on:
   the next prune will have seen the grant. *)
Over ==
  /\ copies' = {} /\ pass' = NoPass /\ steady' = {} /\ bound' = {} /\ outrun' = {g \in outrun : g[2] \notin objects}
  /\ UNCHANGED <<store, cites, grants, request>>

Finish == pass.pc \in {"remove", "copy"} /\ pass.left = {} /\ Over

(* Mutant of Fails: a note that cannot be read is passed over. *)
FailsLenient ==
  \/ /\ "read" \in Faults /\ pass.pc = "read"
     /\ pass' = [pass EXCEPT !.unread = {}, !.pc = "manifest"]
     /\ UNCHANGED <<store, cites, grants, request, copies, history>>
  \/ /\ \/ "read" \in Faults /\ pass.pc = "manifest"
        \/ "remove" \in Faults /\ pass.pc = "remove" /\ pass.left # {}
        \/ pass.pc = "copy" /\ pass.left \ objects # {}
     /\ Over

(* A note that cannot be read ends the pass, as does an object that cannot be removed
   or, for the copies, one the bucket does not have. *)
Fails ==
  /\ \/ "read" \in Faults /\ pass.pc \in {"read", "manifest"}
     \/ "remove" \in Faults /\ pass.pc = "remove" /\ pass.left # {}
     \/ pass.pc = "copy" /\ pass.left \ objects # {}
  /\ Over

(* The files stay.  The grants were in memory. *)
Crash ==
  /\ "crash" \in Faults
  /\ grants' = {} /\ request' = [c \in Client |-> Resting]
  /\ copies' = {} /\ pass' = NoPass /\ steady' = {} /\ bound' = {} /\ outrun' = {}
  /\ UNCHANGED <<store, cites>>

Upload(c) ==
  Put(c) \/ Rename(c) \/ PutFails(c) \/ Check(c) \/ Retain(c) \/ RetainFails(c) \/ Grant(c)

Notes ==
  \/ \E n \in Note : (\E os \in SUBSET Object : Save(n, os)) \/ \E c \in Client : Clip(c, n)
  \/ \E u \in User, o \in Object : Expire(u, o)

Maintain ==
  \/ StartPrune \/ StartMaterialize \/ ReadManifest \/ ListStore \/ Finish \/ Fails
  \/ \E n \in Note : ReadNote(n)
  \/ \E o \in Object : Remove(o) \/ Copy(o)

Next ==
  \/ \E c \in Client :
       \/ \E o \in Object, header \in {"none", "clip"} : Begin(c, o, header, None)
       \/ \E o, of \in Object, header \in {"source", "original"} : Begin(c, o, header, of)
       \/ Upload(c) \/ Answer(c)
  \/ Notes \/ Maintain \/ Crash

Spec == Init /\ [][Next]_vars
-----------------------------------------------------------------------------
Removed == objects \ objects'

(* A prune removes no object that one note cited from the start of the pass until the
   removal, whatever else was saved, uploaded or granted meanwhile (media.rs,
   `references`, `prune_orphaned`). *)
CitedSurvive == [][\A s \in steady : s[2] \notin Removed]_vars

(* The same for the original of such an object, if the manifest held it throughout. *)
OriginalsSurvive ==
  [][\A s \in steady : s[2] \in bound => manifest[s[2]] \notin Removed]_vars

(* While the five minutes of an upload last its object is there, unless a prune had
   taken the grants between the storing and the granting (http.rs, `prune_media`). *)
GrantHolds == \A g \in grants \ outrun : g[2] \in objects

(* When a copying pass is through, the vault holds every object that a note cited
   throughout, and its original (media.rs, `materialize`). *)
SelfContained ==
  pass.pc = "copy" /\ pass.left = {} =>
    \A s \in steady : s[2] \in copies /\ (s[2] \in bound => manifest[s[2]] \in copies)
=============================================================================
