-------------------------- MODULE MediaQueue_proofs --------------------------
(* Proofs about MediaStore and MediaQueue, for any sets of objects, notes, users and
   clients, any backend and any faults.  A pass is judged by what it has still to look at:
   what one note cites all along is in a note that has not been read or among the
   references, then not among what is to be removed, or still to be copied or copied.  The
   page is a client of the store; a loop of it is judged by its snapshot. *)
EXTENDS MediaQueue, TLAPS

(* What names an original has one, and only such a request is checked. *)
RequestShape ==
  \A c \in Client :
    /\ request[c].header \in {"source", "original"} => request[c].of \in Object
    /\ request[c].pc = "check" => request[c].header \in {"source", "original"}

ShapeInv == TypeOK /\ RequestShape

(* A stored upload that no prune has overtaken is there, and none is under way. *)
Ahead ==
  \A c \in Client :
    request[c].pc \in {"check", "retain", "grant"} /\ ~request[c].raced =>
      request[c].object \in objects /\ ~Pruning

(* A grant that has not been outrun is one the pass has taken. *)
Covered ==
  \A g \in grants \ outrun :
    /\ g[2] \in objects
    /\ Pruning /\ pass.pc # "remove" => g[2] \in pass.protected
    /\ pass.pc = "remove" => g[2] \notin pass.left

(* Only a prune lists the store and removes. *)
Phased == pass.pc \in {"list", "remove"} => Pruning

GrantInv == Phased /\ Ahead /\ Covered

(* What is still to be read, found, kept or copied of what was cited all along, *)
Reaches(o) ==
  /\ pass.pc \in {"manifest", "list"} => o \in pass.referenced
  /\ pass.pc = "remove" => o \notin pass.left
  /\ pass.pc = "copy" => o \in pass.left \cup copies

CitedInv ==
  \A s \in steady :
    /\ s[2] \in cites[s[1]]
    /\ pass.pc = "read" => s[1] \in pass.unread \/ s[2] \in pass.referenced
    /\ Reaches(s[2])

(* and of the originals, which come with the manifest. *)
OriginalsInv ==
  /\ \A o \in bound : manifest[o] # None
  /\ \A s \in steady : s[2] \in bound /\ pass.pc # "manifest" => Reaches(manifest[s[2]])

PassInv == CitedInv /\ OriginalsInv

-----------------------------------------------------------------------------
(* The initial state has every part. *)
LEMMA InitInv == Init => ShapeInv /\ GrantInv /\ PassInv
<1> USE DEF Init, Resting, NoPass, Slot
<1>1. ASSUME Init PROVE TypeOK
  BY <1>1, KindsAssumption DEF TypeOK, Requests, Passes
<1>2. ASSUME Init PROVE RequestShape /\ GrantInv /\ PassInv
  BY <1>2 DEF RequestShape, GrantInv, Phased, Ahead, Covered, PassInv, CitedInv, OriginalsInv
<1> QED BY <1>1, <1>2 DEF ShapeInv

(* What a request is after a step of its own. *)
LEMMA RequestTyped ==
  ASSUME ShapeInv, NEW c \in Client, NEW r \in Requests,
         request' = [request EXCEPT ![c] = r],
         r.pc # "idle" => r.object # None,
         r.pc \in {"check", "retain"} => r.of # None,
         r.header \in {"source", "original"} => r.of \in Object,
         r.pc = "check" => r.header \in {"source", "original"}
  PROVE  /\ request' \in [Client -> Requests]
         /\ \A d \in Client :
              /\ request'[d].pc # "idle" => request'[d].object # None
              /\ request'[d].pc \in {"check", "retain"} => request'[d].of # None
         /\ RequestShape'
<1>1. request \in [Client -> Requests] BY DEF ShapeInv, TypeOK
<1>2. \A d \in Client : request'[d] = IF d = c THEN r ELSE request[d] BY <1>1
<1>3. request' \in [Client -> Requests] BY <1>1
<1>4. \A d \in Client :
        /\ request'[d].pc # "idle" => request'[d].object # None
        /\ request'[d].pc \in {"check", "retain"} => request'[d].of # None
  BY <1>2 DEF ShapeInv, TypeOK
<1>5. RequestShape' BY <1>2 DEF ShapeInv, RequestShape
<1> QED BY <1>3, <1>4, <1>5

(* The requests keep their types. *)
LEMMA UploadTyped ==
  ASSUME ShapeInv, NEW c \in Client,
         \/ Upload(c) \/ Answer(c)
         \/ \E o \in Object, header \in {"none", "clip"} : Begin(c, o, header, None)
         \/ \E o, of \in Object, header \in {"source", "original"} : Begin(c, o, header, of)
  PROVE  ShapeInv'
<1> DEFINE q == request[c]
<1>0. /\ request \in [Client -> Requests] /\ q \in Requests /\ Resting \in Requests
      /\ q.pc # "idle" => q.object \in Object
      /\ q.pc \in {"check", "retain"} => q.of \in Object
      /\ q.header \in {"source", "original"} => q.of \in Object
      /\ q.pc = "check" => q.header \in {"source", "original"}
  BY DEF ShapeInv, RequestShape, TypeOK, Requests, Slot, Resting
<1>1. ASSUME NEW o \in Object, NEW header \in {"none", "clip", "source", "original"},
             NEW of \in Slot, header \in {"source", "original"} => of \in Object,
             Begin(c, o, header, of)
      PROVE  ShapeInv'
  <2> DEFINE r == [Resting EXCEPT !.pc = "put", !.object = o, !.header = header, !.of = of]
  <2>1. r \in Requests /\ r.object # None
    BY <1>1, NoneAssumption DEF Resting, Requests, Slot
  <2>2. request' = [request EXCEPT ![c] = r] BY <1>1 DEF Begin
  <2>3. /\ request' \in [Client -> Requests] /\ RequestShape'
        /\ \A d \in Client :
              /\ request'[d].pc # "idle" => request'[d].object # None
              /\ request'[d].pc \in {"check", "retain"} => request'[d].of # None
    <3>1. r.pc = "put" /\ r.header = header /\ r.of = of BY DEF Resting
    <3> HIDE DEF r
    <3> QED BY <1>1, <2>1, <2>2, <3>1, RequestTyped
  <2> QED BY <1>1, <2>3 DEF Begin, ShapeInv, TypeOK, store, loop, history
<1> DEFINE Changed(r) == r \in Requests /\ request' = [request EXCEPT ![c] = r]
           Fits(r) == /\ r.pc # "idle" => r.object # None
                      /\ r.pc \in {"check", "retain"} => r.of # None
                      /\ r.header \in {"source", "original"} => r.of \in Object
                      /\ r.pc = "check" => r.header \in {"source", "original"}
<1>2. ASSUME NEW r, Changed(r), Fits(r),
             store' = store /\ cites' = cites /\ loop' = loop /\ grants' = grants
      PROVE  ShapeInv'
  <2>1. /\ request' \in [Client -> Requests] /\ RequestShape'
        /\ \A d \in Client :
              /\ request'[d].pc # "idle" => request'[d].object # None
              /\ request'[d].pc \in {"check", "retain"} => request'[d].of # None
    BY <1>2, RequestTyped
  <2> QED BY <1>2, <2>1 DEF ShapeInv, TypeOK, store, loop, history
<1>3. ASSUME Stored(c), At(c, "put") \/ At(c, "rename") PROVE ShapeInv'
  <2> DEFINE r == [q EXCEPT !.pc = AfterPut(q.header), !.raced = Pruning]
  <2>1. Changed(r) /\ Fits(r)
    BY <1>0, <1>3, NoneAssumption DEF Stored, AfterPut, Requests, Pruning, Slot, At
  <2>2. /\ request' \in [Client -> Requests] /\ RequestShape'
        /\ \A d \in Client :
              /\ request'[d].pc # "idle" => request'[d].object # None
              /\ request'[d].pc \in {"check", "retain"} => request'[d].of # None
    <3> HIDE DEF r
    <3> QED BY <2>1, RequestTyped
  <2>3. objects' \subseteq Object
    BY <1>0, <1>3 DEF Stored, ShapeInv, TypeOK, At
  <2> QED BY <1>3, <2>2, <2>3 DEF Stored, ShapeInv, TypeOK, loop, history
<1>4. ASSUME Put(c) PROVE ShapeInv'
  <2>1. CASE Stored(c) BY <1>3, <1>4, <2>1 DEF Put
  <2>2. CASE Go(c, "rename") /\ UNCHANGED <<store, cites, grants, loop>>
    <3> DEFINE r == [q EXCEPT !.pc = "rename"]
    <3>1. Changed(r) /\ Fits(r)
      BY <1>0, <1>4, <2>2, NoneAssumption DEF Put, Go, At, Requests
    <3> HIDE DEF r
    <3> QED BY <1>2, <2>2, <3>1
  <2> QED BY <1>4, <2>1, <2>2 DEF Put
<1>5. ASSUME Rename(c) PROVE ShapeInv'
  BY <1>3, <1>5 DEF Rename
<1>6. ASSUME NEW step \in {"created", "refused"}, Done(c, step), q.pc # "idle",
             store' = store /\ cites' = cites /\ loop' = loop /\ grants' = grants
      PROVE  ShapeInv'
  <2> DEFINE r == [Resting EXCEPT !.pc = step, !.object = q.object]
  <2>1. Changed(r) /\ Fits(r)
    BY <1>0, <1>6, NoneAssumption DEF Done, Resting, Requests
  <2> HIDE DEF r
  <2> QED BY <1>2, <1>6, <2>1
<1>7. ASSUME PutFails(c) \/ RetainFails(c) PROVE ShapeInv'
  BY <1>6, <1>7 DEF PutFails, RetainFails, At
<1>8. ASSUME Check(c) PROVE ShapeInv'
  <2>1. CASE Done(c, "refused") BY <1>6, <1>8, <2>1 DEF Check, At
  <2>2. ASSUME ~Done(c, "refused") PROVE ShapeInv'
    <3> DEFINE of == IF q.header = "source" /\ manifest[q.of] # None THEN manifest[q.of] ELSE q.of
               r == [q EXCEPT !.pc = "retain", !.of = of]
    <3>1. of \in Object
      BY <1>0, <1>8 DEF ShapeInv, TypeOK, Slot, Check, At
    <3>2. Changed(r) /\ Fits(r)
      <4> HIDE DEF of
      <4>1. r \in Requests BY <1>0, <3>1 DEF Requests, Slot
      <4>2. request' = [request EXCEPT ![c] = r] BY <1>0, <1>8, <2>2 DEF Check, of
      <4> QED BY <1>0, <1>8, <3>1, <4>1, <4>2, NoneAssumption DEF Check, At, Requests
    <3> HIDE DEF r
    <3> QED BY <1>2, <1>8, <3>2 DEF Check
  <2> QED BY <2>1, <2>2
<1>9. ASSUME Retain(c) PROVE ShapeInv'
  <2> DEFINE r == [q EXCEPT !.pc = "grant", !.header = "none", !.of = None]
  <2>1. Changed(r) /\ Fits(r)
    BY <1>0, <1>9, NoneAssumption DEF Retain, At, Requests, Slot
  <2>2. /\ request' \in [Client -> Requests] /\ RequestShape'
        /\ \A d \in Client :
              /\ request'[d].pc # "idle" => request'[d].object # None
              /\ request'[d].pc \in {"check", "retain"} => request'[d].of # None
    <3> HIDE DEF r
    <3> QED BY <2>1, RequestTyped
  <2>3. manifest' \in [Object -> Slot] /\ bound' \subseteq Object
    BY <1>0, <1>9 DEF Retain, At, ShapeInv, TypeOK, Slot
  <2> QED BY <1>9, <2>2, <2>3 DEF Retain, ShapeInv, TypeOK
<1>10. ASSUME Grant(c) PROVE ShapeInv'
  <2> DEFINE r == [Resting EXCEPT !.pc = "created", !.object = q.object]
  <2>1. Changed(r) /\ Fits(r)
    BY <1>0, <1>10, NoneAssumption DEF Grant, At, Done, Resting, Requests
  <2>2. /\ request' \in [Client -> Requests] /\ RequestShape'
        /\ \A d \in Client :
              /\ request'[d].pc # "idle" => request'[d].object # None
              /\ request'[d].pc \in {"check", "retain"} => request'[d].of # None
    <3> HIDE DEF r
    <3> QED BY <2>1, RequestTyped
  <2>3. grants' \subseteq User \X Object /\ outrun' \subseteq grants'
    BY <1>0, <1>10, OwnerAssumption DEF Grant, At, ShapeInv, TypeOK
  <2> QED BY <1>10, <2>2, <2>3 DEF Grant, ShapeInv, TypeOK, store
<1>11. ASSUME Answer(c) PROVE ShapeInv'
  <2>1. Changed(Resting) /\ Fits(Resting)
    BY <1>0, <1>11 DEF Answer, Resting
  <2> QED BY <1>2, <1>11, <2>1 DEF Answer
<1>12. None \in Slot /\ Object \subseteq Slot BY DEF Slot
<1> QED
  BY <1>1, <1>4, <1>5, <1>7, <1>8, <1>9, <1>10, <1>11, <1>12 DEF Upload

(* Neither what happens to notes nor the maintenance loop disturbs the types. *)
LEMMA NotesTyped ==
  ASSUME ShapeInv, Notes
  PROVE  ShapeInv'
<1> USE DEF ShapeInv, TypeOK
<1>1. ASSUME NEW n \in Note, NEW os \in SUBSET Object, Save(n, os) PROVE ShapeInv'
  BY <1>1 DEF Save, Cite, store, RequestShape
<1>2. ASSUME NEW n \in Note, NEW c \in Client, Clip(c, n) PROVE ShapeInv'
  <2> DEFINE q == request[c]
             r == [Resting EXCEPT !.pc = "created", !.object = q.object]
  <2>1. q \in Requests /\ q.object # None /\ q.object \in Object
    BY <1>2 DEF Clip, At, Requests, Slot
  <2>2. request' = [request EXCEPT ![c] = r] BY <1>2 DEF Clip, Done
  <2>3. r \in Requests /\ r.object # None /\ r.pc = "created" /\ r.header = "none"
    BY <2>1 DEF Resting, Requests, Slot
  <2>4. /\ request' \in [Client -> Requests] /\ RequestShape'
        /\ \A d \in Client :
              /\ request'[d].pc # "idle" => request'[d].object # None
              /\ request'[d].pc \in {"check", "retain"} => request'[d].of # None
    <3> HIDE DEF r
    <3> QED BY <2>2, <2>3, RequestTyped
  <2>5. cites' \in [Note -> SUBSET Object] /\ steady' \subseteq Note \X Object
    BY <1>2, <2>1 DEF Clip, Cite
  <2> QED BY <1>2, <2>4, <2>5 DEF Clip, store
<1>3. ASSUME NEW u \in User, NEW o \in Object, Expire(u, o) PROVE ShapeInv'
  BY <1>3 DEF Expire, store, RequestShape
<1> QED BY <1>1, <1>2, <1>3 DEF Notes

LEMMA MaintainTyped ==
  ASSUME ShapeInv, Maintain \/ Crash
  PROVE  ShapeInv'
<1> USE DEF ShapeInv, TypeOK
<1>0. NoPass \in Passes /\ Resting \in Requests
  BY DEF NoPass, Passes, Resting, Requests, Slot
<1>1. ASSUME NEW kind \in {"prune", "materialize"}, NEW protected \in SUBSET Object,
             Referencing(kind, protected), request' = request
      PROVE  ShapeInv'
  BY <1>1 DEF Referencing, NoPass, Passes, store, RequestShape
<1>2. ASSUME StartPrune PROVE ShapeInv'
  <2> DEFINE q(c) == request[c]
             r(c) == [q(c) EXCEPT !.raced =
                        @ \/ q(c).pc \in {"check", "retain", "grant", "note"}]
  <2>1. \A c \in Client : q(c) \in Requests OBVIOUS
  <2>2. \A c \in Client :
          /\ r(c) \in Requests /\ r(c).pc = q(c).pc /\ r(c).object = q(c).object
          /\ r(c).header = q(c).header /\ r(c).of = q(c).of
    BY <2>1 DEF Requests
  <2>3. request' = [c \in Client |-> r(c)] BY <1>2 DEF StartPrune, Raced
  <2>4. /\ request' \in [Client -> Requests]
        /\ \A c \in Client : /\ request'[c].pc = q(c).pc /\ request'[c].object = q(c).object
                             /\ request'[c].header = q(c).header /\ request'[c].of = q(c).of
    <3> HIDE DEF r, q
    <3> QED BY <2>2, <2>3
  <2>5. {g[2] : g \in grants} \subseteq Object OBVIOUS
  <2>6. pass' \in Passes /\ steady' \subseteq Note \X Object /\ bound' \subseteq Object
    BY <1>2, <2>5 DEF StartPrune, Referencing, NoPass, Passes
  <2> QED BY <1>2, <2>4, <2>6 DEF StartPrune, Referencing, store, RequestShape
<1>3. ASSUME ListStore PROVE ShapeInv'
  BY <1>3 DEF ListStore, NoPass, Passes, store, history, RequestShape
<1>4. ASSUME NEW n \in Note, ReadNote(n) PROVE ShapeInv'
  BY <1>4 DEF ReadNote, Passes, store, history, RequestShape
<1>5. ASSUME ReadManifest PROVE ShapeInv'
  <2>1. pass.referenced \cup ({manifest[d] : d \in pass.referenced} \ {None}) \subseteq Object
    BY DEF Passes, Slot
  <2>2. pass' \in Passes BY <1>5, <2>1 DEF ReadManifest, NoPass, Passes
  <2> QED BY <1>5, <2>2 DEF ReadManifest, store, history, RequestShape
<1>6. ASSUME NEW o \in Object, Remove(o) PROVE ShapeInv'
  BY <1>6 DEF Remove, Passes, history, RequestShape
<1>7. ASSUME NEW o \in Object, Copy(o) PROVE ShapeInv'
  BY <1>7 DEF Copy, Passes, store, history, RequestShape
<1>8. ASSUME Over PROVE ShapeInv'
  BY <1>0, <1>8 DEF Over, store, RequestShape
<1>9. ASSUME Crash PROVE ShapeInv'
  BY <1>0, <1>9 DEF Crash, store, RequestShape, Resting
<1> QED
  BY <1>1, <1>2, <1>3, <1>4, <1>5, <1>6, <1>7, <1>8, <1>9
  DEF Maintain, StartMaterialize, Finish, Fails

(* Nothing disturbs the types. *)
LEMMA StepTyped ==
  ASSUME ShapeInv, [Next]_vars
  PROVE  ShapeInv'
<1>1. CASE UNCHANGED vars
  BY <1>1 DEF vars, store, loop, history, ShapeInv, TypeOK, RequestShape
<1> QED BY <1>1, UploadTyped, NotesTyped, MaintainTyped DEF Next

-----------------------------------------------------------------------------
(* A request gains its object when it is stored and is overtaken when a prune begins;
   until then no object goes. *)
LEMMA StepAhead ==
  ASSUME ShapeInv, Phased, Ahead, [Next]_vars
  PROVE  Ahead'
<1> DEFINE Up(c) == request[c].pc \in {"check", "retain", "grant"} /\ ~request[c].raced
           Kept == objects \subseteq objects' /\ (Pruning' => Pruning)
<1>0. request \in [Client -> Requests] BY DEF ShapeInv, TypeOK
<1>1. ASSUME Kept, NEW c \in Client,
             \A d \in Client \ {c} : request'[d] = request[d],
             Up(c)' => request'[c].object \in objects' /\ ~Pruning'
      PROVE  Ahead'
  BY <1>1 DEF Ahead
<1>2. ASSUME Kept, \A d \in Client : Up(d)' => Up(d) /\ request'[d].object = request[d].object
      PROVE  Ahead'
  BY <1>2 DEF Ahead
<1>3. CASE UNCHANGED vars
  BY <1>2, <1>3 DEF vars, store, loop, Pruning
<1>4. ASSUME NEW c \in Client, NEW o, NEW header, NEW of, Begin(c, o, header, of)
      PROVE  Ahead'
  <2>1. Kept BY <1>4 DEF Begin, store, loop, Pruning
  <2>2. request'[c].pc = "put" BY <1>0, <1>4 DEF Begin, Resting
  <2>3. \A d \in Client \ {c} : request'[d] = request[d] BY <1>0, <1>4 DEF Begin
  <2> QED BY <1>1, <2>1, <2>2, <2>3
<1>5. ASSUME NEW c \in Client, Stored(c) PROVE Ahead'
  <2>1. Kept BY <1>5 DEF Stored, loop, Pruning
  <2>2. /\ request'[c].object = request[c].object
        /\ request'[c].raced = Pruning
        /\ \A d \in Client \ {c} : request'[d] = request[d]
    BY <1>0, <1>5 DEF Stored, Requests
  <2>3. request[c].object \in objects' /\ (Pruning' <=> Pruning)
    BY <1>5 DEF Stored, loop, Pruning
  <2> QED BY <1>1, <2>1, <2>2, <2>3
<1>6. ASSUME NEW c \in Client, Put(c) \/ Rename(c) PROVE Ahead'
  <2>1. CASE Stored(c) BY <1>5, <2>1
  <2>2. CASE Go(c, "rename") /\ UNCHANGED <<store, cites, grants, loop>>
    <3>1. Kept BY <2>2 DEF store, loop, Pruning
    <3>2. request'[c].pc = "rename" /\ \A d \in Client \ {c} : request'[d] = request[d]
      BY <1>0, <2>2 DEF Go, Requests
    <3> QED BY <1>1, <3>1, <3>2
  <2> QED BY <1>6, <2>1, <2>2 DEF Put, Rename
<1>7. ASSUME NEW c \in Client, NEW step \in {"created", "refused"}, Done(c, step),
             Pruning' <=> Pruning, objects' = objects
      PROVE  Ahead'
  <2>1. request'[c].pc = step /\ \A d \in Client \ {c} : request'[d] = request[d]
    BY <1>0, <1>7 DEF Done, Resting
  <2> QED BY <1>1, <1>7, <2>1
<1>8. ASSUME NEW c \in Client, PutFails(c) \/ RetainFails(c) \/ Grant(c) PROVE Ahead'
  BY <1>7, <1>8 DEF PutFails, RetainFails, Grant, store, loop, Pruning
<1>9. ASSUME NEW c \in Client, Check(c) PROVE Ahead'
  <2>1. CASE Done(c, "refused")
    BY <1>7, <1>9, <2>1 DEF Check, store, loop, Pruning
  <2>2. CASE ~Done(c, "refused")
    <3>1. /\ request'[c].object = request[c].object
          /\ request'[c].raced = request[c].raced
          /\ \A d \in Client \ {c} : request'[d] = request[d]
      BY <1>0, <1>9, <2>2 DEF Check, Requests
    <3>2. Kept BY <1>9 DEF Check, store, loop, Pruning
    <3> QED BY <1>2, <1>9, <3>1, <3>2 DEF Check, At
  <2> QED BY <2>1, <2>2
<1>10. ASSUME NEW c \in Client, Retain(c) PROVE Ahead'
  <2>1. /\ request'[c].object = request[c].object
        /\ request'[c].raced = request[c].raced
        /\ \A d \in Client \ {c} : request'[d] = request[d]
    BY <1>0, <1>10 DEF Retain, Requests
  <2>2. Kept BY <1>10 DEF Retain, Pruning
  <2> QED BY <1>2, <1>10, <2>1, <2>2 DEF Retain, At
<1>11. ASSUME NEW c \in Client, Answer(c) PROVE Ahead'
  <2>1. request'[c].pc = "idle" /\ \A d \in Client \ {c} : request'[d] = request[d]
    BY <1>0, <1>11 DEF Answer, Resting
  <2>2. Kept BY <1>11 DEF Answer, store, loop, Pruning
  <2> QED BY <1>1, <2>1, <2>2
<1>12. CASE Notes
  <2>1. ASSUME NEW n \in Note, NEW c \in Client, Clip(c, n) PROVE Ahead'
    BY <1>7, <2>1 DEF Clip, store, Pruning
  <2> QED BY <1>2, <1>12, <2>1 DEF Notes, Save, Expire, store, loop, Pruning
<1>13. CASE StartPrune
  <2>1. \A d \in Client : ~Up(d)'
    BY <1>0, <1>13 DEF StartPrune, Raced, Requests
  <2> QED BY <2>1 DEF Ahead
<1>14. ASSUME NEW o \in Object, Remove(o) PROVE Ahead'
  <2>1. Pruning BY <1>14 DEF Remove, Phased
  <2>2. \A d \in Client : ~Up(d) BY <2>1 DEF Ahead
  <2> QED BY <1>14, <2>2 DEF Remove, Ahead
<1>15. CASE Maintain
  <2>1. ASSUME Maintain, ~StartPrune, \A o \in Object : ~Remove(o)
        PROVE  request' = request /\ objects' = objects /\ (Pruning' => Pruning)
    <3>1. CASE StartMaterialize
      BY <3>1 DEF StartMaterialize, Referencing, NoPass, store, Pruning
    <3>2. CASE ListStore
      BY <3>2 DEF ListStore, store, Phased
    <3>3. CASE ReadManifest \/ (\E n \in Note : ReadNote(n)) \/ (\E o \in Object : Copy(o))
      BY <3>3 DEF ReadManifest, ReadNote, Copy, NoPass, store, Pruning, ShapeInv, TypeOK, Passes
    <3>4. CASE Over
      BY <3>4 DEF Over, NoPass, store, Pruning
    <3> QED BY <2>1, <3>1, <3>2, <3>3, <3>4 DEF Maintain, Finish, Fails
  <2> QED BY <1>2, <1>13, <1>14, <1>15, <2>1
<1>16. CASE Crash
  <2>1. \A d \in Client : ~Up(d)' BY <1>16 DEF Crash, Resting
  <2> QED BY <2>1 DEF Ahead
<1> QED
  BY <1>3, <1>4, <1>6, <1>8, <1>9, <1>10, <1>11, <1>12, <1>15, <1>16 DEF Next, Upload

LEMMA StepPhased ==
  ASSUME ShapeInv, Phased, [Next]_vars
  PROVE  Phased'
<1> USE DEF Phased, Pruning
<1>1. CASE UNCHANGED loop BY <1>1 DEF loop
<1>2. CASE UNCHANGED pass BY <1>2
<1>3. CASE StartPrune \/ StartMaterialize
  BY <1>3 DEF StartPrune, StartMaterialize, Referencing, NoPass
<1>4. CASE ReadManifest \/ ListStore \/ (\E n \in Note : ReadNote(n))
  BY <1>4 DEF ReadManifest, ListStore, ReadNote, NoPass, ShapeInv, TypeOK, Passes
<1>5. CASE \E o \in Object : Remove(o) \/ Copy(o)
  BY <1>5 DEF Remove, Copy, ShapeInv, TypeOK, Passes
<1>6. CASE Over \/ Crash BY <1>6 DEF Over, Crash, NoPass
<1>7. CASE Maintain BY <1>3, <1>4, <1>5, <1>6, <1>7 DEF Maintain, Finish, Fails
<1>8. ASSUME NEW c \in Client, Upload(c) PROVE UNCHANGED pass
  BY <1>8 DEF Upload, Put, Rename, Stored, PutFails, Check, Retain, RetainFails, Grant, loop
<1>9. CASE Notes
  BY <1>2, <1>9 DEF Notes, Save, Clip, Expire
<1> QED
  BY <1>1, <1>2, <1>6, <1>7, <1>8, <1>9 DEF Next, Begin, Answer, vars

(* A grant is made for what is there, or it is outrun; a pass that begins takes it. *)
LEMMA StepCovered ==
  ASSUME ShapeInv, GrantInv, [Next]_vars
  PROVE  Covered'
<1> USE DEF GrantInv
<1>1. ASSUME UNCHANGED pass, objects \subseteq objects', grants' \ outrun' \subseteq grants \ outrun
      PROVE  Covered'
  BY <1>1 DEF Covered, Pruning
<1>2. CASE UNCHANGED vars
  BY <1>1, <1>2 DEF vars, store, loop, history
<1>3. ASSUME NEW c \in Client, Grant(c) PROVE Covered'
  <2> DEFINE g == <<Owner[c], request[c].object>>
  <2>1. CASE g \in grants \/ g \in outrun'
    BY <1>1, <1>3, <2>1 DEF Grant, store, ShapeInv, TypeOK
  <2>2. CASE g \notin grants /\ g \notin outrun'
    <3>1. request[c].object \in objects /\ ~Pruning
      BY <1>3, <2>2 DEF Grant, At, Ahead
    <3>2. UNCHANGED <<pass, objects, outrun>> /\ grants' = grants \cup {g}
      BY <1>3, <3>1 DEF Grant, store
    <3> QED BY <3>1, <3>2 DEF Covered, Phased, Pruning
  <2> QED BY <2>1, <2>2
<1>4. ASSUME NEW c \in Client,
             Put(c) \/ Rename(c) \/ PutFails(c) \/ Check(c) \/ Retain(c) \/ RetainFails(c) \/ Answer(c)
      PROVE  Covered'
  BY <1>1, <1>4
  DEF Put, Rename, Stored, PutFails, Check, Retain, RetainFails, Answer, store, loop, history
<1>5. ASSUME NEW c \in Client, NEW o, NEW header, NEW of, Begin(c, o, header, of)
      PROVE  Covered'
  BY <1>1, <1>5 DEF Begin, store, loop, history
<1>6. CASE Notes
  BY <1>1, <1>6 DEF Notes, Save, Clip, Expire, Cite, store
<1>7. ASSUME NEW kind \in {"prune", "materialize"}, NEW protected,
             Referencing(kind, protected), kind = "prune" => protected = {g[2] : g \in grants}
      PROVE  Covered'
  BY <1>7 DEF Referencing, NoPass, store, Covered, Pruning
<1>8. CASE StartPrune \/ StartMaterialize
  BY <1>7, <1>8 DEF StartPrune, StartMaterialize
<1>9. CASE ListStore
  BY <1>9 DEF ListStore, NoPass, store, history, Covered, Phased, Pruning
<1>10. CASE ReadManifest \/ (\E n \in Note : ReadNote(n)) \/ (\E o \in Object : Copy(o))
  BY <1>10 DEF ReadManifest, ReadNote, Copy, NoPass, store, history, Covered, Pruning,
               ShapeInv, TypeOK, Passes
<1>11. ASSUME NEW o \in Object, Remove(o) PROVE Covered'
  BY <1>11 DEF Remove, history, Covered, Pruning, ShapeInv, TypeOK, Passes
<1>12. CASE Over BY <1>12 DEF Over, NoPass, store, Covered, Pruning
<1>13. CASE Crash BY <1>13 DEF Crash, Covered
<1> QED
  BY <1>2, <1>3, <1>4, <1>5, <1>6, <1>8, <1>9, <1>10, <1>11, <1>12, <1>13
  DEF Next, Upload, Maintain, Finish, Fails

LEMMA StepGrants ==
  ASSUME ShapeInv, GrantInv, [Next]_vars
  PROVE  GrantInv'
BY StepPhased, StepAhead, StepCovered DEF GrantInv

-----------------------------------------------------------------------------
(* What happens beside a pass takes citations and originals from what it must keep. *)
LEMMA BesidePass ==
  ASSUME ShapeInv, PassInv, UNCHANGED <<pass, copies>>,
         steady' \subseteq steady, \A s \in steady' : s[2] \in cites'[s[1]],
         bound' \subseteq bound, \A o \in bound' : manifest'[o] = manifest[o]
  PROVE  PassInv'
BY DEF PassInv, CitedInv, OriginalsInv, Reaches

LEMMA StepPass ==
  ASSUME ShapeInv, PassInv, [Next]_vars
  PROVE  PassInv'
<1> DEFINE Same == UNCHANGED <<pass, copies, steady, cites, bound, manifest>>
<1>1. ASSUME Same PROVE PassInv'
  BY <1>1, BesidePass DEF PassInv, CitedInv
<1>2. CASE UNCHANGED vars
  BY <1>1, <1>2 DEF vars, store, loop, history
<1>3. ASSUME NEW c \in Client, Retain(c) PROVE PassInv'
  <2>1. bound' \subseteq bound /\ \A o \in bound' : manifest'[o] = manifest[o]
    BY <1>3 DEF Retain, ShapeInv, TypeOK
  <2> QED BY <1>3, <2>1, BesidePass DEF Retain, PassInv, CitedInv
<1>4. ASSUME NEW c \in Client,
             Put(c) \/ Rename(c) \/ PutFails(c) \/ Check(c) \/ RetainFails(c) \/ Grant(c) \/ Answer(c)
      PROVE  PassInv'
  BY <1>1, <1>4
  DEF Put, Rename, Stored, PutFails, Check, RetainFails, Grant, Answer, store, loop, history
<1>5. ASSUME NEW c \in Client, NEW o, NEW header, NEW of, Begin(c, o, header, of)
      PROVE  PassInv'
  BY <1>1, <1>5 DEF Begin, store, loop, history
<1>6. ASSUME NEW n \in Note, NEW os, Cite(n, os), UNCHANGED <<pass, copies, bound, manifest>>
      PROVE  PassInv'
  <2>1. steady' \subseteq steady /\ \A s \in steady' : s[2] \in cites'[s[1]]
    BY <1>6 DEF Cite, PassInv, CitedInv, ShapeInv, TypeOK
  <2> QED BY <1>6, <2>1, BesidePass
<1>7. CASE Notes
  BY <1>1, <1>6, <1>7 DEF Notes, Save, Clip, Expire, store
<1>8. CASE StartPrune \/ StartMaterialize
  BY <1>8
  DEF StartPrune, StartMaterialize, Referencing, NoPass, store, PassInv, CitedInv, OriginalsInv, Reaches
<1>9. ASSUME NEW n \in Note, ReadNote(n) PROVE PassInv'
  <2>1. /\ pass'.unread = pass.unread \ {n}
        /\ pass'.referenced = pass.referenced \cup cites[n]
        /\ pass'.pc = IF pass.unread = {n} THEN "manifest" ELSE "read"
    BY <1>9 DEF ReadNote, ShapeInv, TypeOK, Passes
  <2>2. CitedInv'
    BY <1>9, <2>1 DEF ReadNote, store, history, PassInv, CitedInv, Reaches
  <2>3. OriginalsInv'
    BY <1>9, <2>1 DEF ReadNote, store, history, PassInv, OriginalsInv, Reaches
  <2> QED BY <2>2, <2>3 DEF PassInv
<1>10. CASE ReadManifest
  <2> DEFINE all == pass.referenced \cup ({manifest[d] : d \in pass.referenced} \ {None})
  <2>1. \/ pass'.pc = "list" /\ pass'.referenced = all
        \/ pass'.pc = "copy" /\ pass'.left = all
    BY <1>10 DEF ReadManifest, NoPass, ShapeInv, TypeOK, Passes
  <2>2. \A s \in steady : s[2] \in all /\ (s[2] \in bound => manifest[s[2]] \in all)
    BY <1>10 DEF ReadManifest, PassInv, CitedInv, OriginalsInv, Reaches
  <2> HIDE DEF all
  <2> QED
    BY <1>10, <2>1, <2>2
    DEF ReadManifest, store, history, PassInv, CitedInv, OriginalsInv, Reaches
<1>11. CASE ListStore
  BY <1>11 DEF ListStore, NoPass, store, history, PassInv, CitedInv, OriginalsInv, Reaches
<1>12. ASSUME NEW o \in Object, Remove(o) \/ Copy(o) PROVE PassInv'
  <2>1. pass'.pc = pass.pc /\ pass'.left = pass.left \ {o} /\ pass.pc \in {"remove", "copy"}
    BY <1>12 DEF Remove, Copy, ShapeInv, TypeOK, Passes
  <2>2. /\ UNCHANGED <<cites, steady, bound, manifest>>
        /\ pass.pc = "copy" => copies' = copies \cup {o}
    BY <1>12 DEF Remove, Copy, store, history
  <2> QED BY <2>1, <2>2 DEF PassInv, CitedInv, OriginalsInv, Reaches
<1>13. CASE Over \/ Crash
  BY <1>13 DEF Over, Crash, PassInv, CitedInv, OriginalsInv
<1> QED
  BY <1>2, <1>3, <1>4, <1>5, <1>7, <1>8, <1>9, <1>10, <1>11, <1>12, <1>13
  DEF Next, Upload, Maintain, Finish, Fails

-----------------------------------------------------------------------------
(* The invariant the theorems follow from, under every failure of the model. *)
THEOREM MediaInvariant == Spec => [](ShapeInv /\ GrantInv /\ PassInv)
<1>1. ShapeInv /\ GrantInv /\ PassInv /\ [Next]_vars => (ShapeInv /\ GrantInv /\ PassInv)'
  BY StepTyped, StepGrants, StepPass
<1> QED BY InitInv, <1>1, PTL DEF Spec

(* Every state has its types (media.rs, http.rs `media_upload`). *)
THEOREM MediaTyped == Spec => []TypeOK
<1>1. ShapeInv => TypeOK BY DEF ShapeInv
<1> QED BY MediaInvariant, <1>1, PTL

(* The object of an upload is there while its five minutes last, unless a prune took
   the grants between its storing and its granting (http.rs, `prune_media`). *)
THEOREM GrantsHold == Spec => []GrantHolds
<1>1. GrantInv => GrantHolds BY DEF GrantInv, Covered, GrantHolds
<1> QED BY MediaInvariant, <1>1, PTL

(* Only the removal of a prune takes an object out of the store. *)
LEMMA WhatGoes ==
  ASSUME [Next]_vars
  PROVE  \/ Removed = {}
         \/ \E o \in Object : pass.pc = "remove" /\ o \in pass.left /\ Removed \subseteq {o}
<1> USE DEF Removed
<1>1. ASSUME NEW c \in Client,
             \/ Upload(c) \/ Answer(c)
             \/ \E o, of, header : Begin(c, o, header, of)
      PROVE  objects \subseteq objects'
  BY <1>1 DEF Upload, Begin, Put, Rename, Stored, PutFails, Check, Retain, RetainFails,
              Grant, Answer, store
<1>2. ASSUME NEW o \in Object, Remove(o)
      PROVE  pass.pc = "remove" /\ o \in pass.left /\ Removed \subseteq {o}
  BY <1>2 DEF Remove
<1>3. ASSUME Maintain, \A o \in Object : ~Remove(o) PROVE objects' = objects
  BY <1>3 DEF Maintain, StartPrune, StartMaterialize, Referencing, ReadManifest, ListStore,
              Finish, Fails, Over, ReadNote, Copy, store
<1>4. Notes \/ Crash \/ UNCHANGED vars => objects' = objects
  BY DEF Notes, Save, Clip, Expire, Crash, vars, store
<1> QED BY <1>1, <1>2, <1>3, <1>4 DEF Next

(* No prune removes what one note cites from its start until the removal (media.rs,
   `references`, `prune_orphaned`). *)
THEOREM CitedStays == Spec => CitedSurvive
<1>1. PassInv /\ [Next]_vars => [\A s \in steady : s[2] \notin Removed]_vars
  BY WhatGoes DEF PassInv, CitedInv, Reaches
<1> QED BY MediaInvariant, <1>1, PTL DEF Spec, CitedSurvive

(* Nor the original it has had all the while. *)
THEOREM OriginalsStay == Spec => OriginalsSurvive
<1>1. PassInv /\ [Next]_vars =>
        [\A s \in steady : s[2] \in bound => manifest[s[2]] \notin Removed]_vars
  BY WhatGoes DEF PassInv, OriginalsInv, Reaches
<1> QED BY MediaInvariant, <1>1, PTL DEF Spec, OriginalsSurvive

(* A copying pass that comes to its end has put what was cited all along, and its
   originals, into the vault (media.rs, `materialize`). *)
THEOREM CopiesComplete == Spec => []SelfContained
<1>1. PassInv => SelfContained
  BY DEF PassInv, CitedInv, OriginalsInv, Reaches, SelfContained
<1> QED BY MediaInvariant, <1>1, PTL

-----------------------------------------------------------------------------
(* The page.  Every step of it is a step of the store or none, so what holds of the store
   holds with the page; and what a loop sends, it sends in an order that a snapshot and
   the server's answers justify. *)
Sending == {"original", "display", "queue_original", "queue_display"}
Flushing == {"pick", "send", "tell", "drop"}

(* What a client of the page is doing, at which step. *)
JobShape(j) ==
  /\ j.kind = "paste" => /\ j.step \in Sending /\ j.at \in Object /\ Shown(j.at)
                         /\ j.step \in {"original", "queue_original"} => Original[j.at] # None
  /\ j.kind = "flush" => /\ j.step \in Flushing
                         /\ IF j.step = "pick" THEN j.at = None ELSE j.at \in j.todo
                         /\ j.step = "tell" => ~Shown(j.at)
  /\ j.kind # "flush" => j.snapshot = Nothing
  /\ j.kind \in {"none", "single"} => j.at = None
  /\ \A o \in j.todo : j.snapshot[o] # Gone
  /\ \A o \in Object : j.snapshot[o] = "known" => Original[o] # None

PageInv ==
  /\ queue \in [Object -> Records] /\ pending \subseteq Object
  /\ whole \subseteq pending /\ given \subseteq Object
  /\ job \in [Client -> Jobs]
  /\ \A c \in Client : JobShape(job[c])
  /\ \A o \in Object : queue[o] = "known" => Original[o] # None

(* What an original is. *)
LEMMA Originals ==
  /\ \A d \in Object : Original[d] # None => Original[d] \in Object
  /\ \A d \in Object : Original[d] # None => Original[Original[d]] = None /\ ~Shown(Original[d])
  /\ \A d \in Object : ~Shown(d) => Original[d] = None
  /\ \A o, d \in Object : d \in Dependents(o) <=> Original[d] = o
  /\ \A o \in Object : o # None
BY OriginalAssumption, NoneAssumption DEF Slot, Shown, Dependents

(* What a step makes of the job of its client. *)
Turned(c, kind, step, at, snapshot, todo, resolved) ==
  /\ job' \in [Client -> Jobs]
  /\ \A b \in Client \ {c} : job'[b] = job[b]
  /\ job'[c].kind = kind /\ job'[c].step = step /\ job'[c].at = at
  /\ job'[c].snapshot = snapshot /\ job'[c].todo = todo /\ job'[c].resolved = resolved

Steps == {"rest", "original", "display", "sent", "queue_original", "queue_display",
          "pick", "send", "tell", "drop"}

LEMMA Turns ==
  ASSUME PageInv, NEW c \in Client, NEW j, j = job[c]
  PROVE  /\ \A s \in Steps : Step(c, s) =>
              Turned(c, j.kind, s, j.at, j.snapshot, j.todo, j.resolved)
         /\ Ends(c) => Turned(c, "none", "rest", None, Nothing, {}, {})
         /\ \A d \in Object : Paste(c, d) =>
              Turned(c, "paste", IF Original[d] = None THEN "display" ELSE "original", d,
                     Nothing, {}, {})
         /\ StartFlush(c) =>
              Turned(c, "flush", "pick", None, queue, {o \in Object : queue[o] # Gone}, {})
         /\ \A o \in Object : Pick(c, o) =>
              Turned(c, "flush", "send", o, j.snapshot, j.todo, j.resolved)
         /\ Sent(c) =>
              Turned(c, "flush", IF Shown(j.at) THEN "drop" ELSE "tell", j.at, j.snapshot, j.todo,
                     IF Shown(j.at) THEN j.resolved ELSE j.resolved \cup {j.at})
         /\ Drop(c) \/ Refused(c) =>
              Turned(c, "flush", "pick", None, j.snapshot, j.todo \ {j.at}, j.resolved)
         /\ \A o, header, of : Single(c, o, header, of) =>
              Turned(c, "single", "rest", None, Nothing, {}, {})
<1>0. /\ job \in [Client -> Jobs] /\ j \in Jobs /\ Nothing \in [Object -> Records]
      /\ None \in Slot /\ Object \subseteq Slot
  BY DEF PageInv, Nothing, Records, Slot
<1>1. ASSUME NEW r \in Jobs, job' = [job EXCEPT ![c] = r]
      PROVE  Turned(c, r.kind, r.step, r.at, r.snapshot, r.todo, r.resolved)
  BY <1>0, <1>1 DEF Turned
<1>2. ASSUME NEW s \in Steps, Step(c, s)
      PROVE  Turned(c, j.kind, s, j.at, j.snapshot, j.todo, j.resolved)
  <2> DEFINE r == [j EXCEPT !.step = s]
  <2>1. r \in Jobs BY <1>0 DEF Jobs, Steps
  <2>2. job' = [job EXCEPT ![c] = r] BY <1>0, <1>2 DEF Step
  <2>3. /\ r.kind = j.kind /\ r.step = s /\ r.at = j.at /\ r.snapshot = j.snapshot
        /\ r.todo = j.todo /\ r.resolved = j.resolved
    BY <1>0 DEF Jobs
  <2> HIDE DEF r
  <2> QED BY <1>1, <2>1, <2>2, <2>3
<1>3. NoJob \in Jobs BY <1>0 DEF Jobs, NoJob
<1>4. Ends(c) => Turned(c, "none", "rest", None, Nothing, {}, {})
  BY <1>1, <1>3 DEF Ends, NoJob
<1>5. ASSUME NEW d \in Object, Paste(c, d)
      PROVE  Turned(c, "paste", IF Original[d] = None THEN "display" ELSE "original", d,
                    Nothing, {}, {})
  <2> DEFINE s == IF Original[d] = None THEN "display" ELSE "original"
             r == [NoJob EXCEPT !.kind = "paste", !.at = d, !.step = s]
  <2>1. r \in Jobs BY <1>0 DEF Jobs, NoJob
  <2>2. job' = [job EXCEPT ![c] = r] BY <1>0, <1>5 DEF Paste, NoJob
  <2>3. /\ r.kind = "paste" /\ r.step = s /\ r.at = d /\ r.snapshot = Nothing
        /\ r.todo = {} /\ r.resolved = {}
    BY DEF NoJob
  <2> HIDE DEF r
  <2> QED BY <1>1, <2>1, <2>2, <2>3
<1>6. ASSUME StartFlush(c)
      PROVE  Turned(c, "flush", "pick", None, queue, {o \in Object : queue[o] # Gone}, {})
  <2> DEFINE left == {o \in Object : queue[o] # Gone}
             r == [NoJob EXCEPT !.kind = "flush", !.step = "pick", !.snapshot = queue,
                                !.todo = left]
  <2>1. r \in Jobs BY <1>0 DEF Jobs, NoJob, PageInv
  <2>2. job' = [job EXCEPT ![c] = r] BY <1>6 DEF StartFlush
  <2>3. /\ r.kind = "flush" /\ r.step = "pick" /\ r.at = None /\ r.snapshot = queue
        /\ r.todo = left /\ r.resolved = {}
    BY DEF NoJob
  <2> HIDE DEF r
  <2> QED BY <1>1, <2>1, <2>2, <2>3
<1>7. ASSUME NEW o \in Object, Pick(c, o)
      PROVE  Turned(c, "flush", "send", o, j.snapshot, j.todo, j.resolved)
  <2> DEFINE r == [j EXCEPT !.at = o, !.step = "send"]
  <2>1. r \in Jobs BY <1>0 DEF Jobs
  <2>2. job' = [job EXCEPT ![c] = r] BY <1>0, <1>7 DEF Pick
  <2>3. /\ r.kind = "flush" /\ r.step = "send" /\ r.at = o /\ r.snapshot = j.snapshot
        /\ r.todo = j.todo /\ r.resolved = j.resolved
    BY <1>0, <1>7 DEF Jobs, Pick, Doing
  <2> HIDE DEF r
  <2> QED BY <1>1, <2>1, <2>2, <2>3
<1>8. ASSUME Sent(c)
      PROVE  Turned(c, "flush", IF Shown(j.at) THEN "drop" ELSE "tell", j.at, j.snapshot, j.todo,
                    IF Shown(j.at) THEN j.resolved ELSE j.resolved \cup {j.at})
  <2> DEFINE s == IF Shown(j.at) THEN "drop" ELSE "tell"
             v == IF Shown(j.at) THEN j.resolved ELSE j.resolved \cup {j.at}
             r == [j EXCEPT !.step = s, !.resolved = v]
  <2>1. j.at \in Object /\ j.kind = "flush"
    BY <1>0, <1>8 DEF Sent, Doing, PageInv, JobShape, Jobs
  <2>2. v \in SUBSET Object /\ s \in Steps BY <1>0, <2>1 DEF Jobs, Steps
  <2>3. job' = [job EXCEPT ![c] = r] BY <1>0, <1>8 DEF Sent
  <2> HIDE DEF s, v
  <2>4. r \in Jobs BY <1>0, <2>2 DEF Jobs, Steps
  <2>5. /\ r.kind = "flush" /\ r.step = s /\ r.at = j.at /\ r.snapshot = j.snapshot
        /\ r.todo = j.todo /\ r.resolved = v
    BY <1>0, <2>1 DEF Jobs
  <2> HIDE DEF r
  <2> QED BY <1>1, <2>3, <2>4, <2>5 DEF s, v
<1>9. ASSUME Drop(c) \/ Refused(c)
      PROVE  Turned(c, "flush", "pick", None, j.snapshot, j.todo \ {j.at}, j.resolved)
  <2> DEFINE t == j.todo \ {j.at}
             r == [j EXCEPT !.step = "pick", !.at = None, !.todo = t]
  <2>1. r \in Jobs BY <1>0 DEF Jobs
  <2>2. job' = [job EXCEPT ![c] = r] BY <1>0, <1>9 DEF Drop, Refused
  <2>3. /\ r.kind = "flush" /\ r.step = "pick" /\ r.at = None /\ r.snapshot = j.snapshot
        /\ r.todo = t /\ r.resolved = j.resolved
    BY <1>0, <1>9 DEF Jobs, Drop, Refused, Doing
  <2> HIDE DEF r
  <2> QED BY <1>1, <2>1, <2>2, <2>3
<1>10. ASSUME NEW o, NEW header, NEW of, Single(c, o, header, of)
       PROVE  Turned(c, "single", "rest", None, Nothing, {}, {})
  <2> DEFINE r == [NoJob EXCEPT !.kind = "single"]
  <2>1. r \in Jobs BY <1>0 DEF Jobs, NoJob
  <2>2. job' = [job EXCEPT ![c] = r] BY <1>0, <1>10 DEF Single, NoJob
  <2>3. /\ r.kind = "single" /\ r.step = "rest" /\ r.at = None /\ r.snapshot = Nothing
        /\ r.todo = {} /\ r.resolved = {}
    BY DEF NoJob
  <2> HIDE DEF r
  <2> QED BY <1>1, <2>1, <2>2, <2>3
<1> QED BY <1>2, <1>4, <1>5, <1>6, <1>7, <1>8, <1>9, <1>10

(* A job has its shape when its client's turn leaves it one. *)
LEMMA TurnShapes ==
  ASSUME PageInv, NEW c \in Client, NEW kind, NEW step, NEW at, NEW snapshot, NEW todo, NEW resolved,
         Turned(c, kind, step, at, snapshot, todo, resolved),
         kind = "paste" => /\ step \in Sending /\ at \in Object /\ Shown(at)
                           /\ step \in {"original", "queue_original"} => Original[at] # None,
         kind = "flush" => /\ step \in Flushing
                           /\ IF step = "pick" THEN at = None ELSE at \in todo
                           /\ step = "tell" => ~Shown(at),
         kind # "flush" => snapshot = Nothing,
         kind \in {"none", "single"} => at = None,
         \A o \in todo : snapshot[o] # Gone,
         \A o \in Object : snapshot[o] = "known" => Original[o] # None
  PROVE  job' \in [Client -> Jobs] /\ \A b \in Client : JobShape(job'[b])
<1>1. \A b \in Client \ {c} : JobShape(job'[b]) BY DEF Turned, PageInv
<1>2. JobShape(job'[c]) BY DEF Turned, JobShape
<1> QED BY <1>1, <1>2 DEF Turned

(* The page keeps its shape. *)
LEMMA PageShaped ==
  ASSUME PageInv, [NextQueue]_allvars
  PROVE  PageInv'
<1> DEFINE Queues == /\ queue \in [Object -> Records] /\ pending \subseteq Object
                     /\ whole \subseteq pending /\ given \subseteq Object
                     /\ \A o \in Object : queue[o] = "known" => Original[o] # None
           Shaped == job \in [Client -> Jobs] /\ \A c \in Client : JobShape(job[c])
<1>0. Queues /\ Shaped BY DEF PageInv
<1>1. Queues' /\ Shaped' => PageInv' BY DEF PageInv
<1>2. UNCHANGED <<queue, pending, promises>> => Queues' BY <1>0 DEF promises
<1>3. UNCHANGED browser => PageInv' BY <1>0, <1>1, <1>2 DEF browser
<1>4. /\ \A o \in Object : Nothing[o] = Gone
      /\ \A c \in Client : \A o \in Object : job[c].snapshot[o] = "known" => Original[o] # None
      /\ \A c \in Client : \A o \in job[c].todo : job[c].snapshot[o] # Gone
      /\ Gone # "known"
  BY <1>0 DEF Nothing, Gone, JobShape
<1>5. \A c \in Client : Ends(c) => Shaped'
  <2> SUFFICES ASSUME NEW c \in Client, Ends(c) PROVE Shaped' OBVIOUS
  <2>1. Turned(c, "none", "rest", None, Nothing, {}, {}) BY Turns
  <2> QED BY <1>4, <2>1, TurnShapes
<1>6. ASSUME NEW c \in Client, NEW s \in Steps, Step(c, s), job[c].kind = "paste",
             s \in Sending, s \in {"original", "queue_original"} => Original[job[c].at] # None
      PROVE  Shaped'
  <2>1. JobShape(job[c]) BY <1>0
  <2>2. /\ job[c].at \in Object /\ Shown(job[c].at) /\ job[c].snapshot = Nothing
        /\ Turned(c, "paste", s, job[c].at, job[c].snapshot, job[c].todo, job[c].resolved)
    BY <1>6, <2>1, Turns DEF JobShape
  <2> QED BY <1>6, <1>4, <2>2, TurnShapes
<1>7. ASSUME NEW c \in Client, NEW d \in Object, Paste(c, d) PROVE PageInv'
  <2> DEFINE s == IF Original[d] = None THEN "display" ELSE "original"
  <2>1. Turned(c, "paste", s, d, Nothing, {}, {}) BY <1>7, Turns
  <2>2. Shown(d) /\ s \in Sending /\ (s \in {"original", "queue_original"} => Original[d] # None)
    BY <1>7 DEF Paste, Sending
  <2> HIDE DEF s
  <2>3. Shaped' BY <1>4, <2>1, <2>2, TurnShapes
  <2> QED BY <1>1, <1>2, <1>7, <2>3 DEF Paste
<1>8. ASSUME NEW c \in Client, NEW o \in Object, Pick(c, o) PROVE PageInv'
  <2>1. /\ Turned(c, "flush", "send", o, job[c].snapshot, job[c].todo, job[c].resolved)
        /\ o \in job[c].todo
    BY <1>8, Turns DEF Pick
  <2>2. Shaped' BY <1>4, <2>1, TurnShapes DEF Flushing
  <2>3. job[c].snapshot \in [Object -> Records] BY <1>0 DEF Jobs
  <2>4. Queues' BY <1>0, <1>4, <1>8, <2>3 DEF Pick, promises
  <2> QED BY <1>1, <2>2, <2>4
<1>9. ASSUME NEW c \in Client, OriginalSent(c) \/ PasteOffline(c) PROVE PageInv'
  <2>1. CASE OriginalSent(c)
    BY <1>1, <1>2, <1>6, <2>1 DEF OriginalSent, Doing, Steps, Sending
  <2>2. CASE PasteOffline(c)
    <3>1. "queue_display" \in Steps \cap Sending /\ "queue_original" \in Steps \cap Sending
      BY DEF Steps, Sending
    <3> QED BY <1>1, <1>2, <1>6, <2>2, <3>1 DEF PasteOffline
  <2> QED BY <1>9, <2>1, <2>2
<1>10. ASSUME NEW c \in Client,
              DisplaySent(c) \/ PasteRefused(c) \/ FlushOffline(c) \/ FlushEnds(c) \/ SingleSent(c)
       PROVE  PageInv'
  <2>1. Shaped'
    BY <1>5, <1>10 DEF DisplaySent, PasteRefused, FlushOffline, FlushEnds, SingleSent
  <2>2. Queues'
    <3>1. CASE DisplaySent(c)
      <4>1. job[c].at \in Object BY <1>0, <3>1 DEF DisplaySent, Doing, JobShape
      <4> QED BY <1>0, <3>1, <4>1 DEF DisplaySent
    <3> QED BY <1>2, <1>10, <3>1 DEF PasteRefused, FlushOffline, FlushEnds, SingleSent
  <2> QED BY <1>1, <2>1, <2>2
<1>11. ASSUME NEW c \in Client, QueueOriginal(c) \/ QueueDisplay(c) PROVE PageInv'
  <2>1. job[c].kind = "paste" /\ job[c].at \in Object
    BY <1>0, <1>11 DEF QueueOriginal, QueueDisplay, Doing, JobShape
  <2>2. CASE QueueOriginal(c)
    <3>1. Shaped' BY <1>6, <2>1, <2>2 DEF QueueOriginal, Steps, Sending
    <3> QED BY <1>0, <1>1, <2>2, <3>1 DEF QueueOriginal, promises, Records
  <2>3. CASE QueueDisplay(c)
    <3>1. Shaped' BY <1>5, <2>3 DEF QueueDisplay
    <3> QED BY <1>0, <1>1, <2>1, <2>3, <3>1 DEF QueueDisplay, Records
  <2> QED BY <1>11, <2>2, <2>3
<1>12. ASSUME NEW c \in Client, StartFlush(c) PROVE PageInv'
  <2> DEFINE left == {o \in Object : queue[o] # Gone}
  <2>1. Turned(c, "flush", "pick", None, queue, left, {}) BY <1>12, Turns
  <2>2. \A o \in left : queue[o] # Gone OBVIOUS
  <2> HIDE DEF left
  <2>3. Shaped' BY <1>0, <2>1, <2>2, TurnShapes DEF Flushing
  <2> QED BY <1>1, <1>2, <1>12, <2>3 DEF StartFlush
<1>13. ASSUME NEW c \in Client, Sent(c) PROVE PageInv'
  <2>1. job[c].at \in job[c].todo BY <1>0, <1>13 DEF Sent, Doing, JobShape
  <2> DEFINE s == IF Shown(job[c].at) THEN "drop" ELSE "tell"
             v == IF Shown(job[c].at) THEN job[c].resolved ELSE job[c].resolved \cup {job[c].at}
  <2>2. Turned(c, "flush", s, job[c].at, job[c].snapshot, job[c].todo, v) BY <1>13, Turns
  <2>3. s \in Flushing /\ s # "pick" /\ (s = "tell" => ~Shown(job[c].at)) BY DEF Flushing
  <2> HIDE DEF s, v
  <2>4. Shaped' BY <1>4, <2>1, <2>2, <2>3, TurnShapes
  <2> QED BY <1>1, <1>2, <1>13, <2>4 DEF Sent
<1>14. ASSUME NEW c \in Client, Tell(c) PROVE PageInv'
  <2>1. /\ job[c].kind = "flush" /\ job[c].at \in job[c].todo /\ job[c].todo \subseteq Object
        /\ Turned(c, "flush", "drop", job[c].at, job[c].snapshot, job[c].todo, job[c].resolved)
    BY <1>0, <1>14, Turns DEF Tell, Doing, JobShape, Steps, Jobs
  <2>2. Shaped' BY <1>4, <2>1, TurnShapes DEF Flushing
  <2>3. Queues'
    BY <1>0, <1>14, <2>1, Originals DEF Tell, promises, Records
  <2> QED BY <1>1, <2>2, <2>3
<1>15. ASSUME NEW c \in Client, Drop(c) \/ Refused(c) PROVE PageInv'
  <2>1. Turned(c, "flush", "pick", None, job[c].snapshot, job[c].todo \ {job[c].at}, job[c].resolved)
    BY <1>15, Turns
  <2>2. Shaped' BY <1>4, <2>1, TurnShapes DEF Flushing
  <2>3. CASE Drop(c) BY <1>0, <1>1, <2>2, <2>3 DEF Drop, Records, Gone
  <2>4. CASE Refused(c) BY <1>0, <1>1, <2>2, <2>4 DEF Refused, Records, Gone
  <2> QED BY <1>15, <2>3, <2>4
<1>16. ASSUME NEW c \in Client, NEW o, NEW header, NEW of, Single(c, o, header, of)
       PROVE  PageInv'
  <2>1. Turned(c, "single", "rest", None, Nothing, {}, {}) BY <1>16, Turns
  <2>2. Shaped' BY <1>4, <2>1, TurnShapes
  <2> QED BY <1>1, <1>2, <1>16, <2>2 DEF Single
<1>17. ASSUME NEW c \in Client, SendOriginal(c) \/ SendDisplay(c) \/ Send(c) \/ NoOneListens(c)
       PROVE  PageInv'
  BY <1>3, <1>17 DEF SendOriginal, SendDisplay, Send, NoOneListens
<1>18. ASSUME PageDies PROVE PageInv'
  <2>1. /\ NoJob \in Jobs /\ JobShape(NoJob)
    BY <1>4 DEF NoJob, Jobs, JobShape, Nothing, Records, Slot
  <2>2. Shaped' BY <1>18, <2>1 DEF PageDies
  <2> QED BY <1>0, <1>1, <1>18, <2>2 DEF PageDies
<1>19. UNCHANGED allvars => PageInv' BY <1>3 DEF allvars
<1> HIDE DEF Queues, Shaped
<1> QED
  BY <1>3, <1>7, <1>8, <1>9, <1>10, <1>11, <1>12, <1>13, <1>14, <1>15, <1>16, <1>17, <1>18, <1>19
  DEF NextQueue, Page

(* What the page asks the store to do, a client of the store may ask. *)
LEMMA PageAsks ==
  ASSUME PageInv, NEW c \in Client, Page(c)
  PROVE  [Next]_vars
<1>0. /\ JobShape(job[c]) /\ job[c].todo \subseteq Object /\ job[c].resolved \subseteq Object
  BY DEF PageInv, Jobs
<1>1. ASSUME NEW o \in Object, NEW header \in {"none", "clip"}, Begin(c, o, header, None)
      PROVE  Next
  BY <1>1 DEF Next
<1>2. ASSUME NEW o \in Object, NEW of \in Object, NEW header \in {"source", "original"},
             Begin(c, o, header, of)
      PROVE  Next
  BY <1>2 DEF Next
<1>3. CASE SendOriginal(c)
  BY <1>0, <1>1, <1>3, Originals DEF SendOriginal, Doing, JobShape
<1>4. CASE SendDisplay(c)
  BY <1>0, <1>1, <1>2, <1>4, Originals DEF SendDisplay, Doing, JobShape
<1>5. CASE Send(c)
  <2>1. job[c].at \in Object BY <1>0, <1>5 DEF Send, Doing, JobShape
  <2>2. job[c].snapshot[job[c].at] = "known" => Original[job[c].at] \in Object
    BY <1>0, <2>1, Originals DEF JobShape
  <2> QED BY <1>0, <1>1, <1>2, <1>5, <2>1, <2>2 DEF Send
<1>6. ASSUME NEW o \in Object, Single(c, o, "clip", None) PROVE Next
  BY <1>1, <1>6 DEF Single
<1>7. ASSUME NEW o \in Object, NEW of \in Object, Single(c, o, "source", of) PROVE Next
  BY <1>2, <1>7 DEF Single
<1>8. ASSUME Answer(c) PROVE Next BY <1>8 DEF Next
<1>9. CASE OriginalSent(c) \/ DisplaySent(c) \/ PasteRefused(c) \/ Sent(c) \/ Refused(c)
           \/ SingleSent(c) \/ NoOneListens(c)
  BY <1>8, <1>9
  DEF OriginalSent, DisplaySent, PasteRefused, Sent, Refused, SingleSent, NoOneListens, Heard
<1>10. CASE \/ \E o \in Object : Paste(c, o) \/ Pick(c, o)
            \/ PasteOffline(c) \/ QueueOriginal(c) \/ QueueDisplay(c) \/ StartFlush(c)
            \/ Tell(c) \/ Drop(c) \/ FlushOffline(c) \/ FlushEnds(c)
  BY <1>10 DEF Paste, Pick, PasteOffline, QueueOriginal, QueueDisplay, StartFlush, Tell, Drop,
               FlushOffline, FlushEnds, vars
<1> QED BY <1>3, <1>4, <1>5, <1>6, <1>7, <1>9, <1>10 DEF Page

(* The store with its page is the store. *)
LEMMA PageImplements ==
  ASSUME PageInv, [NextQueue]_allvars
  PROVE  [Next]_vars
<1>1. PageDies \/ UNCHANGED allvars => UNCHANGED vars BY DEF PageDies, allvars
<1>2. Server => Next BY DEF Server, Next
<1> QED BY <1>1, <1>2, PageAsks DEF NextQueue

LEMMA InitPage == InitQueue => PageInv
<1> SUFFICES ASSUME InitQueue PROVE PageInv OBVIOUS
<1>1. /\ Nothing \in [Object -> Records] /\ NoJob \in Jobs /\ JobShape(NoJob)
      /\ \A o \in Object : Nothing[o] # "known"
  BY DEF Nothing, Records, Gone, NoJob, Jobs, JobShape, Slot
<1> QED BY <1>1 DEF InitQueue, PageInv

-----------------------------------------------------------------------------
(* Where an upload under way goes next, unless the process dies. *)
Moves(c) ==
  LET q == request[c]
      r == request'[c]
  IN
  \/ r.pc = "idle"
  \/ /\ q.pc # "idle" /\ r.object = q.object
     /\ \/ r.pc = q.pc /\ r.header = q.header
        \/ q.pc \in {"put", "rename"} /\ r.header = q.header /\ r.pc \in {"rename", AfterPut(q.header)}
        \/ q.pc = "check" /\ r.pc = "retain"
        \/ q.pc = "retain" /\ r.pc = "grant" /\ manifest'[q.object] # None
        \/ q.pc \in {"grant", "note"} /\ r.pc = "created"
        \/ r.pc = "refused"

Onward == /\ \A c \in Client : Moves(c) /\ (request[c].pc = "idle" => request'[c].pc = "idle")
          /\ \A o \in Object : manifest[o] # None => manifest'[o] # None

LEMMA ServerMoves ==
  ASSUME ShapeInv, Server
  PROVE  Onward
<1>0. /\ request \in [Client -> Requests] /\ manifest \in [Object -> Slot]
      /\ \A c \in Client : request[c].pc # "idle" => request[c].object \in Object
  BY DEF ShapeInv, TypeOK, Requests, Slot
<1>1. ASSUME NEW c \in Client, \A b \in Client \ {c} : request'[b] = request[b],
             Moves(c), request[c].pc # "idle",
             \A o \in Object : manifest[o] # None => manifest'[o] # None
      PROVE  Onward
  BY <1>1 DEF Onward, Moves
<1>2. ASSUME request' = request, manifest' = manifest PROVE Onward
  BY <1>2 DEF Onward, Moves
<1>3. ASSUME NEW c \in Client, NEW r, request' = [request EXCEPT ![c] = r], manifest' = manifest,
             request[c].pc # "idle", r.object = request[c].object,
             \/ r.pc = "refused"
             \/ request[c].pc \in {"put", "rename"} /\ r.header = request[c].header
                /\ r.pc \in {"rename", AfterPut(request[c].header)}
             \/ request[c].pc = "check" /\ r.pc = "retain"
             \/ request[c].pc \in {"grant", "note"} /\ r.pc = "created"
      PROVE  Onward
  <2>1. request'[c] = r /\ \A b \in Client \ {c} : request'[b] = request[b] BY <1>0, <1>3
  <2>2. Moves(c) BY <1>3, <2>1 DEF Moves
  <2> QED BY <1>1, <1>3, <2>1, <2>2
<1>4. ASSUME NEW c \in Client, NEW step \in {"refused", "created"}, Done(c, step),
             request[c].pc # "idle", step = "created" => request[c].pc \in {"grant", "note"},
             manifest' = manifest
      PROVE  Onward
  <2> DEFINE r == [Resting EXCEPT !.pc = step, !.object = request[c].object]
  <2>1. r.pc = step /\ r.object = request[c].object BY DEF Resting
  <2>2. request' = [request EXCEPT ![c] = r] BY <1>4 DEF Done
  <2> HIDE DEF r
  <2> QED BY <1>3, <1>4, <2>1, <2>2
<1>5. ASSUME NEW c \in Client, Stored(c), At(c, "put") \/ At(c, "rename") PROVE Onward
  <2> DEFINE q == request[c]
             r == [q EXCEPT !.pc = AfterPut(q.header), !.raced = Pruning]
  <2>1. q \in Requests BY <1>0
  <2>2. r.pc = AfterPut(q.header) /\ r.object = q.object /\ r.header = q.header
    BY <2>1 DEF Requests
  <2>3. request' = [request EXCEPT ![c] = r] BY <1>5 DEF Stored
  <2> HIDE DEF r
  <2> QED BY <1>3, <1>5, <2>2, <2>3 DEF Stored, At
<1>6. ASSUME NEW c \in Client, Put(c) \/ Rename(c) PROVE Onward
  <2>1. CASE Stored(c) BY <1>5, <1>6, <2>1 DEF Put, Rename
  <2>2. CASE Go(c, "rename") /\ At(c, "put") /\ UNCHANGED store
    <3> DEFINE r == [request[c] EXCEPT !.pc = "rename"]
    <3>1. r.pc = "rename" /\ r.object = request[c].object /\ r.header = request[c].header
      BY <1>0 DEF Requests
    <3>2. request' = [request EXCEPT ![c] = r] BY <2>2 DEF Go
    <3> HIDE DEF r
    <3> QED BY <1>3, <2>2, <3>1, <3>2 DEF At, store
  <2> QED BY <1>6, <2>1, <2>2 DEF Put, Rename
<1>7. ASSUME NEW c \in Client, PutFails(c) \/ RetainFails(c) PROVE Onward
  BY <1>4, <1>7 DEF PutFails, RetainFails, At, store
<1>8. ASSUME NEW c \in Client, Check(c) PROVE Onward
  <2>1. CASE Done(c, "refused") BY <1>4, <1>8, <2>1 DEF Check, At, store
  <2>2. ASSUME ~Done(c, "refused") PROVE Onward
    <3> DEFINE q == request[c]
               of == IF q.header = "source" /\ manifest[q.of] # None THEN manifest[q.of] ELSE q.of
               r == [q EXCEPT !.pc = "retain", !.of = of]
    <3>1. request' = [request EXCEPT ![c] = r] BY <1>8, <2>2 DEF Check
    <3> HIDE DEF of
    <3>2. r.pc = "retain" /\ r.object = q.object BY <1>0 DEF Requests
    <3> HIDE DEF r
    <3> QED BY <1>3, <1>8, <3>1, <3>2 DEF Check, At, store
  <2> QED BY <2>1, <2>2
<1>9. ASSUME NEW c \in Client, Retain(c) PROVE Onward
  <2> DEFINE q == request[c]
             r == [q EXCEPT !.pc = "grant", !.header = "none", !.of = None]
  <2>1. r.pc = "grant" /\ r.object = q.object BY <1>0 DEF Requests
  <2>2. /\ q.pc = "retain" /\ q.of # None /\ q.object \in Object
        /\ manifest' = [manifest EXCEPT ![q.object] = q.of]
        /\ request' = [request EXCEPT ![c] = r]
    BY <1>0, <1>9 DEF Retain, At, ShapeInv, TypeOK
  <2>3. manifest'[q.object] # None /\ \A o \in Object : manifest[o] # None => manifest'[o] # None
    BY <1>0, <2>2
  <2> HIDE DEF r
  <2>4. request'[c] = r /\ \A b \in Client \ {c} : request'[b] = request[b] BY <1>0, <2>2
  <2> QED BY <1>1, <2>1, <2>2, <2>3, <2>4 DEF Moves
<1>10. ASSUME NEW c \in Client, Grant(c) PROVE Onward
  BY <1>4, <1>10 DEF Grant, At, store
<1>11. ASSUME Notes PROVE Onward
  <2>1. ASSUME NEW n \in Note, NEW c \in Client, Clip(c, n) PROVE Onward
    BY <1>4, <2>1 DEF Clip, At, store
  <2>2. (\E n \in Note, os \in SUBSET Object : Save(n, os)) => Onward
    BY <1>2 DEF Save, store
  <2>3. (\E u \in User, o \in Object : Expire(u, o)) => Onward
    BY <1>2 DEF Expire, store
  <2> QED BY <1>11, <2>1, <2>2, <2>3 DEF Notes
<1>12. ASSUME StartPrune PROVE Onward
  <2>1. \A c \in Client : /\ request'[c].pc = request[c].pc
                          /\ request'[c].object = request[c].object
                          /\ request'[c].header = request[c].header
    <3> DEFINE q(c) == request[c]
               r(c) == [q(c) EXCEPT !.raced =
                          @ \/ q(c).pc \in {"check", "retain", "grant", "note"}]
    <3>1. \A c \in Client : /\ r(c).pc = q(c).pc /\ r(c).object = q(c).object
                            /\ r(c).header = q(c).header
      BY <1>0 DEF Requests
    <3>2. request' = [c \in Client |-> r(c)] BY <1>12 DEF StartPrune, Raced
    <3> HIDE DEF r
    <3> QED BY <3>1, <3>2
  <2>2. manifest' = manifest BY <1>12 DEF StartPrune, Referencing, store
  <2> QED BY <2>1, <2>2 DEF Onward, Moves
<1>13. ASSUME Maintain, ~StartPrune PROVE Onward
  BY <1>2, <1>13 DEF Maintain, StartMaterialize, Referencing, ReadManifest, ListStore, Finish,
                     Fails, Over, ReadNote, Remove, Copy, store
<1>14. ASSUME Crash PROVE Onward
  <2>1. \A c \in Client : request'[c].pc = "idle" BY <1>14 DEF Crash, Resting
  <2> QED BY <1>14, <2>1 DEF Onward, Moves, Crash, store
<1> QED
  BY <1>6, <1>7, <1>8, <1>9, <1>10, <1>11, <1>12, <1>13, <1>14 DEF Server, Upload

-----------------------------------------------------------------------------
(* The request of a loop that is not sending is answered. *)
IdleAt(c) == job[c].kind = "flush" /\ job[c].step # "send" => request[c].pc = "idle"

(* A display that goes up with the name of its original has it on record when it is
   stored, and still when its record is dropped. *)
Knows(j) == j.snapshot[j.at] = "known" \/ Original[j.at] \in j.resolved
Names(j) ==
  \/ j.kind = "paste" /\ j.step = "display" /\ Original[j.at] # None
  \/ j.kind = "flush" /\ j.step = "send" /\ Knows(j)
RecordedAt(c) ==
  /\ Names(job[c]) /\ request[c].pc # "idle" =>
       /\ request[c].object = job[c].at
       /\ request[c].pc \in {"put", "rename", "check"} => request[c].header = "original"
       /\ request[c].pc \in {"grant", "created"} => manifest[job[c].at] # None
       /\ request[c].pc # "note"
  /\ job[c].kind = "flush" /\ job[c].step = "drop" /\ Knows(job[c]) => manifest[job[c].at] # None

Uploads == \A c \in Client : IdleAt(c) /\ RecordedAt(c)

(* What the page does to requests: it begins one, or hears the answer of one. *)
Asked(c, o, header) ==
  /\ manifest' = manifest /\ \A b \in Client \ {c} : request'[b] = request[b]
  /\ request[c].pc = "idle" /\ request'[c].pc = "put"
  /\ request'[c].object = o /\ request'[c].header = header
Answered(c) ==
  /\ manifest' = manifest /\ \A b \in Client \ {c} : request'[b] = request[b]
  /\ request[c].pc \in {"created", "refused"} /\ request'[c].pc = "idle"

LEMMA Requested ==
  ASSUME ShapeInv, NEW c \in Client
  PROVE  /\ \A o, header, of : Begin(c, o, header, of) => Asked(c, o, header)
         /\ Answer(c) => Answered(c)
         /\ UNCHANGED vars => request' = request /\ manifest' = manifest
<1>0. request \in [Client -> Requests] BY DEF ShapeInv, TypeOK
<1>1. ASSUME NEW o, NEW header, NEW of, Begin(c, o, header, of) PROVE Asked(c, o, header)
  BY <1>0, <1>1 DEF Begin, Asked, At, Resting, store
<1>2. Answer(c) => Answered(c)
  BY <1>0 DEF Answer, Answered, At, Resting, store
<1> QED BY <1>1, <1>2 DEF vars, store

LEMMA PageUploads ==
  ASSUME ShapeInv, PageInv, Uploads, NEW c \in Client, Page(c)
  PROVE  Uploads'
<1> DEFINE j == job[c]
           k == job'[c]
           q == request'[c]
           Others == /\ manifest' = manifest
                     /\ \A b \in Client \ {c} : job'[b] = job[b] /\ request'[b] = request[b]
<1>0. /\ JobShape(j) /\ j \in Jobs /\ IdleAt(c) /\ RecordedAt(c)
      /\ j.resolved \subseteq Object /\ j.todo \subseteq Object /\ job \in [Client -> Jobs]
  BY DEF PageInv, Jobs, Uploads
<1>1. ASSUME Others, IdleAt(c)', RecordedAt(c)' PROVE Uploads'
  <2>1. \A b \in Client \ {c} : IdleAt(b)' /\ RecordedAt(b)'
    BY <1>1 DEF Uploads, IdleAt, RecordedAt, Names, Knows
  <2> QED BY <1>1, <2>1 DEF Uploads
<1>2. ASSUME Others, k.kind # "flush", k.kind = "paste" => k.step # "display" PROVE Uploads'
  BY <1>1, <1>2 DEF IdleAt, RecordedAt, Names
<1>3. ASSUME Others, q.pc = "idle", k.kind = "flush" => k.step # "drop" PROVE Uploads'
  BY <1>1, <1>3 DEF IdleAt, RecordedAt, Names
<1>4. ASSUME UNCHANGED vars,
             \A b \in Client \ {c} : job'[b] = job[b]
      PROVE  Others /\ q.pc = request[c].pc
  BY <1>4, Requested
<1>5. ASSUME Ends(c), Answer(c) \/ UNCHANGED vars PROVE Uploads'
  <2>1. Turned(c, "none", "rest", None, Nothing, {}, {}) BY <1>5, Turns
  <2>2. Others BY <1>4, <1>5, <2>1, Requested DEF Turned, Answered
  <2> QED BY <1>2, <2>1, <2>2 DEF Turned
<1>6. CASE DisplaySent(c) \/ PasteRefused(c) \/ QueueDisplay(c) \/ FlushOffline(c)
           \/ FlushEnds(c) \/ SingleSent(c)
  BY <1>5, <1>6
  DEF DisplaySent, PasteRefused, QueueDisplay, FlushOffline, FlushEnds, SingleSent, Heard
<1>7. CASE NoOneListens(c)
  <2>1. Answered(c) /\ job' = job BY <1>7, Requested DEF NoOneListens, browser
  <2>2. j.kind = "none" BY <1>7 DEF NoOneListens, NoJob
  <2> QED BY <1>2, <2>1, <2>2 DEF Answered
<1>8. ASSUME NEW o \in Object, Paste(c, o) PROVE Uploads'
  <2>1. Turned(c, "paste", IF Original[o] = None THEN "display" ELSE "original", o,
               Nothing, {}, {})
    BY <1>8, Turns
  <2>2. Others /\ q.pc = "idle" BY <1>4, <1>8, <2>1 DEF Turned, Paste, At
  <2> QED BY <1>3, <2>1, <2>2 DEF Turned
<1>9. CASE SendOriginal(c)
  <2>1. /\ manifest' = manifest /\ job' = job /\ j.kind = "paste" /\ j.step = "original"
        /\ \A b \in Client \ {c} : request'[b] = request[b]
    BY <1>9, Requested DEF SendOriginal, browser, Asked, Doing
  <2> QED BY <1>2, <2>1
<1>10. CASE SendDisplay(c)
  <2>1. /\ Asked(c, j.at, IF Original[j.at] = None THEN "none" ELSE "original")
        /\ job' = job /\ j.kind = "paste" /\ j.step = "display"
    BY <1>10, Requested DEF SendDisplay, browser, Doing
  <2> QED BY <1>1, <2>1 DEF Asked, IdleAt, RecordedAt, Names
<1>11. CASE OriginalSent(c)
  <2>1. /\ Answered(c) /\ j.kind = "paste"
        /\ Turned(c, j.kind, "display", j.at, j.snapshot, j.todo, j.resolved)
    BY <1>11, Requested, Turns DEF OriginalSent, Heard, Doing, Steps
  <2> QED BY <1>3, <2>1 DEF Answered, Turned
<1>12. CASE PasteOffline(c) \/ QueueOriginal(c)
  <2>1. j.kind = "paste" /\ UNCHANGED vars BY <1>12 DEF PasteOffline, QueueOriginal, Doing
  <2>2. \E s \in {"queue_original", "queue_display"} : Step(c, s)
    BY <1>12 DEF PasteOffline, QueueOriginal
  <2>3. PICK s \in {"queue_original", "queue_display"} :
          Turned(c, j.kind, s, j.at, j.snapshot, j.todo, j.resolved)
    BY <2>2, Turns DEF Steps
  <2> QED BY <1>2, <1>4, <2>1, <2>3 DEF Turned
<1>13. CASE StartFlush(c)
  <2>1. Turned(c, "flush", "pick", None, queue, {o \in Object : queue[o] # Gone}, {})
    BY <1>13, Turns
  <2>2. Others /\ q.pc = "idle" BY <1>4, <1>13, <2>1 DEF Turned, StartFlush, At
  <2> QED BY <1>3, <2>1, <2>2 DEF Turned
<1>14. ASSUME NEW o \in Object, Pick(c, o) PROVE Uploads'
  <2>1. Turned(c, "flush", "send", o, j.snapshot, j.todo, j.resolved) BY <1>14, Turns
  <2>2. Others /\ q.pc = "idle"
    BY <1>0, <1>4, <1>14, <2>1 DEF Turned, Pick, IdleAt, Doing
  <2> QED BY <1>3, <2>1, <2>2 DEF Turned
<1>15. CASE Send(c)
  <2>1. /\ Asked(c, j.at, IF Knows(j) THEN "original" ELSE "none")
        /\ job' = job /\ j.kind = "flush" /\ j.step = "send"
    BY <1>15, Requested DEF Send, browser, Doing, Knows
  <2> QED BY <1>1, <2>1 DEF Asked, IdleAt, RecordedAt, Names
<1>16. CASE Sent(c)
  <2>1. /\ Answered(c) /\ request[c].pc = "created" /\ j.kind = "flush" /\ j.step = "send"
        /\ Turned(c, "flush", IF Shown(j.at) THEN "drop" ELSE "tell", j.at, j.snapshot, j.todo,
                  IF Shown(j.at) THEN j.resolved ELSE j.resolved \cup {j.at})
    BY <1>16, Requested, Turns DEF Sent, Heard, At, Doing
  <2>2. Knows(j) => manifest[j.at] # None BY <1>0, <2>1 DEF RecordedAt, Names
  <2>3. CASE Shown(j.at)
    <3>1. Knows(k) => Knows(j) BY <2>1, <2>3 DEF Knows, Turned
    <3> QED BY <1>1, <2>1, <2>2, <2>3, <3>1 DEF Answered, Turned, IdleAt, RecordedAt, Names
  <2>4. CASE ~Shown(j.at)
    BY <1>3, <2>1, <2>4 DEF Answered, Turned
  <2> QED BY <2>3, <2>4
<1>17. CASE Tell(c)
  <2>1. /\ j.kind = "flush" /\ j.step = "tell" /\ ~Shown(j.at) /\ j.at \in Object
        /\ Turned(c, "flush", "drop", j.at, j.snapshot, j.todo, j.resolved)
    BY <1>0, <1>17, Turns DEF Tell, Doing, Steps, JobShape
  <2>2. Original[j.at] = None /\ j.snapshot[j.at] # "known"
    BY <1>0, <2>1, Originals DEF JobShape
  <2>3. ~Knows(k) BY <1>0, <2>1, <2>2, NoneAssumption DEF Knows, Turned
  <2>4. Others /\ q.pc = "idle"
    BY <1>0, <1>4, <1>17, <2>1 DEF Turned, Tell, IdleAt
  <2> QED BY <1>1, <2>1, <2>3, <2>4 DEF Turned, IdleAt, RecordedAt, Names
<1>18. CASE Drop(c)
  <2>1. Turned(c, "flush", "pick", None, j.snapshot, j.todo \ {j.at}, j.resolved)
    BY <1>18, Turns
  <2>2. Others /\ q.pc = "idle"
    BY <1>0, <1>4, <1>18, <2>1 DEF Turned, Drop, IdleAt, Doing
  <2> QED BY <1>3, <2>1, <2>2 DEF Turned
<1>19. CASE Refused(c)
  <2>1. /\ Turned(c, "flush", "pick", None, j.snapshot, j.todo \ {j.at}, j.resolved)
        /\ Answered(c)
    BY <1>19, Requested, Turns DEF Refused, Heard
  <2> QED BY <1>3, <2>1 DEF Turned, Answered
<1>20. ASSUME NEW o, NEW header, NEW of, Single(c, o, header, of) PROVE Uploads'
  <2>1. Turned(c, "single", "rest", None, Nothing, {}, {}) /\ Asked(c, o, header)
    BY <1>20, Requested, Turns DEF Single
  <2> QED BY <1>2, <2>1 DEF Turned, Asked
<1> QED
  BY <1>6, <1>7, <1>8, <1>9, <1>10, <1>11, <1>12, <1>13, <1>14, <1>15, <1>16, <1>17, <1>18,
     <1>19, <1>20
  DEF Page

LEMMA StepUploads ==
  ASSUME ShapeInv, PageInv, Uploads, [NextQueue]_allvars
  PROVE  Uploads'
<1>1. CASE Server /\ UNCHANGED browser
  <2> SUFFICES ASSUME NEW c \in Client PROVE IdleAt(c)' /\ RecordedAt(c)'
    BY DEF Uploads
  <2>1. Onward /\ job' = job BY <1>1, ServerMoves DEF browser
  <2>2. IdleAt(c) /\ RecordedAt(c) /\ job[c] \in Jobs /\ JobShape(job[c]) /\ Moves(c)
    BY <2>1 DEF Uploads, PageInv, Onward
  <2>3. /\ Names(job[c]) => job[c].at \in Object
        /\ job[c].kind = "flush" /\ job[c].step = "drop" => job[c].at \in Object
    BY <2>2 DEF Names, JobShape, Jobs
  <2>4. IdleAt(c)' BY <2>1, <2>2 DEF IdleAt, Onward
  <2>5. RecordedAt(c)'
    BY <2>1, <2>2, <2>3 DEF RecordedAt, Moves, Onward, AfterPut, Names, Knows
  <2> QED BY <2>4, <2>5
<1>2. CASE PageDies
  <2>1. \A c \in Client : job'[c].kind = "none" BY <1>2 DEF PageDies, NoJob
  <2> QED BY <2>1 DEF Uploads, IdleAt, RecordedAt, Names
<1>3. CASE UNCHANGED allvars
  BY <1>3 DEF allvars, vars, store, browser, Uploads, IdleAt, RecordedAt, Names, Knows
<1> QED BY <1>1, <1>2, <1>3, PageUploads DEF NextQueue

-----------------------------------------------------------------------------
(* A loop sends the originals of its snapshot before the displays. *)
OrderedAt(j) == j.kind = "flush" /\ j.step # "pick" =>
  /\ Original[j.at] # None => \A x \in j.todo : Original[x] # None
  /\ j.step \in {"tell", "drop"} /\ ~Shown(j.at) => j.at \in j.resolved

(* What is being pasted is nowhere else. *)
PastingAt(c) == job[c].kind = "paste" =>
  /\ queue[job[c].at] = Gone
  /\ \A b \in Client : job[b].snapshot[job[c].at] = Gone /\ (b # c => job[b].at # job[c].at)

Loops == \A c \in Client : OrderedAt(job[c]) /\ PastingAt(c)

LEMMA StepLoops ==
  ASSUME PageInv, Loops, [NextQueue]_allvars
  PROVE  Loops'
<1>0. /\ job \in [Client -> Jobs] /\ \A c \in Client : JobShape(job[c]) /\ job[c].todo \subseteq Object
      /\ queue \in [Object -> Records] /\ \A o \in Object : Nothing[o] = Gone
      /\ \A o \in Object : o # None
  BY NoneAssumption DEF PageInv, Jobs, Nothing
<1>1. ASSUME UNCHANGED <<queue, job>> PROVE Loops'
  BY <1>1 DEF Loops, PastingAt
<1>2. ASSUME NEW c \in Client, NEW kind, NEW step, NEW at, NEW snapshot, NEW todo, NEW resolved,
             Turned(c, kind, step, at, snapshot, todo, resolved),
             kind = "flush" /\ step # "pick" =>
               /\ Original[at] # None => \A x \in todo : Original[x] # None
               /\ step \in {"tell", "drop"} /\ ~Shown(at) => at \in resolved
      PROVE  \A b \in Client : OrderedAt(job'[b])
  BY <1>2 DEF Loops, OrderedAt, Turned
<1>3. ASSUME NEW c \in Client, NEW kind, NEW step, NEW at, NEW snapshot, NEW todo, NEW resolved,
             Turned(c, kind, step, at, snapshot, todo, resolved),
             \A b \in Client : OrderedAt(job'[b]),
             \* what is being pasted stays out of the queue
             \A b \in Client : job[b].kind = "paste" /\ (b = c => kind = "paste")
                               /\ queue[job[b].at] = Gone => queue'[job[b].at] = Gone,
             \* and out of the hands of the client whose turn it is
             \A b \in Client \ {c} : job[b].kind = "paste" =>
               snapshot[job[b].at] = Gone /\ at # job[b].at,
             kind = "paste" =>
               \/ job[c].kind = "paste" /\ at = job[c].at /\ snapshot = job[c].snapshot
               \/ /\ queue'[at] = Gone /\ snapshot[at] = Gone
                  /\ \A b \in Client : job[b].snapshot[at] = Gone /\ job[b].at # at
      PROVE  Loops'
  <2>1. ASSUME NEW b \in Client \ {c} PROVE PastingAt(b)'
    BY <1>3, <2>1 DEF Loops, PastingAt, Turned
  <2>2. PastingAt(c)'
    BY <1>3 DEF Loops, PastingAt, Turned
  <2> QED BY <1>3, <2>1, <2>2 DEF Loops
<1>4. \A b \in Client : job[b].kind = "paste" => job[b].at \in Object /\ Shown(job[b].at)
  BY <1>0 DEF JobShape
<1>5. \A b, c \in Client : job[b].kind = "paste" =>
        /\ queue[job[b].at] = Gone /\ job[c].snapshot[job[b].at] = Gone
        /\ (b # c => job[c].at # job[b].at)
  BY DEF Loops, PastingAt
<1>6. ASSUME NEW c \in Client, Ends(c),
             \A b \in Client \ {c} : job[b].kind = "paste" /\ queue[job[b].at] = Gone =>
               queue'[job[b].at] = Gone
      PROVE  Loops'
  <2>1. Turned(c, "none", "rest", None, Nothing, {}, {}) BY <1>6, Turns
  <2>2. \A b \in Client : OrderedAt(job'[b]) BY <1>2, <2>1
  <2> QED BY <1>0, <1>3, <1>4, <1>6, <2>1, <2>2
<1>7. ASSUME NEW c \in Client,
             DisplaySent(c) \/ PasteRefused(c) \/ FlushOffline(c) \/ FlushEnds(c) \/ SingleSent(c)
      PROVE  Loops'
  BY <1>6, <1>7 DEF DisplaySent, PasteRefused, FlushOffline, FlushEnds, SingleSent
<1>8. ASSUME NEW c \in Client, QueueDisplay(c) PROVE Loops'
  <2>1. \A b \in Client \ {c} : job[b].kind = "paste" => job[b].at # job[c].at
    BY <1>5, <1>8 DEF QueueDisplay, Doing
  <2>2. \A b \in Client \ {c} : job[b].kind = "paste" => queue'[job[b].at] = queue[job[b].at]
    BY <1>0, <1>4, <1>8, <2>1 DEF QueueDisplay
  <2> QED BY <1>6, <1>8, <2>2 DEF QueueDisplay
<1>9. ASSUME NEW c \in Client, NEW o \in Object, Paste(c, o) PROVE Loops'
  <2> DEFINE s == IF Original[o] = None THEN "display" ELSE "original"
  <2>1. Turned(c, "paste", s, o, Nothing, {}, {}) BY <1>9, Turns
  <2>2. /\ queue' = queue /\ queue[o] = Gone
        /\ \A b \in Client : job[b].snapshot[o] = Gone /\ job[b].at # o
    BY <1>9 DEF Paste, Unused, Snapped
  <2> HIDE DEF s
  <2>3. \A b \in Client : OrderedAt(job'[b]) BY <1>2, <2>1
  <2> QED BY <1>0, <1>3, <1>4, <2>1, <2>2, <2>3
<1>10. ASSUME NEW c \in Client, NEW s \in Steps, Step(c, s), job[c].kind = "paste",
              \A b \in Client : job[b].kind = "paste" => queue'[job[b].at] = queue[job[b].at]
       PROVE  Loops'
  <2>1. Turned(c, "paste", s, job[c].at, job[c].snapshot, job[c].todo, job[c].resolved)
    BY <1>10, Turns
  <2>2. \A b \in Client : OrderedAt(job'[b]) BY <1>2, <2>1
  <2> QED BY <1>3, <1>5, <1>10, <2>1, <2>2
<1>11. ASSUME NEW c \in Client, OriginalSent(c) \/ PasteOffline(c) PROVE Loops'
  BY <1>10, <1>11 DEF OriginalSent, PasteOffline, Doing, Steps
<1>12. ASSUME NEW c \in Client, QueueOriginal(c) PROVE Loops'
  <2>1. job[c].kind = "paste" /\ ~Shown(Original[job[c].at])
    BY <1>0, <1>12, Originals DEF QueueOriginal, Doing, JobShape
  <2>2. \A b \in Client : job[b].kind = "paste" => queue'[job[b].at] = queue[job[b].at]
    BY <1>0, <1>4, <1>12, <2>1 DEF QueueOriginal
  <2> QED BY <1>10, <1>12, <2>1, <2>2 DEF QueueOriginal, Steps
<1>13. ASSUME NEW c \in Client, StartFlush(c) PROVE Loops'
  <2> DEFINE left == {o \in Object : queue[o] # Gone}
  <2>1. Turned(c, "flush", "pick", None, queue, left, {}) /\ queue' = queue
    BY <1>13, Turns DEF StartFlush
  <2> HIDE DEF left
  <2>2. \A b \in Client : OrderedAt(job'[b]) BY <1>2, <2>1
  <2> QED BY <1>0, <1>3, <1>4, <1>5, <2>1, <2>2
<1>14. ASSUME NEW c \in Client, NEW o \in Object, Pick(c, o) PROVE Loops'
  <2>1. Turned(c, "flush", "send", o, job[c].snapshot, job[c].todo, job[c].resolved)
    BY <1>14, Turns
  <2>2. \A b \in Client : OrderedAt(job'[b]) BY <1>2, <1>14, <2>1 DEF Pick
  <2>3. \A b \in Client : job[b].kind = "paste" => job[b].at # o
    BY <1>0, <1>5, <1>14 DEF Pick, JobShape
  <2>4. \A b \in Client : job[b].kind = "paste" => queue'[job[b].at] = queue[job[b].at]
    BY <1>0, <1>4, <1>14, <2>3 DEF Pick
  <2> QED BY <1>3, <1>5, <2>1, <2>2, <2>3, <2>4
<1>15. ASSUME NEW c \in Client, Sent(c) PROVE Loops'
  <2> DEFINE j == job[c]
             s == IF Shown(j.at) THEN "drop" ELSE "tell"
             v == IF Shown(j.at) THEN j.resolved ELSE j.resolved \cup {j.at}
  <2>1. Turned(c, "flush", s, j.at, j.snapshot, j.todo, v) BY <1>15, Turns
  <2>2. /\ queue' = queue /\ OrderedAt(j) /\ j.kind = "flush" /\ j.step = "send"
    BY <1>15 DEF Sent, Doing, Loops
  <2>3. ~Shown(j.at) => j.at \in v OBVIOUS
  <2> HIDE DEF s, v
  <2>4. \A b \in Client : OrderedAt(job'[b]) BY <1>2, <2>1, <2>2, <2>3 DEF OrderedAt
  <2> QED BY <1>3, <1>5, <2>1, <2>2, <2>4
<1>16. ASSUME NEW c \in Client, Tell(c) PROVE Loops'
  <2> DEFINE j == job[c]
  <2>1. Turned(c, "flush", "drop", j.at, j.snapshot, j.todo, j.resolved)
    BY <1>16, Turns DEF Tell, Doing, Steps
  <2>2. OrderedAt(j) /\ j.kind = "flush" /\ j.step = "tell" BY <1>16 DEF Tell, Doing, Loops
  <2>3. \A b \in Client : OrderedAt(job'[b]) BY <1>2, <2>1, <2>2 DEF OrderedAt
  <2>4. \A b \in Client : job[b].kind = "paste" => queue'[job[b].at] = queue[job[b].at]
    BY <1>4, <1>5, <1>16 DEF Tell
  <2> QED BY <1>3, <1>5, <2>1, <2>2, <2>3, <2>4
<1>17. ASSUME NEW c \in Client, Drop(c) \/ Refused(c) PROVE Loops'
  <2> DEFINE j == job[c]
  <2>1. Turned(c, "flush", "pick", None, j.snapshot, j.todo \ {j.at}, j.resolved)
    BY <1>17, Turns
  <2>2. \A b \in Client : OrderedAt(job'[b]) BY <1>2, <2>1
  <2>3. \A o \in Object : queue[o] = Gone => queue'[o] = Gone
    BY <1>0, <1>17 DEF Drop, Refused
  <2> QED BY <1>0, <1>3, <1>4, <1>5, <2>1, <2>2, <2>3
<1>18. ASSUME NEW c \in Client, NEW o, NEW header, NEW of, Single(c, o, header, of) PROVE Loops'
  <2>1. Turned(c, "single", "rest", None, Nothing, {}, {}) /\ queue' = queue
    BY <1>18, Turns DEF Single
  <2>2. \A b \in Client : OrderedAt(job'[b]) BY <1>2, <2>1
  <2> QED BY <1>0, <1>3, <1>4, <2>1, <2>2
<1>19. ASSUME NEW c \in Client, SendOriginal(c) \/ SendDisplay(c) \/ Send(c) \/ NoOneListens(c)
       PROVE  Loops'
  BY <1>1, <1>19 DEF SendOriginal, SendDisplay, Send, NoOneListens, browser
<1>20. CASE PageDies
  <2>1. \A c \in Client : job'[c].kind = "none" BY <1>20 DEF PageDies, NoJob
  <2> QED BY <2>1 DEF Loops, OrderedAt, PastingAt
<1>21. CASE UNCHANGED browser \/ UNCHANGED allvars
  BY <1>1, <1>21 DEF browser, allvars
<1> QED
  BY <1>7, <1>8, <1>9, <1>11, <1>12, <1>13, <1>14, <1>15, <1>16, <1>17, <1>18, <1>19, <1>20, <1>21
  DEF NextQueue, Page

-----------------------------------------------------------------------------
(* What the editor waits for stays in the queue. *)
LEMMA StepPending ==
  ASSUME PageInv, PendingIsQueued, [NextQueue]_allvars
  PROVE  PendingIsQueued'
<1>0. /\ queue \in [Object -> Records] /\ pending \subseteq Object
      /\ \A c \in Client : JobShape(job[c]) /\ job[c].todo \subseteq Object
  BY DEF PageInv, Jobs
<1>1. ASSUME UNCHANGED <<queue, pending>> PROVE PendingIsQueued'
  BY <1>1 DEF PendingIsQueued
<1>2. ASSUME NEW c \in Client, NEW o \in Object, Pick(c, o) PROVE PendingIsQueued'
  <2>1. job[c].snapshot[o] # Gone BY <1>0, <1>2 DEF Pick, JobShape
  <2> QED BY <1>0, <1>2, <2>1 DEF Pick, PendingIsQueued
<1>3. ASSUME NEW c \in Client, QueueOriginal(c) PROVE PendingIsQueued'
  BY <1>0, <1>3 DEF QueueOriginal, PendingIsQueued, Gone
<1>4. ASSUME NEW c \in Client, QueueDisplay(c) PROVE PendingIsQueued'
  <2>1. job[c].at \in Object BY <1>0, <1>4 DEF QueueDisplay, Doing, JobShape
  <2> QED BY <1>0, <1>4, <2>1 DEF QueueDisplay, PendingIsQueued, Gone
<1>5. ASSUME NEW c \in Client, Tell(c) PROVE PendingIsQueued'
  BY <1>0, <1>5 DEF Tell, PendingIsQueued, Gone
<1>6. ASSUME NEW c \in Client, Drop(c) PROVE PendingIsQueued'
  BY <1>0, <1>6 DEF Drop, PendingIsQueued
<1>7. ASSUME NEW c \in Client, Refused(c) PROVE PendingIsQueued'
  BY <1>0, <1>7 DEF Refused, PendingIsQueued
<1>8. CASE PageDies BY <1>8 DEF PageDies, PendingIsQueued
<1> QED
  BY <1>1, <1>2, <1>3, <1>4, <1>5, <1>6, <1>7, <1>8
  DEF NextQueue, Page, allvars, browser, Paste, Single, SendOriginal, SendDisplay, OriginalSent,
      DisplaySent, PasteRefused, PasteOffline, StartFlush, Send, Sent, FlushOffline, FlushEnds,
      SingleSent, NoOneListens

-----------------------------------------------------------------------------
(* A display that was queued whole knows its original or has it in the queue, and so it
   is with every snapshot; when a loop drops the original the display has been told. *)
SeenWhole(j, d, g) ==
  /\ j.snapshot[g] # Gone => j.snapshot[d] # Gone
  /\ j.snapshot[d] # Gone => j.snapshot[d] = "known" \/ g \in j.todo \cup j.resolved
WholeAt(d, g) ==
  /\ queue[d] = "known" \/ queue[g] # Gone
  /\ \A c \in Client :
       /\ SeenWhole(job[c], d, g)
       /\ job[c].kind = "flush" /\ job[c].step = "drop" /\ job[c].at = g => queue[d] = "known"
WholeInv == \A d \in whole : Original[d] # None => WholeAt(d, Original[d])

LEMMA StepWhole ==
  ASSUME PageInv, Loops, PendingIsQueued, WholeInv, [NextQueue]_allvars
  PROVE  WholeInv'
<1>0. /\ job \in [Client -> Jobs] /\ \A c \in Client : JobShape(job[c]) /\ job[c].todo \subseteq Object
      /\ queue \in [Object -> Records] /\ \A o \in Object : Nothing[o] = Gone
      /\ whole \subseteq pending /\ pending \subseteq Object
      /\ \A o \in Object : o # None
  BY NoneAssumption DEF PageInv, Jobs, Nothing
<1>1. \A d \in whole : queue[d] # Gone BY <1>0 DEF PendingIsQueued
<1>2. ASSUME UNCHANGED <<queue, job>>, whole' \subseteq whole PROVE WholeInv'
  BY <1>2 DEF WholeInv, WholeAt
\* A client's turn keeps a pair when it leaves the records of the pair as they are.
<1>3. ASSUME NEW c \in Client, NEW kind, NEW step, NEW at, NEW snapshot, NEW todo, NEW resolved,
             Turned(c, kind, step, at, snapshot, todo, resolved),
             NEW d \in whole, NEW g \in Object, Original[d] = g,
             queue[d] = "known" => queue'[d] = "known",
             queue'[d] = "known" \/ queue'[g] # Gone,
             snapshot[g] # Gone => snapshot[d] # Gone,
             snapshot[d] # Gone => snapshot[d] = "known" \/ g \in todo \cup resolved,
             kind = "flush" /\ step = "drop" /\ at = g => queue'[d] = "known"
      PROVE  WholeAt(d, g)'
  <2>1. WholeAt(d, g) BY <1>0, <1>3 DEF WholeInv
  <2>2. \A b \in Client \ {c} :
          /\ SeenWhole(job'[b], d, g)
          /\ job'[b].kind = "flush" /\ job'[b].step = "drop" /\ job'[b].at = g => queue'[d] = "known"
    BY <1>3, <2>1 DEF WholeAt, Turned
  <2>3. /\ SeenWhole(job'[c], d, g)
        /\ job'[c].kind = "flush" /\ job'[c].step = "drop" /\ job'[c].at = g => queue'[d] = "known"
    BY <1>3 DEF SeenWhole, Turned
  <2> QED BY <1>3, <2>2, <2>3 DEF WholeAt
<1>4. \A d \in whole : Original[d] # None =>
        /\ d \in Object /\ Original[d] \in Object /\ ~Shown(Original[d])
        /\ Original[Original[d]] = None
        /\ queue[d] = "known" \/ queue[Original[d]] # Gone
        /\ \A c \in Client : SeenWhole(job[c], d, Original[d])
  BY <1>0, Originals DEF WholeInv, WholeAt
\* A turn that forgets its snapshot, or keeps it and does not come to drop an original.
<1>5. ASSUME NEW c \in Client, NEW kind, NEW step, NEW at,
             Turned(c, kind, step, at, Nothing, {}, {}), kind # "flush",
             whole' \subseteq whole,
             \A d \in whole' : Original[d] # None =>
               queue'[d] = queue[d] /\ (queue[Original[d]] # Gone => queue'[Original[d]] # Gone)
      PROVE  WholeInv'
  <2> SUFFICES ASSUME NEW d \in whole', Original[d] # None PROVE WholeAt(d, Original[d])'
    BY DEF WholeInv
  <2> QED BY <1>0, <1>3, <1>4, <1>5
<1>6. ASSUME NEW c \in Client, NEW step, NEW at, NEW todo, NEW resolved,
             Turned(c, "flush", step, at, job[c].snapshot, todo, resolved),
             job[c].todo \cup job[c].resolved \subseteq todo \cup resolved,
             step = "drop" => Shown(at),
             whole' = whole,
             \A d \in whole : Original[d] # None =>
               queue'[d] = queue[d] /\ queue'[Original[d]] = queue[Original[d]]
      PROVE  WholeInv'
  <2> SUFFICES ASSUME NEW d \in whole, Original[d] # None PROVE WholeAt(d, Original[d])'
    BY <1>6 DEF WholeInv
  <2> QED BY <1>3, <1>4, <1>6 DEF SeenWhole
<1>7. ASSUME NEW c \in Client, Ends(c), UNCHANGED <<queue, whole>> PROVE WholeInv'
  <2>1. Turned(c, "none", "rest", None, Nothing, {}, {}) BY <1>7, Turns
  <2> QED BY <1>5, <1>7, <2>1
<1>8. ASSUME NEW c \in Client,
             DisplaySent(c) \/ PasteRefused(c) \/ FlushOffline(c) \/ FlushEnds(c) \/ SingleSent(c)
      PROVE  WholeInv'
  BY <1>7, <1>8 DEF DisplaySent, PasteRefused, FlushOffline, FlushEnds, SingleSent, promises
<1>9. ASSUME NEW c \in Client, NEW o \in Object, Paste(c, o) PROVE WholeInv'
  <2> DEFINE s == IF Original[o] = None THEN "display" ELSE "original"
  <2>1. Turned(c, "paste", s, o, Nothing, {}, {}) BY <1>9, Turns
  <2> HIDE DEF s
  <2> QED BY <1>5, <1>9, <2>1 DEF Paste, promises
<1>10. ASSUME NEW c \in Client, NEW s \in Steps, Step(c, s), job[c].kind = "paste", whole' = whole,
              \A d \in whole : Original[d] # None =>
                queue'[d] = queue[d] /\ (queue[Original[d]] # Gone => queue'[Original[d]] # Gone)
       PROVE  WholeInv'
  <2>1. Turned(c, "paste", s, job[c].at, job[c].snapshot, job[c].todo, job[c].resolved)
    BY <1>10, Turns
  <2>2. job[c].snapshot = Nothing BY <1>0, <1>10 DEF JobShape
  <2> SUFFICES ASSUME NEW d \in whole, Original[d] # None PROVE WholeAt(d, Original[d])'
    BY <1>10 DEF WholeInv
  <2> QED BY <1>0, <1>3, <1>4, <1>10, <2>1, <2>2
<1>11. ASSUME NEW c \in Client, OriginalSent(c) \/ PasteOffline(c) PROVE WholeInv'
  BY <1>10, <1>11 DEF OriginalSent, PasteOffline, Doing, Steps, promises
<1>12. ASSUME NEW c \in Client, QueueOriginal(c) PROVE WholeInv'
  <2> DEFINE g == Original[job[c].at]
  <2>1. /\ job[c].kind = "paste" /\ g \in Object /\ Original[g] = None
        /\ queue' = [queue EXCEPT ![g] = "queued"] /\ whole' = whole
    BY <1>0, <1>12, Originals DEF QueueOriginal, Doing, JobShape, promises
  <2>2. \A d \in whole : Original[d] # None =>
          queue'[d] = queue[d] /\ (queue[Original[d]] # Gone => queue'[Original[d]] # Gone)
    BY <1>0, <1>4, <2>1 DEF Gone
  <2> HIDE DEF g
  <2> QED BY <1>10, <1>12, <2>1, <2>2 DEF QueueOriginal, Steps
<1>13. ASSUME NEW c \in Client, QueueDisplay(c) PROVE WholeInv'
  <2> DEFINE e == job[c].at
  <2>1. /\ e \in Object /\ Shown(e) /\ queue[e] = Gone /\ e \notin whole
        /\ \A b \in Client : job[b].snapshot[e] = Gone
        /\ queue' = [queue EXCEPT ![e] = "queued"]
        /\ Turned(c, "none", "rest", None, Nothing, {}, {})
    BY <1>0, <1>1, <1>13, Turns DEF QueueDisplay, Doing, JobShape, Loops, PastingAt
  <2>2. whole' \subseteq whole \cup {e}
    BY <1>13 DEF QueueDisplay
  <2> SUFFICES ASSUME NEW d \in whole', Original[d] # None PROVE WholeAt(d, Original[d])'
    BY DEF WholeInv
  <2>3. CASE d \in whole
    <3>1. queue'[d] = queue[d] /\ queue'[Original[d]] = queue[Original[d]]
      BY <1>0, <1>4, <2>1, <2>3
    <3> QED BY <1>0, <1>3, <1>4, <2>1, <2>3, <3>1
  <2>4. CASE d = e /\ d \notin whole
    <3> DEFINE g == Original[d]
    <3>1. g \in Object /\ queue[g] # Gone /\ \A b \in Client : job[b].snapshot[g] = Gone
      BY <1>13, <2>1, <2>4, Originals DEF QueueDisplay, Unseen, Snapped
    <3>2. g # e /\ queue'[g] # Gone BY <1>0, <2>1, <3>1
    <3>3. \A b \in Client : job[b].kind = "flush" /\ job[b].step = "drop" => job[b].at # g
      BY <1>0, <3>1 DEF JobShape
    <3>4. \A b \in Client : /\ job'[b].snapshot[g] = Gone /\ job'[b].snapshot[d] = Gone
                            /\ job'[b].kind = "flush" /\ job'[b].step = "drop" => job'[b].at # g
      BY <1>0, <2>1, <2>4, <3>1, <3>3 DEF Turned
    <3> HIDE DEF g
    <3>5. WholeAt(d, g)' BY <3>2, <3>4 DEF WholeAt, SeenWhole
    <3> QED BY <3>5 DEF g
  <2> QED BY <2>2, <2>3, <2>4
<1>14. ASSUME NEW c \in Client, StartFlush(c) PROVE WholeInv'
  <2> DEFINE left == {o \in Object : queue[o] # Gone}
  <2>1. Turned(c, "flush", "pick", None, queue, left, {}) /\ queue' = queue /\ whole' = whole
    BY <1>14, Turns DEF StartFlush, promises
  <2> SUFFICES ASSUME NEW d \in whole, Original[d] # None PROVE WholeAt(d, Original[d])'
    BY <2>1 DEF WholeInv
  <2>2. queue[d] # Gone /\ (queue[Original[d]] # Gone => Original[d] \in left)
    BY <1>1, <1>4
  <2> HIDE DEF left
  <2> QED BY <1>3, <1>4, <2>1, <2>2
<1>15. ASSUME NEW c \in Client, NEW o \in Object, Pick(c, o) PROVE WholeInv'
  <2>1. Turned(c, "flush", "send", o, job[c].snapshot, job[c].todo, job[c].resolved)
    BY <1>15, Turns
  <2>2. /\ whole' = whole
        /\ \A d \in whole : Original[d] # None =>
             queue'[d] = queue[d] /\ queue'[Original[d]] = queue[Original[d]]
    BY <1>0, <1>4, <1>15 DEF Pick, promises
  <2> SUFFICES ASSUME NEW d \in whole, Original[d] # None PROVE WholeAt(d, Original[d])'
    BY <2>2 DEF WholeInv
  <2> QED BY <1>3, <1>4, <2>1, <2>2 DEF SeenWhole
<1>16. ASSUME NEW c \in Client, Sent(c) PROVE WholeInv'
  <2> DEFINE j == job[c]
             s == IF Shown(j.at) THEN "drop" ELSE "tell"
             v == IF Shown(j.at) THEN j.resolved ELSE j.resolved \cup {j.at}
  <2>1. Turned(c, "flush", s, j.at, j.snapshot, j.todo, v) BY <1>16, Turns
  <2>2. queue' = queue /\ whole' = whole BY <1>16 DEF Sent, promises
  <2>3. j.todo \cup j.resolved \subseteq j.todo \cup v /\ (s = "drop" => Shown(j.at)) OBVIOUS
  <2> HIDE DEF s, v
  <2> QED BY <1>6, <2>1, <2>2, <2>3
<1>17. ASSUME NEW c \in Client, Tell(c) PROVE WholeInv'
  <2> DEFINE j == job[c]
             o == j.at
             told == {d \in Dependents(o) : j.snapshot[d] # Gone}
  <2>1. /\ Turned(c, "flush", "drop", o, j.snapshot, j.todo, j.resolved)
        /\ j.kind = "flush" /\ o \in j.todo /\ o \in Object /\ j.snapshot[o] # Gone
    BY <1>0, <1>17, Turns DEF Tell, Doing, Steps, JobShape
  <2>2. /\ whole' = whole
        /\ queue' = [x \in Object |-> IF x \in told THEN "known" ELSE queue[x]]
    BY <1>17 DEF Tell, promises
  <2>3. \A x \in Object : queue'[x] = IF x \in told THEN "known" ELSE queue[x] BY <2>2
  <2> SUFFICES ASSUME NEW d \in whole, Original[d] # None PROVE WholeAt(d, Original[d])'
    BY <2>2 DEF WholeInv
  <2>4. o = Original[d] => d \in told
    BY <1>4, <2>1, Originals DEF SeenWhole
  <2> HIDE DEF told
  <2>5. /\ queue[d] = "known" => queue'[d] = "known"
        /\ queue'[d] = "known" \/ queue'[Original[d]] # Gone
        /\ o = Original[d] => queue'[d] = "known"
    BY <1>4, <2>3, <2>4 DEF Gone
  <2> QED BY <1>3, <1>4, <2>1, <2>5 DEF SeenWhole
<1>18. ASSUME NEW c \in Client, Drop(c) PROVE WholeInv'
  <2> DEFINE j == job[c]
             o == j.at
  <2>1. /\ Turned(c, "flush", "pick", None, j.snapshot, j.todo \ {o}, j.resolved)
        /\ j.kind = "flush" /\ j.step = "drop" /\ o \in Object
        /\ ~Shown(o) => o \in j.resolved
    BY <1>0, <1>18, Turns DEF Drop, Doing, JobShape, Loops, OrderedAt
  <2>2. whole' = whole \ {o} /\ queue' = [queue EXCEPT ![o] = Gone] BY <1>18 DEF Drop
  <2> SUFFICES ASSUME NEW d \in whole, d # o, Original[d] # None PROVE WholeAt(d, Original[d])'
    BY <2>2 DEF WholeInv
  <2>3. o = Original[d] => queue[d] = "known" BY <2>1 DEF WholeInv, WholeAt
  <2>4. /\ queue'[d] = queue[d]
        /\ o # Original[d] => queue'[Original[d]] = queue[Original[d]]
    BY <1>0, <1>4, <2>1, <2>2
  <2>5. Original[d] \in j.todo \cup j.resolved => Original[d] \in (j.todo \ {o}) \cup j.resolved
    BY <1>4, <2>1
  <2> QED BY <1>3, <1>4, <2>1, <2>3, <2>4, <2>5 DEF SeenWhole
<1>19. ASSUME NEW c \in Client, Refused(c) PROVE WholeInv'
  <2> DEFINE j == job[c]
             o == j.at
             lost == {o} \cup {d \in Dependents(o) : j.snapshot[d] # Gone}
  <2>1. /\ Turned(c, "flush", "pick", None, j.snapshot, j.todo \ {o}, j.resolved)
        /\ j.kind = "flush" /\ o \in Object /\ j.snapshot[o] # Gone
    BY <1>0, <1>19, Turns DEF Refused, Doing, JobShape
  <2>2. whole' = whole \ lost /\ queue' = [x \in Object |-> IF x \in lost THEN Gone ELSE queue[x]]
    BY <1>19 DEF Refused
  <2> SUFFICES ASSUME NEW d \in whole, d \notin lost, Original[d] # None
               PROVE  WholeAt(d, Original[d])'
    BY <2>2 DEF WholeInv
  <2>3. o # Original[d]
    BY <1>4, <2>1, Originals DEF SeenWhole
  <2>4. Original[d] \notin lost
    BY <1>4, <2>1, <2>3, Originals
  <2>5. queue'[d] = queue[d] /\ queue'[Original[d]] = queue[Original[d]]
    BY <1>4, <2>2, <2>4
  <2> HIDE DEF lost
  <2> QED BY <1>3, <1>4, <2>1, <2>3, <2>5 DEF SeenWhole
<1>20. ASSUME NEW c \in Client, NEW o, NEW header, NEW of, Single(c, o, header, of)
       PROVE  WholeInv'
  <2>1. Turned(c, "single", "rest", None, Nothing, {}, {}) BY <1>20, Turns
  <2> QED BY <1>5, <1>20, <2>1 DEF Single, promises
<1>21. ASSUME NEW c \in Client, SendOriginal(c) \/ SendDisplay(c) \/ Send(c) \/ NoOneListens(c)
       PROVE  WholeInv'
  BY <1>2, <1>21 DEF SendOriginal, SendDisplay, Send, NoOneListens, browser, promises
<1>22. CASE PageDies
  BY <1>22 DEF PageDies, WholeInv
<1>23. CASE UNCHANGED browser \/ UNCHANGED allvars
  BY <1>2, <1>23 DEF browser, allvars, promises
<1> QED
  BY <1>8, <1>9, <1>11, <1>12, <1>13, <1>14, <1>15, <1>16, <1>17, <1>18, <1>19, <1>20, <1>21,
     <1>22, <1>23
  DEF NextQueue, Page

-----------------------------------------------------------------------------
(* A path is given when the original is on record, and that it stays. *)
LEMMA StepGiven ==
  ASSUME ShapeInv, PageInv, Uploads, Loops, WholeInv, RetainsOriginal, [NextQueue]_allvars
  PROVE  RetainsOriginal'
<1>0. /\ given \subseteq Object /\ whole \subseteq Object
      /\ \A c \in Client : JobShape(job[c]) /\ job[c].todo \subseteq Object
  BY DEF PageInv, Jobs
<1>1. ASSUME given' \subseteq given, \A o \in Object : manifest[o] # None => manifest'[o] # None
      PROVE  RetainsOriginal'
  BY <1>0, <1>1 DEF RetainsOriginal
<1>2. ASSUME NEW c \in Client, DisplaySent(c) PROVE RetainsOriginal'
  <2> DEFINE d == job[c].at
  <2>1. /\ d \in Object /\ given' = given \cup {d} /\ manifest' = manifest
        /\ request[c].pc = "created" /\ (Original[d] # None => Names(job[c]))
    BY <1>0, <1>2, Requested DEF DisplaySent, Heard, At, Doing, Answered, Names, JobShape
  <2>2. Original[d] # None => manifest[d] # None
    BY <2>1 DEF Uploads, RecordedAt
  <2> QED BY <2>1, <2>2 DEF RetainsOriginal
<1>3. ASSUME NEW c \in Client, Drop(c) PROVE RetainsOriginal'
  <2> DEFINE j == job[c]
             d == j.at
  <2>1. /\ d \in j.todo /\ j.snapshot[d] # Gone /\ j.kind = "flush" /\ j.step = "drop"
        /\ given' = given \cup ({d} \cap whole) /\ manifest' = manifest
    BY <1>0, <1>3, Requested DEF Drop, Doing, JobShape
  <2>2. ASSUME d \in whole, Original[d] # None PROVE manifest[d] # None
    <3>1. j.snapshot[d] = "known" \/ Original[d] \in j.todo \cup j.resolved
      BY <2>1, <2>2 DEF WholeInv, WholeAt, SeenWhole
    <3>2. Original[d] \notin j.todo
      BY <1>0, <2>1, <2>2, Originals DEF Loops, OrderedAt
    <3>3. Knows(j) BY <3>1, <3>2 DEF Knows
    <3> QED BY <2>1, <3>3 DEF Uploads, RecordedAt
  <2> QED BY <2>1, <2>2 DEF RetainsOriginal
<1>4. ASSUME NEW c \in Client, Page(c), ~DisplaySent(c), ~Drop(c) PROVE given' = given
  BY <1>4
  DEF Page, browser, promises, Paste, Pick, Single, SendOriginal, SendDisplay, OriginalSent,
      PasteRefused, PasteOffline, QueueOriginal, QueueDisplay, StartFlush, Send, Sent, Tell,
      Refused, FlushOffline, FlushEnds, SingleSent, NoOneListens
<1>5. ASSUME NEW c \in Client, Page(c) PROVE manifest' = manifest
  BY <1>5, Requested
  DEF Page, Heard, Asked, Answered, Paste, Pick, Single, SendOriginal, SendDisplay, OriginalSent,
      DisplaySent, PasteRefused, PasteOffline, QueueOriginal, QueueDisplay, StartFlush, Send, Sent,
      Tell, Drop, Refused, FlushOffline, FlushEnds, SingleSent, NoOneListens
<1>6. CASE Server /\ UNCHANGED browser
  BY <1>1, <1>6, ServerMoves DEF browser, promises, Onward
<1>7. CASE PageDies \/ UNCHANGED allvars
  BY <1>1, <1>7, Requested DEF PageDies, allvars, browser, promises, vars, store
<1> QED BY <1>1, <1>2, <1>3, <1>4, <1>5, <1>6, <1>7 DEF NextQueue

(* The store with its page does nothing the store alone could not do, so everything
   proved of the store holds while pages paste, queue and flush (media-upload.ts against
   http.rs `media_upload`). *)
THEOREM PageIsClient == SpecQueue => Spec
<1>1. InitQueue => Init BY DEF InitQueue
<1>2. PageInv /\ [NextQueue]_allvars => PageInv' /\ [Next]_vars
  BY PageShaped, PageImplements
<1> QED BY InitPage, <1>1, <1>2, PTL DEF SpecQueue, Spec

(* Every state of the queue and of the loops has its types (media-upload.ts). *)
THEOREM QueueTyped == SpecQueue => []QueueTypeOK
<1>1. PageInv /\ [NextQueue]_allvars => PageInv' BY PageShaped
<1>2. PageInv /\ TypeOK => QueueTypeOK BY DEF PageInv, QueueTypeOK
<1> QED BY InitPage, <1>1, <1>2, PageIsClient, MediaTyped, PTL DEF SpecQueue

(* A promise does not hang: what the editor waits for is in the queue, whatever loops
   overlap and wherever the connection fails (media-upload.ts, `flush`). *)
THEOREM NoPromiseHangs == SpecQueue => []PendingIsQueued
<1>1. InitQueue => PendingIsQueued BY DEF InitQueue, PendingIsQueued
<1>2. PageInv /\ PendingIsQueued /\ [NextQueue]_allvars => (PageInv /\ PendingIsQueued)'
  BY PageShaped, StepPending
<1> QED BY InitPage, <1>1, <1>2, PTL DEF SpecQueue

(* A display whose path the editor got has its original on record, if both were sent at
   once or queued before a loop saw one of them (media-upload.ts, `flush`). *)
THEOREM OriginalsRetained == SpecQueue => []RetainsOriginal
<1> DEFINE Inv == /\ PageInv /\ Uploads /\ Loops /\ PendingIsQueued /\ WholeInv /\ RetainsOriginal
<1>1. InitQueue => Inv
  <2> SUFFICES ASSUME InitQueue PROVE Inv OBVIOUS
  <2>1. \A c \in Client : job[c].kind = "none" BY DEF InitQueue, NoJob
  <2>2. Uploads /\ Loops BY <2>1 DEF Uploads, IdleAt, RecordedAt, Names, Loops, OrderedAt, PastingAt
  <2> QED BY <2>2, InitPage DEF InitQueue, PendingIsQueued, WholeInv, RetainsOriginal
<1>2. ShapeInv /\ Inv /\ [NextQueue]_allvars => Inv'
  BY PageShaped, StepUploads, StepLoops, StepPending, StepWhole, StepGiven
<1>3. SpecQueue => []ShapeInv BY PageIsClient, MediaInvariant, PTL
<1>4. Inv => RetainsOriginal OBVIOUS
<1> HIDE DEF Inv
<1> QED BY <1>1, <1>2, <1>3, <1>4, PTL DEF SpecQueue
=============================================================================
