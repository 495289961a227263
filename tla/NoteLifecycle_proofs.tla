------------------------- MODULE NoteLifecycle_proofs -------------------------
(* Theorems about NoteLifecycle, for every set of paths, trash identifiers, notes and
   edits, and any number of requests and crashes. *)
EXTENDS NoteLifecycle, TLAPS

(* Which request is at which step, between which places. *)
RequestShape(r) ==
  /\ r.pc = "rest" => r = Rest
  /\ r.pc # "rest" => r.kind # "none" /\ r.note \in Note
  /\ r.kind = "delete" => /\ r.from \in Path /\ r.to \in Id
                          /\ r.pc \in {"close", "move", "meta", "marker", "sidecar", "done"}
  /\ r.kind = "restore" => /\ r.from \in Id /\ r.to \in Path
                           /\ r.pc \in {"move", "marker", "sidecar", "forget", "done"}
  /\ r.kind = "rename" => /\ r.from \in Path /\ r.to \in Path
                          /\ r.pc \in {"flush", "plan", "close", "move", "marker", "sidecar",
                                       "write", "done"}

TypeInv == TypeOK /\ \A h \in Handler : RequestShape(op[h])

-----------------------------------------------------------------------------
(* Texts. *)
LEMMA Texts ==
  /\ Rest \in Request /\ RequestShape(Rest)
  /\ \A p \in Path : NewBody(p) \in Text
  /\ Blank \in Text
<1>1. Rest \in Request
  BY DEF Rest, Request
<1>2. RequestShape(Rest)
  BY DEF Rest, RequestShape
<1>3. \A p \in Path : NewBody(p) \in Text
  BY DEF NewBody, Text
<1>4. Blank \in Text
  BY DEF Blank, Text
<1> QED BY <1>1, <1>2, <1>3, <1>4

LEMMA RepointedText ==
  ASSUME NEW t \in Text, NEW p \in Path, NEW q \in Path
  PROVE  /\ Repointed(t, p, q) \in Text /\ [Repointed(t, p, q) EXCEPT !.title = q] \in Text
         /\ Repointed(t, p, q).link = IF t.link = p THEN q ELSE t.link
         /\ [Repointed(t, p, q) EXCEPT !.title = q].link = IF t.link = p THEN q ELSE t.link
  BY DEF Repointed, Text

LEMMA FileText == TypeOK => \A x \in Place : file[x] # None => file[x] \in Text
  BY DEF TypeOK

LEMMA ShownText ==
  ASSUME TypeOK, NEW p \in Path, file[p] # None
  PROVE  Shown(p) \in Text
<1>1. p \in Place
  BY DEF Place
<1>2. room[p] # None => room[p].doc \in Text
  BY DEF TypeOK, Room
<1> QED BY <1>1, <1>2 DEF Shown, TypeOK

(* What a room writes back is a text of its note. *)
LEMMA WriteBackTypes ==
  ASSUME TypeOK, NEW paths \in SUBSET Path, WriteBack(paths)
  PROVE  /\ file' \in [Place -> Text \cup {None}] /\ marker' \in [Place -> Text \cup {None}]
         /\ owner' \in [Place -> Note \cup {None}] /\ sidecar' = sidecar
         /\ \A x \in Place : file'[x] = None <=> owner'[x] = None
<1>1. \A x \in Due(paths) : x \in Path /\ room[x].doc \in Text /\ room[x].note \in Note
  BY DEF Due, TypeOK, Room
<1> QED BY <1>1, NoneAssumption DEF WriteBack, TypeOK

LEMMA CleanRooms ==
  ASSUME TypeOK, NEW paths \in SUBSET Path
  PROVE  Clean(paths) \in [Path -> Room \cup {None}]
<1> SUFFICES ASSUME NEW p \in Path
    PROVE  (IF p \in Due(paths) THEN [room[p] EXCEPT !.hash = room[p].doc, !.due = FALSE]
            ELSE room[p]) \in Room \cup {None}
  BY DEF Clean
<1>1. CASE p \in Due(paths)
  <2>1. room[p] \in Room
    BY <1>1 DEF Due, TypeOK
  <2> QED BY <1>1, <2>1 DEF Room
<1>2. CASE p \notin Due(paths)
  BY <1>2 DEF TypeOK
<1> QED BY <1>1, <1>2

LEMMA MovedTypes ==
  ASSUME NEW S, NEW f \in [Place -> S \cup {None}], NEW x \in Place, NEW y \in Place
  PROVE  Moved(f, x, y) \in [Place -> S \cup {None}]
  BY DEF Moved

(* A request goes on, or ends, and keeps its shape. *)
LEMMA GoShape ==
  ASSUME TypeInv, NEW h \in Handler, NEW pc,
         RequestShape([op[h] EXCEPT !.pc = pc]), [op[h] EXCEPT !.pc = pc] \in Request,
         Go(h, pc)
  PROVE  op' \in [Handler -> Request] /\ \A g \in Handler : RequestShape(op'[g])
  BY DEF Go, TypeInv, TypeOK

LEMMA EndShape ==
  ASSUME TypeInv, NEW h \in Handler, End(h)
  PROVE  op' \in [Handler -> Request] /\ \A g \in Handler : RequestShape(op'[g])
  BY Texts DEF End, TypeInv, TypeOK

LEMMA TypeInit == Init => TypeInv
<1> SUFFICES ASSUME Init PROVE TypeInv
  OBVIOUS
<1>1. op \in [Handler -> Request] /\ \A h \in Handler : RequestShape(op[h])
  BY Texts DEF Init
<1> QED BY <1>1, MaxEventsAssumption DEF Init, TypeInv, TypeOK

(* The texts that a rename plans. *)
LEMMA PlanTypes ==
  ASSUME TypeInv, NEW h \in Handler, Plan(h)
  PROVE  op' \in [Handler -> Request] /\ \A g \in Handler : RequestShape(op'[g])
<1> DEFINE p == op[h].from
           q == op[h].to
           plan == PlanOf(p, q)
<1>1. op' = [op EXCEPT ![h].pc = "close", ![h].meant = Meant, ![h].plan = plan]
      /\ p \in Live /\ op[h].pc = "plan"
  BY DEF Plan, At
<1>2. p \in Path /\ q \in Path /\ op[h].kind = "rename" /\ op[h] \in Request
  BY <1>1 DEF TypeInv, TypeOK, RequestShape, Request
<1>3. \A l \in Live : l \in Path /\ file[l] \in Text
  BY FileText DEF Live, Place, TypeInv
<1>4. plan \in SUBSET Planned
  <2>1. \A l \in Live : [at |-> l, text |-> Repointed(file[l], p, q)] \in Planned
    BY <1>2, <1>3, RepointedText DEF Planned
  <2>2. [at |-> q, text |-> [Repointed(file[p], p, q) EXCEPT !.title = q]] \in Planned
    BY <1>1, <1>2, <1>3, RepointedText DEF Planned
  <2> QED BY <2>1, <2>2 DEF PlanOf
<1>5. Meant \in [Note -> Note \cup {None}]
  <2>1. \A x \in Live : owner[x] \in Note \cup {None}
    BY DEF Live, Place, TypeInv, TypeOK
  <2>2. \A n \in Note : Linked(n) # {} => LinkOf(CHOOSE l \in Linked(n) : TRUE) \in Live
    BY DEF Linked
  <2> QED BY <2>1, <2>2 DEF Meant
<1> HIDE DEF plan
<1>6. op'[h] = [op[h] EXCEPT !.pc = "close", !.meant = Meant, !.plan = plan]
      /\ \A g \in Handler \ {h} : op'[g] = op[g]
  BY <1>1 DEF TypeInv, TypeOK
<1>7. op'[h] \in Request
  BY <1>2, <1>4, <1>5, <1>6 DEF Request
<1>8. RequestShape(op'[h])
  <2>1. /\ op'[h].pc = "close" /\ op'[h].kind = "rename" /\ op'[h].note = op[h].note
        /\ op'[h].from = p /\ op'[h].to = q
    BY <1>2, <1>6 DEF Request
  <2>2. op[h].note \in Note
    BY <1>1 DEF TypeInv, RequestShape
  <2> QED BY <1>2, <2>1, <2>2 DEF RequestShape
<1> QED BY <1>1, <1>6, <1>7, <1>8 DEF TypeInv, TypeOK

LEMMA StepShape ==
  ASSUME TypeInv, NEW h \in Handler, Step(h)
  PROVE  op' \in [Handler -> Request] /\ \A g \in Handler : RequestShape(op'[g])
<1> USE DEF At
<1>0. op[h] \in Request /\ RequestShape(op[h])
  BY DEF TypeInv, TypeOK
<1>1. CASE End(h)
  BY <1>1, EndShape
<1>2. CASE Plan(h)
  BY <1>2, PlanTypes
<1>3. ASSUME NEW pc \in {"plan", "move", "meta", "marker", "sidecar", "write", "done", "forget"},
             Go(h, pc), op[h].pc # "rest",
             op[h].kind = "delete" => pc \in {"move", "meta", "marker", "sidecar", "done"},
             op[h].kind = "restore" => pc \in {"marker", "sidecar", "forget", "done"},
             op[h].kind = "rename" => pc \in {"plan", "move", "marker", "sidecar", "write", "done"}
      PROVE  op' \in [Handler -> Request] /\ \A g \in Handler : RequestShape(op'[g])
  <2>1. [op[h] EXCEPT !.pc = pc] \in Request
    BY <1>0, <1>3 DEF Request
  <2>2. RequestShape([op[h] EXCEPT !.pc = pc])
    BY <1>0, <1>3 DEF RequestShape, Request
  <2> QED BY <1>3, <2>1, <2>2, GoShape
<1>4. CASE FlushOpen(h)
  BY <1>0, <1>3, <1>4 DEF FlushOpen, RequestShape, Request
<1>5. CASE Close(h)
  BY <1>0, <1>3, <1>5 DEF Close, RequestShape, Request
<1>6. CASE Move(h)
  BY <1>0, <1>3, <1>6 DEF Move, RequestShape, Request
<1>7. CASE WriteMetadata(h)
  BY <1>0, <1>3, <1>7 DEF WriteMetadata, RequestShape, Request
<1>8. CASE MoveMarker(h)
  BY <1>0, <1>3, <1>8 DEF MoveMarker, RequestShape, Request
<1>9. CASE MoveSidecar(h)
  <2>1. op[h].kind \in {"delete", "restore", "rename"} /\ op[h].pc = "sidecar"
    BY <1>0, <1>9 DEF MoveSidecar, RequestShape, Request
  <2>2. Go(h, After(op[h].kind))
    BY <1>9 DEF MoveSidecar
  <2>3. /\ op[h].kind = "delete" => After(op[h].kind) = "done"
        /\ op[h].kind = "restore" => After(op[h].kind) = "forget"
        /\ op[h].kind = "rename" => After(op[h].kind) = "write"
    BY DEF After
  <2> QED BY <1>3, <2>1, <2>2, <2>3
<1>10. CASE RemoveMetadata(h)
  BY <1>0, <1>3, <1>10 DEF RemoveMetadata, RequestShape, Request
<1>11. CASE WriteDone(h)
  BY <1>0, <1>3, <1>11 DEF WriteDone, RequestShape, Request
<1>12. CASE Write(h)
  <2>1. PICK c \in op[h].plan : op' = [op EXCEPT ![h].plan = @ \ {c}]
    BY <1>12 DEF Write
  <2>2. op'[h] = [op[h] EXCEPT !.plan = @ \ {c}] /\ \A g \in Handler \ {h} : op'[g] = op[g]
    BY <2>1 DEF TypeInv, TypeOK
  <2>3. op'[h] \in Request
    BY <1>0, <2>2 DEF Request
  <2>4. RequestShape(op'[h])
    BY <1>0, <1>12, <2>2 DEF RequestShape, Request, Write
  <2> QED BY <2>1, <2>2, <2>3, <2>4 DEF TypeInv, TypeOK
<1> QED
  BY <1>1, <1>2, <1>4, <1>5, <1>6, <1>7, <1>8, <1>9, <1>10, <1>11, <1>12
    DEF Step, WriteMetadataFails, Finish, Fail

LEMMA StepTypes ==
  ASSUME TypeInv, NEW h \in Handler, Step(h), UNCHANGED events
  PROVE  TypeInv'
<1>0. op' \in [Handler -> Request] /\ (\A g \in Handler : RequestShape(op'[g]))
      /\ op[h] \in Request /\ RequestShape(op[h])
  BY StepShape DEF TypeInv, TypeOK
<1> USE <1>0 DEF TypeInv
<1>1. CASE /\ UNCHANGED <<disk, trash, room, owner, typed, outdated>>
           /\ cut' \subseteq Note /\ left' \subseteq Note
  BY <1>1 DEF TypeOK, disk, trash
<1>2. CASE Plan(h) \/ WriteDone(h) \/ Finish(h)
  BY <1>1, <1>2 DEF Plan, WriteDone, Finish, past, TypeOK
<1>3. CASE Fail(h)
  <2>1. Torn(h) \subseteq Note /\ Strewn(h) \subseteq Note
    BY <1>3 DEF Fail, Torn, Strewn, RequestShape
  <2> QED BY <1>1, <1>3, <2>1 DEF Fail, TypeOK
<1>4. CASE FlushOpen(h)
  <2>1. WriteBack(Path) /\ room' \in [Path -> Room \cup {None}]
    BY <1>4, CleanRooms DEF FlushOpen
  <2> QED BY <1>4, <2>1, WriteBackTypes DEF FlushOpen, TypeOK, trash, past
<1>5. CASE Close(h)
  <2>1. op[h].from \in Path
    BY <1>5 DEF Close, At, RequestShape, Request
  <2>2. room' \in [Path -> Room \cup {None}] /\ {op[h].from} \in SUBSET Path
    BY <1>5, <2>1 DEF Close, TypeOK
  <2> QED BY <1>5, <2>2, WriteBackTypes DEF Close, TypeOK, trash, past
<1> DEFINE x == op[h].from
           y == op[h].to
<1>6. op[h].pc # "rest" => x \in Place /\ y \in Place /\ (op[h].kind = "delete" => x \in Path /\ y \in Id)
                           /\ (op[h].kind = "restore" => x \in Id)
  BY DEF RequestShape, Request, Place
<1>7. CASE Move(h)
  <2>1. file' = Moved(file, x, y) /\ owner' = Moved(owner, x, y)
        /\ UNCHANGED <<sidecar, marker, trash, room, typed, past>> /\ op[h].pc = "move"
    BY <1>7 DEF Move, At
  <2>2. file' \in [Place -> Text \cup {None}] /\ owner' \in [Place -> Note \cup {None}]
    BY <1>6, <2>1, MovedTypes DEF TypeOK
  <2>3. \A z \in Place : file'[z] = None <=> owner'[z] = None
    BY <1>6, <2>1 DEF Moved, TypeOK
  <2> QED BY <2>1, <2>2, <2>3 DEF TypeOK, trash, past
<1>8. CASE WriteMetadata(h)
  <2>1. x \in Path /\ y \in Id
    BY <1>6, <1>8 DEF WriteMetadata, At, RequestShape, Request
  <2> QED BY <1>8, <2>1, NoneAssumption DEF WriteMetadata, TypeOK, disk, past, Place
<1>9. CASE WriteMetadataFails(h)
  <2>1. file' = Moved(file, y, x) /\ owner' = Moved(owner, y, x)
        /\ UNCHANGED <<sidecar, marker, trash, room, typed, past>> /\ op[h].pc = "meta"
    BY <1>9 DEF WriteMetadataFails, At
  <2>2. file' \in [Place -> Text \cup {None}] /\ owner' \in [Place -> Note \cup {None}]
    BY <1>6, <2>1, MovedTypes DEF TypeOK
  <2>3. \A z \in Place : file'[z] = None <=> owner'[z] = None
    BY <1>6, <2>1 DEF Moved, TypeOK
  <2> QED BY <2>1, <2>2, <2>3 DEF TypeOK, trash, past
<1>10. CASE MoveMarker(h)
  <2>1. marker' \in [Place -> Text \cup {None}]
    BY <1>6, <1>10, MovedTypes DEF MoveMarker, At, TypeOK
  <2> QED BY <1>10, <2>1 DEF MoveMarker, TypeOK, trash, past
<1>11. CASE MoveSidecar(h)
  <2>1. sidecar' \in [Place -> Text \cup {None}]
    BY <1>6, <1>11, MovedTypes DEF MoveSidecar, At, TypeOK
  <2> QED BY <1>11, <2>1 DEF MoveSidecar, TypeOK, trash, past
<1>12. CASE RemoveMetadata(h)
  <2>1. x \in Id
    BY <1>6, <1>12 DEF RemoveMetadata, At, RequestShape, Request
  <2> QED BY <1>12, <2>1, MaxEventsAssumption DEF RemoveMetadata, Forgotten, TypeOK, disk, past
<1>13. CASE Write(h)
  <2>1. PICK c \in op[h].plan :
          /\ file' = [file EXCEPT ![c.at] = c.text]
          /\ owner' = IF owner[c.at] = None THEN [owner EXCEPT ![c.at] = op[h].note] ELSE owner
          /\ outdated' = outdated \cup (IF file[c.at] = None \/ room[c.at] # None THEN {}
                                        ELSE Shown(c.at).edits \ c.text.edits)
    BY <1>13 DEF Write
  <2>2. c.at \in Path /\ c.text \in Text /\ op[h].note \in Note /\ c.at \in Place
    BY <1>13 DEF Request, Planned, Write, At, RequestShape, Place
  <2>3. outdated' \subseteq Edit
    <3>1. file[c.at] # None => Shown(c.at).edits \subseteq Edit
      BY <2>2, ShownText DEF Text
    <3> QED BY <2>1, <3>1 DEF TypeOK
  <2>4. /\ file' \in [Place -> Text \cup {None}] /\ owner' \in [Place -> Note \cup {None}]
        /\ \A z \in Place : file'[z] = None <=> owner'[z] = None
    BY <2>1, <2>2, NoneAssumption DEF TypeOK
  <2> QED BY <1>13, <2>3, <2>4 DEF Write, TypeOK, trash
<1> QED
  BY <1>2, <1>3, <1>4, <1>5, <1>7, <1>8, <1>9, <1>10, <1>11, <1>12, <1>13 DEF Step

LEMMA RoomTypes ==
  ASSUME TypeInv, NEW p \in Path, UNCHANGED events,
         \/ Open(p) \/ Flush(p) \/ Leave(p) \/ Inspect(p)
         \/ \E e \in Edit : Type(p, e)
         \/ \E q \in Target : Link(p, q)
  PROVE  TypeInv'
<1> USE DEF TypeInv
<1>0. p \in Place /\ {p} \in SUBSET Path
  BY DEF Place
<1>1. CASE Open(p)
  <2>1. Shown(p) \in Text /\ owner[p] \in Note
    BY <1>0, <1>1, ShownText DEF Open, Live, TypeOK
  <2>2. room' \in [Path -> Room \cup {None}]
    BY <1>1, <2>1 DEF Open, TypeOK, Room
  <2>3. /\ file' \in [Place -> Text \cup {None}] /\ sidecar' \in [Place -> Text \cup {None}]
        /\ marker' \in [Place -> Text \cup {None}]
        /\ \A x \in Place : file'[x] = None <=> owner'[x] = None
    BY <1>0, <1>1, <2>1, NoneAssumption DEF Open, TypeOK
  <2> QED BY <1>1, <2>2, <2>3 DEF Open, TypeOK, trash, past
<1>2. CASE Flush(p)
  BY <1>0, <1>2, CleanRooms, WriteBackTypes DEF Flush, TypeOK, trash, past
<1>3. CASE Leave(p)
  <2>1. room' \in [Path -> Room \cup {None}]
    BY <1>3 DEF Leave, TypeOK
  <2> QED BY <1>0, <1>3, <2>1, WriteBackTypes DEF Leave, TypeOK, trash, past
<1>4. CASE Inspect(p)
  <2>1. room[p] \in Room /\ file[p] \in Text
    BY <1>0, <1>4 DEF Inspect, TypeOK, Live
  <2>2. room' \in [Path -> Room \cup {None}]
    BY <1>4, <2>1 DEF Inspect, TypeOK, Room
  <2>3. outdated' \subseteq Edit
    BY <1>4, <2>1 DEF Inspect, TypeOK, Room, Text
  <2> QED BY <1>0, <1>4, <2>1, <2>2, <2>3 DEF Inspect, TypeOK, trash
<1>5. ASSUME NEW doc \in Text, Accept(p, doc), typed' \in [Edit -> Note \cup {None}],
             outdated' \subseteq Edit
      PROVE  TypeInv'
  <2>1. room[p] \in Room
    BY <1>5 DEF Accept, TypeOK
  <2>2. room' \in [Path -> Room \cup {None}]
    BY <1>5, <2>1 DEF Accept, TypeOK, Room
  <2> QED BY <1>0, <1>5, <2>2 DEF Accept, TypeOK, trash
<1>6. ASSUME NEW e \in Edit, Type(p, e) PROVE TypeInv'
  <2>1. room[p] \in Room
    BY <1>6 DEF Type, TypeOK
  <2>2. [room[p].doc EXCEPT !.edits = @ \cup {e}] \in Text /\ room[p].note \in Note
    BY <2>1 DEF Room, Text
  <2>3. typed' \in [Edit -> Note \cup {None}] /\ outdated' \subseteq Edit
    BY <1>6, <2>2 DEF Type, TypeOK
  <2> QED BY <1>5, <1>6, <2>2, <2>3 DEF Type
<1>7. ASSUME NEW q \in Target, Link(p, q) PROVE TypeInv'
  <2>1. room[p] \in Room
    BY <1>7 DEF Link, TypeOK
  <2>2. [room[p].doc EXCEPT !.link = q] \in Text
    BY <2>1, TargetAssumption DEF Room, Text
  <2> QED BY <1>5, <1>7, <2>2 DEF Link, TypeOK
<1> QED BY <1>1, <1>2, <1>3, <1>4, <1>6, <1>7

LEMMA BeginTypes ==
  ASSUME TypeInv, NEW h \in Handler, NEW kind, NEW pc, NEW x \in Place, NEW y \in Place,
         Begin(h, kind, pc, x, y), owner[x] \in Note,
         \/ kind = "delete" /\ pc = "close" /\ x \in Path /\ y \in Id
         \/ kind = "restore" /\ pc = "move" /\ x \in Id /\ y \in Path
         \/ kind = "rename" /\ pc = "flush" /\ x \in Path /\ y \in Path
  PROVE  op' \in [Handler -> Request] /\ \A g \in Handler : RequestShape(op'[g])
<1> DEFINE r == [Rest EXCEPT !.kind = kind, !.pc = pc, !.from = x, !.to = y, !.note = owner[x]]
<1>1. op' = [op EXCEPT ![h] = r]
  BY DEF Begin
<1>2. r.kind = kind /\ r.pc = pc /\ r.from = x /\ r.to = y /\ r.note = owner[x]
  BY DEF Rest
<1>3. r \in Request
  BY Texts DEF Request
<1> HIDE DEF r
<1>4. RequestShape(r)
  BY <1>2 DEF RequestShape
<1> QED BY <1>1, <1>3, <1>4 DEF TypeInv, TypeOK

LEMMA TypeNext == TypeInv /\ [Next]_vars => TypeInv'
<1> SUFFICES ASSUME TypeInv, [Next]_vars PROVE TypeInv'
  OBVIOUS
<1> USE DEF TypeInv
<1>1. ASSUME NEW p \in Path, UNCHANGED events,
             \/ Open(p) \/ Flush(p) \/ Leave(p) \/ Inspect(p)
             \/ \E e \in Edit : Type(p, e)
             \/ \E q \in Target : Link(p, q)
      PROVE  TypeInv'
  BY <1>1, RoomTypes
<1>2. ASSUME NEW h \in Handler, Step(h), UNCHANGED events PROVE TypeInv'
  BY <1>2, StepTypes
<1>3. ASSUME NEW i \in Id, Expire(i), UNCHANGED events PROVE TypeInv'
  BY <1>3 DEF Expire, TypeOK, disk, past
<1>4. ASSUME NEW i \in Id, NEW steps \in 1..4, Purge(i, steps), UNCHANGED events PROVE TypeInv'
  <2>1. i \in Place
    BY DEF Place
  <2>2. /\ file' \in [Place -> Text \cup {None}] /\ owner' \in [Place -> Note \cup {None}]
        /\ sidecar' \in [Place -> Text \cup {None}] /\ marker' \in [Place -> Text \cup {None}]
        /\ \A x \in Place : file'[x] = None <=> owner'[x] = None
        /\ cut' \subseteq Note
    BY <1>4, <2>1 DEF Purge, TypeOK
  <2>3. /\ entry' \in [Id -> Path \cup {None}] /\ deleted' \in [Id -> 0..MaxEvents]
        /\ expired' \subseteq {j \in Id : entry'[j] # None}
    BY <1>4, MaxEventsAssumption DEF Purge, Forgotten, TypeOK, trash
  <2> QED BY <1>4, <2>2, <2>3 DEF Purge, TypeOK
<1>5. ASSUME NEW p \in Path, NEW n \in Note, Create(p, n), Event PROVE TypeInv'
  <2>1. p \in Place
    BY DEF Place
  <2>2. /\ file' \in [Place -> Text \cup {None}] /\ owner' \in [Place -> Note \cup {None}]
        /\ \A x \in Place : file'[x] = None <=> owner'[x] = None
    BY <1>5, <2>1, Texts, NoneAssumption DEF Create, TypeOK
  <2> QED BY <1>5, <2>2, MaxEventsAssumption DEF Create, Event, TypeOK, trash, past
<1>6. ASSUME NEW h \in Handler, Event, UNCHANGED <<disk, trash, room, owner, typed, past>>,
             op' \in [Handler -> Request], \A g \in Handler : RequestShape(op'[g])
      PROVE  TypeInv'
  BY <1>6, MaxEventsAssumption DEF Event, TypeOK, disk, trash, past
<1>7. ASSUME NEW h \in Handler, NEW p \in Path, NEW i \in Id, Delete(h, p, i), Event
      PROVE  TypeInv'
  <2>1. p \in Place /\ i \in Place /\ owner[p] \in Note
    BY <1>7 DEF Delete, Live, Place, TypeOK
  <2> QED BY <1>6, <1>7, <2>1, BeginTypes DEF Delete
<1>8. ASSUME NEW h \in Handler, NEW i \in Id, Restore(h, i), Event PROVE TypeInv'
  <2>1. entry[i] \in Path /\ entry[i] \in Place /\ i \in Place /\ owner[i] \in Note
    BY <1>8 DEF Restore, Place, TypeOK
  <2> QED BY <1>6, <1>8, <2>1, BeginTypes DEF Restore
<1>9. ASSUME NEW h \in Handler, NEW p \in Path, NEW q \in Path, Rename(h, p, q), Event
      PROVE  TypeInv'
  <2>1. p \in Place /\ q \in Place /\ owner[p] \in Note
    BY <1>9 DEF Rename, Live, Place, TypeOK
  <2> QED BY <1>6, <1>9, <2>1, BeginTypes DEF Rename
<1>10. CASE Crash /\ Event
  <2>1. cut' \subseteq Note /\ left' \subseteq Note
    <3>1. \A h \in Handler : Torn(h) \subseteq Note /\ Strewn(h) \subseteq Note
      BY DEF Torn, Strewn, RequestShape
    <3> QED BY <1>10, <3>1 DEF Crash, TypeOK
  <2>2. op' \in [Handler -> Request] /\ \A g \in Handler : RequestShape(op'[g])
    BY <1>10, Texts DEF Crash
  <2> QED BY <1>10, <2>1, <2>2, MaxEventsAssumption DEF Crash, Event, TypeOK, disk, trash
<1>11. CASE UNCHANGED vars
  BY <1>11 DEF vars, TypeOK, disk, trash, past
<1> QED
  BY <1>1, <1>2, <1>3, <1>4, <1>5, <1>7, <1>8, <1>9, <1>10, <1>11 DEF Next

(* Every state has its types, and a place has a file if and only if a note is there. *)
THEOREM LifecycleTyped == Spec => []TypeOK
BY TypeInit, TypeNext, PTL DEF Spec, TypeInv

-----------------------------------------------------------------------------
(* From here on one request is in flight at a time, and the rooms are not used
   meanwhile: the code does not see to either, and without them notes do get twins. *)
OneAtATime == (\A g, h \in Handler : g = h) /\ "window" \notin Trouble

(* A room is that of the note whose file is at its path. *)
Homes == \A p \in Path : room[p] # None => owner[p] = room[p].note

(* Until the move nothing is at the destination, and after the room is closed there is
   none at the source; what a rename plans to write is where a note is. *)
Ways(r) ==
  /\ r.pc \in {"flush", "plan", "close", "move"} => owner[r.to] = None
  /\ r.pc \in {"move", "meta"} /\ r.from \in Path => room[r.from] = None
  /\ r.kind = "rename" /\ r.pc \in {"close", "move"} =>
       \A c \in r.plan : c.at = r.to \/ (c.at # r.from /\ owner[c.at] # None)
  /\ r.pc = "write" => \A c \in r.plan : owner[c.at] # None
  /\ r.kind = "rename" /\ r.pc \in {"marker", "sidecar"} => \A c \in r.plan : owner[c.at] # None

TwinInv == NoTwins /\ Homes /\ \A h \in Handler : Ways(op[h])

LEMMA WriteBackOwner ==
  ASSUME TypeOK, Homes, NEW paths \in SUBSET Path, WriteBack(paths)
  PROVE  owner' = owner
<1>1. \A x \in Due(paths) : x \in Path /\ room[x].note = owner[x]
  BY DEF Due, Homes
<1> QED BY <1>1 DEF WriteBack, TypeOK

LEMMA MovedOnce ==
  ASSUME TypeOK, NoTwins, NEW x \in Place, NEW y \in Place, owner' = Moved(owner, x, y)
  PROVE  NoTwins'
  BY DEF NoTwins, Moved, TypeOK

(* Between requests only creation, purges and restarts touch what is where. *)
LEMMA TwinRoom ==
  ASSUME OneAtATime, TypeInv, TwinInv, NEW p \in Path,
         \/ Open(p) \/ Flush(p) \/ Leave(p) \/ Inspect(p)
         \/ \E e \in Edit : Type(p, e)
         \/ \E q \in Target : Link(p, q)
  PROVE  TwinInv'
<1> USE DEF TwinInv
<1>1. UNCHANGED op /\ \A h \in Handler : op[h] = Rest
  BY DEF OneAtATime, Quiet, Open, Flush, Leave, Inspect, Type, Link, Accept
<1>2. \A h \in Handler : Ways(op[h])'
  BY <1>1 DEF Ways, Rest
<1>3. owner' = owner
  <2>1. {p} \in SUBSET Path
    OBVIOUS
  <2> QED BY <2>1, WriteBackOwner DEF Open, Flush, Leave, Inspect, Type, Link, Accept, TypeInv
<1>4. NoTwins'
  BY <1>3 DEF NoTwins
<1>5. Homes'
  <2>1. \A q \in Path : room'[q] # None => room'[q].note = owner[q]
    <3> SUFFICES ASSUME NEW q \in Path, room'[q] # None PROVE room'[q].note = owner[q]
      OBVIOUS
    <3>1. room[q] # None => room[q] \in Room /\ room[q].note = owner[q]
      BY DEF TypeInv, TypeOK, Homes
    <3>2. CASE Open(p)
      BY <3>1, <3>2 DEF Open, TypeInv, TypeOK
    <3>3. CASE Flush(p)
      BY <3>1, <3>3 DEF Flush, Clean, Due, Room
    <3>4. CASE Leave(p)
      BY <3>1, <3>4 DEF Leave, TypeInv, TypeOK
    <3>5. CASE Inspect(p)
      BY <3>1, <3>5 DEF Inspect, TypeInv, TypeOK, Room
    <3>6. ASSUME NEW doc, Accept(p, doc) PROVE room'[q].note = owner[q]
      BY <3>1, <3>6 DEF Accept, TypeInv, TypeOK, Room
    <3> QED BY <3>2, <3>3, <3>4, <3>5, <3>6 DEF Type, Link
  <2> QED BY <1>3, <2>1 DEF Homes
<1> QED BY <1>1, <1>2, <1>4, <1>5

(* What a rename plans. *)
LEMMA PlannedTexts ==
  ASSUME TypeInv, NEW h \in Handler, Plan(h)
  PROVE  /\ op'[h].meant = Meant
         /\ op'[h].plan = PlanOf(op[h].from, op[h].to)
         /\ \A c \in op'[h].plan : c.at = op[h].to \/ c.at \in Live \ {op[h].from}
<1> DEFINE plan == PlanOf(op[h].from, op[h].to)
<1>1. op' = [op EXCEPT ![h].pc = "close", ![h].meant = Meant, ![h].plan = plan]
  BY DEF Plan
<1>2. \A c \in plan : c.at = op[h].to \/ c.at \in Live \ {op[h].from}
  BY DEF PlanOf
<1> HIDE DEF plan
<1>3. op'[h].meant = Meant /\ op'[h].plan = plan
  BY <1>1 DEF TypeInv, TypeOK, Request
<1> QED BY <1>2, <1>3 DEF plan

(* A step of a request leaves the ways of the others, of which there are none. *)
LEMMA TwinStep ==
  ASSUME OneAtATime, TypeInv, TypeInv', TwinInv, NEW h \in Handler, Step(h)
  PROVE  TwinInv'
<1> USE DEF TwinInv, At
<1>0. /\ op[h] \in Request /\ RequestShape(op[h]) /\ Ways(op[h]) /\ \A g \in Handler : g = h
  BY DEF TypeInv, TypeOK, OneAtATime
<1> DEFINE x == op[h].from
           y == op[h].to
<1>1. op[h].pc # "rest" => x \in Place /\ y \in Place
  BY <1>0 DEF RequestShape, Request, Place
<1>2. ASSUME UNCHANGED <<owner, room>>, Ways(op[h])' PROVE TwinInv'
  BY <1>0, <1>2 DEF NoTwins, Homes
<1>3. ASSUME End(h) PROVE Ways(op[h])'
  BY <1>3 DEF End, Ways, Rest, TypeInv, TypeOK
<1>4. CASE Fail(h) \/ Finish(h)
  BY <1>2, <1>3, <1>4 DEF Fail, Finish
<1>5. ASSUME NEW pc, Go(h, pc)
      PROVE  /\ op'[h].pc = pc /\ op'[h].from = x /\ op'[h].to = y /\ op'[h].kind = op[h].kind
             /\ op'[h].plan = op[h].plan
  BY <1>0, <1>5 DEF Go, TypeInv, TypeOK, Request
<1>6. CASE FlushOpen(h)
  <2>1. owner' = owner
    BY <1>6, WriteBackOwner DEF FlushOpen, TypeInv
  <2>2. Homes'
    <3> SUFFICES ASSUME NEW p \in Path, room'[p] # None PROVE owner'[p] = room'[p].note
      BY DEF Homes
    <3>1. room'[p] = IF p \in Due(Path)
                     THEN [room[p] EXCEPT !.hash = room[p].doc, !.due = FALSE] ELSE room[p]
      BY <1>6 DEF FlushOpen, Clean
    <3>2. room[p] # None
      BY <3>1 DEF Due
    <3>3. room[p] \in Room /\ owner[p] = room[p].note
      BY <3>2 DEF Homes, TypeInv, TypeOK
    <3> QED BY <2>1, <3>1, <3>3 DEF Room
  <2>3. Ways(op[h])'
    BY <1>0, <1>5, <1>6, <2>1 DEF FlushOpen, Ways, RequestShape
  <2> QED BY <1>0, <2>1, <2>2, <2>3 DEF NoTwins
<1>7. CASE Plan(h)
  <2>1. UNCHANGED <<owner, room, file>> /\ x \in Live /\ op[h].pc = "plan"
    BY <1>7 DEF Plan, disk
  <2>2. op'[h].pc = "close" /\ op'[h].from = x /\ op'[h].to = y /\ op'[h].kind = op[h].kind
    BY <1>0, <1>7 DEF Plan, TypeInv, TypeOK, Request
  <2>3. \A c \in op'[h].plan : c.at = y \/ c.at \in Live \ {x}
    BY <1>7, PlannedTexts
  <2>4. \A l \in Live : owner[l] # None
    BY DEF Live, Place, TypeInv, TypeOK
  <2>5. Ways(op[h])'
    BY <1>0, <2>1, <2>2, <2>3, <2>4 DEF Ways
  <2> QED BY <1>2, <2>1, <2>5
<1>8. CASE Close(h)
  <2>1. x \in Path /\ op[h].pc = "close" /\ Go(h, "move")
    BY <1>0, <1>8 DEF Close, RequestShape, Request
  <2>2. owner' = owner /\ room' = [room EXCEPT ![x] = None]
    BY <1>8, <2>1, WriteBackOwner DEF Close, TypeInv
  <2>3. Homes'
    BY <2>2 DEF Homes, TypeInv, TypeOK
  <2>4. Ways(op[h])'
    BY <1>0, <1>5, <2>1, <2>2 DEF Ways, TypeInv, TypeOK
  <2> QED BY <1>0, <2>2, <2>3, <2>4 DEF NoTwins
<1>9. CASE Move(h)
  <2>1. /\ owner' = Moved(owner, x, y) /\ UNCHANGED room /\ op[h].pc = "move" /\ file[x] # None
        /\ Go(h, IF op[h].kind = "delete" THEN "meta" ELSE "marker")
    BY <1>9 DEF Move
  <2>2. owner[x] # None /\ owner[y] = None
    BY <1>0, <1>1, <2>1 DEF Ways, TypeInv, TypeOK
  <2>3. NoTwins'
    BY <1>1, <2>1, MovedOnce DEF TypeInv
  <2>4. Homes'
    <3>1. \A p \in Path : room[p] # None => p # x /\ p # y
      BY <1>0, <2>1, <2>2, NoneAssumption DEF Ways, Homes, TypeInv, TypeOK, Room
    <3> QED BY <1>1, <2>1, <3>1 DEF Homes, Moved, TypeInv, TypeOK, Place
  <2>5. Ways(op[h])'
    <3>1. \A c \in op[h].plan : c.at \in Place
      BY <1>0 DEF Request, Planned, Place
    <3>2. op[h].kind = "rename" => \A c \in op[h].plan : owner'[c.at] # None
      BY <1>0, <1>1, <2>1, <2>2, <3>1 DEF Ways, Moved, TypeInv, TypeOK
    <3>3. op'[h].pc \in {"meta", "marker"}
      BY <1>5, <2>1
    <3> QED BY <1>0, <1>5, <2>1, <3>2, <3>3 DEF Ways
  <2> QED BY <1>0, <2>3, <2>4, <2>5
<1>10. CASE WriteMetadata(h)
  BY <1>0, <1>2, <1>5, <1>10 DEF WriteMetadata, Ways, RequestShape, disk
<1>11. CASE WriteMetadataFails(h)
  <2>1. /\ owner' = Moved(owner, y, x) /\ UNCHANGED room /\ End(h)
        /\ op[h].pc = "meta" /\ x \in Path /\ y \in Id
    BY <1>0, <1>11 DEF WriteMetadataFails, RequestShape, Request
  <2>2. NoTwins'
    BY <1>1, <2>1, MovedOnce DEF TypeInv
  <2>3. Homes'
    <3>1. \A p \in Path : room[p] # None => p # x /\ p # y
      BY <1>0, <2>1, PlaceAssumption DEF Ways
    <3> QED BY <1>1, <2>1, <3>1 DEF Homes, Moved, TypeInv, TypeOK, Place
  <2> QED BY <1>0, <1>3, <2>1, <2>2, <2>3
<1>12. CASE MoveMarker(h)
  BY <1>0, <1>2, <1>5, <1>12 DEF MoveMarker, Ways
<1>13. CASE MoveSidecar(h)
  <2>1. op[h].kind \in {"delete", "restore", "rename"} /\ op[h].pc = "sidecar"
    BY <1>0, <1>13 DEF MoveSidecar, RequestShape, Request
  <2>2. /\ op[h].kind = "delete" => op'[h].pc = "done"
        /\ op[h].kind = "restore" => op'[h].pc = "forget"
        /\ op[h].kind = "rename" => op'[h].pc = "write"
    BY <1>5, <1>13 DEF MoveSidecar, After
  <2>3. UNCHANGED <<owner, room>> /\ op'[h].plan = op[h].plan
    BY <1>5, <1>13 DEF MoveSidecar
  <2> QED BY <1>0, <1>2, <2>1, <2>2, <2>3 DEF Ways
<1>14. CASE RemoveMetadata(h) \/ WriteDone(h)
  BY <1>0, <1>2, <1>5, <1>14 DEF RemoveMetadata, WriteDone, Ways
<1>15. CASE Write(h)
  <2>1. PICK c \in op[h].plan :
          /\ owner' = IF owner[c.at] = None THEN [owner EXCEPT ![c.at] = op[h].note] ELSE owner
          /\ op' = [op EXCEPT ![h].plan = @ \ {c}]
    BY <1>15 DEF Write
  <2>2. owner' = owner /\ UNCHANGED room
    BY <1>0, <1>15, <2>1 DEF Write, Ways
  <2>3. /\ op'[h].pc = "write" /\ op'[h].plan = op[h].plan \ {c}
    BY <1>0, <1>15, <2>1 DEF Write, TypeInv, TypeOK, Request
  <2> QED BY <1>0, <1>2, <1>15, <2>2, <2>3 DEF Ways, Write
<1> QED
  BY <1>4, <1>6, <1>7, <1>8, <1>9, <1>10, <1>11, <1>12, <1>13, <1>14, <1>15 DEF Step

LEMMA TwinNext == OneAtATime /\ TypeInv /\ TwinInv /\ [Next]_vars => TwinInv'
<1> SUFFICES ASSUME OneAtATime, TypeInv, TwinInv, [Next]_vars PROVE TwinInv'
  OBVIOUS
<1> USE DEF TwinInv
<1>0. TypeInv'
  BY TypeNext
<1>1. ASSUME NEW p \in Path,
             \/ Open(p) \/ Flush(p) \/ Leave(p) \/ Inspect(p)
             \/ \E e \in Edit : Type(p, e)
             \/ \E q \in Target : Link(p, q)
      PROVE  TwinInv'
  BY <1>1, TwinRoom
<1>2. ASSUME NEW h \in Handler, Step(h) PROVE TwinInv'
  BY <1>0, <1>2, TwinStep
<1>3. ASSUME UNCHANGED <<op, room>>, \A h \in Handler : op[h] = Rest, NoTwins',
             \A p \in Path : owner[p] # None => owner'[p] = owner[p]
      PROVE  TwinInv'
  <2>1. \A h \in Handler : Ways(op[h])'
    BY <1>3 DEF Ways, Rest
  <2>2. \A p \in Path : room[p] # None => room[p].note \in Note
    BY DEF TypeInv, TypeOK, Room
  <2> QED BY <1>3, <2>1, <2>2, NoneAssumption DEF Homes
<1>4. ASSUME NEW i \in Id, Expire(i) PROVE TwinInv'
  BY <1>4 DEF Expire, NoTwins, Homes, Ways
<1>5. ASSUME NEW i \in Id, NEW steps \in 1..4, Purge(i, steps) PROVE TwinInv'
  <2>1. UNCHANGED <<op, room>> /\ owner' = [owner EXCEPT ![i] = None] /\ \A h \in Handler : op[h] = Rest
    BY <1>5 DEF Purge, Quiet, OneAtATime
  <2>2. NoTwins'
    BY <2>1 DEF NoTwins, TypeInv, TypeOK
  <2> QED BY <1>3, <2>1, <2>2, PlaceAssumption DEF TypeInv, TypeOK
<1>6. ASSUME NEW p \in Path, NEW n \in Note, Create(p, n) PROVE TwinInv'
  <2>1. /\ UNCHANGED <<op, room>> /\ owner' = [owner EXCEPT ![p] = n] /\ owner[p] = None
        /\ \A h \in Handler : op[h] = Rest
    BY <1>6 DEF Create, Quiet, OneAtATime, Live, TypeInv, TypeOK, Place
  <2>2. NoTwins'
    BY <1>6, <2>1 DEF Create, NoTwins, TypeInv, TypeOK
  <2> QED BY <1>3, <2>1, <2>2 DEF TypeInv, TypeOK
<1>7. ASSUME NEW h \in Handler, UNCHANGED <<owner, room>>, Ways(op[h])' PROVE TwinInv'
  BY <1>7 DEF OneAtATime, NoTwins, Homes
<1>8. ASSUME NEW h \in Handler, NEW kind, NEW pc, NEW x, NEW y, Begin(h, kind, pc, x, y),
             UNCHANGED <<owner, room>>, owner[y] = None, pc \in {"close", "move", "flush"},
             pc = "move" => x \notin Path
      PROVE  TwinInv'
  <2>1. /\ op'[h].pc = pc /\ op'[h].from = x /\ op'[h].to = y /\ op'[h].plan = {}
    BY <1>8 DEF Begin, Rest, TypeInv, TypeOK
  <2> QED BY <1>7, <1>8, <2>1 DEF Ways
<1>9. ASSUME NEW h \in Handler, NEW p \in Path, NEW i \in Id, Delete(h, p, i) PROVE TwinInv'
  BY <1>8, <1>9 DEF Delete, TypeInv, TypeOK, Place
<1>10. ASSUME NEW h \in Handler, NEW i \in Id, Restore(h, i) PROVE TwinInv'
  <2>1. owner[entry[i]] = None /\ i \notin Path
    BY <1>10, PlaceAssumption DEF Restore, Live, TypeInv, TypeOK, Place
  <2> QED BY <1>8, <1>10, <2>1 DEF Restore
<1>11. ASSUME NEW h \in Handler, NEW p \in Path, NEW q \in Path, Rename(h, p, q) PROVE TwinInv'
  BY <1>8, <1>11 DEF Rename, Live, TypeInv, TypeOK, Place
<1>12. CASE Crash
  <2>1. \A p \in Path : room'[p] = None
    BY <1>12 DEF Crash
  <2>2. \A h \in Handler : op'[h] = Rest
    BY <1>12 DEF Crash
  <2> QED BY <1>12, <2>1, <2>2 DEF Crash, NoTwins, Homes, Ways, Rest
<1>13. CASE UNCHANGED vars
  BY <1>13 DEF vars, NoTwins, Homes, Ways
<1> QED
  BY <1>1, <1>2, <1>4, <1>5, <1>6, <1>9, <1>10, <1>11, <1>12, <1>13 DEF Next

(* One request at a time, no note is ever at two places: neither a delete, a restore nor
   a rename leaves a copy behind or has one written behind its back, wherever it is cut
   short (trash.rs; SyncRegistry::close). *)
THEOREM TwinsNever == ASSUME OneAtATime PROVE Spec => []NoTwins
<1>1. Init => TwinInv
  BY DEF Init, TwinInv, NoTwins, Homes, Ways, Rest
<1>2. TypeInv /\ TwinInv /\ [Next]_vars => TwinInv'
  BY TwinNext
<1> QED BY <1>1, <1>2, TypeInit, TypeNext, PTL DEF Spec, TwinInv

-----------------------------------------------------------------------------
(* No open note owes its file anything. *)
Paid == \A p \in Path : room[p] # None => ~room[p].due

(* A link leads to a note. *)
Leads(link, n) == link \in Live /\ owner[link] = n

(* A rename that has not moved its note yet: the plan, and the links as they are. *)
Before(r) ==
  /\ Paid
  /\ r.plan = PlanOf(r.from, r.to)
  /\ \A n \in Note : r.meant[n] # None =>
       \E l \in Live : owner[l] = n /\ Leads(file[l].link, r.meant[n])

(* One that has: a link leads where it is meant to, or will when its text is written. *)
Ahead(l, n, plan) ==
  /\ \A c \in plan : c.at = l => Leads(c.text.link, n)
  /\ (\A c \in plan : c.at # l) => Leads(file[l].link, n)

Behind(r) ==
  /\ \A c, d \in r.plan : c.at = d.at => c = d
  /\ \A n \in Note : r.meant[n] # None =>
       \E l \in Live : owner[l] = n /\ Ahead(l, r.meant[n], r.plan)

LinkWays(r) == r.kind = "rename" =>
  /\ r.pc = "plan" => Paid
  /\ r.pc \in {"close", "move"} => Before(r)
  /\ r.pc \in {"marker", "sidecar", "write", "done"} => Behind(r)
  /\ r.pc = "done" => r.plan = {}

LinkInv == \A h \in Handler : LinkWays(op[h])

(* The flush leaves nothing to write. *)
LEMMA FlushedPaid == ASSUME TypeInv, NEW h \in Handler, FlushOpen(h) PROVE Paid'
<1> SUFFICES ASSUME NEW p \in Path, room'[p] # None PROVE ~room'[p].due
  BY DEF Paid
<1>1. room'[p] = IF p \in Due(Path)
                 THEN [room[p] EXCEPT !.hash = room[p].doc, !.due = FALSE] ELSE room[p]
  BY DEF FlushOpen, Clean
<1>2. room[p] \in Room
  BY <1>1 DEF Due, TypeInv, TypeOK
<1> QED BY <1>1, <1>2 DEF Due, Room

(* Where nothing is owed the links are those of the files, and a note is at one place. *)
LEMMA MeantLeads ==
  ASSUME TypeInv, NoTwins, Paid, NEW n \in Note, Meant[n] # None
  PROVE  \E l \in Live : owner[l] = n /\ Leads(file[l].link, Meant[n])
<1> DEFINE l == CHOOSE k \in Linked(n) : TRUE
<1>1. Linked(n) # {} /\ Meant[n] = owner[LinkOf(l)]
  BY DEF Meant
<1>2. l \in Linked(n)
  BY <1>1
<1> HIDE DEF l
<1>3. l \in Live /\ owner[l] = n /\ LinkOf(l) \in Live
  BY <1>2 DEF Linked
<1>4. LinkOf(l) = file[l].link
  BY <1>3 DEF LinkOf, Due, Paid, Live
<1> QED BY <1>1, <1>3, <1>4 DEF Leads

(* The move takes the note along; whoever links to it has a text in the plan. *)
LEMMA MoveAhead ==
  ASSUME OneAtATime, TypeInv, TwinInv, NEW h \in Handler, Move(h), op[h].kind = "rename",
         Before(op[h]), op'[h].plan = op[h].plan, op'[h].meant = op[h].meant
  PROVE  Behind(op[h])'
<1> DEFINE x == op[h].from
           y == op[h].to
           plan == op[h].plan
<1>1. /\ x \in Path /\ y \in Path /\ x \in Place /\ y \in Place
      /\ file' = Moved(file, x, y) /\ owner' = Moved(owner, x, y) /\ file[x] # None
      /\ op[h].pc = "move" /\ owner[y] = None /\ file[y] = None /\ x # y /\ x \in Live /\ y \notin Live
  BY DEF Move, At, TypeInv, TypeOK, RequestShape, TwinInv, Ways, Place, Live
<1>2. Live' = (Live \ {x}) \cup {y}
  BY <1>1 DEF Live, Moved, TypeInv, TypeOK, Place
<1>3. /\ \A l \in Live \ {x} : file'[l] = file[l] /\ owner'[l] = owner[l]
      /\ file'[y] = file[x] /\ owner'[y] = owner[x]
  BY <1>1 DEF Moved, TypeInv, TypeOK, Live, Place
<1>4. \A l \in Live : file[l] \in Text
  BY FileText DEF Live, Place, TypeInv
<1>5. plan = PlanOf(x, y)
  BY DEF Before
<1>6. \A c \in plan :
        \/ /\ c.at \in Live \ {x} /\ file[c.at].link = x
           /\ c = [at |-> c.at, text |-> Repointed(file[c.at], x, y)] /\ c.text.link = y
        \/ /\ c.at = y /\ c.text.link = (IF file[x].link = x THEN y ELSE file[x].link)
           /\ c = [at |-> y, text |-> [Repointed(file[x], x, y) EXCEPT !.title = y]]
  <2>1. \A l \in Live : Repointed(file[l], x, y).link = IF file[l].link = x THEN y ELSE file[l].link
    BY <1>1, <1>4, RepointedText
  <2> DEFINE own == [Repointed(file[x], x, y) EXCEPT !.title = y]
  <2>2. own.link = IF file[x].link = x THEN y ELSE file[x].link
    BY <1>1, <1>4, RepointedText
  <2> HIDE DEF own
  <2>3. plan = {[at |-> l, text |-> Repointed(file[l], x, y)] :
                  l \in {l \in Live \ {x} : file[l].link = x}} \cup {[at |-> y, text |-> own]}
    BY <1>5 DEF PlanOf, own
  <2> HIDE DEF plan, x, y
  <2> SUFFICES ASSUME NEW c \in plan
      PROVE  \/ /\ c.at \in Live \ {x} /\ file[c.at].link = x
                /\ c = [at |-> c.at, text |-> Repointed(file[c.at], x, y)] /\ c.text.link = y
             \/ /\ c.at = y /\ c.text.link = (IF file[x].link = x THEN y ELSE file[x].link)
                /\ c = [at |-> y, text |-> own]
    BY DEF own
  <2>4. CASE c = [at |-> y, text |-> own]
    BY <2>2, <2>4
  <2>5. ASSUME NEW l \in Live \ {x}, file[l].link = x,
               c = [at |-> l, text |-> Repointed(file[l], x, y)]
        PROVE  /\ c.at \in Live \ {x} /\ file[c.at].link = x
               /\ c = [at |-> c.at, text |-> Repointed(file[c.at], x, y)] /\ c.text.link = y
    BY <2>1, <2>5
  <2> QED BY <2>3, <2>4, <2>5
<1>7. /\ \A l \in Live \ {x} : file[l].link = x => \E c \in plan : c.at = l
      /\ \E c \in plan : c.at = y
  <2>1. ASSUME NEW l \in Live \ {x}, file[l].link = x PROVE \E c \in plan : c.at = l
    <3>1. [at |-> l, text |-> Repointed(file[l], x, y)] \in plan
      BY <1>5, <2>1 DEF PlanOf
    <3> HIDE DEF plan
    <3> QED BY <3>1
  <2>2. \E c \in plan : c.at = y
    <3>1. [at |-> y, text |-> [Repointed(file[x], x, y) EXCEPT !.title = y]] \in plan
      BY <1>5 DEF PlanOf
    <3> HIDE DEF plan
    <3> QED BY <3>1
  <2> QED BY <2>1, <2>2
<1> HIDE DEF plan
<1>8. \A c, d \in plan : c.at = d.at => c = d
  BY <1>1, <1>6
<1>9. ASSUME NEW n \in Note, op[h].meant[n] # None
      PROVE  \E l \in Live' : owner'[l] = n /\ Ahead(l, op[h].meant[n], plan)'
  <2> DEFINE m == op[h].meant[n]
  <2>1. PICK l \in Live : owner[l] = n /\ file[l].link \in Live /\ owner[file[l].link] = m
    BY <1>9 DEF Before, Leads
  <2> DEFINE k == IF l = x THEN y ELSE l
             link == IF file[l].link = x THEN y ELSE file[l].link
  <2>2. k \in Live' /\ owner'[k] = n /\ link \in Live' /\ owner'[link] = m
    BY <1>2, <1>3, <2>1
  <2>3. \A c \in plan : c.at = k => c.text.link = link
    BY <1>1, <1>6, <2>1
  <2>4. (\A c \in plan : c.at # k) => file'[k].link = link
    BY <1>1, <1>3, <1>7, <2>1
  <2> QED BY <2>2, <2>3, <2>4 DEF Ahead, Leads, plan
<1> QED BY <1>8, <1>9 DEF Behind, plan

(* A text that is written is where it is meant to be, and no other of the plan is there. *)
LEMMA WriteAhead ==
  ASSUME TypeInv, TypeInv', TwinInv, NEW h \in Handler, Write(h), Behind(op[h])
  PROVE  Behind(op[h])'
<1>0. op[h] \in Request /\ RequestShape(op[h]) /\ Ways(op[h])
  BY DEF TypeInv, TypeOK, TwinInv
<1>1. PICK c \in op[h].plan :
        /\ file' = [file EXCEPT ![c.at] = c.text]
        /\ owner' = IF owner[c.at] = None THEN [owner EXCEPT ![c.at] = op[h].note] ELSE owner
        /\ op' = [op EXCEPT ![h].plan = @ \ {c}]
  BY DEF Write
<1>2. owner' = owner
  BY <1>0, <1>1 DEF Write, At, Ways
<1>3. op'[h].plan = op[h].plan \ {c} /\ op'[h].meant = op[h].meant
  BY <1>0, <1>1 DEF TypeInv, TypeOK, Request
<1>4. Live' = Live
  BY <1>2 DEF Live, TypeInv, TypeOK, Place
<1>5. c.at \in Place
  BY <1>0 DEF Request, Planned, Place
<1>6. ASSUME NEW n \in Note, op[h].meant[n] # None
      PROVE  \E l \in Live' : owner'[l] = n /\ Ahead(l, op[h].meant[n], op[h].plan \ {c})'
  <2>1. PICK l \in Live : owner[l] = n /\ Ahead(l, op[h].meant[n], op[h].plan)
    BY <1>6 DEF Behind
  <2>2. CASE l = c.at
    <3>1. Leads(c.text.link, op[h].meant[n])
      BY <2>1, <2>2 DEF Ahead
    <3>2. \A d \in op[h].plan \ {c} : d.at # l
      BY <2>2 DEF Behind
    <3>3. file'[l].link = c.text.link
      BY <1>1, <1>5, <2>2 DEF TypeInv, TypeOK
    <3> QED BY <1>2, <1>3, <1>4, <2>1, <3>1, <3>2, <3>3 DEF Ahead, Leads
  <2>3. CASE l # c.at
    <3>1. file'[l] = file[l]
      BY <1>1, <2>1, <2>3 DEF TypeInv, TypeOK, Live, Place
    <3> QED BY <1>2, <1>3, <1>4, <2>1, <2>3, <3>1 DEF Ahead, Leads
  <2> QED BY <2>2, <2>3
<1> QED BY <1>3, <1>6 DEF Behind

LEMMA LinkStep ==
  ASSUME OneAtATime, TypeInv, TypeInv', TwinInv, LinkInv, NEW h \in Handler, Step(h)
  PROVE  LinkWays(op[h])'
<1> USE DEF At
<1>0. /\ op[h] \in Request /\ RequestShape(op[h]) /\ LinkWays(op[h]) /\ Ways(op[h])
  BY DEF TypeInv, TypeOK, LinkInv, TwinInv
<1>1. CASE End(h)
  BY <1>1 DEF End, LinkWays, Rest, TypeInv, TypeOK
<1>2. ASSUME NEW pc, Go(h, pc)
      PROVE  /\ op'[h].pc = pc /\ op'[h].from = op[h].from /\ op'[h].to = op[h].to
             /\ op'[h].kind = op[h].kind /\ op'[h].plan = op[h].plan /\ op'[h].meant = op[h].meant
  BY <1>0, <1>2 DEF Go, TypeInv, TypeOK, Request
<1>3. CASE FlushOpen(h)
  BY <1>2, <1>3, FlushedPaid DEF FlushOpen, LinkWays
<1>4. CASE Plan(h)
  <2>1. UNCHANGED <<owner, room, file>> /\ op[h].pc = "plan" /\ op[h].kind = "rename" /\ Paid
    BY <1>0, <1>4 DEF Plan, disk, RequestShape, LinkWays, Request
  <2>2. op'[h].meant = Meant /\ op'[h].plan = PlanOf(op[h].from, op[h].to)
    BY <1>4, PlannedTexts
  <2>3. op'[h].pc = "close" /\ op'[h].from = op[h].from /\ op'[h].to = op[h].to
    BY <1>0, <1>4 DEF Plan, TypeInv, TypeOK, Request
  <2>4. \A n \in Note : Meant[n] # None =>
          \E l \in Live : owner[l] = n /\ Leads(file[l].link, Meant[n])
    BY <2>1, MeantLeads DEF TwinInv
  <2>5. Before(op[h])'
    BY <2>1, <2>2, <2>3, <2>4 DEF Before, Paid, PlanOf, Live, Leads, Repointed
  <2> QED BY <2>3, <2>5 DEF LinkWays
<1>5. CASE Close(h) /\ op[h].kind = "rename"
  <2>1. op[h].from \in Path /\ op[h].pc = "close" /\ Go(h, "move") /\ Before(op[h])
    BY <1>0, <1>5 DEF Close, RequestShape, Request, LinkWays
  <2>2. owner' = owner /\ room' = [room EXCEPT ![op[h].from] = None]
    BY <1>5, <2>1, WriteBackOwner DEF Close, TypeInv, TwinInv
  <2>3. file' = file
    <3>1. Due({op[h].from}) = {}
      BY <2>1 DEF Due, Before, Paid
    <3> QED BY <1>5, <3>1 DEF Close, WriteBack, TypeInv, TypeOK
  <2>4. Paid'
    BY <2>1, <2>2 DEF Before, Paid, TypeInv, TypeOK
  <2>5. Live' = Live
    BY <2>3 DEF Live
  <2>6. \A p, q : PlanOf(p, q)' = PlanOf(p, q)
    BY <2>3, <2>5 DEF PlanOf, Repointed
  <2>7. Before(op[h])'
    BY <1>2, <2>1, <2>2, <2>3, <2>4, <2>5, <2>6 DEF Before, Leads
  <2> QED BY <1>2, <2>1, <2>7 DEF LinkWays
<1>6. CASE Move(h) /\ op[h].kind = "rename"
  <2>1. Go(h, "marker") /\ Before(op[h])
    BY <1>0, <1>6 DEF Move, LinkWays
  <2> QED BY <1>2, <1>6, <2>1, MoveAhead DEF LinkWays
<1>7. ASSUME NEW pc \in {"sidecar", "write", "done"}, Go(h, pc), UNCHANGED <<owner, file>>,
             op[h].pc \in {"marker", "sidecar", "write"}, pc = "done" => op[h].plan = {}
      PROVE  LinkWays(op[h])'
  BY <1>0, <1>2, <1>7 DEF LinkWays, Behind, Ahead, Leads, Live
<1>8. CASE MoveMarker(h)
  BY <1>7, <1>8 DEF MoveMarker
<1>9. CASE MoveSidecar(h) /\ op[h].kind = "rename"
  <2>1. Go(h, "write")
    BY <1>9 DEF MoveSidecar, After
  <2> QED BY <1>7, <1>9, <2>1 DEF MoveSidecar
<1>10. CASE WriteDone(h)
  BY <1>7, <1>10 DEF WriteDone, disk
<1>11. CASE Write(h)
  <2>1. op[h].kind = "rename" /\ op[h].pc = "write" /\ Behind(op[h])
    BY <1>0, <1>11 DEF Write, RequestShape, LinkWays, Request
  <2>2. op'[h].pc = "write"
    BY <1>0, <1>11, <2>1 DEF Write, TypeInv, TypeOK, Request
  <2> QED BY <1>11, <2>1, <2>2, WriteAhead DEF LinkWays
<1>12. CASE op[h].kind # "rename" /\ \E pc : Go(h, pc)
  BY <1>2, <1>12 DEF LinkWays
<1>13. CASE Close(h) \/ Move(h) \/ MoveSidecar(h)
  BY <1>5, <1>6, <1>9, <1>12, <1>13 DEF Close, Move, MoveSidecar
<1>14. CASE WriteMetadata(h) \/ RemoveMetadata(h)
  <2>1. op[h].kind # "rename"
    BY <1>0, <1>14 DEF WriteMetadata, RemoveMetadata, RequestShape
  <2> QED BY <1>12, <1>14, <2>1 DEF WriteMetadata, RemoveMetadata
<1>15. CASE WriteMetadataFails(h) \/ Finish(h) \/ Fail(h)
  BY <1>1, <1>15 DEF WriteMetadataFails, Finish, Fail
<1> QED
  BY <1>3, <1>4, <1>8, <1>10, <1>11, <1>13, <1>14, <1>15 DEF Step

LEMMA LinkNext ==
  ASSUME OneAtATime, TypeInv, TypeInv', TwinInv, LinkInv, [Next]_vars
  PROVE  LinkInv'
<1>1. ASSUME NEW h \in Handler, Step(h) PROVE LinkInv'
  BY <1>1, LinkStep DEF OneAtATime, LinkInv
<1>2. ASSUME \A h \in Handler : op'[h] = Rest PROVE LinkInv'
  BY <1>2 DEF LinkInv, LinkWays, Rest
<1>3. CASE Quiet /\ UNCHANGED op
  BY <1>2, <1>3 DEF Quiet, OneAtATime
<1>4. ASSUME NEW p \in Path,
             \/ Open(p) \/ Flush(p) \/ Leave(p) \/ Inspect(p)
             \/ \E e \in Edit : Type(p, e)
             \/ \E q \in Target : Link(p, q)
      PROVE  LinkInv'
  BY <1>3, <1>4 DEF Open, Flush, Leave, Inspect, Type, Link, Accept
<1>5. ASSUME NEW i \in Id, NEW steps \in 1..4, Purge(i, steps) PROVE LinkInv'
  BY <1>3, <1>5 DEF Purge
<1>6. ASSUME NEW p \in Path, NEW n \in Note, Create(p, n) PROVE LinkInv'
  BY <1>3, <1>6 DEF Create
<1>7. CASE UNCHANGED <<op, room, file, owner>>
  <2>1. Paid' = Paid /\ Live' = Live
    BY <1>7 DEF Paid, Live
  <2>2. \A p, q : PlanOf(p, q)' = PlanOf(p, q)
    BY <1>7, <2>1 DEF PlanOf, Repointed
  <2> SUFFICES ASSUME NEW h \in Handler PROVE LinkWays(op[h])'
    BY DEF LinkInv
  <2>3. LinkWays(op[h])
    BY DEF LinkInv
  <2>4. Before(op[h]) => Before(op[h])'
    BY <1>7, <2>1, <2>2 DEF Before, Leads
  <2>5. Behind(op[h]) => Behind(op[h])'
    BY <1>7, <2>1 DEF Behind, Ahead, Leads
  <2> QED BY <1>7, <2>1, <2>3, <2>4, <2>5 DEF LinkWays
<1>8. ASSUME NEW i \in Id, Expire(i) PROVE LinkInv'
  BY <1>7, <1>8 DEF Expire, disk
<1>9. ASSUME NEW h \in Handler, NEW kind, NEW pc, NEW x, NEW y, Begin(h, kind, pc, x, y),
             kind # "rename" \/ pc = "flush"
      PROVE  LinkInv'
  <2>1. op'[h].kind = kind /\ op'[h].pc = pc
    BY <1>9 DEF Begin, Rest, TypeInv, TypeOK
  <2> QED BY <1>9, <2>1 DEF LinkInv, LinkWays, OneAtATime
<1>10. ASSUME NEW h \in Handler,
              \/ \E p \in Path, i \in Id : Delete(h, p, i)
              \/ \E i \in Id : Restore(h, i)
              \/ \E p, q \in Path : Rename(h, p, q)
       PROVE  LinkInv'
  BY <1>9, <1>10 DEF Delete, Restore, Rename
<1>11. CASE Crash
  BY <1>2, <1>11 DEF Crash
<1>12. CASE UNCHANGED vars
  BY <1>7, <1>12 DEF vars, disk
<1> QED
  BY <1>1, <1>4, <1>5, <1>6, <1>8, <1>10, <1>11, <1>12 DEF Next

(* One request at a time, when a rename has answered every link leads to the note it led
   to before: what was typed the moment before is flushed first, a text of the plan goes
   to the place the note is at after the move, and a note that links to itself is
   repointed in the text that also has its new title (Rename::note_with_title). *)
THEOREM LinksKept == ASSUME OneAtATime PROVE Spec => []LinksFollow
<1>1. Init => LinkInv
  BY DEF Init, LinkInv, LinkWays, Rest
<1>2. TypeInv /\ TypeInv' /\ TwinInv /\ LinkInv /\ [Next]_vars => LinkInv'
  BY LinkNext
<1>3. TypeInv /\ LinkInv => LinksFollow
  BY DEF LinkInv, LinkWays, Behind, Ahead, Leads, LinksFollow
<1>4. Init => TwinInv
  BY DEF Init, TwinInv, NoTwins, Homes, Ways, Rest
<1> QED BY <1>1, <1>2, <1>3, <1>4, TypeInit, TypeNext, TwinNext, PTL DEF Spec

-----------------------------------------------------------------------------
(* What is kept of a note.  The request in flight, of which there is one. *)
Current == IF \E h \in Handler : TRUE THEN op[CHOOSE h \in Handler : TRUE] ELSE Rest

(* While a request has moved the file and not yet the marker or the sidecar, those at the
   source are the note's, and those at the destination were left there by a note that is
   cut. *)
Moving == {"meta", "marker", "sidecar"}
Between(x) ==
  IF x = Current.from THEN Current.note ELSE IF x = Current.to THEN None ELSE owner[x]
MarkerOf(x) == IF Current.pc \in {"meta", "marker"} THEN Between(x) ELSE owner[x]
SidecarOf(x) == IF Current.pc \in Moving THEN Between(x) ELSE owner[x]

(* The edits of a text were typed into note n, or into one that is cut. *)
Of(n, t) == \A e \in t.edits : typed[e] \in (cut \cup {n}) \ {None}

Belongs == \A x \in Place :
  /\ file[x] # None => Of(owner[x], file[x])
  /\ marker[x] # None => Of(MarkerOf(x), marker[x])
  /\ sidecar[x] # None => Of(SidecarOf(x), sidecar[x])

(* What the marker says is in the file is also in the sidecar. *)
MarkedAt(x) == IF Current.pc = "sidecar" /\ x = Current.to THEN Current.from ELSE x
Covered == \A x \in Place : marker[x] # None =>
  \A e \in marker[x].edits :
    typed[e] \in cut \/ (sidecar[MarkedAt(x)] # None /\ e \in sidecar[MarkedAt(x)].edits)

(* A room has the document of the sidecar and the hash of the marker, and a file that is
   not its own has what the document has. *)
Lost(e) == typed[e] \in cut \/ e \in outdated
Rooms == \A p \in Path : room[p] # None =>
  /\ sidecar[p] = room[p].doc /\ marker[p] = room[p].hash
  /\ ~room[p].due => room[p].doc = room[p].hash
  /\ file[p] = room[p].hash \/ \A e \in room[p].doc.edits : Lost(e) \/ e \in file[p].edits

(* Where the note of the request is. *)
Carries ==
  /\ Current.pc \in {"flush", "plan", "close", "move"} => owner[Current.from] = Current.note
  /\ Current.pc \in Moving \cup {"forget", "write"} => owner[Current.to] = Current.note
  /\ Current.pc \in Moving \cup {"forget"} => owner[Current.from] = None
  /\ Current.pc \in Moving /\ Current.to \in Path => room[Current.to] = None

(* What a rename will write is of the note it writes it to, and no less than its room. *)
Owning(x) == IF x = Current.to /\ Current.pc \in {"close", "move"} THEN Current.note ELSE owner[x]
Plans ==
  /\ Current.kind # "rename" \/ Current.pc \in {"flush", "plan"} => Current.plan = {}
  /\ \A c \in Current.plan :
       /\ Of(Owning(c.at), c.text)
       /\ room[c.at] # None => \A e \in room[c.at].doc.edits : Lost(e) \/ e \in c.text.edits

(* What would be shown of the note at x once the request is over. *)
SidecarAt(x) == IF Current.pc \in Moving /\ x = Current.to THEN Current.from ELSE x
MarkerAt(x) == IF Current.pc \in {"meta", "marker"} /\ x = Current.to THEN Current.from ELSE x
Kept(x) ==
  IF x \in Path /\ room[x] # None THEN room[x].doc
  ELSE IF sidecar[SidecarAt(x)] # None /\ marker[MarkerAt(x)] = file[x]
       THEN sidecar[SidecarAt(x)] ELSE file[x]

Survives == \A x \in Place, e \in Edit :
  owner[x] # None /\ typed[e] = owner[x] => Lost(e) \/ e \in Kept(x).edits
Somewhere == \A e \in Edit :
  typed[e] # None /\ typed[e] \notin cut => \E x \in Place : owner[x] = typed[e]
Listed == \A i \in Id :
  owner[i] # None /\ owner[i] \notin cut =>
    entry[i] # None \/ (Current.pc = "meta" /\ Current.to = i)

KeepInv == Belongs /\ Covered /\ Rooms /\ Carries /\ Plans /\ Survives /\ Somewhere /\ Listed

LEMMA CurrentIs ==
  ASSUME OneAtATime, NEW h \in Handler
  PROVE  Current = op[h] /\ Current' = op'[h]
  BY DEF OneAtATime, Current

LEMMA CurrentRests == AtRest => Current = Rest
  BY DEF AtRest, Current

LEMMA CurrentTyped == TypeInv => Current \in Request /\ RequestShape(Current)
  BY Texts DEF Current, TypeInv, TypeOK

(* Between the steps that move a note, the sidecar and the marker at a place are its own. *)
LEMMA Still ==
  ASSUME Current.pc \notin Moving, NEW x
  PROVE  MarkerOf(x) = owner[x] /\ SidecarOf(x) = owner[x] /\ MarkedAt(x) = x /\ Kept(x) = Shown(x)
  BY DEF Moving, MarkerOf, SidecarOf, MarkedAt, Kept, SidecarAt, MarkerAt, Shown

LEMMA StillNext ==
  ASSUME Current'.pc \notin Moving, NEW x
  PROVE  MarkerOf(x)' = owner'[x] /\ SidecarOf(x)' = owner'[x] /\ MarkedAt(x)' = x
         /\ Kept(x)' = Shown(x)'
  BY DEF Moving, MarkerOf, SidecarOf, MarkedAt, Kept, SidecarAt, MarkerAt, Shown

LEMMA RestStill == Rest.pc \notin Moving /\ Rest.plan = {} /\ Rest.kind # "rename" /\ Rest.pc = "rest"
  BY DEF Rest, Moving

(* Nothing on the disk, in the rooms or in the history changes. *)
LEMMA KeepSame ==
  ASSUME KeepInv, UNCHANGED <<file, sidecar, marker, entry, room, owner, typed, cut, outdated>>,
         Current.pc \notin Moving, Current'.pc \notin Moving, Carries', Plans'
  PROVE  KeepInv'
<1> USE DEF KeepInv
<1>1. /\ \A x : MarkerOf(x)' = MarkerOf(x) /\ SidecarOf(x)' = SidecarOf(x) /\ MarkedAt(x)' = MarkedAt(x)
      /\ \A x : Kept(x)' = Kept(x)
  BY Still, StillNext DEF Shown
<1>2. Belongs'
  BY <1>1 DEF Belongs, Of
<1>3. Covered'
  BY <1>1 DEF Covered
<1>4. Rooms'
  BY DEF Rooms, Lost
<1>5. Survives'
  BY <1>1 DEF Survives, Lost
<1>6. Somewhere' /\ Listed'
  BY DEF Somewhere, Listed, Moving
<1> QED BY <1>2, <1>3, <1>4, <1>5, <1>6

(* What rooms owe is written, and a room may be dropped. *)
LEMMA KeepWriteBack ==
  ASSUME TypeInv, TwinInv, KeepInv, NEW paths \in SUBSET Path, WriteBack(paths),
         UNCHANGED <<entry, typed, cut, outdated>>,
         room' = Clean(paths) \/ \E p \in Path : paths = {p} /\ room' = [room EXCEPT ![p] = None],
         Current.pc \notin Moving, Current'.pc \notin Moving, Carries', Plans'
  PROVE  KeepInv'
<1> USE DEF KeepInv
<1>1. owner' = owner /\ sidecar' = sidecar
  BY WriteBackOwner DEF WriteBack, TypeInv, TwinInv
<1>2. \A x \in Place :
        \/ /\ x \in Path /\ room[x] # None /\ room[x].due /\ x \in paths /\ room[x].doc # None
           /\ file'[x] = room[x].doc /\ marker'[x] = room[x].doc /\ sidecar[x] = room[x].doc
        \/ x \notin Due(paths) /\ file'[x] = file[x] /\ marker'[x] = marker[x]
  BY NoneAssumption DEF WriteBack, Due, Rooms, TypeInv, TypeOK, Room
<1>3. \A x : MarkerOf(x)' = MarkerOf(x) /\ SidecarOf(x)' = SidecarOf(x) /\ MarkedAt(x)' = MarkedAt(x)
  BY <1>1, Still, StillNext
<1>4. Belongs'
  <2>1. \A n, t : Of(n, t)' = Of(n, t)
    BY DEF Of
  <2>2. \A x \in Place : MarkerOf(x) = owner[x] /\ SidecarOf(x) = owner[x]
    BY Still
  <2> QED BY <1>1, <1>2, <1>3, <2>1, <2>2 DEF Belongs
<1>5. Covered'
  <2>1. \A x \in Place : MarkedAt(x) = x
    BY Still
  <2> QED BY <1>1, <1>2, <1>3, <2>1 DEF Covered
<1>6. \A p \in Path : room'[p] # None =>
        /\ room[p] # None /\ room'[p].doc = room[p].doc
        /\ \/ p \in Due(paths) /\ room'[p].hash = room[p].doc /\ ~room'[p].due
           \/ p \notin Due(paths) /\ room'[p] = room[p]
  <2> SUFFICES ASSUME NEW p \in Path, room'[p] # None
      PROVE  /\ room[p] # None /\ room'[p].doc = room[p].doc
             /\ \/ p \in Due(paths) /\ room'[p].hash = room[p].doc /\ ~room'[p].due
                \/ p \notin Due(paths) /\ room'[p] = room[p]
    OBVIOUS
  <2>1. CASE room' = Clean(paths)
    <3>1. CASE p \in Due(paths)
      <4>1. room[p] \in Room /\ room[p] # None
        BY <3>1 DEF Due, TypeInv, TypeOK
      <4>2. room'[p] = [room[p] EXCEPT !.hash = room[p].doc, !.due = FALSE]
        BY <2>1, <3>1 DEF Clean
      <4> QED BY <3>1, <4>1, <4>2 DEF Room
    <3>2. CASE p \notin Due(paths)
      BY <2>1, <3>2 DEF Clean
    <3> QED BY <3>1, <3>2
  <2>2. CASE \E q \in Path : paths = {q} /\ room' = [room EXCEPT ![q] = None]
    BY <2>2 DEF Due, TypeInv, TypeOK
  <2> QED BY <2>1, <2>2
<1>7. Rooms'
  <2> SUFFICES ASSUME NEW p \in Path, room'[p] # None
      PROVE  /\ sidecar'[p] = room'[p].doc /\ marker'[p] = room'[p].hash
             /\ ~room'[p].due => room'[p].doc = room'[p].hash
             /\ file'[p] = room'[p].hash
                  \/ \A e \in room'[p].doc.edits : Lost(e)' \/ e \in file'[p].edits
    BY DEF Rooms
  <2>1. p \in Place
    BY DEF Place
  <2>2. \A e : Lost(e)' = Lost(e)
    BY DEF Lost
  <2>3. CASE p \in Due(paths)
    BY <1>1, <1>2, <1>6, <2>1, <2>3 DEF Due
  <2>4. CASE p \notin Due(paths)
    BY <1>1, <1>2, <1>6, <2>1, <2>2, <2>4 DEF Due, Rooms
  <2> QED BY <2>3, <2>4
<1>8. Survives'
  <2> SUFFICES ASSUME NEW x \in Place, NEW e \in Edit, owner'[x] # None, typed'[e] = owner'[x]
      PROVE  Lost(e)' \/ e \in Shown(x)'.edits
    BY StillNext DEF Survives
  <2>1. Lost(e) \/ e \in Shown(x).edits
    BY <1>1, Still DEF Survives
  <2>2. Lost(e)' = Lost(e)
    BY DEF Lost
  <2>3. CASE x \in Path /\ room'[x] # None
    BY <1>6, <2>1, <2>2, <2>3 DEF Shown
  <2>4. CASE x \in Path /\ room'[x] = None /\ room[x] # None
    <3>1. x \in paths
      BY <2>4 DEF Clean, TypeInv, TypeOK, Due
    <3>2. CASE room[x].due
      BY <1>1, <1>2, <2>1, <2>2, <2>4, <3>1, <3>2 DEF Shown, Due
    <3>3. CASE ~room[x].due
      <4>1. /\ sidecar[x] = room[x].doc /\ marker[x] = room[x].doc
            /\ file[x] = room[x].doc \/ \A f \in room[x].doc.edits : Lost(f) \/ f \in file[x].edits
        BY <2>4, <3>3 DEF Rooms
      <4>2. file'[x] = file[x] /\ marker'[x] = marker[x]
        BY <1>2, <3>3
      <4>3. room[x].doc # None
        BY <2>4, NoneAssumption DEF TypeInv, TypeOK, Room
      <4> QED BY <1>1, <2>1, <2>2, <2>4, <4>1, <4>2, <4>3 DEF Shown
    <3> QED BY <3>2, <3>3
  <2>5. CASE x \notin Path \/ (room[x] = None /\ room'[x] = None)
    BY <1>1, <1>2, <2>1, <2>2, <2>5 DEF Shown
  <2> QED BY <2>3, <2>4, <2>5
<1>9. Somewhere' /\ Listed'
  BY <1>1 DEF Somewhere, Listed, Moving
<1> QED BY <1>4, <1>5, <1>7, <1>8, <1>9

(* A step of the request changes its pc and no more of it. *)
LEMMA Gone ==
  ASSUME OneAtATime, TypeInv, NEW h \in Handler, NEW pc, Go(h, pc)
  PROVE  /\ Current = op[h] /\ Current'.pc = pc /\ Current'.kind = Current.kind
         /\ Current'.from = Current.from /\ Current'.to = Current.to
         /\ Current'.note = Current.note /\ Current'.plan = Current.plan
  BY CurrentIs DEF Go, TypeInv, TypeOK, Request

LEMMA Ended == ASSUME OneAtATime, TypeInv, NEW h \in Handler, End(h) PROVE Current' = Rest
  BY CurrentIs DEF End, TypeInv, TypeOK

(* Where the request is going. *)
LEMMA Going ==
  ASSUME OneAtATime, TypeInv, TwinInv, NEW h \in Handler, op[h].pc # "rest"
  PROVE  /\ Current = op[h] /\ Current \in Request /\ RequestShape(Current) /\ Ways(Current)
         /\ Current.from \in Place /\ Current.to \in Place /\ Current.note \in Note
         /\ Current.note # None
<1>1. Current = op[h] /\ Current \in Request /\ RequestShape(Current) /\ Ways(Current)
  BY CurrentIs DEF TypeInv, TypeOK, TwinInv
<1> QED BY <1>1, NoneAssumption DEF RequestShape, Request, Place

(* A note without a room at a place where there is none. *)
LEMMA NoRoom ==
  ASSUME TypeInv, TwinInv, NEW p \in Path, owner[p] = None
  PROVE  room[p] = None
  BY NoneAssumption DEF TwinInv, Homes, TypeInv, TypeOK, Room

LEMMA KeepMove ==
  ASSUME OneAtATime, TypeInv, TwinInv, KeepInv, NEW h \in Handler, Move(h)
  PROVE  KeepInv'
<1> USE DEF KeepInv
<1> DEFINE x == Current.from
           y == Current.to
<1>1. op[h].pc = "move"
  BY DEF Move, At
<1>2. /\ Current = op[h] /\ Current \in Request /\ RequestShape(Current) /\ Ways(Current)
      /\ x \in Place /\ y \in Place /\ Current.note # None /\ Current.pc = "move"
  BY <1>1, Going
<1>3. /\ file' = Moved(file, x, y) /\ owner' = Moved(owner, x, y) /\ file[x] # None
      /\ UNCHANGED <<sidecar, marker, entry, room, typed, cut, outdated>>
      /\ Go(h, IF Current.kind = "delete" THEN "meta" ELSE "marker")
  BY <1>2 DEF Move, trash, past
<1>4. /\ Current'.from = x /\ Current'.to = y /\ Current'.note = Current.note
      /\ Current'.plan = Current.plan /\ Current'.kind = Current.kind
      /\ Current'.pc = (IF Current.kind = "delete" THEN "meta" ELSE "marker")
  BY <1>3, Gone
<1>5. /\ Current'.pc \in {"meta", "marker"} /\ Current'.pc \in Moving /\ Current'.pc # "sidecar"
      /\ Current'.pc \notin {"close", "move", "flush", "plan", "forget", "write"}
  BY <1>4 DEF Moving
<1>6. owner[x] = Current.note /\ owner[y] = None /\ x # y
  BY <1>2 DEF Carries, Ways
<1>7. /\ \A z \in Place : owner'[z] = IF z = x THEN None ELSE IF z = y THEN Current.note ELSE owner[z]
      /\ \A z \in Place : file'[z] = IF z = x THEN None ELSE IF z = y THEN file[x] ELSE file[z]
  BY <1>2, <1>3, <1>6 DEF Moved, TypeInv, TypeOK
<1>8. \A p \in Path : p = x \/ p = y => room[p] = None
  BY <1>2, <1>6, NoRoom DEF Ways
<1> HIDE DEF x, y
<1>9. \A z \in Place : MarkerOf(z)' = owner[z] /\ SidecarOf(z)' = owner[z]
  BY <1>4, <1>5, <1>6, <1>7 DEF MarkerOf, SidecarOf, Between, x, y
<1>s. \A z \in Place : MarkerOf(z) = owner[z] /\ SidecarOf(z) = owner[z] /\ MarkedAt(z) = z /\ Kept(z) = Shown(z)
  BY <1>2, Still DEF Moving
<1>o. \A n, t : Of(n, t)' = Of(n, t)
  BY <1>3 DEF Of
<1>l. \A e : Lost(e)' = Lost(e)
  BY <1>3 DEF Lost
<1>10. Belongs'
  BY <1>2, <1>3, <1>6, <1>7, <1>9, <1>s, <1>o DEF Belongs
<1>11. Covered'
  BY <1>3, <1>5, <1>s DEF Covered, MarkedAt
<1>12. Rooms'
  <2>1. \A p \in Path : room[p] # None => file'[p] = file[p]
    BY <1>7, <1>8 DEF Place
  <2> QED BY <1>3, <1>l, <2>1 DEF Rooms
<1>13. Carries'
  BY <1>2, <1>3, <1>4, <1>5, <1>6, <1>7, <1>8 DEF Carries, x, y
<1>14. Plans'
  <2>1. Current.kind # "rename" => Current.plan = {}
    BY DEF Plans
  <2>2. \A c \in Current.plan : c.at \in Place /\ (c.at = y \/ (c.at # x /\ owner[c.at] # None))
    BY <1>2, <2>1 DEF Ways, Request, Planned, Place, x, y
  <2>3. \A c \in Current.plan : Owning(c.at)' = Owning(c.at)
    BY <1>2, <1>4, <1>5, <1>6, <1>7, <2>2 DEF Owning, x, y
  <2> QED BY <1>3, <1>4, <1>5, <1>o, <1>l, <2>1, <2>3 DEF Plans
<1>15. Survives'
  <2> SUFFICES ASSUME NEW z \in Place, NEW e \in Edit, owner'[z] # None, typed'[e] = owner'[z]
      PROVE  Lost(e)' \/ e \in Kept(z)'.edits
    BY DEF Survives
  <2>1. \A k \in Place : owner[k] # None /\ typed[e] = owner[k] => Lost(e)' \/ e \in Shown(k).edits
    BY <1>l, <1>s DEF Survives
  <2>2. CASE z = y
    <3>1. Kept(z)' = IF sidecar[x] # None /\ marker[x] = file[x] THEN sidecar[x] ELSE file[x]
      BY <1>2, <1>3, <1>4, <1>5, <1>6, <1>7, <1>8, <2>2 DEF Kept, SidecarAt, MarkerAt, y
    <3>2. Shown(x) = Kept(z)'
      BY <1>8, <3>1 DEF Shown
    <3> QED BY <1>2, <1>3, <1>6, <1>7, <2>1, <2>2, <3>2
  <2>3. CASE z # y
    <3>1. z # x /\ owner'[z] = owner[z] /\ file'[z] = file[z]
      BY <1>7, <2>3
    <3>2. Kept(z)' = Shown(z)
      BY <1>3, <1>4, <2>3, <3>1 DEF Kept, SidecarAt, MarkerAt, Shown, y
    <3> QED BY <1>3, <2>1, <3>1, <3>2
  <2> QED BY <2>2, <2>3
<1>16. Somewhere'
  <2> SUFFICES ASSUME NEW e \in Edit, typed'[e] # None, typed'[e] \notin cut'
      PROVE  \E z \in Place : owner'[z] = typed'[e]
    BY DEF Somewhere
  <2>1. PICK z \in Place : owner[z] = typed[e]
    BY <1>3 DEF Somewhere
  <2>2. owner'[IF z = x THEN y ELSE z] = typed'[e]
    BY <1>2, <1>3, <1>6, <1>7, <2>1
  <2> QED BY <1>2, <2>2
<1>17. Listed'
  <2>1. y \in Id => Current.kind = "delete"
    BY <1>2, PlaceAssumption DEF RequestShape, Request, y
  <2>2. Current.pc # "meta"
    BY <1>2
  <2> SUFFICES ASSUME NEW i \in Id, owner'[i] # None, owner'[i] \notin cut'
      PROVE  entry'[i] # None \/ (Current'.pc = "meta" /\ Current'.to = i)
    BY DEF Listed
  <2>3. i \in Place
    BY DEF Place
  <2> QED BY <1>3, <1>4, <1>7, <2>1, <2>2, <2>3 DEF Listed
<1> QED BY <1>10, <1>11, <1>12, <1>13, <1>14, <1>15, <1>16, <1>17

LEMMA KeepMetadata ==
  ASSUME OneAtATime, TypeInv, TwinInv, KeepInv, NEW h \in Handler, WriteMetadata(h)
  PROVE  KeepInv'
<1> USE DEF KeepInv
<1>1. op[h].pc = "meta"
  BY DEF WriteMetadata, At
<1>2. /\ Current = op[h] /\ Current \in Request /\ RequestShape(Current) /\ Current.pc = "meta"
      /\ Current.from \in Path /\ Current.to \in Id /\ Current.kind = "delete"
  BY <1>1, Going DEF RequestShape, Request
<1>3. /\ UNCHANGED <<file, sidecar, marker, room, owner, typed, cut, outdated>>
      /\ entry' = [entry EXCEPT ![Current.to] = Current.from] /\ Go(h, "marker")
  BY <1>2 DEF WriteMetadata, disk, past
<1>4. /\ Current'.from = Current.from /\ Current'.to = Current.to /\ Current'.note = Current.note
      /\ Current'.plan = Current.plan /\ Current'.kind = Current.kind /\ Current'.pc = "marker"
  BY <1>3, Gone
<1>5. Belongs'
  BY <1>2, <1>3, <1>4 DEF Belongs, Of, MarkerOf, SidecarOf, Between, Moving
<1>6. Covered'
  BY <1>2, <1>3, <1>4 DEF Covered, MarkedAt
<1>7. Rooms' /\ Somewhere'
  BY <1>3 DEF Rooms, Lost, Somewhere
<1>8. Carries'
  BY <1>2, <1>3, <1>4 DEF Carries, Moving
<1>9. Plans'
  BY <1>2, <1>4 DEF Plans
<1>10. Survives'
  <2>1. \A x : Kept(x)' = Kept(x)
    BY <1>2, <1>3, <1>4 DEF Kept, SidecarAt, MarkerAt, Moving
  <2> QED BY <1>3, <2>1 DEF Survives, Lost
<1>11. Listed'
  BY <1>2, <1>3, <1>4, NoneAssumption DEF Listed, TypeInv, TypeOK, Place
<1> QED BY <1>5, <1>6, <1>7, <1>8, <1>9, <1>10, <1>11

LEMMA KeepMetadataFails ==
  ASSUME OneAtATime, TypeInv, TwinInv, KeepInv, NEW h \in Handler, WriteMetadataFails(h)
  PROVE  KeepInv'
<1> USE DEF KeepInv
<1> DEFINE x == Current.from
           y == Current.to
<1>1. op[h].pc = "meta"
  BY DEF WriteMetadataFails, At
<1>2. /\ Current = op[h] /\ Ways(Current) /\ Current.pc = "meta" /\ x \in Path /\ y \in Id
      /\ x \in Place /\ y \in Place /\ x # y /\ Current.note # None /\ y \notin Path /\ x \notin Id
  BY <1>1, Going, PlaceAssumption DEF RequestShape, Request
<1>3. /\ file' = Moved(file, y, x) /\ owner' = Moved(owner, y, x)
      /\ UNCHANGED <<sidecar, marker, entry, room, typed, cut, outdated>> /\ Current' = Rest
  BY <1>2, Ended DEF WriteMetadataFails, trash, past
<1>4. owner[y] = Current.note /\ owner[x] = None /\ room[x] = None
  BY <1>2 DEF Carries, Ways, Moving
<1>5. /\ \A z \in Place : owner'[z] = IF z = y THEN None ELSE IF z = x THEN Current.note ELSE owner[z]
      /\ \A z \in Place : file'[z] = IF z = y THEN None ELSE IF z = x THEN file[y] ELSE file[z]
  BY <1>2, <1>3, <1>4 DEF Moved, TypeInv, TypeOK
<1> HIDE DEF x, y
<1>6. \A z \in Place : /\ MarkerOf(z) = owner'[z] /\ SidecarOf(z) = owner'[z]
                       /\ MarkerOf(z)' = owner'[z] /\ SidecarOf(z)' = owner'[z]
                       /\ MarkedAt(z) = z /\ MarkedAt(z)' = z
  BY <1>2, <1>3, <1>5, RestStill, StillNext DEF MarkerOf, SidecarOf, MarkedAt, Between, Moving, x, y
<1>o. \A n, t : Of(n, t)' = Of(n, t)
  BY <1>3 DEF Of
<1>l. \A e : Lost(e)' = Lost(e)
  BY <1>3 DEF Lost
<1>7. Belongs'
  BY <1>2, <1>3, <1>4, <1>5, <1>6, <1>o DEF Belongs
<1>8. Covered'
  BY <1>3, <1>6 DEF Covered
<1>9. Rooms'
  <2>1. \A p \in Path : room[p] # None => file'[p] = file[p]
    BY <1>2, <1>4, <1>5 DEF Place
  <2> QED BY <1>3, <1>l, <2>1 DEF Rooms
<1>10. Carries' /\ Plans'
  BY <1>3, RestStill DEF Carries, Plans, Moving
<1>11. Survives'
  <2> SUFFICES ASSUME NEW z \in Place, NEW e \in Edit, owner'[z] # None, typed'[e] = owner'[z]
      PROVE  Lost(e)' \/ e \in Shown(z)'.edits
    BY <1>3, RestStill, StillNext DEF Survives
  <2>1. \A k \in Place : owner[k] # None /\ typed[e] = owner[k] => Lost(e)' \/ e \in Kept(k).edits
    BY <1>l DEF Survives
  <2>2. CASE z = x
    <3>1. Kept(y) = IF sidecar[x] # None /\ marker[x] = file[y] THEN sidecar[x] ELSE file[y]
      BY <1>2 DEF Kept, SidecarAt, MarkerAt, Moving, x, y
    <3>2. Shown(z)' = Kept(y)
      BY <1>2, <1>3, <1>4, <1>5, <2>2, <3>1 DEF Shown
    <3> QED BY <1>2, <1>3, <1>4, <1>5, <2>1, <2>2, <3>2
  <2>3. CASE z # x
    <3>1. z # y /\ owner'[z] = owner[z] /\ file'[z] = file[z]
      BY <1>5, <2>3
    <3>2. Kept(z) = Shown(z)'
      BY <1>2, <1>3, <2>3, <3>1 DEF Kept, SidecarAt, MarkerAt, Shown, y
    <3> QED BY <1>3, <2>1, <3>1, <3>2
  <2> QED BY <2>2, <2>3
<1>12. Somewhere'
  <2> SUFFICES ASSUME NEW e \in Edit, typed'[e] # None, typed'[e] \notin cut'
      PROVE  \E z \in Place : owner'[z] = typed'[e]
    BY DEF Somewhere
  <2>1. PICK z \in Place : owner[z] = typed[e]
    BY <1>3 DEF Somewhere
  <2>2. owner'[IF z = y THEN x ELSE z] = typed'[e]
    BY <1>2, <1>3, <1>4, <1>5, <2>1
  <2> QED BY <1>2, <2>2
<1>13. Listed'
  <2>1. \A i \in Id : owner'[i] # None => i # y /\ owner'[i] = owner[i]
    BY <1>2, <1>5 DEF Place
  <2> QED BY <1>3, <2>1 DEF Listed, y
<1> QED BY <1>7, <1>8, <1>9, <1>10, <1>11, <1>12, <1>13

(* An edit that is in a text of no note was typed into one that is cut. *)
LEMMA OfNone == ASSUME NEW t, NEW n, Of(None, t) PROVE Of(n, t) /\ \A e \in t.edits : typed[e] \in cut
  BY DEF Of

(* The facts about a step that moves the marker or the sidecar. *)
LEMMA Relocating ==
  ASSUME OneAtATime, TypeInv, TwinInv, KeepInv, NEW h \in Handler,
         op[h].pc \in {"marker", "sidecar"}
  PROVE  /\ Current = op[h] /\ Current.from \in Place /\ Current.to \in Place
         /\ Current.from # Current.to /\ Current.note # None
         /\ owner[Current.to] = Current.note /\ owner[Current.from] = None
         /\ \A p \in Path : p \in {Current.from, Current.to} => room[p] = None
         /\ file[Current.to] # None
<1>1. /\ Current = op[h] /\ Current.from \in Place /\ Current.to \in Place /\ Current.note # None
  BY Going
<1>2. owner[Current.to] = Current.note /\ owner[Current.from] = None
      /\ (Current.to \in Path => room[Current.to] = None)
  BY <1>1 DEF KeepInv, Carries, Moving
<1>3. Current.from \in Path => room[Current.from] = None
  BY <1>2, NoRoom
<1> QED BY <1>1, <1>2, <1>3 DEF TypeInv, TypeOK

LEMMA KeepMoveMarker ==
  ASSUME OneAtATime, TypeInv, TwinInv, KeepInv, NEW h \in Handler, MoveMarker(h)
  PROVE  KeepInv'
<1> USE DEF KeepInv
<1> DEFINE x == Current.from
           y == Current.to
<1>1. op[h].pc = "marker"
  BY DEF MoveMarker, At
<1>2. /\ Current = op[h] /\ x \in Place /\ y \in Place /\ x # y /\ Current.note # None
      /\ owner[y] = Current.note /\ owner[x] = None /\ file[y] # None
      /\ \A p \in Path : p \in {x, y} => room[p] = None
  BY <1>1, Relocating
<1>3. Current.pc = "marker"
  BY <1>1, <1>2
<1>4. /\ UNCHANGED <<file, sidecar, entry, room, owner, typed, cut, outdated>> /\ Go(h, "sidecar")
      /\ marker' = IF marker[x] = None THEN marker ELSE Moved(marker, x, y)
  BY <1>2 DEF MoveMarker, trash, past
<1>5. /\ Current'.from = x /\ Current'.to = y /\ Current'.note = Current.note
      /\ Current'.plan = Current.plan /\ Current'.kind = Current.kind /\ Current'.pc = "sidecar"
  BY <1>4, Gone
<1>6. /\ \A z \in Place : z # x /\ z # y => marker'[z] = marker[z]
      /\ marker'[x] = None
      /\ marker'[y] = IF marker[x] = None THEN marker[y] ELSE marker[x]
  BY <1>2, <1>4 DEF Moved, TypeInv, TypeOK
<1> HIDE DEF x, y
<1>7. /\ \A z \in Place : MarkerOf(z)' = owner[z] /\ SidecarOf(z)' = SidecarOf(z)
      /\ \A z \in Place : z # x /\ z # y => MarkerOf(z) = owner[z]
      /\ MarkerOf(x) = Current.note /\ MarkerOf(y) = None
  BY <1>2, <1>3, <1>4, <1>5 DEF MarkerOf, SidecarOf, Between, Moving, x, y
<1>o. \A n, t : Of(n, t)' = Of(n, t)
  BY <1>4 DEF Of
<1>l. \A e : Lost(e)' = Lost(e)
  BY <1>4 DEF Lost
<1>c. marker[y] # None => \A n : Of(n, marker[y]) /\ \A e \in marker[y].edits : typed[e] \in cut
  BY <1>2, <1>7, OfNone DEF Belongs
<1>8. Belongs'
  <2> SUFFICES ASSUME NEW z \in Place
      PROVE  /\ file'[z] # None => Of(owner'[z], file'[z])
             /\ marker'[z] # None => Of(owner[z], marker'[z])
             /\ sidecar'[z] # None => Of(SidecarOf(z), sidecar'[z])
    BY <1>7, <1>o DEF Belongs
  <2>1. marker'[z] # None => Of(owner[z], marker'[z])
    BY <1>2, <1>6, <1>7, <1>c DEF Belongs
  <2> QED BY <1>4, <2>1 DEF Belongs
<1>9. Covered'
  <2> SUFFICES ASSUME NEW z \in Place, marker'[z] # None, NEW e \in marker'[z].edits
      PROVE  typed[e] \in cut \/ (sidecar[MarkedAt(z)'] # None /\ e \in sidecar[MarkedAt(z)'].edits)
    BY <1>4 DEF Covered
  <2>1. \A k \in Place : MarkedAt(k) = k
    BY <1>3 DEF MarkedAt
  <2>2. CASE z = y
    <3>1. MarkedAt(z)' = x
      BY <1>5, <2>2 DEF MarkedAt
    <3> QED BY <1>2, <1>6, <1>c, <2>1, <2>2, <3>1 DEF Covered
  <2>3. CASE z # y
    <3>1. MarkedAt(z)' = z
      BY <1>5, <2>3 DEF MarkedAt
    <3> QED BY <1>6, <2>1, <2>3, <3>1 DEF Covered
  <2> QED BY <2>2, <2>3
<1>10. Rooms'
  <2>1. \A p \in Path : room[p] # None => marker'[p] = marker[p]
    BY <1>2, <1>6 DEF Place
  <2> QED BY <1>4, <1>l, <2>1 DEF Rooms
<1>11. Carries'
  BY <1>2, <1>4, <1>5 DEF Carries, Moving
<1>12. Plans'
  <2>1. \A z : Owning(z)' = Owning(z)
    BY <1>3, <1>4, <1>5 DEF Owning
  <2> QED BY <1>3, <1>4, <1>5, <1>o, <1>l, <2>1 DEF Plans
<1>13. Survives'
  <2> SUFFICES ASSUME NEW z \in Place, NEW e \in Edit, owner[z] # None, typed[e] = owner[z]
      PROVE  Lost(e) \/ e \in Kept(z)'.edits
    BY <1>4, <1>l DEF Survives
  <2>1. Lost(e) \/ e \in Kept(z).edits
    BY DEF Survives
  <2>2. CASE z = y
    <3>1. Kept(z) = IF sidecar[x] # None /\ marker[x] = file[y] THEN sidecar[x] ELSE file[y]
      BY <1>2, <1>3, <2>2 DEF Kept, SidecarAt, MarkerAt, Moving, x, y
    <3>2. Kept(z)' = IF sidecar[x] # None /\ marker'[y] = file[y] THEN sidecar[x] ELSE file[y]
      BY <1>2, <1>4, <1>5, <2>2 DEF Kept, SidecarAt, MarkerAt, Moving
    <3>3. CASE marker[x] # None
      BY <1>6, <2>1, <3>1, <3>2, <3>3
    <3>4. CASE marker[x] = None
      BY <1>2, <1>6, <1>c, <2>1, <3>1, <3>2, <3>4 DEF Lost
    <3> QED BY <3>3, <3>4
  <2>3. CASE z # y
    <3>1. z # x
      BY <1>2
    <3>2. Kept(z)' = Kept(z)
      BY <1>3, <1>4, <1>5, <1>6, <2>3, <3>1 DEF Kept, SidecarAt, MarkerAt, y
    <3> QED BY <2>1, <3>2
  <2> QED BY <2>2, <2>3
<1>14. Somewhere' /\ Listed'
  BY <1>3, <1>4, <1>5 DEF Somewhere, Listed
<1> QED BY <1>8, <1>9, <1>10, <1>11, <1>12, <1>13, <1>14

LEMMA KeepMoveSidecar ==
  ASSUME OneAtATime, TypeInv, TwinInv, KeepInv, NEW h \in Handler, MoveSidecar(h)
  PROVE  KeepInv'
<1> USE DEF KeepInv
<1> DEFINE x == Current.from
           y == Current.to
<1>1. op[h].pc = "sidecar"
  BY DEF MoveSidecar, At
<1>2. /\ Current = op[h] /\ x \in Place /\ y \in Place /\ x # y /\ Current.note # None
      /\ owner[y] = Current.note /\ owner[x] = None /\ file[y] # None
      /\ \A p \in Path : p \in {x, y} => room[p] = None
  BY <1>1, Relocating
<1>3. Current.pc = "sidecar" /\ Current.kind \in {"delete", "restore", "rename"}
  BY <1>1, <1>2, CurrentTyped DEF RequestShape, Request
<1>4. /\ UNCHANGED <<file, marker, entry, room, owner, typed, cut, outdated>>
      /\ Go(h, After(Current.kind))
      /\ sidecar' = IF sidecar[x] = None THEN sidecar ELSE Moved(sidecar, x, y)
  BY <1>2 DEF MoveSidecar, trash, past
<1>5. /\ Current'.from = x /\ Current'.to = y /\ Current'.note = Current.note
      /\ Current'.plan = Current.plan /\ Current'.kind = Current.kind
      /\ Current'.pc = After(Current.kind)
  BY <1>4, Gone
<1>p. Current'.pc \in {"done", "forget", "write"} /\ Current'.pc \notin Moving
      /\ Current'.pc \notin {"flush", "plan", "close", "move"}
  BY <1>3, <1>5 DEF After, Moving
<1>6. /\ \A z \in Place : z # x /\ z # y => sidecar'[z] = sidecar[z]
      /\ sidecar'[x] = None
      /\ sidecar'[y] = IF sidecar[x] = None THEN sidecar[y] ELSE sidecar[x]
  BY <1>2, <1>4 DEF Moved, TypeInv, TypeOK
<1> HIDE DEF x, y
<1>7. /\ \A z \in Place : MarkerOf(z)' = owner[z] /\ SidecarOf(z)' = owner[z] /\ MarkedAt(z)' = z
      /\ \A z \in Place : z # x /\ z # y => SidecarOf(z) = owner[z]
      /\ \A z \in Place : MarkerOf(z) = owner[z]
      /\ SidecarOf(x) = Current.note /\ SidecarOf(y) = None
  BY <1>2, <1>3, <1>4, <1>p, StillNext DEF MarkerOf, SidecarOf, Between, Moving, x, y
<1>o. \A n, t : Of(n, t)' = Of(n, t)
  BY <1>4 DEF Of
<1>l. \A e : Lost(e)' = Lost(e)
  BY <1>4 DEF Lost
<1>c. sidecar[y] # None => \A n : Of(n, sidecar[y])
  BY <1>2, <1>7, OfNone DEF Belongs
<1>8. Belongs'
  <2> SUFFICES ASSUME NEW z \in Place
      PROVE  /\ file'[z] # None => Of(owner'[z], file'[z])
             /\ marker'[z] # None => Of(owner[z], marker'[z])
             /\ sidecar'[z] # None => Of(owner[z], sidecar'[z])
    BY <1>7, <1>o DEF Belongs
  <2>1. sidecar'[z] # None => Of(owner[z], sidecar'[z])
    BY <1>2, <1>6, <1>7, <1>c DEF Belongs
  <2> QED BY <1>4, <1>7, <2>1 DEF Belongs
<1>9. Covered'
  <2> SUFFICES ASSUME NEW z \in Place, marker[z] # None, NEW e \in marker[z].edits
      PROVE  typed[e] \in cut \/ (sidecar'[z] # None /\ e \in sidecar'[z].edits)
    BY <1>4, <1>7 DEF Covered
  <2>1. typed[e] \in cut \/ (sidecar[MarkedAt(z)] # None /\ e \in sidecar[MarkedAt(z)].edits)
    BY DEF Covered
  <2>2. CASE z = y
    <3>1. MarkedAt(z) = x
      BY <1>3, <2>2 DEF MarkedAt, x, y
    <3> QED BY <1>6, <2>1, <2>2, <3>1
  <2>3. CASE z = x
    <3>1. Of(None, marker[x])
      BY <1>2, <1>7, <2>3 DEF Belongs
    <3> QED BY <2>3, <3>1, OfNone
  <2>4. CASE z # x /\ z # y
    <3>1. MarkedAt(z) = z
      BY <2>4 DEF MarkedAt, y
    <3> QED BY <1>6, <2>1, <2>4, <3>1
  <2> QED BY <2>2, <2>3, <2>4
<1>10. Rooms'
  <2>1. \A p \in Path : room[p] # None => sidecar'[p] = sidecar[p]
    BY <1>2, <1>6 DEF Place
  <2> QED BY <1>4, <1>l, <2>1 DEF Rooms
<1>11. Carries'
  BY <1>2, <1>4, <1>5, <1>p DEF Carries
<1>12. Plans'
  <2>1. \A z : Owning(z)' = Owning(z)
    BY <1>3, <1>4, <1>p DEF Owning
  <2> QED BY <1>3, <1>4, <1>5, <1>p, <1>o, <1>l, <2>1 DEF Plans
<1>13. Survives'
  <2> SUFFICES ASSUME NEW z \in Place, NEW e \in Edit, owner[z] # None, typed[e] = owner[z]
      PROVE  Lost(e) \/ e \in Shown(z)'.edits
    BY <1>4, <1>l, <1>p, StillNext DEF Survives
  <2>1. Lost(e) \/ e \in Kept(z).edits
    BY DEF Survives
  <2>2. CASE z = y
    <3>1. Kept(z) = IF sidecar[x] # None /\ marker[y] = file[y] THEN sidecar[x] ELSE file[y]
      BY <1>2, <1>3, <2>2 DEF Kept, SidecarAt, MarkerAt, Moving, x, y
    <3>2. Shown(z)' = IF sidecar'[y] # None /\ marker[y] = file[y] THEN sidecar'[y] ELSE file[y]
      BY <1>2, <1>4, <2>2 DEF Shown
    <3>3. CASE sidecar[x] # None
      BY <1>6, <2>1, <3>1, <3>2, <3>3
    <3>4. CASE sidecar[x] = None
      <4>1. MarkedAt(y) = x
        BY <1>3 DEF MarkedAt, x, y
      <4>2. marker[y] = file[y] => \A f \in file[y].edits : typed[f] \in cut
        BY <1>2, <3>4, <4>1 DEF Covered
      <4> QED BY <1>6, <2>1, <3>1, <3>2, <3>4, <4>2 DEF Lost
    <3> QED BY <3>3, <3>4
  <2>3. CASE z # y
    <3>1. z # x
      BY <1>2
    <3>2. Shown(z)' = Kept(z)
      BY <1>3, <1>4, <1>6, <2>3, <3>1 DEF Kept, SidecarAt, MarkerAt, Shown, y
    <3> QED BY <2>1, <3>2
  <2> QED BY <2>2, <2>3
<1>14. Somewhere' /\ Listed'
  BY <1>3, <1>4, <1>5 DEF Somewhere, Listed
<1> QED BY <1>8, <1>9, <1>10, <1>11, <1>12, <1>13, <1>14

LEMMA KeepForget ==
  ASSUME OneAtATime, TypeInv, TwinInv, KeepInv, NEW h \in Handler, RemoveMetadata(h)
  PROVE  KeepInv'
<1> USE DEF KeepInv
<1>1. op[h].pc = "forget"
  BY DEF RemoveMetadata, At
<1>2. /\ Current = op[h] /\ Current.pc = "forget" /\ Current.kind = "restore" /\ Current.from \in Id
      /\ owner[Current.from] = None
  BY <1>1, Going DEF RequestShape, Request, Carries
<1>3. /\ UNCHANGED <<file, sidecar, marker, room, owner, typed, cut, outdated>>
      /\ entry' = [entry EXCEPT ![Current.from] = None] /\ Go(h, "done")
  BY <1>2 DEF RemoveMetadata, Forgotten, disk, past
<1>4. /\ Current'.pc = "done" /\ Current'.plan = Current.plan /\ Current'.kind = Current.kind
  BY <1>3, Gone
<1>5. Current.pc \notin Moving /\ Current'.pc \notin Moving
  BY <1>2, <1>4 DEF Moving
<1>6. \A z : /\ MarkerOf(z)' = MarkerOf(z) /\ SidecarOf(z)' = SidecarOf(z)
             /\ MarkedAt(z)' = MarkedAt(z) /\ Kept(z)' = Kept(z)
  BY <1>3, <1>5, Still, StillNext DEF Shown
<1>7. Belongs' /\ Covered'
  BY <1>3, <1>6 DEF Belongs, Covered, Of
<1>8. Rooms' /\ Somewhere' /\ Survives'
  BY <1>3, <1>6 DEF Rooms, Lost, Somewhere, Survives
<1>9. Carries' /\ Plans'
  BY <1>2, <1>4, <1>5 DEF Carries, Plans
<1>10. Listed'
  BY <1>2, <1>3 DEF Listed, TypeInv, TypeOK
<1> QED BY <1>7, <1>8, <1>9, <1>10

(* A text that is written is of the note, and what it lacks of what was shown is noted. *)
LEMMA KeepWrite ==
  ASSUME OneAtATime, TypeInv, TwinInv, KeepInv, NEW h \in Handler, Write(h)
  PROVE  KeepInv'
<1> USE DEF KeepInv
<1>1. op[h].pc = "write"
  BY DEF Write, At
<1>2. /\ Current = op[h] /\ Current.pc = "write" /\ Current \in Request /\ Ways(Current)
  BY <1>1, Going
<1>3. PICK c \in Current.plan :
        /\ file' = [file EXCEPT ![c.at] = c.text]
        /\ op' = [op EXCEPT ![h].plan = @ \ {c}]
        /\ owner' = IF owner[c.at] = None THEN [owner EXCEPT ![c.at] = op[h].note] ELSE owner
        /\ outdated' = outdated \cup (IF file[c.at] = None \/ room[c.at] # None THEN {}
                                      ELSE Shown(c.at).edits \ c.text.edits)
  BY <1>2 DEF Write
<1> DEFINE a == c.at
<1>4. a \in Path /\ a \in Place /\ owner[a] # None /\ c.text # None /\ file[a] # None
  BY <1>2, NoneAssumption DEF Request, Planned, Place, Ways, TypeInv, TypeOK
<1>5. /\ UNCHANGED <<sidecar, marker, entry, room, typed, cut, owner>>
  BY <1>3, <1>4 DEF Write, trash
<1>6. /\ Current'.pc = "write" /\ Current'.plan = Current.plan \ {c} /\ Current'.kind = Current.kind
      /\ Current'.to = Current.to /\ Current'.note = Current.note
  BY <1>2, <1>3, CurrentIs DEF TypeInv, TypeOK, Request
<1>7. Current.pc \notin Moving /\ Current'.pc \notin Moving
  BY <1>2, <1>6 DEF Moving
<1>8. file'[a] = c.text /\ \A z \in Place : z # a => file'[z] = file[z]
  BY <1>3, <1>4 DEF TypeInv, TypeOK
<1>o. \A n, t : Of(n, t)' = Of(n, t)
  BY <1>5 DEF Of
<1>l. /\ \A e : Lost(e) => Lost(e)'
      /\ room[a] = None => \A e \in Shown(a).edits : e \in c.text.edits \/ Lost(e)'
  BY <1>3, <1>4, <1>5 DEF Lost
<1>m. \A z : /\ MarkerOf(z)' = owner[z] /\ SidecarOf(z)' = owner[z] /\ MarkedAt(z)' = z
             /\ MarkerOf(z) = owner[z] /\ SidecarOf(z) = owner[z] /\ MarkedAt(z) = z
  BY <1>5, <1>7, Still, StillNext
<1>9. Belongs'
  <2>1. Of(owner[a], c.text)
    BY <1>2 DEF Plans, Owning
  <2> QED BY <1>5, <1>8, <1>o, <1>m, <2>1 DEF Belongs
<1>10. Covered'
  BY <1>5, <1>m DEF Covered
<1>11. Rooms'
  <2> SUFFICES ASSUME NEW p \in Path, room[p] # None
      PROVE  /\ sidecar[p] = room[p].doc /\ marker[p] = room[p].hash
             /\ ~room[p].due => room[p].doc = room[p].hash
             /\ file'[p] = room[p].hash \/ \A e \in room[p].doc.edits : Lost(e)' \/ e \in file'[p].edits
    BY <1>5 DEF Rooms
  <2>1. CASE p = a
    BY <1>8, <1>l, <2>1 DEF Rooms, Plans
  <2>2. CASE p # a
    BY <1>8, <1>l, <2>2 DEF Rooms, Place
  <2> QED BY <2>1, <2>2
<1>12. Carries'
  BY <1>2, <1>5, <1>6, <1>7 DEF Carries
<1>13. Plans'
  <2>1. \A z : Owning(z)' = owner[z] /\ Owning(z) = owner[z]
    BY <1>2, <1>5, <1>6 DEF Owning
  <2>2. Current.kind # "rename" => Current.plan = {}
    BY DEF Plans
  <2> QED BY <1>5, <1>6, <1>o, <1>l, <2>1, <2>2 DEF Plans
<1>14. Survives'
  <2> SUFFICES ASSUME NEW z \in Place, NEW e \in Edit, owner[z] # None, typed[e] = owner[z]
      PROVE  Lost(e)' \/ e \in Shown(z)'.edits
    BY <1>5, <1>7, StillNext DEF Survives
  <2>1. Lost(e)' \/ e \in Shown(z).edits
    BY <1>7, <1>l, Still DEF Survives
  <2>2. CASE z = a /\ room[a] # None
    BY <1>4, <1>5, <2>1, <2>2 DEF Shown
  <2>3. CASE z = a /\ room[a] = None
    <3>1. Lost(e)' \/ e \in c.text.edits
      BY <1>l, <2>1, <2>3
    <3>2. Shown(a)' = IF sidecar[a] # None /\ marker[a] = c.text THEN sidecar[a] ELSE c.text
      BY <1>5, <1>8, <2>3 DEF Shown
    <3>3. marker[a] = c.text /\ e \in c.text.edits => Lost(e)' \/ e \in sidecar[a].edits
      BY <1>4, <1>5, <1>m DEF Covered, Lost
    <3> QED BY <2>3, <3>1, <3>2, <3>3
  <2>4. CASE z # a
    BY <1>5, <1>8, <2>1, <2>4 DEF Shown
  <2> QED BY <2>2, <2>3, <2>4
<1>15. Somewhere' /\ Listed'
  BY <1>2, <1>5, <1>6 DEF Somewhere, Listed
<1> QED BY <1>9, <1>10, <1>11, <1>12, <1>13, <1>14, <1>15

(* A plan is made of files that hold all that was typed. *)
LEMMA KeepPlan ==
  ASSUME OneAtATime, TypeInv, TwinInv, LinkInv, KeepInv, NEW h \in Handler, Plan(h)
  PROVE  KeepInv'
<1> USE DEF KeepInv
<1> DEFINE x == Current.from
           y == Current.to
<1>1. op[h].pc = "plan" /\ op[h].from \in Live
  BY DEF Plan, At
<1>2. /\ Current = op[h] /\ Current.pc = "plan" /\ Current \in Request /\ Ways(Current)
      /\ x \in Place /\ y \in Place /\ x \in Live /\ Current.kind = "rename" /\ y \in Path
      /\ x \in Path /\ LinkWays(Current)
  BY <1>1, Going DEF RequestShape, Request, LinkInv
<1>3. UNCHANGED <<file, sidecar, marker, entry, room, owner, typed, cut, outdated>>
  BY DEF Plan, disk, trash, past
<1>4. /\ Current'.pc = "close" /\ Current'.plan = PlanOf(x, y)
      /\ Current'.to = y /\ Current'.from = x /\ Current'.note = Current.note
      /\ Current'.kind = "rename"
  <2>1. Current' = op'[h]
    BY CurrentIs
  <2>2. op'[h].plan = PlanOf(op[h].from, op[h].to)
    BY PlannedTexts
  <2>3. \E m, plan : op'[h] = [op[h] EXCEPT !.pc = "close", !.meant = m, !.plan = plan]
    BY DEF Plan, TypeInv, TypeOK
  <2>4. /\ op'[h].pc = "close" /\ op'[h].to = op[h].to /\ op'[h].from = op[h].from
        /\ op'[h].note = op[h].note /\ op'[h].kind = op[h].kind
    BY <1>2, <2>3 DEF Request
  <2> QED BY <1>2, <2>1, <2>2, <2>4
<1>5. owner[y] = None /\ owner[x] = Current.note /\ room[y] = None
  BY <1>2, NoRoom DEF Ways, Carries
<1>6. Carries'
  BY <1>3, <1>4, <1>5 DEF Carries, Moving
<1>7. \A l \in Live : /\ l \in Path /\ l \in Place /\ file[l] # None /\ l # y
                      /\ Of(owner[l], file[l])
                      /\ room[l] # None =>
                           \A e \in room[l].doc.edits : Lost(e) \/ e \in file[l].edits
  <2>1. \A l \in Live : l \in Path /\ l \in Place /\ file[l] # None
    BY DEF Live, Place
  <2>2. y \notin Live
    BY <1>2, <1>5 DEF Live, TypeInv, TypeOK
  <2>3. Paid
    BY <1>2 DEF LinkWays
  <2> QED BY <2>1, <2>2, <2>3 DEF Belongs, Rooms, Paid
<1>8. ASSUME NEW l \in Live, NEW t, t.edits = file[l].edits
      PROVE  /\ Of(owner[l], t)
             /\ room[l] # None => \A e \in room[l].doc.edits : Lost(e) \/ e \in t.edits
  BY <1>7, <1>8 DEF Of
<1>9. \A c \in PlanOf(x, y) :
        \/ c.at \in Live /\ c.text.edits = file[c.at].edits
        \/ c.at = y /\ c.text.edits = file[x].edits
  <2>1. \A l \in Live : /\ Repointed(file[l], x, y).edits = file[l].edits
                        /\ [Repointed(file[l], x, y) EXCEPT !.title = y].edits = file[l].edits
    <3>1. \A l \in Live : file[l] \in Text
      BY <1>7, FileText DEF TypeInv
    <3> QED BY <3>1 DEF Repointed, Text
  <2> HIDE DEF x, y
  <2> DEFINE own == [Repointed(file[x], x, y) EXCEPT !.title = y]
             at(l) == [at |-> l, text |-> Repointed(file[l], x, y)]
  <2>2. own.edits = file[x].edits
    BY <1>2, <2>1 DEF x
  <2> SUFFICES ASSUME NEW c \in PlanOf(x, y)
      PROVE  \/ c.at \in Live /\ c.text.edits = file[c.at].edits
             \/ c.at = y /\ c.text.edits = file[x].edits
    OBVIOUS
  <2>3. (\E l \in Live : c = at(l)) \/ c = [at |-> y, text |-> own]
    BY DEF PlanOf
  <2>4. \A l \in Live : at(l).at = l /\ at(l).text.edits = file[l].edits
    BY <2>1
  <2> HIDE DEF at, own
  <2> QED BY <2>2, <2>3, <2>4
<1> HIDE DEF x, y
<1>10. Plans'
  <2> SUFFICES ASSUME NEW c \in PlanOf(x, y)
      PROVE  /\ Of(Owning(c.at)', c.text)
             /\ room[c.at] # None => \A e \in room[c.at].doc.edits : Lost(e) \/ e \in c.text.edits
    <3>1. \A n, t : Of(n, t)' = Of(n, t)
      BY <1>3 DEF Of
    <3>2. \A e : Lost(e)' = Lost(e)
      BY <1>3 DEF Lost
    <3> QED BY <1>3, <1>4, <3>1, <3>2 DEF Plans
  <2>1. CASE c.at \in Live /\ c.text.edits = file[c.at].edits
    <3>1. Owning(c.at)' = owner[c.at]
      BY <1>3, <1>4, <1>7, <2>1 DEF Owning
    <3> QED BY <1>8, <2>1, <3>1
  <2>2. CASE c.at = y /\ c.text.edits = file[x].edits
    <3>1. Owning(c.at)' = owner[x]
      BY <1>4, <1>5, <2>2 DEF Owning
    <3>2. x \in Live
      BY <1>2 DEF x
    <3> QED BY <1>5, <1>8, <2>2, <3>1, <3>2
  <2> QED BY <1>9, <2>1, <2>2
<1> QED BY <1>2, <1>3, <1>4, <1>6, <1>10, KeepSame DEF Moving

LEMMA KeepFlush ==
  ASSUME OneAtATime, TypeInv, TwinInv, KeepInv, NEW h \in Handler, FlushOpen(h) \/ Close(h)
  PROVE  KeepInv'
<1>1. op[h].pc \in {"flush", "close"}
  BY DEF FlushOpen, Close, At
<1>2. /\ Current = op[h] /\ Current.pc \in {"flush", "close"} /\ RequestShape(Current) /\ Ways(Current)
      /\ Current.from \in Path /\ (Current.pc = "flush" => Current.kind = "rename")
      /\ Current \in Request
  BY <1>1, Going DEF RequestShape, Request
<1>3. \/ /\ FlushOpen(h) /\ Current.pc = "flush" /\ Go(h, "plan")
         /\ WriteBack(Path) /\ room' = Clean(Path) /\ UNCHANGED <<entry, typed, cut, outdated>>
      \/ /\ Close(h) /\ Current.pc = "close" /\ Go(h, "move") /\ WriteBack({Current.from})
         /\ room' = [room EXCEPT ![Current.from] = None]
         /\ UNCHANGED <<entry, typed, cut, outdated>>
  BY <1>2 DEF FlushOpen, Close, At, trash, past
<1>4. /\ Current'.from = Current.from /\ Current'.to = Current.to /\ Current'.note = Current.note
      /\ Current'.plan = Current.plan /\ Current'.kind = Current.kind
      /\ Current'.pc = (IF Current.pc = "flush" THEN "plan" ELSE "move")
  BY <1>3, Gone
<1>5. Current.pc \notin Moving /\ Current'.pc \notin Moving
  BY <1>2, <1>4 DEF Moving
<1>6. owner' = owner
  BY <1>2, <1>3, WriteBackOwner DEF TypeInv, TwinInv
<1>7. Carries'
  BY <1>2, <1>4, <1>5, <1>6 DEF KeepInv, Carries
<1>8. Plans'
  <2>1. CASE Current.plan = {}
    BY <1>4, <2>1 DEF Plans
  <2>2. CASE Current.plan # {}
    <3>1. Current.kind = "rename" /\ Current.pc = "close"
      BY <1>2, <2>2 DEF KeepInv, Plans
    <3>2. \A z : Owning(z)' = Owning(z)
      BY <1>4, <1>6, <3>1 DEF Owning
    <3>3. (\A n, t : Of(n, t)' = Of(n, t)) /\ \A e : Lost(e)' = Lost(e)
      BY <1>3 DEF Of, Lost
    <3>4. \A c \in Current.plan : room'[c.at] # None => room'[c.at] = room[c.at]
      BY <1>2, <1>3, <3>1 DEF Request, Planned, TypeInv, TypeOK
    <3> QED BY <1>4, <3>1, <3>2, <3>3, <3>4 DEF KeepInv, Plans
  <2> QED BY <2>1, <2>2
<1>9. CASE WriteBack(Path) /\ room' = Clean(Path)
  BY <1>3, <1>5, <1>7, <1>8, <1>9, KeepWriteBack
<1>10. CASE WriteBack({Current.from}) /\ room' = [room EXCEPT ![Current.from] = None]
  <2>1. {Current.from} \in SUBSET Path
    BY <1>2
  <2> QED BY <1>2, <1>3, <1>5, <1>7, <1>8, <1>10, <2>1, KeepWriteBack
<1> QED BY <1>3, <1>9, <1>10

(* A request ends where it is, and what it leaves behind of its note is cut. *)
LEMMA KeepStopped ==
  ASSUME OneAtATime, TypeInv, TwinInv, KeepInv, Current' = Rest,
         UNCHANGED <<file, sidecar, marker, entry, owner, typed, outdated>>,
         cut \subseteq cut', Current.pc \in Moving => Current.note \in cut',
         room' = room \/ \A p \in Path : room'[p] = None
  PROVE  KeepInv'
<1> USE DEF KeepInv
<1>1. \A n, t : Of(n, t) => Of(n, t)' /\ (n \in cut' => \A m : Of(m, t)')
  BY DEF Of
<1>2. \A e : Lost(e) => Lost(e)'
  BY DEF Lost
<1>3. \A z : MarkerOf(z)' = owner[z] /\ SidecarOf(z)' = owner[z] /\ MarkedAt(z)' = z /\ Kept(z)' = Shown(z)'
  BY RestStill, StillNext
<1>m. Current.pc \in Moving =>
        /\ Current.to \in Place /\ owner[Current.to] = Current.note
        /\ Current.to \in Path => room[Current.to] = None
  <2>1. Current.pc \in Moving => Current.to \in Place
    BY CurrentTyped DEF Moving, RequestShape, Request, Place
  <2> QED BY <2>1 DEF Carries
<1>4. Belongs'
  <2> SUFFICES ASSUME NEW z \in Place
      PROVE  /\ file[z] # None => Of(owner[z], file[z])'
             /\ marker[z] # None => Of(owner[z], marker[z])'
             /\ sidecar[z] # None => Of(owner[z], sidecar[z])'
    BY <1>3 DEF Belongs
  <2>0. \A t : Of(None, t) => Of(owner[z], t)'
    BY <1>1, OfNone
  <2>f. file[z] # None => Of(owner[z], file[z])'
    BY <1>1 DEF Belongs
  <2>1. CASE Current.pc \notin Moving
    <3>1. MarkerOf(z) = owner[z] /\ SidecarOf(z) = owner[z]
      BY <2>1, Still
    <3> QED BY <1>1, <2>f, <3>1 DEF Belongs
  <2>2. CASE Current.pc \in Moving
    <3>1. MarkerOf(z) = owner[z] \/ MarkerOf(z) \in cut' \cup {None}
      BY <2>2 DEF MarkerOf, Between
    <3>2. SidecarOf(z) = owner[z] \/ SidecarOf(z) \in cut' \cup {None}
      BY <2>2 DEF SidecarOf, Between
    <3>3. marker[z] # None => Of(owner[z], marker[z])'
      BY <1>1, <2>0, <3>1 DEF Belongs
    <3>4. sidecar[z] # None => Of(owner[z], sidecar[z])'
      BY <1>1, <2>0, <3>2 DEF Belongs
    <3> QED BY <2>f, <3>3, <3>4
  <2> QED BY <2>1, <2>2
<1>5. Covered'
  <2> SUFFICES ASSUME NEW z \in Place, marker[z] # None, NEW e \in marker[z].edits
      PROVE  typed[e] \in cut' \/ (sidecar[z] # None /\ e \in sidecar[z].edits)
    BY <1>3 DEF Covered
  <2>1. CASE MarkedAt(z) = z
    BY <2>1 DEF Covered
  <2>2. CASE MarkedAt(z) # z
    <3>1. Current.pc = "sidecar" /\ z = Current.to /\ Current.pc \in Moving
      BY <2>2 DEF MarkedAt, Moving
    <3>2. Of(Current.note, marker[z])
      BY <1>m, <3>1 DEF Belongs, MarkerOf
    <3> QED BY <3>1, <3>2 DEF Of
  <2> QED BY <2>1, <2>2
<1>6. Rooms'
  BY <1>2 DEF Rooms
<1>7. Carries' /\ Plans'
  BY RestStill DEF Carries, Plans, Moving
<1>8. Survives'
  <2> SUFFICES ASSUME NEW z \in Place, NEW e \in Edit, owner[z] # None, typed[e] = owner[z]
      PROVE  Lost(e)' \/ e \in Shown(z)'.edits
    BY <1>3 DEF Survives
  <2>1. Lost(e)' \/ e \in Kept(z).edits
    BY <1>2 DEF Survives
  <2>2. CASE Current.pc \in Moving /\ z = Current.to
    BY <1>m, <2>2 DEF Lost
  <2>3. CASE Current.pc \notin Moving \/ z # Current.to
    <3>1. Kept(z) = Shown(z)
      BY <2>3 DEF Kept, SidecarAt, MarkerAt, Moving, Shown
    <3>2. CASE z \in Path /\ room[z] # None /\ room'[z] = None
      <4>1. /\ sidecar[z] = room[z].doc /\ marker[z] = room[z].hash /\ sidecar[z] # None
            /\ file[z] = room[z].hash \/ \A f \in room[z].doc.edits : Lost(f) \/ f \in file[z].edits
        BY <3>2, NoneAssumption DEF Rooms, TypeInv, TypeOK, Room
      <4>2. Shown(z)' = IF marker[z] = file[z] THEN sidecar[z] ELSE file[z]
        BY <3>2, <4>1 DEF Shown
      <4>3. Shown(z) = room[z].doc
        BY <3>2 DEF Shown
      <4> QED BY <1>2, <2>1, <3>1, <4>1, <4>2, <4>3
    <3>3. CASE ~(z \in Path /\ room[z] # None /\ room'[z] = None)
      <4>1. Shown(z)' = Shown(z)
        BY <3>3 DEF Shown
      <4> QED BY <2>1, <3>1, <4>1
    <3> QED BY <3>2, <3>3
  <2> QED BY <2>2, <2>3
<1>9. Somewhere'
  BY DEF Somewhere
<1>10. Listed'
  <2> SUFFICES ASSUME NEW i \in Id, owner[i] # None, owner[i] \notin cut'
      PROVE  entry[i] # None
    BY DEF Listed
  <2>1. ~(Current.pc = "meta" /\ Current.to = i)
    BY <1>m DEF Moving
  <2> QED BY <2>1 DEF Listed
<1> QED BY <1>4, <1>5, <1>6, <1>7, <1>8, <1>9, <1>10

(* A step between requests leaves no request in flight. *)
LEMMA QuietRests ==
  ASSUME OneAtATime, Quiet, UNCHANGED op
  PROVE  Current = Rest /\ Current' = Rest
  BY DEF OneAtATime, Quiet, Current

(* Between requests: which facts an action has to keep. *)
LEMMA KeepQuiet ==
  ASSUME Current = Rest, Current' = Rest, UNCHANGED entry,
         \A x \in Place :
           /\ file'[x] # None => Of(owner[x], file[x])'
           /\ marker'[x] # None => Of(owner[x], marker[x])'
           /\ sidecar'[x] # None => Of(owner[x], sidecar[x])',
         \A x \in Place : marker'[x] # None => \A e \in marker'[x].edits :
           typed'[e] \in cut' \/ (sidecar'[x] # None /\ e \in sidecar'[x].edits),
         Rooms', Survives', Somewhere', Listed'
  PROVE  KeepInv'
<1>1. \A z : MarkerOf(z)' = owner'[z] /\ SidecarOf(z)' = owner'[z] /\ MarkedAt(z)' = z
  BY RestStill, StillNext
<1>2. Belongs' /\ Covered'
  BY <1>1 DEF Belongs, Covered
<1>3. Carries' /\ Plans'
  BY RestStill DEF Carries, Plans, Moving
<1> QED BY <1>2, <1>3 DEF KeepInv

(* What the invariant says between requests. *)
LEMMA AtQuiet ==
  ASSUME TypeInv, TwinInv, KeepInv, Current = Rest
  PROVE  /\ \A x \in Place : /\ file[x] # None => Of(owner[x], file[x]) /\ file[x] \in Text
                             /\ marker[x] # None => Of(owner[x], marker[x]) /\ marker[x] \in Text
                             /\ sidecar[x] # None => Of(owner[x], sidecar[x]) /\ sidecar[x] \in Text
         /\ \A x \in Place : marker[x] # None => \A e \in marker[x].edits :
              typed[e] \in cut \/ (sidecar[x] # None /\ e \in sidecar[x].edits)
         /\ \A x \in Place, e \in Edit : owner[x] # None /\ typed[e] = owner[x] =>
              Lost(e) \/ e \in Shown(x).edits
         /\ \A p \in Path : room[p] # None => room[p] \in Room /\ owner[p] = room[p].note
<1>1. \A z : MarkerOf(z) = owner[z] /\ SidecarOf(z) = owner[z] /\ MarkedAt(z) = z /\ Kept(z) = Shown(z)
  BY RestStill, Still
<1>2. \A x \in Place : /\ file[x] # None => Of(owner[x], file[x]) /\ file[x] \in Text
                       /\ marker[x] # None => Of(owner[x], marker[x]) /\ marker[x] \in Text
                       /\ sidecar[x] # None => Of(owner[x], sidecar[x]) /\ sidecar[x] \in Text
  BY <1>1 DEF KeepInv, Belongs, TypeInv, TypeOK
<1>3. \A x \in Place : marker[x] # None => \A e \in marker[x].edits :
        typed[e] \in cut \/ (sidecar[x] # None /\ e \in sidecar[x].edits)
  BY <1>1 DEF KeepInv, Covered
<1>4. \A x \in Place, e \in Edit : owner[x] # None /\ typed[e] = owner[x] =>
        Lost(e) \/ e \in Shown(x).edits
  BY <1>1 DEF KeepInv, Survives
<1>5. \A p \in Path : room[p] # None => room[p] \in Room /\ owner[p] = room[p].note
  BY DEF TwinInv, Homes, TypeInv, TypeOK
<1> QED BY <1>2, <1>3, <1>4, <1>5

(* What is shown of a note is its own text. *)
LEMMA ShownOwn ==
  ASSUME TypeInv, TwinInv, KeepInv, Current = Rest, NEW p \in Path, p \in Live
  PROVE  Of(owner[p], Shown(p)) /\ Shown(p) \in Text /\ Shown(p) # None
<1>1. p \in Place /\ file[p] # None
  BY DEF Place, Live
<1>2. room[p] # None => sidecar[p] = room[p].doc /\ sidecar[p] \in Text
  BY DEF KeepInv, Rooms, TypeInv, TypeOK, Room
<1> QED BY <1>1, <1>2, AtQuiet, NoneAssumption DEF Shown

LEMMA KeepOpen ==
  ASSUME OneAtATime, TypeInv, TwinInv, KeepInv, NEW p \in Path, Open(p)
  PROVE  KeepInv'
<1> DEFINE t == Shown(p)
<1>1. /\ p \in Live /\ room[p] = None /\ Current = Rest /\ Current' = Rest /\ p \in Place
      /\ UNCHANGED <<entry, owner, typed, cut, outdated>>
  BY QuietRests DEF Open, trash, past, Place
<1>2. Of(owner[p], t) /\ t # None
  BY <1>1, ShownOwn
<1>3. /\ room'[p] = [doc |-> t, hash |-> t, due |-> FALSE, note |-> owner[p]]
      /\ \A q \in Path : q # p => room'[q] = room[q]
      /\ file'[p] = t /\ marker'[p] = t /\ sidecar'[p] = t
      /\ \A x \in Place : x # p =>
           file'[x] = file[x] /\ marker'[x] = marker[x] /\ sidecar'[x] = sidecar[x]
  BY <1>1 DEF Open, TypeInv, TypeOK
<1> HIDE DEF t
<1>o. (\A n, s : Of(n, s)' = Of(n, s)) /\ \A e : Lost(e)' = Lost(e)
  BY <1>1 DEF Of, Lost
<1>4. \A x \in Place : /\ file'[x] # None => Of(owner[x], file[x])'
                       /\ marker'[x] # None => Of(owner[x], marker[x])'
                       /\ sidecar'[x] # None => Of(owner[x], sidecar[x])'
  BY <1>1, <1>2, <1>3, <1>o, AtQuiet
<1>5. \A x \in Place : marker'[x] # None => \A e \in marker'[x].edits :
        typed'[e] \in cut' \/ (sidecar'[x] # None /\ e \in sidecar'[x].edits)
  BY <1>1, <1>3, AtQuiet
<1>6. Rooms'
  BY <1>3, <1>o DEF Rooms, KeepInv, Place
<1>7. Survives'
  <2> SUFFICES ASSUME NEW x \in Place, NEW e \in Edit, owner[x] # None, typed[e] = owner[x]
      PROVE  Lost(e) \/ e \in Shown(x)'.edits
    BY <1>1, <1>o, RestStill, StillNext DEF Survives
  <2>1. Lost(e) \/ e \in Shown(x).edits
    BY <1>1, AtQuiet
  <2>2. CASE x = p
    BY <1>3, <2>1, <2>2 DEF Shown, t
  <2>3. CASE x # p
    BY <1>3, <2>1, <2>3 DEF Shown
  <2> QED BY <2>2, <2>3
<1>8. Somewhere' /\ Listed'
  BY <1>1, RestStill DEF KeepInv, Somewhere, Listed
<1> QED BY <1>1, <1>4, <1>5, <1>6, <1>7, <1>8, <1>o, KeepQuiet

LEMMA KeepAccept ==
  ASSUME OneAtATime, TypeInv, TwinInv, KeepInv, NEW p \in Path, NEW doc \in Text, NEW new \in SUBSET Edit,
         Accept(p, doc), doc.edits = room[p].doc.edits \cup new,
         \A e \in new : typed[e] = None /\ typed'[e] = owner[p],
         \A e \in Edit \ new : typed'[e] = typed[e],
         outdated \subseteq outdated', file[p] = room[p].hash \/ new \subseteq outdated'
  PROVE  KeepInv'
<1>1. /\ room[p] # None /\ Current = Rest /\ Current' = Rest /\ p \in Place
      /\ UNCHANGED <<file, marker, entry, owner, cut>>
  BY QuietRests DEF Accept, trash, Place
<1>2. room[p] \in Room /\ owner[p] = room[p].note /\ owner[p] \in Note /\ owner[p] # None
  BY <1>1, AtQuiet, NoneAssumption DEF Room
<1>3. /\ sidecar'[p] = doc /\ \A x \in Place : x # p => sidecar'[x] = sidecar[x]
      /\ room'[p] # None /\ room'[p].doc = doc /\ room'[p].hash = room[p].hash /\ room'[p].due
      /\ \A q \in Path : q # p => room'[q] = room[q]
  <2>1. room'[p] = [room[p] EXCEPT !.doc = doc, !.due = TRUE] /\ \A q \in Path : q # p => room'[q] = room[q]
    BY DEF Accept, TypeInv, TypeOK
  <2>2. /\ room'[p] \in Room /\ room'[p] # None
        /\ room'[p].doc = doc /\ room'[p].hash = room[p].hash /\ room'[p].due
    <3> DEFINE q == [room[p] EXCEPT !.doc = doc, !.due = TRUE]
    <3>1. q \in Room /\ q.doc = doc /\ q.hash = room[p].hash /\ q.due
      BY <1>2 DEF Room
    <3> HIDE DEF q
    <3>2. room'[p] = q
      BY <2>1 DEF q
    <3> QED BY <3>1, <3>2, NoneAssumption
  <2>3. sidecar'[p] = doc /\ \A x \in Place : x # p => sidecar'[x] = sidecar[x]
    BY <1>1 DEF Accept, TypeInv, TypeOK
  <2> QED BY <2>1, <2>2, <2>3
<1>4. sidecar[p] = room[p].doc /\ sidecar[p] # None /\ sidecar[p] \in Text
  BY <1>1, <1>2, NoneAssumption DEF KeepInv, Rooms, Room
(* Nobody has the new edits yet. *)
<1>5. \A n : \A t \in Text : Of(n, t) => t.edits \cap new = {} /\ Of(n, t)'
  <2>1. \A t \in Text : t.edits \subseteq Edit
    BY DEF Text
  <2> QED BY <1>1, <2>1 DEF Of
<1>6. \A e \in Edit \ new : Lost(e) => Lost(e)'
  BY <1>1 DEF Lost
<1>7. Of(owner[p], doc)'
  BY <1>1, <1>2, <1>4, <1>5, AtQuiet DEF Of
<1>8. \A x \in Place : /\ file'[x] # None => Of(owner[x], file[x])'
                       /\ marker'[x] # None => Of(owner[x], marker[x])'
                       /\ sidecar'[x] # None => Of(owner[x], sidecar[x])'
  BY <1>1, <1>3, <1>5, <1>7, AtQuiet
<1>9. \A x \in Place : marker'[x] # None => \A e \in marker'[x].edits :
        typed'[e] \in cut' \/ (sidecar'[x] # None /\ e \in sidecar'[x].edits)
  <2> SUFFICES ASSUME NEW x \in Place, marker[x] # None, NEW e \in marker[x].edits
      PROVE  typed'[e] \in cut \/ (sidecar'[x] # None /\ e \in sidecar'[x].edits)
    BY <1>1
  <2>1. typed[e] \in cut \/ (sidecar[x] # None /\ e \in sidecar[x].edits)
    BY <1>1, AtQuiet
  <2>2. e \in Edit \ new
    BY <1>1, <1>5, AtQuiet DEF Text
  <2>3. CASE x = p
    <3>1. sidecar'[x] # None
      BY <1>3, <2>3, NoneAssumption
    <3> QED BY <1>3, <1>4, <2>1, <2>2, <2>3, <3>1
  <2>4. CASE x # p
    BY <1>3, <2>1, <2>2, <2>4
  <2> QED BY <2>3, <2>4
<1>10. Rooms'
  <2> SUFFICES ASSUME NEW q \in Path, room'[q] # None
      PROVE  /\ sidecar'[q] = room'[q].doc /\ marker[q] = room'[q].hash
             /\ ~room'[q].due => room'[q].doc = room'[q].hash
             /\ file[q] = room'[q].hash \/ \A e \in room'[q].doc.edits : Lost(e)' \/ e \in file[q].edits
    BY <1>1 DEF Rooms
  <2>1. q \in Place
    BY DEF Place
  <2>2. room[q] # None => \A e \in room[q].doc.edits : e \in Edit \ new
    <3> SUFFICES ASSUME room[q] # None PROVE \A e \in room[q].doc.edits : e \in Edit \ new
      OBVIOUS
    <3>1. sidecar[q] = room[q].doc /\ room[q].doc \in Text
      BY <1>1, AtQuiet DEF KeepInv, Rooms, Room
    <3>2. sidecar[q] # None
      BY <3>1, NoneAssumption
    <3> QED BY <1>1, <1>5, <2>1, <3>1, <3>2, AtQuiet DEF Text
  <2>3. CASE q = p
    <3>1. file[p] = room[p].hash \/ \A e \in doc.edits : Lost(e)' \/ e \in file[p].edits
      <4>1. \A e \in new : file[p] = room[p].hash \/ Lost(e)'
        BY DEF Lost
      <4>2. file[p] = room[p].hash \/ \A e \in room[p].doc.edits : Lost(e) \/ e \in file[p].edits
        BY <1>1 DEF KeepInv, Rooms
      <4> QED BY <1>1, <1>6, <2>2, <2>3, <4>1, <4>2
    <3> QED BY <1>1, <1>3, <2>3, <3>1 DEF KeepInv, Rooms
  <2>4. CASE q # p
    BY <1>3, <1>6, <2>1, <2>2, <2>4 DEF KeepInv, Rooms
  <2> QED BY <2>3, <2>4
<1>11. Survives'
  <2> SUFFICES ASSUME NEW x \in Place, NEW e \in Edit, owner[x] # None, typed'[e] = owner[x]
      PROVE  Lost(e)' \/ e \in Shown(x)'.edits
    BY <1>1, RestStill, StillNext DEF Survives
  <2>1. CASE x = p
    <3>1. Shown(x)' = doc
      BY <1>1, <1>3, <2>1 DEF Shown
    <3>2. Shown(x) = room[p].doc
      BY <1>1, <2>1 DEF Shown
    <3>3. e \notin new => Lost(e)' \/ e \in Shown(x).edits
      BY <1>1, <1>6, AtQuiet
    <3> QED BY <3>1, <3>2, <3>3
  <2>2. CASE x # p
    <3>1. e \notin new
      BY <1>1, <1>2, <2>2 DEF TwinInv, NoTwins
    <3>2. Lost(e)' \/ e \in Shown(x).edits
      BY <1>1, <1>6, <3>1, AtQuiet
    <3>3. Shown(x)' = Shown(x)
      BY <1>1, <1>3, <2>2 DEF Shown
    <3> QED BY <3>2, <3>3
  <2> QED BY <2>1, <2>2
<1>12. Somewhere'
  BY <1>1 DEF KeepInv, Somewhere
<1>13. Listed'
  BY <1>1, RestStill DEF KeepInv, Listed
<1> QED BY <1>1, <1>8, <1>9, <1>10, <1>11, <1>12, <1>13, KeepQuiet

LEMMA KeepTyped ==
  ASSUME OneAtATime, TypeInv, TwinInv, KeepInv, NEW p \in Path,
         (\E e \in Edit : Type(p, e)) \/ \E q \in Target : Link(p, q)
  PROVE  KeepInv'
<1>1. room[p] # None /\ room[p] \in Room
  BY DEF Type, Link, TypeInv, TypeOK
<1>2. ASSUME NEW e \in Edit, Type(p, e) PROVE KeepInv'
  <2> DEFINE doc == [room[p].doc EXCEPT !.edits = @ \cup {e}]
  <2>1. doc \in Text /\ doc.edits = room[p].doc.edits \cup {e}
    BY <1>1 DEF Room, Text
  <2>2. room[p].note = owner[p] /\ Accept(p, doc)
    BY <1>1, <1>2 DEF Type, TwinInv, Homes
  <2>3. /\ typed[e] = None /\ typed'[e] = owner[p] /\ \A f \in Edit \ {e} : typed'[f] = typed[f]
        /\ {e} \in SUBSET Edit
    BY <1>2, <2>2 DEF Type, TypeInv, TypeOK
  <2>4. outdated \subseteq outdated' /\ (file[p] = room[p].hash \/ {e} \subseteq outdated')
    BY <1>2 DEF Type
  <2>5. \A f \in {e} : typed[f] = None /\ typed'[f] = owner[p]
    BY <2>3
  <2> HIDE DEF doc
  <2> QED BY <2>1, <2>2, <2>3, <2>4, <2>5, KeepAccept
<1>3. ASSUME NEW q \in Target, Link(p, q) PROVE KeepInv'
  <2> DEFINE doc == [room[p].doc EXCEPT !.link = q]
  <2>1. doc \in Text /\ doc.edits = room[p].doc.edits \cup {}
    BY <1>1, TargetAssumption DEF Room, Text
  <2>2. Accept(p, doc) /\ UNCHANGED <<typed, outdated>>
    BY <1>3 DEF Link
  <2>3. {} \in SUBSET Edit /\ (\A f \in {} : typed[f] = None /\ typed'[f] = owner[p])
        /\ (\A f \in Edit \ {} : typed'[f] = typed[f])
        /\ outdated \subseteq outdated' /\ {} \subseteq outdated'
    BY <2>2
  <2> HIDE DEF doc
  <2> QED BY <2>1, <2>2, <2>3, KeepAccept
<1> QED BY <1>2, <1>3

LEMMA KeepInspect ==
  ASSUME OneAtATime, TypeInv, TwinInv, KeepInv, NEW p \in Path, Inspect(p)
  PROVE  KeepInv'
<1> DEFINE t == file[p]
<1>1. /\ p \in Live /\ room[p] # None /\ Current = Rest /\ Current' = Rest /\ p \in Place /\ t # None
      /\ UNCHANGED <<file, entry, owner, typed, cut>>
  BY QuietRests DEF Inspect, trash, Place, Live
<1>2. /\ room'[p].doc = t /\ room'[p].hash = t /\ \A q \in Path : q # p => room'[q] = room[q]
      /\ marker'[p] = t /\ sidecar'[p] = t /\ room'[p] # None
      /\ \A x \in Place : x # p => marker'[x] = marker[x] /\ sidecar'[x] = sidecar[x]
      /\ outdated' = outdated \cup (room[p].doc.edits \ t.edits)
  <2>1. room[p] \in Room /\ t \in Text
    BY <1>1, AtQuiet
  <2>2. room'[p] = [room[p] EXCEPT !.doc = t, !.hash = t]
    BY DEF Inspect, TypeInv, TypeOK
  <2>3. room'[p].doc = t /\ room'[p].hash = t /\ room'[p] # None
    BY <2>1, <2>2, NoneAssumption DEF Room
  <2> QED BY <1>1, <2>3 DEF Inspect, TypeInv, TypeOK
<1>o. (\A n, s : Of(n, s)' = Of(n, s)) /\ \A e : Lost(e) => Lost(e)'
  BY <1>1, <1>2 DEF Of, Lost
<1> HIDE DEF t
<1>4. \A x \in Place : /\ file'[x] # None => Of(owner[x], file[x])'
                       /\ marker'[x] # None => Of(owner[x], marker[x])'
                       /\ sidecar'[x] # None => Of(owner[x], sidecar[x])'
  BY <1>1, <1>2, <1>o, AtQuiet DEF t
<1>5. \A x \in Place : marker'[x] # None => \A e \in marker'[x].edits :
        typed'[e] \in cut' \/ (sidecar'[x] # None /\ e \in sidecar'[x].edits)
  BY <1>1, <1>2, AtQuiet
<1>6. Rooms'
  BY <1>1, <1>2, <1>o DEF Rooms, KeepInv, Place, t
<1>7. Survives'
  <2> SUFFICES ASSUME NEW x \in Place, NEW e \in Edit, owner[x] # None, typed[e] = owner[x]
      PROVE  Lost(e)' \/ e \in Shown(x)'.edits
    BY <1>1, RestStill, StillNext DEF Survives
  <2>1. Lost(e)' \/ e \in Shown(x).edits
    BY <1>1, <1>o, AtQuiet
  <2>2. CASE x = p
    <3>1. Shown(x) = room[p].doc /\ Shown(x)' = t
      BY <1>1, <1>2, <2>2 DEF Shown
    <3> QED BY <1>2, <2>1, <3>1 DEF Lost
  <2>3. CASE x # p
    BY <1>1, <1>2, <2>1, <2>3 DEF Shown
  <2> QED BY <2>2, <2>3
<1>8. Somewhere' /\ Listed'
  BY <1>1, RestStill DEF KeepInv, Somewhere, Listed
<1> QED BY <1>1, <1>4, <1>5, <1>6, <1>7, <1>8, KeepQuiet

LEMMA KeepWritten ==
  ASSUME OneAtATime, TypeInv, TwinInv, KeepInv, NEW p \in Path, Flush(p) \/ Leave(p)
  PROVE  KeepInv'
<1>1. /\ Current = Rest /\ Current' = Rest /\ {p} \in SUBSET Path /\ WriteBack({p})
      /\ UNCHANGED <<entry, typed, cut, outdated>>
      /\ room' = Clean({p}) \/ room' = [room EXCEPT ![p] = None]
  BY QuietRests DEF Flush, Leave, trash, past
<1>2. Carries' /\ Plans'
  BY <1>1, RestStill DEF Carries, Plans, Moving
<1> QED BY <1>1, <1>2, RestStill, KeepWriteBack

(* A new note has no edits, and what a sidecar left behind at its path has is not its own. *)
LEMMA KeepCreate ==
  ASSUME OneAtATime, TypeInv, TwinInv, KeepInv, NEW p \in Path, NEW n \in Note, Create(p, n)
  PROVE  KeepInv'
<1>1. /\ Current = Rest /\ Current' = Rest /\ p \in Place /\ p \notin Id
      /\ file[p] = None /\ owner[p] = None
      /\ UNCHANGED <<sidecar, marker, entry, room, typed, cut, outdated>>
  BY QuietRests, PlaceAssumption DEF Create, Live, trash, past, Place, TypeInv, TypeOK
<1>2. /\ file'[p].edits = {} /\ \A x \in Place : x # p => file'[x] = file[x]
      /\ owner'[p] = n /\ \A x \in Place : x # p => owner'[x] = owner[x]
      /\ room[p] = None
  BY <1>1, NoRoom DEF Create, NewBody, Blank, TypeInv, TypeOK
<1>o. (\A m, s : Of(m, s)' = Of(m, s)) /\ \A e : Lost(e)' = Lost(e)
  BY <1>1 DEF Of, Lost
<1>3. \A x \in Place : /\ file'[x] # None => Of(owner[x], file[x])'
                       /\ marker'[x] # None => Of(owner[x], marker[x])'
                       /\ sidecar'[x] # None => Of(owner[x], sidecar[x])'
  <2> SUFFICES ASSUME NEW x \in Place
      PROVE  /\ file'[x] # None => Of(owner'[x], file'[x])
             /\ marker[x] # None => Of(owner'[x], marker[x])
             /\ sidecar[x] # None => Of(owner'[x], sidecar[x])
    BY <1>1, <1>o
  <2>1. CASE x = p
    <3>1. Of(owner'[x], file'[x])
      BY <1>2, <2>1 DEF Of
    <3> QED BY <1>1, <2>1, <3>1, AtQuiet, OfNone
  <2>2. CASE x # p
    BY <1>1, <1>2, <2>2, AtQuiet
  <2> QED BY <2>1, <2>2
<1>4. \A x \in Place : marker'[x] # None => \A e \in marker'[x].edits :
        typed'[e] \in cut' \/ (sidecar'[x] # None /\ e \in sidecar'[x].edits)
  BY <1>1, AtQuiet
<1>5. Rooms'
  <2>1. \A q \in Path : room[q] # None => file'[q] = file[q]
    BY <1>2 DEF Place
  <2> QED BY <1>1, <1>o, <2>1 DEF KeepInv, Rooms
<1>6. Survives'
  <2> SUFFICES ASSUME NEW x \in Place, NEW e \in Edit, owner'[x] # None, typed[e] = owner'[x]
      PROVE  Lost(e) \/ e \in Shown(x)'.edits
    BY <1>1, <1>o, RestStill, StillNext DEF Survives
  <2>1. x # p
    BY <1>2 DEF Create
  <2> QED BY <1>1, <1>2, <2>1, AtQuiet DEF Shown
<1>7. Somewhere'
  BY <1>1, <1>2 DEF KeepInv, Somewhere
<1>8. Listed'
  BY <1>1, <1>2, RestStill DEF KeepInv, Listed, Place
<1> QED BY <1>1, <1>3, <1>4, <1>5, <1>6, <1>7, <1>8, KeepQuiet

(* Whatever a purge leaves behind was typed into a note that is cut. *)
LEMMA KeepPurge ==
  ASSUME OneAtATime, TypeInv, TwinInv, KeepInv, NEW i \in Id, NEW steps \in 1..4, Purge(i, steps)
  PROVE  KeepInv'
<1>1. /\ Current = Rest /\ Current' = Rest /\ i \in Place /\ i \notin Path
      /\ UNCHANGED <<room, typed, outdated>> /\ cut' = cut \cup ({owner[i]} \ {None})
  BY QuietRests, PlaceAssumption DEF Purge, Place
<1>2. /\ file'[i] = None /\ \A x \in Place : x # i => file'[x] = file[x]
      /\ owner'[i] = None /\ \A x \in Place : x # i => owner'[x] = owner[x]
      /\ marker'[i] \in {marker[i], None} /\ \A x \in Place : x # i => marker'[x] = marker[x]
      /\ sidecar'[i] \in {sidecar[i], None} /\ \A x \in Place : x # i => sidecar'[x] = sidecar[x]
      /\ \A j \in Id : j # i => entry'[j] = entry[j]
  BY <1>1 DEF Purge, Forgotten, trash, TypeInv, TypeOK
<1>o. /\ \A m, s : Of(m, s) => Of(m, s)' /\ (m = owner[i] => Of(None, s)')
      /\ \A e : Lost(e) => Lost(e)'
  BY <1>1 DEF Of, Lost
<1>3. \A x \in Place : /\ file'[x] # None => Of(owner[x], file[x])'
                       /\ marker'[x] # None => Of(owner[x], marker[x])'
                       /\ sidecar'[x] # None => Of(owner[x], sidecar[x])'
  <2> SUFFICES ASSUME NEW x \in Place
      PROVE  /\ file'[x] # None => Of(owner[x], file[x])'
             /\ marker'[x] # None => Of(owner[x], marker[x])'
             /\ sidecar'[x] # None => Of(owner[x], sidecar[x])'
    OBVIOUS
  <2>0. /\ file[x] # None => Of(owner[x], file[x])
        /\ marker[x] # None => Of(owner[x], marker[x])
        /\ sidecar[x] # None => Of(owner[x], sidecar[x])
    BY <1>1, AtQuiet
  <2>1. CASE x = i
    BY <1>1, <1>2, <2>0, <2>1 DEF Of
  <2>2. CASE x # i
    BY <1>1, <1>2, <2>0, <2>2 DEF Of
  <2> QED BY <2>1, <2>2
<1>4. \A x \in Place : marker'[x] # None => \A e \in marker'[x].edits :
        typed'[e] \in cut' \/ (sidecar'[x] # None /\ e \in sidecar'[x].edits)
  <2> SUFFICES ASSUME NEW x \in Place, marker'[x] # None, NEW e \in marker'[x].edits
      PROVE  typed'[e] \in cut' \/ (sidecar'[x] # None /\ e \in sidecar'[x].edits)
    OBVIOUS
  <2>1. CASE x = i
    <3>1. Of(None, marker[i])'
      BY <1>2, <1>3, <2>1
    <3> QED BY <2>1, <3>1 DEF Of
  <2>2. CASE x # i
    BY <1>1, <1>2, <2>2, AtQuiet
  <2> QED BY <2>1, <2>2
<1>5. Rooms'
  <2>1. \A q \in Path : file'[q] = file[q] /\ marker'[q] = marker[q] /\ sidecar'[q] = sidecar[q]
    BY <1>1, <1>2 DEF Place
  <2> QED BY <1>1, <1>o, <2>1 DEF KeepInv, Rooms
<1>6. Survives'
  <2> SUFFICES ASSUME NEW x \in Place, NEW e \in Edit, owner'[x] # None, typed[e] = owner'[x]
      PROVE  Lost(e)' \/ e \in Shown(x)'.edits
    BY <1>1, RestStill, StillNext DEF Survives
  <2>1. x # i
    BY <1>2
  <2> QED BY <1>1, <1>2, <1>o, <2>1, AtQuiet DEF Shown
<1>7. Somewhere'
  BY <1>1, <1>2 DEF KeepInv, Somewhere
<1>8. Listed'
  BY <1>1, <1>2, RestStill DEF KeepInv, Listed, Place
<1>9. Belongs' /\ Covered'
  <2>1. \A z : MarkerOf(z)' = owner'[z] /\ SidecarOf(z)' = owner'[z] /\ MarkedAt(z)' = z
    BY <1>1, RestStill, StillNext
  <2> QED BY <1>3, <1>4, <2>1 DEF Belongs, Covered
<1>10. Carries' /\ Plans'
  BY <1>1, RestStill DEF Carries, Plans, Moving
<1> QED BY <1>5, <1>6, <1>7, <1>8, <1>9, <1>10 DEF KeepInv

LEMMA KeepBegin ==
  ASSUME OneAtATime, TypeInv, TwinInv, KeepInv, NEW h \in Handler, NEW kind, NEW pc, NEW x, NEW y,
         Begin(h, kind, pc, x, y), pc \in {"flush", "close", "move"},
         UNCHANGED <<disk, trash, room, owner, typed, past>>
  PROVE  KeepInv'
<1>1. Current = Rest /\ Current' = op'[h]
  BY CurrentIs DEF Begin
<1>2. op'[h].pc = pc /\ op'[h].from = x /\ op'[h].note = owner[x] /\ op'[h].plan = {}
  BY DEF Begin, Rest, TypeInv, TypeOK
<1>3. UNCHANGED <<file, sidecar, marker, entry, room, owner, typed, cut, outdated>>
  BY DEF disk, trash, past
<1>4. Current.pc \notin Moving /\ Current'.pc \notin Moving
  BY <1>1, <1>2, RestStill DEF Moving
<1>5. Carries' /\ Plans'
  BY <1>1, <1>2, <1>3, <1>4 DEF Carries, Plans
<1> QED BY <1>3, <1>4, <1>5, KeepSame

LEMMA KeepStep ==
  ASSUME OneAtATime, TypeInv, TwinInv, LinkInv, KeepInv, NEW h \in Handler, Step(h)
  PROVE  KeepInv'
<1>1. Current = op[h] /\ Current' = op'[h] /\ \A g \in Handler : g = h
  BY CurrentIs DEF OneAtATime
<1>2. CASE WriteDone(h)
  <2>1. /\ Current.pc = "write" /\ Current.plan = {} /\ Go(h, "done")
        /\ UNCHANGED <<file, sidecar, marker, entry, room, owner, typed, cut, outdated>>
    BY <1>1, <1>2 DEF WriteDone, At, disk, trash, past
  <2>2. Current'.pc = "done" /\ Current'.plan = {}
    BY <2>1, Gone
  <2>3. Current.pc \notin Moving /\ Current'.pc \notin Moving /\ Carries' /\ Plans'
    BY <2>1, <2>2 DEF Moving, Carries, Plans
  <2> QED BY <2>1, <2>3, KeepSame
<1>3. CASE Finish(h)
  <2>1. /\ Current.pc \notin Moving /\ Current' = Rest
        /\ UNCHANGED <<file, sidecar, marker, entry, room, owner, typed, cut, outdated>>
    BY <1>1, <1>3, Ended DEF Finish, At, disk, trash, past, Moving
  <2> QED BY <2>1, KeepStopped
<1>4. CASE Fail(h)
  <2>1. /\ Current' = Rest /\ cut' = cut \cup Torn(h)
        /\ UNCHANGED <<file, sidecar, marker, entry, room, owner, typed, outdated>>
    BY <1>1, <1>4, Ended DEF Fail, disk, trash
  <2>2. Current.pc \in Moving => Current.note \in cut'
    BY <1>1, <2>1 DEF Torn, Moving
  <2> QED BY <2>1, <2>2, KeepStopped
<1> QED
  BY <1>2, <1>3, <1>4, KeepFlush, KeepPlan, KeepMove, KeepMetadata, KeepMetadataFails,
    KeepMoveMarker, KeepMoveSidecar, KeepForget, KeepWrite DEF Step

LEMMA KeepNext ==
  OneAtATime /\ TypeInv /\ TwinInv /\ LinkInv /\ KeepInv /\ [Next]_vars => KeepInv'
<1> SUFFICES ASSUME OneAtATime, TypeInv, TwinInv, LinkInv, KeepInv, [Next]_vars PROVE KeepInv'
  OBVIOUS
<1>1. ASSUME NEW p \in Path,
             \/ Open(p) \/ Flush(p) \/ Leave(p) \/ Inspect(p)
             \/ \E e \in Edit : Type(p, e)
             \/ \E q \in Target : Link(p, q)
      PROVE  KeepInv'
  BY <1>1, KeepOpen, KeepWritten, KeepInspect, KeepTyped
<1>2. ASSUME NEW h \in Handler, Step(h) PROVE KeepInv'
  BY <1>2, KeepStep
<1>3. CASE /\ UNCHANGED <<op, file, sidecar, marker, entry, room, owner, typed, cut, outdated>>
  <2>1. Current' = Current
    BY <1>3 DEF Current
  <2>2. /\ \A x : MarkerOf(x)' = MarkerOf(x) /\ SidecarOf(x)' = SidecarOf(x)
                  /\ MarkedAt(x)' = MarkedAt(x) /\ Kept(x)' = Kept(x) /\ Owning(x)' = Owning(x)
        /\ \A n, t : Of(n, t)' = Of(n, t)
        /\ \A e : Lost(e)' = Lost(e)
    BY <1>3, <2>1 DEF MarkerOf, SidecarOf, Between, MarkedAt, Kept, SidecarAt, MarkerAt, Owning, Of, Lost
  <2>3. Belongs' /\ Covered' /\ Rooms'
    BY <1>3, <2>2 DEF KeepInv, Belongs, Covered, Rooms
  <2>4. Carries' /\ Plans'
    BY <1>3, <2>1, <2>2 DEF KeepInv, Carries, Plans
  <2>5. Survives' /\ Somewhere' /\ Listed'
    BY <1>3, <2>1, <2>2 DEF KeepInv, Survives, Somewhere, Listed
  <2> QED BY <2>3, <2>4, <2>5 DEF KeepInv
<1>4. ASSUME NEW i \in Id, Expire(i) PROVE KeepInv'
  BY <1>3, <1>4 DEF Expire, disk, past
<1>5. ASSUME NEW i \in Id, NEW steps \in 1..4, Purge(i, steps) PROVE KeepInv'
  BY <1>5, KeepPurge
<1>6. ASSUME NEW p \in Path, NEW n \in Note, Create(p, n) PROVE KeepInv'
  BY <1>6, KeepCreate
<1>7. ASSUME NEW h \in Handler,
             \/ \E p \in Path, i \in Id : Delete(h, p, i)
             \/ \E i \in Id : Restore(h, i)
             \/ \E p, q \in Path : Rename(h, p, q)
      PROVE  KeepInv'
  BY <1>7, KeepBegin DEF Delete, Restore, Rename
<1>8. CASE Crash
  <2>1. Current' = Rest
    BY <1>8, QuietRests DEF Crash, Current
  <2>2. /\ UNCHANGED <<file, sidecar, marker, entry, owner, typed, outdated>>
        /\ cut' = cut \cup UNION {Torn(h) : h \in Handler} /\ \A p \in Path : room'[p] = None
    BY <1>8 DEF Crash, disk, trash
  <2>3. Current.pc \in Moving => Current.note \in cut'
    <3>1. ASSUME NEW h \in Handler, Current.pc \in Moving PROVE Current.note \in cut'
      <4>1. Current.note \in Torn(h)
        BY <3>1, CurrentIs DEF Torn, Moving
      <4> QED BY <2>2, <4>1
    <3>2. (\A h \in Handler : FALSE) => Current.pc \notin Moving
      BY RestStill DEF Current
    <3> QED BY <3>1, <3>2
  <2> QED BY <2>1, <2>2, <2>3, KeepStopped
<1>9. CASE UNCHANGED vars
  BY <1>3, <1>9 DEF vars, disk, trash, past
<1> QED BY <1>1, <1>2, <1>4, <1>5, <1>6, <1>7, <1>8, <1>9 DEF Next

LEMMA KeepInit == Init => KeepInv
<1> SUFFICES ASSUME Init PROVE KeepInv
  OBVIOUS
<1>1. Current = Rest
  BY CurrentRests DEF Init, AtRest
<1>2. Belongs /\ Covered /\ Rooms
  BY DEF Init, Belongs, Covered, Rooms
<1>3. Carries /\ Plans
  BY <1>1, RestStill DEF Carries, Plans, Moving
<1>4. Survives /\ Somewhere /\ Listed
  BY DEF Init, Survives, Somewhere, Listed, Place
<1> QED BY <1>2, <1>3, <1>4 DEF KeepInv

LEMMA KeepAlways == ASSUME OneAtATime PROVE Spec => [](TypeInv /\ TwinInv /\ KeepInv)
<1>1. Init => LinkInv /\ TwinInv
  BY DEF Init, LinkInv, LinkWays, TwinInv, NoTwins, Homes, Ways, Rest
<1>2. TypeInv /\ TypeInv' /\ TwinInv /\ LinkInv /\ [Next]_vars => LinkInv'
  BY LinkNext
<1> QED BY <1>1, <1>2, TypeInit, TypeNext, TwinNext, KeepInit, KeepNext, PTL DEF Spec

(* One request at a time, what was accepted of a note can be opened at its path or restored
   from the trash, after any number of deletes, restores and renames, each of which may
   fail or die at any call; what is lost was put over by a text planned or imported
   without it, or is of a note that was purged or stranded (relocate_sidecar, purge). *)
THEOREM AcceptedKept == ASSUME OneAtATime PROVE Spec => []AcceptedSurvives
<1>1. TypeInv /\ TwinInv /\ KeepInv => AcceptedSurvives
  <2> SUFFICES ASSUME TypeInv, TwinInv, KeepInv, AtRest, NEW e \in Edit,
                      typed[e] \notin cut \cup {None}, e \notin outdated
      PROVE  \E x \in Place : /\ owner[x] = typed[e] /\ e \in Shown(x).edits
                              /\ x \in Id => entry[x] # None
    BY DEF AcceptedSurvives
  <2>1. PICK x \in Place : owner[x] = typed[e]
    BY DEF KeepInv, Somewhere
  <2>2. Current = Rest
    BY CurrentRests
  <2>3. e \in Shown(x).edits
    BY <2>1, <2>2, AtQuiet DEF Lost
  <2>4. x \in Id => entry[x] # None
    BY <2>1, <2>2, RestStill DEF KeepInv, Listed
  <2> QED BY <2>1, <2>3, <2>4
<1> QED BY <1>1, KeepAlways, PTL

-----------------------------------------------------------------------------
(* Nobody is shown another note's text.  The edits of a text were typed into note n, or
   into one whose marker or sidecar was left behind. *)
Mine(n, t) == \A e \in t.edits : typed[e] \in (left \cup {n}) \ {None}

(* What a purge has not come to yet lies with the trash entry of a note that is gone;
   every request on the trash finishes the purge first. *)
Residue(x) ==
  x \in expired /\ owner[x] = None /\ Current.kind \notin {"delete", "restore"}

OwnDisk == \A x \in Place :
  /\ file[x] # None => Mine(owner[x], file[x])
  /\ ~Residue(x) /\ marker[x] # None => Mine(MarkerOf(x), marker[x])
  /\ ~Residue(x) /\ sidecar[x] # None => Mine(SidecarOf(x), sidecar[x])

OwnPlans == \A c \in Current.plan : Mine(Owning(c.at), c.text)

OwnInv == OwnDisk /\ OwnPlans

LEMMA NoResidue == ASSUME TypeInv, NEW p \in Path PROVE ~Residue(p)
  BY PlaceAssumption DEF Residue, TypeInv, TypeOK

(* A step that changes nothing on the disk, and what it leaves of the request. *)
LEMMA OwnSame ==
  ASSUME OwnInv, UNCHANGED <<file, sidecar, marker, owner, typed>>, left \subseteq left',
         \A x \in Place : MarkerOf(x)' = MarkerOf(x) /\ SidecarOf(x)' = SidecarOf(x),
         \A x \in Place : Residue(x) => Residue(x)', OwnPlans'
  PROVE  OwnInv'
<1>1. \A n, t : Mine(n, t) => Mine(n, t)'
  BY DEF Mine
<1> QED BY <1>1 DEF OwnInv, OwnDisk

(* What an action between requests has to keep. *)
LEMMA OwnQuiet ==
  ASSUME Current' = Rest,
         \A x \in Place :
           /\ file'[x] # None => Mine(owner[x], file[x])'
           /\ ~Residue(x)' /\ marker'[x] # None => Mine(owner[x], marker[x])'
           /\ ~Residue(x)' /\ sidecar'[x] # None => Mine(owner[x], sidecar[x])'
  PROVE  OwnInv'
<1>1. \A x \in Place : MarkerOf(x)' = owner'[x] /\ SidecarOf(x)' = owner'[x]
  BY RestStill, StillNext
<1> QED BY <1>1, RestStill DEF OwnInv, OwnDisk, OwnPlans

(* What is shown at a path between requests. *)
LEMMA OwnShown ==
  ASSUME TypeInv, KeepInv, OwnInv, Current = Rest, NEW p \in Path, p \in Live
  PROVE  Mine(owner[p], Shown(p))
<1>1. p \in Place /\ file[p] # None /\ ~Residue(p) /\ SidecarOf(p) = owner[p]
  BY NoResidue, RestStill, Still DEF Place, Live
<1>2. room[p] # None => sidecar[p] = room[p].doc /\ sidecar[p] # None
  BY NoneAssumption DEF KeepInv, Rooms, TypeInv, TypeOK, Room
<1> QED BY <1>1, <1>2 DEF OwnInv, OwnDisk, Shown

(* A text of the note is put at its path, and nothing else changes. *)
LEMMA OwnPut ==
  ASSUME TypeInv, OwnInv, Current = Rest, Current' = Rest, NEW p \in Path, NEW t,
         UNCHANGED <<owner, typed, left, expired>>, Mine(owner[p], t),
         \A x \in Place : /\ file'[x] = file[x] \/ (x = p /\ file'[x] = t)
                          /\ marker'[x] = marker[x] \/ (x = p /\ marker'[x] = t)
                          /\ sidecar'[x] = sidecar[x] \/ (x = p /\ sidecar'[x] = t)
  PROVE  OwnInv'
<1>1. \A n, s : Mine(n, s)' = Mine(n, s)
  BY DEF Mine
<1>2. \A x \in Place : Residue(x)' = Residue(x)
  BY DEF Residue
<1>3. \A x \in Place : MarkerOf(x) = owner[x] /\ SidecarOf(x) = owner[x]
  BY RestStill, Still
<1> QED BY <1>1, <1>2, <1>3, OwnQuiet DEF OwnInv, OwnDisk

LEMMA OwnOpen ==
  ASSUME OneAtATime, TypeInv, KeepInv, OwnInv, NEW p \in Path, Open(p)
  PROVE  OwnInv'
<1>1. /\ Current = Rest /\ Current' = Rest /\ UNCHANGED <<owner, typed, left, expired>>
      /\ Mine(owner[p], Shown(p))
  BY QuietRests, OwnShown DEF Open, trash, past
<1>2. \A x \in Place :
        /\ file'[x] = file[x] \/ (x = p /\ file'[x] = Shown(p))
        /\ marker'[x] = marker[x] \/ (x = p /\ marker'[x] = Shown(p))
        /\ sidecar'[x] = sidecar[x] \/ (x = p /\ sidecar'[x] = Shown(p))
  BY DEF Open, TypeInv, TypeOK
<1> QED BY <1>1, <1>2, OwnPut

LEMMA OwnInspect ==
  ASSUME OneAtATime, TypeInv, KeepInv, OwnInv, NEW p \in Path, Inspect(p)
  PROVE  OwnInv'
<1>1. /\ Current = Rest /\ Current' = Rest /\ UNCHANGED <<owner, typed, left, expired>>
      /\ Mine(owner[p], file[p])
  BY QuietRests DEF Inspect, trash, OwnInv, OwnDisk, Live, Place
<1>2. \A x \in Place :
        /\ file'[x] = file[x]
        /\ marker'[x] = marker[x] \/ (x = p /\ marker'[x] = file[p])
        /\ sidecar'[x] = sidecar[x] \/ (x = p /\ sidecar'[x] = file[p])
  BY DEF Inspect, TypeInv, TypeOK
<1> QED BY <1>1, <1>2, OwnPut

(* Nobody has the new edits yet, and they are typed into the note at the path. *)
LEMMA OwnAccept ==
  ASSUME OneAtATime, TypeInv, TwinInv, KeepInv, OwnInv, NEW p \in Path, NEW doc \in Text,
         NEW new \in SUBSET Edit, Accept(p, doc), doc.edits = room[p].doc.edits \cup new,
         \A e \in new : typed[e] = None /\ typed'[e] = owner[p],
         \A e \in Edit \ new : typed'[e] = typed[e]
  PROVE  OwnInv'
<1>1. /\ Current = Rest /\ Current' = Rest /\ room[p] # None /\ p \in Place
      /\ UNCHANGED <<file, marker, owner, left, expired>>
      /\ sidecar' = [sidecar EXCEPT ![p] = doc]
  BY QuietRests DEF Accept, trash, Place
<1>2. \A x \in Place : Residue(x)' = Residue(x)
  BY <1>1 DEF Residue
<1>3. \A x \in Place : MarkerOf(x) = owner[x] /\ SidecarOf(x) = owner[x]
  BY <1>1, RestStill, Still
<1>4. \A m : \A t \in Text : Mine(m, t) => Mine(m, t)'
  <2>1. \A t \in Text : t.edits \subseteq Edit
    BY DEF Text
  <2> QED BY <1>1, <2>1 DEF Mine
<1>5. Mine(owner[p], doc)'
  <2>1. sidecar[p] = room[p].doc /\ sidecar[p] # None /\ ~Residue(p) /\ sidecar[p] \in Text
    BY <1>1, NoResidue, NoneAssumption DEF KeepInv, Rooms, TypeInv, TypeOK, Room
  <2>2. \A e \in sidecar[p].edits : typed'[e] \in (left \cup {owner[p]}) \ {None}
    <3>1. Mine(owner[p], sidecar[p])
      BY <1>1, <1>3, <2>1 DEF OwnInv, OwnDisk
    <3> QED BY <1>1, <1>4, <2>1, <3>1 DEF Mine
  <2>3. owner[p] # None
    BY <1>1, NoneAssumption DEF TwinInv, Homes, TypeInv, TypeOK, Room
  <2> QED BY <1>1, <2>1, <2>2, <2>3 DEF Mine
<1>6. ASSUME NEW x \in Place
      PROVE  /\ file'[x] # None => Mine(owner[x], file[x])'
             /\ ~Residue(x)' /\ marker'[x] # None => Mine(owner[x], marker[x])'
             /\ ~Residue(x)' /\ sidecar'[x] # None => Mine(owner[x], sidecar[x])'
  <2>1. /\ file[x] # None => Mine(owner[x], file[x]) /\ file[x] \in Text
        /\ ~Residue(x) /\ marker[x] # None => Mine(owner[x], marker[x]) /\ marker[x] \in Text
        /\ ~Residue(x) /\ sidecar[x] # None => Mine(owner[x], sidecar[x]) /\ sidecar[x] \in Text
    BY <1>3 DEF OwnInv, OwnDisk, TypeInv, TypeOK
  <2>2. /\ file[x] # None => Mine(owner[x], file[x])'
        /\ ~Residue(x)' /\ marker[x] # None => Mine(owner[x], marker[x])'
    BY <1>1, <1>2, <1>4, <2>1 DEF Mine
  <2>3. ~Residue(x)' /\ sidecar'[x] # None => Mine(owner[x], sidecar[x])'
    <3>1. CASE x = p
      <4>1. sidecar'[x] = doc
        BY <1>1, <3>1 DEF TypeInv, TypeOK
      <4> QED BY <1>5, <3>1, <4>1 DEF Mine
    <3>2. CASE x # p
      <4>1. sidecar'[x] = sidecar[x]
        BY <1>1, <3>2 DEF TypeInv, TypeOK
      <4> QED BY <1>1, <1>2, <1>4, <2>1, <4>1 DEF Mine
    <3> QED BY <3>1, <3>2
  <2> QED BY <1>1, <2>2, <2>3
<1> QED BY <1>1, <1>6, OwnQuiet

LEMMA OwnTyped ==
  ASSUME OneAtATime, TypeInv, TwinInv, KeepInv, OwnInv, NEW p \in Path,
         (\E e \in Edit : Type(p, e)) \/ \E q \in Target : Link(p, q)
  PROVE  OwnInv'
<1>1. room[p] # None /\ room[p] \in Room
  BY DEF Type, Link, TypeInv, TypeOK
<1>2. ASSUME NEW e \in Edit, Type(p, e) PROVE OwnInv'
  <2> DEFINE doc == [room[p].doc EXCEPT !.edits = @ \cup {e}]
  <2>1. doc \in Text /\ doc.edits = room[p].doc.edits \cup {e} /\ {e} \in SUBSET Edit
    BY <1>1 DEF Room, Text
  <2>2. room[p].note = owner[p] /\ Accept(p, doc)
    BY <1>1, <1>2 DEF Type, TwinInv, Homes
  <2>3. /\ \A f \in {e} : typed[f] = None /\ typed'[f] = owner[p]
        /\ \A f \in Edit \ {e} : typed'[f] = typed[f]
    BY <1>2, <2>2 DEF Type, TypeInv, TypeOK
  <2> HIDE DEF doc
  <2> QED BY <2>1, <2>2, <2>3, OwnAccept
<1>3. ASSUME NEW q \in Target, Link(p, q) PROVE OwnInv'
  <2> DEFINE doc == [room[p].doc EXCEPT !.link = q]
  <2>1. doc \in Text /\ doc.edits = room[p].doc.edits \cup {} /\ {} \in SUBSET Edit
    BY <1>1, TargetAssumption DEF Room, Text
  <2>2. /\ Accept(p, doc) /\ (\A f \in {} : typed[f] = None /\ typed'[f] = owner[p])
        /\ \A f \in Edit \ {} : typed'[f] = typed[f]
    BY <1>3 DEF Link
  <2> HIDE DEF doc
  <2> QED BY <2>1, <2>2, OwnAccept
<1> QED BY <1>2, <1>3

(* A new note has no edits, and what lies at its path is of one left behind. *)
LEMMA OwnCreate ==
  ASSUME OneAtATime, TypeInv, OwnInv, NEW p \in Path, NEW n \in Note, Create(p, n)
  PROVE  OwnInv'
<1>1. /\ Current = Rest /\ Current' = Rest /\ p \in Place /\ file[p] = None /\ owner[p] = None
      /\ UNCHANGED <<sidecar, marker, expired, typed, left>>
  BY QuietRests DEF Create, Live, trash, past, Place, TypeInv, TypeOK
<1>2. /\ file'[p].edits = {} /\ \A x \in Place : x # p => file'[x] = file[x]
      /\ \A x \in Place : x # p => owner'[x] = owner[x]
  BY <1>1 DEF Create, NewBody, Blank, TypeInv, TypeOK
<1>3. \A m, s : Mine(m, s)' = Mine(m, s)
  BY <1>1 DEF Mine
<1>4. \A x \in Place : MarkerOf(x) = owner[x] /\ SidecarOf(x) = owner[x]
  BY <1>1, RestStill, Still
<1>5. \A x \in Place : x # p => Residue(x)' = Residue(x)
  BY <1>1, <1>2 DEF Residue
<1>6. /\ marker[p] # None => Mine(None, marker[p])
      /\ sidecar[p] # None => Mine(None, sidecar[p])
  BY <1>1, <1>4, NoResidue DEF OwnInv, OwnDisk
<1>7. ASSUME NEW x \in Place
      PROVE  /\ file'[x] # None => Mine(owner[x], file[x])'
             /\ ~Residue(x)' /\ marker'[x] # None => Mine(owner[x], marker[x])'
             /\ ~Residue(x)' /\ sidecar'[x] # None => Mine(owner[x], sidecar[x])'
  <2>1. CASE x = p
    BY <1>1, <1>2, <1>6, <2>1 DEF Mine
  <2>2. CASE x # p
    BY <1>1, <1>2, <1>3, <1>4, <1>5, <2>2 DEF OwnInv, OwnDisk
  <2> QED BY <2>1, <2>2
<1> QED BY <1>1, <1>7, OwnQuiet

(* A text that a room holds is the sidecar's, and that is its note's. *)
LEMMA OwnWriteBack ==
  ASSUME TypeInv, TwinInv, KeepInv, OwnInv, NEW paths \in SUBSET Path, WriteBack(paths),
         UNCHANGED <<typed, left, expired>>, Current.pc \notin Moving, Current'.pc \notin Moving,
         Current.kind = Current'.kind, OwnPlans'
  PROVE  OwnInv'
<1>1. owner' = owner /\ sidecar' = sidecar
  BY WriteBackOwner DEF WriteBack, TypeInv, TwinInv
<1>2. \A x \in Place :
        \/ /\ x \in Path /\ file'[x] = sidecar[x] /\ marker'[x] = sidecar[x] /\ sidecar[x] # None
        \/ file'[x] = file[x] /\ marker'[x] = marker[x]
  BY NoneAssumption DEF WriteBack, Due, KeepInv, Rooms, TypeInv, TypeOK, Room
<1>3. /\ \A n, t : Mine(n, t)' = Mine(n, t)
      /\ \A x : Residue(x)' = Residue(x)
  BY <1>1 DEF Mine, Residue
<1>4. \A x \in Place : /\ MarkerOf(x) = owner[x] /\ SidecarOf(x) = owner[x]
                       /\ MarkerOf(x)' = owner[x] /\ SidecarOf(x)' = owner[x]
  BY <1>1, Still, StillNext
<1>5. ASSUME NEW x \in Place
      PROVE  /\ file'[x] # None => Mine(owner[x], file'[x])
             /\ ~Residue(x) /\ marker'[x] # None => Mine(owner[x], marker'[x])
             /\ ~Residue(x) /\ sidecar[x] # None => Mine(owner[x], sidecar[x])
  <2>1. /\ file[x] # None => Mine(owner[x], file[x])
        /\ ~Residue(x) /\ marker[x] # None => Mine(owner[x], marker[x])
        /\ ~Residue(x) /\ sidecar[x] # None => Mine(owner[x], sidecar[x])
    BY <1>4 DEF OwnInv, OwnDisk
  <2> QED BY <1>2, <2>1, NoResidue
<1> QED BY <1>1, <1>3, <1>4, <1>5 DEF OwnInv, OwnDisk

LEMMA OwnWritten ==
  ASSUME OneAtATime, TypeInv, TwinInv, KeepInv, OwnInv, NEW p \in Path, Flush(p) \/ Leave(p)
  PROVE  OwnInv'
<1>1. /\ Current = Rest /\ Current' = Rest /\ {p} \in SUBSET Path /\ WriteBack({p})
      /\ UNCHANGED <<typed, left, expired>>
  BY QuietRests DEF Flush, Leave, trash, past
<1>2. OwnPlans'
  BY <1>1, RestStill DEF OwnPlans
<1> QED BY <1>1, <1>2, RestStill, OwnWriteBack

LEMMA OwnFlush ==
  ASSUME OneAtATime, TypeInv, TwinInv, KeepInv, OwnInv, NEW h \in Handler,
         FlushOpen(h) \/ Close(h)
  PROVE  OwnInv'
<1>1. op[h].pc \in {"flush", "close"}
  BY DEF FlushOpen, Close, At
<1>2. /\ Current = op[h] /\ Current.pc \in {"flush", "close"} /\ Current.from \in Path
      /\ (Current.pc = "flush" => Current.kind = "rename")
  BY <1>1, Going DEF RequestShape, Request
<1>3. /\ \/ Current.pc = "flush" /\ Go(h, "plan") /\ WriteBack(Path)
         \/ Current.pc = "close" /\ Go(h, "move") /\ WriteBack({Current.from})
      /\ UNCHANGED <<typed, left, expired>>
  BY <1>2 DEF FlushOpen, Close, At, trash, past
<1>4. /\ Current'.to = Current.to /\ Current'.note = Current.note
      /\ Current'.plan = Current.plan /\ Current'.kind = Current.kind
      /\ Current'.pc = (IF Current.pc = "flush" THEN "plan" ELSE "move")
  BY <1>3, Gone
<1>5. Current.pc \notin Moving /\ Current'.pc \notin Moving
  BY <1>2, <1>4 DEF Moving
<1>6. owner' = owner
  BY <1>2, <1>3, WriteBackOwner DEF TypeInv, TwinInv
<1>7. OwnPlans'
  <2>1. CASE Current.pc = "flush"
    BY <1>2, <1>4, <2>1 DEF KeepInv, Plans, OwnPlans
  <2>2. CASE Current.pc = "close"
    <3>1. \A z : Owning(z)' = Owning(z)
      BY <1>4, <1>6, <2>2 DEF Owning
    <3>2. \A n, t : Mine(n, t)' = Mine(n, t)
      BY <1>3 DEF Mine
    <3> QED BY <1>4, <3>1, <3>2 DEF OwnInv, OwnPlans
  <2> QED BY <1>2, <2>1, <2>2
<1>8. {Current.from} \in SUBSET Path
  BY <1>2
<1> QED BY <1>3, <1>4, <1>5, <1>7, <1>8, OwnWriteBack

(* What a purge has not come to lies with an entry that is expired. *)
LEMMA OwnPurge ==
  ASSUME OneAtATime, TypeInv, OwnInv, NEW i \in Id, NEW steps \in 1..4, Purge(i, steps)
  PROVE  OwnInv'
<1>1. /\ Current = Rest /\ Current' = Rest /\ i \in Place /\ UNCHANGED <<typed, left>>
      /\ i \in expired
  BY QuietRests DEF Purge, Place
<1>2. /\ file'[i] = None /\ \A x \in Place : x # i => file'[x] = file[x]
      /\ owner'[i] = None /\ \A x \in Place : x # i => owner'[x] = owner[x]
      /\ \A x \in Place : x # i => marker'[x] = marker[x] /\ sidecar'[x] = sidecar[x]
      /\ \A x : x # i => (x \in expired' <=> x \in expired)
      /\ i \notin expired' => marker'[i] = None /\ sidecar'[i] = None
  BY <1>1 DEF Purge, Forgotten, trash, TypeInv, TypeOK
<1>3. \A n, t : Mine(n, t)' = Mine(n, t)
  BY <1>1 DEF Mine
<1>4. \A x \in Place : x # i => Residue(x)' = Residue(x)
  BY <1>1, <1>2 DEF Residue
<1>5. i \in expired' => Residue(i)'
  BY <1>1, <1>2 DEF Residue, Rest
<1>6. \A x \in Place : MarkerOf(x) = owner[x] /\ SidecarOf(x) = owner[x]
  BY <1>1, RestStill, Still
<1>7. ASSUME NEW x \in Place
      PROVE  /\ file'[x] # None => Mine(owner[x], file[x])'
             /\ ~Residue(x)' /\ marker'[x] # None => Mine(owner[x], marker[x])'
             /\ ~Residue(x)' /\ sidecar'[x] # None => Mine(owner[x], sidecar[x])'
  <2>1. CASE x = i
    BY <1>2, <1>5, <2>1
  <2>2. CASE x # i
    BY <1>2, <1>3, <1>4, <1>6, <2>2 DEF OwnInv, OwnDisk
  <2> QED BY <2>1, <2>2
<1> QED BY <1>1, <1>7, OwnQuiet

(* A request ends where it is, and what it leaves behind is of a note that is noted. *)
LEMMA OwnStopped ==
  ASSUME TypeInv, KeepInv, OwnInv, Current' = Rest,
         UNCHANGED <<file, sidecar, marker, owner, typed, expired>>,
         left \subseteq left', Current.pc \in Moving => Current.note \in left'
  PROVE  OwnInv'
<1>1. \A n, t : Mine(n, t) => Mine(n, t)' /\ (n \in left' \cup {None} => \A m : Mine(m, t)')
  BY DEF Mine
<1>2. \A z \in Place : Residue(z) => Residue(z)'
  BY RestStill DEF Residue, Rest
<1>3. ASSUME NEW z \in Place
      PROVE  /\ file[z] # None => Mine(owner[z], file[z])'
             /\ ~Residue(z)' /\ marker[z] # None => Mine(owner[z], marker[z])'
             /\ ~Residue(z)' /\ sidecar[z] # None => Mine(owner[z], sidecar[z])'
  <2>1. CASE Current.pc \notin Moving
    BY <1>1, <1>2, <2>1, Still DEF OwnInv, OwnDisk
  <2>2. CASE Current.pc \in Moving
    <3>1. /\ MarkerOf(z) = owner[z] \/ MarkerOf(z) \in left' \cup {None}
          /\ SidecarOf(z) = owner[z] \/ SidecarOf(z) \in left' \cup {None}
      BY <2>2 DEF MarkerOf, SidecarOf, Between
    <3>2. file[z] # None => Mine(owner[z], file[z])'
      BY <1>1 DEF OwnInv, OwnDisk
    <3>3. ~Residue(z)' /\ marker[z] # None => Mine(owner[z], marker[z])'
      BY <1>1, <1>2, <3>1 DEF OwnInv, OwnDisk
    <3>4. ~Residue(z)' /\ sidecar[z] # None => Mine(owner[z], sidecar[z])'
      BY <1>1, <1>2, <3>1 DEF OwnInv, OwnDisk
    <3> QED BY <3>2, <3>3, <3>4
  <2> QED BY <2>1, <2>2
<1> QED BY <1>3, OwnQuiet

(* A request begins: one on the trash finds no residue. *)
LEMMA OwnBegin ==
  ASSUME OneAtATime, TypeInv, OwnInv, NEW h \in Handler, NEW kind, NEW pc, NEW x, NEW y,
         Begin(h, kind, pc, x, y), pc \in {"flush", "close", "move"},
         kind \notin {"delete", "restore"} \/ Purged,
         UNCHANGED <<disk, trash, room, owner, typed, past>>
  PROVE  OwnInv'
<1>1. Current = Rest /\ Current' = op'[h]
  BY CurrentIs DEF Begin
<1>2. op'[h].pc = pc /\ op'[h].kind = kind /\ op'[h].plan = {}
  BY DEF Begin, Rest, TypeInv, TypeOK
<1>3. UNCHANGED <<file, sidecar, marker, owner, typed, left, expired>>
  BY DEF disk, trash, past
<1>4. Current.pc \notin Moving /\ Current'.pc \notin Moving
  BY <1>1, <1>2, RestStill DEF Moving
<1>5. \A z \in Place : MarkerOf(z)' = MarkerOf(z) /\ SidecarOf(z)' = SidecarOf(z)
  BY <1>3, <1>4, Still, StillNext
<1>6. \A z \in Place : Residue(z) => Residue(z)'
  <2>1. Purged => expired = {}
    BY DEF Purged, TypeInv, TypeOK
  <2> QED BY <1>1, <1>2, <1>3, <2>1 DEF Residue
<1>7. OwnPlans'
  BY <1>1, <1>2 DEF OwnPlans
<1> QED BY <1>3, <1>5, <1>6, <1>7, OwnSame

(* A plan is made of the files, each with what is its own. *)
LEMMA OwnPlan ==
  ASSUME OneAtATime, TypeInv, TwinInv, KeepInv, OwnInv, NEW h \in Handler, Plan(h)
  PROVE  OwnInv'
<1> DEFINE x == Current.from
           y == Current.to
<1>1. op[h].pc = "plan" /\ op[h].from \in Live
  BY DEF Plan, At
<1>2. /\ Current = op[h] /\ Current.pc = "plan" /\ Ways(Current) /\ x \in Live /\ x \in Path
      /\ Current.kind = "rename" /\ Current \in Request /\ y \in Path
  BY <1>1, Going DEF RequestShape, Request
<1>3. UNCHANGED <<file, sidecar, marker, owner, typed, left, expired>>
  BY DEF Plan, disk, trash, past
<1>4. /\ Current'.pc = "close" /\ Current'.plan = PlanOf(x, y) /\ Current'.to = y
      /\ Current'.note = Current.note /\ Current'.kind = "rename"
  <2>1. Current' = op'[h] /\ op'[h].plan = PlanOf(op[h].from, op[h].to)
    BY CurrentIs, PlannedTexts
  <2>2. \E m, plan : op'[h] = [op[h] EXCEPT !.pc = "close", !.meant = m, !.plan = plan]
    BY DEF Plan, TypeInv, TypeOK
  <2>3. /\ op'[h].pc = "close" /\ op'[h].to = op[h].to /\ op'[h].note = op[h].note
        /\ op'[h].kind = op[h].kind
    BY <1>2, <2>2 DEF Request
  <2> QED BY <1>2, <2>1, <2>3
<1>5. owner[y] = None /\ owner[x] = Current.note
  BY <1>2 DEF Ways, KeepInv, Carries
<1>6. \A l \in Live : /\ Mine(owner[l], file[l]) /\ l # y /\ file[l] \in Text
  BY <1>2, <1>5 DEF OwnInv, OwnDisk, Live, Place, TypeInv, TypeOK
<1> HIDE DEF x, y
<1>7. \A l \in Live : /\ Repointed(file[l], x, y).edits = file[l].edits
                      /\ [Repointed(file[l], x, y) EXCEPT !.title = y].edits = file[l].edits
  BY <1>6 DEF Repointed, Text
<1>8. ASSUME NEW c \in PlanOf(x, y) PROVE Mine(Owning(c.at)', c.text)
  <2> DEFINE own == [Repointed(file[x], x, y) EXCEPT !.title = y]
             at(l) == [at |-> l, text |-> Repointed(file[l], x, y)]
  <2>1. own.edits = file[x].edits /\ x \in Live
    BY <1>2, <1>7 DEF x
  <2>2. (\E l \in Live : c = at(l)) \/ c = [at |-> y, text |-> own]
    BY DEF PlanOf
  <2>3. \A l \in Live : at(l).at = l /\ at(l).text.edits = file[l].edits
    BY <1>7
  <2> HIDE DEF at, own
  <2>4. CASE \E l \in Live : c = at(l)
    <3>1. c.at \in Live /\ c.text.edits = file[c.at].edits
      BY <2>3, <2>4
    <3>2. Owning(c.at)' = owner[c.at]
      BY <1>3, <1>4, <1>6, <3>1 DEF Owning
    <3> QED BY <1>6, <3>1, <3>2 DEF Mine
  <2>5. CASE c = [at |-> y, text |-> own]
    <3>1. c.at = y /\ c.text.edits = file[x].edits
      BY <2>1, <2>5
    <3>2. Owning(c.at)' = owner[x]
      BY <1>4, <1>5, <3>1 DEF Owning, y
    <3> QED BY <1>6, <2>1, <3>1, <3>2 DEF Mine
  <2> QED BY <2>2, <2>4, <2>5
<1>9. OwnPlans'
  <2>1. \A n, t : Mine(n, t)' = Mine(n, t)
    BY <1>3 DEF Mine
  <2> QED BY <1>4, <1>8, <2>1 DEF OwnPlans
<1>10. \A z \in Place : MarkerOf(z)' = MarkerOf(z) /\ SidecarOf(z)' = SidecarOf(z)
  BY <1>2, <1>3, <1>4, Still, StillNext DEF Moving
<1>11. \A z \in Place : Residue(z) => Residue(z)'
  BY <1>3, <1>4 DEF Residue
<1> QED BY <1>3, <1>9, <1>10, <1>11, OwnSame

(* The file has moved: marker and sidecar at the source are still the note's. *)
LEMMA OwnMove ==
  ASSUME OneAtATime, TypeInv, TwinInv, KeepInv, OwnInv, NEW h \in Handler, Move(h)
  PROVE  OwnInv'
<1> DEFINE x == Current.from
           y == Current.to
<1>1. op[h].pc = "move"
  BY DEF Move, At
<1>2. /\ Current = op[h] /\ Current \in Request /\ RequestShape(Current) /\ Ways(Current)
      /\ x \in Place /\ y \in Place /\ Current.note # None /\ Current.pc = "move"
      /\ Current.kind \in {"delete", "restore", "rename"}
  BY <1>1, Going DEF RequestShape, Request
<1>3. /\ file' = Moved(file, x, y) /\ owner' = Moved(owner, x, y)
      /\ UNCHANGED <<sidecar, marker, expired, typed, left>>
      /\ Go(h, IF Current.kind = "delete" THEN "meta" ELSE "marker")
  BY <1>2 DEF Move, trash, past
<1>4. /\ Current'.from = x /\ Current'.to = y /\ Current'.note = Current.note
      /\ Current'.plan = Current.plan /\ Current'.kind = Current.kind
      /\ Current'.pc \in {"meta", "marker"} /\ Current'.pc \in Moving
      /\ Current'.pc \notin {"close", "move"}
  BY <1>3, Gone DEF Moving
<1>5. owner[x] = Current.note /\ owner[y] = None /\ x # y
  BY <1>2 DEF KeepInv, Carries, Ways
<1>6. /\ \A z \in Place : owner'[z] = IF z = x THEN None ELSE IF z = y THEN Current.note ELSE owner[z]
      /\ \A z \in Place : file'[z] = IF z = x THEN None ELSE IF z = y THEN file[x] ELSE file[z]
  BY <1>2, <1>3, <1>5 DEF Moved, TypeInv, TypeOK
<1>7. \A z \in Place : Residue(z) => Residue(z)'
  <2>1. Current.kind = "rename" => y \notin expired
    BY <1>2, PlaceAssumption DEF RequestShape, TypeInv, TypeOK
  <2> QED BY <1>2, <1>3, <1>4, <1>5, <1>6, <2>1 DEF Residue
<1> HIDE DEF x, y
<1>8. \A z \in Place : MarkerOf(z)' = owner[z] /\ SidecarOf(z)' = owner[z]
  BY <1>4, <1>5, <1>6 DEF MarkerOf, SidecarOf, Between, x, y
<1>9. \A z \in Place : MarkerOf(z) = owner[z] /\ SidecarOf(z) = owner[z]
  BY <1>2, Still DEF Moving
<1>10. \A n, t : Mine(n, t)' = Mine(n, t)
  BY <1>3 DEF Mine
<1>11. OwnDisk'
  BY <1>2, <1>3, <1>5, <1>6, <1>7, <1>8, <1>9, <1>10 DEF OwnInv, OwnDisk
<1>12. OwnPlans'
  <2>1. Current.kind # "rename" => Current.plan = {}
    BY DEF KeepInv, Plans
  <2>2. \A c \in Current.plan : c.at \in Place /\ (c.at = y \/ (c.at # x /\ owner[c.at] # None))
    BY <1>2, <2>1 DEF Ways, Request, Planned, Place, x, y
  <2>3. \A c \in Current.plan : Owning(c.at)' = Owning(c.at)
    BY <1>2, <1>4, <1>5, <1>6, <2>2 DEF Owning, x, y
  <2> QED BY <1>4, <1>10, <2>3 DEF OwnInv, OwnPlans
<1> QED BY <1>11, <1>12 DEF OwnInv

LEMMA OwnMetadata ==
  ASSUME OneAtATime, TypeInv, TwinInv, OwnInv, NEW h \in Handler, WriteMetadata(h)
  PROVE  OwnInv'
<1>1. /\ Current = op[h] /\ Current.pc = "meta"
      /\ UNCHANGED <<file, sidecar, marker, owner, typed, left, expired>> /\ Go(h, "marker")
  BY CurrentIs DEF WriteMetadata, At, disk, past
<1>2. /\ Current'.from = Current.from /\ Current'.to = Current.to /\ Current'.note = Current.note
      /\ Current'.plan = Current.plan /\ Current'.kind = Current.kind /\ Current'.pc = "marker"
  BY <1>1, Gone
<1>3. \A z : /\ MarkerOf(z)' = MarkerOf(z) /\ SidecarOf(z)' = SidecarOf(z)
             /\ Owning(z)' = Owning(z) /\ Residue(z)' = Residue(z)
  BY <1>1, <1>2 DEF MarkerOf, SidecarOf, Between, Owning, Residue, Moving
<1>4. OwnPlans'
  BY <1>1, <1>2, <1>3 DEF OwnInv, OwnPlans, Mine
<1> QED BY <1>1, <1>3, <1>4, OwnSame

(* The body goes back to where its marker and its sidecar still are. *)
LEMMA OwnMetadataFails ==
  ASSUME OneAtATime, TypeInv, TwinInv, KeepInv, OwnInv, NEW h \in Handler, WriteMetadataFails(h)
  PROVE  OwnInv'
<1> DEFINE x == Current.from
           y == Current.to
<1>1. op[h].pc = "meta"
  BY DEF WriteMetadataFails, At
<1>2. /\ Current = op[h] /\ Ways(Current) /\ Current.pc = "meta" /\ x \in Path /\ y \in Id
      /\ x \in Place /\ y \in Place /\ x # y
  BY <1>1, Going, PlaceAssumption DEF RequestShape, Request
<1>3. /\ file' = Moved(file, y, x) /\ owner' = Moved(owner, y, x)
      /\ UNCHANGED <<sidecar, marker, expired, typed, left>> /\ Current' = Rest
  BY <1>2, Ended DEF WriteMetadataFails, trash, past
<1>4. owner[y] = Current.note /\ owner[x] = None
  BY <1>2 DEF KeepInv, Carries, Moving
<1>5. /\ \A z \in Place : owner'[z] = IF z = y THEN None ELSE IF z = x THEN Current.note ELSE owner[z]
      /\ \A z \in Place : file'[z] = IF z = y THEN None ELSE IF z = x THEN file[y] ELSE file[z]
  BY <1>2, <1>3, <1>4 DEF Moved, TypeInv, TypeOK
<1> HIDE DEF x, y
<1>6. \A z \in Place : MarkerOf(z) = owner'[z] /\ SidecarOf(z) = owner'[z]
  BY <1>2, <1>5 DEF MarkerOf, SidecarOf, Between, Moving, x, y
<1>7. \A z \in Place : Residue(z) => Residue(z)'
  <2>1. x \notin expired
    BY <1>2, PlaceAssumption DEF TypeInv, TypeOK
  <2> QED BY <1>3, <1>5, <2>1, RestStill DEF Residue, Rest
<1>8. \A n, t : Mine(n, t)' = Mine(n, t)
  BY <1>3 DEF Mine
<1>9. ASSUME NEW z \in Place
      PROVE  /\ file'[z] # None => Mine(owner'[z], file'[z])
             /\ ~Residue(z)' /\ marker[z] # None => Mine(owner'[z], marker[z])
             /\ ~Residue(z)' /\ sidecar[z] # None => Mine(owner'[z], sidecar[z])
  <2>1. file'[z] # None => Mine(owner'[z], file'[z])
    BY <1>2, <1>4, <1>5 DEF OwnInv, OwnDisk
  <2>2. /\ ~Residue(z)' /\ marker[z] # None => Mine(owner'[z], marker[z])
        /\ ~Residue(z)' /\ sidecar[z] # None => Mine(owner'[z], sidecar[z])
    BY <1>6, <1>7 DEF OwnInv, OwnDisk
  <2> QED BY <2>1, <2>2
<1> QED BY <1>3, <1>8, <1>9, OwnQuiet

(* The text of a note that was left behind may lie anywhere. *)
LEMMA MineNone == ASSUME NEW t, NEW n, Mine(None, t) PROVE Mine(n, t)
  BY DEF Mine

LEMMA OwnMoveMarker ==
  ASSUME OneAtATime, TypeInv, TwinInv, KeepInv, OwnInv, NEW h \in Handler, MoveMarker(h)
  PROVE  OwnInv'
<1> DEFINE x == Current.from
           y == Current.to
<1>1. op[h].pc = "marker"
  BY DEF MoveMarker, At
<1>2. /\ Current = op[h] /\ x \in Place /\ y \in Place /\ x # y /\ Current.note # None
      /\ owner[y] = Current.note /\ owner[x] = None /\ Current.pc = "marker"
  BY <1>1, Relocating
<1>3. /\ UNCHANGED <<file, sidecar, expired, owner, typed, left>> /\ Go(h, "sidecar")
      /\ marker' = IF marker[x] = None THEN marker ELSE Moved(marker, x, y)
  BY <1>2 DEF MoveMarker, trash, past
<1>4. /\ Current'.from = x /\ Current'.to = y /\ Current'.note = Current.note
      /\ Current'.plan = Current.plan /\ Current'.kind = Current.kind /\ Current'.pc = "sidecar"
  BY <1>3, Gone
<1>5. /\ \A z \in Place : z # x /\ z # y => marker'[z] = marker[z]
      /\ marker'[x] = None
      /\ marker'[y] = IF marker[x] = None THEN marker[y] ELSE marker[x]
  BY <1>2, <1>3 DEF Moved, TypeInv, TypeOK
<1>6. ~Residue(x) /\ ~Residue(y)
  <2>1. Current.kind = "rename" => x \in Path
    BY <1>1, <1>2, Going DEF RequestShape
  <2>2. Current.kind \in {"delete", "restore", "rename"}
    BY <1>1, <1>2, Going DEF RequestShape, Request
  <2>3. ~Residue(y)
    BY <1>2 DEF Residue
  <2>4. x \in Path => ~Residue(x)
    BY NoResidue
  <2> QED BY <2>1, <2>2, <2>3, <2>4 DEF Residue
<1> HIDE DEF x, y
<1>7. /\ \A z \in Place : MarkerOf(z)' = owner[z] /\ SidecarOf(z)' = SidecarOf(z)
      /\ \A z \in Place : z # x /\ z # y => MarkerOf(z) = owner[z]
      /\ MarkerOf(x) = Current.note /\ MarkerOf(y) = None
  BY <1>2, <1>3, <1>4 DEF MarkerOf, SidecarOf, Between, Moving, x, y
<1>8. /\ \A n, t : Mine(n, t)' = Mine(n, t)
      /\ \A z : Owning(z)' = Owning(z) /\ Residue(z)' = Residue(z)
  BY <1>2, <1>3, <1>4 DEF Mine, Owning, Residue
<1>9. ASSUME NEW z \in Place, ~Residue(z), marker'[z] # None PROVE Mine(owner[z], marker'[z])
  BY <1>2, <1>5, <1>6, <1>7, <1>9, MineNone DEF OwnInv, OwnDisk
<1>10. OwnDisk'
  BY <1>3, <1>7, <1>8, <1>9 DEF OwnInv, OwnDisk
<1>11. OwnPlans'
  BY <1>4, <1>8 DEF OwnInv, OwnPlans
<1> QED BY <1>10, <1>11 DEF OwnInv

LEMMA OwnMoveSidecar ==
  ASSUME OneAtATime, TypeInv, TwinInv, KeepInv, OwnInv, NEW h \in Handler, MoveSidecar(h)
  PROVE  OwnInv'
<1> DEFINE x == Current.from
           y == Current.to
<1>1. op[h].pc = "sidecar"
  BY DEF MoveSidecar, At
<1>2. /\ Current = op[h] /\ x \in Place /\ y \in Place /\ x # y /\ Current.note # None
      /\ owner[y] = Current.note /\ owner[x] = None /\ Current.pc = "sidecar"
  BY <1>1, Relocating
<1>3. Current.kind \in {"delete", "restore", "rename"} /\ (Current.kind = "rename" => x \in Path)
  BY <1>1, <1>2, Going DEF RequestShape, Request
<1>4. /\ UNCHANGED <<file, marker, expired, owner, typed, left>> /\ Go(h, After(Current.kind))
      /\ sidecar' = IF sidecar[x] = None THEN sidecar ELSE Moved(sidecar, x, y)
  BY <1>2 DEF MoveSidecar, trash, past
<1>5. /\ Current'.from = x /\ Current'.to = y /\ Current'.note = Current.note
      /\ Current'.plan = Current.plan /\ Current'.kind = Current.kind
      /\ Current'.pc \in {"done", "forget", "write"} /\ Current'.pc \notin Moving
  BY <1>3, <1>4, Gone DEF After, Moving
<1>6. /\ \A z \in Place : z # x /\ z # y => sidecar'[z] = sidecar[z]
      /\ sidecar'[x] = None
      /\ sidecar'[y] = IF sidecar[x] = None THEN sidecar[y] ELSE sidecar[x]
  BY <1>2, <1>4 DEF Moved, TypeInv, TypeOK
<1>7. ~Residue(x) /\ ~Residue(y)
  <2>1. x \in Path => ~Residue(x)
    BY NoResidue
  <2> QED BY <1>2, <1>3, <2>1 DEF Residue
<1> HIDE DEF x, y
<1>8. /\ \A z \in Place : MarkerOf(z)' = owner[z] /\ SidecarOf(z)' = owner[z]
      /\ \A z \in Place : z # x /\ z # y => SidecarOf(z) = owner[z]
      /\ \A z \in Place : MarkerOf(z) = owner[z]
      /\ SidecarOf(x) = Current.note /\ SidecarOf(y) = None
  BY <1>2, <1>4, <1>5, StillNext DEF MarkerOf, SidecarOf, Between, Moving, x, y
<1>9. /\ \A n, t : Mine(n, t)' = Mine(n, t)
      /\ \A z : Owning(z)' = Owning(z) /\ Residue(z)' = Residue(z)
  BY <1>2, <1>4, <1>5 DEF Mine, Owning, Residue
<1>10. ASSUME NEW z \in Place, ~Residue(z), sidecar'[z] # None PROVE Mine(owner[z], sidecar'[z])
  BY <1>2, <1>6, <1>7, <1>8, <1>10, MineNone DEF OwnInv, OwnDisk
<1>11. OwnDisk'
  BY <1>4, <1>8, <1>9, <1>10 DEF OwnInv, OwnDisk
<1>12. OwnPlans'
  BY <1>5, <1>9 DEF OwnInv, OwnPlans
<1> QED BY <1>11, <1>12 DEF OwnInv

LEMMA OwnForget ==
  ASSUME OneAtATime, TypeInv, TwinInv, OwnInv, NEW h \in Handler, RemoveMetadata(h)
  PROVE  OwnInv'
<1>1. op[h].pc = "forget"
  BY DEF RemoveMetadata, At
<1>2. Current = op[h] /\ Current.pc = "forget" /\ Current.kind = "restore"
  BY <1>1, Going DEF RequestShape, Request
<1>3. UNCHANGED <<file, sidecar, marker, owner, typed, left>> /\ Go(h, "done")
  BY DEF RemoveMetadata, disk, past
<1>4. /\ Current'.pc = "done" /\ Current'.plan = Current.plan /\ Current'.kind = Current.kind
  BY <1>3, Gone
<1>5. /\ \A z \in Place : MarkerOf(z)' = MarkerOf(z) /\ SidecarOf(z)' = SidecarOf(z)
      /\ \A z \in Place : Residue(z) => Residue(z)'
      /\ \A z : Owning(z)' = Owning(z)
  BY <1>2, <1>3, <1>4, Still, StillNext DEF Moving, Residue, Owning
<1>6. OwnPlans'
  BY <1>3, <1>4, <1>5 DEF OwnInv, OwnPlans, Mine
<1> QED BY <1>3, <1>5, <1>6, OwnSame

LEMMA OwnWrite ==
  ASSUME OneAtATime, TypeInv, TwinInv, OwnInv, NEW h \in Handler, Write(h)
  PROVE  OwnInv'
<1>1. op[h].pc = "write"
  BY DEF Write, At
<1>2. /\ Current = op[h] /\ Current.pc = "write" /\ Current \in Request /\ Ways(Current)
  BY <1>1, Going
<1>3. PICK c \in Current.plan :
        /\ file' = [file EXCEPT ![c.at] = c.text]
        /\ op' = [op EXCEPT ![h].plan = @ \ {c}]
        /\ owner' = IF owner[c.at] = None THEN [owner EXCEPT ![c.at] = op[h].note] ELSE owner
  BY <1>2 DEF Write
<1>4. c.at \in Place /\ owner[c.at] # None
  BY <1>2 DEF Request, Planned, Place, Ways
<1>5. UNCHANGED <<sidecar, marker, expired, typed, owner, left>>
  BY <1>3, <1>4 DEF Write, trash
<1>6. /\ Current'.pc = "write" /\ Current'.plan = Current.plan \ {c} /\ Current'.kind = Current.kind
      /\ Current'.to = Current.to /\ Current'.note = Current.note
  BY <1>2, <1>3, CurrentIs DEF TypeInv, TypeOK, Request
<1>7. file'[c.at] = c.text /\ \A z \in Place : z # c.at => file'[z] = file[z]
  BY <1>3, <1>4 DEF TypeInv, TypeOK
<1>8. /\ \A n, t : Mine(n, t)' = Mine(n, t)
      /\ \A z : Owning(z)' = Owning(z) /\ Residue(z)' = Residue(z)
      /\ \A z : MarkerOf(z)' = MarkerOf(z) /\ SidecarOf(z)' = SidecarOf(z)
  BY <1>2, <1>5, <1>6, Still, StillNext DEF Mine, Owning, Residue, Moving
<1>9. Mine(owner[c.at], c.text)
  BY <1>2 DEF OwnInv, OwnPlans, Owning
<1>10. OwnDisk'
  BY <1>5, <1>7, <1>8, <1>9 DEF OwnInv, OwnDisk
<1>11. OwnPlans'
  BY <1>6, <1>8 DEF OwnInv, OwnPlans
<1> QED BY <1>10, <1>11 DEF OwnInv

LEMMA OwnStep ==
  ASSUME OneAtATime, TypeInv, TwinInv, KeepInv, OwnInv, NEW h \in Handler, Step(h)
  PROVE  OwnInv'
<1>1. Current = op[h] /\ Current' = op'[h]
  BY CurrentIs
<1>2. CASE WriteDone(h)
  <2>1. /\ Current.pc = "write" /\ Go(h, "done")
        /\ UNCHANGED <<file, sidecar, marker, owner, typed, left, expired>>
    BY <1>1, <1>2 DEF WriteDone, At, disk, trash, past
  <2>2. /\ Current'.pc = "done" /\ Current'.plan = Current.plan /\ Current'.kind = Current.kind
    BY <2>1, Gone
  <2>3. /\ \A z \in Place : MarkerOf(z)' = MarkerOf(z) /\ SidecarOf(z)' = SidecarOf(z)
        /\ \A z \in Place : Residue(z) => Residue(z)'
        /\ \A z : Owning(z)' = Owning(z)
    BY <2>1, <2>2, Still, StillNext DEF Moving, Residue, Owning
  <2>4. OwnPlans'
    BY <2>1, <2>2, <2>3 DEF OwnInv, OwnPlans, Mine
  <2> QED BY <2>1, <2>3, <2>4, OwnSame
<1>3. CASE Finish(h)
  <2>1. /\ Current.pc \notin Moving /\ Current' = Rest
        /\ UNCHANGED <<file, sidecar, marker, owner, typed, left, expired>>
    BY <1>1, <1>3, Ended DEF Finish, At, disk, trash, past, Moving
  <2> QED BY <2>1, OwnStopped
<1>4. CASE Fail(h)
  <2>1. /\ Current' = Rest /\ left' = left \cup Strewn(h)
        /\ UNCHANGED <<file, sidecar, marker, owner, typed, expired>>
    BY <1>1, <1>4, Ended DEF Fail, disk, trash
  <2>2. Current.pc \in Moving => Current.note \in left'
    BY <1>1, <2>1 DEF Strewn, Moving
  <2> QED BY <2>1, <2>2, OwnStopped
<1> QED
  BY <1>2, <1>3, <1>4, OwnFlush, OwnPlan, OwnMove, OwnMetadata, OwnMetadataFails,
    OwnMoveMarker, OwnMoveSidecar, OwnForget, OwnWrite DEF Step

LEMMA OwnNext ==
  OneAtATime /\ TypeInv /\ TwinInv /\ KeepInv /\ OwnInv /\ [Next]_vars => OwnInv'
<1> SUFFICES ASSUME OneAtATime, TypeInv, TwinInv, KeepInv, OwnInv, [Next]_vars PROVE OwnInv'
  OBVIOUS
<1>1. ASSUME NEW p \in Path,
             \/ Open(p) \/ Flush(p) \/ Leave(p) \/ Inspect(p)
             \/ \E e \in Edit : Type(p, e)
             \/ \E q \in Target : Link(p, q)
      PROVE  OwnInv'
  BY <1>1, OwnOpen, OwnWritten, OwnInspect, OwnTyped
<1>2. ASSUME NEW h \in Handler, Step(h) PROVE OwnInv'
  BY <1>2, OwnStep
<1>3. CASE UNCHANGED <<op, file, sidecar, marker, owner, typed, left>> /\ expired \subseteq expired'
  <2>1. Current' = Current
    BY <1>3 DEF Current
  <2>2. /\ \A z \in Place : MarkerOf(z)' = MarkerOf(z) /\ SidecarOf(z)' = SidecarOf(z)
        /\ \A z \in Place : Residue(z) => Residue(z)'
        /\ \A z : Owning(z)' = Owning(z)
    BY <1>3, <2>1 DEF MarkerOf, SidecarOf, Between, Residue, Owning
  <2>3. OwnPlans'
    BY <1>3, <2>1, <2>2 DEF OwnInv, OwnPlans, Mine
  <2> QED BY <1>3, <2>2, <2>3, OwnSame
<1>4. ASSUME NEW i \in Id, Expire(i) PROVE OwnInv'
  BY <1>3, <1>4 DEF Expire, disk, past
<1>5. ASSUME NEW i \in Id, NEW steps \in 1..4, Purge(i, steps) PROVE OwnInv'
  BY <1>5, OwnPurge
<1>6. ASSUME NEW p \in Path, NEW n \in Note, Create(p, n) PROVE OwnInv'
  BY <1>6, OwnCreate
<1>7. ASSUME NEW h \in Handler,
             \/ \E p \in Path, i \in Id : Delete(h, p, i)
             \/ \E i \in Id : Restore(h, i)
             \/ \E p, q \in Path : Rename(h, p, q)
      PROVE  OwnInv'
  BY <1>7, OwnBegin DEF Delete, Restore, Rename
<1>8. CASE Crash
  <2>1. Current' = Rest
    BY <1>8, QuietRests DEF Crash, Current
  <2>2. /\ UNCHANGED <<file, sidecar, marker, owner, typed, expired>>
        /\ left' = left \cup UNION {Strewn(h) : h \in Handler}
    BY <1>8 DEF Crash, disk, trash
  <2>3. Current.pc \in Moving => Current.note \in left'
    <3>1. ASSUME NEW h \in Handler, Current.pc \in Moving PROVE Current.note \in left'
      <4>1. Current.note \in Strewn(h)
        BY <3>1, CurrentIs DEF Strewn, Moving
      <4> QED BY <2>2, <4>1
    <3>2. (\A h \in Handler : FALSE) => Current.pc \notin Moving
      BY RestStill DEF Current
    <3> QED BY <3>1, <3>2
  <2> QED BY <2>1, <2>2, <2>3, OwnStopped
<1>9. CASE UNCHANGED vars
  BY <1>3, <1>9 DEF vars, disk, trash, past
<1> QED BY <1>1, <1>2, <1>4, <1>5, <1>6, <1>7, <1>8, <1>9 DEF Next

LEMMA OwnInit == Init => OwnInv
<1> SUFFICES ASSUME Init PROVE OwnInv
  OBVIOUS
<1>1. Current = Rest
  BY CurrentRests DEF Init, AtRest
<1> QED BY <1>1, RestStill DEF Init, OwnInv, OwnDisk, OwnPlans

(* One request at a time, nobody is shown at a path what was typed into another note: not
   after a request that failed or died before it moved the file, or after it moved the
   sidecar, and not after a purge, however far it got (relocate_sidecar, purge).  Left out
   is what was typed into a note whose marker or sidecar a failure or a crash left behind
   after its file had moved; the code does show that. *)
THEOREM NobodyElses == ASSUME OneAtATime PROVE Spec => []NothingResurrected
<1>1. TypeInv /\ KeepInv /\ OwnInv => NothingResurrected
  <2> SUFFICES ASSUME TypeInv, KeepInv, OwnInv, AtRest, NEW p \in Path, p \in Live,
                      NEW e \in Shown(p).edits
      PROVE  typed[e] = owner[p] \/ typed[e] \in left
    BY DEF NothingResurrected, Live
  <2>1. Mine(owner[p], Shown(p))
    BY CurrentRests, OwnShown
  <2> QED BY <2>1 DEF Mine
<1>2. OneAtATime /\ TypeInv /\ TwinInv /\ KeepInv /\ OwnInv /\ [Next]_vars => OwnInv'
  BY OwnNext
<1> QED BY <1>1, <1>2, OwnInit, KeepAlways, PTL DEF Spec
=============================================================================
