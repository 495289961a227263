-------------------------- MODULE VaultIndex_proofs --------------------------
(* What a walk leaves behind is right, and the signal keeps its promise inside the
   maintenance loop, for every set of paths and texts and every bound. *)
EXTENDS VaultIndex, WatchSignal_proofs

(* The shape of a tick: at most one note is being read, and what a walk has to read
   are notes it found. *)
JobShape ==
  /\ job.at = {} \/ \E p \in Path : job.at = {p}
  /\ job.pc \in {"next", "publish", "list", "reconcile"} => job.at = {}
  /\ job.pc = "publish" => job.todo = {}
  /\ job.full /\ job.pc \in {"reconcile", "next", "read", "upsert"} =>
       job.todo \cup job.at \subseteq job.present

(* Stamps are those of changes that were made. *)
StampsPast ==
  /\ \A p \in Path : file[p].stamp <= writes /\ row[p].stamp <= writes
  /\ job.stamp <= writes

(* A stamp that is still the file's says that the text that goes with it is. *)
Fresher ==
  /\ \A p \in Path :
       /\ row[p].text # Absent /\ file[p].text # Absent /\ row[p].stamp = file[p].stamp
            => row[p].text = file[p].text
  /\ job.pc = "upsert" => \A p \in job.at :
       file[p].text # Absent /\ job.stamp = file[p].stamp => job.text = file[p].text

(* What a walk has settled of the notes that keep still. *)
Settling ==
  job.full /\ job.pc \in {"reconcile", "next", "read", "upsert", "publish"} =>
    \A p \in steady :
      /\ p \in job.present <=> file[p].text # Absent
      /\ p \in job.present \ (job.todo \cup job.at) => row[p].text = file[p].text
      /\ p \notin job.present /\ job.pc # "reconcile" => row[p].text = Absent
      /\ p \in job.at => job.stamp = file[p].stamp

WalkInv == SignalInv /\ IndexTypeOK /\ JobShape /\ StampsPast /\ Fresher /\ Settling

-----------------------------------------------------------------------------
LEMMA SmallSets ==
  /\ Cardinality({}) <= 1
  /\ \A p \in Path : Cardinality({p}) <= 1
<1>1. Cardinality({}) = 0
  BY FS_EmptySet
<1>2. \A p \in Path : Cardinality({p}) = 1
  BY FS_Singleton
<1> QED BY <1>1, <1>2

(* The loop uses the signal as the signal is meant to be used; only a death of the
   process resets it. *)
LEMMA SignalStep == [NextIndex]_vars => [Next]_signal \/ Crash
<1> SUFFICES ASSUME [NextIndex]_vars, ~Crash PROVE [Next]_signal
  OBVIOUS
<1>1. ASSUME NEW p \in Path, Deliver(p) PROVE [Next]_signal
  BY <1>1 DEF Deliver, Next, Watcher
<1>2. CASE FinishTouch
  BY <1>2 DEF FinishTouch, Next, Watcher
<1>3. CASE Take
  BY <1>3 DEF Take, Next, Taker
<1> QED
  BY <1>1, <1>2, <1>3 DEF NextIndex, vars, Write, Flush, Maintain, Walking, List, Reconcile,
    StampNote, ReadNote, Upsert, Settled, Publish, UpsertFails, PassFails, PublishFails, Start

LEMMA SignalKept == SignalInv /\ [NextIndex]_vars => SignalInv'
<1>1. Crash => Init'
  BY DEF Crash, Init
<1>2. Init' => SignalInv'
  BY InitEstablishes, PTL
<1> QED BY <1>1, <1>2, SignalStep, StepPreserves

LEMMA WalkInit == InitIndex => WalkInv
<1> SUFFICES ASSUME InitIndex PROVE WalkInv
  OBVIOUS
<1>1. SignalInv
  BY InitEstablishes DEF InitIndex
<1>2. IndexTypeOK
  <2>1. job = [pc |-> "down", full |-> FALSE, present |-> {}, todo |-> {}, at |-> {},
               stamp |-> 0, text |-> Absent]
    BY DEF InitIndex, Idle
  <2>2. 0 \in Stamps /\ Absent \in Texts
    BY MaxWritesAssumption DEF Stamps, Texts
  <2>3. file \in [Path -> [text : Texts, stamp : Stamps]]
    BY <2>2 DEF InitIndex
  <2>4. row \in [Path -> [text : Texts, stamp : Stamps]]
    BY <2>2 DEF InitIndex, NoRow
  <2>5. Cardinality(job.at) <= 1
    BY <2>1, SmallSets
  <2>6. job \in [pc : {"down", "idle", "tick", "list", "reconcile", "next", "read",
                       "upsert", "publish"},
                 full : BOOLEAN, present : SUBSET Path, todo : SUBSET Path,
                 at : SUBSET Path, stamp : Stamps, text : Texts]
    BY <2>1, <2>2
  <2>7. found \in [Path -> Texts] /\ queued \in [Path -> Texts \cup {Keep}] /\ writes \in Stamps
    BY <2>2 DEF InitIndex
  <2> QED BY <1>1, <2>3, <2>4, <2>5, <2>6, <2>7 DEF InitIndex, IndexTypeOK, SignalInv
<1>3. JobShape /\ StampsPast /\ Fresher /\ Settling
  BY MaxWritesAssumption
    DEF InitIndex, JobShape, StampsPast, Fresher, Settling, Idle, NoRow, Texts, Stamps
<1> QED BY <1>1, <1>2, <1>3 DEF WalkInv

(* A file that is written or removed is not steady, and has a stamp of its own. *)
LEMMA PutKeeps ==
  ASSUME WalkInv, NEW p \in Path, NEW t \in Texts, Put(p, t), writes < MaxWrites,
         UNCHANGED <<index, lost>>, SignalInv',
         \/ UNCHANGED job
         \/ job.pc = "tick" /\ job' = [job EXCEPT !.todo = @ \cup {p}]
  PROVE  WalkInv'
<1> USE MaxWritesAssumption DEF WalkInv, index
<1>1. /\ file' = [file EXCEPT ![p] = [text |-> t, stamp |-> IF t = Absent THEN 0 ELSE writes + 1]]
      /\ writes' = writes + 1 /\ writes' \in Stamps /\ steady' = steady \ {p}
      /\ events' \subseteq Path
  BY DEF Put, IndexTypeOK, Stamps
<1>2. job'.at = job.at /\ job'.stamp = job.stamp /\ job'.text = job.text /\ job'.pc = job.pc
      /\ job'.full = job.full /\ job'.present = job.present
      /\ (job.pc # "tick" => job' = job)
  BY DEF IndexTypeOK
<1>3. IndexTypeOK'
  <2>1. file' \in [Path -> [text : Texts, stamp : Stamps]]
    BY <1>1 DEF IndexTypeOK, Stamps
  <2>2. job' \in [pc : {"down", "idle", "tick", "list", "reconcile", "next", "read",
                        "upsert", "publish"},
                  full : BOOLEAN, present : SUBSET Path, todo : SUBSET Path,
                  at : SUBSET Path, stamp : Stamps, text : Texts]
    BY DEF IndexTypeOK
  <2> QED BY <1>1, <1>2, <2>1, <2>2 DEF IndexTypeOK, SignalInv
<1>4. JobShape'
  BY <1>2 DEF JobShape
<1>5. StampsPast'
  BY <1>1, <1>2 DEF StampsPast, IndexTypeOK, Stamps
<1>6. Fresher'
  BY <1>1, <1>2 DEF Fresher, StampsPast, IndexTypeOK, Stamps
<1>7. Settling'
  BY <1>1, <1>2 DEF Settling, IndexTypeOK
<1> QED BY <1>3, <1>4, <1>5, <1>6, <1>7

(* What is not about the files, the rows or the tick leaves the rest alone. *)
LEMMA OutsideKeeps ==
  ASSUME WalkInv, SignalInv', UNCHANGED <<file, writes, index, job>>, lost' \in BOOLEAN,
         events' \subseteq Path, steady' \subseteq steady
  PROVE  WalkInv'
<1> USE DEF WalkInv, index
<1>1. IndexTypeOK'
  BY DEF IndexTypeOK, SignalInv
<1>2. JobShape' /\ StampsPast' /\ Fresher'
  BY DEF JobShape, StampsPast, Fresher
<1>3. Settling'
  BY DEF Settling
<1> QED BY <1>1, <1>2, <1>3

(* A tick that is over, or begins anew, owes nothing. *)
LEMMA RestartKeeps ==
  ASSUME WalkInv, SignalInv', UNCHANGED <<file, writes>>, lost' \in BOOLEAN,
         events' \subseteq Path, steady' \subseteq Path,
         row' \in [Path -> [text : Texts, stamp : Stamps]], found' \in [Path -> Texts],
         queued' \in [Path -> Texts \cup {Keep}],
         \A p \in Path : \/ row'[p] = row[p] \/ row'[p] = NoRow
                        \/ /\ job.pc = "upsert" /\ p \in job.at
                           /\ row'[p] = [text |-> job.text, stamp |-> job.stamp],
         NEW pc \in {"down", "idle", "tick", "list", "next"}, NEW full \in BOOLEAN,
         NEW todo \in SUBSET Path, pc = "next" => ~full,
         job' = [pc |-> pc, full |-> full, present |-> {}, todo |-> todo, at |-> {},
                 stamp |-> 0, text |-> Absent]
  PROVE  WalkInv'
<1> USE MaxWritesAssumption DEF WalkInv
<1>1. 0 \in Stamps /\ Absent \in Texts
  BY DEF Stamps, Texts
<1>2. IndexTypeOK'
  <2>1. job' \in [pc : {"down", "idle", "tick", "list", "reconcile", "next", "read", "upsert",
                        "publish"},
                  full : BOOLEAN, present : SUBSET Path, todo : SUBSET Path,
                  at : SUBSET Path, stamp : Stamps, text : Texts]
    BY <1>1
  <2>2. Cardinality(job'.at) <= 1
    BY SmallSets
  <2> QED BY <2>1, <2>2 DEF IndexTypeOK, SignalInv
<1>3. JobShape'
  BY DEF JobShape
<1>4. StampsPast'
  BY DEF StampsPast, NoRow, IndexTypeOK, Stamps
<1>5. Fresher'
  BY DEF Fresher, NoRow
<1>6. Settling'
  BY DEF Settling
<1> QED BY <1>2, <1>3, <1>4, <1>5, <1>6

LEMMA WalkNext == WalkInv /\ [NextIndex]_vars => WalkInv'
<1> SUFFICES ASSUME WalkInv, [NextIndex]_vars PROVE WalkInv'
  OBVIOUS
<1>0. SignalInv'
  BY SignalKept DEF WalkInv
<1> USE <1>0
<1>1. ASSUME NEW p \in Path, NEW t \in Texts, Write(p, t) PROVE WalkInv'
  BY <1>1, PutKeeps DEF Write
<1>2. ASSUME NEW p \in Path, NEW t \in Texts, Flush(p, t) PROVE WalkInv'
  BY <1>2, PutKeeps DEF Flush
<1>3. ASSUME NEW p \in Path, Deliver(p) PROVE WalkInv'
  <2>1. lost' \in BOOLEAN /\ events' \subseteq Path
    BY <1>3 DEF Deliver, WalkInv, IndexTypeOK
  <2> QED BY <1>3, <2>1, OutsideKeeps DEF Deliver
<1>4. CASE FinishTouch
  BY <1>4, OutsideKeeps DEF FinishTouch, WalkInv, IndexTypeOK
<1>5. CASE Take /\ job.pc = "idle" /\ job' = job
  BY <1>5, OutsideKeeps DEF Take, WalkInv, IndexTypeOK
<1>6. CASE Take /\ job.pc = "idle" /\ job' = [job EXCEPT !.pc = "tick"]
  <2>1. UNCHANGED <<file, writes, events, index, steady, lost>>
    BY <1>6 DEF Take
  <2>2. IndexTypeOK'
    BY <1>6, <2>1 DEF WalkInv, IndexTypeOK, SignalInv, index
  <2>3. JobShape'
    BY <1>6 DEF WalkInv, IndexTypeOK, JobShape
  <2>4. StampsPast' /\ Fresher'
    BY <1>6, <2>1 DEF WalkInv, IndexTypeOK, StampsPast, Fresher, index
  <2>5. Settling'
    BY <1>6, <2>1 DEF WalkInv, IndexTypeOK, Settling
  <2> QED BY <2>2, <2>3, <2>4, <2>5 DEF WalkInv
<1>7. ASSUME NEW sweep \in BOOLEAN, NEW walk \in BOOLEAN, Maintain(sweep, walk) PROVE WalkInv'
  <2>1. given.paths \subseteq Path /\ given.all \in BOOLEAN
    <3>1. given \in {All} \cup {Only(p) : p \in SUBSET Path}
      BY DEF WalkInv, SignalInv, TypeOK
    <3>2. ASSUME NEW p \in SUBSET Path, given = Only(p)
          PROVE  given.paths = p /\ given.all = FALSE
      BY <3>2 DEF Only
    <3>3. CASE given = All
      BY <3>3 DEF All
    <3> QED BY <3>1, <3>2, <3>3
  <2> DEFINE full == given.all \/ sweep \/ walk
             paths == given.paths \cup job.todo
  <2>2. full \in BOOLEAN /\ paths \in SUBSET Path
    BY <2>1 DEF WalkInv, IndexTypeOK
  <2>3. Begin(full, paths) /\ UNCHANGED <<signal, file, writes, events, index, steady, lost>>
    BY <1>7 DEF Maintain
  <2> HIDE DEF full, paths
  <2>4. PICK todo \in SUBSET Path, pc \in {"idle", "list", "next"} :
          /\ pc = "next" => ~full
          /\ job' = [pc |-> pc, full |-> full, present |-> {}, todo |-> todo, at |-> {},
                     stamp |-> 0, text |-> Absent]
    <3>1. CASE full
      BY <2>3, <3>1 DEF Begin, Idle
    <3>2. CASE ~full
      BY <2>2, <2>3, <3>2 DEF Begin, Idle
    <3> QED BY <3>1, <3>2
  <2> QED BY <2>2, <2>3, <2>4, RestartKeeps DEF index, WalkInv, IndexTypeOK
<1>8. CASE List
  <2> USE DEF WalkInv
  <2>1. /\ UNCHANGED <<file, writes, events, index, lost>> /\ steady' = Path
        /\ job.pc = "list" /\ job'.pc = "reconcile" /\ job'.at = {} /\ job'.full = job.full
        /\ job'.stamp = job.stamp
        /\ job'.present = {p \in Path : file[p].text # Absent}
        /\ job'.todo = {p \in Path : file[p].text # Absent
                          /\ (row[p].text = Absent \/ row[p].stamp # file[p].stamp)}
    BY <1>8 DEF List, IndexTypeOK, JobShape
  <2>2. IndexTypeOK'
    BY <1>8 DEF List, IndexTypeOK, SignalInv, index
  <2>3. JobShape'
    BY <2>1 DEF JobShape
  <2>4. StampsPast' /\ Fresher'
    BY <2>1 DEF StampsPast, Fresher, index
  <2>5. Settling'
    BY <2>1 DEF Settling, Fresher, index
  <2> QED BY <2>2, <2>3, <2>4, <2>5
<1>9. CASE Reconcile
  <2> USE DEF WalkInv
  <2> DEFINE removed == {p \in Path \ job.present : row[p].text # Absent}
  <2>1. /\ UNCHANGED <<file, writes, events, found, steady, lost>>
        /\ row' = [p \in Path |-> IF p \in removed THEN NoRow ELSE row[p]]
        /\ queued' = [p \in Path |-> IF p \in removed THEN Absent ELSE queued[p]]
        /\ job.pc = "reconcile" /\ job' = [job EXCEPT !.pc = "next"]
    BY <1>9 DEF Reconcile
  <2>2. NoRow \in [text : Texts, stamp : Stamps] /\ Absent \in Texts
    BY MaxWritesAssumption DEF NoRow, Texts, Stamps
  <2>3. IndexTypeOK'
    <3>1. row' \in [Path -> [text : Texts, stamp : Stamps]]
      BY <2>1, <2>2 DEF IndexTypeOK
    <3>2. queued' \in [Path -> Texts \cup {Keep}]
      BY <2>1, <2>2 DEF IndexTypeOK
    <3> QED BY <2>1, <3>1, <3>2 DEF IndexTypeOK, SignalInv
  <2>4. JobShape'
    BY <2>1 DEF JobShape, IndexTypeOK
  <2>5. StampsPast' /\ Fresher'
    BY <2>1, MaxWritesAssumption DEF StampsPast, Fresher, NoRow, IndexTypeOK, Stamps
  <2>6. Settling'
    BY <2>1 DEF Settling, NoRow, IndexTypeOK
  <2> QED BY <2>3, <2>4, <2>5, <2>6
<1>10. ASSUME NEW p \in Path, StampNote(p) PROVE WalkInv'
  <2> USE DEF WalkInv
  <2>1. /\ UNCHANGED <<file, writes, events, found, steady, lost>>
        /\ job.pc = "next" /\ p \in job.todo /\ job.at = {}
    BY <1>10 DEF StampNote, JobShape
  <2>2. CASE file[p].text = Absent
    <3>1. /\ row' = [row EXCEPT ![p] = NoRow] /\ job' = [job EXCEPT !.todo = @ \ {p}]
          /\ queued' = queued \/ queued' = [queued EXCEPT ![p] = Absent]
      BY <1>10, <2>2 DEF StampNote
    <3>2. NoRow \in [text : Texts, stamp : Stamps] /\ Absent \in Texts
      BY MaxWritesAssumption DEF NoRow, Texts, Stamps
    <3>3. IndexTypeOK'
      <4>1. queued' \in [Path -> Texts \cup {Keep}] /\ row' \in [Path -> [text : Texts, stamp : Stamps]]
        BY <3>1, <3>2 DEF IndexTypeOK
      <4> QED BY <2>1, <3>1, <4>1 DEF IndexTypeOK, SignalInv
    <3>4. JobShape'
      BY <2>1, <3>1 DEF JobShape, IndexTypeOK
    <3>5. StampsPast' /\ Fresher'
      BY <2>1, <3>1, MaxWritesAssumption
        DEF StampsPast, Fresher, NoRow, IndexTypeOK, Stamps
    <3>6. Settling'
      BY <2>1, <2>2, <3>1 DEF Settling, NoRow, IndexTypeOK, JobShape
    <3> QED BY <3>3, <3>4, <3>5, <3>6
  <2>3. CASE file[p].text # Absent
    <3>1. /\ UNCHANGED <<row, queued>>
          /\ job' = [job EXCEPT !.todo = @ \ {p}, !.at = {p}, !.pc = "read",
                                !.stamp = file[p].stamp]
      BY <1>10, <2>3 DEF StampNote
    <3>2. IndexTypeOK'
      BY <2>1, <3>1, SmallSets DEF IndexTypeOK, SignalInv
    <3>3. JobShape'
      BY <2>1, <3>1 DEF JobShape, IndexTypeOK
    <3>4. StampsPast' /\ Fresher'
      BY <2>1, <3>1 DEF StampsPast, Fresher, IndexTypeOK
    <3>5. Settling'
      BY <2>1, <3>1 DEF Settling, IndexTypeOK
    <3> QED BY <3>2, <3>3, <3>4, <3>5
  <2> QED BY <2>2, <2>3
<1>11. ASSUME NEW p \in Path, ReadNote(p) PROVE WalkInv'
  <2> USE DEF WalkInv
  <2>1. /\ UNCHANGED <<file, writes, events, index, lost>>
        /\ job.pc = "read" /\ job.at = {p} /\ job'.full = job.full /\ job'.todo = job.todo
        /\ job'.stamp = job.stamp /\ job'.present = job.present
    BY <1>11 DEF ReadNote, JobShape, IndexTypeOK
  <2>2. CASE file[p].text # Absent /\ steady' = steady
             /\ job' = [job EXCEPT !.pc = "upsert", !.text = file[p].text]
    <3>1. IndexTypeOK'
      BY <2>1, <2>2 DEF IndexTypeOK, SignalInv, index
    <3>2. JobShape' /\ StampsPast' /\ Fresher'
      BY <2>1, <2>2 DEF JobShape, StampsPast, Fresher, IndexTypeOK, index
    <3>3. Settling'
      BY <2>1, <2>2 DEF Settling, IndexTypeOK, index
    <3> QED BY <3>1, <3>2, <3>3
  <2>3. CASE job' = [job EXCEPT !.pc = "next", !.at = {}] /\ steady' = steady \ {p}
    <3>1. IndexTypeOK'
      BY <2>1, <2>3, SmallSets DEF IndexTypeOK, SignalInv, index
    <3>2. JobShape' /\ StampsPast' /\ Fresher'
      BY <2>1, <2>3 DEF JobShape, StampsPast, Fresher, IndexTypeOK, index
    <3>3. Settling'
      BY <2>1, <2>3 DEF Settling, IndexTypeOK, index
    <3> QED BY <3>1, <3>2, <3>3
  <2> QED BY <1>11, <2>2, <2>3 DEF ReadNote
<1>12. ASSUME NEW p \in Path, Upsert(p) PROVE WalkInv'
  <2> USE DEF WalkInv
  <2>1. /\ UNCHANGED <<file, writes, events, found, steady, lost>>
        /\ job.pc = "upsert" /\ job.at = {p}
        /\ row' = [row EXCEPT ![p] = [text |-> job.text, stamp |-> job.stamp]]
        /\ queued' = queued \/ queued' = [queued EXCEPT ![p] = job.text]
        /\ job' = [job EXCEPT !.pc = "next", !.at = {}, !.text = Absent]
    BY <1>12 DEF Upsert, JobShape
  <2>2. IndexTypeOK'
    <3>1. queued' \in [Path -> Texts \cup {Keep}] /\ row' \in [Path -> [text : Texts, stamp : Stamps]]
      BY <2>1 DEF IndexTypeOK
    <3>2. job' \in [pc : {"down", "idle", "tick", "list", "reconcile", "next", "read", "upsert",
                          "publish"},
                    full : BOOLEAN, present : SUBSET Path, todo : SUBSET Path,
                    at : SUBSET Path, stamp : Stamps, text : Texts]
      BY <2>1 DEF IndexTypeOK, Texts
    <3> QED BY <2>1, <3>1, <3>2, SmallSets DEF IndexTypeOK, SignalInv
  <2>3. JobShape'
    BY <2>1 DEF JobShape, IndexTypeOK
  <2>4. StampsPast' /\ Fresher'
    BY <2>1 DEF StampsPast, Fresher, IndexTypeOK
  <2>5. Settling'
    BY <2>1 DEF Settling, Fresher, JobShape, IndexTypeOK
  <2> QED BY <2>2, <2>3, <2>4, <2>5
<1>13. CASE Settled
  <2> USE DEF WalkInv
  <2>1. /\ UNCHANGED <<file, writes, events, index, steady, lost>> /\ job.todo = {}
        /\ job.pc = "next" /\ job' = [job EXCEPT !.pc = "publish"]
    BY <1>13 DEF Settled
  <2>2. IndexTypeOK'
    BY <2>1 DEF IndexTypeOK, SignalInv, index
  <2>3. JobShape' /\ StampsPast' /\ Fresher'
    BY <2>1 DEF JobShape, StampsPast, Fresher, IndexTypeOK, index
  <2>4. Settling'
    BY <2>1 DEF Settling, IndexTypeOK, index
  <2> QED BY <2>2, <2>3, <2>4
<1>14. CASE PassFails \/ Publish \/ PublishFails \/ Crash
  <2>1. PICK pc \in {"idle", "down"} :
          job' = [pc |-> pc, full |-> FALSE, present |-> {}, todo |-> {}, at |-> {},
                  stamp |-> 0, text |-> Absent]
    BY <1>14 DEF PassFails, Publish, PublishFails, Crash, Idle
  <2>2. /\ UNCHANGED <<file, writes, row>> /\ lost' \in BOOLEAN /\ events' \subseteq Path
        /\ steady' \subseteq Path
    BY <1>14 DEF PassFails, Publish, PublishFails, Crash, WalkInv, IndexTypeOK, index
  <2>3. found' \in [Path -> Texts] /\ queued' \in [Path -> Texts \cup {Keep}]
    BY <1>14 DEF PassFails, Publish, PublishFails, Crash, Merged, WalkInv, IndexTypeOK, index
  <2>4. /\ row' \in [Path -> [text : Texts, stamp : Stamps]]
        /\ \A p \in Path : row'[p] = row[p] \/ row'[p] = NoRow
    BY <2>2 DEF WalkInv, IndexTypeOK
  <2>5. {} \in SUBSET Path /\ FALSE \in BOOLEAN
    OBVIOUS
  <2> HIDE DEF NoRow
  <2> QED BY <2>1, <2>2, <2>3, <2>4, <2>5, RestartKeeps
<1>15. CASE Start
  <2>1. job' = [pc |-> "list", full |-> TRUE, present |-> {}, todo |-> {}, at |-> {},
                stamp |-> 0, text |-> Absent]
    BY <1>15 DEF Start, Begin, Idle
  <2>2. NoRow \in [text : Texts, stamp : Stamps] /\ Absent \in Texts
    BY MaxWritesAssumption DEF NoRow, Texts, Stamps
  <2>3. /\ UNCHANGED <<file, writes, events, queued, steady, lost>>
        /\ row' = row \/ row' = [p \in Path |-> NoRow]
        /\ found' = found \/ found' = [p \in Path |-> Absent]
    BY <1>15 DEF Start
  <2>4. /\ row' \in [Path -> [text : Texts, stamp : Stamps]] /\ found' \in [Path -> Texts]
        /\ \A p \in Path : row'[p] = row[p] \/ row'[p] = NoRow
    BY <2>2, <2>3 DEF WalkInv, IndexTypeOK
  <2>5. /\ events' \subseteq Path /\ steady' \subseteq Path /\ lost' \in BOOLEAN
        /\ queued' \in [Path -> Texts \cup {Keep}] /\ UNCHANGED <<file, writes>>
    BY <2>3 DEF WalkInv, IndexTypeOK
  <2>6. {} \in SUBSET Path /\ TRUE \in BOOLEAN
    OBVIOUS
  <2> QED BY <2>1, <2>4, <2>5, <2>6, RestartKeeps
<1>16. ASSUME NEW p \in Path, UpsertFails(p) PROVE WalkInv'
  <2> USE DEF WalkInv
  <2>1. /\ UNCHANGED <<file, writes, events, found, lost>> /\ steady' = {}
        /\ job.pc = "upsert" /\ p \in job.at
        /\ row' = row \/ row' = [row EXCEPT ![p] = [text |-> job.text, stamp |-> job.stamp]]
        /\ queued' = queued \/ queued' = [queued EXCEPT ![p] = Absent]
        /\ job' = [pc |-> "idle", full |-> FALSE, present |-> {}, todo |-> {}, at |-> {},
                   stamp |-> 0, text |-> Absent]
    BY <1>16 DEF UpsertFails, Idle
  <2>2. /\ row' \in [Path -> [text : Texts, stamp : Stamps]] /\ found' \in [Path -> Texts]
        /\ queued' \in [Path -> Texts \cup {Keep}]
        /\ events' \subseteq Path /\ steady' \subseteq Path /\ lost' \in BOOLEAN
    BY <2>1 DEF IndexTypeOK, Texts
  <2>3. \A q \in Path : \/ row'[q] = row[q] \/ row'[q] = NoRow
                         \/ /\ job.pc = "upsert" /\ q \in job.at
                            /\ row'[q] = [text |-> job.text, stamp |-> job.stamp]
    BY <2>1 DEF IndexTypeOK
  <2>4. {} \in SUBSET Path /\ FALSE \in BOOLEAN
    OBVIOUS
  <2> HIDE DEF NoRow
  <2> QED BY <2>1, <2>2, <2>3, <2>4, RestartKeeps
<1>17. CASE UNCHANGED vars
  BY <1>17, OutsideKeeps DEF vars, WalkInv, IndexTypeOK
<1> QED
  BY <1>1, <1>2, <1>3, <1>4, <1>5, <1>6, <1>7, <1>8, <1>9, <1>10, <1>11, <1>12, <1>13, <1>14,
    <1>15, <1>16, <1>17 DEF NextIndex, Walking, Take

(* When a walk is through, every note that kept still has the rows of its text, for
   every vault, whatever changes, fails and is lost around it (indexing.rs, `reconcile`). *)
THEOREM WalkedRight == SpecIndex => []WalkIsRight
<1>1. WalkInv => WalkIsRight
  <2> SUFFICES ASSUME WalkInv, job.pc = "publish", job.full, NEW p \in steady
      PROVE  row[p].text = file[p].text
    BY DEF WalkIsRight
  <2>1. p \in Path /\ job.at = {} /\ job.todo = {}
    BY DEF WalkInv, IndexTypeOK, JobShape
  <2> QED BY <2>1 DEF WalkInv, Settling
<1> QED BY <1>1, WalkInit, WalkNext, PTL DEF SpecIndex

(* The state of the loop and of the index has its types. *)
THEOREM IndexTyped == SpecIndex => []IndexTypeOK
BY WalkInit, WalkNext, PTL DEF SpecIndex, WalkInv

(* While the process lives, the maintenance loop and the watchers use the signal as a
   change queue: every report is in what one of the next two ticks is given, whatever
   else the loop does (http.rs, serve_listener; watch.rs, `take`). *)
THEOREM LoopIsHanded == ASSUME "crash" \notin Faults PROVE SpecIndex => HandsOut
<1>1. InitIndex => Init
  BY DEF InitIndex
<1>2. [NextIndex]_vars => [Next]_signal
  BY SignalStep DEF Crash
<1>3. SpecIndex => Spec
  BY <1>1, <1>2, PTL DEF SpecIndex, Spec
<1> QED BY <1>3, SignalHandsOut, PTL
=============================================================================
