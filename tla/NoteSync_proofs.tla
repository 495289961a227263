--------------------------- MODULE NoteSync_proofs ---------------------------
(* Proofs about NoteSync, for any sets of blocks and connections. *)
EXTENDS NoteSync, TLAPS

(* The canonical serialization of some blocks is content with those blocks. *)
LEMMA CanonicalContent ==
  ASSUME NEW blocks \in SUBSET Block
  PROVE  Canonical(blocks) \in Content /\ Canonical(blocks).blocks = blocks
  BY DEF Canonical, Content

(* The blocks of some content are blocks. *)
LEMMA ContentBlocks ==
  ASSUME NEW content \in Content
  PROVE  content.blocks \in SUBSET Block
  BY DEF Content

(* An edited file is content again. *)
LEMMA ContentRecord ==
  ASSUME NEW blocks \in SUBSET Block, NEW form \in {"canonical", "loose"}
  PROVE  [blocks |-> blocks, form |-> form] \in Content
  BY DEF Content

-----------------------------------------------------------------------------
(* Types and the shape of a running handler, whatever fails. *)
ShapeInv == TypeOK /\ HandlerShape

(* A fresh vault, with no handler running. *)
LEMMA ShapeInit == Init => ShapeInv
  <1> SUFFICES ASSUME Init PROVE ShapeInv
    OBVIOUS
  <1>1. TypeOK
    BY ContentBlocks DEF Init, TypeOK, Ops, Steps
  <1>2. HandlerShape
    BY DEF Init, HandlerShape, Opening, Writing, Importing
  <1> QED BY <1>1, <1>2 DEF ShapeInv

(* Kept by every step of a running handler. *)
LEMMA ShapeHandlerStep == ShapeInv /\ HandlerStep => ShapeInv'
  <1> SUFFICES ASSUME ShapeInv, HandlerStep PROVE ShapeInv'
    OBVIOUS
  <1> USE NoFileAssumption, CanonicalContent, ContentBlocks, ContentRecord
      DEF ShapeInv, TypeOK, HandlerShape, Ops, Steps, Opening, Writing, Importing,
          disk, memory, ghosts
  <1>1. ASSUME Load PROVE ShapeInv'
    <2>1. TypeOK'
      BY <1>1 DEF Load, Fail, Idle, KeepOrDrop, Forget
    <2>2. HandlerShape'
      BY <1>1 DEF Load, Fail, Idle, KeepOrDrop, Forget
    <2> QED BY <2>1, <2>2 DEF ShapeInv
  <1>2. ASSUME Rebuild PROVE ShapeInv'
    BY <1>2 DEF Rebuild
  <1>3. ASSUME RebuildMarker PROVE ShapeInv'
    <2>1. TypeOK'
      BY <1>3 DEF RebuildMarker, Opened
    <2>2. HandlerShape'
      BY <1>3 DEF RebuildMarker, Opened
    <2> QED BY <2>1, <2>2 DEF ShapeInv
  <1>4. ASSUME Recover PROVE ShapeInv'
    <2>1. TypeOK'
      BY <1>4 DEF Recover, Opened
    <2>2. HandlerShape'
      BY <1>4 DEF Recover, Opened
    <2> QED BY <2>1, <2>2 DEF ShapeInv
  <1>5. ASSUME WriteFile PROVE ShapeInv'
    <2>1. TypeOK'
      BY <1>5 DEF WriteFile, PutFile
    <2>2. HandlerShape'
      BY <1>5 DEF WriteFile, PutFile
    <2> QED BY <2>1, <2>2 DEF ShapeInv
  <1>6. ASSUME WriteMarker PROVE ShapeInv'
    <2>1. TypeOK'
      <3>1. Canonical(doc) \in Content
        OBVIOUS
      <3>2. CASE Written /\ UNCHANGED read
        BY <1>6, <3>1, <3>2 DEF WriteMarker, Written, Opened, Idle
      <3>3. CASE WrittenAndGone
        BY <1>6, <3>1, <3>3 DEF WriteMarker, WrittenAndGone, Idle, RemoveRoom, Forget
      <3>4. CASE pc' = "write_history" /\ UNCHANGED <<op, who, read, room, peers, memory>>
        BY <1>6, <3>1, <3>4 DEF WriteMarker
      <3> QED BY <1>6, <3>2, <3>3, <3>4 DEF WriteMarker
    <2>2. HandlerShape'
      BY <1>6 DEF WriteMarker, Written, WrittenAndGone, Opened, Idle, RemoveRoom, Forget
    <2> QED BY <2>1, <2>2 DEF ShapeInv
  <1>7. ASSUME WriteHistory PROVE ShapeInv'
    <2>1. TypeOK'
      <3>1. versions' \subseteq SUBSET Block
        BY <1>7 DEF WriteHistory, Record
      <3>2. Canonical(doc) \in Content
        OBVIOUS
      <3>3. CASE Written /\ UNCHANGED read
        BY <1>7, <3>1, <3>2, <3>3 DEF WriteHistory, Written, Opened, Idle
      <3>4. CASE WrittenAndGone
        BY <1>7, <3>1, <3>4 DEF WriteHistory, WrittenAndGone, Idle, RemoveRoom, Forget
      <3> QED BY <1>7, <3>3, <3>4 DEF WriteHistory
    <2>2. HandlerShape'
      BY <1>7 DEF WriteHistory, Written, WrittenAndGone, Opened, Idle, RemoveRoom, Forget,
             Record
    <2> QED BY <2>1, <2>2 DEF ShapeInv
  <1>8. ASSUME Inspect PROVE ShapeInv'
    <2>1. TypeOK'
      BY <1>8 DEF Inspect, AfterInspect
    <2>2. HandlerShape'
      BY <1>8 DEF Inspect, AfterInspect
    <2> QED BY <2>1, <2>2 DEF ShapeInv
  <1>9. ASSUME ImportMarker PROVE ShapeInv'
    <2>1. TypeOK'
      BY <1>9 DEF ImportMarker, AfterInspect
    <2>2. HandlerShape'
      BY <1>9 DEF ImportMarker, AfterInspect
    <2> QED BY <2>1, <2>2 DEF ShapeInv
  <1>10. ASSUME ImportHistory PROVE ShapeInv'
    <2>1. TypeOK'
      BY <1>10 DEF ImportHistory, Record
    <2>2. HandlerShape'
      BY <1>10 DEF ImportHistory, Record
    <2> QED BY <2>1, <2>2 DEF ShapeInv
  <1>11. ASSUME ImportSidecar PROVE ShapeInv'
    BY <1>11 DEF ImportSidecar, Broadcast, AfterInspect
  <1>12. ASSUME Admit PROVE ShapeInv'
    BY <1>12 DEF Admit, Idle
  <1>13. ASSUME Retain PROVE ShapeInv'
    BY <1>13 DEF Retain, Idle, RemoveRoom, Forget
  <1>14. ASSUME Apply PROVE ShapeInv'
    <2>1. TypeOK'
      BY <1>14 DEF Apply, Idle, Forget
    <2>2. HandlerShape'
      BY <1>14 DEF Apply, Idle, Forget
    <2> QED BY <2>1, <2>2 DEF ShapeInv
  <1>15. ASSUME ApplySidecar PROVE ShapeInv'
    BY <1>15 DEF ApplySidecar, Broadcast
  <1> QED BY <1>1, <1>2, <1>3, <1>4, <1>5, <1>6, <1>7, <1>8, <1>9, <1>10, <1>11, <1>12, <1>13, <1>14, <1>15 DEF HandlerStep

(* Kept by every request that starts a handler or is one. *)
LEMMA ShapeRequest == ShapeInv /\ Request => ShapeInv'
  <1> SUFFICES ASSUME ShapeInv, Request PROVE ShapeInv'
    OBVIOUS
  <1> USE NoFileAssumption, CanonicalContent, ContentBlocks, ContentRecord
      DEF ShapeInv, TypeOK, HandlerShape, Ops, Steps, Opening, Writing, Importing,
          disk, memory, ghosts
  <1>1. ASSUME NEW p \in Peer, Subscribe(p) PROVE ShapeInv'
    BY <1>1 DEF Subscribe
  <1>2. ASSUME NEW p \in Peer, SubscribeStale(p) PROVE ShapeInv'
    BY <1>2 DEF SubscribeStale, control
  <1>3. ASSUME NEW p \in Peer, Unsubscribe(p) PROVE ShapeInv'
    <2>1. TypeOK'
      BY <1>3 DEF Unsubscribe, Release, Forget, control
    <2>2. HandlerShape'
      BY <1>3 DEF Unsubscribe, Release, Forget, control
    <2> QED BY <2>1, <2>2 DEF ShapeInv
  <1>4. ASSUME Close PROVE ShapeInv'
    <2>1. TypeOK'
      BY <1>4 DEF Close, Release, Forget
    <2>2. HandlerShape'
      BY <1>4 DEF Close, Release, Forget
    <2> QED BY <2>1, <2>2 DEF ShapeInv
  <1>5. ASSUME FlushAll PROVE ShapeInv'
    BY <1>5 DEF FlushAll
  <1>6. ASSUME Restore PROVE ShapeInv'
    BY <1>6 DEF Restore
  <1>7. ASSUME NEW kind \in {"tick", "sweep"}, Maintain(kind) PROVE ShapeInv'
    BY <1>7 DEF Maintain
  <1>8. ASSUME NEW b \in Block, Insert(b) PROVE ShapeInv'
    BY <1>8 DEF Insert, Accept, Replay, Broadcast, control
  <1>9. ASSUME NEW b \in Block, Delete(b) PROVE ShapeInv'
    BY <1>9 DEF Delete, Accept, Replay, Broadcast, control
  <1> QED BY <1>1, <1>2, <1>3, <1>4, <1>5, <1>6, <1>7, <1>8, <1>9 DEF Request

(* Kept by the clock, external editors and crashes. *)
LEMMA ShapeWorld == ShapeInv /\ World => ShapeInv'
  <1> SUFFICES ASSUME ShapeInv, World PROVE ShapeInv'
    OBVIOUS
  <1> USE NoFileAssumption, CanonicalContent, ContentBlocks, ContentRecord
      DEF ShapeInv, TypeOK, HandlerShape, Ops, Steps, Opening, Writing, Importing,
          disk, memory, ghosts
  <1>1. ASSUME Elapse PROVE ShapeInv'
    BY <1>1 DEF Elapse, control
  <1>2. ASSUME NEW add \in AtMostOne, NEW cut \in AtMostOne,
          NEW form \in {"canonical", "loose"}, ExternalEdit(add, cut, form) PROVE ShapeInv'
    <2>1. TypeOK'
      <3>1. add \subseteq Block /\ cut \subseteq Block
        BY DEF AtMostOne
      <3>2. file' = [blocks |-> (file.blocks \ cut) \cup add, form |-> form]
        BY <1>2 DEF ExternalEdit
      <3>3. (file.blocks \ cut) \cup add \in SUBSET Block
        BY <3>1
      <3>4. file' \in Content
        BY <3>2, <3>3
      <3> QED BY <1>2, <3>1, <3>4 DEF ExternalEdit, control
    <2>2. HandlerShape'
      BY <1>2 DEF ExternalEdit, control
    <2> QED BY <2>1, <2>2 DEF ShapeInv
  <1>3. ASSUME Crash PROVE ShapeInv'
    BY <1>3 DEF Crash, Forget, Idle
  <1>4. ASSUME CrashInAppend PROVE ShapeInv'
    <2>1. TypeOK'
      BY <1>4 DEF CrashInAppend, Forget, Idle
    <2>2. HandlerShape'
      BY <1>4 DEF CrashInAppend, Forget, Idle
    <2> QED BY <2>1, <2>2 DEF ShapeInv
  <1> QED BY <1>1, <1>2, <1>3, <1>4 DEF World

(* Kept by every I/O failure. *)
LEMMA ShapeFailure == ShapeInv /\ Failure => ShapeInv'
  <1> SUFFICES ASSUME ShapeInv, Failure PROVE ShapeInv'
    OBVIOUS
  <1> USE NoFileAssumption, CanonicalContent, ContentBlocks, ContentRecord
      DEF ShapeInv, TypeOK, HandlerShape, Ops, Steps, Opening, Writing, Importing,
          disk, memory, ghosts
  <1>1. ASSUME ReadFails PROVE ShapeInv'
    BY <1>1 DEF ReadFails, Fail, Idle, KeepOrDrop, Forget
  <1>2. ASSUME AppendFails PROVE ShapeInv'
    BY <1>2 DEF AppendFails, control
  <1>3. ASSUME WriteFileFails PROVE ShapeInv'
    <2>1. Canonical(doc) \in Content
      OBVIOUS
    <2>2. file' \in Content /\ foreign' \in BOOLEAN
      BY <1>3, <2>1 DEF WriteFileFails, PutFile
    <2>3. UNCHANGED <<used, typed, saved>>
      BY <1>3 DEF WriteFileFails, PutFile
    <2> QED BY <1>3, <2>2, <2>3 DEF WriteFileFails, Fail, Idle, KeepOrDrop, Forget
  <1>4. ASSUME MarkerFails PROVE ShapeInv'
    BY <1>4 DEF MarkerFails, Fail, Idle, KeepOrDrop, Forget
  <1>5. ASSUME HistoryFails PROVE ShapeInv'
    BY <1>5 DEF HistoryFails, Fail, Idle, KeepOrDrop, Forget
  <1>6. ASSUME SidecarFails PROVE ShapeInv'
    BY <1>6 DEF SidecarFails, Fail, Idle, KeepOrDrop, Forget
  <1> QED BY <1>1, <1>2, <1>3, <1>4, <1>5, <1>6 DEF Failure

(* Between requests nothing moves. *)
LEMMA ShapeStutter == ShapeInv /\ UNCHANGED vars => ShapeInv'
  BY DEF ShapeInv, TypeOK, HandlerShape, vars, disk, memory, control, ghosts

(* Every variable keeps its type, and a handler is only ever at one of its own
   steps with its room there or not, as that handler found or left it. *)
THEOREM ShapeInvariant == Spec => []ShapeInv
  <1>1. Init => ShapeInv
    BY ShapeInit
  <1>2. ShapeInv /\ [Next]_vars => ShapeInv'
    BY ShapeHandlerStep, ShapeRequest, ShapeWorld, ShapeFailure, ShapeStutter DEF Next
  <1> QED BY <1>1, <1>2, PTL DEF Spec

(* The type invariant the runs check, under any set of failures. *)
THEOREM TypeCorrect == Spec => []TypeOK
  <1>1. ShapeInv => TypeOK
    BY DEF ShapeInv
  <1> QED BY <1>1, ShapeInvariant, PTL

-----------------------------------------------------------------------------
(* Durability, when the failures are crashes, at any step, reads, and Markdown
   writes that leave the old file. *)
OnlyCleanFailures == Faults \subseteq {"crash", "read", "file"}

(* Nothing has been accepted yet. *)
LEMMA DurabilityInit == Init => DurabilityInv
  <1> SUFFICES ASSUME Init PROVE DurabilityInv
    OBVIOUS
  <1>1. TypeOK /\ HandlerShape
    BY ShapeInit DEF ShapeInv
  <1>2. LogWhole /\ LogFollowsDoc /\ MarkerFollowsHash /\ OwnFile
    BY DEF Init, LogWhole, LogFollowsDoc, MarkerFollowsHash, OwnFile, Loaded, Importing
  <1> QED BY <1>1, <1>2 DEF DurabilityInv

(* What is left to show once types and shape are known to be kept. *)
Durable == LogWhole /\ LogFollowsDoc /\ MarkerFollowsHash /\ OwnFile

(* Kept by every step of a running handler. *)
LEMMA DurableHandlerStep ==
  ShapeInv /\ Durable /\ HandlerStep => Durable'
  <1> SUFFICES ASSUME ShapeInv, Durable, HandlerStep PROVE Durable'
    OBVIOUS
  <1> USE NoFileAssumption, CanonicalContent, ContentBlocks, ContentRecord
      DEF ShapeInv, TypeOK, HandlerShape, Opening, Writing, Importing, Durable, LogWhole,
          LogFollowsDoc, MarkerFollowsHash, OwnFile, Loaded, disk, memory, ghosts
  <1>1. ASSUME Load PROVE Durable'
    <2>1. LogWhole'
      BY <1>1 DEF Load, Fail, Idle, KeepOrDrop, Forget
    <2>2. LogFollowsDoc'
      BY <1>1 DEF Load, Fail, Idle, KeepOrDrop, Forget
    <2>3. MarkerFollowsHash'
      BY <1>1 DEF Load, Fail, Idle, KeepOrDrop, Forget
    <2>4. OwnFile'
      BY <1>1 DEF Load, Fail, Idle, KeepOrDrop, Forget
    <2> QED BY <2>1, <2>2, <2>3, <2>4 DEF Durable
  <1>2. ASSUME Rebuild PROVE Durable'
    BY <1>2 DEF Rebuild
  <1>3. ASSUME RebuildMarker PROVE Durable'
    <2>1. LogWhole'
      BY <1>3 DEF RebuildMarker, Opened
    <2>2. LogFollowsDoc'
      BY <1>3 DEF RebuildMarker, Opened
    <2>3. MarkerFollowsHash'
      BY <1>3 DEF RebuildMarker, Opened
    <2>4. OwnFile'
      BY <1>3 DEF RebuildMarker, Opened
    <2> QED BY <2>1, <2>2, <2>3, <2>4 DEF Durable
  <1>4. ASSUME Recover PROVE Durable'
    <2>1. LogWhole'
      BY <1>4 DEF Recover, Opened
    <2>2. LogFollowsDoc'
      BY <1>4 DEF Recover, Opened
    <2>3. MarkerFollowsHash'
      BY <1>4 DEF Recover, Opened
    <2>4. OwnFile'
      BY <1>4 DEF Recover, Opened
    <2> QED BY <2>1, <2>2, <2>3, <2>4 DEF Durable
  <1>5. ASSUME WriteFile PROVE Durable'
    <2>1. LogWhole'
      BY <1>5 DEF WriteFile, PutFile
    <2>2. LogFollowsDoc'
      BY <1>5 DEF WriteFile, PutFile
    <2>3. MarkerFollowsHash'
      BY <1>5 DEF WriteFile, PutFile
    <2>4. OwnFile'
      BY <1>5 DEF WriteFile, PutFile
    <2> QED BY <2>1, <2>2, <2>3, <2>4 DEF Durable
  <1>6. ASSUME WriteMarker PROVE Durable'
    <2>1. LogWhole'
      BY <1>6 DEF WriteMarker, Written, WrittenAndGone, Opened, Idle, RemoveRoom, Forget
    <2>2. LogFollowsDoc'
      BY <1>6 DEF WriteMarker, Written, WrittenAndGone, Opened, Idle, RemoveRoom, Forget
    <2>3. MarkerFollowsHash'
      BY <1>6 DEF WriteMarker, Written, WrittenAndGone, Opened, Idle, RemoveRoom, Forget
    <2>4. OwnFile'
      BY <1>6 DEF WriteMarker, Written, WrittenAndGone, Opened, Idle, RemoveRoom, Forget
    <2> QED BY <2>1, <2>2, <2>3, <2>4 DEF Durable
  <1>7. ASSUME WriteHistory PROVE Durable'
    <2>1. LogWhole'
      BY <1>7 DEF WriteHistory, Written, WrittenAndGone, Opened, Idle, RemoveRoom, Forget,
             Record
    <2>2. LogFollowsDoc'
      BY <1>7 DEF WriteHistory, Written, WrittenAndGone, Opened, Idle, RemoveRoom, Forget,
             Record
    <2>3. MarkerFollowsHash'
      BY <1>7 DEF WriteHistory, Written, WrittenAndGone, Opened, Idle, RemoveRoom, Forget,
             Record
    <2>4. OwnFile'
      BY <1>7 DEF WriteHistory, Written, WrittenAndGone, Opened, Idle, RemoveRoom, Forget,
             Record
    <2> QED BY <2>1, <2>2, <2>3, <2>4 DEF Durable
  <1>8. ASSUME Inspect PROVE Durable'
    <2>1. LogWhole'
      BY <1>8 DEF Inspect, AfterInspect
    <2>2. LogFollowsDoc'
      BY <1>8 DEF Inspect, AfterInspect
    <2>3. MarkerFollowsHash'
      BY <1>8 DEF Inspect, AfterInspect
    <2>4. OwnFile'
      BY <1>8 DEF Inspect, AfterInspect
    <2> QED BY <2>1, <2>2, <2>3, <2>4 DEF Durable
  <1>9. ASSUME ImportMarker PROVE Durable'
    BY <1>9 DEF ImportMarker, AfterInspect
  <1>10. ASSUME ImportHistory PROVE Durable'
    BY <1>10 DEF ImportHistory, Record
  <1>11. ASSUME ImportSidecar PROVE Durable'
    BY <1>11 DEF ImportSidecar, Broadcast, AfterInspect
  <1>12. ASSUME Admit PROVE Durable'
    BY <1>12 DEF Admit, Idle
  <1>13. ASSUME Retain PROVE Durable'
    BY <1>13 DEF Retain, Idle, RemoveRoom, Forget
  <1>14. ASSUME Apply PROVE Durable'
    <2>1. LogWhole'
      BY <1>14 DEF Apply, Idle, Forget
    <2>2. LogFollowsDoc'
      BY <1>14 DEF Apply, Idle, Forget
    <2>3. MarkerFollowsHash'
      BY <1>14 DEF Apply, Idle, Forget
    <2>4. OwnFile'
      BY <1>14 DEF Apply, Idle, Forget
    <2> QED BY <2>1, <2>2, <2>3, <2>4 DEF Durable
  <1>15. ASSUME ApplySidecar PROVE Durable'
    BY <1>15 DEF ApplySidecar, Broadcast
  <1> QED BY <1>1, <1>2, <1>3, <1>4, <1>5, <1>6, <1>7, <1>8, <1>9, <1>10, <1>11, <1>12, <1>13, <1>14, <1>15 DEF HandlerStep

(* Kept by every request that starts a handler or is one. *)
LEMMA DurableRequest ==
  ShapeInv /\ Durable /\ Request => Durable'
  <1> SUFFICES ASSUME ShapeInv, Durable, Request PROVE Durable'
    OBVIOUS
  <1> USE NoFileAssumption, CanonicalContent, ContentBlocks, ContentRecord
      DEF ShapeInv, TypeOK, HandlerShape, Opening, Writing, Importing, Durable, LogWhole,
          LogFollowsDoc, MarkerFollowsHash, OwnFile, Loaded, disk, memory, ghosts
  <1>1. ASSUME NEW p \in Peer, Subscribe(p) PROVE Durable'
    BY <1>1 DEF Subscribe
  <1>2. ASSUME NEW p \in Peer, SubscribeStale(p) PROVE Durable'
    BY <1>2 DEF SubscribeStale, control
  <1>3. ASSUME NEW p \in Peer, Unsubscribe(p) PROVE Durable'
    <2>1. LogWhole'
      BY <1>3 DEF Unsubscribe, Release, Forget, control
    <2>2. LogFollowsDoc'
      BY <1>3 DEF Unsubscribe, Release, Forget, control
    <2>3. MarkerFollowsHash'
      BY <1>3 DEF Unsubscribe, Release, Forget, control
    <2>4. OwnFile'
      BY <1>3 DEF Unsubscribe, Release, Forget, control
    <2> QED BY <2>1, <2>2, <2>3, <2>4 DEF Durable
  <1>4. ASSUME Close PROVE Durable'
    <2>1. LogWhole'
      BY <1>4 DEF Close, Release, Forget
    <2>2. LogFollowsDoc'
      BY <1>4 DEF Close, Release, Forget
    <2>3. MarkerFollowsHash'
      BY <1>4 DEF Close, Release, Forget
    <2>4. OwnFile'
      BY <1>4 DEF Close, Release, Forget
    <2> QED BY <2>1, <2>2, <2>3, <2>4 DEF Durable
  <1>5. ASSUME FlushAll PROVE Durable'
    BY <1>5 DEF FlushAll
  <1>6. ASSUME Restore PROVE Durable'
    BY <1>6 DEF Restore
  <1>7. ASSUME NEW kind \in {"tick", "sweep"}, Maintain(kind) PROVE Durable'
    BY <1>7 DEF Maintain
  <1>8. ASSUME NEW b \in Block, Insert(b) PROVE Durable'
    BY <1>8 DEF Insert, Accept, Replay, Broadcast, control
  <1>9. ASSUME NEW b \in Block, Delete(b) PROVE Durable'
    BY <1>9 DEF Delete, Accept, Replay, Broadcast, control
  <1> QED BY <1>1, <1>2, <1>3, <1>4, <1>5, <1>6, <1>7, <1>8, <1>9 DEF Request

(* Kept by the clock, external editors and crashes. *)
LEMMA DurableWorld ==
  OnlyCleanFailures /\ ShapeInv /\ Durable /\ World => Durable'
  <1> SUFFICES ASSUME OnlyCleanFailures, ShapeInv, Durable, World PROVE Durable'
    OBVIOUS
  <1> USE NoFileAssumption, CanonicalContent, ContentBlocks, ContentRecord
      DEF ShapeInv, TypeOK, HandlerShape, Opening, Writing, Importing, Durable, LogWhole,
          LogFollowsDoc, MarkerFollowsHash, OwnFile, Loaded, disk, memory, ghosts
  <1>1. ASSUME Elapse PROVE Durable'
    BY <1>1 DEF Elapse, control
  <1>2. ASSUME NEW add \in AtMostOne, NEW cut \in AtMostOne,
          NEW form \in {"canonical", "loose"}, ExternalEdit(add, cut, form) PROVE Durable'
    BY <1>2 DEF ExternalEdit, control
  <1>3. ASSUME Crash PROVE Durable'
    BY <1>3 DEF Crash, Forget, Idle
  <1>4. ASSUME CrashInAppend PROVE FALSE
    BY <1>4 DEF OnlyCleanFailures, CrashInAppend
  <1> QED BY <1>1, <1>2, <1>3, <1>4 DEF World

(* Kept by every I/O failure. *)
LEMMA DurableFailure ==
  OnlyCleanFailures /\ ShapeInv /\ Durable /\ Failure => Durable'
  <1> SUFFICES ASSUME OnlyCleanFailures, ShapeInv, Durable, Failure PROVE Durable'
    OBVIOUS
  <1> USE NoFileAssumption, CanonicalContent, ContentBlocks, ContentRecord
      DEF ShapeInv, TypeOK, HandlerShape, Opening, Writing, Importing, Durable, LogWhole,
          LogFollowsDoc, MarkerFollowsHash, OwnFile, Loaded, disk, memory, ghosts
  <1>1. ASSUME ReadFails PROVE Durable'
    <2>1. LogWhole'
      BY <1>1 DEF ReadFails, Fail, Idle, KeepOrDrop, Forget
    <2>2. LogFollowsDoc'
      BY <1>1 DEF ReadFails, Fail, Idle, KeepOrDrop, Forget
    <2>3. MarkerFollowsHash'
      BY <1>1 DEF ReadFails, Fail, Idle, KeepOrDrop, Forget
    <2>4. OwnFile'
      BY <1>1 DEF ReadFails, Fail, Idle, KeepOrDrop, Forget
    <2> QED BY <2>1, <2>2, <2>3, <2>4 DEF Durable
  <1>2. ASSUME AppendFails PROVE FALSE
    BY <1>2 DEF OnlyCleanFailures, AppendFails
  <1>3. ASSUME WriteFileFails PROVE Durable'
    <2>0. UNCHANGED <<file, ghosts>>
      BY <1>3 DEF WriteFileFails, OnlyCleanFailures
    <2>1. LogWhole'
      BY <1>3, <2>0 DEF WriteFileFails, Fail, Idle, KeepOrDrop, Forget
    <2>2. LogFollowsDoc'
      BY <1>3, <2>0 DEF WriteFileFails, Fail, Idle, KeepOrDrop, Forget
    <2>3. MarkerFollowsHash'
      BY <1>3, <2>0 DEF WriteFileFails, Fail, Idle, KeepOrDrop, Forget
    <2>4. OwnFile'
      BY <1>3, <2>0 DEF WriteFileFails, Fail, Idle, KeepOrDrop, Forget
    <2> QED BY <2>1, <2>2, <2>3, <2>4 DEF Durable
  <1>4. ASSUME MarkerFails PROVE FALSE
    BY <1>4 DEF OnlyCleanFailures, MarkerFails
  <1>5. ASSUME HistoryFails PROVE FALSE
    BY <1>5 DEF OnlyCleanFailures, HistoryFails
  <1>6. ASSUME SidecarFails PROVE FALSE
    BY <1>6 DEF OnlyCleanFailures, SidecarFails
  <1> QED BY <1>1, <1>2, <1>3, <1>4, <1>5, <1>6 DEF Failure

(* Between requests nothing moves. *)
LEMMA DurableStutter == Durable /\ UNCHANGED vars => Durable'
  BY DEF Durable, LogWhole, LogFollowsDoc, MarkerFollowsHash, OwnFile, Loaded,
         vars, disk, memory, control, ghosts

(* The inductive invariant: log, document, marker and file agree, step by step,
   as far as each of them has got (NoteSync, DurabilityInv). *)
THEOREM DurabilityInvariant == OnlyCleanFailures /\ Spec => []DurabilityInv
  <1> SUFFICES ASSUME OnlyCleanFailures PROVE Spec => []DurabilityInv
    OBVIOUS
  <1>1. Init => DurabilityInv
    BY DurabilityInit
  <1>2. DurabilityInv /\ [Next]_vars => DurabilityInv'
    <2> SUFFICES ASSUME DurabilityInv, [Next]_vars PROVE DurabilityInv'
      OBVIOUS
    <2>1. ShapeInv /\ Durable
      BY DEF DurabilityInv, ShapeInv, Durable
    <2>2. ShapeInv'
      BY <2>1, ShapeHandlerStep, ShapeRequest, ShapeWorld, ShapeFailure, ShapeStutter DEF Next
    <2>3. Durable'
      BY <2>1, DurableHandlerStep, DurableRequest, DurableWorld, DurableFailure,
         DurableStutter DEF Next
    <2> QED BY <2>2, <2>3 DEF DurabilityInv, ShapeInv, Durable
  <1> QED BY <1>1, <1>2, PTL DEF Spec

(* An accepted edit is in the sidecar at every step of every handler and after
   every crash, until a person removes it (apply_remote_update_as, open,
   inspect_external_change). *)
THEOREM AcceptedAreDurable == OnlyCleanFailures /\ Spec => []AcceptedDurable
  <1> SUFFICES ASSUME OnlyCleanFailures PROVE Spec => []AcceptedDurable
    OBVIOUS
  <1>1. DurabilityInv => AcceptedDurable
    BY DEF DurabilityInv, AcceptedDurable, Recoverable, LogWhole, LogFollowsDoc
  <1> QED BY <1>1, DurabilityInvariant, PTL

(* Between handlers a restart would read back exactly the document the room
   serves. *)
THEOREM SidecarIsCurrent == OnlyCleanFailures /\ Spec => []SidecarCurrent
  <1> SUFFICES ASSUME OnlyCleanFailures PROVE Spec => []SidecarCurrent
    OBVIOUS
  <1>1. DurabilityInv => SidecarCurrent
    BY DEF DurabilityInv, SidecarCurrent, LogWhole, LogFollowsDoc, Loaded, Importing
  <1> QED BY <1>1, DurabilityInvariant, PTL

(* The server's own write, read back late, takes no accepted edit out of the
   document (last_written_hash in inspect_external_change). *)
THEOREM OwnWritesNeverRevert == OnlyCleanFailures /\ Spec => OwnWriteNeverReverts
  <1> SUFFICES ASSUME OnlyCleanFailures PROVE Spec => OwnWriteNeverReverts
    OBVIOUS
  <1>1. DurabilityInv /\ DurabilityInv' /\ [Next]_vars
          => (pc = "inspect" /\ room' /\ ~foreign => typed \cap doc \subseteq doc')
    <2> SUFFICES ASSUME DurabilityInv, DurabilityInv', [Next]_vars,
                        pc = "inspect", room', ~foreign
                 PROVE  typed \cap doc \subseteq doc'
      OBVIOUS
    <2>1. CASE Inspect
      BY <2>1 DEF Inspect, DurabilityInv, OwnFile
    <2>2. CASE doc' = doc
      BY <2>2
    <2>3. Inspect \/ doc' = doc
      BY DEF DurabilityInv, HandlerShape, Next, vars, memory, control, HandlerStep, Load,
         Rebuild, RebuildMarker, Recover, WriteFile, WriteMarker, WriteHistory,
         ImportMarker, ImportHistory, ImportSidecar, Admit, Retain, Apply, ApplySidecar,
         Request, Subscribe, SubscribeStale, Unsubscribe, Close, FlushAll, Restore,
         Maintain, Insert, Delete, Accept, World, Elapse, ExternalEdit, Crash,
         CrashInAppend, Failure, ReadFails, AppendFails, WriteFileFails, MarkerFails, HistoryFails,
         SidecarFails, Fail, KeepOrDrop
    <2> QED BY <2>1, <2>2, <2>3
  <1>2. Spec => []DurabilityInv
    BY DurabilityInvariant
  <1> QED BY <1>1, <1>2, PTL DEF Spec, OwnWriteNeverReverts

-----------------------------------------------------------------------------
(* A vault just opened. *)
LEMMA QuietInit == Init => QuietInv
  BY DEF Init, QuietInv, Importing

(* A canonical file is the serialization of its blocks. *)
LEMMA CanonicalForm ==
  ASSUME NEW blocks \in SUBSET Block
  PROVE  Canonical(blocks) = Canonical(Canonical(blocks).blocks)
  BY CanonicalContent

(* Kept by every step of a running handler. *)
LEMMA QuietHandlerStep == ShapeInv /\ QuietInv /\ HandlerStep => QuietInv'
  <1> SUFFICES ASSUME ShapeInv, QuietInv, HandlerStep PROVE QuietInv'
    OBVIOUS
  <1> USE CanonicalContent, CanonicalForm
      DEF ShapeInv, QuietInv, Agrees, TypeOK, HandlerShape, Opening, Writing, Importing,
          disk, memory, ghosts
  <1>1. ASSUME Load PROVE QuietInv'
    BY <1>1 DEF Load, Fail, Idle, KeepOrDrop, Forget
  <1>2. ASSUME Rebuild PROVE QuietInv'
    BY <1>2 DEF Rebuild
  <1>3. ASSUME RebuildMarker PROVE QuietInv'
    BY <1>3 DEF RebuildMarker, Opened
  <1>4. ASSUME Recover PROVE QuietInv'
    BY <1>4 DEF Recover, Opened
  <1>5. ASSUME WriteFile PROVE QuietInv'
    BY <1>5 DEF WriteFile, PutFile
  <1>6. ASSUME WriteMarker PROVE QuietInv'
    BY <1>6 DEF WriteMarker, Written, WrittenAndGone, Opened, Idle, RemoveRoom, Forget
  <1>7. ASSUME WriteHistory PROVE QuietInv'
    BY <1>7 DEF WriteHistory, Written, WrittenAndGone, Opened, Idle, RemoveRoom, Forget
  <1>8. ASSUME Inspect PROVE QuietInv'
    BY <1>8 DEF Inspect, AfterInspect
  <1>9. ASSUME ImportMarker PROVE QuietInv'
    BY <1>9 DEF ImportMarker, AfterInspect
  <1>10. ASSUME ImportHistory PROVE QuietInv'
    BY <1>10 DEF ImportHistory
  <1>11. ASSUME ImportSidecar PROVE QuietInv'
    BY <1>11 DEF ImportSidecar, AfterInspect, Broadcast
  <1>12. ASSUME Admit PROVE QuietInv'
    BY <1>12 DEF Admit, Idle
  <1>13. ASSUME Retain PROVE QuietInv'
    BY <1>13 DEF Retain, Idle, RemoveRoom, Forget
  <1>14. ASSUME Apply PROVE QuietInv'
    BY <1>14 DEF Apply, Idle, Forget
  <1>15. ASSUME ApplySidecar PROVE QuietInv'
    BY <1>15 DEF ApplySidecar, Broadcast
  <1> QED
    BY <1>1, <1>2, <1>3, <1>4, <1>5, <1>6, <1>7, <1>8, <1>9, <1>10, <1>11, <1>12,
       <1>13, <1>14, <1>15 DEF HandlerStep

(* Kept by requests: an accepted edit is due at once. *)
LEMMA QuietRequest == ShapeInv /\ QuietInv /\ Request => QuietInv'
  <1> SUFFICES ASSUME ShapeInv, QuietInv, Request PROVE QuietInv'
    OBVIOUS
  <1> USE DEF ShapeInv, QuietInv, Agrees, TypeOK, HandlerShape, Opening, Writing, Importing,
          disk, memory, ghosts, control
  <1>1. ASSUME NEW p \in Peer, Subscribe(p) \/ SubscribeStale(p) PROVE QuietInv'
    BY <1>1 DEF Subscribe, SubscribeStale
  <1>2. ASSUME NEW p \in Peer, Unsubscribe(p) PROVE QuietInv'
    BY <1>2 DEF Unsubscribe, Release, Forget
  <1>3. ASSUME Close PROVE QuietInv'
    BY <1>3 DEF Close, Release, Forget
  <1>4. ASSUME FlushAll \/ Restore PROVE QuietInv'
    BY <1>4 DEF FlushAll, Restore
  <1>5. ASSUME NEW kind \in {"tick", "sweep"}, Maintain(kind) PROVE QuietInv'
    BY <1>5 DEF Maintain
  <1>6. ASSUME NEW b \in Block, Insert(b) \/ Delete(b) PROVE QuietInv'
    BY <1>6 DEF Insert, Delete, Accept, Broadcast
  <1> QED BY <1>1, <1>2, <1>3, <1>4, <1>5, <1>6 DEF Request

(* Kept by the world: a file somebody else saved is not the server's to agree with. *)
LEMMA QuietWorld == ShapeInv /\ QuietInv /\ World => QuietInv'
  <1> SUFFICES ASSUME ShapeInv, QuietInv, World PROVE QuietInv'
    OBVIOUS
  <1> USE DEF ShapeInv, QuietInv, Agrees, TypeOK, HandlerShape, Opening, Writing, Importing,
          disk, memory, ghosts, control
  <1>1. ASSUME Elapse PROVE QuietInv'
    BY <1>1 DEF Elapse
  <1>2. ASSUME NEW add \in AtMostOne, NEW cut \in AtMostOne, NEW form \in {"canonical", "loose"},
               ExternalEdit(add, cut, form)
        PROVE  QuietInv'
    BY <1>2 DEF ExternalEdit
  <1>3. ASSUME Crash \/ CrashInAppend PROVE QuietInv'
    BY <1>3 DEF Crash, CrashInAppend, Forget, Idle
  <1> QED BY <1>1, <1>2, <1>3 DEF World

(* Kept by every failure but that of replacing the sidecar. *)
LEMMA QuietFailure ==
  "sidecar" \notin Faults /\ ShapeInv /\ QuietInv /\ Failure => QuietInv'
  <1> SUFFICES ASSUME "sidecar" \notin Faults, ShapeInv, QuietInv, Failure PROVE QuietInv'
    OBVIOUS
  <1> USE CanonicalContent, CanonicalForm
      DEF ShapeInv, QuietInv, Agrees, TypeOK, HandlerShape, Opening, Writing, Importing,
          disk, memory, ghosts, control, Fail, Idle, KeepOrDrop, Forget
  <1>1. ASSUME ReadFails PROVE QuietInv'
    BY <1>1 DEF ReadFails
  <1>2. ASSUME AppendFails PROVE QuietInv'
    BY <1>2 DEF AppendFails
  <1>3. ASSUME WriteFileFails PROVE QuietInv'
    BY <1>3 DEF WriteFileFails, PutFile
  <1>4. ASSUME MarkerFails PROVE QuietInv'
    BY <1>4 DEF MarkerFails
  <1>5. ASSUME HistoryFails PROVE QuietInv'
    BY <1>5 DEF HistoryFails
  <1> QED BY <1>1, <1>2, <1>3, <1>4, <1>5 DEF Failure, SidecarFails

(* Whatever fails but the replacement of a sidecar, the subscribers of a quiet room are
   not ahead of the Markdown with nothing scheduled to write it: a failed write stays
   due, and a document nobody has imported the file into has no subscribers (write_due,
   subscribe_versioned). *)
THEOREM QuietAgrees ==
  "sidecar" \notin Faults /\ Spec => []MaterializedWhenQuiet
  <1> SUFFICES ASSUME "sidecar" \notin Faults PROVE Spec => []MaterializedWhenQuiet
    OBVIOUS
  <1>1. ShapeInv /\ QuietInv /\ [Next]_vars => QuietInv'
    <2>1. ASSUME QuietInv, UNCHANGED vars PROVE QuietInv'
      BY <2>1 DEF QuietInv, Agrees, Importing, vars, disk, memory, control, ghosts
    <2> QED
      BY <2>1, QuietHandlerStep, QuietRequest, QuietWorld, QuietFailure DEF Next
  <1>2. QuietInv => MaterializedWhenQuiet
    BY DEF QuietInv, Agrees, MaterializedWhenQuiet
  <1> QED BY <1>1, <1>2, QuietInit, ShapeInvariant, PTL DEF Spec
-----------------------------------------------------------------------------
(* The room as a DurableNote. *)
Promise == <<sidecar.blocks, IF room THEN {doc} ELSE {},
             room /\ pc \in Importing \cup {"apply_sidecar"}>>

(* Nothing is read back or served in a fresh vault. *)
LEMMA NoteInit == Init => Note!Init
  BY DEF Init, Note!Init

(* A step that changes neither what is read back nor what is served is invisible. *)
LEMMA NoteStutter ==
  ASSUME UNCHANGED Promise
  PROVE  [Note!Next]_(Note!vars)
  BY DEF Promise, Note!vars

(* Forgetting the room in memory is a Stop. *)
LEMMA NoteStops ==
  ASSUME UNCHANGED sidecar, ~room'
  PROVE  Note!Next
  BY DEF Note!Next, Note!Stop

(* A coordinator that is opened with the document of its log serves that. *)
LEMMA NoteOpens ==
  ASSUME HandlerShape, op \in Opening, Opened, doc' = sidecar.blocks, UNCHANGED sidecar
  PROVE  [Note!Next]_(Note!vars)
  <1>1. ~room
    BY DEF HandlerShape, Opening
  <1>2. CASE op = "open_subscribe"
    <2>1. room' /\ pc' = "inspect"
      BY <1>2 DEF Opened
    <2>2. Note!Serve
      BY <1>1, <2>1 DEF Note!Serve, Importing
    <2> QED BY <2>2 DEF Note!Next
  <1>3. CASE op = "open_restore"
    <2>1. UNCHANGED room
      BY <1>3 DEF Opened
    <2> QED BY <1>1, <2>1, NoteStutter DEF Promise
  <1> QED BY <1>2, <1>3 DEF Opening

(* Every step of a running handler is invisible, or one of the promise: what a
   sidecar replacement does depends on whether the room is there. *)
LEMMA NoteHandlerStep ==
  DurabilityInv /\ HandlerStep => [Note!Next]_(Note!vars)
  <1> SUFFICES ASSUME DurabilityInv, HandlerStep PROVE [Note!Next]_(Note!vars)
    OBVIOUS
  <1> USE DEF DurabilityInv, HandlerShape, LogFollowsDoc, Loaded, Opening, Writing, Importing,
              disk, memory
  <1>1. CASE Load
    BY <1>1, NoteStutter DEF Load, Fail, Idle, Promise
  <1>2. CASE Rebuild
    <2>1. Note!Rewrite(doc)
      BY <1>2 DEF Rebuild, Note!Rewrite
    <2>2. doc \in SUBSET Block
      BY DEF TypeOK
    <2> QED BY <2>1, <2>2 DEF Note!Next
  <1>3. CASE RebuildMarker
    BY <1>3, NoteOpens DEF RebuildMarker
  <1>4. CASE Recover
    <2>1. CASE Opened
      BY <1>4, <2>1, NoteOpens DEF Recover
    <2>2. CASE pc' = "write_file" /\ UNCHANGED <<op, who, room>>
      BY <1>4, <2>2, NoteStutter DEF Recover, Promise
    <2> QED BY <1>4, <2>1, <2>2 DEF Recover
  <1>5. CASE WriteFile
    BY <1>5, NoteStutter DEF WriteFile, Promise
  <1>6. ASSUME Written, UNCHANGED sidecar, pc \in {"write_marker", "write_history"}
        PROVE  [Note!Next]_(Note!vars)
    <2>1. CASE op \in Opening /\ Opened /\ UNCHANGED <<doc, peers>>
      BY <1>6, <2>1, NoteOpens
    <2>2. CASE UNCHANGED <<doc, room>> /\ pc' \in {"inspect", "retain", "idle"}
      BY <1>6, <2>2, NoteStutter DEF Promise
    <2> QED BY <1>6, <2>1, <2>2 DEF Written, Idle
  <1>7. ASSUME WrittenAndGone, UNCHANGED sidecar
        PROVE  [Note!Next]_(Note!vars)
    BY <1>7, NoteStops DEF WrittenAndGone, RemoveRoom
  <1>8. CASE WriteMarker
    <2>1. CASE pc' = "write_history" /\ UNCHANGED <<op, who, read, room, peers, memory>>
      BY <1>8, <2>1, NoteStutter DEF WriteMarker, Promise
    <2> QED BY <1>6, <1>7, <1>8, <2>1 DEF WriteMarker
  <1>9. CASE WriteHistory
    BY <1>6, <1>7, <1>9 DEF WriteHistory
  <1>10. CASE Inspect
    <2>1. room /\ room' /\ UNCHANGED sidecar /\ doc = sidecar.blocks
      BY <1>10 DEF Inspect
    <2>2. CASE doc' = doc /\ pc' \notin Importing \cup {"apply_sidecar"}
      BY <1>10, <2>1, <2>2, NoteStutter DEF Inspect, Promise
    <2>3. CASE doc # file.blocks /\ doc' = file.blocks /\ pc' = "import_marker"
      <3>1. Note!Replace(file.blocks)
        BY <1>10, <2>1, <2>3 DEF Inspect, Note!Replace
      <3>2. file.blocks \in SUBSET Block
        BY ContentBlocks DEF TypeOK
      <3> QED BY <3>1, <3>2 DEF Note!Next
    <2> QED BY <1>10, <2>2, <2>3 DEF Inspect, AfterInspect
  <1>11. CASE ImportMarker
    BY <1>11, NoteStutter DEF ImportMarker, AfterInspect, Promise
  <1>12. CASE ImportHistory
    BY <1>12, NoteStutter DEF ImportHistory, Promise
  <1>13. CASE ImportSidecar
    <2>1. Note!Settle
      BY <1>13 DEF ImportSidecar, AfterInspect, Note!Settle
    <2> QED BY <2>1 DEF Note!Next
  <1>14. CASE Admit
    BY <1>14, NoteStutter DEF Admit, Idle, Promise
  <1>15. CASE Retain
    <2>1. CASE RemoveRoom
      BY <1>15, <2>1, NoteStops DEF Retain, RemoveRoom
    <2>2. CASE UNCHANGED <<room, peers, memory>>
      BY <1>15, <2>2, NoteStutter DEF Retain, Idle, Promise
    <2> QED BY <1>15, <2>1, <2>2 DEF Retain
  <1>16. CASE Apply
    <2>1. CASE room
      <3>1. op = "restore" /\ doc = sidecar.blocks /\ UNCHANGED <<sidecar, room>>
        BY <1>16, <2>1 DEF Apply
      <3>2. CASE UNCHANGED doc /\ pc' = "write_file"
        BY <1>16, <3>1, <3>2, NoteStutter DEF Apply, Promise
      <3>3. ASSUME NEW version \in versions, doc' = version, pc' = "apply_sidecar"
            PROVE  Note!Next
        <4>1. Note!Replace(version)
          BY <1>16, <2>1, <3>1, <3>3 DEF Apply, Note!Replace
        <4>2. version \in SUBSET Block
          BY <3>3 DEF TypeOK
        <4> QED BY <4>1, <4>2 DEF Note!Next
      <3> QED BY <1>16, <3>1, <3>2, <3>3 DEF Apply
    <2>2. CASE ~room
      BY <1>16, <2>2, NoteStutter DEF Apply, Promise
    <2> QED BY <2>1, <2>2
  <1>17. CASE ApplySidecar
    <2>1. CASE room
      <3>1. Note!Settle
        BY <1>17, <2>1 DEF ApplySidecar, Note!Settle
      <3> QED BY <3>1 DEF Note!Next
    <2>2. CASE ~room
      <3>1. Note!Rewrite(doc)
        BY <1>17, <2>2 DEF ApplySidecar, Note!Rewrite
      <3>2. doc \in SUBSET Block
        BY DEF TypeOK
      <3> QED BY <3>1, <3>2 DEF Note!Next
    <2> QED BY <2>1, <2>2
  <1> QED
    BY <1>1, <1>2, <1>3, <1>4, <1>5, <1>8, <1>9, <1>10, <1>11, <1>12, <1>13, <1>14, <1>15,
       <1>16, <1>17 DEF HandlerStep

(* Requests only start handlers, close the room, or are an edit. *)
LEMMA NoteRequest ==
  DurabilityInv /\ Request => [Note!Next]_(Note!vars)
  <1> SUFFICES ASSUME DurabilityInv, Request PROVE [Note!Next]_(Note!vars)
    OBVIOUS
  <1> USE DEF DurabilityInv, HandlerShape, Importing, disk, memory, control
  <1>1. ASSUME NEW p \in Peer, Subscribe(p) \/ SubscribeStale(p)
        PROVE  [Note!Next]_(Note!vars)
    BY <1>1, NoteStutter DEF Subscribe, SubscribeStale, Promise
  <1>2. ASSUME Release, pc = "idle", UNCHANGED sidecar
        PROVE  [Note!Next]_(Note!vars)
    <2>1. CASE room' = FALSE
      BY <1>2, <2>1, NoteStops
    <2>2. CASE pc' = "write_file" /\ UNCHANGED <<room, memory>>
      BY <1>2, <2>2, NoteStutter DEF Promise
    <2> QED BY <1>2, <2>1, <2>2 DEF Release
  <1>3. ASSUME NEW p \in Peer, Unsubscribe(p)
        PROVE  [Note!Next]_(Note!vars)
    <2>1. CASE Release
      BY <1>2, <1>3, <2>1 DEF Unsubscribe
    <2>2. CASE UNCHANGED <<room, memory, op, pc>>
      BY <1>3, <2>2, NoteStutter DEF Unsubscribe, Promise
    <2> QED BY <1>3, <2>1, <2>2 DEF Unsubscribe
  <1>4. CASE Close
    BY <1>2, <1>4 DEF Close
  <1>5. CASE FlushAll \/ Restore
    BY <1>5, NoteStutter DEF FlushAll, Restore, Promise
  <1>6. ASSUME NEW kind \in {"tick", "sweep"}, Maintain(kind)
        PROVE  [Note!Next]_(Note!vars)
    BY <1>6, NoteStutter DEF Maintain, Promise
  <1>7. ASSUME NEW b \in Block, Insert(b) \/ Delete(b)
        PROVE  Note!Next
    <2> DEFINE after == IF Insert(b) THEN doc \cup {b} ELSE doc \ {b}
    <2>1. pc = "idle" /\ pc' = pc /\ room /\ room' /\ sidecar.blocks = doc
      BY <1>7 DEF Insert, Delete, Accept, LogFollowsDoc, Loaded
    <2>2. doc' = after /\ after \in {doc \cup {b}, doc \ {b}}
      BY <1>7 DEF Insert, Delete, Accept
    <2>3. sidecar' = [sidecar EXCEPT !.blocks = after]
      BY <1>7, <2>1 DEF Insert, Delete, Accept, Replay
    <2>4. sidecar'.blocks = after
      BY <2>3 DEF TypeOK
    <2> HIDE DEF after
    <2>5. Note!Edit(b)
      BY <2>1, <2>2, <2>4 DEF Note!Edit
    <2> QED BY <2>5 DEF Note!Next
  <1> QED BY <1>1, <1>3, <1>4, <1>5, <1>6, <1>7 DEF Request

(* Outside the process there is the clock, which nobody sees, and its death. *)
LEMMA NoteWorld ==
  OnlyCleanFailures /\ World => [Note!Next]_(Note!vars)
  <1> SUFFICES ASSUME OnlyCleanFailures, World PROVE [Note!Next]_(Note!vars)
    OBVIOUS
  <1>1. CASE Elapse
    BY <1>1, NoteStutter DEF Elapse, Promise, disk, control
  <1>2. ASSUME NEW add \in AtMostOne, NEW cut \in AtMostOne, NEW form \in {"canonical", "loose"},
               ExternalEdit(add, cut, form)
        PROVE  [Note!Next]_(Note!vars)
    BY <1>2, NoteStutter DEF ExternalEdit, Promise, memory, control
  <1>3. CASE Crash
    BY <1>3, NoteStops DEF Crash, disk
  <1>4. ~CrashInAppend
    BY DEF CrashInAppend, OnlyCleanFailures
  <1> QED BY <1>1, <1>2, <1>3, <1>4 DEF World

(* A read or a write of the Markdown that fails leaves an open room as it is. *)
LEMMA NoteFailure ==
  OnlyCleanFailures /\ DurabilityInv /\ Failure => [Note!Next]_(Note!vars)
  <1> SUFFICES ASSUME OnlyCleanFailures, DurabilityInv, Failure
               PROVE  [Note!Next]_(Note!vars)
    OBVIOUS
  <1>1. ASSUME Fail, UNCHANGED <<sidecar, room>>, pc \notin Importing \cup {"apply_sidecar"}
        PROVE  [Note!Next]_(Note!vars)
    BY <1>1, NoteStutter DEF Fail, Idle, KeepOrDrop, memory, Importing, Promise
  <1>2. ReadFails \/ WriteFileFails
    BY DEF Failure, AppendFails, MarkerFails, HistoryFails, SidecarFails, OnlyCleanFailures
  <1> QED BY <1>1, <1>2 DEF ReadFails, WriteFileFails, Importing, disk

(* An edit is durable when it is seen, and what a restart serves is what it reads
   back, for any number of blocks and connections, as long as the only failures
   are crashes, reads and Markdown writes that leave the old file: the room
   implements DurableNote (apply_remote_update_as, open, restore_markdown,
   inspect_external_change, release). *)
THEOREM RoomIsDurableNote == OnlyCleanFailures /\ Spec => ServesDurably
  <1> SUFFICES ASSUME OnlyCleanFailures PROVE Spec => ServesDurably
    OBVIOUS
  <1>1. DurabilityInv /\ [Next]_vars => [Note!Next]_(Note!vars)
    <2>1. ASSUME UNCHANGED vars PROVE UNCHANGED Promise
      BY <2>1 DEF vars, disk, memory, control, Promise
    <2> QED
      BY <2>1, NoteStutter, NoteHandlerStep, NoteRequest, NoteWorld, NoteFailure DEF Next
  <1>2. Spec => []DurabilityInv
    BY DurabilityInvariant
  <1> QED BY <1>1, <1>2, NoteInit, PTL DEF Spec, ServesDurably, Note!Spec
=============================================================================
