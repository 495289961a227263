---------------------------- MODULE DurableNote ----------------------------
(* What a room promises the people in one note: an edit they see is an edit a
   restart reads back.  The note may be served or not; the process that serves
   it may stop at any moment.  Only a change of the whole document, which takes
   what a file or a version says for the document, is seen before it is
   durable, and no edit is accepted until it is. *)
CONSTANT Block

VARIABLES
  content,   \* the blocks a process that starts now reads back
  served,    \* {}, or the one document that is served
  replacing  \* the whole document was changed, and is not yet read back

vars == <<content, served, replacing>>

Init == content = {} /\ served = {} /\ replacing = FALSE

Serve ==
  /\ served = {} /\ served' = {content}
  /\ UNCHANGED <<content, replacing>>

(* One block comes or goes, for the subscribers and for a restart at once. *)
Edit(b) ==
  /\ served = {content} /\ ~replacing
  /\ content' \in {content \cup {b}, content \ {b}}
  /\ served' = {content'}
  /\ UNCHANGED replacing

Replace(blocks) ==
  /\ served = {content} /\ ~replacing
  /\ served' = {blocks} /\ replacing' = TRUE
  /\ UNCHANGED content

Settle ==
  /\ replacing /\ replacing' = FALSE
  /\ content' \in served
  /\ UNCHANGED served

(* A note that is not served is written first from its file, and later from
   any version somebody restores. *)
Rewrite(blocks) ==
  /\ served = {} /\ content' = blocks
  /\ UNCHANGED <<served, replacing>>

(* The note is closed, or the process dies.  What was read back still is. *)
Stop ==
  /\ served' = {} /\ replacing' = FALSE
  /\ UNCHANGED content

Next ==
  \/ Serve \/ Settle \/ Stop
  \/ \E b \in Block : Edit(b)
  \/ \E blocks \in SUBSET Block : Replace(blocks) \/ Rewrite(blocks)

Spec == Init /\ [][Next]_vars
=============================================================================
