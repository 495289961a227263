---------------------------- MODULE ChangeQueue ----------------------------
(* What the watcher promises the maintenance loop: a path
   reported as changed is handed out by one of the next two takes.  A take may
   name paths nobody reported; it may not forget one. *)
CONSTANT Path

VARIABLES
  fresh,    \* reported since the last take
  waiting,  \* reported, and passed over by the last take
  given     \* what the last take handed out

vars == <<fresh, waiting, given>>

Init == fresh = {} /\ waiting = {} /\ given = {}

Report(paths) ==
  /\ fresh' = fresh \cup paths
  /\ UNCHANGED <<waiting, given>>

Take(paths) ==
  /\ waiting \subseteq paths
  /\ waiting' = fresh \ paths
  /\ fresh' = {}
  /\ given' = paths

Next == \E paths \in SUBSET Path : Report(paths) \/ Take(paths)

Spec == Init /\ [][Next]_vars
=============================================================================
