---------------------------- MODULE MCMediaQueue ----------------------------
(* Instances of MediaQueue for TLC: one user and page; a display and its original. *)
EXTENDS MediaQueue, Naturals, TLC

CONSTANTS u1, picture, scan

MCOwner == [c \in Client |-> u1]
MCOriginal == [o \in Object |-> IF o = picture THEN scan ELSE None]

(* Bounds.  Calm: the queue is empty and at most one client is busy.  While it is not,
   the objects are in a bucket, no pass, clip or derived upload is under way and no note
   cites anything: the queue is not concerned with them; and a connection fails before
   the server has begun a request or after it has answered.  Notes cite displays, and an
   original is not itself derived from another object.  A bucket is only copied from and
   the vault's own store only pruned, before an editor got a path: to a prune the two
   differ in the rename of an upload, which only the vault has. *)
Calm ==
  /\ queue = Nothing
  /\ Cardinality({c \in Client : request[c] # Resting \/ job[c] # NoJob}) <= 1

Explored ==
  /\ manifest[scan] = None /\ Cited \subseteq {picture}
  /\ pass.kind # "none" =>
       given = {} /\ pass.kind = IF backend = "s3" THEN "materialize" ELSE "prune"
  /\ \/ Calm
     \/ /\ pass = NoPass /\ Cited = {} /\ backend = "s3"
        /\ \A c \in Client :
             /\ job[c].kind # "single"
             /\ request[c].pc \in {"idle", "created", "refused"}
                  \/ job[c].step \in {"original", "display", "send"}

Symmetry == Permutations(Client) \cup Permutations(Note)
=============================================================================
