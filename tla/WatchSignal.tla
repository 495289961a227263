---------------------------- MODULE WatchSignal ----------------------------
(* The signal between the filesystem watchers and the maintenance loop
   (mb-server/watch.rs): a bounded set of paths behind a mutex and an overflow
   flag that is not behind it.  Watcher threads call `touched` and `overflowed`,
   the maintenance loop calls `take`; the calls interleave at every access to
   the mutex or to the flag. *)
EXTENDS Naturals, FiniteSets

CONSTANTS
  Path,     \* canonical paths of files
  Capacity  \* paths the set may hold (16 384 in the code)

ASSUME CapacityAssumption == Capacity \in Nat

VARIABLES
  dirty,     \* the set of paths
  overflow,  \* the flag
  clearing,  \* whether a watcher holds the mutex, the set cleared, the flag not yet set
  taking,    \* where `take` is: not called, the flag was set, the flag was not set
  given,     \* the changes the last take returned
  fresh,     \* history: paths reported since the last take
  waiting    \* history: paths reported and not in what the last take returned

signal == <<dirty, overflow, clearing, taking, given, fresh, waiting>>

All == [all |-> TRUE, paths |-> Path]
Only(paths) == [all |-> FALSE, paths |-> paths]

TypeOK ==
  /\ dirty \subseteq Path /\ IsFiniteSet(dirty) /\ Cardinality(dirty) <= Capacity
  /\ overflow \in BOOLEAN /\ clearing \in BOOLEAN
  /\ taking \in {"no", "clear", "set"}
  /\ given \in {All} \cup {Only(paths) : paths \in SUBSET Path}
  /\ fresh \subseteq Path /\ waiting \subseteq Path

Init ==
  /\ dirty = {} /\ overflow = FALSE /\ clearing = FALSE
  /\ taking = "no" /\ given = Only({})
  /\ fresh = {} /\ waiting = {}

-----------------------------------------------------------------------------
(* Mutant of TouchInsert: the bound is checked one too late. *)
TouchInsertLate(p) ==
  /\ ~clearing /\ Cardinality(dirty) <= Capacity
  /\ dirty' = dirty \cup {p} /\ fresh' = fresh \cup {p}
  /\ UNCHANGED <<overflow, clearing, taking, given, waiting>>

(* touched with room left. *)
TouchInsert(p) ==
  /\ ~clearing /\ Cardinality(dirty) < Capacity
  /\ dirty' = dirty \cup {p} /\ fresh' = fresh \cup {p}
  /\ UNCHANGED <<overflow, clearing, taking, given, waiting>>

(* touched at the bound: the set is given up, then the flag is set; the mutex is
   held for both. *)
TouchClear(p) ==
  /\ ~clearing /\ Cardinality(dirty) >= Capacity
  /\ dirty' = {} /\ clearing' = TRUE /\ fresh' = fresh \cup {p}
  /\ UNCHANGED <<overflow, taking, given, waiting>>

(* Mutant of TouchFlag: the flag is not set. *)
TouchFlagForgotten ==
  /\ clearing /\ clearing' = FALSE
  /\ UNCHANGED <<dirty, overflow, taking, given, fresh, waiting>>

TouchFlag ==
  /\ clearing /\ clearing' = FALSE /\ overflow' = TRUE
  /\ UNCHANGED <<dirty, taking, given, fresh, waiting>>

(* overflowed: any path may have changed. *)
Overflowed ==
  /\ overflow' = TRUE /\ fresh' = Path
  /\ UNCHANGED <<dirty, clearing, taking, given, waiting>>

(* take swaps the flag without the mutex, *)
TakeSwap ==
  /\ taking = "no"
  /\ taking' = IF overflow THEN "clear" ELSE "set"
  /\ overflow' = FALSE
  /\ UNCHANGED <<dirty, clearing, given, fresh, waiting>>

Returned(changes) ==
  /\ taking' = "no" /\ dirty' = {} /\ given' = changes
  /\ waiting' = fresh \ changes.paths /\ fresh' = {}

(* and then empties the set behind it: the flag stands for everything, *)
TakeClear == taking = "clear" /\ ~clearing /\ Returned(All) /\ UNCHANGED <<overflow, clearing>>

(* Mutant of TakeSet: the flag is reset where the set is taken. *)
TakeSetReset ==
  /\ taking = "set" /\ ~clearing /\ Returned(Only(dirty))
  /\ overflow' = FALSE /\ UNCHANGED clearing

(* or the set is the answer. *)
TakeSet == taking = "set" /\ ~clearing /\ Returned(Only(dirty)) /\ UNCHANGED <<overflow, clearing>>

Watcher == (\E p \in Path : TouchInsert(p) \/ TouchClear(p)) \/ TouchFlag \/ Overflowed
Taker == TakeSwap \/ TakeClear \/ TakeSet

Next == Watcher \/ Taker

Spec == Init /\ [][Next]_signal
-----------------------------------------------------------------------------
(* Whatever happens between the accesses of a take, a path that was reported is
   handed out by that take or by the one after it: the signal is a ChangeQueue
   (WatchSignal::touched, take). *)
Queue == INSTANCE ChangeQueue WITH given <- given.paths

HandsOut == Queue!Spec
=============================================================================
