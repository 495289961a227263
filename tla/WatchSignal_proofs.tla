------------------------ MODULE WatchSignal_proofs -------------------------
(* The watcher's signal hands out every report within two takes, for any set of
   paths and any capacity. *)
EXTENDS WatchSignal, FiniteSetTheorems, TLAPS

(* A fresh report is still in the set, or a flag stands for it. *)
FreshIsHeld ==
  fresh \subseteq dirty \/ overflow \/ clearing \/ taking = "clear"

(* A report that a take passed over was passed over because the flag was set
   behind the take's back, so the next take sees the flag. *)
WaitingIsFlagged ==
  waiting # {} => taking = "clear" \/ (taking = "no" /\ overflow)

SignalInv == TypeOK /\ FreshIsHeld /\ WaitingIsFlagged

LEMMA InitEstablishes == Init => SignalInv
<1> SUFFICES ASSUME Init PROVE SignalInv
  OBVIOUS
<1>1. IsFiniteSet(dirty) /\ Cardinality(dirty) <= Capacity
  BY FS_EmptySet, CapacityAssumption DEF Init
<1> QED
  BY <1>1 DEF Init, SignalInv, TypeOK, FreshIsHeld, WaitingIsFlagged, Only

(* The set stays within its capacity: a path is added only while there is room. *)
LEMMA InsertFits ==
  ASSUME TypeOK, NEW p \in Path, TouchInsert(p)
  PROVE  IsFiniteSet(dirty') /\ Cardinality(dirty') <= Capacity
<1>1. Cardinality(dirty) \in Nat
  BY FS_CardinalityType DEF TypeOK
<1>2. IsFiniteSet(dirty \cup {p})
  BY FS_AddElement DEF TypeOK
<1>3. Cardinality(dirty \cup {p}) <= Cardinality(dirty) + 1
  <2>1. Cardinality(dirty \cup {p})
          = IF p \in dirty THEN Cardinality(dirty) ELSE Cardinality(dirty) + 1
    BY FS_AddElement DEF TypeOK
  <2> QED
    BY <1>1, <2>1
<1>4. Cardinality(dirty \cup {p}) \in Nat
  BY <1>2, FS_CardinalityType
<1> QED
  BY <1>1, <1>2, <1>3, <1>4, CapacityAssumption DEF TouchInsert

LEMMA StepPreserves == SignalInv /\ [Next]_signal => SignalInv'
<1> SUFFICES ASSUME SignalInv, [Next]_signal PROVE SignalInv'
  OBVIOUS
<1> USE DEF SignalInv
<1>0. IsFiniteSet({}) /\ Cardinality({}) <= Capacity
  BY FS_EmptySet, CapacityAssumption
<1>1. ASSUME NEW p \in Path, TouchInsert(p) PROVE SignalInv'
  <2>1. IsFiniteSet(dirty') /\ Cardinality(dirty') <= Capacity
    BY <1>1, InsertFits
  <2>2. TypeOK'
    BY <1>1, <2>1 DEF TypeOK, TouchInsert
  <2> QED
    BY <1>1, <2>2 DEF TouchInsert, FreshIsHeld, WaitingIsFlagged
<1>2. ASSUME NEW p \in Path, TouchClear(p) PROVE SignalInv'
  BY <1>0, <1>2 DEF TouchClear, TypeOK, FreshIsHeld, WaitingIsFlagged
<1>3. CASE TouchFlag
  BY <1>3 DEF TouchFlag, TypeOK, FreshIsHeld, WaitingIsFlagged
<1>4. CASE Overflowed
  BY <1>4 DEF Overflowed, TypeOK, FreshIsHeld, WaitingIsFlagged
<1>5. CASE TakeSwap
  BY <1>5 DEF TakeSwap, TypeOK, FreshIsHeld, WaitingIsFlagged
<1>6. CASE TakeClear
  <2>1. TypeOK'
    BY <1>0, <1>6 DEF TakeClear, Returned, TypeOK, All
  <2>2. waiting' = {}
    BY <1>6 DEF TakeClear, Returned, TypeOK, All
  <2> QED
    BY <1>6, <2>1, <2>2 DEF TakeClear, Returned, FreshIsHeld, WaitingIsFlagged
<1>7. CASE TakeSet
  <2>1. given' = Only(dirty) /\ Only(dirty) \in {Only(paths) : paths \in SUBSET Path}
    BY <1>7 DEF TakeSet, Returned, TypeOK
  <2>2. TypeOK'
    BY <1>0, <1>7, <2>1 DEF TakeSet, Returned, TypeOK
  <2>3. waiting' # {} => overflow
    BY <1>7 DEF TakeSet, Returned, Only, FreshIsHeld
  <2> QED
    BY <1>7, <2>2, <2>3 DEF TakeSet, Returned, FreshIsHeld, WaitingIsFlagged
<1>8. CASE UNCHANGED signal
  BY <1>8 DEF signal, TypeOK, FreshIsHeld, WaitingIsFlagged
<1> QED
  BY <1>1, <1>2, <1>3, <1>4, <1>5, <1>6, <1>7, <1>8 DEF Next, Watcher, Taker

(* The invariant behind the promise: what was reported and not handed out is in
   the set or under a flag the next take sees (watch.rs, `touched`, `take`). *)
THEOREM SignalInvariant == Spec => []SignalInv
BY InitEstablishes, StepPreserves, PTL DEF Spec

(* The set of dirty paths never outgrows its bound, and the rest of the state is
   well typed, whatever the interleaving of watchers and taker. *)
THEOREM SignalTypeCorrect == Spec => []TypeOK
BY SignalInvariant, PTL DEF SignalInv

-----------------------------------------------------------------------------
LEMMA InitRefines == Init => Queue!Init
BY DEF Init, Queue!Init, Only

(* A report of the watchers is a Report, the end of a take is a Take, and what
   lies between is invisible. *)
LEMMA StepRefines == SignalInv /\ [Next]_signal => [Queue!Next]_(Queue!vars)
<1> SUFFICES ASSUME SignalInv, [Next]_signal PROVE [Queue!Next]_(Queue!vars)
  OBVIOUS
<1> USE DEF Queue!vars
<1>1. ASSUME NEW p \in Path, TouchInsert(p) \/ TouchClear(p)
      PROVE  Queue!Report({p})
  BY <1>1 DEF TouchInsert, TouchClear, Queue!Report
<1>2. CASE TouchFlag
  BY <1>2 DEF TouchFlag
<1>3. CASE Overflowed
  <2>1. Queue!Report(Path)
    BY <1>3 DEF Overflowed, Queue!Report, SignalInv, TypeOK
  <2> QED
    BY <2>1 DEF Queue!Next
<1>4. CASE TakeSwap
  BY <1>4 DEF TakeSwap
<1>5. CASE TakeClear
  <2>1. Queue!Take(Path)
    BY <1>5 DEF TakeClear, Returned, All, Queue!Take, SignalInv, TypeOK
  <2> QED
    BY <2>1 DEF Queue!Next
<1>6. CASE TakeSet
  <2>1. waiting = {}
    BY <1>6 DEF TakeSet, SignalInv, WaitingIsFlagged
  <2>2. Queue!Take(dirty)
    BY <1>6, <2>1 DEF TakeSet, Returned, Only, Queue!Take
  <2>3. dirty \in SUBSET Path
    BY DEF SignalInv, TypeOK
  <2> QED
    BY <2>2, <2>3 DEF Queue!Next
<1>7. CASE UNCHANGED signal
  BY <1>7 DEF signal
<1>8. ASSUME NEW p \in Path, Queue!Report({p}) PROVE Queue!Next
  BY <1>8 DEF Queue!Next
<1> QED
  BY <1>1, <1>2, <1>3, <1>4, <1>5, <1>6, <1>7, <1>8 DEF Next, Watcher, Taker

(* The signal implements the change queue: every report is handed out by one of
   the next two takes, for any capacity, also where a take swaps the flag before
   and empties the set after a watcher gives the set up. *)
THEOREM SignalHandsOut == Spec => HandsOut
BY InitRefines, StepRefines, SignalInvariant, PTL DEF Spec, HandsOut, Queue!Spec
=============================================================================
