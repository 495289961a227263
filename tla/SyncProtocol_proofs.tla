------------------------- MODULE SyncProtocol_proofs -------------------------
(* Proofs about SyncProtocol, for any number of tabs, edits and mishaps: what a tab counts
   as saved is in the server's durable document, and no tab gives up while nothing worse
   happens than lost connections, refused updates and reloads.

   The argument is a ledger per tab.  The count is at least what the echoes of the updates
   in flight will take off it, and either it is more, so that it cannot reach zero before
   the next state of the server is merged, or everything the tab holds is in the log or in
   an update in flight.  What the server sends is always in the log.

   That no tab gives up rests on the order of what is on its way: what an open socket that
   the page is connected on still carries starts with the admission, follows without a gap
   on what the tab holds, and with it the tab has all that the log has; and an update is on
   its way to the server only on a socket that the server has in the room.

   Total, a recursive function, is reasoned about by induction over a set of numbers. *)
EXTENDS SyncProtocol, SequenceTheorems, NaturalsInduction, WellFoundedInduction, TLAPS

-----------------------------------------------------------------------------
(* Induction, with a set for the predicate. *)
LEMMA Least ==
  ASSUME NEW T, T \subseteq Nat, T # {}
  PROVE  \E x \in T : \A y \in T : x <= y
<1> DEFINE R == OpToRel(<, Nat)
<1>1. IsWellFoundedOn(R, Nat)
  BY NatLessThanWellFounded
<1>2. R = {ss \in Nat \X Nat : ss[1] < ss[2]}
  BY DEF OpToRel
<1> HIDE DEF R
<1>3. PICK x \in T : \A y \in T : <<y, x>> \notin R
  BY <1>1, WFMin
<1>4. SUFFICES ASSUME NEW y \in T PROVE x <= y
  OBVIOUS
<1>5. <<y, x>> \in Nat \X Nat /\ <<y, x>>[1] = y /\ <<y, x>>[2] = x
  OBVIOUS
<1>6. ~ (y < x)
  BY <1>2, <1>3, <1>5
<1>7. x \in Nat /\ y \in Nat
  OBVIOUS
<1> QED
  BY <1>6, <1>7

LEMMA Induct ==
  ASSUME NEW n \in Nat, NEW T, 0 \in T, \A i \in 0..n : i \in T /\ i < n => i + 1 \in T
  PROVE  \A i \in 0..n : i \in T
<1> DEFINE U == {i \in 0..n : i \notin T}
<1>1. SUFFICES ASSUME U # {} PROVE FALSE
  OBVIOUS
<1>0. U \subseteq Nat
  OBVIOUS
<1>2. PICK x \in U : \A y \in U : x <= y
  <2> HIDE DEF U
  <2> QED
    BY <1>0, <1>1, Least
<1>3. x # 0
  OBVIOUS
<1>4. x \in Nat /\ x - 1 \in 0..n /\ x - 1 < n
  BY <1>2, <1>3
<1>5. x - 1 \notin U
  BY <1>2, <1>4
<1>6. x - 1 \in T /\ (x - 1) + 1 = x
  BY <1>4, <1>5
<1> QED
  BY <1>2, <1>4, <1>6

-----------------------------------------------------------------------------
(* Total. *)
Weighed(flight) == \A i \in 1..Len(flight) : flight[i].count \in Nat
Sums(flight, f) ==
  f = [i \in 0..Len(flight) |-> IF i = 0 THEN 0 ELSE f[i - 1] + flight[i].count]

(* The recursive function is there: for every part of the sequence, then for all of it. *)
LEMMA SumsExist ==
  ASSUME NEW S, NEW flight \in Seq(S), Weighed(flight)
  PROVE  \E f : Sums(flight, f) /\ f \in [0..Len(flight) -> Nat]
<1> DEFINE n == Len(flight)
           To(m, f) == /\ f \in [0..m -> Nat] /\ f[0] = 0
                       /\ \A i \in 1..m : f[i] = f[i - 1] + flight[i].count
           T == {m \in 0..n : \E f : To(m, f)}
<1>0. n \in Nat
  BY LenProperties
<1>1. 0 \in T
  <2>1. To(0, [i \in 0..0 |-> 0])
    OBVIOUS
  <2>2. \E f : To(0, f)
    <3> HIDE DEF To
    <3> QED
      BY <2>1
  <2> QED
    BY <1>0, <2>2
<1>2. ASSUME NEW i \in 0..n, i \in T, i < n PROVE i + 1 \in T
  <2>1. PICK f : To(i, f)
    BY <1>2
  <2> DEFINE g == [j \in 0..(i + 1) |-> IF j = i + 1 THEN f[i] + flight[i + 1].count ELSE f[j]]
  <2>2. flight[i + 1].count \in Nat
    BY <1>0, <1>2 DEF Weighed
  <2>3. g \in [0..(i + 1) -> Nat] /\ g[0] = 0
    BY <1>0, <2>1, <2>2
  <2>4. \A j \in 1..(i + 1) : g[j] = g[j - 1] + flight[j].count
    <3>1. i \in Nat
      BY <1>0
    <3>2. SUFFICES ASSUME NEW j \in 1..(i + 1) PROVE g[j] = g[j - 1] + flight[j].count
      OBVIOUS
    <3>3. j - 1 \in 0..(i + 1) /\ j - 1 # i + 1 /\ j \in 0..(i + 1) /\ (j # i + 1 => j \in 1..i)
      BY <3>1
    <3>4. g[j - 1] = f[j - 1]
      BY <3>3
    <3>5. CASE j = i + 1
      <4>1. j - 1 = i
        BY <3>1, <3>5
      <4> QED
        BY <3>3, <3>4, <3>5, <4>1
    <3>6. CASE j # i + 1
      BY <2>1, <3>3, <3>4, <3>6
    <3> QED
      BY <3>5, <3>6
  <2>5. To(i + 1, g)
    BY <2>3, <2>4
  <2>6. \E h : To(i + 1, h)
    <3> HIDE DEF To, g
    <3> QED
      BY <2>5
  <2>7. i + 1 \in 0..n
    BY <1>0, <1>2
  <2> HIDE DEF To
  <2> QED
    BY <2>6, <2>7
<1>3. n \in T
  <2>1. \A i \in 0..n : i \in T /\ i < n => i + 1 \in T
    <3> TAKE i \in 0..n
    <3> QED
      BY <1>2
  <2> HIDE DEF T, n
  <2>2. \A i \in 0..n : i \in T
    BY <1>0, <1>1, <2>1, Induct
  <2> QED
    BY <1>0, <2>2
<1>4. PICK f : To(n, f)
  BY <1>3
<1>5. f = [i \in 0..n |-> IF i = 0 THEN 0 ELSE f[i - 1] + flight[i].count]
  <2>1. \A i \in 0..n : f[i] = IF i = 0 THEN 0 ELSE f[i - 1] + flight[i].count
    BY <1>0, <1>4
  <2> QED
    BY <1>4, <2>1
<1> QED
  BY <1>4, <1>5 DEF Sums

LEMMA SumsTyped ==
  ASSUME NEW S, NEW flight \in Seq(S), Weighed(flight), NEW f, Sums(flight, f)
  PROVE  /\ f \in [0..Len(flight) -> Nat] /\ f[0] = 0
         /\ \A i \in 1..Len(flight) : f[i] = f[i - 1] + flight[i].count
<1> DEFINE n == Len(flight)
           T == {i \in 0..n : f[i] \in Nat}
<1>1. n \in Nat
  BY LenProperties
<1>2. /\ DOMAIN f = 0..n
      /\ f = [i \in 0..n |-> IF i = 0 THEN 0 ELSE f[i - 1] + flight[i].count]
  BY DEF Sums
<1>3. f[0] = 0
  BY <1>1, <1>2
<1>4. \A i \in 1..n : f[i] = f[i - 1] + flight[i].count
  BY <1>1, <1>2
<1>5. \A i \in 0..n : i \in T
  <2>1. 0 \in T
    BY <1>1, <1>3
  <2>2. \A i \in 0..n : i \in T /\ i < n => i + 1 \in T
    BY <1>1, <1>4 DEF Weighed
  <2> HIDE DEF T, n
  <2> QED
    BY <1>1, <2>1, <2>2, Induct
<1> QED
  BY <1>2, <1>3, <1>4, <1>5

LEMMA TotalSums ==
  ASSUME NEW S, NEW flight \in Seq(S), Weighed(flight)
  PROVE  \E f : Sums(flight, f) /\ Total(flight) = f[Len(flight)]
<1> DEFINE f == CHOOSE g : Sums(flight, g)
<1>1. Sums(flight, f)
  BY SumsExist
<1>2. Total(flight) = f[Len(flight)]
  BY DEF Total, Sums
<1> QED
  BY <1>1, <1>2

LEMMA SumsAgree ==
  ASSUME NEW S, NEW s \in Seq(S), Weighed(s), NEW f, Sums(s, f),
         NEW t \in Seq(S), Weighed(t), NEW g, Sums(t, g),
         NEW m \in Nat, m <= Len(s), m <= Len(t),
         \A i \in 1..m : s[i].count = t[i].count
  PROVE  f[m] = g[m]
<1> DEFINE T == {i \in 0..m : f[i] = g[i]}
<1>1. Len(s) \in Nat /\ Len(t) \in Nat
  BY LenProperties
<1>2. f[0] = 0 /\ \A i \in 1..m : f[i] = f[i - 1] + s[i].count
  BY <1>1, SumsTyped
<1>3. g[0] = 0 /\ \A i \in 1..m : g[i] = g[i - 1] + t[i].count
  BY <1>1, SumsTyped
<1>4. 0 \in T
  BY <1>2, <1>3
<1>5. \A i \in 0..m : i \in T /\ i < m => i + 1 \in T
  <2> SUFFICES ASSUME NEW i \in 0..m, i \in T, i < m PROVE i + 1 \in T
    OBVIOUS
  <2>1. i + 1 \in 1..m /\ (i + 1) - 1 = i
    OBVIOUS
  <2>2. f[i + 1] = f[i] + s[i + 1].count /\ g[i + 1] = g[i] + t[i + 1].count
    BY <1>2, <1>3, <2>1
  <2> QED
    BY <2>1, <2>2
<1> HIDE DEF T
<1>6. \A i \in 0..m : i \in T
  BY <1>4, <1>5, Induct
<1> QED
  BY <1>6 DEF T

LEMMA TotalEmpty == Total(<<>>) = 0
<1>1. <<>> \in Seq(Nat) /\ Len(<<>>) = 0
  BY EmptySeq
<1>2. Weighed(<<>>)
  BY <1>1 DEF Weighed
<1>3. PICK f : Sums(<<>>, f) /\ Total(<<>>) = f[Len(<<>>)]
  BY <1>1, <1>2, TotalSums
<1>4. f[0] = 0
  BY <1>1, <1>2, <1>3, SumsTyped
<1> QED
  BY <1>1, <1>3, <1>4

LEMMA TotalTyped ==
  ASSUME NEW S, NEW s \in Seq(S), Weighed(s)
  PROVE  Total(s) \in Nat
<1>1. PICK f : Sums(s, f) /\ Total(s) = f[Len(s)]
  BY TotalSums
<1>2. f \in [0..Len(s) -> Nat] /\ Len(s) \in Nat
  BY <1>1, SumsTyped, LenProperties
<1> QED
  BY <1>1, <1>2

LEMMA TotalAppend ==
  ASSUME NEW S, NEW s \in Seq(S), Weighed(s), NEW x \in S, x.count \in Nat
  PROVE  Weighed(Append(s, x)) /\ Total(Append(s, x)) = Total(s) + x.count
<1> DEFINE t == Append(s, x)
           n == Len(s)
<1>1. n \in Nat
  BY LenProperties
<1>2. /\ t \in Seq(S) /\ Len(t) = n + 1
      /\ \A i \in 1..n : t[i] = s[i]
      /\ t[n + 1] = x
  BY AppendProperties
<1> HIDE DEF t
<1>3. Weighed(t)
  BY <1>1, <1>2 DEF Weighed
<1>4. PICK f : Sums(s, f) /\ Total(s) = f[n]
  BY TotalSums
<1>5. PICK g : Sums(t, g) /\ Total(t) = g[n + 1]
  BY <1>2, <1>3, TotalSums
<1>6. f[n] = g[n]
  <2>1. \A i \in 1..n : s[i].count = t[i].count
    BY <1>2
  <2> QED
    BY <1>1, <1>2, <1>3, <1>4, <1>5, <2>1, SumsAgree
<1>7. g[n + 1] = g[n] + x.count
  <2>1. \A i \in 1..(n + 1) : g[i] = g[i - 1] + t[i].count
    BY <1>2, <1>3, <1>5, SumsTyped
  <2> QED
    BY <1>1, <1>2, <2>1
<1> QED
  BY <1>3, <1>4, <1>5, <1>6, <1>7 DEF t

LEMMA TotalLeast ==
  ASSUME NEW S, NEW s \in Seq(S), Weighed(s), s # <<>>, s[Len(s)].count >= 1
  PROVE  Total(s) >= 1
<1>1. PICK f : Sums(s, f) /\ Total(s) = f[Len(s)]
  BY TotalSums
<1>2. Len(s) \in Nat \ {0}
  BY EmptySeq
<1>3. f \in [0..Len(s) -> Nat] /\ \A i \in 1..Len(s) : f[i] = f[i - 1] + s[i].count
  BY <1>1, SumsTyped
<1>4. f[Len(s) - 1] \in Nat /\ s[Len(s)].count \in Nat
  BY <1>2, <1>3 DEF Weighed
<1> QED
  BY <1>1, <1>2, <1>3, <1>4

Without(s, i) == SubSeq(s, 1, i - 1) \o SubSeq(s, i + 1, Len(s))

LEMMA WithoutParts ==
  ASSUME NEW S, NEW s \in Seq(S), NEW i \in 1..Len(s)
  PROVE  /\ Without(s, i) \in Seq(S) /\ Len(Without(s, i)) = Len(s) - 1
         /\ \A j \in 1..(Len(s) - 1) : Without(s, i)[j] = IF j < i THEN s[j] ELSE s[j + 1]
<1> DEFINE a == SubSeq(s, 1, i - 1)
           b == SubSeq(s, i + 1, Len(s))
<1>1. Len(s) \in Nat /\ \A j \in 1..Len(s) : s[j] \in S
  BY LenProperties, ElementOfSeq
<1>2. /\ a \in Seq(S) /\ Len(a) = i - 1
      /\ \A j \in 1..(i - 1) : a[j] = s[j]
  <2>1. \A j \in 1..(i - 1) : s[j] \in S
    BY <1>1
  <2>2. /\ a \in Seq(S) /\ Len(a) = IF 1 <= i - 1 THEN (i - 1) - 1 + 1 ELSE 0
        /\ \A j \in 1..((i - 1) - 1 + 1) : a[j] = s[1 + j - 1]
    BY <1>1, <2>1, SubSeqProperties
  <2> QED
    BY <1>1, <2>2
<1>3. /\ b \in Seq(S) /\ Len(b) = Len(s) - i
      /\ \A j \in 1..(Len(s) - i) : b[j] = s[i + j]
  <2>1. \A j \in (i + 1)..Len(s) : s[j] \in S
    BY <1>1
  <2>2. /\ b \in Seq(S) /\ Len(b) = IF i + 1 <= Len(s) THEN Len(s) - (i + 1) + 1 ELSE 0
        /\ \A j \in 1..(Len(s) - (i + 1) + 1) : b[j] = s[(i + 1) + j - 1]
    BY <1>1, <2>1, SubSeqProperties
  <2> QED
    BY <1>1, <2>2
<1> HIDE DEF a, b
<1>4. /\ a \o b \in Seq(S) /\ Len(a \o b) = Len(s) - 1
      /\ \A j \in 1..(Len(s) - 1) : (a \o b)[j] = IF j <= i - 1 THEN a[j] ELSE b[j - (i - 1)]
  <2>1. /\ a \o b \in Seq(S) /\ Len(a \o b) = Len(a) + Len(b)
        /\ \A j \in 1..(Len(a) + Len(b)) : (a \o b)[j] = IF j <= Len(a) THEN a[j] ELSE b[j - Len(a)]
    BY <1>2, <1>3, ConcatProperties
  <2>2. Len(a) = i - 1 /\ Len(a) + Len(b) = Len(s) - 1
    BY <1>1, <1>2, <1>3
  <2> QED
    BY <2>1, <2>2
<1>5. ASSUME NEW j \in 1..(Len(s) - 1)
      PROVE  (a \o b)[j] = IF j < i THEN s[j] ELSE s[j + 1]
  <2>1. CASE j < i
    <3>1. j \in 1..(i - 1) /\ j <= i - 1
      BY <1>1, <2>1
    <3> QED
      BY <1>2, <1>4, <2>1, <3>1
  <2>2. CASE ~ (j < i)
    <3>1. ~ (j <= i - 1) /\ j - (i - 1) \in 1..(Len(s) - i) /\ i + (j - (i - 1)) = j + 1
      BY <1>1, <2>2
    <3> QED
      BY <1>3, <1>4, <2>2, <3>1
  <2> QED
    BY <2>1, <2>2
<1> QED
  BY <1>4, <1>5 DEF a, b, Without

LEMMA TotalWithout ==
  ASSUME NEW S, NEW s \in Seq(S), Weighed(s), NEW i \in 1..Len(s)
  PROVE  Weighed(Without(s, i)) /\ Total(s) = Total(Without(s, i)) + s[i].count
<1> DEFINE t == Without(s, i)
           n == Len(s)
<1>1. n \in Nat /\ i \in 1..n
  BY LenProperties
<1>2. /\ t \in Seq(S) /\ Len(t) = n - 1
      /\ \A j \in 1..(n - 1) : t[j] = IF j < i THEN s[j] ELSE s[j + 1]
  BY WithoutParts
<1> HIDE DEF t
<1>3. Weighed(t)
  <2> SUFFICES ASSUME NEW j \in 1..(n - 1) PROVE t[j].count \in Nat
    BY <1>2 DEF Weighed
  <2>1. j \in 1..n /\ j + 1 \in 1..n
    BY <1>1
  <2> QED
    BY <1>2, <2>1 DEF Weighed
<1>4. PICK f : Sums(s, f) /\ Total(s) = f[n]
  BY TotalSums
<1>5. PICK g : Sums(t, g) /\ Total(t) = g[n - 1]
  BY <1>2, <1>3, TotalSums
<1>6. f \in [0..n -> Nat] /\ \A j \in 1..n : f[j] = f[j - 1] + s[j].count
  BY <1>4, SumsTyped
<1>7. g \in [0..(n - 1) -> Nat] /\ \A j \in 1..(n - 1) : g[j] = g[j - 1] + t[j].count
  <2>1. g \in [0..Len(t) -> Nat] /\ \A j \in 1..Len(t) : g[j] = g[j - 1] + t[j].count
    BY <1>2, <1>3, <1>5, SumsTyped
  <2> QED
    BY <1>2, <2>1
<1>8. f[i - 1] = g[i - 1]
  <2>1. i - 1 \in Nat /\ i - 1 <= Len(s) /\ i - 1 <= Len(t)
    BY <1>1, <1>2
  <2>2. \A j \in 1..(i - 1) : s[j].count = t[j].count
    BY <1>1, <1>2
  <2> QED
    BY <1>2, <1>3, <1>4, <1>5, <2>1, <2>2, SumsAgree
<1> DEFINE T == {k \in 0..(n - i) : f[i + k] = g[i - 1 + k] + s[i].count}
<1>9. 0 \in T
  BY <1>1, <1>6, <1>8
<1>10. \A k \in 0..(n - i) : k \in T /\ k < n - i => k + 1 \in T
  <2> SUFFICES ASSUME NEW k \in 0..(n - i), k \in T, k < n - i PROVE k + 1 \in T
    OBVIOUS
  <2>1. /\ i + (k + 1) \in 1..n /\ i + (k + 1) - 1 = i + k /\ i + k \in 1..(n - 1)
        /\ i - 1 + (k + 1) = i + k /\ i + k - 1 = i - 1 + k /\ k + 1 \in 0..(n - i)
        /\ ~ (i + k < i) /\ i + k + 1 = i + (k + 1)
    BY <1>1
  <2>2. f[i + (k + 1)] = f[i + k] + s[i + (k + 1)].count
    BY <1>6, <2>1
  <2>3. g[i + k] = g[i - 1 + k] + s[i + (k + 1)].count
    <3>1. t[i + k] = s[i + (k + 1)]
      BY <1>2, <2>1
    <3>2. g[i + k] = g[i + k - 1] + t[i + k].count
      BY <1>7, <2>1
    <3> QED
      BY <2>1, <3>1, <3>2
  <2>4. g[i - 1 + k] \in Nat /\ s[i].count \in Nat /\ s[i + (k + 1)].count \in Nat
    <3>1. i - 1 + k \in 0..(n - 1)
      BY <1>1
    <3> QED
      BY <1>1, <1>7, <2>1, <3>1 DEF Weighed
  <2>5. f[i + k] = g[i - 1 + k] + s[i].count
    OBVIOUS
  <2>6. f[i + (k + 1)] = g[i - 1 + (k + 1)] + s[i].count
    BY <2>1, <2>2, <2>3, <2>4, <2>5
  <2> QED
    BY <2>1, <2>6
<1>11. n - i \in T
  <2> DEFINE m == n - i
  <2>1. m \in Nat /\ m \in 0..m
    BY <1>1
  <2> HIDE DEF T, m
  <2>2. 0 \in T /\ \A k \in 0..m : k \in T /\ k < m => k + 1 \in T
    BY <1>9, <1>10 DEF m
  <2>3. \A k \in 0..m : k \in T
    BY <2>1, <2>2, Induct
  <2> QED
    BY <2>1, <2>3 DEF m
<1>12. i + (n - i) = n /\ i - 1 + (n - i) = n - 1
  BY <1>1
<1> QED
  BY <1>3, <1>4, <1>5, <1>11, <1>12 DEF t
-----------------------------------------------------------------------------
(* The ledger.  The types are those of TypeOK without the bound on edits. *)
Vectors  == [Author -> Nat]
Replicas == [seen : Vectors, gone : SUBSET Erasure]
Updates  == [from : Vectors, to : Vectors, gone : SUBSET Erasure]
Flights  == [update : Updates, count : Nat]
Ups      == [kind : {"subscribe", "unsubscribe"}] \cup [kind : {"update"}, body : Updates]
Downs    == [kind : {"admitted", "refresh_required", "error"}]
              \cup [kind : {"sync", "update"}, body : Updates]
Providers ==
  [doc : Replicas, pending : Nat, current : Slot \cup {0}, inFlight : Seq(Flights),
   connected : BOOLEAN, admitted : BOOLEAN, synced : BOOLEAN, refresh : BOOLEAN,
   retry : BOOLEAN, destroyed : BOOLEAN, mine : BOOLEAN]
Sockets ==
  [state : {"closed", "connecting", "open", "dead"}, listening : BOOLEAN,
   serving : BOOLEAN, joined : BOOLEAN, up : Seq(Ups), down : Seq(Downs)]
Tabs == [p : Providers, s : [Slot -> Sockets]]

Inside(L, u) == u.gone \subseteq L.gone /\ \A a \in Author : u.to[a] <= L.seen[a]

Carried(L, down) ==
  \A i \in 1..Len(down) : down[i].kind \in {"sync", "update"} => Inside(L, down[i].body)

SeenBacked(L, d, flight, a) ==
  \/ d.seen[a] <= L.seen[a]
  \/ \E i \in 1..Len(flight) : d.seen[a] <= flight[i].update.to[a]

GoneBacked(L, flight, e) ==
  e \in L.gone \/ \E i \in 1..Len(flight) : e \in flight[i].update.gone

Backed(L, d, flight) ==
  /\ \A a \in Author : SeenBacked(L, d, flight, a)
  /\ \A e \in d.gone : GoneBacked(L, flight, e)

Counted(flight) == \A i \in 1..Len(flight) : flight[i].count >= 1

Ledger(L, p) ==
  /\ Counted(p.inFlight)
  /\ Total(p.inFlight) <= p.pending
  /\ p.synced => Total(p.inFlight) < p.pending \/ Backed(L, p.doc, p.inFlight)

Pipes(L, s) == \A i \in Slot : Carried(L, s[i].down)

Good(L, w) == w \in Tabs /\ Ledger(L, w.p) /\ Pipes(L, w.s)

IInv ==
  /\ client \in [Client -> Providers] /\ sock \in [Client -> [Slot -> Sockets]]
  /\ log \in Replicas
  /\ \A c \in Client : Ledger(log, client[c]) /\ Pipes(log, sock[c])

LEMMA FlightsWeighed == ASSUME NEW flight \in Seq(Flights) PROVE Weighed(flight)
<1> SUFFICES ASSUME NEW i \in 1..Len(flight) PROVE flight[i].count \in Nat
  BY DEF Weighed
<1>1. flight[i] \in Flights
  BY ElementOfSeq
<1> QED
  BY <1>1 DEF Flights

LEMMA FlightsTotal == ASSUME NEW flight \in Seq(Flights) PROVE Total(flight) \in Nat
BY FlightsWeighed, TotalTyped

(* The ledger depends on the document, the count, what is in flight and `synced`. *)
LEMMA LedgerSame ==
  ASSUME NEW L, NEW p, NEW q, Ledger(L, p),
         q.doc = p.doc, q.pending = p.pending, q.inFlight = p.inFlight, q.synced => p.synced
  PROVE  Ledger(L, q)
BY DEF Ledger

(* A socket that is given up takes what was in flight with it, and the count stays. *)
LEMMA LedgerDetached ==
  ASSUME NEW L, NEW p \in Providers, NEW q, Ledger(L, p),
         q.doc = p.doc, q.pending = p.pending, q.inFlight = <<>>, q.synced => p.synced
  PROVE  Ledger(L, q)
<1> DEFINE s == p.inFlight
<1>1. s \in Seq(Flights) /\ p.pending \in Nat
  BY DEF Providers
<1>2. Total(<<>>) = 0 /\ Len(<<>>) = 0
  BY TotalEmpty, EmptySeq
<1>3. CASE s = <<>>
  BY <1>3, LedgerSame
<1>4. CASE s # <<>>
  <2>1. Len(s) \in Nat \ {0} /\ s[Len(s)].count >= 1
    BY <1>1, <1>4, EmptySeq DEF Ledger, Counted
  <2>2. Total(s) >= 1 /\ Total(s) \in Nat
    BY <1>1, <1>4, <2>1, TotalLeast, FlightsWeighed, FlightsTotal
  <2>3. 0 < p.pending
    BY <1>1, <2>2 DEF Ledger
  <2>4. Counted(<<>>)
    BY <1>2 DEF Counted
  <2>5. Total(<<>>) <= p.pending /\ Total(<<>>) < p.pending
    BY <1>1, <1>2, <2>3
  <2> QED
    BY <2>4, <2>5 DEF Ledger
<1> QED
  BY <1>3, <1>4

LEMMA MergeParts ==
  ASSUME NEW d \in Replicas, NEW u \in Updates
  PROVE  /\ Merge(d, u) \in Replicas /\ Merge(d, u).gone = d.gone \cup u.gone
         /\ \A a \in Author : Merge(d, u).seen[a] = IF u.to[a] > d.seen[a] THEN u.to[a] ELSE d.seen[a]
BY DEF Merge, Replicas, Updates, Vectors

(* The log only grows. *)
LEMMA LogGrows ==
  ASSUME NEW L \in Replicas, NEW u \in Updates, NEW p \in Providers, NEW s \in [Slot -> Sockets],
         Ledger(L, p), Pipes(L, s)
  PROVE  Ledger(Merge(L, u), p) /\ Pipes(Merge(L, u), s)
<1> DEFINE M == Merge(L, u)
<1>1. /\ L.gone \subseteq M.gone
      /\ \A a \in Author : M.seen[a] \in Nat /\ L.seen[a] \in Nat /\ L.seen[a] <= M.seen[a]
  BY MergeParts DEF Replicas, Updates, Vectors
<1> HIDE DEF M
<1>2. Backed(L, p.doc, p.inFlight) => Backed(M, p.doc, p.inFlight)
  <2>1. \A a \in Author : p.doc.seen[a] \in Nat
    BY DEF Providers, Replicas, Vectors
  <2> QED
    BY <1>1, <2>1 DEF Backed, SeenBacked, GoneBacked
<1>3. Pipes(M, s)
  <2> SUFFICES ASSUME NEW i \in Slot, NEW j \in 1..Len(s[i].down),
                      s[i].down[j].kind \in {"sync", "update"}
               PROVE  Inside(M, s[i].down[j].body)
    BY DEF Pipes, Carried
  <2>1. s[i].down[j] \in Downs
    <3>1. s[i].down \in Seq(Downs)
      BY DEF Sockets
    <3> QED
      BY <3>1, ElementOfSeq
  <2>2. s[i].down[j].body \in Updates
    BY <2>1 DEF Downs
  <2>3. Inside(L, s[i].down[j].body)
    BY DEF Pipes, Carried
  <2>4. \A a \in Author : s[i].down[j].body.to[a] \in Nat
    BY <2>2 DEF Updates, Vectors
  <2> QED
    BY <1>1, <2>3, <2>4 DEF Inside
<1> QED
  BY <1>2, <1>3 DEF Ledger, M

-----------------------------------------------------------------------------
(* The provider's functions keep the ledger. *)
LEMMA SlotParts ==
  ASSUME NEW w \in Tabs
  PROVE  /\ w.p \in Providers /\ w.s \in [Slot -> Sockets]
         /\ w.p.current # 0 => w.p.current \in Slot
         /\ w.p.inFlight \in Seq(Flights) /\ w.p.pending \in Nat /\ w.p.doc \in Replicas
BY DEF Tabs, Providers

LEMMA CarriedNone == \A L : Carried(L, <<>>)
BY EmptySeq DEF Carried

(* One socket of a tab changes. *)
LEMMA SocketSet ==
  ASSUME NEW p \in Providers, NEW s \in [Slot -> Sockets], NEW k \in Slot, NEW x \in Sockets
  PROVE  /\ [p |-> p, s |-> [s EXCEPT ![k] = x]] \in Tabs
         /\ \A i \in Slot : [s EXCEPT ![k] = x][i].down = IF i = k THEN x.down ELSE s[i].down
BY DEF Tabs

LEMMA TabIs ==
  ASSUME NEW w \in Tabs
  PROVE  w = [p |-> w.p, s |-> w.s]
BY DEF Tabs

LEMMA SendPipes ==
  ASSUME NEW L, NEW w \in Tabs, Pipes(L, w.s), NEW frame \in Ups
  PROVE  /\ Send(w, frame) \in Tabs /\ Pipes(L, Send(w, frame).s)
         /\ Send(w, frame).p = w.p
<1> DEFINE k == w.p.current
           v == [w EXCEPT !.s[w.p.current].up = Append(@, frame)]
<1>1. CASE IsOpen(w) /\ w.s[k].state = "open"
  <2>1. w \in Tabs /\ k \in Slot
    BY <1>1, SlotParts DEF IsOpen
  <2>2. w.s[k].up \in Seq(Ups)
    BY <2>1 DEF Tabs, Sockets
  <2>3. Append(w.s[k].up, frame) \in Seq(Ups)
    BY <2>2
  <2> DEFINE x == [w.s[k] EXCEPT !.up = Append(w.s[k].up, frame)]
  <2>a. w.s[k] \in Sockets
    BY <2>1, SlotParts
  <2>b. x \in Sockets /\ x.down = w.s[k].down
    BY <2>3, <2>a DEF Sockets
  <2>c. v = [p |-> w.p, s |-> [w.s EXCEPT ![k] = x]]
    BY <2>1 DEF Tabs
  <2>4. v \in Tabs /\ v.p = w.p /\ \A i \in Slot : v.s[i].down = w.s[i].down
    <3> HIDE DEF x, v
    <3> QED
      BY <2>1, <2>b, <2>c, SlotParts, SocketSet
  <2>5. Send(w, frame) = v
    BY <1>1 DEF Send
  <2> HIDE DEF v
  <2> QED
    BY <2>4, <2>5 DEF Pipes
<1>2. CASE ~ (IsOpen(w) /\ w.s[k].state = "open")
  BY <1>2 DEF Send
<1> QED
  BY <1>1, <1>2

LEMMA DetachGood ==
  ASSUME NEW L, NEW w, Good(L, w)
  PROVE  /\ Good(L, Detach(w))
         /\ Detach(w).p.synced = w.p.synced /\ Detach(w).p.inFlight = <<>>
<1> DEFINE k == w.p.current
           v == Detach(w)
<1>1. w \in Tabs /\ <<>> \in Seq(Flights)
  BY EmptySeq DEF Good
<1>2. /\ v \in Tabs /\ v.p.doc = w.p.doc /\ v.p.pending = w.p.pending /\ v.p.inFlight = <<>>
      /\ v.p.synced = w.p.synced /\ \A i \in Slot : v.s[i].down = w.s[i].down
  <2>1. CASE k = 0
    BY <1>1, <2>1 DEF Detach, Tabs, Providers
  <2>2. CASE k # 0
    <3> DEFINE x == [w.s[k] EXCEPT !.listening = FALSE]
               q == [w.p EXCEPT !.current = 0, !.admitted = FALSE, !.inFlight = <<>>]
    <3>1. k \in Slot /\ w.p \in Providers /\ w.s \in [Slot -> Sockets]
      BY <1>1, <2>2, SlotParts
    <3>2. x \in Sockets /\ x.down = w.s[k].down
      BY <3>1 DEF Sockets
    <3>3. /\ q \in Providers /\ q.doc = w.p.doc /\ q.pending = w.p.pending
          /\ q.inFlight = <<>> /\ q.synced = w.p.synced
      BY <1>1, <3>1 DEF Providers
    <3>4. v = [p |-> q, s |-> [w.s EXCEPT ![k] = x]]
      BY <1>1, <2>2 DEF Detach, Tabs
    <3> HIDE DEF x, q, v
    <3> QED
      BY <3>1, <3>2, <3>3, <3>4, SocketSet
  <2> QED
    BY <2>1, <2>2
<1> HIDE DEF v
<1>3. Ledger(L, v.p)
  BY <1>1, <1>2, LedgerDetached, SlotParts DEF Good
<1> QED
  BY <1>2, <1>3 DEF Good, Pipes, v

LEMMA DetachAndCloseGood ==
  ASSUME NEW L, NEW w, Good(L, w)
  PROVE  /\ Good(L, DetachAndClose(w))
         /\ DetachAndClose(w).p.synced = w.p.synced /\ DetachAndClose(w).p.inFlight = <<>>
<1> DEFINE k == w.p.current
           d == Detach(w)
           v == [d EXCEPT !.s[k].state = "closed", !.s[k].down = <<>>]
<1>1. Good(L, d) /\ d.p.synced = w.p.synced /\ d.p.inFlight = <<>>
  BY DetachGood
<1>2. CASE k = 0
  BY <1>1, <1>2 DEF DetachAndClose
<1>3. CASE k # 0
  <2>1. k \in Slot /\ d \in Tabs /\ <<>> \in Seq(Downs)
    BY <1>1, <1>3, SlotParts, EmptySeq DEF Good
  <2>z. DetachAndClose(w) = v
    BY <1>3 DEF DetachAndClose
  <2> HIDE DEF d, k
  <2> DEFINE x == [d.s[k] EXCEPT !.state = "closed", !.down = <<>>]
  <2>a. d.p \in Providers /\ d.s \in [Slot -> Sockets]
    BY <2>1, SlotParts
  <2>y. d.s[k] \in Sockets
    BY <2>1, <2>a
  <2>b. x \in Sockets /\ x.down = <<>>
    BY <2>1, <2>y DEF Sockets
  <2>c. v = [p |-> d.p, s |-> [d.s EXCEPT ![k] = x]]
    <3>1. v = [d EXCEPT !.s = [d.s EXCEPT ![k] = x]]
      BY <2>1, <2>a DEF Tabs
    <3> QED
      BY <2>1, <3>1 DEF Tabs
  <2>2. /\ v \in Tabs /\ v.p = d.p
        /\ \A i \in Slot : v.s[i].down = IF i = k THEN <<>> ELSE d.s[i].down
    <3> HIDE DEF x, v
    <3> QED
      BY <2>1, <2>a, <2>b, <2>c, SocketSet
  <2> HIDE DEF v
  <2> QED
    BY <1>1, <2>2, <2>z, CarriedNone DEF Good, Pipes
<1> QED
  BY <1>2, <1>3

LEMMA ScheduleReconnectGood ==
  ASSUME NEW L, NEW w, Good(L, w)
  PROVE  Good(L, ScheduleReconnect(w))
<1> DEFINE v == [w EXCEPT !.p.retry = TRUE]
<1>1. /\ v \in Tabs /\ v.s = w.s /\ v.p.doc = w.p.doc /\ v.p.pending = w.p.pending
      /\ v.p.inFlight = w.p.inFlight /\ v.p.synced = w.p.synced
  BY DEF Good, Tabs, Providers
<1>2. ScheduleReconnect(w) \in {w, v}
  BY DEF ScheduleReconnect
<1> HIDE DEF v
<1> QED
  BY <1>1, <1>2, LedgerSame DEF Good

LEMMA OfflineGood ==
  ASSUME NEW L, NEW w, Good(L, w)
  PROVE  Good(L, Offline(w))
<1> DEFINE d == DetachAndClose(w)
           v == [d EXCEPT !.p.connected = FALSE]
<1>1. Good(L, d)
  BY DetachAndCloseGood
<1> HIDE DEF d
<1>2. /\ v \in Tabs /\ v.s = d.s /\ v.p.doc = d.p.doc /\ v.p.pending = d.p.pending
      /\ v.p.inFlight = d.p.inFlight /\ v.p.synced = d.p.synced
  BY <1>1 DEF Good, Tabs, Providers
<1>3. Offline(w) \in {w, ScheduleReconnect(v)}
  BY DEF Offline, d
<1> HIDE DEF v
<1>4. Good(L, v)
  BY <1>1, <1>2, LedgerSame DEF Good
<1> QED
  BY <1>3, <1>4, ScheduleReconnectGood

LEMMA TerminateGood ==
  ASSUME NEW L, NEW w, Good(L, w)
  PROVE  Good(L, Terminate(w))
<1> DEFINE r == [w EXCEPT !.p.refresh = TRUE]
           d == DetachAndClose(r)
           v == [d EXCEPT !.p.synced = FALSE, !.p.retry = FALSE, !.p.connected = FALSE]
<1>1. /\ r \in Tabs /\ r.s = w.s /\ r.p.doc = w.p.doc /\ r.p.pending = w.p.pending
      /\ r.p.inFlight = w.p.inFlight /\ r.p.synced = w.p.synced
  BY DEF Good, Tabs, Providers
<1>2. Terminate(w) = v
  BY DEF Terminate
<1> HIDE DEF r
<1>3. Good(L, r)
  BY <1>1, LedgerSame DEF Good
<1>4. Good(L, d)
  BY <1>3, DetachAndCloseGood
<1> HIDE DEF d
<1>5. /\ v \in Tabs /\ v.s = d.s /\ v.p.doc = d.p.doc /\ v.p.pending = d.p.pending
      /\ v.p.inFlight = d.p.inFlight /\ v.p.synced = FALSE
  BY <1>4 DEF Good, Tabs, Providers
<1> HIDE DEF v
<1> QED
  BY <1>2, <1>4, <1>5, LedgerSame DEF Good

LEMMA AttachedGood ==
  ASSUME NEW L, NEW w, Good(L, w), NEW v \in Attached(w)
  PROVE  Good(L, v)
<1>1. CASE v = w
  BY <1>1
<1>2. CASE v # w
  <2>1. PICK k \in Slot : v = [w EXCEPT !.p.current = k, !.s[k].state = "connecting", !.s[k].listening = TRUE]
    BY <1>2 DEF Attached, FreeSlots
  <2> DEFINE x == [w.s[k] EXCEPT !.state = "connecting", !.listening = TRUE]
             q == [w.p EXCEPT !.current = k]
  <2>a. w \in Tabs /\ w.p \in Providers /\ w.s \in [Slot -> Sockets]
    BY SlotParts DEF Good
  <2>b. x \in Sockets /\ x.down = w.s[k].down
    BY <2>a DEF Sockets
  <2>c. /\ q \in Providers /\ q.doc = w.p.doc /\ q.pending = w.p.pending
        /\ q.inFlight = w.p.inFlight /\ q.synced = w.p.synced
    BY <2>a DEF Providers
  <2>d. v = [p |-> q, s |-> [w.s EXCEPT ![k] = x]]
    BY <2>1, <2>a DEF Tabs
  <2>2. /\ v \in Tabs /\ v.p.doc = w.p.doc /\ v.p.pending = w.p.pending
        /\ v.p.inFlight = w.p.inFlight /\ v.p.synced = w.p.synced
        /\ \A i \in Slot : v.s[i].down = w.s[i].down
    <3> HIDE DEF x, q
    <3> QED
      BY <2>a, <2>b, <2>c, <2>d, SocketSet
  <2> QED
    BY <2>2, LedgerSame DEF Good, Pipes
<1> QED
  BY <1>1, <1>2

-----------------------------------------------------------------------------
(* Appending to what is in flight. *)
LEMMA AppendFlight ==
  ASSUME NEW flight \in Seq(Flights), Counted(flight), NEW x \in Flights, x.count >= 1
  PROVE  /\ Append(flight, x) \in Seq(Flights) /\ Counted(Append(flight, x))
         /\ Total(Append(flight, x)) = Total(flight) + x.count
         /\ Len(Append(flight, x)) = Len(flight) + 1 /\ Len(flight) \in Nat
         /\ \A i \in 1..Len(flight) : Append(flight, x)[i] = flight[i]
         /\ Append(flight, x)[Len(flight) + 1] = x
<1>1. /\ Append(flight, x) \in Seq(Flights)
      /\ Len(Append(flight, x)) = Len(flight) + 1 /\ Len(flight) \in Nat
      /\ \A i \in 1..Len(flight) : Append(flight, x)[i] = flight[i]
      /\ Append(flight, x)[Len(flight) + 1] = x
  BY AppendProperties, LenProperties
<1>2. Counted(Append(flight, x))
  BY <1>1 DEF Counted
<1>3. Total(Append(flight, x)) = Total(flight) + x.count
  <2>1. x.count \in Nat
    BY DEF Flights
  <2> QED
    BY <2>1, FlightsWeighed, TotalAppend
<1> QED
  BY <1>1, <1>2, <1>3

(* An update in flight backs what it adds to the document. *)
LEMMA BackedAppend ==
  ASSUME NEW L \in Replicas, NEW d \in Replicas, NEW flight \in Seq(Flights), Counted(flight),
         NEW x \in Flights, x.count >= 1, Backed(L, d, flight)
  PROVE  Backed(L, Merge(d, x.update), Append(flight, x))
<1> DEFINE g == Append(flight, x)
           n == Len(flight)
           u == x.update
<1>1. /\ n \in Nat /\ Len(g) = n + 1
      /\ \A i \in 1..n : g[i] = flight[i]
      /\ g[n + 1] = x
  BY AppendFlight
<1>2. u \in Updates
  BY DEF Flights
<1> HIDE DEF g, n, u
<1>3. n + 1 \in 1..Len(g) /\ \A i \in 1..Len(flight) : i \in 1..Len(g) /\ g[i] = flight[i]
  BY <1>1 DEF n
<1>4. g[n + 1].update = u
  BY <1>1 DEF u
<1>5. ASSUME NEW a \in Author PROVE SeenBacked(L, Merge(d, u), g, a)
  <2>1. SeenBacked(L, d, flight, a) /\ u.to[a] \in Nat /\ d.seen[a] \in Nat
    BY <1>2 DEF Backed, Updates, Replicas, Vectors
  <2>2. Merge(d, u).seen[a] = IF u.to[a] > d.seen[a] THEN u.to[a] ELSE d.seen[a]
    BY <1>2, MergeParts
  <2> QED
    BY <1>3, <1>4, <2>1, <2>2 DEF SeenBacked
<1>6. ASSUME NEW e \in Merge(d, u).gone PROVE GoneBacked(L, g, e)
  <2>1. e \in d.gone \/ e \in u.gone
    BY <1>2, MergeParts
  <2> QED
    BY <1>3, <1>4, <2>1 DEF GoneBacked, Backed
<1> QED
  BY <1>5, <1>6 DEF Backed, g, u

LEMMA NextEditTyped ==
  ASSUME NEW c \in Client, NEW d \in Replicas
  PROVE  NextEdit(c, d) \in Updates
BY DEF NextEdit, Updates, Replicas, Vectors, Author

(* What sendUpdate does to the count, the document and what is in flight. *)
LEMMA SendUpdateIs ==
  ASSUME NEW L, NEW w \in Tabs, Pipes(L, w.s), NEW u \in Updates
  PROVE  LET e == SendUpdate(w, u)
             x == [update |-> u, count |-> 1]
         IN  /\ e \in Tabs /\ Pipes(L, e.s)
             /\ e.p.doc = Merge(w.p.doc, u) /\ e.p.pending = w.p.pending + 1
             /\ e.p.synced = w.p.synced
             /\ e.p.inFlight = w.p.inFlight \/ e.p.inFlight = Append(w.p.inFlight, x)
<1> DEFINE x == [update |-> u, count |-> 1]
           v == [w EXCEPT !.p.doc = Merge(@, u), !.p.pending = @ + 1]
           t == [v EXCEPT !.p.inFlight = Append(@, x)]
           frame == Frame("update", u)
<1>1. x \in Flights /\ frame \in Ups
  BY DEF Flights, Frame, Ups
<1>2. /\ v \in Tabs /\ v.s = w.s /\ v.p.doc = Merge(w.p.doc, u) /\ v.p.pending = w.p.pending + 1
      /\ v.p.synced = w.p.synced /\ v.p.inFlight = w.p.inFlight
  <2>1. Merge(w.p.doc, u) \in Replicas /\ w.p.pending + 1 \in Nat
    BY SlotParts, MergeParts
  <2> QED
    BY <2>1 DEF Tabs, Providers
<1>3. SendUpdate(w, u) \in {v, Send(t, frame)}
  BY DEF SendUpdate
<1> HIDE DEF v, x, frame
<1>4. /\ t \in Tabs /\ t.s = v.s /\ t.p.doc = v.p.doc /\ t.p.pending = v.p.pending
      /\ t.p.synced = v.p.synced /\ t.p.inFlight = Append(v.p.inFlight, x)
  <2>1. v.p \in Providers /\ Append(v.p.inFlight, x) \in Seq(Flights)
    BY <1>1, <1>2, SlotParts, AppendProperties
  <2> QED
    BY <1>2, <2>1 DEF Tabs, Providers
<1> HIDE DEF t
<1>5. Send(t, frame).p = t.p /\ Send(t, frame) \in Tabs /\ Pipes(L, Send(t, frame).s)
  BY <1>1, <1>2, <1>4, SendPipes
<1> QED
  BY <1>2, <1>3, <1>4, <1>5 DEF x

(* A document that changes under the user's hands. *)
LEMMA SendUpdateGood ==
  ASSUME NEW L \in Replicas, NEW w, Good(L, w), NEW u \in Updates
  PROVE  Good(L, SendUpdate(w, u))
<1> DEFINE e == SendUpdate(w, u)
           x == [update |-> u, count |-> 1]
<1>1. w \in Tabs /\ Pipes(L, w.s) /\ Ledger(L, w.p)
  BY DEF Good
<1>2. /\ e \in Tabs /\ Pipes(L, e.s)
      /\ e.p.doc = Merge(w.p.doc, u) /\ e.p.pending = w.p.pending + 1
      /\ e.p.synced = w.p.synced
      /\ e.p.inFlight = w.p.inFlight \/ e.p.inFlight = Append(w.p.inFlight, x)
  BY <1>1, SendUpdateIs
<1>3. x \in Flights /\ x.count = 1 /\ x.update = u
  BY DEF Flights
<1> HIDE DEF e, x
<1>4. /\ w.p.inFlight \in Seq(Flights) /\ w.p.pending \in Nat /\ w.p.doc \in Replicas
      /\ Total(w.p.inFlight) \in Nat /\ Counted(w.p.inFlight)
  BY <1>1, SlotParts, FlightsTotal DEF Ledger
<1>5. CASE e.p.inFlight = w.p.inFlight
  <2>1. Total(e.p.inFlight) < e.p.pending
    BY <1>1, <1>2, <1>4, <1>5 DEF Ledger
  <2>2. Total(e.p.inFlight) <= e.p.pending
    BY <1>1, <1>2, <1>4, <1>5 DEF Ledger
  <2> QED
    BY <1>2, <1>4, <1>5, <2>1, <2>2 DEF Good, Ledger, e
<1>6. CASE e.p.inFlight = Append(w.p.inFlight, x)
  <2>1. Total(e.p.inFlight) = Total(w.p.inFlight) + 1 /\ Counted(e.p.inFlight)
    BY <1>3, <1>4, <1>6, AppendFlight
  <2>2. Backed(L, w.p.doc, w.p.inFlight) => Backed(L, e.p.doc, e.p.inFlight)
    BY <1>2, <1>3, <1>4, <1>6, BackedAppend
  <2>3. /\ Total(e.p.inFlight) <= e.p.pending
        /\ Total(w.p.inFlight) < w.p.pending => Total(e.p.inFlight) < e.p.pending
    BY <1>1, <1>2, <1>4, <2>1 DEF Ledger
  <2>4. e.p.synced => Total(e.p.inFlight) < e.p.pending \/ Backed(L, e.p.doc, e.p.inFlight)
    BY <1>1, <1>2, <2>2, <2>3 DEF Ledger
  <2>5. Ledger(L, e.p)
    BY <2>1, <2>3, <2>4 DEF Ledger
  <2> QED
    BY <1>2, <2>5 DEF Good, e
<1> QED
  BY <1>2, <1>5, <1>6

-----------------------------------------------------------------------------
(* The server's whole state arrives. *)
LEMMA MissingParts ==
  ASSUME NEW d \in Replicas, NEW v \in Vectors
  PROVE  /\ Missing(d, v) \in Updates
         /\ Missing(d, v).to = d.seen /\ Missing(d, v).gone = d.gone
         /\ ~ HasContent(Missing(d, v)) => d.gone = {} /\ \A a \in Author : d.seen[a] <= v[a]
BY DEF Missing, HasContent, Updates, Replicas, Vectors

LEMMA FlushIs ==
  ASSUME NEW L, NEW w \in Tabs, Pipes(L, w.s), NEW m \in Updates,
         NEW before \in Nat, before <= w.p.pending
  PROVE  LET f == Flush(w, m, before)
             count == IF before > 1 THEN before ELSE 1
             x == [update |-> m, count |-> count]
         IN  /\ f \in Tabs /\ Pipes(L, f.s) /\ f.p.doc = w.p.doc
             /\ HasContent(m) => /\ f.p.inFlight = Append(w.p.inFlight, x)
                                 /\ f.p.pending = w.p.pending - before + count
             /\ ~ HasContent(m) => /\ f.p.inFlight = w.p.inFlight
                                   /\ f.p.pending = w.p.pending - before
<1> DEFINE f == Flush(w, m, before)
           count == IF before > 1 THEN before ELSE 1
           x == [update |-> m, count |-> count]
           frame == Frame("update", m)
           v == [w EXCEPT !.p.pending = @ - before + count, !.p.inFlight = Append(@, x),
                          !.p.synced = TRUE]
           z == [w EXCEPT !.p.pending = @ - before, !.p.synced = TRUE]
<1>1. /\ count \in Nat /\ x \in Flights /\ frame \in Ups
      /\ w.p \in Providers /\ w.p.pending \in Nat /\ w.p.inFlight \in Seq(Flights)
  BY SlotParts DEF Flights, Frame, Ups
<1>2. w.p.pending - before \in Nat /\ w.p.pending - before + count \in Nat
  BY <1>1
<1>3. CASE HasContent(m)
  <2>1. f = Send(v, frame)
    BY <1>3 DEF Flush
  <2> HIDE DEF count, x, frame, f
  <2>2. Append(w.p.inFlight, x) \in Seq(Flights)
    BY <1>1, AppendProperties
  <2>3. /\ v \in Tabs /\ v.s = w.s /\ v.p.doc = w.p.doc
        /\ v.p.inFlight = Append(w.p.inFlight, x) /\ v.p.pending = w.p.pending - before + count
    BY <1>1, <1>2, <2>2 DEF Tabs, Providers
  <2> HIDE DEF v
  <2>4. f.p = v.p /\ f \in Tabs /\ Pipes(L, f.s)
    BY <1>1, <2>1, <2>3, SendPipes
  <2> QED
    BY <1>3, <2>3, <2>4 DEF f, x, count
<1>4. CASE ~ HasContent(m)
  <2>1. f = z
    BY <1>4 DEF Flush
  <2> HIDE DEF f
  <2>2. /\ z \in Tabs /\ z.s = w.s /\ z.p.doc = w.p.doc
        /\ z.p.inFlight = w.p.inFlight /\ z.p.pending = w.p.pending - before
    BY <1>1, <1>2 DEF Tabs, Providers
  <2> QED
    BY <1>4, <2>1, <2>2 DEF f
<1> QED
  BY <1>3, <1>4

(* After it the tab's document is in the log, but for the difference and the edit that
   merging it made, which are in flight or counted beyond it. *)
LEMMA OnSyncGood ==
  ASSUME NEW L \in Replicas, NEW c \in Client, NEW w, Good(L, w), NEW u \in Updates, Inside(L, u),
         NEW normalizes \in BOOLEAN
  PROVE  Good(L, OnSync(c, w, u, normalizes))
<1> DEFINE none == <<>>
           d == w.p.doc
           n == w.p.pending
           missing == Missing(d, u.to)
           theirs == [seen |-> u.to, gone |-> u.gone]
           mine == HasContent(missing) /\ ~Contains(d, theirs)
           merged == [w EXCEPT !.p.inFlight = <<>>, !.p.doc = Merge(@, u), !.p.mine = mine]
           edit == NextEdit(c, merged.p.doc)
           edited == IF normalizes THEN SendUpdate(merged, edit) ELSE merged
           x == [update |-> edit, count |-> 1]
           count == IF n > 1 THEN n ELSE 1
           y == [update |-> missing, count |-> count]
           f == Flush(edited, missing, n)
           D == Merge(d, u)
<1>0. OnSync(c, w, u, normalizes) = f
  BY DEF OnSync
<1>1. /\ w \in Tabs /\ Pipes(L, w.s) /\ d \in Replicas /\ n \in Nat /\ none \in Seq(Flights)
      /\ u.to \in Vectors /\ w.p \in Providers
  BY SlotParts, EmptySeq DEF Good, Updates
<1>2. D \in Replicas
  BY <1>1, MergeParts
<1>3. /\ missing \in Updates /\ missing.to = d.seen /\ missing.gone = d.gone
      /\ ~ HasContent(missing) => d.gone = {} /\ \A a \in Author : d.seen[a] <= u.to[a]
  BY <1>1, MissingParts
<1>4. /\ merged \in Tabs /\ merged.s = w.s /\ merged.p.doc = D
      /\ merged.p.pending = n /\ merged.p.inFlight = none
  <2>1. mine \in BOOLEAN
    OBVIOUS
  <2> HIDE DEF D, mine
  <2>2. merged = [w EXCEPT !.p.inFlight = none, !.p.doc = D, !.p.mine = mine]
    BY DEF D
  <2> DEFINE q == [w.p EXCEPT !.inFlight = none, !.doc = D, !.mine = mine]
  <2>3. merged = [p |-> q, s |-> w.s]
    <3> HIDE DEF merged
    <3> QED
      BY <1>1, <2>2 DEF Tabs, none
  <2>4. q \in Providers /\ q.doc = D /\ q.pending = n /\ q.inFlight = none
    BY <1>1, <1>2, <2>1 DEF Providers
  <2> HIDE DEF q, merged
  <2>5. w.s \in [Slot -> Sockets]
    BY <1>1, SlotParts
  <2> QED
    BY <2>3, <2>4, <2>5 DEF Tabs
<1> HIDE DEF merged
<1>b. Counted(none) /\ Total(none) = 0 /\ Len(none) = 0
  BY TotalEmpty, EmptySeq DEF Counted
<1> HIDE DEF none
<1>5. edit \in Updates
  BY <1>2, <1>4, NextEditTyped
<1> HIDE DEF edit
<1>6. /\ edited \in Tabs /\ Pipes(L, edited.s)
      /\ \/ edited.p.doc = D /\ edited.p.pending = n /\ edited.p.inFlight = none
         \/ /\ edited.p.doc = Merge(D, edit) /\ edited.p.pending = n + 1
            /\ edited.p.inFlight = none \/ edited.p.inFlight = Append(none, x)
  <2>1. CASE normalizes
    <3> DEFINE e == SendUpdate(merged, edit)
    <3>1. Pipes(L, merged.s)
      BY <1>1, <1>4
    <3>2. /\ e \in Tabs /\ Pipes(L, e.s)
          /\ e.p.doc = Merge(merged.p.doc, edit) /\ e.p.pending = merged.p.pending + 1
          /\ e.p.inFlight = merged.p.inFlight \/ e.p.inFlight = Append(merged.p.inFlight, x)
      BY <1>4, <1>5, <3>1, SendUpdateIs
    <3>3. edited = e
      BY <2>1
    <3> HIDE DEF e
    <3> QED
      BY <1>4, <3>2, <3>3
  <2>2. CASE ~ normalizes
    BY <1>1, <1>4, <2>2
  <2> QED
    BY <2>1, <2>2
<1> HIDE DEF edited
<1>7. n <= edited.p.pending
  BY <1>1, <1>6
<1>8. /\ f \in Tabs /\ Pipes(L, f.s) /\ f.p.doc = edited.p.doc
      /\ HasContent(missing) => /\ f.p.inFlight = Append(edited.p.inFlight, y)
                                /\ f.p.pending = edited.p.pending - n + count
      /\ ~ HasContent(missing) => /\ f.p.inFlight = edited.p.inFlight
                                  /\ f.p.pending = edited.p.pending - n
  BY <1>1, <1>3, <1>6, <1>7, FlushIs
<1>9. /\ x \in Flights /\ x.count = 1 /\ x.update = edit
      /\ y \in Flights /\ y.count = count /\ y.update = missing /\ count \in Nat /\ count >= 1
  BY <1>1, <1>3, <1>5 DEF Flights
<1>10. Counted(none) /\ Total(none) = 0 /\ Len(none) = 0
  BY <1>b
<1> HIDE DEF f, x, y, count
<1>11. /\ Append(none, x) \in Seq(Flights) /\ Counted(Append(none, x)) /\ Total(Append(none, x)) = 1
       /\ Append(none, x)[1] = x /\ Len(Append(none, x)) = 1
  <2>1. /\ Append(none, x) \in Seq(Flights) /\ Counted(Append(none, x))
        /\ Total(Append(none, x)) = Total(none) + x.count
        /\ Append(none, x)[Len(none) + 1] = x /\ Len(Append(none, x)) = Len(none) + 1
    <3>1. x \in Flights /\ x.count >= 1 /\ none \in Seq(Flights) /\ Counted(none)
      BY <1>1, <1>9, <1>10
    <3> QED
      BY <3>1, AppendFlight
  <2> QED
    BY <1>9, <1>10, <2>1
<1> HIDE DEF missing, D
<1>12. \A a \in Author : d.seen[a] \in Nat /\ D.seen[a] \in Nat /\ u.to[a] \in Nat /\ L.seen[a] \in Nat
  BY <1>1, <1>2 DEF Replicas, Vectors
<1>13. /\ \A a \in Author : D.seen[a] <= L.seen[a] \/ D.seen[a] = d.seen[a]
       /\ \A e \in D.gone : e \in L.gone \/ e \in d.gone
  BY <1>1, <1>12, MergeParts DEF D, Inside
<1>14. CASE ~ HasContent(missing)
  <2>1. Backed(L, D, none)
    <3>1. \A a \in Author : D.seen[a] <= L.seen[a]
      BY <1>3, <1>12, <1>13, <1>14 DEF Inside
    <3>2. \A e \in D.gone : e \in L.gone
      BY <1>3, <1>13, <1>14
    <3> QED
      BY <3>1, <3>2 DEF Backed, SeenBacked, GoneBacked
  <2>2. CASE edited.p.doc = D /\ edited.p.pending = n /\ edited.p.inFlight = none
    <3>1. f.p.doc = D /\ f.p.inFlight = none /\ f.p.pending = 0
      BY <1>1, <1>8, <1>14, <2>2
    <3> QED
      BY <1>0, <1>8, <1>10, <2>1, <3>1 DEF Good, Ledger
  <2>3. CASE edited.p.pending = n + 1 /\ edited.p.inFlight = none
    <3>1. f.p.inFlight = none /\ f.p.pending = 1
      BY <1>1, <1>8, <1>14, <2>3
    <3> QED
      BY <1>0, <1>8, <1>10, <3>1 DEF Good, Ledger
  <2>4. CASE /\ edited.p.doc = Merge(D, edit) /\ edited.p.pending = n + 1
             /\ edited.p.inFlight = Append(none, x)
    <3>1. f.p.doc = Merge(D, edit) /\ f.p.inFlight = Append(none, x) /\ f.p.pending = 1
      BY <1>1, <1>8, <1>14, <2>4
    <3>2. x \in Flights /\ x.count >= 1 /\ none \in Seq(Flights) /\ Counted(none)
      BY <1>1, <1>9, <1>10
    <3>3. Backed(L, Merge(D, x.update), Append(none, x))
      BY <1>2, <2>1, <3>2, BackedAppend
    <3>4. Backed(L, f.p.doc, f.p.inFlight)
      BY <1>9, <3>1, <3>3
    <3> QED
      BY <1>0, <1>8, <1>11, <3>1, <3>4 DEF Good, Ledger
  <2> QED
    BY <1>6, <2>2, <2>3, <2>4
<1>15. CASE HasContent(missing)
  <2> DEFINE fl == edited.p.inFlight
  <2>1. fl \in Seq(Flights) /\ Counted(fl) /\ Total(fl) \in {0, 1} /\ Total(fl) <= edited.p.pending - n
    <3>1. CASE fl = none /\ edited.p.pending \in {n, n + 1}
      BY <1>1, <1>10, <3>1
    <3>2. CASE fl = Append(none, x) /\ edited.p.pending = n + 1
      BY <1>1, <1>11, <3>2
    <3> QED
      BY <1>6, <3>1, <3>2
  <2>2. /\ Counted(f.p.inFlight) /\ Total(f.p.inFlight) = Total(fl) + count
        /\ f.p.inFlight[Len(fl) + 1] = y /\ Len(f.p.inFlight) = Len(fl) + 1 /\ Len(fl) \in Nat
        /\ \A i \in 1..Len(fl) : f.p.inFlight[i] = fl[i]
    <3> DEFINE g == Append(fl, y)
    <3>1. y \in Flights /\ y.count >= 1
      BY <1>9
    <3>2. /\ Counted(g) /\ Total(g) = Total(fl) + y.count
          /\ g[Len(fl) + 1] = y /\ Len(g) = Len(fl) + 1 /\ Len(fl) \in Nat
          /\ \A i \in 1..Len(fl) : g[i] = fl[i]
      BY <2>1, <3>1, AppendFlight
    <3> HIDE DEF g
    <3>3. f.p.inFlight = g
      BY <1>8, <1>15 DEF g
    <3> QED
      BY <1>9, <3>2, <3>3
  <2>3. Total(f.p.inFlight) <= f.p.pending
    BY <1>1, <1>6, <1>8, <1>9, <1>15, <2>1, <2>2
  <2>4. Backed(L, D, f.p.inFlight)
    <3>1. Len(fl) + 1 \in 1..Len(f.p.inFlight) /\ f.p.inFlight[Len(fl) + 1].update = missing
      BY <1>9, <2>2
    <3>2. ASSUME NEW a \in Author PROVE SeenBacked(L, D, f.p.inFlight, a)
      <4>1. D.seen[a] <= L.seen[a] \/ D.seen[a] <= missing.to[a]
        BY <1>3, <1>12, <1>13
      <4> QED
        BY <3>1, <4>1 DEF SeenBacked
    <3>3. ASSUME NEW e \in D.gone PROVE GoneBacked(L, f.p.inFlight, e)
      <4>1. e \in L.gone \/ e \in missing.gone
        BY <1>3, <1>13
      <4> QED
        BY <3>1, <4>1 DEF GoneBacked
    <3> QED
      BY <3>2, <3>3 DEF Backed
  <2>5. CASE edited.p.doc = D
    BY <1>0, <1>8, <2>2, <2>3, <2>4, <2>5 DEF Good, Ledger
  <2>6. CASE edited.p.pending = n + 1 /\ edited.p.inFlight = none
    <3>1. Total(f.p.inFlight) < f.p.pending
      BY <1>1, <1>8, <1>9, <1>10, <1>15, <2>2, <2>6
    <3> QED
      BY <1>0, <1>8, <2>2, <2>3, <3>1 DEF Good, Ledger
  <2>7. CASE edited.p.doc = Merge(D, edit) /\ fl = Append(none, x)
    <3>1. /\ 1 \in 1..Len(f.p.inFlight) /\ f.p.inFlight[1].update = edit
      BY <1>9, <1>11, <2>2, <2>7
    <3>2. ASSUME NEW a \in Author PROVE SeenBacked(L, Merge(D, edit), f.p.inFlight, a)
      <4>1. Merge(D, edit).seen[a] \in {edit.to[a], D.seen[a]} /\ edit.to[a] \in Nat
        BY <1>2, <1>5, MergeParts DEF Updates, Vectors
      <4>2. SeenBacked(L, D, f.p.inFlight, a)
        BY <2>4 DEF Backed
      <4>3. CASE Merge(D, edit).seen[a] = edit.to[a]
        BY <3>1, <4>1, <4>3 DEF SeenBacked
      <4>4. CASE Merge(D, edit).seen[a] = D.seen[a]
        BY <4>2, <4>4 DEF SeenBacked
      <4> QED
        BY <4>1, <4>3, <4>4
    <3>3. ASSUME NEW e \in Merge(D, edit).gone PROVE GoneBacked(L, f.p.inFlight, e)
      <4>1. e \in D.gone \/ e \in edit.gone
        BY <1>2, <1>5, MergeParts
      <4> QED
        BY <2>4, <3>1, <4>1 DEF GoneBacked, Backed
    <3>4. Backed(L, f.p.doc, f.p.inFlight)
      BY <1>8, <2>7, <3>2, <3>3 DEF Backed
    <3> QED
      BY <1>0, <1>8, <2>2, <2>3, <3>4 DEF Good, Ledger
  <2> QED
    BY <1>6, <2>5, <2>6, <2>7
<1> QED
  BY <1>14, <1>15

-----------------------------------------------------------------------------
(* An update arrives: the echo of one in flight, or another author's. *)
LEMMA OnUpdateGood ==
  ASSUME NEW L \in Replicas, NEW w, Good(L, w), NEW u \in Updates, Inside(L, u)
  PROVE  Good(L, OnUpdate(w, u))
<1> DEFINE flight == w.p.inFlight
           echoes == {i \in DOMAIN flight : flight[i].update = u}
           d == w.p.doc
<1>1. /\ w \in Tabs /\ w.p \in Providers /\ flight \in Seq(Flights) /\ w.p.pending \in Nat
      /\ d \in Replicas /\ Ledger(L, w.p) /\ Pipes(L, w.s)
  BY SlotParts DEF Good
<1>2. DOMAIN flight = 1..Len(flight) /\ Len(flight) \in Nat
  BY <1>1, LenProperties
<1>3. CASE echoes # {}
  <2> DEFINE i == CHOOSE j \in echoes : \A k \in echoes : j <= k
             x == flight[i]
             left == w.p.pending - x.count
             rest == Without(flight, i)
             count == IF left > 0 THEN left ELSE 0
             v == [w EXCEPT !.p.pending = count, !.p.inFlight = rest]
  <2>1. OnUpdate(w, u) = v
    BY <1>3 DEF OnUpdate, Without
  <2>2. i \in 1..Len(flight) /\ x.update = u
    <3>1. echoes \subseteq Nat
      BY <1>2
    <3>2. \E j \in echoes : \A k \in echoes : j <= k
      <4> HIDE DEF echoes
      <4> QED
        BY <1>3, <3>1, Least
    <3>3. i \in echoes
      BY <3>2
    <3> HIDE DEF i
    <3> QED
      BY <1>2, <3>3
  <2> HIDE DEF i
  <2>3. x \in Flights
    BY <1>1, <2>2, ElementOfSeq
  <2>4. /\ rest \in Seq(Flights) /\ Len(rest) = Len(flight) - 1
        /\ \A j \in 1..(Len(flight) - 1) : rest[j] = IF j < i THEN flight[j] ELSE flight[j + 1]
        /\ Total(flight) = Total(rest) + x.count
    BY <1>1, <2>2, FlightsWeighed, WithoutParts, TotalWithout
  <2> HIDE DEF rest
  <2>5. /\ Total(rest) \in Nat /\ Total(flight) <= w.p.pending /\ Counted(flight) /\ x.count \in Nat
        /\ left = w.p.pending - x.count
    BY <1>1, <2>3, <2>4, FlightsTotal DEF Ledger, Flights
  <2> HIDE DEF left, x
  <2>6. left \in Nat /\ count = left /\ Total(rest) <= left
    BY <1>1, <2>4, <2>5
  <2>7. Total(flight) < w.p.pending => Total(rest) < left
    BY <1>1, <2>4, <2>5
  <2>8. Counted(rest)
    <3> SUFFICES ASSUME NEW j \in 1..(Len(flight) - 1) PROVE rest[j].count >= 1
      BY <2>4 DEF Counted
    <3>1. j \in 1..Len(flight) /\ j + 1 \in 1..Len(flight)
      BY <1>2
    <3> QED
      BY <2>4, <2>5, <3>1 DEF Counted
  <2>9. \A j \in 1..Len(flight) : j = i \/ \E k \in 1..Len(rest) : rest[k] = flight[j]
    <3> SUFFICES ASSUME NEW j \in 1..Len(flight), j # i
                 PROVE  \E k \in 1..Len(rest) : rest[k] = flight[j]
      OBVIOUS
    <3>1. CASE j < i
      <4>1. j \in 1..(Len(flight) - 1)
        BY <1>2, <2>2, <3>1
      <4> QED
        BY <2>4, <3>1, <4>1
    <3>2. CASE j > i
      <4>1. j - 1 \in 1..(Len(flight) - 1) /\ ~ (j - 1 < i) /\ (j - 1) + 1 = j
        BY <1>2, <2>2, <3>2
      <4> QED
        BY <2>4, <4>1
    <3> QED
      BY <1>2, <2>2, <3>1, <3>2
  <2>10. Backed(L, d, flight) => Backed(L, d, rest)
    <3> SUFFICES ASSUME Backed(L, d, flight) PROVE Backed(L, d, rest)
      OBVIOUS
    <3>1. flight[i].update = u
      BY <2>2 DEF x
    <3>2. ASSUME NEW a \in Author PROVE SeenBacked(L, d, rest, a)
      <4>1. d.seen[a] \in Nat /\ u.to[a] \in Nat /\ L.seen[a] \in Nat /\ u.to[a] <= L.seen[a]
        BY <1>1 DEF Replicas, Updates, Vectors, Inside
      <4>2. SeenBacked(L, d, flight, a)
        BY DEF Backed
      <4>3. CASE \E j \in 1..Len(flight) : d.seen[a] <= flight[j].update.to[a]
        <5>1. PICK j \in 1..Len(flight) : d.seen[a] <= flight[j].update.to[a]
          BY <4>3
        <5>2. CASE j = i
          <6>1. d.seen[a] <= u.to[a]
            BY <3>1, <5>1, <5>2
          <6> QED
            BY <4>1, <6>1 DEF SeenBacked
        <5>3. CASE j # i
          <6>1. PICK k \in 1..Len(rest) : rest[k] = flight[j]
            BY <2>9, <5>3
          <6> QED
            BY <5>1, <6>1 DEF SeenBacked
        <5> QED
          BY <5>2, <5>3
      <4> QED
        BY <4>2, <4>3 DEF SeenBacked
    <3>3. ASSUME NEW e \in d.gone PROVE GoneBacked(L, rest, e)
      <4>1. u.gone \subseteq L.gone
        BY DEF Inside
      <4>2. GoneBacked(L, flight, e)
        BY DEF Backed
      <4> QED
        BY <2>9, <3>1, <4>1, <4>2 DEF GoneBacked
    <3> QED
      BY <3>2, <3>3 DEF Backed
  <2> DEFINE q == [w.p EXCEPT !.pending = count, !.inFlight = rest]
  <2>11. /\ q \in Providers /\ q.doc = d /\ q.pending = left /\ q.inFlight = rest
         /\ q.synced = w.p.synced
    BY <1>1, <2>4, <2>6 DEF Providers
  <2>12. v \in Tabs /\ v.p = q /\ v.s = w.s
    <3>1. v = [p |-> q, s |-> w.s]
      <4> HIDE DEF count
      <4>1. v = [w EXCEPT !.p = q]
        BY <1>1 DEF Tabs
      <4> QED
        BY <1>1, <4>1 DEF Tabs
    <3>2. w.s \in [Slot -> Sockets]
      BY <1>1, SlotParts
    <3> HIDE DEF v, q
    <3> QED
      BY <2>11, <3>1, <3>2 DEF Tabs
  <2> HIDE DEF v, q, count
  <2>13. Ledger(L, q)
    BY <1>1, <2>6, <2>7, <2>8, <2>10, <2>11 DEF Ledger
  <2> QED
    BY <1>1, <2>1, <2>12, <2>13 DEF Good
<1>4. CASE echoes = {} /\ Fits(d, u)
  <2> DEFINE v == [w EXCEPT !.p.doc = Merge(@, u)]
  <2>1. OnUpdate(w, u) = v
    BY <1>4 DEF OnUpdate
  <2>2. Merge(d, u) \in Replicas
    BY <1>1, MergeParts
  <2>3. /\ v \in Tabs /\ v.s = w.s /\ v.p.doc = Merge(d, u) /\ v.p.pending = w.p.pending
        /\ v.p.inFlight = flight /\ v.p.synced = w.p.synced
    BY <1>1, <2>2 DEF Tabs, Providers
  <2> HIDE DEF v
  <2>4. Backed(L, d, flight) => Backed(L, Merge(d, u), flight)
    <3> SUFFICES ASSUME Backed(L, d, flight) PROVE Backed(L, Merge(d, u), flight)
      OBVIOUS
    <3>1. ASSUME NEW a \in Author PROVE SeenBacked(L, Merge(d, u), flight, a)
      <4>1. Merge(d, u).seen[a] \in {d.seen[a], u.to[a]} /\ u.to[a] <= L.seen[a]
        BY <1>1, MergeParts DEF Inside
      <4>2. SeenBacked(L, d, flight, a)
        BY DEF Backed
      <4> QED
        BY <4>1, <4>2 DEF SeenBacked
    <3>2. ASSUME NEW e \in Merge(d, u).gone PROVE GoneBacked(L, flight, e)
      <4>1. e \in d.gone \/ e \in L.gone
        BY <1>1, MergeParts DEF Inside
      <4> QED
        BY <4>1 DEF Backed, GoneBacked
    <3> QED
      BY <3>1, <3>2 DEF Backed
  <2> QED
    BY <1>1, <2>1, <2>3, <2>4 DEF Good, Ledger
<1>5. CASE echoes = {} /\ ~ Fits(d, u)
  <2>1. OnUpdate(w, u) = Terminate(w)
    BY <1>5 DEF OnUpdate
  <2> QED
    BY <2>1, TerminateGood
<1> QED
  BY <1>3, <1>4, <1>5

LEMMA OnFrameGood ==
  ASSUME NEW L \in Replicas, NEW c \in Client, NEW w, Good(L, w), NEW frame \in Downs,
         frame.kind \in {"sync", "update"} => Inside(L, frame.body), NEW normalizes \in BOOLEAN
  PROVE  Good(L, OnFrame(c, w, frame, normalizes))
<1>1. CASE frame.kind = "admitted"
  <2> DEFINE v == [w EXCEPT !.p.admitted = TRUE]
  <2>1. OnFrame(c, w, frame, normalizes) = v
    BY <1>1 DEF OnFrame
  <2>2. /\ v \in Tabs /\ v.s = w.s /\ v.p.doc = w.p.doc /\ v.p.pending = w.p.pending
        /\ v.p.inFlight = w.p.inFlight /\ v.p.synced = w.p.synced
    BY DEF Good, Tabs, Providers
  <2> HIDE DEF v
  <2> QED
    BY <2>1, <2>2, LedgerSame DEF Good
<1>2. CASE frame.kind = "refresh_required"
  BY <1>2, TerminateGood DEF OnFrame
<1>3. CASE frame.kind = "error"
  BY <1>3, OfflineGood DEF OnFrame
<1>4. CASE frame.kind = "update"
  <2>1. frame.body \in Updates
    BY <1>4 DEF Downs
  <2>2. OnFrame(c, w, frame, normalizes) \in {OnUpdate(w, frame.body), Terminate(w)}
    BY <1>4 DEF OnFrame
  <2> QED
    BY <1>4, <2>1, <2>2, OnUpdateGood, TerminateGood
<1>5. CASE frame.kind = "sync"
  <2>1. frame.body \in Updates
    BY <1>5 DEF Downs
  <2>2. OnFrame(c, w, frame, normalizes) \in {OnSync(c, w, frame.body, normalizes), Terminate(w)}
    BY <1>5 DEF OnFrame
  <2> QED
    BY <1>5, <2>1, <2>2, OnSyncGood, TerminateGood
<1>6. frame.kind \in {"admitted", "refresh_required", "error", "sync", "update"}
  BY DEF Downs
<1> QED
  BY <1>1, <1>2, <1>3, <1>4, <1>5, <1>6

-----------------------------------------------------------------------------
(* A step of a tab. *)
LEMMA TabGood ==
  ASSUME IInv, NEW c \in Client
  PROVE  Good(log, Tab(c)) /\ Tab(c).p = client[c] /\ Tab(c).s = sock[c]
BY DEF IInv, Good, Tab, Tabs

LEMMA Installed ==
  ASSUME IInv, NEW c \in Client, NEW w, Good(log, w), Install(c, w), log' = log
  PROVE  IInv'
<1>1. w.p \in Providers /\ w.s \in [Slot -> Sockets]
  BY SlotParts DEF Good
<1>2. client' \in [Client -> Providers] /\ sock' \in [Client -> [Slot -> Sockets]]
  BY <1>1 DEF IInv, Install
<1>3. ASSUME NEW b \in Client PROVE Ledger(log, client'[b]) /\ Pipes(log, sock'[b])
  BY DEF IInv, Install, Good
<1> QED
  BY <1>2, <1>3 DEF IInv

(* A step of the server or the network, whose sockets carry only what is in its log. *)
LEMMA Served ==
  ASSUME IInv, client' = client, log' = log, sock' \in [Client -> [Slot -> Sockets]],
         \A c \in Client : Pipes(log, sock'[c])
  PROVE  IInv'
BY DEF IInv

LEMMA InitInv == Init => IInv
<1> SUFFICES ASSUME Init PROVE IInv
  OBVIOUS
<1>1. <<>> \in Seq(Flights) /\ <<>> \in Seq(Ups) /\ <<>> \in Seq(Downs) /\ Len(<<>>) = 0
  BY EmptySeq
<1>2. Empty \in Replicas
  BY DEF Empty, Replicas, Vectors
<1>3. 1 \in Slot
  BY BoundAssumption DEF Slot
<1>4. client \in [Client -> Providers]
  BY <1>1, <1>2, <1>3 DEF Init, Provider, Providers
<1>5. sock \in [Client -> [Slot -> Sockets]]
  BY <1>1 DEF Init, NoSocket, Sockets
<1>6. ASSUME NEW c \in Client PROVE Ledger(log, client[c])
  <2>1. client[c].inFlight = <<>> /\ client[c].pending = 0 /\ client[c].synced = FALSE
    BY DEF Init, Provider
  <2> QED
    BY <1>1, <2>1, TotalEmpty DEF Ledger, Counted
<1>7. ASSUME NEW c \in Client PROVE Pipes(log, sock[c])
  <2>1. \A i \in Slot : sock[c][i].down = <<>>
    BY DEF Init, NoSocket
  <2> QED
    BY <2>1, CarriedNone DEF Pipes
<1> QED
  BY <1>2, <1>4, <1>5, <1>6, <1>7 DEF IInv, Init

LEMMA FlagGood ==
  ASSUME NEW L, NEW w, Good(L, w), NEW v \in Tabs, v.s = w.s, v.p.doc = w.p.doc,
         v.p.pending = w.p.pending, v.p.inFlight = w.p.inFlight, v.p.synced = w.p.synced
  PROVE  Good(L, v)
BY LedgerSame DEF Good

LEMMA SocketGood ==
  ASSUME NEW L, NEW w, Good(L, w), NEW k \in Slot, NEW x \in Sockets, Carried(L, x.down)
  PROVE  Good(L, [p |-> w.p, s |-> [w.s EXCEPT ![k] = x]])
<1> DEFINE t == [w.s EXCEPT ![k] = x]
           v == [p |-> w.p, s |-> t]
<1>1. v \in Tabs /\ v.p = w.p /\ v.s = t
  BY SlotParts, SocketSet DEF Good
<1>2. \A i \in Slot : Carried(L, t[i].down)
  <2>1. w.s \in [Slot -> Sockets]
    BY SlotParts DEF Good
  <2> QED
    BY <2>1 DEF Good, Pipes
<1> HIDE DEF t, v
<1> QED
  BY <1>1, <1>2 DEF Good, Pipes, v, t

LEMMA EditKeeps == ASSUME IInv, NEW c \in Client, Edit(c) PROVE IInv'
<1>1. log \in Replicas /\ client[c].doc \in Replicas
  BY DEF IInv, Providers
<1> QED
  BY <1>1, TabGood, NextEditTyped, SendUpdateGood, Installed DEF Edit

LEMMA EraseKeeps == ASSUME IInv, NEW c \in Client, NEW e \in Erasure, Erase(c, e) PROVE IInv'
<1> DEFINE d == client[c].doc
           u == [from |-> d.seen, to |-> d.seen, gone |-> {e}]
<1>1. log \in Replicas /\ d \in Replicas
  BY DEF IInv, Providers
<1>2. u \in Updates
  BY <1>1 DEF Replicas, Updates
<1>3. Install(c, SendUpdate(Tab(c), u)) /\ log' = log
  BY DEF Erase
<1> QED
  BY <1>1, <1>2, <1>3, TabGood, SendUpdateGood, Installed

LEMMA OpenKeeps == ASSUME IInv, NEW c \in Client, NEW s \in Slot, Open(c, s) PROVE IInv'
<1> DEFINE w == Tab(c)
           opened == [w EXCEPT !.s[s].state = "open", !.s[s].serving = TRUE]
           linked == [opened EXCEPT !.p.connected = TRUE]
           frame == Signal("subscribe")
           x == [w.s[s] EXCEPT !.state = "open", !.serving = TRUE]
<1>1. Good(log, w) /\ w \in Tabs /\ w.p \in Providers /\ w.s[s] \in Sockets
  BY TabGood, SlotParts DEF Good
<1>2. log' = log
  BY DEF Open
<1>o. Install(c, opened) \/ Install(c, Send(linked, frame))
  BY DEF Open
<1> HIDE DEF w
<1>3. x \in Sockets /\ x.down = w.s[s].down
  BY <1>1 DEF Sockets
<1>4. opened = [p |-> w.p, s |-> [w.s EXCEPT ![s] = x]]
  <2>1. opened = [w EXCEPT !.s = [w.s EXCEPT ![s] = x]]
    BY <1>1 DEF Tabs
  <2> QED
    BY <1>1, <2>1 DEF Tabs
<1>5. Carried(log, x.down)
  BY <1>1, <1>3 DEF Good, Pipes
<1> HIDE DEF x, opened
<1>6. Good(log, opened) /\ opened \in Tabs
  BY <1>1, <1>3, <1>4, <1>5, SocketGood DEF Good
<1>7. /\ linked \in Tabs /\ linked.s = opened.s /\ linked.p.doc = opened.p.doc
      /\ linked.p.pending = opened.p.pending
      /\ linked.p.inFlight = opened.p.inFlight /\ linked.p.synced = opened.p.synced
  BY <1>6 DEF Tabs, Providers
<1> HIDE DEF linked
<1>8. Good(log, linked)
  BY <1>6, <1>7, FlagGood
<1>9. frame \in Ups
  BY DEF Signal, Ups
<1>10. Good(log, Send(linked, frame))
  BY <1>8, <1>9, SendPipes DEF Good
<1>11. CASE Install(c, opened)
  BY <1>2, <1>6, <1>11, Installed
<1>12. CASE Install(c, Send(linked, frame))
  BY <1>2, <1>10, <1>12, Installed
<1> QED
  BY <1>o, <1>11, <1>12

(* The page takes the first frame of its socket, which is one of its types and in the log. *)
Carries(frame) == frame.kind \in {"sync", "update"}
FirstTaken(s, k) == [s EXCEPT ![k] = [s[k] EXCEPT !.down = Tail(s[k].down)]]

SamePage(p, q) ==
  /\ q.doc = p.doc /\ q.inFlight = p.inFlight /\ q.current = p.current /\ q.connected = p.connected
  /\ q.admitted = p.admitted /\ q.refresh = p.refresh /\ q.retry = p.retry

LEMMA FirstFrameGood ==
  ASSUME IInv, NEW c \in Client, NEW s \in Slot, sock[c][s].down # <<>>
  PROVE  LET taken == [Tab(c) EXCEPT !.s[s].down = Tail(@), !.p.mine = FALSE]
             frame == Head(sock[c][s].down)
         IN  /\ Good(log, taken) /\ taken.s = FirstTaken(sock[c], s) /\ SamePage(client[c], taken.p)
             /\ frame \in Downs /\ (Carries(frame) => Inside(log, frame.body))
<1> DEFINE w == Tab(c)
           down == w.s[s].down
           taken == [w EXCEPT !.s[s].down = Tail(@), !.p.mine = FALSE]
           x == [w.s[s] EXCEPT !.down = Tail(w.s[s].down)]
           v == [p |-> w.p, s |-> [w.s EXCEPT ![s] = x]]
<1>1. /\ Good(log, w) /\ w \in Tabs /\ w.p \in Providers /\ w.s[s] \in Sockets /\ down \in Seq(Downs)
      /\ log \in Replicas /\ w.p = client[c] /\ w.s = sock[c]
  BY TabGood, SlotParts DEF Good, Sockets, IInv
<1>3. down # <<>>
  BY <1>1
<1> HIDE DEF w
<1>4. /\ Head(down) \in Downs /\ Tail(down) \in Seq(Downs)
      /\ Len(down) \in Nat \ {0} /\ Head(down) = down[1] /\ Len(Tail(down)) = Len(down) - 1
      /\ \A i \in 1..Len(Tail(down)) : Tail(down)[i] = down[i + 1]
  BY <1>1, <1>3, HeadTailProperties, EmptySeq
<1>5. Carried(log, down)
  BY <1>1 DEF Good, Pipes
<1>8. x \in Sockets /\ x.down = Tail(down)
  BY <1>1, <1>4 DEF Sockets
<1> HIDE DEF down
<1>6. Carries(Head(down)) => Inside(log, Head(down).body)
  BY <1>4, <1>5 DEF Carried, Carries
<1>7. Carried(log, Tail(down))
  BY <1>4, <1>5 DEF Carried
<1>9. Good(log, v) /\ v \in Tabs
  <2> HIDE DEF x
  <2> QED
    BY <1>1, <1>7, <1>8, SocketGood DEF Good
<1>10. taken = [v EXCEPT !.p.mine = FALSE]
  <2>1. [w EXCEPT !.s[s].down = Tail(@)] = v
    <3>1. [w EXCEPT !.s[s].down = Tail(@)] = [w EXCEPT !.s = [w.s EXCEPT ![s] = x]]
      BY <1>1 DEF Tabs
    <3>2. v = [w EXCEPT !.s = [w.s EXCEPT ![s] = x]]
      <4> HIDE DEF x
      <4> QED
        BY <1>1 DEF Tabs
    <3> QED
      BY <3>1, <3>2
  <2> QED
    BY <2>1
<1>13. v.s = FirstTaken(sock[c], s) /\ v.p = client[c]
  BY <1>1 DEF FirstTaken
<1> HIDE DEF v, taken, x
<1>11. /\ taken \in Tabs /\ taken.s = v.s /\ taken.p.doc = v.p.doc /\ taken.p.pending = v.p.pending
       /\ taken.p.inFlight = v.p.inFlight /\ taken.p.synced = v.p.synced
       /\ SamePage(v.p, taken.p)
  BY <1>9, <1>10 DEF Tabs, Providers, SamePage
<1>12. Good(log, taken)
  BY <1>9, <1>11, FlagGood
<1> QED
  BY <1>1, <1>4, <1>6, <1>11, <1>12, <1>13 DEF w, taken, down

LEMMA ReceiveKeeps == ASSUME IInv, NEW c \in Client, NEW s \in Slot, Receive(c, s) PROVE IInv'
<1> DEFINE taken == [Tab(c) EXCEPT !.s[s].down = Tail(@), !.p.mine = FALSE]
           frame == Head(sock[c][s].down)
<1>1. PICK normalizes \in BOOLEAN : Install(c, OnFrame(c, taken, frame, normalizes))
  BY DEF Receive
<1>2. log' = log /\ sock[c][s].down # <<>> /\ log \in Replicas
  BY DEF Receive, IInv
<1>3. Good(log, taken) /\ frame \in Downs /\ (Carries(frame) => Inside(log, frame.body))
  BY <1>2, FirstFrameGood
<1> HIDE DEF taken, frame
<1> QED
  BY <1>1, <1>2, <1>3, OnFrameGood, Installed DEF Carries

LEMMA HearCloseKeeps == ASSUME IInv, NEW c \in Client, NEW s \in Slot, HearClose(c, s) PROVE IInv'
<1> DEFINE w == Tab(c)
           closed == [w EXCEPT !.s[s].state = "closed", !.s[s].listening = FALSE, !.p.connected = FALSE]
           x == [w.s[s] EXCEPT !.state = "closed", !.listening = FALSE]
           v == [p |-> w.p, s |-> [w.s EXCEPT ![s] = x]]
<1>1. Good(log, w) /\ w \in Tabs /\ w.p \in Providers /\ w.s[s] \in Sockets
  BY TabGood, SlotParts DEF Good
<1>2. log' = log /\ Install(c, ScheduleReconnect(Detach(closed)))
  BY DEF HearClose
<1> HIDE DEF w
<1>3. x \in Sockets /\ x.down = w.s[s].down
  BY <1>1 DEF Sockets
<1>4. Carried(log, x.down)
  BY <1>1, <1>3 DEF Good, Pipes
<1>5. Good(log, v) /\ v \in Tabs
  <2> HIDE DEF x
  <2> QED
    BY <1>1, <1>3, <1>4, SocketGood DEF Good
<1>6. closed = [v EXCEPT !.p.connected = FALSE]
  <2>1. [w EXCEPT !.s[s].state = "closed", !.s[s].listening = FALSE] = v
    <3>1. [w EXCEPT !.s[s].state = "closed", !.s[s].listening = FALSE] = [w EXCEPT !.s = [w.s EXCEPT ![s] = x]]
      BY <1>1 DEF Tabs
    <3> QED
      BY <1>1, <3>1 DEF Tabs
  <2> QED
    BY <2>1
<1> HIDE DEF v, closed, x
<1>7. /\ closed \in Tabs /\ closed.s = v.s /\ closed.p.doc = v.p.doc /\ closed.p.pending = v.p.pending
      /\ closed.p.inFlight = v.p.inFlight /\ closed.p.synced = v.p.synced
  BY <1>5, <1>6 DEF Tabs, Providers
<1>8. Good(log, closed)
  BY <1>5, <1>7, FlagGood
<1> QED
  BY <1>2, <1>8, DetachGood, ScheduleReconnectGood, Installed

(* attach, by the timer or by the browser's event. *)
LEMMA AttachKeeps ==
  ASSUME IInv, NEW c \in Client, log' = log,
         \E w \in Attached([Tab(c) EXCEPT !.p.retry = FALSE]) : Install(c, w)
  PROVE  IInv'
<1> DEFINE v == [Tab(c) EXCEPT !.p.retry = FALSE]
<1>1. /\ v \in Tabs /\ v.s = Tab(c).s /\ v.p.doc = Tab(c).p.doc /\ v.p.pending = Tab(c).p.pending
      /\ v.p.inFlight = Tab(c).p.inFlight /\ v.p.synced = Tab(c).p.synced
  BY TabGood DEF Good, Tabs, Providers
<1>2. PICK w \in Attached(v) : Install(c, w)
  OBVIOUS
<1> HIDE DEF v
<1>3. Good(log, v)
  BY <1>1, TabGood, FlagGood
<1> QED
  BY <1>2, <1>3, AttachedGood, Installed

LEMMA ReloadedGood ==
  ASSUME IInv, NEW c \in Client
  PROVE  Good(log, [p |-> [Provider EXCEPT !.doc = client[c].doc],
                    s |-> [s \in Slot |-> IF sock[c][s].serving
                            THEN [sock[c][s] EXCEPT !.state = "closed", !.listening = FALSE, !.down = <<>>]
                            ELSE NoSocket]])
<1> DEFINE q == [Provider EXCEPT !.doc = client[c].doc]
           t == [s \in Slot |-> IF sock[c][s].serving
                  THEN [sock[c][s] EXCEPT !.state = "closed", !.listening = FALSE, !.down = <<>>]
                  ELSE NoSocket]
           v == [p |-> q, s |-> t]
<1>2. <<>> \in Seq(Flights) /\ <<>> \in Seq(Ups) /\ <<>> \in Seq(Downs) /\ Len(<<>>) = 0
  BY EmptySeq
<1>3. client[c].doc \in Replicas /\ \A s \in Slot : sock[c][s] \in Sockets
  BY DEF IInv, Providers
<1>4. q \in Providers /\ q.inFlight = <<>> /\ q.pending = 0 /\ q.synced = FALSE
  BY <1>2, <1>3 DEF Provider, Providers
<1>5. t \in [Slot -> Sockets] /\ \A s \in Slot : t[s].down = <<>>
  <2> SUFFICES ASSUME NEW s \in Slot PROVE t[s] \in Sockets /\ t[s].down = <<>>
    OBVIOUS
  <2>1. CASE sock[c][s].serving
    BY <1>2, <1>3, <2>1 DEF Sockets
  <2>2. CASE ~ sock[c][s].serving
    BY <1>2, <2>2 DEF NoSocket, Sockets
  <2> QED
    BY <2>1, <2>2
<1> HIDE DEF q, t
<1>6. v \in Tabs /\ v.p = q /\ v.s = t
  BY <1>4, <1>5 DEF Tabs
<1>7. Ledger(log, q)
  BY <1>2, <1>4, TotalEmpty DEF Ledger, Counted
<1>8. Pipes(log, t)
  BY <1>5, CarriedNone DEF Pipes
<1>9. Good(log, v)
  BY <1>6, <1>7, <1>8 DEF Good
<1> QED
  BY <1>9 DEF v, q, t

LEMMA ReloadKeeps == ASSUME IInv, NEW c \in Client, Reload(c) PROVE IInv'
BY ReloadedGood, AttachedGood, Installed DEF Reload

LEMMA DestroyKeeps == ASSUME IInv, NEW c \in Client, Destroy(c) PROVE IInv'
<1> DEFINE sent == Send(Tab(c), Signal("unsubscribe"))
           marked == [sent EXCEPT !.p.destroyed = TRUE]
           left == DetachAndClose(marked)
           v == [left EXCEPT !.p.connected = FALSE, !.p.retry = FALSE]
<1>1. log' = log /\ Install(c, v)
  BY DEF Destroy
<1>2. Signal("unsubscribe") \in Ups
  BY DEF Signal, Ups
<1>3. Good(log, sent)
  BY <1>2, TabGood, SendPipes DEF Good
<1> HIDE DEF sent
<1>4. /\ marked \in Tabs /\ marked.s = sent.s /\ marked.p.doc = sent.p.doc /\ marked.p.pending = sent.p.pending
      /\ marked.p.inFlight = sent.p.inFlight /\ marked.p.synced = sent.p.synced
  BY <1>3 DEF Good, Tabs, Providers
<1> HIDE DEF marked
<1>5. Good(log, left)
  BY <1>3, <1>4, FlagGood, DetachAndCloseGood
<1> HIDE DEF left
<1>6. /\ v \in Tabs /\ v.s = left.s /\ v.p.doc = left.p.doc /\ v.p.pending = left.p.pending
      /\ v.p.inFlight = left.p.inFlight /\ v.p.synced = left.p.synced
  BY <1>5 DEF Good, Tabs, Providers
<1> HIDE DEF v
<1>7. Good(log, v)
  BY <1>5, <1>6, FlagGood
<1> QED
  BY <1>1, <1>7, Installed

-----------------------------------------------------------------------------
(* The server's side. *)
Wires(L, socks) ==
  socks \in [Client -> [Slot -> Sockets]] /\ \A c \in Client : Pipes(L, socks[c])

LEMMA WiresSet ==
  ASSUME NEW L, NEW socks, Wires(L, socks), NEW c \in Client, NEW s \in Slot,
         NEW x \in Sockets, Carried(L, x.down)
  PROVE  Wires(L, [socks EXCEPT ![c][s] = x])
<1> DEFINE t == [socks EXCEPT ![c][s] = x]
<1>1. t \in [Client -> [Slot -> Sockets]]
  BY DEF Wires
<1>2. ASSUME NEW b \in Client, NEW i \in Slot PROVE Carried(L, t[b][i].down)
  <2>1. t[b][i] = IF b = c /\ i = s THEN x ELSE socks[b][i]
    BY DEF Wires
  <2> QED
    BY <2>1 DEF Wires, Pipes
<1> QED
  BY <1>1, <1>2 DEF Wires, Pipes

LEMMA WiresParts ==
  ASSUME NEW L, NEW socks, Wires(L, socks), NEW c \in Client, NEW s \in Slot
  PROVE  /\ socks[c][s] \in Sockets /\ Carried(L, socks[c][s].down)
         /\ socks[c][s].up \in Seq(Ups) /\ socks[c][s].down \in Seq(Downs)
BY DEF Wires, Pipes, Sockets

LEMMA WiresNow == IInv => Wires(log, sock)
BY DEF IInv, Wires

LEMMA CarriedAppend ==
  ASSUME NEW L, NEW down \in Seq(Downs), Carried(L, down), NEW frame \in Downs,
         frame.kind \in {"sync", "update"} => Inside(L, frame.body)
  PROVE  Append(down, frame) \in Seq(Downs) /\ Carried(L, Append(down, frame))
<1>1. /\ Append(down, frame) \in Seq(Downs)
      /\ Len(Append(down, frame)) = Len(down) + 1 /\ Len(down) \in Nat
      /\ \A i \in 1..Len(down) : Append(down, frame)[i] = down[i]
      /\ Append(down, frame)[Len(down) + 1] = frame
  BY AppendProperties, LenProperties
<1> QED
  BY <1>1 DEF Carried

LEMMA TakenWires ==
  ASSUME IInv, NEW c \in Client, NEW s \in Slot, sock[c][s].up # <<>>
  PROVE  Wires(log, Taken(c, s)) /\ Head(sock[c][s].up) \in Ups
<1> DEFINE x == [sock[c][s] EXCEPT !.up = Tail(@)]
<1>1. Wires(log, sock)
  BY WiresNow
<1>2. sock[c][s] \in Sockets /\ Carried(log, sock[c][s].down) /\ sock[c][s].up \in Seq(Ups)
  BY <1>1, WiresParts
<1>3. Head(sock[c][s].up) \in Ups /\ Tail(sock[c][s].up) \in Seq(Ups)
  BY <1>2, HeadTailProperties
<1>4. x \in Sockets /\ x.down = sock[c][s].down
  BY <1>2, <1>3 DEF Sockets
<1>5. Taken(c, s) = [sock EXCEPT ![c][s] = x]
  BY DEF Taken
<1> HIDE DEF x
<1>6. Wires(log, [sock EXCEPT ![c][s] = x])
  BY <1>1, <1>2, <1>4, WiresSet
<1> QED
  BY <1>3, <1>5, <1>6

LEMMA ReplyWires ==
  ASSUME NEW L, NEW socks, Wires(L, socks), NEW c \in Client, NEW s \in Slot, NEW frame \in Downs,
         frame.kind \in {"sync", "update"} => Inside(L, frame.body)
  PROVE  Wires(L, Reply(socks, c, s, frame))
<1> DEFINE x == [socks[c][s] EXCEPT !.down = Append(@, frame)]
<1>1. socks[c][s] \in Sockets /\ Carried(L, socks[c][s].down) /\ socks[c][s].down \in Seq(Downs)
  BY WiresParts
<1>2. Append(socks[c][s].down, frame) \in Seq(Downs) /\ Carried(L, Append(socks[c][s].down, frame))
  BY <1>1, CarriedAppend
<1>3. x \in Sockets /\ Carried(L, x.down)
  BY <1>1, <1>2 DEF Sockets
<1>4. Reply(socks, c, s, frame) \in {socks, [socks EXCEPT ![c][s] = x]}
  BY DEF Reply
<1> HIDE DEF x
<1> QED
  BY <1>3, <1>4, WiresSet

LEMMA BroadcastWires ==
  ASSUME NEW L, NEW socks, Wires(L, socks), NEW u \in Updates, Inside(L, u)
  PROVE  Wires(L, Broadcast(socks, u))
<1> DEFINE b == Broadcast(socks, u)
           frame == Frame("update", u)
<1>1. frame \in Downs /\ frame.body = u
  BY DEF Frame, Downs
<1>2. ASSUME NEW c \in Client, NEW s \in Slot
      PROVE  b[c][s] \in Sockets /\ Carried(L, b[c][s].down)
  <2> DEFINE x == [socks[c][s] EXCEPT !.down = Append(@, frame)]
  <2>1. socks[c][s] \in Sockets /\ Carried(L, socks[c][s].down) /\ socks[c][s].down \in Seq(Downs)
    BY WiresParts
  <2>2. b[c][s] \in {x, socks[c][s]}
    BY DEF Broadcast
  <2> HIDE DEF frame
  <2>3. Append(socks[c][s].down, frame) \in Seq(Downs) /\ Carried(L, Append(socks[c][s].down, frame))
    BY <1>1, <2>1, CarriedAppend
  <2>4. x \in Sockets /\ Carried(L, x.down)
    BY <2>1, <2>3 DEF Sockets
  <2> QED
    BY <2>1, <2>2, <2>4
<1>3. b \in [Client -> [Slot -> Sockets]]
  BY <1>2 DEF Broadcast
<1> QED
  BY <1>2, <1>3 DEF Wires, Pipes

LEMMA ServedWires ==
  ASSUME IInv, client' = client, log' = log, Wires(log, sock')
  PROVE  IInv'
BY Served DEF Wires

LEMMA StateInside ==
  ASSUME NEW L \in Replicas
  PROVE  Inside(L, State(L)) /\ State(L) \in Updates
BY DEF State, Inside, Updates, Replicas, Vectors, Empty

LEMMA MergedInside ==
  ASSUME NEW L \in Replicas, NEW u \in Updates
  PROVE  Inside(Merge(L, u), u)
BY MergeParts DEF Inside, Updates, Replicas, Vectors

(* The server accepts an update and tells every open socket of the room. *)
LEMMA MergeKeeps ==
  ASSUME IInv, client' = client, NEW u \in Updates, log' = Merge(log, u),
         NEW socks, Wires(log, socks), sock' = Broadcast(socks, u)
  PROVE  IInv'
<1>1. log \in Replicas /\ log' \in Replicas
  BY MergeParts DEF IInv
<1>2. ASSUME NEW c \in Client PROVE Ledger(log', client[c]) /\ Pipes(log', socks[c])
  <2>1. /\ client[c] \in Providers /\ socks[c] \in [Slot -> Sockets]
        /\ Ledger(log, client[c]) /\ Pipes(log, socks[c])
    BY DEF IInv, Wires
  <2> QED
    BY <1>1, <2>1, LogGrows
<1>3. Wires(log', socks)
  BY <1>2 DEF Wires
<1>4. Wires(log', sock')
  BY <1>1, <1>3, MergedInside, BroadcastWires
<1> QED
  BY <1>1, <1>2, <1>4 DEF IInv, Wires

LEMMA SubscribeKeeps == ASSUME IInv, NEW c \in Client, NEW s \in Slot, Subscribe(c, s) PROVE IInv'
<1> DEFINE admission == Signal("admitted")
           state == Frame("sync", State(log))
           one == Reply(Taken(c, s), c, s, admission)
           two == Reply(one, c, s, state)
           x == [two[c][s] EXCEPT !.joined = TRUE]
<1>1. /\ sock[c][s].up # <<>> /\ client' = client /\ log' = log
      /\ sock' = [two EXCEPT ![c][s].joined = TRUE]
  BY DEF Subscribe, Serves
<1>2. log \in Replicas
  BY DEF IInv
<1>3. /\ admission \in Downs /\ admission.kind = "admitted"
      /\ state \in Downs /\ Inside(log, state.body)
  BY <1>2, StateInside DEF Signal, Frame, Downs
<1> HIDE DEF admission, state
<1>4. Wires(log, one)
  <2>1. Wires(log, Taken(c, s))
    BY <1>1, TakenWires
  <2> QED
    BY <1>3, <2>1, ReplyWires
<1> HIDE DEF one
<1>5. Wires(log, two)
  BY <1>3, <1>4, ReplyWires
<1> HIDE DEF two
<1>6. two[c][s] \in Sockets /\ Carried(log, two[c][s].down)
  BY <1>5, WiresParts
<1>7. x \in Sockets /\ x.down = two[c][s].down
  BY <1>6 DEF Sockets
<1>8. sock' = [two EXCEPT ![c][s] = x]
  BY <1>1
<1> HIDE DEF x
<1>9. Wires(log, sock')
  BY <1>5, <1>6, <1>7, <1>8, WiresSet
<1> QED
  BY <1>1, <1>9, ServedWires

(* A frame that is answered by a refusal, or with nothing. *)
LEMMA RefusalKeeps ==
  ASSUME IInv, NEW c \in Client, NEW s \in Slot, sock[c][s].up # <<>>, client' = client, log' = log,
         NEW kind \in {"refresh_required", "error"}, sock' = Reply(Taken(c, s), c, s, Signal(kind))
  PROVE  IInv'
<1>1. Signal(kind) \in Downs /\ Signal(kind).kind = kind
  BY DEF Signal, Downs
<1>2. Wires(log, Taken(c, s))
  BY TakenWires
<1>3. Wires(log, sock')
  BY <1>1, <1>2, ReplyWires
<1> QED
  BY <1>3, ServedWires

LEMMA UnsubscribeKeeps == ASSUME IInv, NEW c \in Client, NEW s \in Slot, Unsubscribe(c, s) PROVE IInv'
<1> DEFINE t == Taken(c, s)
           x == [t[c][s] EXCEPT !.joined = FALSE]
<1>1. /\ sock[c][s].up # <<>> /\ client' = client /\ log' = log
      /\ sock' = [t EXCEPT ![c][s].joined = FALSE]
  BY DEF Unsubscribe, Serves
<1>2. Wires(log, t)
  BY <1>1, TakenWires
<1> HIDE DEF t
<1>3. t[c][s] \in Sockets /\ Carried(log, t[c][s].down)
  BY <1>2, WiresParts
<1>4. x \in Sockets /\ x.down = t[c][s].down
  BY <1>3 DEF Sockets
<1>5. sock' = [t EXCEPT ![c][s] = x]
  BY <1>1
<1> HIDE DEF x
<1>6. Wires(log, sock')
  BY <1>2, <1>3, <1>4, <1>5, WiresSet
<1> QED
  BY <1>1, <1>6, ServedWires

LEMMA AcceptKeeps == ASSUME IInv, NEW c \in Client, NEW s \in Slot, AcceptUpdate(c, s) PROVE IInv'
<1> DEFINE u == Head(sock[c][s].up).body
<1>1. /\ sock[c][s].up # <<>> /\ Head(sock[c][s].up).kind = "update" /\ client' = client
  BY DEF AcceptUpdate, Serves
<1>2. Wires(log, Taken(c, s)) /\ u \in Updates
  BY <1>1, TakenWires DEF Ups
<1>3. \/ log' = log /\ sock' = Reply(Taken(c, s), c, s, Signal("refresh_required"))
      \/ log' = log /\ sock' = Reply(Taken(c, s), c, s, Signal("error"))
      \/ log' = Merge(log, u) /\ sock' = Broadcast(Taken(c, s), u)
  BY DEF AcceptUpdate
<1>4. CASE log' = log /\ sock' = Reply(Taken(c, s), c, s, Signal("refresh_required"))
  BY <1>1, <1>4, RefusalKeeps
<1>5. CASE log' = log /\ sock' = Reply(Taken(c, s), c, s, Signal("error"))
  BY <1>1, <1>5, RefusalKeeps
<1>6. CASE log' = Merge(log, u) /\ sock' = Broadcast(Taken(c, s), u)
  BY <1>1, <1>2, <1>6, MergeKeeps
<1> QED
  BY <1>3, <1>4, <1>5, <1>6

LEMMA ImportKeeps == ASSUME IInv, ImportExternal PROVE IInv'
<1> DEFINE u == NextEdit(Disk, log)
<1>1. u \in Updates
  BY DEF IInv, NextEdit, Updates, Replicas, Vectors, Author
<1>2. client' = client /\ log' = Merge(log, u) /\ sock' = Broadcast(sock, u)
  BY DEF ImportExternal
<1> QED
  BY <1>1, <1>2, WiresNow, MergeKeeps

(* The room closes, or a connection ends: no socket carries anything new. *)
LEMMA CloseRoomKeeps == ASSUME IInv, CloseRoom PROVE IInv'
<1>1. client' = client /\ log' = log
      /\ sock' = [c \in Client |-> [s \in Slot |-> [sock[c][s] EXCEPT !.joined = FALSE]]]
  BY DEF CloseRoom
<1>2. ASSUME NEW c \in Client, NEW s \in Slot
      PROVE  sock'[c][s] \in Sockets /\ Carried(log, sock'[c][s].down)
  <2>1. sock[c][s] \in Sockets /\ Carried(log, sock[c][s].down)
    BY WiresNow, WiresParts
  <2>2. sock'[c][s] = [sock[c][s] EXCEPT !.joined = FALSE]
    BY <1>1
  <2> QED
    BY <2>1, <2>2 DEF Sockets
<1>3. sock' \in [Client -> [Slot -> Sockets]]
  BY <1>1, <1>2
<1>4. Wires(log, sock')
  BY <1>2, <1>3 DEF Wires, Pipes
<1> QED
  BY <1>1, <1>4, ServedWires

LEMMA BreakKeeps == ASSUME IInv, NEW c \in Client, NEW s \in Slot, Break(c, s) PROVE IInv'
<1> DEFINE state == IF sock[c][s].listening THEN "dead" ELSE "closed"
           x == [sock[c][s] EXCEPT !.state = state, !.down = <<>>]
<1>1. Wires(log, sock) /\ sock[c][s] \in Sockets /\ <<>> \in Seq(Downs)
  BY WiresNow, WiresParts, EmptySeq
<1>2. x \in Sockets /\ x.down = <<>>
  BY <1>1 DEF Sockets
<1>3. client' = client /\ log' = log /\ sock' = [sock EXCEPT ![c][s] = x]
  BY <1>1 DEF Break, Wires, Sockets
<1> HIDE DEF x
<1>4. Carried(log, x.down)
  BY <1>2, CarriedNone
<1>5. Wires(log, sock')
  BY <1>1, <1>2, <1>3, <1>4, WiresSet
<1> QED
  BY <1>3, <1>5, ServedWires

LEMMA DisconnectKeeps == ASSUME IInv, NEW c \in Client, NEW s \in Slot, Disconnect(c, s) PROVE IInv'
<1> DEFINE x == [sock[c][s] EXCEPT !.serving = FALSE, !.joined = FALSE, !.up = <<>>]
<1>1. /\ Wires(log, sock) /\ sock[c][s] \in Sockets /\ Carried(log, sock[c][s].down)
      /\ <<>> \in Seq(Ups)
  BY WiresNow, WiresParts, EmptySeq
<1>2. x \in Sockets /\ x.down = sock[c][s].down
  BY <1>1 DEF Sockets
<1>3. client' = client /\ log' = log /\ sock' = [sock EXCEPT ![c][s] = x]
  BY <1>1 DEF Disconnect, Wires, Sockets
<1> HIDE DEF x
<1>4. Wires(log, sock')
  BY <1>1, <1>2, <1>3, WiresSet
<1> QED
  BY <1>3, <1>4, ServedWires

-----------------------------------------------------------------------------
LEMMA TabSteps ==
  ASSUME IInv, NEW c \in Client, User(c) \/ Listener(c) \/ Browser(c)
  PROVE  IInv'
<1>1. CASE User(c)
  BY <1>1, EditKeeps, EraseKeeps DEF User
<1>2. CASE Listener(c)
  <2>1. CASE Retry(c)
    BY <2>1, AttachKeeps DEF Retry
  <2>2. CASE \E s \in Slot : Open(c, s) \/ Receive(c, s) \/ HearClose(c, s)
    BY <2>2, OpenKeeps, ReceiveKeeps, HearCloseKeeps
  <2> QED
    BY <1>2, <2>1, <2>2 DEF Listener
<1>3. CASE Browser(c)
  <2>1. CASE GoOffline(c)
    BY <2>1, TabGood, OfflineGood, Installed DEF GoOffline
  <2>2. CASE ComeOnline(c)
    BY <2>2, AttachKeeps DEF ComeOnline
  <2> QED
    BY <1>3, <2>1, <2>2, ReloadKeeps, DestroyKeeps DEF Browser
<1> QED
  BY <1>1, <1>2, <1>3

LEMMA ServerSteps ==
  ASSUME IInv, NEW c \in Client, NEW s \in Slot, Server(c, s) \/ Failure(c, s)
  PROVE  IInv'
<1>1. CASE Server(c, s)
  BY <1>1, SubscribeKeeps, UnsubscribeKeeps, AcceptKeeps, DisconnectKeeps DEF Server
<1>2. CASE SubscribeFails(c, s)
  BY <1>2, RefusalKeeps DEF SubscribeFails, Serves
<1>3. CASE RefuseUpdate(c, s)
  BY <1>3, RefusalKeeps DEF RefuseUpdate, Serves
<1> QED
  BY <1>1, <1>2, <1>3, BreakKeeps DEF Failure

LEMMA NextInv == IInv /\ [Next]_vars => IInv'
<1> SUFFICES ASSUME IInv, [Next]_vars PROVE IInv'
  OBVIOUS
<1>1. CASE UNCHANGED vars
  BY <1>1 DEF vars, IInv
<1>2. CASE Next
  <2>1. CASE \E c \in Client : User(c) \/ Listener(c) \/ Browser(c)
    BY <2>1, TabSteps
  <2>2. CASE \E c \in Client, s \in Slot : Server(c, s) \/ Failure(c, s)
    BY <2>2, ServerSteps
  <2> QED
    BY <1>2, <2>1, <2>2, ImportKeeps, CloseRoomKeeps DEF Next
<1> QED
  BY <1>1, <1>2

(* The inductive invariant: the types, the ledger of every tab, and that the server sends
   only what is in its log. *)
THEOREM LedgerInvariant == Spec => []IInv
<1> QED
  BY InitInv, NextInv, PTL DEF Spec

(* An echo never takes more off the count than is on it (sync.ts, onMessage), whatever
   sockets were lost, reopened and heard late. *)
THEOREM EchoesAreCounted == Spec => []InFlightIsPending
<1>1. IInv => InFlightIsPending
  BY DEF IInv, Ledger, InFlightIsPending
<1> QED
  BY <1>1, LedgerInvariant, PTL

(* What a synced tab with nothing pending shows is in the server's durable log: the
   promise behind "saved" and behind the cleared dirty flag of the replica. *)
THEOREM SavedIsInTheLog == Spec => []SavedIsDurable
<1>1. ASSUME IInv, NEW c \in Client, client[c].synced, client[c].pending = 0
      PROVE  Contains(log, client[c].doc)
  <2> DEFINE flight == client[c].inFlight
             d == client[c].doc
  <2>1. /\ flight \in Seq(Flights) /\ Counted(flight) /\ Total(flight) <= 0
        /\ Total(flight) < 0 \/ Backed(log, d, flight)
    BY <1>1 DEF IInv, Ledger, Providers
  <2>2. Total(flight) = 0 /\ Len(flight) \in Nat
    BY <2>1, FlightsTotal, LenProperties
  <2>3. flight = <<>>
    <3>1. SUFFICES ASSUME flight # <<>> PROVE FALSE
      OBVIOUS
    <3>2. Len(flight) \in 1..Len(flight)
      BY <2>1, <3>1, EmptySeq
    <3>3. Total(flight) >= 1
      BY <2>1, <3>1, <3>2, FlightsWeighed, TotalLeast DEF Counted
    <3> QED
      BY <2>2, <3>3
  <2>4. Backed(log, d, <<>>) /\ Len(<<>>) = 0
    BY <2>1, <2>2, <2>3, EmptySeq
  <2> HIDE DEF d
  <2>5. \A a \in Author : d.seen[a] <= log.seen[a]
    BY <2>4 DEF Backed, SeenBacked
  <2>6. \A e \in d.gone : e \in log.gone
    BY <2>4 DEF Backed, GoneBacked
  <2> QED
    BY <2>5, <2>6 DEF Contains, d
<1>2. IInv => SavedIsDurable
  BY <1>1 DEF SavedIsDurable
<1> QED
  BY <1>2, LedgerInvariant, PTL

-----------------------------------------------------------------------------
(* No tab gives up.  Of the mishaps a subscription that fails and a room closed under its
   subscribers are left out: the server does answer those with a refusal. *)
OnlyTransientTrouble == Trouble \subseteq {"drop", "network", "refuse", "reload"}

Fresh(x) == x.up = <<>> /\ x.down = <<>> /\ ~x.joined

(* A socket, whoever listens: it may send what it has on its way to the server, and nothing
   on its way to a tab is a refusal. *)
SocketOrder(x) ==
  /\ \A k \in 1..Len(x.up) :
       /\ x.up[k].kind = "unsubscribe" => x.state = "closed"
       /\ x.up[k].kind = "update" =>
            x.joined /\ \A j \in 1..(k - 1) : x.up[j].kind # "unsubscribe"
  /\ \A k \in 1..Len(x.down) : x.down[k].kind # "refresh_required"
  /\ x.state = "open" /\ x.down # <<>> => x.joined
  /\ x.state = "connecting" => Fresh(x)

(* What is on its way to a tab comes after its admission, *)
Announced(admitted, down) ==
  \A k \in 1..Len(down) : Carries(down[k]) =>
    admitted \/ \E j \in 1..(k - 1) : down[j].kind = "admitted"
Admits(admitted, down) == admitted \/ \E j \in 1..Len(down) : down[j].kind = "admitted"

(* follows without a gap on the tab's document and on what comes before it, *)
Linked(d, down) ==
  \A k \in 1..Len(down) : down[k].kind = "update" =>
    \A a \in Author : down[k].body.from[a] < down[k].body.to[a] =>
      \/ down[k].body.from[a] <= d.seen[a]
      \/ \E j \in 1..(k - 1) : Carries(down[j]) /\ down[k].body.from[a] <= down[j].body.to[a]

(* and with it the tab has all that the log has. *)
Reaches(d, down, a, n) ==
  n <= d.seen[a] \/ \E j \in 1..Len(down) : Carries(down[j]) /\ n <= down[j].body.to[a]

Stream(L, p, x) ==
  /\ Announced(p.admitted, x.down) /\ Linked(p.doc, x.down)
  /\ p.admitted => x.joined
  /\ x.joined => Admits(p.admitted, x.down) /\ \A a \in Author : Reaches(p.doc, x.down, a, L.seen[a])

(* The tab holds what it has in flight: an echo tells it nothing new. *)
Holds(d, flight) ==
  \A i \in 1..Len(flight) : \A a \in Author : flight[i].update.to[a] <= d.seen[a]

PageOrder(p) ==
  /\ ~p.refresh
  /\ p.retry => p.current = 0
  /\ p.admitted => p.current # 0 /\ p.connected
  /\ Holds(p.doc, p.inFlight)

SocketsOrder(p, s) ==
  \A k \in Slot : SocketOrder(s[k]) /\ (s[k].listening /\ k # p.current => Fresh(s[k]))

CurrentOrder(L, p, x) ==
  /\ ~p.connected => Fresh(x)
  /\ p.admitted => x.state # "connecting"
  /\ x.state = "open" => Stream(L, p, x)

TabOrder(L, w) ==
  /\ PageOrder(w.p) /\ SocketsOrder(w.p, w.s)
  /\ w.p.current # 0 => CurrentOrder(L, w.p, w.s[w.p.current])

OrderInv == \A c \in Client : TabOrder(log, Tab(c))

(* A frame joins the end of what is on its way to a tab. *)
LEMMA AppendAt ==
  ASSUME NEW S, NEW s \in Seq(S), NEW x \in S
  PROVE  /\ Append(s, x) \in Seq(S) /\ Len(Append(s, x)) = Len(s) + 1 /\ Len(s) \in Nat
         /\ \A i \in 1..Len(s) : Append(s, x)[i] = s[i]
         /\ Append(s, x)[Len(s) + 1] = x
BY AppendProperties, LenProperties

LEMMA StreamAppend ==
  ASSUME NEW down \in Seq(Downs), NEW frame \in Downs, NEW admitted, NEW d
  PROVE  LET t == Append(down, frame) IN
         /\ Announced(admitted, down) /\ (Carries(frame) => Admits(admitted, down)) => Announced(admitted, t)
         /\ Admits(admitted, down) => Admits(admitted, t)
         /\ frame.kind = "admitted" => Admits(admitted, t)
         /\ Linked(d, down) /\ (frame.kind = "update" =>
              \A a \in Author : frame.body.from[a] < frame.body.to[a] =>
                Reaches(d, down, a, frame.body.from[a])) => Linked(d, t)
         /\ \A a \in Author, n \in Nat : Reaches(d, down, a, n) => Reaches(d, t, a, n)
         /\ Carries(frame) => \A a \in Author, n \in Nat : n <= frame.body.to[a] => Reaches(d, t, a, n)
<1> DEFINE t == Append(down, frame)
           n == Len(down)
<1>1. /\ Len(t) = n + 1 /\ n \in Nat /\ \A i \in 1..n : t[i] = down[i]
      /\ t[n + 1] = frame
  BY AppendAt
<1> HIDE DEF t, n
<1>2. \A i \in 1..Len(t) : i \in 1..n \/ (i = n + 1 /\ t[i] = frame)
  BY <1>1
<1>3. \A i \in 1..n : i \in 1..Len(t) /\ \A j \in 1..(i - 1) : j \in 1..n
  BY <1>1
<1>4. n + 1 \in 1..Len(t) /\ (n + 1) - 1 = n
  BY <1>1
<1>5. ASSUME Announced(admitted, down), Carries(frame) => Admits(admitted, down) PROVE Announced(admitted, t)
  <2> SUFFICES ASSUME NEW k \in 1..Len(t), Carries(t[k]), ~admitted
               PROVE  \E j \in 1..(k - 1) : t[j].kind = "admitted"
    BY DEF Announced
  <2>1. CASE k \in 1..n
    BY <1>1, <1>3, <1>5, <2>1 DEF Announced, n
  <2>2. CASE k = n + 1
    <3>1. PICK j \in 1..n : down[j].kind = "admitted"
      BY <1>1, <1>5, <2>2 DEF Admits, n
    <3> QED
      BY <1>1, <1>4, <2>2, <3>1
  <2> QED
    BY <1>2, <2>1, <2>2
<1>6. /\ Admits(admitted, down) => Admits(admitted, t)
      /\ frame.kind = "admitted" => Admits(admitted, t)
  BY <1>1, <1>3, <1>4 DEF Admits, n
<1>7. ASSUME Linked(d, down),
             frame.kind = "update" =>
               \A a \in Author : frame.body.from[a] < frame.body.to[a] =>
                 Reaches(d, down, a, frame.body.from[a])
      PROVE  Linked(d, t)
  <2> SUFFICES ASSUME NEW k \in 1..Len(t), t[k].kind = "update", NEW a \in Author,
                      t[k].body.from[a] < t[k].body.to[a], ~ (t[k].body.from[a] <= d.seen[a])
               PROVE  \E j \in 1..(k - 1) : Carries(t[j]) /\ t[k].body.from[a] <= t[j].body.to[a]
    BY DEF Linked
  <2>1. CASE k \in 1..n
    <3>1. PICK j \in 1..(k - 1) : Carries(down[j]) /\ down[k].body.from[a] <= down[j].body.to[a]
      BY <1>1, <1>7, <2>1 DEF Linked, n
    <3> QED
      BY <1>1, <1>3, <2>1, <3>1
  <2>2. CASE k = n + 1
    <3>1. PICK j \in 1..n : Carries(down[j]) /\ frame.body.from[a] <= down[j].body.to[a]
      BY <1>1, <1>7, <2>2 DEF Reaches, n
    <3> QED
      BY <1>1, <1>4, <2>2, <3>1
  <2> QED
    BY <1>2, <2>1, <2>2
<1>8. \A a \in Author, m \in Nat : Reaches(d, down, a, m) => Reaches(d, t, a, m)
  BY <1>1, <1>3 DEF Reaches, n
<1>9. Carries(frame) => \A a \in Author, m \in Nat : m <= frame.body.to[a] => Reaches(d, t, a, m)
  BY <1>1, <1>4 DEF Reaches
<1> QED
  BY <1>5, <1>6, <1>7, <1>8, <1>9 DEF t

(* The documents a frame finds at the tab and leaves there. *)
Grows(d, e) == \A a \in Author : d.seen[a] <= e.seen[a]

LEMMA StreamGrows ==
  ASSUME NEW L \in Replicas, NEW p \in Providers, NEW q \in Providers, NEW x \in Sockets, NEW y \in Sockets,
         Stream(L, p, x), Grows(p.doc, q.doc), q.admitted = p.admitted,
         y.down = x.down, y.joined = x.joined
  PROVE  Stream(L, q, y)
<1>1. \A a \in Author : p.doc.seen[a] \in Nat /\ q.doc.seen[a] \in Nat /\ p.doc.seen[a] <= q.doc.seen[a] /\ L.seen[a] \in Nat
  BY DEF Providers, Replicas, Vectors, Grows
<1>2. ASSUME NEW k \in 1..Len(x.down), x.down[k].kind = "update"
      PROVE  \A a \in Author : x.down[k].body.from[a] \in Nat
  <2>1. x.down[k] \in Downs
    <3>1. x.down \in Seq(Downs)
      BY DEF Sockets
    <3> QED
      BY <3>1, ElementOfSeq
  <2> QED
    BY <1>2, <2>1 DEF Downs, Updates, Vectors
<1>3. Linked(q.doc, x.down)
  BY <1>1, <1>2 DEF Stream, Linked
<1>4. \A a \in Author : Reaches(p.doc, x.down, a, L.seen[a]) => Reaches(q.doc, x.down, a, L.seen[a])
  BY <1>1 DEF Reaches
<1> QED
  BY <1>3, <1>4 DEF Stream

(* The first frame is taken, and the tab makes of it what it is. *)
LEMMA StreamTail ==
  ASSUME NEW L \in Replicas, NEW p \in Providers, NEW q \in Providers, NEW x \in Sockets, NEW y \in Sockets,
         Stream(L, p, x), x.down # <<>>, Grows(p.doc, q.doc),
         p.admitted => q.admitted, q.admitted => x.joined,
         Head(x.down).kind = "admitted" => q.admitted,
         Carries(Head(x.down)) => \A a \in Author : Head(x.down).body.to[a] <= q.doc.seen[a],
         y.down = Tail(x.down), y.joined = x.joined
  PROVE  Stream(L, q, y)
<1> DEFINE down == x.down
           t == Tail(down)
           h == Head(down)
<1>1. /\ Len(down) \in Nat \ {0} /\ h = down[1] /\ Len(t) = Len(down) - 1
      /\ \A i \in 1..Len(t) : t[i] = down[i + 1]
      /\ \A i \in 1..Len(down) : down[i] \in Downs
  <2>1. down \in Seq(Downs)
    BY DEF Sockets
  <2> QED
    BY <2>1, HeadTailProperties, EmptySeq, ElementOfSeq
<1>2. \A a \in Author : p.doc.seen[a] \in Nat /\ q.doc.seen[a] \in Nat /\ p.doc.seen[a] <= q.doc.seen[a] /\ L.seen[a] \in Nat
  BY DEF Providers, Replicas, Vectors, Grows
<1>3. \A i \in 1..Len(down) : Carries(down[i]) =>
         \A a \in Author : down[i].body.from[a] \in Nat /\ down[i].body.to[a] \in Nat
  BY <1>1 DEF Carries, Downs, Updates, Vectors
<1>a. Carries(h) => \A a \in Author : h.body.to[a] <= q.doc.seen[a]
  OBVIOUS
<1>b. h.kind = "admitted" => q.admitted
  OBVIOUS
<1>c. /\ Announced(p.admitted, down) /\ Linked(p.doc, down)
      /\ x.joined => Admits(p.admitted, down) /\ \A a \in Author : Reaches(p.doc, down, a, L.seen[a])
  BY DEF Stream
<1> HIDE DEF down, t, h
<1>4. \A j \in 1..Len(down) : j = 1 \/ (j - 1 \in 1..Len(t) /\ t[j - 1] = down[j])
  BY <1>1
<1>5. \A k \in 1..Len(t) : /\ k + 1 \in 1..Len(down) /\ (k + 1) - 1 = k
                           /\ \A j \in 1..k : j = 1 \/ (j - 1 \in 1..(k - 1) /\ t[j - 1] = down[j])
  BY <1>1
<1>6. Announced(q.admitted, t)
  <2> SUFFICES ASSUME NEW k \in 1..Len(t), Carries(t[k]), ~q.admitted
               PROVE  \E j \in 1..(k - 1) : t[j].kind = "admitted"
    BY DEF Announced
  <2>1. PICK j \in 1..k : down[j].kind = "admitted"
    BY <1>1, <1>5, <1>c DEF Announced
  <2>2. j # 1
    BY <1>1, <1>b, <2>1
  <2> QED
    BY <1>5, <2>1, <2>2
<1>7. Linked(q.doc, t)
  <2> SUFFICES ASSUME NEW k \in 1..Len(t), t[k].kind = "update", NEW a \in Author,
                      t[k].body.from[a] < t[k].body.to[a], ~ (t[k].body.from[a] <= q.doc.seen[a])
               PROVE  \E j \in 1..(k - 1) : Carries(t[j]) /\ t[k].body.from[a] <= t[j].body.to[a]
    BY DEF Linked
  <2>1. k + 1 \in 1..Len(down) /\ t[k] = down[k + 1] /\ t[k].body.from[a] \in Nat
    BY <1>1, <1>3, <1>5 DEF Carries
  <2>2. ~ (t[k].body.from[a] <= p.doc.seen[a])
    BY <1>2, <2>1
  <2>3. PICK j \in 1..k : Carries(down[j]) /\ t[k].body.from[a] <= down[j].body.to[a]
    BY <1>5, <1>c, <2>1, <2>2 DEF Linked
  <2>4. j # 1
    BY <1>1, <1>2, <1>3, <1>a, <2>1, <2>3
  <2> QED
    BY <1>5, <2>3, <2>4
<1>8. x.joined => Admits(q.admitted, t)
  BY <1>1, <1>4, <1>b, <1>c DEF Admits
<1>9. ASSUME NEW a \in Author, Reaches(p.doc, down, a, L.seen[a]) PROVE Reaches(q.doc, t, a, L.seen[a])
  <2>1. L.seen[a] \in Nat /\ p.doc.seen[a] \in Nat /\ q.doc.seen[a] \in Nat /\ p.doc.seen[a] <= q.doc.seen[a]
    BY <1>2
  <2>2. CASE L.seen[a] <= p.doc.seen[a]
    BY <2>1, <2>2 DEF Reaches
  <2>3. CASE \E j \in 1..Len(down) : Carries(down[j]) /\ L.seen[a] <= down[j].body.to[a]
    <3>1. PICK j \in 1..Len(down) : Carries(down[j]) /\ L.seen[a] <= down[j].body.to[a]
      BY <2>3
    <3>2. CASE j = 1
      <4>1. h.body.to[a] \in Nat /\ h.body.to[a] <= q.doc.seen[a] /\ L.seen[a] <= h.body.to[a]
        BY <1>1, <1>3, <1>a, <3>1, <3>2
      <4> QED
        BY <2>1, <4>1 DEF Reaches
    <3>3. CASE j # 1
      <4>1. j - 1 \in 1..Len(t) /\ t[j - 1] = down[j]
        BY <1>4, <3>3
      <4> QED
        BY <3>1, <4>1 DEF Reaches
    <3> QED
      BY <3>2, <3>3
  <2> QED
    BY <1>9, <2>2, <2>3 DEF Reaches
<1> QED
  BY <1>6, <1>7, <1>8, <1>9, <1>c DEF Stream, t, down

LEMMA ZeroIsNoSlot == 0 \notin Slot
BY DEF Slot

-----------------------------------------------------------------------------
(* One socket of the tab changes, and its page: the others are as they were. *)
LEMMA OneSocketOrder ==
  ASSUME NEW L, NEW M, NEW w \in Tabs, TabOrder(L, w), NEW k \in Slot, NEW x \in Sockets, NEW q \in Providers,
         PageOrder(q), SocketOrder(x), x.listening /\ k # q.current => Fresh(x),
         \A i \in Slot : i # k /\ i = w.p.current /\ w.s[i].listening => i = q.current \/ Fresh(w.s[i]),
         q.current # 0 => CurrentOrder(M, q, IF q.current = k THEN x ELSE w.s[q.current])
  PROVE  TabOrder(M, [p |-> q, s |-> [w.s EXCEPT ![k] = x]])
<1> DEFINE t == [w.s EXCEPT ![k] = x]
           v == [p |-> q, s |-> t]
<1>1. w.s \in [Slot -> Sockets] /\ (q.current # 0 => q.current \in Slot)
  BY SlotParts DEF Providers
<1>2. \A i \in Slot : t[i] = IF i = k THEN x ELSE w.s[i]
  BY <1>1
<1>3. v.p = q /\ v.s = t
  OBVIOUS
<1> HIDE DEF t, v
<1>4. SocketsOrder(q, t)
  BY <1>2 DEF SocketsOrder, TabOrder
<1>5. q.current # 0 => CurrentOrder(M, q, t[q.current])
  BY <1>1, <1>2
<1> QED
  BY <1>3, <1>4, <1>5 DEF TabOrder, v, t

(* The page alone changes. *)
LEMMA PageAlone ==
  ASSUME NEW L \in Replicas, NEW w \in Tabs, TabOrder(L, w), NEW v \in Tabs, v.s = w.s, PageOrder(v.p),
         v.p.current = w.p.current, v.p.connected = w.p.connected, v.p.admitted = w.p.admitted,
         Grows(w.p.doc, v.p.doc)
  PROVE  TabOrder(L, v)
<1>1. ASSUME w.p.current # 0, w.s[w.p.current].state = "open"
      PROVE  Stream(L, v.p, w.s[w.p.current])
  <2>1. Stream(L, w.p, w.s[w.p.current])
    BY <1>1 DEF TabOrder, CurrentOrder
  <2>2. w.p \in Providers /\ v.p \in Providers /\ w.s[w.p.current] \in Sockets
    BY <1>1, SlotParts
  <2> QED
    BY <2>1, <2>2, StreamGrows
<1> QED
  BY <1>1 DEF TabOrder, SocketsOrder, CurrentOrder

(* A page without a socket. *)
LEMMA NoCurrentOrder ==
  ASSUME NEW L, NEW v \in Tabs, v.p.current = 0, ~v.p.refresh, ~v.p.admitted, v.p.inFlight = <<>>,
         \A k \in Slot : SocketOrder(v.s[k]) /\ (v.s[k].listening => Fresh(v.s[k]))
  PROVE  TabOrder(L, v)
<1>1. Holds(v.p.doc, v.p.inFlight)
  BY EmptySeq DEF Holds
<1> QED
  BY <1>1 DEF TabOrder, PageOrder, SocketsOrder

LEMMA SocketSame ==
  ASSUME NEW x, NEW y, SocketOrder(x), y.up = x.up, y.down = x.down, y.joined = x.joined, y.state = x.state
  PROVE  SocketOrder(y)
BY DEF SocketOrder, Fresh

LEMMA SocketClosed ==
  ASSUME NEW x, NEW y, SocketOrder(x), y.up = x.up, y.down = <<>>, y.joined = x.joined, y.state = "closed"
  PROVE  SocketOrder(y)
<1>1. Len(<<>>) = 0
  BY EmptySeq
<1> QED
  BY <1>1 DEF SocketOrder

Closed(x) == [x EXCEPT !.listening = FALSE, !.state = "closed", !.down = <<>>]

(* A socket that goes while the page lets go of it takes what was on its way to the page. *)
LEMMA DetachAndCloseIs ==
  ASSUME NEW L, NEW w, Good(L, w)
  PROVE  /\ Good(L, DetachAndClose(w))
         /\ DetachAndClose(w).p = [w.p EXCEPT !.current = 0, !.admitted = FALSE, !.inFlight = <<>>]
         /\ \A i \in Slot : i # w.p.current => DetachAndClose(w).s[i] = w.s[i]
         /\ \A i \in Slot : i = w.p.current => DetachAndClose(w).s[i] =
              Closed(w.s[i])
<1>1. Good(L, DetachAndClose(w))
  BY DetachAndCloseGood
<1>2. /\ w \in Tabs /\ w.p \in Providers /\ w.s \in [Slot -> Sockets] /\ 0 \notin Slot
      /\ w.p.current # 0 => w.p.current \in Slot
  BY SlotParts DEF Good, Slot
<1>3. CASE w.p.current = 0
  <2>1. DetachAndClose(w) = [w EXCEPT !.p.admitted = FALSE, !.p.inFlight = <<>>]
    BY <1>3 DEF DetachAndClose, Detach
  <2>2. DetachAndClose(w).s = w.s
    BY <2>1
  <2>3. DetachAndClose(w).p = [w.p EXCEPT !.current = 0, !.admitted = FALSE, !.inFlight = <<>>]
    <3> DEFINE none == <<>>
    <3>1. w.p = [w.p EXCEPT !.current = 0]
      BY <1>2, <1>3 DEF Providers
    <3>2. DetachAndClose(w).p = [w.p EXCEPT !.admitted = FALSE, !.inFlight = none]
      <4> HIDE DEF none
      <4>1. DetachAndClose(w) = [w EXCEPT !.p.admitted = FALSE, !.p.inFlight = none]
        BY <2>1 DEF none
      <4>2. w \in Tabs
        BY <1>2
      <4> QED
        BY <4>1, <4>2 DEF Tabs
    <3> HIDE DEF none
    <3>3. [w.p EXCEPT !.current = 0, !.admitted = FALSE, !.inFlight = none] = [[w.p EXCEPT !.current = 0] EXCEPT !.admitted = FALSE, !.inFlight = none]
      OBVIOUS
    <3> QED
      BY <3>1, <3>2, <3>3 DEF none
  <2>4. \A i \in Slot : i # w.p.current
    BY <1>2, <1>3
  <2> QED
    BY <1>1, <2>2, <2>3, <2>4
<1>4. CASE w.p.current # 0
  <2> DEFINE k == w.p.current
             e == [w EXCEPT !.s[k].listening = FALSE, !.p.current = 0, !.p.admitted = FALSE, !.p.inFlight = <<>>]
             x == [w.s[k] EXCEPT !.listening = FALSE]
             q == [w.p EXCEPT !.current = 0, !.admitted = FALSE, !.inFlight = <<>>]
  <2>1. DetachAndClose(w) = [e EXCEPT !.s[k].state = "closed", !.s[k].down = <<>>]
    BY <1>4 DEF DetachAndClose, Detach
  <2>2. k \in Slot
    BY <1>2, <1>4
  <2>3. e.p = q /\ e.s = [w.s EXCEPT ![k] = x] /\ DOMAIN e = {"p", "s"}
    <3>1. w = [p |-> w.p, s |-> w.s]
      BY <1>2, TabIs
    <3>2. DOMAIN w.s = Slot
      BY <1>2
    <3> HIDE DEF k
    <3> DEFINE none == <<>>
    <3> HIDE DEF none
    <3>3. e = [w EXCEPT !.s[k].listening = FALSE, !.p.current = 0, !.p.admitted = FALSE, !.p.inFlight = none]
      BY DEF none
    <3>4. q = [w.p EXCEPT !.current = 0, !.admitted = FALSE, !.inFlight = none]
      BY DEF none
    <3> QED
      BY <2>2, <3>1, <3>2, <3>3, <3>4
  <2>4. x = [w.s[k] EXCEPT !.listening = FALSE] /\ w.s[k] \in Sockets
    BY <1>2, <2>2
  <2>5. DOMAIN w.s = Slot
    BY <1>2
  <2> HIDE DEF k, q, e, x
  <2>6. /\ DetachAndClose(w).p = q
        /\ \A i \in Slot : DetachAndClose(w).s[i] =
             IF i = k THEN [x EXCEPT !.state = "closed", !.down = <<>>] ELSE w.s[i]
    <3>1. e.p = q /\ e.s = [w.s EXCEPT ![k] = x] /\ DOMAIN e = {"p", "s"}
      BY <2>3
    <3>2. /\ DetachAndClose(w).p = e.p
          /\ DetachAndClose(w).s = [e.s EXCEPT ![k].state = "closed", ![k].down = <<>>]
      <4> HIDE DEF e
      <4> QED
        BY <2>1, <3>1
    <3>3. e.s[k] = x /\ DOMAIN e.s = Slot /\ \A i \in Slot : i # k => e.s[i] = w.s[i]
      BY <2>2, <2>5, <3>1
    <3>4. \A i \in Slot : [e.s EXCEPT ![k].state = "closed", ![k].down = <<>>][i] =
             IF i = k THEN [x EXCEPT !.state = "closed", !.down = <<>>] ELSE w.s[i]
      BY <2>2, <3>3
    <3> QED
      BY <3>1, <3>2, <3>4
  <2>7. [x EXCEPT !.state = "closed", !.down = <<>>]
          = [w.s[k] EXCEPT !.listening = FALSE, !.state = "closed", !.down = <<>>]
    BY <2>4 DEF Sockets
  <2>8. DetachAndClose(w).p = [w.p EXCEPT !.current = 0, !.admitted = FALSE, !.inFlight = <<>>]
    BY <2>6 DEF q
  <2>9. \A i \in Slot : i # w.p.current => DetachAndClose(w).s[i] = w.s[i]
    BY <2>6 DEF k
  <2>10. \A i \in Slot : i = w.p.current => DetachAndClose(w).s[i] =
           Closed(w.s[i])
    BY <2>6, <2>7 DEF k, Closed
  <2> QED
    BY <1>1, <2>8, <2>9, <2>10
<1> QED
  BY <1>3, <1>4

(* It may have been told goodbye first. *)
LEMMA LetGoOrder ==
  ASSUME NEW L, NEW w, Good(L, w), ~w.p.refresh,
         \A k \in Slot : k # w.p.current => SocketOrder(w.s[k]) /\ (w.s[k].listening => Fresh(w.s[k])),
         w.p.current # 0 => SocketOrder(Closed(w.s[w.p.current])),
         NEW v \in Tabs, v.p.current = 0, ~v.p.refresh, ~v.p.admitted, v.p.inFlight = <<>>,
         \A i \in Slot : i # w.p.current => v.s[i] = w.s[i],
         \A i \in Slot : i = w.p.current => v.s[i] =
           Closed(w.s[i])
  PROVE  TabOrder(L, v)
<1> SUFFICES ASSUME NEW k \in Slot PROVE SocketOrder(v.s[k]) /\ (v.s[k].listening => Fresh(v.s[k]))
  BY NoCurrentOrder
<1>1. w.s[k] \in Sockets /\ 0 \notin Slot
  <2>1. w.s \in [Slot -> Sockets]
    BY SlotParts DEF Good
  <2> QED
    BY <2>1, ZeroIsNoSlot
<1>2. CASE k = w.p.current
  <2>1. v.s[k] = Closed(w.s[k])
    BY <1>2
  <2>2. Closed(w.s[k]).listening = FALSE
    BY <1>1 DEF Closed, Sockets
  <2>3. SocketOrder(Closed(w.s[k]))
    BY <1>1, <1>2
  <2> QED
    BY <2>1, <2>2, <2>3
<1>3. CASE k # w.p.current
  <2>1. v.s[k] = w.s[k]
    BY <1>3
  <2> QED
    BY <1>3, <2>1
<1> QED
  BY <1>2, <1>3

LEMMA OfflineOrder ==
  ASSUME NEW L, NEW w, Good(L, w), TabOrder(L, w)
  PROVE  TabOrder(L, Offline(w))
<1> DEFINE d == DetachAndClose(w)
           v == [d EXCEPT !.p.connected = FALSE]
           r == [v EXCEPT !.p.retry = TRUE]
<1>1. Offline(w) \in {w, v, r}
  BY DEF Offline, ScheduleReconnect
<1>2. d \in Tabs /\ d.p = [w.p EXCEPT !.current = 0, !.admitted = FALSE, !.inFlight = <<>>] /\ w.p \in Providers
  BY DetachAndCloseIs, SlotParts DEF Good
<1>3. d.p.current = 0 /\ d.p.refresh = w.p.refresh /\ ~d.p.admitted /\ d.p.inFlight = <<>>
  BY <1>2 DEF Providers
<1>s. ~w.p.refresh
  BY DEF TabOrder, PageOrder
<1>t. \A i \in Slot : i # w.p.current => d.s[i] = w.s[i]
  BY DetachAndCloseIs
<1>u. \A i \in Slot : i = w.p.current => d.s[i] =
        Closed(w.s[i])
  BY DetachAndCloseIs
<1> HIDE DEF d
<1>4. /\ v \in Tabs /\ v.s = d.s /\ v.p.current = 0 /\ ~v.p.refresh /\ ~v.p.admitted /\ v.p.inFlight = <<>>
      /\ r \in Tabs /\ r.s = d.s /\ r.p.current = 0 /\ ~r.p.refresh /\ ~r.p.admitted /\ r.p.inFlight = <<>>
  BY <1>2, <1>3, <1>s DEF Tabs, Providers
<1> HIDE DEF v, r
<1>5. \A k \in Slot : SocketOrder(w.s[k]) /\ (k # w.p.current /\ w.s[k].listening => Fresh(w.s[k]))
  BY DEF TabOrder, SocketsOrder
<1>6. w.p.current # 0 =>
        SocketOrder(Closed(w.s[w.p.current]))
  <2> SUFFICES ASSUME w.p.current # 0
               PROVE  SocketOrder(Closed(w.s[w.p.current]))
    OBVIOUS
  <2> DEFINE x == w.s[w.p.current]
             y == Closed(x)
  <2>1. x \in Sockets /\ SocketOrder(x)
    BY <1>5, SlotParts DEF Good
  <2> HIDE DEF x
  <2>2. y.up = x.up /\ y.down = <<>> /\ y.joined = x.joined /\ y.state = "closed"
    BY <2>1 DEF Closed, Sockets
  <2> HIDE DEF y
  <2>3. SocketOrder(y)
    BY <2>1, <2>2, SocketClosed
  <2> QED
    BY <2>3 DEF y, x
<1>7. TabOrder(L, v) /\ TabOrder(L, r)
  <2>1. \A k \in Slot : k # w.p.current => SocketOrder(w.s[k]) /\ (w.s[k].listening => Fresh(w.s[k]))
    BY <1>5
  <2>2. \A i \in Slot : i # w.p.current => v.s[i] = w.s[i] /\ r.s[i] = w.s[i]
    BY <1>4, <1>t
  <2>3. \A i \in Slot : i = w.p.current =>
          /\ v.s[i] = Closed(w.s[i])
          /\ r.s[i] = Closed(w.s[i])
    BY <1>4, <1>u
  <2>4. TabOrder(L, v)
    BY <1>4, <1>6, <1>s, <2>1, <2>2, <2>3, LetGoOrder
  <2>5. TabOrder(L, r)
    BY <1>4, <1>6, <1>s, <2>1, <2>2, <2>3, LetGoOrder
  <2> QED
    BY <2>4, <2>5
<1> QED
  BY <1>1, <1>7

LEMMA AttachedOrder ==
  ASSUME NEW L, NEW w, Good(L, w), TabOrder(L, w), ~w.p.retry, ~w.p.admitted,
         w.p.current # 0 => ~w.p.connected,
         NEW v \in Attached(w)
  PROVE  TabOrder(L, v)
<1>1. CASE v = w
  BY <1>1
<1>2. CASE v # w
  <2>1. PICK k \in Slot :
          /\ w.s[k] = NoSocket
          /\ v = [w EXCEPT !.p.current = k, !.s[k].state = "connecting", !.s[k].listening = TRUE]
    BY <1>2 DEF Attached, FreeSlots
  <2> DEFINE x == [w.s[k] EXCEPT !.state = "connecting", !.listening = TRUE]
             q == [w.p EXCEPT !.current = k]
  <2>2. w \in Tabs /\ w.p \in Providers /\ w.s \in [Slot -> Sockets] /\ w.s[k] \in Sockets /\ 0 \notin Slot
    <3>1. w \in Tabs /\ w.p \in Providers /\ w.s \in [Slot -> Sockets]
      BY SlotParts DEF Good
    <3> QED
      BY <3>1, ZeroIsNoSlot
  <2>3. v = [p |-> q, s |-> [w.s EXCEPT ![k] = x]]
    BY <2>1, <2>2 DEF Tabs
  <2>4. x \in Sockets /\ Fresh(x) /\ x.state = "connecting"
    <3>1. x \in Sockets /\ x.state = "connecting" /\ x.up = w.s[k].up /\ x.down = w.s[k].down
            /\ x.joined = w.s[k].joined
      BY <2>2 DEF Sockets
    <3>2. w.s[k].up = <<>> /\ w.s[k].down = <<>> /\ w.s[k].joined = FALSE
      BY <2>1 DEF NoSocket
    <3> QED
      BY <3>1, <3>2 DEF Fresh
  <2>5. /\ q \in Providers /\ q.current = k /\ ~q.retry /\ ~q.admitted /\ q.refresh = w.p.refresh
        /\ q.doc = w.p.doc /\ q.inFlight = w.p.inFlight
    BY <2>2 DEF Providers
  <2> HIDE DEF x, q
  <2>6. PageOrder(q)
    BY <2>5 DEF TabOrder, PageOrder
  <2>7. SocketOrder(x)
    <3>1. Len(<<>>) = 0
      BY EmptySeq
    <3> QED
      BY <2>4, <3>1 DEF SocketOrder, Fresh
  <2>8. CurrentOrder(L, q, x)
    BY <2>4, <2>5 DEF CurrentOrder
  <2>9. \A i \in Slot : i = w.p.current => Fresh(w.s[i])
    BY <2>2 DEF TabOrder, CurrentOrder
  <2> QED
    BY <2>2, <2>3, <2>4, <2>5, <2>6, <2>7, <2>8, <2>9, OneSocketOrder
<1> QED
  BY <1>1, <1>2

-----------------------------------------------------------------------------
(* A frame to the server. *)
LEMMA UpOrder ==
  ASSUME NEW x \in Sockets, NEW y, SocketOrder(x), x.state = "open", NEW frame \in Ups,
         frame.kind # "unsubscribe", frame.kind = "update" => x.joined,
         y.up = Append(x.up, frame), y.down = x.down, y.joined = x.joined, y.state = x.state
  PROVE  SocketOrder(y)
<1> DEFINE t == Append(x.up, frame)
           n == Len(x.up)
<1>1. x.up \in Seq(Ups)
  BY DEF Sockets
<1>2. /\ Len(t) = n + 1 /\ n \in Nat /\ \A i \in 1..n : t[i] = x.up[i]
      /\ t[n + 1] = frame
  BY <1>1, AppendAt
<1> HIDE DEF t
<1>3. ASSUME NEW k \in 1..Len(t)
      PROVE  t[k].kind # "unsubscribe"
  <2>1. k \in 1..n \/ k = n + 1
    BY <1>2
  <2>2. CASE k \in 1..n
    BY <1>2, <2>2 DEF SocketOrder
  <2>3. CASE k = n + 1
    BY <1>2, <2>3
  <2> QED
    BY <2>1, <2>2, <2>3
<1>4. \A k \in 1..Len(t) : \A j \in 1..(k - 1) : j \in 1..Len(t)
  BY <1>2
<1>5. \A k \in 1..Len(t) : t[k].kind = "update" => x.joined
  <2> SUFFICES ASSUME NEW k \in 1..Len(t), t[k].kind = "update" PROVE x.joined
    OBVIOUS
  <2>1. k \in 1..n \/ k = n + 1
    BY <1>2
  <2> QED
    BY <1>2, <2>1 DEF SocketOrder
<1>6. y.up = t /\ y.joined = x.joined /\ y.state = "open"
  BY DEF t
<1> QED
  BY <1>3, <1>4, <1>5, <1>6 DEF SocketOrder

(* A page subscribes when it is connected and sends an update when it is admitted. *)
LEMMA SendOrder ==
  ASSUME NEW L \in Replicas, NEW w \in Tabs, TabOrder(L, w), w.p.connected, NEW frame \in Ups,
         frame.kind # "unsubscribe", frame.kind = "update" => w.p.admitted
  PROVE  TabOrder(L, Send(w, frame))
<1> DEFINE k == w.p.current
           v == [w EXCEPT !.s[w.p.current].up = Append(@, frame)]
           x == [w.s[k] EXCEPT !.up = Append(w.s[k].up, frame)]
<1>1. CASE ~ (IsOpen(w) /\ w.s[k].state = "open")
  BY <1>1 DEF Send
<1>2. CASE IsOpen(w) /\ w.s[k].state = "open"
  <2>1. /\ w \in Tabs /\ w.p \in Providers /\ w.s \in [Slot -> Sockets] /\ k \in Slot /\ w.p.current # 0
        /\ w.s[k] \in Sockets
    BY <1>2, SlotParts DEF IsOpen
  <2>2. Append(w.s[k].up, frame) \in Seq(Ups)
    <3>1. w.s[k].up \in Seq(Ups)
      BY <2>1 DEF Sockets
    <3> QED
      BY <3>1, AppendAt
  <2>3. x \in Sockets /\ x.up = Append(w.s[k].up, frame) /\ x.down = w.s[k].down
        /\ x.joined = w.s[k].joined /\ x.state = w.s[k].state
    BY <2>1, <2>2 DEF Sockets
  <2>4. Send(w, frame) = v
    BY <1>2 DEF Send
  <2>5. v = [p |-> w.p, s |-> [w.s EXCEPT ![k] = x]]
    BY <2>1 DEF Tabs
  <2> HIDE DEF v, x
  <2>6. CurrentOrder(L, w.p, w.s[k]) /\ PageOrder(w.p) /\ SocketOrder(w.s[k])
    BY <2>1 DEF TabOrder, SocketsOrder
  <2>7. w.p.connected /\ Stream(L, w.p, w.s[k]) /\ (w.p.admitted => w.s[k].joined)
    BY <1>2, <2>6 DEF CurrentOrder, Stream
  <2>8. SocketOrder(x)
    BY <1>2, <2>1, <2>3, <2>6, <2>7, UpOrder
  <2>9. Stream(L, w.p, x)
    BY <2>3, <2>7 DEF Stream
  <2>10. CurrentOrder(L, w.p, x)
    BY <1>2, <2>3, <2>7, <2>9 DEF CurrentOrder
  <2> QED
    BY <2>1, <2>3, <2>4, <2>5, <2>6, <2>8, <2>10, OneSocketOrder
<1> QED
  BY <1>1, <1>2

LEMMA SendUpdateFrame ==
  ASSUME NEW L \in Replicas, NEW w \in Tabs, TabOrder(L, w), w.p.admitted, NEW u \in Updates
  PROVE  TabOrder(L, Send(w, Frame("update", u)))
<1>1. Frame("update", u) \in Ups /\ Frame("update", u).kind = "update"
  BY DEF Frame, Ups
<1>2. w.p.connected
  BY DEF TabOrder, PageOrder
<1> QED
  BY <1>1, <1>2, SendOrder

LEMMA MergeGrows ==
  ASSUME NEW d \in Replicas, NEW u \in Updates
  PROVE  /\ Grows(d, Merge(d, u)) /\ \A a \in Author : u.to[a] <= Merge(d, u).seen[a]
BY MergeParts DEF Grows, Replicas, Updates, Vectors

LEMMA GrowsTrans ==
  ASSUME NEW d \in Replicas, NEW e \in Replicas, NEW f \in Replicas, Grows(d, e), Grows(e, f)
  PROVE  Grows(d, f)
BY DEF Grows, Replicas, Vectors

LEMMA HoldsGrows ==
  ASSUME NEW d \in Replicas, NEW e \in Replicas, NEW flight \in Seq(Flights), Holds(d, flight), Grows(d, e)
  PROVE  Holds(e, flight)
<1> SUFFICES ASSUME NEW i \in 1..Len(flight), NEW a \in Author PROVE flight[i].update.to[a] <= e.seen[a]
  BY DEF Holds
<1>1. flight[i] \in Flights
  BY ElementOfSeq
<1>2. flight[i].update.to[a] \in Nat /\ d.seen[a] \in Nat /\ e.seen[a] \in Nat
  BY <1>1 DEF Flights, Updates, Replicas, Vectors
<1>3. flight[i].update.to[a] <= d.seen[a] /\ d.seen[a] <= e.seen[a]
  BY DEF Holds, Grows
<1> QED
  BY <1>2, <1>3

LEMMA HoldsAppend ==
  ASSUME NEW d, NEW flight \in Seq(Flights), NEW x \in Flights, Holds(d, flight),
         \A a \in Author : x.update.to[a] <= d.seen[a]
  PROVE  Holds(d, Append(flight, x))
<1> DEFINE t == Append(flight, x)
           n == Len(flight)
<1>1. Len(t) = n + 1 /\ n \in Nat /\ (\A i \in 1..n : t[i] = flight[i]) /\ t[n + 1] = x
  BY AppendAt
<1> HIDE DEF t
<1>2. \A i \in 1..Len(t) : i \in 1..n \/ i = n + 1
  BY <1>1
<1> QED
  BY <1>1, <1>2 DEF Holds, t

(* sendUpdate: the document has what it sends. *)
LEMMA SendUpdateOrder ==
  ASSUME NEW L \in Replicas, NEW w \in Tabs, Pipes(L, w.s), TabOrder(L, w), NEW u \in Updates
  PROVE  TabOrder(L, SendUpdate(w, u)) /\ SendUpdate(w, u).p.admitted = w.p.admitted
         /\ Grows(w.p.doc, SendUpdate(w, u).p.doc)
<1> DEFINE x == [update |-> u, count |-> 1]
           v == [w EXCEPT !.p.doc = Merge(@, u), !.p.pending = @ + 1]
           t == [v EXCEPT !.p.inFlight = Append(@, x)]
           frame == Frame("update", u)
<1>1. x \in Flights /\ frame \in Ups /\ x.update = u
  BY DEF Flights, Frame, Ups
<1>s. /\ w \in Tabs /\ w.p.doc \in Replicas /\ w.p.pending \in Nat /\ w.p.inFlight \in Seq(Flights)
  BY SlotParts
<1>m. Merge(w.p.doc, u) \in Replicas /\ w.p.pending + 1 \in Nat
  BY <1>s, MergeParts
<1>2. /\ v \in Tabs /\ v.s = w.s /\ v.p.doc = Merge(w.p.doc, u) /\ v.p.inFlight = w.p.inFlight
      /\ v.p.current = w.p.current /\ v.p.admitted = w.p.admitted /\ v.p.connected = w.p.connected
      /\ v.p.refresh = w.p.refresh /\ v.p.retry = w.p.retry
  BY <1>m, <1>s DEF Tabs, Providers
<1>3. SendUpdate(w, u) \in {v, Send(t, frame)} /\ (~w.p.admitted => SendUpdate(w, u) = v)
  BY <1>2 DEF SendUpdate
<1> HIDE DEF v, x, frame
<1>4. /\ t \in Tabs /\ t.s = v.s /\ t.p.doc = v.p.doc /\ t.p.inFlight = Append(v.p.inFlight, x)
      /\ t.p.current = v.p.current /\ t.p.admitted = v.p.admitted /\ t.p.connected = v.p.connected
      /\ t.p.refresh = v.p.refresh /\ t.p.retry = v.p.retry
  <2>1. v.p \in Providers /\ Append(v.p.inFlight, x) \in Seq(Flights)
    BY <1>1, <1>2, SlotParts, AppendProperties
  <2> QED
    BY <1>2, <2>1 DEF Tabs, Providers
<1> HIDE DEF t
<1>5. Grows(w.p.doc, Merge(w.p.doc, u)) /\ \A a \in Author : u.to[a] <= Merge(w.p.doc, u).seen[a]
  BY <1>s, MergeGrows
<1>6. PageOrder(w.p)
  BY DEF TabOrder
<1>7. PageOrder(v.p)
  <2>1. Holds(v.p.doc, v.p.inFlight)
    BY <1>2, <1>5, <1>6, <1>m, <1>s, HoldsGrows DEF PageOrder
  <2> QED
    BY <1>2, <1>6, <2>1 DEF PageOrder
<1>8. PageOrder(t.p)
  <2>1. Holds(t.p.doc, t.p.inFlight)
    BY <1>1, <1>2, <1>4, <1>5, <1>7, <1>s, HoldsAppend DEF PageOrder
  <2> QED
    BY <1>4, <1>7, <2>1 DEF PageOrder
<1>9. TabOrder(L, v)
  BY <1>2, <1>5, <1>7, <1>s, PageAlone
<1>10. TabOrder(L, t)
  BY <1>2, <1>4, <1>5, <1>8, <1>s, PageAlone
<1>11. ASSUME w.p.admitted PROVE TabOrder(L, Send(t, frame))
  BY <1>10, <1>11, <1>2, <1>4, <1>s, SendUpdateFrame DEF frame
<1>12. Send(t, frame).p = t.p
  BY <1>1, <1>2, <1>4, <1>s, SendPipes
<1> QED
  BY <1>11, <1>12, <1>2, <1>3, <1>4, <1>5, <1>9

LEMMA FlushOrder ==
  ASSUME NEW L \in Replicas, NEW w \in Tabs, TabOrder(L, w), w.p.admitted, NEW m \in Updates,
         \A a \in Author : m.to[a] <= w.p.doc.seen[a], NEW before \in Nat, before <= w.p.pending
  PROVE  TabOrder(L, Flush(w, m, before))
<1> DEFINE count == IF before > 1 THEN before ELSE 1
           x == [update |-> m, count |-> count]
           frame == Frame("update", m)
           v == [w EXCEPT !.p.pending = @ - before + count, !.p.inFlight = Append(@, x),
                          !.p.synced = TRUE]
           z == [w EXCEPT !.p.pending = @ - before, !.p.synced = TRUE]
<1>1. /\ count \in Nat /\ x \in Flights /\ x.update = m
      /\ w.p \in Providers /\ w.p.pending \in Nat /\ w.p.inFlight \in Seq(Flights)
  BY SlotParts DEF Flights
<1>2. w.p.pending - before \in Nat /\ w.p.pending - before + count \in Nat
  BY <1>1
<1>3. Flush(w, m, before) = IF HasContent(m) THEN Send(v, frame) ELSE z
  BY DEF Flush
<1>4. /\ z \in Tabs /\ z.s = w.s /\ z.p.doc = w.p.doc /\ z.p.inFlight = w.p.inFlight
      /\ z.p.current = w.p.current /\ z.p.admitted = w.p.admitted /\ z.p.connected = w.p.connected
      /\ z.p.refresh = w.p.refresh /\ z.p.retry = w.p.retry
  BY <1>1, <1>2 DEF Tabs, Providers
<1> HIDE DEF count, x, frame, z
<1>5. Append(w.p.inFlight, x) \in Seq(Flights)
  BY <1>1, AppendProperties
<1>6. /\ v \in Tabs /\ v.s = w.s /\ v.p.doc = w.p.doc /\ v.p.inFlight = Append(w.p.inFlight, x)
      /\ v.p.current = w.p.current /\ v.p.admitted = w.p.admitted /\ v.p.connected = w.p.connected
      /\ v.p.refresh = w.p.refresh /\ v.p.retry = w.p.retry
  BY <1>1, <1>2, <1>5 DEF Tabs, Providers
<1> HIDE DEF v
<1>7. PageOrder(w.p) /\ Grows(w.p.doc, w.p.doc)
  BY <1>1 DEF TabOrder, Grows, Providers, Replicas, Vectors
<1>8. PageOrder(z.p)
  BY <1>4, <1>7 DEF PageOrder
<1>9. PageOrder(v.p)
  <2>1. Holds(w.p.doc, Append(w.p.inFlight, x))
    BY <1>1, <1>7, HoldsAppend DEF PageOrder
  <2> QED
    BY <1>6, <1>7, <2>1 DEF PageOrder
<1>10. TabOrder(L, z)
  BY <1>4, <1>7, <1>8, PageAlone
<1>11. TabOrder(L, v)
  BY <1>6, <1>7, <1>9, PageAlone
<1>12. TabOrder(L, Send(v, frame))
  BY <1>11, <1>6, SendUpdateFrame DEF frame
<1> QED
  BY <1>3, <1>10, <1>12

-----------------------------------------------------------------------------
(* The page takes the first frame of its socket. *)
FirstIs(down, h) == down # <<>> /\ h = Head(down)

LEMMA TakenOrder ==
  ASSUME NEW L \in Replicas, NEW w \in Tabs, TabOrder(L, w), w.p.current # 0,
         w.s[w.p.current].state = "open", NEW h, FirstIs(w.s[w.p.current].down, h),
         NEW v \in Tabs, v.s = FirstTaken(w.s, w.p.current), PageOrder(v.p), v.p.current = w.p.current,
         v.p.connected = w.p.connected, Grows(w.p.doc, v.p.doc), w.p.admitted => v.p.admitted,
         h.kind = "admitted" => v.p.admitted,
         Carries(h) => \A a \in Author : h.body.to[a] <= v.p.doc.seen[a]
  PROVE  TabOrder(L, v)
<1> DEFINE k == w.p.current
           x == w.s[k]
           y == [x EXCEPT !.down = Tail(x.down)]
<1>1. /\ w.p \in Providers /\ v.p \in Providers /\ w.s \in [Slot -> Sockets] /\ k \in Slot /\ x \in Sockets
  BY SlotParts
<1>2. x.down \in Seq(Downs) /\ x.down # <<>> /\ h = Head(x.down)
  BY <1>1 DEF Sockets, FirstIs
<1>3. /\ Tail(x.down) \in Seq(Downs) /\ Len(x.down) \in Nat \ {0} /\ Len(Tail(x.down)) = Len(x.down) - 1
      /\ \A i \in 1..Len(Tail(x.down)) : Tail(x.down)[i] = x.down[i + 1]
  BY <1>2, HeadTailProperties, EmptySeq
<1>4. /\ y \in Sockets /\ y.down = Tail(x.down) /\ y.up = x.up /\ y.joined = x.joined /\ y.state = x.state
      /\ y.listening = x.listening
  BY <1>1, <1>3 DEF Sockets
<1>5. v = [p |-> v.p, s |-> [w.s EXCEPT ![k] = y]]
  BY TabIs DEF FirstTaken
<1>6. /\ SocketOrder(x) /\ CurrentOrder(L, w.p, x) /\ x.state = "open" /\ x.joined /\ Stream(L, w.p, x)
      /\ w.p.connected
  <2>1. SocketOrder(x) /\ CurrentOrder(L, w.p, x) /\ x.state = "open"
    BY <1>1 DEF TabOrder, SocketsOrder
  <2> QED
    BY <1>2, <2>1 DEF SocketOrder, CurrentOrder, Fresh
<1> HIDE DEF y
<1>7. SocketOrder(y)
  <2> HIDE DEF x
  <2>1. \A i \in 1..Len(y.down) : i + 1 \in 1..Len(x.down) /\ y.down[i] = x.down[i + 1]
    <3> DEFINE down == x.down
               rest == Tail(down)
    <3>1. y.down = rest
      BY <1>4
    <3>2. Len(down) \in Nat \ {0} /\ Len(rest) = Len(down) - 1 /\ \A i \in 1..Len(rest) : rest[i] = down[i + 1]
      BY <1>3
    <3> HIDE DEF rest
    <3> QED
      BY <3>1, <3>2
  <2> QED
    BY <1>4, <1>6, <2>1 DEF SocketOrder
<1>8. Stream(L, v.p, y)
  <2>1. Head(x.down).kind = "admitted" => v.p.admitted
    BY <1>2
  <2>2. Carries(Head(x.down)) => \A a \in Author : Head(x.down).body.to[a] <= v.p.doc.seen[a]
    BY <1>2
  <2> HIDE DEF x
  <2> QED
    BY <1>1, <1>2, <1>4, <1>6, <2>1, <2>2, StreamTail
<1>9. CurrentOrder(L, v.p, y)
  BY <1>4, <1>6, <1>8 DEF CurrentOrder
<1> HIDE DEF k, x
<1>10. TabOrder(L, [p |-> v.p, s |-> [w.s EXCEPT ![k] = y]])
  BY <1>1, <1>4, <1>7, <1>9, OneSocketOrder DEF k
<1> QED
  BY <1>5, <1>10

(* An update that is an echo, or that fits, is in the tab's document after it. *)
LEMMA OnUpdateKeeps ==
  ASSUME NEW L \in Replicas, NEW t, Good(L, t), NEW u \in Updates, Inside(L, u),
         Holds(t.p.doc, t.p.inFlight), Fits(t.p.doc, u)
  PROVE  /\ OnUpdate(t, u) \in Tabs /\ OnUpdate(t, u).s = t.s
         /\ LET q == OnUpdate(t, u).p IN
            /\ q.current = t.p.current /\ q.connected = t.p.connected /\ q.admitted = t.p.admitted
            /\ q.refresh = t.p.refresh /\ q.retry = t.p.retry
            /\ Grows(t.p.doc, q.doc) /\ Holds(q.doc, q.inFlight)
            /\ \A a \in Author : u.to[a] <= q.doc.seen[a]
<1> DEFINE flight == t.p.inFlight
           echoes == {i \in DOMAIN flight : flight[i].update = u}
           d == t.p.doc
           v == OnUpdate(t, u)
<1>1. /\ t \in Tabs /\ t.p \in Providers /\ flight \in Seq(Flights) /\ t.p.pending \in Nat
      /\ d \in Replicas
  BY SlotParts DEF Good
<1>2. DOMAIN flight = 1..Len(flight) /\ Len(flight) \in Nat
  BY <1>1, LenProperties
<1>3. v \in Tabs
  BY OnUpdateGood DEF Good
<1>5. Holds(d, flight)
  OBVIOUS
<1>6. CASE echoes # {}
  <2> DEFINE i == CHOOSE j \in echoes : \A k \in echoes : j <= k
             left == t.p.pending - flight[i].count
             rest == Without(flight, i)
             count == IF left > 0 THEN left ELSE 0
             z == [t EXCEPT !.p.pending = count, !.p.inFlight = rest]
  <2>1. v = z
    BY <1>6 DEF OnUpdate, Without
  <2>2. i \in 1..Len(flight) /\ flight[i].update = u
    <3>1. echoes \subseteq Nat
      BY <1>2
    <3>2. \E j \in echoes : \A k \in echoes : j <= k
      <4> HIDE DEF echoes
      <4> QED
        BY <1>6, <3>1, Least
    <3>3. i \in echoes
      BY <3>2
    <3> HIDE DEF i
    <3> QED
      BY <1>2, <3>3
  <2> HIDE DEF i
  <2>3. /\ rest \in Seq(Flights) /\ Len(rest) = Len(flight) - 1
        /\ \A j \in 1..(Len(flight) - 1) : rest[j] = IF j < i THEN flight[j] ELSE flight[j + 1]
    BY <1>1, <2>2, WithoutParts
  <2> HIDE DEF rest, count
  <2>4. /\ z.s = t.s /\ z.p.doc = d /\ z.p.inFlight = rest /\ z.p.current = t.p.current
        /\ z.p.connected = t.p.connected /\ z.p.admitted = t.p.admitted /\ z.p.refresh = t.p.refresh
        /\ z.p.retry = t.p.retry
    <3>1. z.p = [t.p EXCEPT !.pending = count, !.inFlight = rest] /\ z.s = t.s
      BY <1>1 DEF Tabs
    <3> HIDE DEF z
    <3> QED
      BY <1>1, <3>1 DEF Providers
  <2> HIDE DEF z, v
  <2>5. Holds(d, rest)
    <3> SUFFICES ASSUME NEW j \in 1..Len(rest), NEW a \in Author PROVE rest[j].update.to[a] <= d.seen[a]
      BY DEF Holds
    <3>1. j \in 1..Len(flight) /\ j + 1 \in 1..Len(flight) /\ j \in 1..(Len(flight) - 1)
      BY <1>2, <2>3
    <3> QED
      BY <1>5, <2>3, <3>1 DEF Holds
  <2>6. \A a \in Author : u.to[a] <= d.seen[a]
    BY <1>5, <2>2 DEF Holds
  <2>7. Grows(d, d)
    BY <1>1 DEF Grows, Replicas, Vectors
  <2> QED
    BY <1>3, <2>1, <2>4, <2>5, <2>6, <2>7 DEF v
<1>7. CASE echoes = {}
  <2> DEFINE z == [t EXCEPT !.p.doc = Merge(@, u)]
  <2>2. v = z
    BY <1>7 DEF OnUpdate
  <2>3. Merge(d, u) \in Replicas
    BY <1>1, MergeParts
  <2>4. /\ z.s = t.s /\ z.p.doc = Merge(d, u) /\ z.p.inFlight = flight /\ z.p.current = t.p.current
        /\ z.p.connected = t.p.connected /\ z.p.admitted = t.p.admitted /\ z.p.refresh = t.p.refresh
        /\ z.p.retry = t.p.retry
    BY <1>1, <2>3 DEF Tabs, Providers
  <2> HIDE DEF z, v
  <2>5. Grows(d, Merge(d, u)) /\ \A a \in Author : u.to[a] <= Merge(d, u).seen[a]
    BY <1>1, MergeGrows
  <2>6. Holds(Merge(d, u), flight)
    BY <1>1, <1>5, <2>3, <2>5, HoldsGrows
  <2> QED
    BY <1>3, <2>2, <2>4, <2>5, <2>6 DEF v
<1> QED
  BY <1>6, <1>7

(* At the head of an admitted page's socket it is one or the other. *)
LEMMA OnUpdateOrder ==
  ASSUME NEW L \in Replicas, NEW w \in Tabs, TabOrder(L, w), w.p.current # 0,
         w.s[w.p.current].state = "open", NEW h \in Downs, FirstIs(w.s[w.p.current].down, h),
         h.kind = "update", Inside(L, h.body), w.p.admitted,
         NEW t, Good(L, t), t.s = FirstTaken(w.s, w.p.current), SamePage(w.p, t.p)
  PROVE  TabOrder(L, OnUpdate(t, h.body))
<1> DEFINE u == h.body
           v == OnUpdate(t, u)
           down == w.s[w.p.current].down
<1>1. u \in Updates /\ w.p \in Providers /\ t \in Tabs
  BY SlotParts DEF Downs, Good
<1>2. PageOrder(w.p) /\ Linked(w.p.doc, down)
  BY DEF TabOrder, CurrentOrder, Stream
<1>3. down \in Seq(Downs) /\ down # <<>> /\ h = Head(down)
  <2>1. w.s[w.p.current] \in Sockets
    BY SlotParts
  <2> QED
    BY <2>1 DEF Sockets, FirstIs
<1> HIDE DEF down
<1>4. Len(down) \in Nat \ {0} /\ h = down[1] /\ 1 \in 1..Len(down)
  BY <1>3, HeadTailProperties, EmptySeq
<1>5. Fits(w.p.doc, u)
  <2> SUFFICES ASSUME NEW a \in Author, u.from[a] < u.to[a] PROVE u.from[a] <= w.p.doc.seen[a]
    BY DEF Fits
  <2>1. \/ down[1].body.from[a] <= w.p.doc.seen[a]
        \/ \E j \in 1..(1 - 1) : Carries(down[j]) /\ down[1].body.from[a] <= down[j].body.to[a]
    BY <1>2, <1>4 DEF Linked
  <2> QED
    BY <1>4, <2>1
<1> HIDE DEF u
<1>6. Holds(t.p.doc, t.p.inFlight) /\ Fits(t.p.doc, u)
  BY <1>2, <1>5 DEF PageOrder, SamePage
<1>7. /\ v \in Tabs /\ v.s = t.s
      /\ v.p.current = t.p.current /\ v.p.connected = t.p.connected /\ v.p.admitted = t.p.admitted
      /\ v.p.refresh = t.p.refresh /\ v.p.retry = t.p.retry
      /\ Grows(t.p.doc, v.p.doc) /\ Holds(v.p.doc, v.p.inFlight)
      /\ \A a \in Author : u.to[a] <= v.p.doc.seen[a]
  BY <1>1, <1>6, OnUpdateKeeps DEF u
<1> HIDE DEF v
<1>8. PageOrder(v.p)
  BY <1>2, <1>7 DEF PageOrder, SamePage
<1>9. TabOrder(L, v)
  <2>1. /\ v.s = FirstTaken(w.s, w.p.current) /\ v.p.current = w.p.current
        /\ v.p.connected = w.p.connected /\ Grows(w.p.doc, v.p.doc) /\ v.p.admitted
    BY <1>7 DEF SamePage
  <2>2. \A a \in Author : h.body.to[a] <= v.p.doc.seen[a]
    BY <1>7 DEF u
  <2> QED
    BY <1>7, <1>8, <2>1, <2>2, TakenOrder
<1> QED
  BY <1>9 DEF u, v

(* The server's whole state: what was in flight goes, the difference is sent again. *)
LEMMA OnSyncOrder ==
  ASSUME NEW L \in Replicas, NEW w \in Tabs, TabOrder(L, w), w.p.current # 0,
         w.s[w.p.current].state = "open", NEW h \in Downs, FirstIs(w.s[w.p.current].down, h),
         h.kind = "sync", w.p.admitted,
         NEW t, Good(L, t), t.s = FirstTaken(w.s, w.p.current), SamePage(w.p, t.p),
         NEW c \in Client, NEW normalizes \in BOOLEAN
  PROVE  TabOrder(L, OnSync(c, t, h.body, normalizes))
<1> DEFINE u == h.body
           none == <<>>
           d == t.p.doc
           n == t.p.pending
           missing == Missing(d, u.to)
           theirs == [seen |-> u.to, gone |-> u.gone]
           mine == HasContent(missing) /\ ~Contains(d, theirs)
           merged == [t EXCEPT !.p.inFlight = <<>>, !.p.doc = Merge(@, u), !.p.mine = mine]
           edit == NextEdit(c, merged.p.doc)
           edited == IF normalizes THEN SendUpdate(merged, edit) ELSE merged
           D == Merge(d, u)
<1>0. OnSync(c, t, u, normalizes) = Flush(edited, missing, n)
  BY DEF OnSync
<1>1. /\ t \in Tabs /\ Pipes(L, t.s) /\ d \in Replicas /\ n \in Nat /\ none \in Seq(Flights)
      /\ u \in Updates /\ u.to \in Vectors /\ t.p \in Providers
  BY SlotParts, EmptySeq DEF Good, Updates, Downs
<1>2. D \in Replicas /\ Grows(d, D) /\ \A a \in Author : u.to[a] <= D.seen[a]
  BY <1>1, MergeParts, MergeGrows
<1>3. missing \in Updates /\ missing.to = d.seen
  BY <1>1, MissingParts
<1>4. /\ merged \in Tabs /\ merged.s = t.s /\ merged.p.doc = D
      /\ merged.p.pending = n /\ merged.p.inFlight = none
      /\ merged.p.current = t.p.current /\ merged.p.connected = t.p.connected
      /\ merged.p.admitted = t.p.admitted /\ merged.p.refresh = t.p.refresh /\ merged.p.retry = t.p.retry
  <2>1. mine \in BOOLEAN
    OBVIOUS
  <2> HIDE DEF D, mine
  <2>2. merged = [t EXCEPT !.p.inFlight = none, !.p.doc = D, !.p.mine = mine]
    BY DEF D
  <2> DEFINE q == [t.p EXCEPT !.inFlight = none, !.doc = D, !.mine = mine]
  <2>3. merged = [p |-> q, s |-> t.s]
    <3> HIDE DEF merged
    <3> QED
      BY <1>1, <2>2 DEF Tabs, none
  <2>4. /\ q \in Providers /\ q.doc = D /\ q.pending = n /\ q.inFlight = none
        /\ q.current = t.p.current /\ q.connected = t.p.connected
        /\ q.admitted = t.p.admitted /\ q.refresh = t.p.refresh /\ q.retry = t.p.retry
    BY <1>1, <1>2, <2>1 DEF Providers
  <2> HIDE DEF q, merged
  <2>5. t.s \in [Slot -> Sockets]
    BY <1>1, SlotParts
  <2> QED
    BY <2>3, <2>4, <2>5 DEF Tabs
<1> HIDE DEF merged
<1>5. PageOrder(w.p)
  BY DEF TabOrder
<1>6. PageOrder(merged.p)
  <2>1. Holds(D, none)
    BY EmptySeq DEF Holds
  <2> QED
    BY <1>4, <1>5, <2>1 DEF PageOrder, SamePage
<1>7. TabOrder(L, merged)
  <2> HIDE DEF D, u
  <2>1. /\ merged.s = FirstTaken(w.s, w.p.current) /\ merged.p.current = w.p.current
        /\ merged.p.connected = w.p.connected /\ Grows(w.p.doc, merged.p.doc) /\ merged.p.admitted
    BY <1>2, <1>4 DEF SamePage
  <2>2. \A a \in Author : h.body.to[a] <= merged.p.doc.seen[a]
    BY <1>2, <1>4 DEF u
  <2> QED
    BY <1>4, <1>6, <2>1, <2>2, TakenOrder
<1>a. merged.p.admitted
  BY <1>4 DEF SamePage
<1>8. edit \in Updates
  BY <1>2, <1>4, NextEditTyped
<1> HIDE DEF edit, none, missing, D
<1>9. /\ edited \in Tabs /\ TabOrder(L, edited) /\ edited.p.admitted /\ n <= edited.p.pending
      /\ edited.p.doc \in Replicas /\ Grows(D, edited.p.doc)
  <2>1. CASE normalizes
    <3> DEFINE e == SendUpdate(merged, edit)
    <3>1. Pipes(L, merged.s)
      BY <1>1, <1>4
    <3>2. e \in Tabs /\ e.p.pending = merged.p.pending + 1
      BY <1>4, <1>8, <3>1, SendUpdateIs
    <3>3. TabOrder(L, e) /\ e.p.admitted = merged.p.admitted /\ Grows(merged.p.doc, e.p.doc)
      BY <1>4, <1>7, <1>8, <3>1, SendUpdateOrder
    <3>4. edited = e
      BY <2>1
    <3> HIDE DEF e, edited
    <3>5. e.p.doc \in Replicas
      BY <3>2, SlotParts
    <3> QED
      <4>1. n <= e.p.pending
        BY <1>1, <1>4, <3>2
      <4>2. e.p.admitted /\ Grows(D, e.p.doc)
        BY <1>4, <1>a, <3>3
      <4> QED
        BY <3>2, <3>3, <3>4, <3>5, <4>1, <4>2
  <2>2. CASE ~ normalizes
    <3>1. edited = merged
      BY <2>2
    <3>2. Grows(D, D)
      BY <1>2 DEF Grows, Replicas, Vectors
    <3> HIDE DEF edited
    <3> QED
      <4>1. n <= merged.p.pending
        BY <1>1, <1>4
      <4>2. merged.p.doc \in Replicas /\ Grows(D, merged.p.doc)
        BY <1>2, <1>4, <3>2
      <4> QED
        BY <1>4, <1>7, <1>a, <3>1, <4>1, <4>2
  <2> QED
    BY <2>1, <2>2
<1> HIDE DEF edited
<1>10. \A a \in Author : missing.to[a] <= edited.p.doc.seen[a]
  BY <1>1, <1>2, <1>3, <1>9 DEF Grows, Replicas, Vectors
<1>11. TabOrder(L, Flush(edited, missing, n))
  BY <1>1, <1>3, <1>9, <1>10, FlushOrder
<1> QED
  BY <1>0, <1>11

LEMMA OnFrameOrder ==
  ASSUME NEW L \in Replicas, NEW w \in Tabs, TabOrder(L, w), w.p.current # 0,
         w.s[w.p.current].state = "open", NEW h \in Downs, FirstIs(w.s[w.p.current].down, h),
         Carries(h) => Inside(L, h.body),
         NEW t, Good(L, t), t.s = FirstTaken(w.s, w.p.current), SamePage(w.p, t.p),
         NEW c \in Client, NEW normalizes \in BOOLEAN
  PROVE  TabOrder(L, OnFrame(c, t, h, normalizes))
<1> DEFINE down == w.s[w.p.current].down
<1>1. w.p \in Providers /\ t.p \in Providers /\ t \in Tabs /\ w.s[w.p.current] \in Sockets
  BY SlotParts DEF Good
<1>2. /\ PageOrder(w.p) /\ Announced(w.p.admitted, down) /\ SocketOrder(w.s[w.p.current])
      /\ CurrentOrder(L, w.p, w.s[w.p.current])
  BY <1>1, SlotParts DEF TabOrder, SocketsOrder, CurrentOrder, Stream
<1>3. down \in Seq(Downs) /\ down # <<>> /\ h = Head(down)
  BY <1>1 DEF Sockets, FirstIs
<1>4. w.p.connected /\ \A k \in 1..Len(down) : down[k].kind # "refresh_required"
  BY <1>2, <1>3 DEF CurrentOrder, Fresh, SocketOrder
<1> HIDE DEF down
<1>5. Len(down) \in Nat \ {0} /\ h = down[1] /\ 1 \in 1..Len(down)
  BY <1>3, HeadTailProperties, EmptySeq
<1>6. h.kind # "refresh_required"
  BY <1>4, <1>5
<1>7. Carries(h) => w.p.admitted
  BY <1>2, <1>5 DEF Announced
<1>8. Grows(w.p.doc, w.p.doc)
  BY <1>1 DEF Grows, Providers, Replicas, Vectors
<1>9. CASE h.kind = "admitted"
  <2> DEFINE v == [t EXCEPT !.p.admitted = TRUE]
  <2>1. OnFrame(c, t, h, normalizes) = v
    BY <1>9 DEF OnFrame
  <2>2. /\ v \in Tabs /\ v.s = t.s /\ v.p.doc = t.p.doc /\ v.p.inFlight = t.p.inFlight /\ v.p.admitted
        /\ v.p.current = t.p.current /\ v.p.connected = t.p.connected
        /\ v.p.refresh = t.p.refresh /\ v.p.retry = t.p.retry
    BY <1>1 DEF Tabs, Providers
  <2> HIDE DEF v
  <2>3. PageOrder(v.p)
    BY <1>2, <1>4, <2>2 DEF PageOrder, SamePage
  <2>4. /\ v.s = FirstTaken(w.s, w.p.current) /\ v.p.current = w.p.current
        /\ v.p.connected = w.p.connected /\ Grows(w.p.doc, v.p.doc)
    BY <1>8, <2>2 DEF SamePage
  <2>5. ~ Carries(h)
    BY <1>9 DEF Carries
  <2>6. TabOrder(L, v)
    BY <2>2, <2>3, <2>4, <2>5, TakenOrder
  <2> QED
    BY <2>1, <2>6
<1>10. CASE h.kind = "error"
  <2>1. OnFrame(c, t, h, normalizes) = Offline(t)
    BY <1>10 DEF OnFrame
  <2>2. PageOrder(t.p)
    BY <1>2 DEF PageOrder, SamePage
  <2>3. /\ t.s = FirstTaken(w.s, w.p.current) /\ t.p.current = w.p.current
        /\ t.p.connected = w.p.connected /\ Grows(w.p.doc, t.p.doc) /\ t.p.admitted = w.p.admitted
    BY <1>8 DEF SamePage
  <2>4. ~ Carries(h) /\ h.kind # "admitted"
    BY <1>10 DEF Carries
  <2>5. TabOrder(L, t)
    BY <1>1, <2>2, <2>3, <2>4, TakenOrder
  <2> QED
    BY <2>1, <2>5, OfflineOrder
<1>11. CASE h.kind = "update"
  <2>1. Carries(h) /\ t.p.admitted
    BY <1>7, <1>11 DEF Carries, SamePage
  <2>2. OnFrame(c, t, h, normalizes) = OnUpdate(t, h.body)
    BY <1>11, <2>1 DEF OnFrame
  <2>3. TabOrder(L, OnUpdate(t, h.body))
    BY <1>7, <1>11, <2>1, OnUpdateOrder
  <2> QED
    BY <2>2, <2>3
<1>12. CASE h.kind = "sync"
  <2>1. Carries(h) /\ t.p.admitted
    BY <1>7, <1>12 DEF Carries, SamePage
  <2>2. OnFrame(c, t, h, normalizes) = OnSync(c, t, h.body, normalizes)
    BY <1>12, <2>1 DEF OnFrame
  <2>3. TabOrder(L, OnSync(c, t, h.body, normalizes))
    BY <1>7, <1>12, <2>1, OnSyncOrder
  <2> QED
    BY <2>2, <2>3
<1> QED
  BY <1>6, <1>9, <1>10, <1>11, <1>12 DEF Downs

LEMMA SendIs ==
  ASSUME NEW w \in Tabs, NEW frame \in Ups
  PROVE  /\ Send(w, frame) \in Tabs /\ Send(w, frame).p = w.p
         /\ \A i \in Slot : i # w.p.current => Send(w, frame).s[i] = w.s[i]
         /\ \A i \in Slot : i = w.p.current =>
              Send(w, frame).s[i] \in {w.s[i], [w.s[i] EXCEPT !.up = Append(w.s[i].up, frame)]}
<1> DEFINE k == w.p.current
           v == [w EXCEPT !.s[w.p.current].up = Append(@, frame)]
           x == [w.s[k] EXCEPT !.up = Append(w.s[k].up, frame)]
<1>1. CASE ~ (IsOpen(w) /\ w.s[k].state = "open")
  BY <1>1 DEF Send
<1>2. CASE IsOpen(w) /\ w.s[k].state = "open"
  <2>1. w.p \in Providers /\ w.s \in [Slot -> Sockets] /\ k \in Slot /\ w.s[k] \in Sockets
    BY <1>2, SlotParts DEF IsOpen
  <2>2. Append(w.s[k].up, frame) \in Seq(Ups)
    <3>1. w.s[k].up \in Seq(Ups)
      BY <2>1 DEF Sockets
    <3> QED
      BY <3>1, AppendAt
  <2>3. x \in Sockets
    BY <2>1, <2>2 DEF Sockets
  <2>4. Send(w, frame) = v
    BY <1>2 DEF Send
  <2>5. v = [p |-> w.p, s |-> [w.s EXCEPT ![k] = x]]
    BY <2>1 DEF Tabs
  <2> HIDE DEF v, x, k
  <2>6. v \in Tabs
    BY <2>1, <2>3, <2>5, SocketSet
  <2>7. v.p = w.p /\ v.s[k] = x /\ \A i \in Slot : i # k => v.s[i] = w.s[i]
    BY <2>1, <2>5
  <2> QED
    BY <2>4, <2>6, <2>7 DEF k, x
<1> QED
  BY <1>1, <1>2

-----------------------------------------------------------------------------
(* The steps of a tab. *)
LEMMA TabOrderNow ==
  ASSUME IInv, OrderInv, NEW c \in Client
  PROVE  /\ TabOrder(log, Tab(c)) /\ Tab(c) \in Tabs /\ Good(log, Tab(c)) /\ log \in Replicas
         /\ Tab(c).p = client[c] /\ Tab(c).s = sock[c]
BY TabGood DEF OrderInv, Good, IInv

LEMMA InstalledOrder ==
  ASSUME IInv, OrderInv, NEW c \in Client, NEW w, w \in Tabs, TabOrder(log, w), Install(c, w), log' = log
  PROVE  OrderInv'
<1> SUFFICES ASSUME NEW b \in Client PROVE TabOrder(log, Tab(b)')
  BY DEF OrderInv
<1>1. CASE b = c
  <2>1. client'[b] = w.p /\ sock'[b] = w.s
    BY <1>1 DEF IInv, Install
  <2>2. Tab(b)' = w
    BY <2>1, TabIs DEF Tab
  <2> QED
    BY <2>2
<1>2. CASE b # c
  <2>1. client'[b] = client[b] /\ sock'[b] = sock[b]
    BY <1>2 DEF IInv, Install
  <2>2. Tab(b)' = Tab(b)
    BY <2>1 DEF Tab
  <2> QED
    BY <2>2 DEF OrderInv
<1> QED
  BY <1>1, <1>2

LEMMA EditOrder == ASSUME IInv, OrderInv, NEW c \in Client, Edit(c) PROVE OrderInv'
<1> DEFINE w == Tab(c)
           u == NextEdit(c, client[c].doc)
<1>1. w \in Tabs /\ Pipes(log, w.s) /\ TabOrder(log, w) /\ log \in Replicas /\ client[c].doc \in Replicas
  BY TabOrderNow, SlotParts DEF Good
<1>2. u \in Updates
  BY <1>1, NextEditTyped
<1>3. Install(c, SendUpdate(w, u)) /\ log' = log
  BY DEF Edit
<1> HIDE DEF w, u
<1>4. SendUpdate(w, u) \in Tabs /\ TabOrder(log, SendUpdate(w, u))
  BY <1>1, <1>2, SendUpdateIs, SendUpdateOrder
<1> QED
  BY <1>3, <1>4, InstalledOrder

LEMMA EraseOrder == ASSUME IInv, OrderInv, NEW c \in Client, NEW e \in Erasure, Erase(c, e) PROVE OrderInv'
<1> DEFINE w == Tab(c)
           d == client[c].doc
           u == [from |-> d.seen, to |-> d.seen, gone |-> {e}]
<1>1. w \in Tabs /\ Pipes(log, w.s) /\ TabOrder(log, w) /\ log \in Replicas /\ d \in Replicas
  BY TabOrderNow, SlotParts DEF Good
<1>2. u \in Updates
  BY <1>1 DEF Replicas, Updates
<1>3. Install(c, SendUpdate(w, u)) /\ log' = log
  BY DEF Erase
<1> HIDE DEF w, u
<1>4. SendUpdate(w, u) \in Tabs /\ TabOrder(log, SendUpdate(w, u))
  BY <1>1, <1>2, SendUpdateIs, SendUpdateOrder
<1> QED
  BY <1>3, <1>4, InstalledOrder

LEMMA NothingCarried == Len(<<>>) = 0
BY EmptySeq

LEMMA OpenOrder == ASSUME IInv, OrderInv, NEW c \in Client, NEW s \in Slot, Open(c, s) PROVE OrderInv'
<1> DEFINE w == Tab(c)
           opened == [w EXCEPT !.s[s].state = "open", !.s[s].serving = TRUE]
           linked == [opened EXCEPT !.p.connected = TRUE]
           frame == Signal("subscribe")
           x == [w.s[s] EXCEPT !.state = "open", !.serving = TRUE]
           q == linked.p
<1>1. /\ w \in Tabs /\ w.p \in Providers /\ w.s \in [Slot -> Sockets] /\ w.s[s] \in Sockets
      /\ TabOrder(log, w) /\ log \in Replicas
  BY TabOrderNow, SlotParts
<1>2. log' = log /\ w.s[s].state = "connecting"
  BY TabOrderNow DEF Open
<1>o. \/ Install(c, opened)
      \/ w.s[s].listening /\ Install(c, Send(linked, frame))
  BY TabOrderNow DEF Open
<1> HIDE DEF w
<1>3. /\ x \in Sockets /\ x.up = w.s[s].up /\ x.down = w.s[s].down /\ x.joined = w.s[s].joined
      /\ x.listening = w.s[s].listening /\ x.state = "open"
  BY <1>1 DEF Sockets
<1>4. opened = [p |-> w.p, s |-> [w.s EXCEPT ![s] = x]]
  <2>1. opened = [w EXCEPT !.s = [w.s EXCEPT ![s] = x]]
    BY <1>1 DEF Tabs
  <2> QED
    BY <1>1, <2>1 DEF Tabs
<1> HIDE DEF x, opened
<1>5. opened \in Tabs /\ opened.p = w.p /\ opened.s = [w.s EXCEPT ![s] = x]
  BY <1>1, <1>3, <1>4, SocketSet
<1>6. /\ linked \in Tabs /\ q \in Providers /\ linked.s = opened.s
      /\ q.connected /\ q.doc = w.p.doc /\ q.inFlight = w.p.inFlight
      /\ q.current = w.p.current /\ q.admitted = w.p.admitted /\ q.refresh = w.p.refresh /\ q.retry = w.p.retry
  BY <1>1, <1>5 DEF Tabs, Providers
<1>b. linked = [p |-> q, s |-> [w.s EXCEPT ![s] = x]]
  <2> HIDE DEF linked
  <2> QED
    BY <1>5, <1>6, TabIs
<1> HIDE DEF q, linked
<1>7. Fresh(x) /\ Len(<<>>) = 0
  <2>1. SocketOrder(w.s[s])
    BY <1>1 DEF TabOrder, SocketsOrder
  <2> QED
    BY <1>2, <1>3, <2>1, NothingCarried DEF SocketOrder, Fresh
<1>8. SocketOrder(x)
  BY <1>3, <1>7 DEF SocketOrder, Fresh
<1>9. PageOrder(w.p) /\ PageOrder(q)
  BY <1>1, <1>6 DEF TabOrder, PageOrder
<1>10. w.p.current = s => CurrentOrder(log, w.p, x) /\ CurrentOrder(log, q, x)
  <2> SUFFICES ASSUME w.p.current = s PROVE CurrentOrder(log, w.p, x) /\ CurrentOrder(log, q, x)
    OBVIOUS
  <2>1. ~w.p.admitted
    BY <1>1, <1>2, ZeroIsNoSlot DEF TabOrder, CurrentOrder
  <2>2. Stream(log, w.p, x) /\ Stream(log, q, x)
    BY <1>6, <1>7, <2>1 DEF Stream, Announced, Linked, Fresh
  <2> QED
    BY <1>3, <1>7, <2>2 DEF CurrentOrder
<1>11. w.p.current # 0 /\ w.p.current # s =>
         CurrentOrder(log, w.p, w.s[w.p.current]) /\ CurrentOrder(log, q, w.s[w.p.current])
  <2> SUFFICES ASSUME w.p.current # 0
               PROVE  CurrentOrder(log, w.p, w.s[w.p.current]) /\ CurrentOrder(log, q, w.s[w.p.current])
    OBVIOUS
  <2> QED
    BY <1>1, <1>6 DEF TabOrder, CurrentOrder, Stream
<1>12. TabOrder(log, opened)
  BY <1>1, <1>3, <1>4, <1>7, <1>8, <1>9, <1>10, <1>11, OneSocketOrder
<1>13. TabOrder(log, linked)
  BY <1>1, <1>3, <1>b, <1>6, <1>7, <1>8, <1>9, <1>10, <1>11, OneSocketOrder
<1>14. opened \in Tabs /\ linked \in Tabs /\ linked.p.connected
  BY <1>5, <1>6 DEF q
<1>15. frame \in Ups /\ frame.kind = "subscribe"
  BY DEF Signal, Ups
<1> HIDE DEF frame
<1>16. TabOrder(log, Send(linked, frame))
  BY <1>1, <1>13, <1>14, <1>15, SendOrder
<1>17. Send(linked, frame) \in Tabs
  BY <1>14, <1>15, SendIs
<1> QED
  BY <1>2, <1>o, <1>12, <1>14, <1>16, <1>17, InstalledOrder

LEMMA ReceiveOrder == ASSUME IInv, OrderInv, NEW c \in Client, NEW s \in Slot, Receive(c, s) PROVE OrderInv'
<1> DEFINE w == Tab(c)
           taken == [w EXCEPT !.s[s].down = Tail(@), !.p.mine = FALSE]
           h == Head(sock[c][s].down)
<1>1. /\ w \in Tabs /\ TabOrder(log, w) /\ log \in Replicas /\ w.p = client[c] /\ w.s = sock[c]
  BY TabOrderNow
<1>2. log' = log /\ w.s[s].listening /\ w.s[s].state = "open" /\ w.s[s].down # <<>>
  BY <1>1 DEF Receive
<1>3. PICK normalizes \in BOOLEAN : Install(c, OnFrame(c, taken, h, normalizes))
  BY DEF Receive
<1>4. /\ Good(log, taken) /\ taken.s = FirstTaken(sock[c], s) /\ SamePage(client[c], taken.p)
      /\ h \in Downs /\ (Carries(h) => Inside(log, h.body))
  BY <1>1, <1>2, FirstFrameGood
<1>5. FirstIs(w.s[s].down, h)
  BY <1>1, <1>2 DEF FirstIs
<1> HIDE DEF w, taken, h
<1>6. w.p.current = s /\ w.p.current # 0
  BY <1>1, <1>2, ZeroIsNoSlot DEF TabOrder, SocketsOrder, Fresh
<1>7. TabOrder(log, OnFrame(c, taken, h, normalizes))
  BY <1>1, <1>2, <1>4, <1>5, <1>6, OnFrameOrder
<1>8. Good(log, OnFrame(c, taken, h, normalizes))
  BY <1>1, <1>4, OnFrameGood DEF Carries
<1> QED
  BY <1>2, <1>3, <1>7, <1>8, InstalledOrder DEF Good

LEMMA DetachIs ==
  ASSUME NEW w \in Tabs
  PROVE  /\ Detach(w).p.current = 0 /\ ~Detach(w).p.admitted /\ Detach(w).p.inFlight = <<>>
         /\ Detach(w).p.refresh = w.p.refresh
         /\ \A i \in Slot : i # w.p.current => Detach(w).s[i] = w.s[i]
         /\ \A i \in Slot : i = w.p.current => Detach(w).s[i] = [w.s[i] EXCEPT !.listening = FALSE]
<1> DEFINE k == w.p.current
           v == Detach(w)
<1>1. /\ w.p \in Providers /\ w.s \in [Slot -> Sockets] /\ (k # 0 => k \in Slot)
  BY SlotParts
<1>2. CASE k = 0
  <2>1. v = [w EXCEPT !.p.admitted = FALSE, !.p.inFlight = <<>>]
    BY <1>2 DEF Detach
  <2>2. /\ v.s = w.s /\ v.p.current = w.p.current /\ v.p.admitted = FALSE /\ v.p.inFlight = <<>>
        /\ v.p.refresh = w.p.refresh
    <3> HIDE DEF v
    <3> QED
      BY <1>1, <2>1 DEF Tabs, Providers
  <2> QED
    BY <1>2, <2>2, ZeroIsNoSlot
<1>3. CASE k # 0
  <2> DEFINE x == [w.s[k] EXCEPT !.listening = FALSE]
             q == [w.p EXCEPT !.current = 0, !.admitted = FALSE, !.inFlight = <<>>]
  <2>1. q.current = 0 /\ ~q.admitted /\ q.inFlight = <<>> /\ q.refresh = w.p.refresh
    BY <1>1 DEF Providers
  <2>2. v = [p |-> q, s |-> [w.s EXCEPT ![k] = x]]
    BY <1>3 DEF Detach, Tabs
  <2>3. k \in Slot
    BY <1>1, <1>3
  <2> HIDE DEF q, x, v, k
  <2>4. v.p = q /\ v.s[k] = x /\ \A i \in Slot : i # k => v.s[i] = w.s[i]
    BY <1>1, <2>2, <2>3
  <2> QED
    BY <2>1, <2>4 DEF v, k, x
<1> QED
  BY <1>2, <1>3

(* A closed socket is heard of: the page is left without one, whichever it was. *)
LEMMA HearCloseOrder == ASSUME IInv, OrderInv, NEW c \in Client, NEW s \in Slot, HearClose(c, s) PROVE OrderInv'
<1> DEFINE w == Tab(c)
           closed == [w EXCEPT !.s[s].state = "closed", !.s[s].listening = FALSE, !.p.connected = FALSE]
           x == [w.s[s] EXCEPT !.state = "closed", !.listening = FALSE]
           d == Detach(closed)
           v == ScheduleReconnect(d)
<1>1. /\ TabOrder(log, w) /\ Good(log, w) /\ w \in Tabs /\ w.p \in Providers /\ w.s[s] \in Sockets
      /\ w.s \in [Slot -> Sockets] /\ w.p = client[c] /\ w.s = sock[c]
  BY TabOrderNow, SlotParts
<1>2. log' = log /\ Install(c, v) /\ w.s[s].state = "dead"
  BY <1>1 DEF HearClose
<1> HIDE DEF w
<1>3. /\ x \in Sockets /\ x.down = w.s[s].down /\ x.up = w.s[s].up /\ x.joined = w.s[s].joined
      /\ x.state = "closed" /\ x.listening = FALSE
  BY <1>1 DEF Sockets
<1>4. /\ closed \in Tabs /\ closed.s = [w.s EXCEPT ![s] = x] /\ closed.p.current = w.p.current
      /\ closed.p.refresh = w.p.refresh /\ closed.p.doc = w.p.doc /\ closed.p.pending = w.p.pending
      /\ closed.p.inFlight = w.p.inFlight /\ closed.p.synced = w.p.synced
  <2>1. closed = [w EXCEPT !.s = [w.s EXCEPT ![s] = x], !.p.connected = FALSE]
    BY <1>1 DEF Tabs
  <2> HIDE DEF closed, x
  <2>2. [w.s EXCEPT ![s] = x] \in [Slot -> Sockets]
    BY <1>1, <1>3
  <2> QED
    BY <1>1, <2>1, <2>2 DEF Tabs, Providers
<1> HIDE DEF x, closed
<1>5. Good(log, closed)
  <2>1. Carried(log, x.down) /\ Ledger(log, w.p)
    BY <1>1, <1>3 DEF Good, Pipes
  <2>2. \A i \in Slot : closed.s[i] = IF i = s THEN x ELSE w.s[i]
    BY <1>1, <1>4
  <2>3. Pipes(log, closed.s)
    BY <1>1, <2>1, <2>2 DEF Good, Pipes
  <2>4. Ledger(log, closed.p)
    BY <1>4, <2>1, LedgerSame
  <2> QED
    BY <1>4, <2>3, <2>4 DEF Good
<1>6. /\ Good(log, d) /\ d.p.current = 0 /\ ~d.p.admitted /\ d.p.inFlight = <<>> /\ d.p.refresh = closed.p.refresh
      /\ \A i \in Slot : i # closed.p.current => d.s[i] = closed.s[i]
      /\ \A i \in Slot : i = closed.p.current => d.s[i] = [closed.s[i] EXCEPT !.listening = FALSE]
  BY <1>4, <1>5, DetachIs, DetachGood
<1> HIDE DEF d
<1>7. /\ Good(log, v) /\ v.s = d.s /\ v.p.current = 0 /\ ~v.p.admitted /\ v.p.inFlight = <<>>
      /\ v.p.refresh = d.p.refresh
  <2>1. Good(log, v)
    BY <1>6, ScheduleReconnectGood
  <2>2. v \in {d, [d EXCEPT !.p.retry = TRUE]}
    BY DEF ScheduleReconnect
  <2>3. d \in Tabs /\ d.p \in Providers
    BY <1>6, SlotParts DEF Good
  <2> HIDE DEF v
  <2> QED
    BY <1>6, <2>1, <2>2, <2>3 DEF Tabs, Providers
<1> HIDE DEF v
<1>8. ASSUME NEW i \in Slot PROVE SocketOrder(v.s[i]) /\ (v.s[i].listening => Fresh(v.s[i]))
  <2> DEFINE y == closed.s[i]
  <2>1. closed.s[i] = IF i = s THEN x ELSE w.s[i]
    BY <1>1, <1>4
  <2>2. SocketOrder(w.s[i]) /\ (w.s[i].listening /\ i # w.p.current => Fresh(w.s[i]))
    BY <1>1 DEF TabOrder, SocketsOrder
  <2>3. SocketOrder(x)
    <3>1. SocketOrder(w.s[s])
      BY <1>1 DEF TabOrder, SocketsOrder
    <3> QED
      BY <1>2, <1>3, <3>1 DEF SocketOrder
  <2>4. SocketOrder(y) /\ (y.listening /\ i # w.p.current => Fresh(y)) /\ y \in Sockets
    <3>1. CASE i = s
      BY <1>3, <2>1, <2>3, <3>1
    <3>2. CASE i # s
      BY <1>1, <2>1, <2>2, <3>2
    <3> QED
      BY <3>1, <3>2
  <2> HIDE DEF y
  <2>5. CASE i = w.p.current
    <3> DEFINE z == [y EXCEPT !.listening = FALSE]
    <3>1. v.s[i] = z
      BY <1>4, <1>6, <1>7, <2>5 DEF y
    <3>2. /\ z.listening = FALSE /\ z.up = y.up /\ z.down = y.down /\ z.joined = y.joined
          /\ z.state = y.state
      BY <2>4 DEF Sockets
    <3> HIDE DEF z
    <3>3. SocketOrder(z)
      BY <2>4, <3>2, SocketSame
    <3> QED
      BY <3>1, <3>2, <3>3
  <2>6. CASE i # w.p.current
    BY <1>4, <1>6, <1>7, <2>4, <2>6 DEF y
  <2> QED
    BY <2>5, <2>6
<1>9. ~v.p.refresh /\ v \in Tabs
  BY <1>1, <1>4, <1>6, <1>7 DEF TabOrder, PageOrder, Good
<1>10. TabOrder(log, v)
  BY <1>7, <1>8, <1>9, NoCurrentOrder
<1> QED
  BY <1>2, <1>9, <1>10, InstalledOrder

LEMMA AttachOrder ==
  ASSUME IInv, OrderInv, NEW c \in Client, log' = log, client[c].retry \/ ~client[c].connected,
         \E w \in Attached([Tab(c) EXCEPT !.p.retry = FALSE]) : Install(c, w)
  PROVE  OrderInv'
<1> DEFINE w == Tab(c)
           v == [w EXCEPT !.p.retry = FALSE]
<1>1. /\ w \in Tabs /\ w.p \in Providers /\ Good(log, w) /\ TabOrder(log, w) /\ log \in Replicas
      /\ w.p = client[c]
  BY TabOrderNow, SlotParts
<1>2. PICK z \in Attached(v) : Install(c, z)
  OBVIOUS
<1>m. w.p.retry \/ ~w.p.connected
  BY <1>1
<1> HIDE DEF w
<1>3. /\ v \in Tabs /\ v.s = w.s /\ v.p.doc = w.p.doc /\ v.p.pending = w.p.pending
      /\ v.p.inFlight = w.p.inFlight /\ v.p.synced = w.p.synced /\ v.p.retry = FALSE
      /\ v.p.current = w.p.current /\ v.p.connected = w.p.connected /\ v.p.admitted = w.p.admitted
      /\ v.p.refresh = w.p.refresh
  BY <1>1 DEF Tabs, Providers
<1> HIDE DEF v
<1>4. Good(log, v)
  BY <1>1, <1>3, FlagGood
<1>5. PageOrder(w.p) /\ PageOrder(v.p) /\ Grows(w.p.doc, v.p.doc)
  BY <1>1, <1>3 DEF TabOrder, PageOrder, Grows, Providers, Replicas, Vectors
<1>6. TabOrder(log, v)
  BY <1>1, <1>3, <1>5, PageAlone
<1>7. ~v.p.admitted /\ (v.p.current # 0 => ~v.p.connected)
  BY <1>3, <1>5, <1>m DEF PageOrder
<1>8. TabOrder(log, z) /\ z \in Tabs
  BY <1>2, <1>3, <1>4, <1>6, <1>7, AttachedOrder, AttachedGood DEF Good
<1> QED
  BY <1>2, <1>8, InstalledOrder

LEMMA GoOfflineOrder == ASSUME IInv, OrderInv, NEW c \in Client, GoOffline(c) PROVE OrderInv'
<1>1. Install(c, Offline(Tab(c))) /\ log' = log
  BY DEF GoOffline
<1>2. Good(log, Offline(Tab(c))) /\ TabOrder(log, Offline(Tab(c)))
  BY TabOrderNow, OfflineGood, OfflineOrder
<1> QED
  BY <1>1, <1>2, InstalledOrder DEF Good

LEMMA ReloadOrder == ASSUME IInv, OrderInv, NEW c \in Client, Reload(c) PROVE OrderInv'
<1> DEFINE q == [Provider EXCEPT !.doc = client[c].doc]
           t == [s \in Slot |-> IF sock[c][s].serving
                  THEN [sock[c][s] EXCEPT !.state = "closed", !.listening = FALSE, !.down = <<>>]
                  ELSE NoSocket]
           v == [p |-> q, s |-> t]
<1>1. log' = log /\ \E w \in Attached(v) : Install(c, w)
  BY DEF Reload
<1>2. Good(log, v)
  BY ReloadedGood
<1>3. \A s \in Slot : sock[c][s] \in Sockets /\ SocketOrder(sock[c][s])
  BY TabOrderNow, SlotParts DEF TabOrder, SocketsOrder
<1>4. /\ q.current = 0 /\ ~q.refresh /\ ~q.admitted /\ q.inFlight = <<>> /\ ~q.retry
  BY DEF Provider
<1>5. ASSUME NEW s \in Slot PROVE SocketOrder(t[s]) /\ ~t[s].listening
  <2>1. CASE sock[c][s].serving
    <3> DEFINE x == sock[c][s]
               y == [x EXCEPT !.state = "closed", !.listening = FALSE, !.down = <<>>]
    <3>1. t[s] = y
      BY <2>1
    <3>2. x \in Sockets /\ SocketOrder(x)
      BY <1>3
    <3> HIDE DEF x
    <3>3. y.up = x.up /\ y.down = <<>> /\ y.joined = x.joined /\ y.state = "closed" /\ y.listening = FALSE
      BY <3>2 DEF Sockets
    <3> HIDE DEF y
    <3> QED
      BY <3>1, <3>2, <3>3, SocketClosed
  <2>2. CASE ~ sock[c][s].serving
    <3>1. t[s] = NoSocket
      BY <2>2
    <3> HIDE DEF t
    <3> QED
      BY <3>1, NothingCarried DEF NoSocket, SocketOrder
  <2> QED
    BY <2>1, <2>2
<1>6. v \in Tabs /\ v.p = q /\ v.s = t
  BY <1>2 DEF Good
<1> HIDE DEF q, t, v
<1>7. TabOrder(log, v)
  BY <1>4, <1>5, <1>6, NoCurrentOrder
<1>8. PICK w \in Attached(v) : Install(c, w)
  BY <1>1
<1>9. TabOrder(log, w) /\ w \in Tabs
  BY <1>2, <1>4, <1>6, <1>7, AttachedOrder, AttachedGood DEF Good
<1> QED
  BY <1>1, <1>8, <1>9, InstalledOrder

(* The page says goodbye on a socket it then closes. *)
LEMMA GoodbyeClosed ==
  ASSUME NEW x \in Sockets, SocketOrder(x), NEW frame \in Ups, frame.kind = "unsubscribe",
         NEW y, y.up = Append(x.up, frame), y.down = <<>>, y.joined = x.joined, y.state = "closed"
  PROVE  SocketOrder(y)
<1> DEFINE t == Append(x.up, frame)
           n == Len(x.up)
<1>1. x.up \in Seq(Ups)
  BY DEF Sockets
<1>2. Len(t) = n + 1 /\ n \in Nat /\ (\A i \in 1..n : t[i] = x.up[i]) /\ t[n + 1] = frame
  BY <1>1, AppendAt
<1>3. y.up = t
  OBVIOUS
<1> HIDE DEF t, n
<1>4. \A k \in 1..Len(t) : k \in 1..n \/ k = n + 1
  BY <1>2
<1>5. \A k \in 1..n : \A j \in 1..(k - 1) : j \in 1..n
  BY <1>2
<1>6. ASSUME NEW k \in 1..Len(t), t[k].kind = "update"
      PROVE  x.joined /\ \A j \in 1..(k - 1) : t[j].kind # "unsubscribe"
  <2>1. k \in 1..n
    BY <1>2, <1>4, <1>6
  <2> QED
    BY <1>2, <1>5, <1>6, <2>1 DEF SocketOrder, n
<1> QED
  BY <1>3, <1>6, NothingCarried DEF SocketOrder

LEMMA DestroyOrder == ASSUME IInv, OrderInv, NEW c \in Client, Destroy(c) PROVE OrderInv'
<1> DEFINE w == Tab(c)
           bye == Signal("unsubscribe")
           sent == Send(w, bye)
           marked == [sent EXCEPT !.p.destroyed = TRUE]
           left == DetachAndClose(marked)
           v == [left EXCEPT !.p.connected = FALSE, !.p.retry = FALSE]
<1>1. log' = log /\ Install(c, v)
  BY DEF Destroy
<1>2. bye \in Ups /\ bye.kind = "unsubscribe"
  BY DEF Signal, Ups
<1>w. /\ w \in Tabs /\ w.p \in Providers /\ Good(log, w) /\ Pipes(log, w.s) /\ TabOrder(log, w)
  BY TabOrderNow, SlotParts DEF Good
<1> HIDE DEF w, bye
<1>3. /\ sent \in Tabs /\ sent.p = w.p
      /\ \A i \in Slot : i # w.p.current => sent.s[i] = w.s[i]
      /\ \A i \in Slot : i = w.p.current =>
           sent.s[i] \in {w.s[i], [w.s[i] EXCEPT !.up = Append(w.s[i].up, bye)]}
  BY <1>2, <1>w, SendIs
<1>g. Good(log, sent)
  BY <1>2, <1>3, <1>w, SendPipes DEF Good
<1> HIDE DEF sent
<1>4. /\ marked \in Tabs /\ marked.s = sent.s /\ marked.p.doc = sent.p.doc /\ marked.p.pending = sent.p.pending
      /\ marked.p.inFlight = sent.p.inFlight /\ marked.p.synced = sent.p.synced
      /\ marked.p.current = sent.p.current /\ marked.p.refresh = sent.p.refresh
  BY <1>3 DEF Tabs, Providers
<1> HIDE DEF marked
<1>5. Good(log, marked)
  BY <1>4, <1>g, FlagGood
<1>6. /\ Good(log, left)
      /\ left.p = [marked.p EXCEPT !.current = 0, !.admitted = FALSE, !.inFlight = <<>>]
      /\ \A i \in Slot : i # marked.p.current => left.s[i] = marked.s[i]
  BY <1>5, DetachAndCloseIs
<1>7. \A i \in Slot : i = marked.p.current => left.s[i] = Closed(marked.s[i])
  BY <1>5, DetachAndCloseIs
<1> HIDE DEF left
<1>8. left \in Tabs /\ left.p.current = 0 /\ ~left.p.admitted /\ left.p.inFlight = <<>> /\ left.p.refresh = marked.p.refresh
  <2>1. left \in Tabs /\ marked.p \in Providers
    BY <1>4, <1>6, SlotParts DEF Good
  <2> QED
    BY <1>6, <2>1 DEF Providers
<1>9. /\ v \in Tabs /\ v.s = left.s /\ v.p.current = 0 /\ ~v.p.admitted /\ v.p.inFlight = <<>>
      /\ v.p.refresh = left.p.refresh
  BY <1>8 DEF Tabs, Providers
<1> HIDE DEF v
<1>10. ~w.p.refresh /\ \A k \in Slot : SocketOrder(w.s[k]) /\ (w.s[k].listening /\ k # w.p.current => Fresh(w.s[k]))
  BY <1>w DEF TabOrder, PageOrder, SocketsOrder
<1>11. \A k \in Slot : k # marked.p.current => SocketOrder(marked.s[k]) /\ (marked.s[k].listening => Fresh(marked.s[k]))
  BY <1>3, <1>4, <1>10
<1>12. marked.p.current # 0 => SocketOrder(Closed(marked.s[marked.p.current]))
  <2> SUFFICES ASSUME marked.p.current # 0 PROVE SocketOrder(Closed(marked.s[marked.p.current]))
    OBVIOUS
  <2> DEFINE k == w.p.current
             x == w.s[k]
             y == marked.s[k]
             said == [x EXCEPT !.up = Append(x.up, bye)]
  <2>1. marked.p.current = k /\ k \in Slot /\ x \in Sockets /\ y \in Sockets
    BY <1>3, <1>4, <1>w, SlotParts
  <2>2. SocketOrder(x) /\ y \in {x, said}
    BY <1>3, <1>4, <1>10, <2>1
  <2>3. said.up = Append(x.up, bye) /\ said.down = x.down /\ said.joined = x.joined
    BY <2>1 DEF Sockets
  <2> HIDE DEF x, y, said, k
  <2>4. /\ Closed(y).up = y.up /\ Closed(y).down = <<>> /\ Closed(y).joined = y.joined
        /\ Closed(y).state = "closed"
    BY <2>1 DEF Closed, Sockets
  <2>5. SocketOrder(Closed(y))
    <3>1. CASE y = x
      BY <2>2, <2>4, <3>1, SocketClosed
    <3>2. CASE y = said
      BY <1>2, <2>1, <2>2, <2>3, <2>4, <3>2, GoodbyeClosed
    <3> QED
      BY <2>2, <3>1, <3>2
  <2> QED
    BY <2>1, <2>5 DEF y
<1>13. ~v.p.refresh /\ ~marked.p.refresh
  BY <1>3, <1>4, <1>8, <1>9, <1>10
<1>14. \A i \in Slot : i # marked.p.current => v.s[i] = marked.s[i]
  BY <1>6, <1>9
<1>15. \A i \in Slot : i = marked.p.current => v.s[i] = Closed(marked.s[i])
  BY <1>7, <1>9
<1>16. TabOrder(log, v)
  BY <1>5, <1>9, <1>11, <1>12, <1>13, <1>14, <1>15, LetGoOrder
<1> QED
  BY <1>1, <1>9, <1>16, InstalledOrder

-----------------------------------------------------------------------------
(* The steps of the server and of the network. *)
Orders(L, socks) == \A c \in Client : TabOrder(L, [p |-> client[c], s |-> socks[c]])

LEMMA ServedOrders ==
  ASSUME client' = client, Orders(log', sock')
  PROVE  OrderInv'
BY DEF Orders, OrderInv, Tab

(* One socket changes at the server or on its way. *)
LEMMA SetOrders ==
  ASSUME IInv, OrderInv, NEW c \in Client, NEW s \in Slot, NEW x \in Sockets, SocketOrder(x),
         x.listening /\ s # client[c].current => Fresh(x),
         s = client[c].current => CurrentOrder(log, client[c], x)
  PROVE  Orders(log, [sock EXCEPT ![c][s] = x])
<1> DEFINE t == [sock EXCEPT ![c][s] = x]
<1> SUFFICES ASSUME NEW b \in Client PROVE TabOrder(log, [p |-> client[b], s |-> t[b]])
  BY DEF Orders
<1>1. /\ TabOrder(log, Tab(b)) /\ Tab(b) \in Tabs /\ Tab(b).p = client[b] /\ Tab(b).s = sock[b]
      /\ client[b] \in Providers /\ sock \in [Client -> [Slot -> Sockets]]
  BY TabOrderNow DEF IInv
<1>2. CASE b # c
  <2>1. t[b] = sock[b]
    BY <1>1, <1>2
  <2> HIDE DEF t
  <2>2. [p |-> client[b], s |-> t[b]] = Tab(b)
    BY <2>1 DEF Tab
  <2> QED
    BY <1>1, <2>2
<1>3. CASE b = c
  <2>1. t[b] = [sock[b] EXCEPT ![s] = x]
    BY <1>1, <1>3
  <2> HIDE DEF t
  <2>2. PageOrder(client[b]) /\ (client[b].current # 0 => CurrentOrder(log, client[b], sock[b][client[b].current]))
    BY <1>1 DEF TabOrder
  <2>3. TabOrder(log, [p |-> client[b], s |-> [sock[b] EXCEPT ![s] = x]])
    BY <1>1, <1>3, <2>2, OneSocketOrder
  <2> QED
    BY <2>1, <2>3
<1> QED
  BY <1>2, <1>3

(* What a socket promises before a step. *)
LEMMA SocketNow ==
  ASSUME IInv, OrderInv, NEW c \in Client, NEW s \in Slot
  PROVE  /\ sock[c][s] \in Sockets /\ SocketOrder(sock[c][s])
         /\ sock[c][s].up \in Seq(Ups) /\ sock[c][s].down \in Seq(Downs)
         /\ sock[c][s].listening /\ s # client[c].current => Fresh(sock[c][s])
         /\ s = client[c].current => CurrentOrder(log, client[c], sock[c][s])
         /\ client[c] \in Providers /\ log \in Replicas /\ sock \in [Client -> [Slot -> Sockets]]
<1>1. sock[c][s] \in Sockets /\ client[c] \in Providers /\ sock \in [Client -> [Slot -> Sockets]] /\ log \in Replicas
  BY DEF IInv
<1>2. TabOrder(log, Tab(c)) /\ Tab(c).p = client[c] /\ Tab(c).s = sock[c]
  BY TabOrderNow
<1>3. sock[c][s].up \in Seq(Ups) /\ sock[c][s].down \in Seq(Downs)
  BY <1>1 DEF Sockets
<1> QED
  BY <1>1, <1>2, <1>3, ZeroIsNoSlot DEF TabOrder, SocketsOrder

(* A frame of a socket is served. *)
LEMMA UpTail ==
  ASSUME NEW x \in Sockets, SocketOrder(x), x.up # <<>>, NEW y, y.up = Tail(x.up), y.state = x.state,
         Head(x.up).kind # "unsubscribe" => (x.joined => y.joined),
         \A k \in 1..Len(y.down) : y.down[k].kind # "refresh_required",
         y.state = "open" /\ y.down # <<>> => y.joined
  PROVE  SocketOrder(y)
<1> DEFINE up == x.up
           t == Tail(up)
<1>1. /\ Len(up) \in Nat \ {0} /\ Head(up) = up[1] /\ Len(t) = Len(up) - 1
      /\ \A i \in 1..Len(t) : t[i] = up[i + 1]
  <2>1. up \in Seq(Ups)
    BY DEF Sockets
  <2> QED
    BY <2>1, HeadTailProperties, EmptySeq
<1>2. y.up = t
  OBVIOUS
<1>o. /\ \A k \in 1..Len(up) : /\ up[k].kind = "unsubscribe" => x.state = "closed"
                               /\ up[k].kind = "update" =>
                                    x.joined /\ \A j \in 1..(k - 1) : up[j].kind # "unsubscribe"
      /\ x.state # "connecting"
  BY DEF SocketOrder, Fresh
<1>h. Head(up).kind # "unsubscribe" => (x.joined => y.joined)
  OBVIOUS
<1> HIDE DEF up, t
<1>3. \A k \in 1..Len(t) : /\ k + 1 \in 1..Len(up) /\ (k + 1) - 1 = k /\ 1 \in 1..k
                           /\ \A j \in 1..(k - 1) : j + 1 \in 1..k /\ t[j] = up[j + 1]
  BY <1>1
<1>4. ASSUME NEW k \in 1..Len(t), t[k].kind = "update"
      PROVE  y.joined /\ \A j \in 1..(k - 1) : t[j].kind # "unsubscribe"
  <2>1. x.joined /\ \A j \in 1..k : up[j].kind # "unsubscribe"
    BY <1>1, <1>3, <1>4, <1>o
  <2> QED
    BY <1>1, <1>3, <1>h, <2>1
<1>5. \A k \in 1..Len(t) : t[k].kind = "unsubscribe" => y.state = "closed"
  BY <1>1, <1>3, <1>o
<1> QED
  BY <1>2, <1>4, <1>5, <1>o DEF SocketOrder

(* The frame before a reply: it is served on a socket the page is connected on, or has left. *)
LEMMA Spoken ==
  ASSUME IInv, OrderInv, NEW c \in Client, NEW s \in Slot, sock[c][s].up # <<>>
  PROVE  /\ sock[c][s].listening => s = client[c].current
         /\ s = client[c].current => client[c].connected
BY SocketNow DEF Fresh, CurrentOrder

(* A frame joins what is on its way to a tab that its socket has in the room. *)
LEMMA DownOrder ==
  ASSUME NEW down \in Seq(Downs), NEW frame \in Downs, frame.kind # "refresh_required",
         \A k \in 1..Len(down) : down[k].kind # "refresh_required"
  PROVE  \A k \in 1..Len(Append(down, frame)) : Append(down, frame)[k].kind # "refresh_required"
<1> DEFINE t == Append(down, frame)
           n == Len(down)
<1>1. Len(t) = n + 1 /\ n \in Nat /\ (\A i \in 1..n : t[i] = down[i]) /\ t[n + 1] = frame
  BY AppendAt
<1> HIDE DEF t
<1>2. \A k \in 1..Len(t) : k \in 1..n \/ k = n + 1
  BY <1>1
<1> QED
  BY <1>1, <1>2 DEF t

(* What a socket becomes as its first frame is taken, and as it is answered. *)
FirstServed(x) == [x EXCEPT !.up = Tail(x.up)]
Answered(x, frame) == IF x.state = "open" THEN [x EXCEPT !.down = Append(x.down, frame)] ELSE x

With(c, s, x) == [sock EXCEPT ![c][s] = x]

LEMMA TakenIs ==
  ASSUME sock \in [Client -> [Slot -> Sockets]], NEW c \in Client, NEW s \in Slot
  PROVE  Taken(c, s) = With(c, s, FirstServed(sock[c][s]))
BY DEF Taken, FirstServed, With

LEMMA ReplySet ==
  ASSUME sock \in [Client -> [Slot -> Sockets]], NEW c \in Client, NEW s \in Slot, NEW x, NEW frame
  PROVE  Reply(With(c, s, x), c, s, frame) = With(c, s, Answered(x, frame))
<1> DEFINE t == With(c, s, x)
           y == [x EXCEPT !.down = Append(x.down, frame)]
<1>1. t[c][s] = x
  BY DEF With
<1>2. [t EXCEPT ![c][s].down = Append(@, frame)] = [t EXCEPT ![c][s] = y]
  BY <1>1
<1>3. \A z : [t EXCEPT ![c][s] = z] = With(c, s, z)
  BY DEF With
<1>4. Answered(x, frame) = IF x.state = "open" THEN y ELSE x
  BY DEF Answered
<1> HIDE DEF y
<1>6. Reply(t, c, s, frame) = IF x.state = "open" THEN [t EXCEPT ![c][s] = y] ELSE t
  BY <1>1, <1>2 DEF Reply
<1> QED
  BY <1>3, <1>4, <1>6

LEMMA SubscribeOrder == ASSUME IInv, OrderInv, NEW c \in Client, NEW s \in Slot, Subscribe(c, s) PROVE OrderInv'
<1> DEFINE x == sock[c][s]
           admission == Signal("admitted")
           state == Frame("sync", State(log))
           one == Append(x.down, admission)
           two == Append(one, state)
           down == IF x.state = "open" THEN two ELSE x.down
           y == [x EXCEPT !.up = Tail(x.up), !.down = down, !.joined = TRUE]
<1>1. /\ x.up # <<>> /\ Head(x.up).kind = "subscribe" /\ client' = client /\ log' = log
      /\ sock' = [Reply(Reply(Taken(c, s), c, s, admission), c, s, state) EXCEPT ![c][s].joined = TRUE]
  BY DEF Subscribe, Serves
<1>2. /\ x \in Sockets /\ SocketOrder(x) /\ x.up \in Seq(Ups) /\ x.down \in Seq(Downs)
      /\ sock \in [Client -> [Slot -> Sockets]] /\ log \in Replicas /\ client[c] \in Providers
      /\ s = client[c].current => CurrentOrder(log, client[c], x)
  BY SocketNow
<1>3. /\ admission \in Downs /\ admission.kind = "admitted"
      /\ state \in Downs /\ state.kind = "sync" /\ state.body = State(log)
  BY <1>2, StateInside DEF Signal, Frame, Downs
<1> HIDE DEF admission, state
<1> DEFINE taken == FirstServed(x)
           once == Answered(taken, admission)
           twice == Answered(once, state)
<1>a. /\ taken.up = Tail(x.up) /\ taken.state = x.state /\ taken.down = x.down
      /\ taken = [x EXCEPT !.up = Tail(x.up)]
  BY <1>2 DEF FirstServed, Sockets
<1>b. [twice EXCEPT !.joined = TRUE] = y
  <2>1. CASE x.state = "open"
    <3>1. once = [x EXCEPT !.up = Tail(x.up), !.down = one]
      BY <1>2, <2>1, <1>a DEF Answered, Sockets
    <3>2. once.state = "open" /\ once.down = one
      BY <1>2, <2>1, <3>1 DEF Sockets
    <3> HIDE DEF once, one
    <3>3. twice = [once EXCEPT !.down = two]
      BY <3>2 DEF Answered
    <3> HIDE DEF two, twice
    <3>4. twice = [x EXCEPT !.up = Tail(x.up), !.down = two]
      BY <1>2, <3>1, <3>3 DEF Sockets
    <3> QED
      BY <1>2, <2>1, <3>4 DEF Sockets
  <2>2. CASE x.state # "open"
    <3>1. once = taken /\ twice = taken
      BY <1>a, <2>2 DEF Answered
    <3> QED
      BY <1>2, <2>2, <3>1, <1>a DEF Sockets
  <2> QED
    BY <2>1, <2>2
<1>4. sock' = [sock EXCEPT ![c][s] = y]
  <2>1. Taken(c, s) = With(c, s, taken)
    BY <1>2, TakenIs
  <2>2. Reply(With(c, s, taken), c, s, admission) = With(c, s, once)
    BY <1>2, ReplySet
  <2>3. Reply(With(c, s, once), c, s, state) = With(c, s, twice)
    BY <1>2, ReplySet
  <2> HIDE DEF taken, once, twice
  <2>4. sock' = [With(c, s, twice) EXCEPT ![c][s].joined = TRUE]
    BY <1>1, <2>1, <2>2, <2>3
  <2>5. [With(c, s, twice) EXCEPT ![c][s].joined = TRUE] = [sock EXCEPT ![c][s] = [twice EXCEPT !.joined = TRUE]]
    BY <1>2 DEF With
  <2> HIDE DEF y
  <2> QED
    BY <1>b, <2>4, <2>5
<1> HIDE DEF taken, once, twice
<1>5. one \in Seq(Downs) /\ two \in Seq(Downs) /\ Tail(x.up) \in Seq(Ups)
  BY <1>1, <1>2, <1>3, AppendAt, HeadTailProperties
<1>6. down \in Seq(Downs) /\ (x.state = "open" => down = two) /\ (x.state # "open" => down = x.down)
  BY <1>2, <1>5
<1> HIDE DEF down
<1>7. /\ y \in Sockets /\ y.up = Tail(x.up) /\ y.down = down /\ y.joined /\ y.state = x.state
      /\ y.listening = x.listening
  BY <1>2, <1>5, <1>6 DEF Sockets
<1>8. \A k \in 1..Len(down) : down[k].kind # "refresh_required"
  <2>1. \A k \in 1..Len(x.down) : x.down[k].kind # "refresh_required"
    BY <1>2 DEF SocketOrder
  <2>2. \A k \in 1..Len(one) : one[k].kind # "refresh_required"
    BY <1>2, <1>3, <2>1, DownOrder
  <2> HIDE DEF one
  <2>3. \A k \in 1..Len(two) : two[k].kind # "refresh_required"
    BY <1>3, <1>5, <2>2, DownOrder
  <2> QED
    BY <1>6, <2>1, <2>3
<1> HIDE DEF y, x
<1>9. SocketOrder(y)
  BY <1>1, <1>2, <1>7, <1>8, UpTail
<1>10. (x.listening => s = client[c].current) /\ (s = client[c].current => client[c].connected)
  BY <1>1, Spoken DEF x
<1>11. ASSUME s = client[c].current, x.state = "open" PROVE Stream(log, client[c], y)
  <2> DEFINE p == client[c]
  <2>1. Stream(log, p, x)
    BY <1>2, <1>11 DEF CurrentOrder
  <2>2. /\ Announced(p.admitted, one) /\ Admits(p.admitted, one) /\ Linked(p.doc, one)
    BY <1>2, <1>3, <2>1, StreamAppend DEF Stream, Carries
  <2> HIDE DEF one
  <2>3. /\ Announced(p.admitted, two) /\ Admits(p.admitted, two) /\ Linked(p.doc, two)
        /\ \A a \in Author, n \in Nat : n <= state.body.to[a] => Reaches(p.doc, two, a, n)
    BY <1>3, <1>5, <2>2, StreamAppend DEF Carries
  <2>4. \A a \in Author : log.seen[a] \in Nat /\ log.seen[a] <= state.body.to[a]
    BY <1>2, <1>3 DEF State, Replicas, Vectors
  <2>5. y.down = two
    BY <1>6, <1>7, <1>11
  <2> HIDE DEF two
  <2> QED
    BY <1>7, <2>3, <2>4, <2>5 DEF Stream
<1>12. s = client[c].current => CurrentOrder(log, client[c], y)
  <2> SUFFICES ASSUME s = client[c].current PROVE CurrentOrder(log, client[c], y)
    OBVIOUS
  <2> QED
    BY <1>2, <1>7, <1>10, <1>11 DEF CurrentOrder
<1>13. y.listening => s = client[c].current
  BY <1>7, <1>10
<1>14. Orders(log, sock')
  BY <1>4, <1>7, <1>9, <1>12, <1>13, SetOrders
<1> QED
  BY <1>1, <1>14, ServedOrders

LEMMA UnsubscribeOrder == ASSUME IInv, OrderInv, NEW c \in Client, NEW s \in Slot, Unsubscribe(c, s) PROVE OrderInv'
<1> DEFINE x == sock[c][s]
           y == [x EXCEPT !.up = Tail(x.up), !.joined = FALSE]
<1>1. /\ x.up # <<>> /\ Head(x.up).kind = "unsubscribe" /\ client' = client /\ log' = log
      /\ sock' = [Taken(c, s) EXCEPT ![c][s].joined = FALSE]
  BY DEF Unsubscribe, Serves
<1>2. /\ x \in Sockets /\ SocketOrder(x) /\ x.up \in Seq(Ups)
      /\ sock \in [Client -> [Slot -> Sockets]]
      /\ s = client[c].current => CurrentOrder(log, client[c], x)
  BY SocketNow
<1>3. sock' = [sock EXCEPT ![c][s] = y]
  BY <1>1, <1>2 DEF Taken, Sockets
<1>4. /\ Len(x.up) \in Nat \ {0} /\ Head(x.up) = x.up[1] /\ Tail(x.up) \in Seq(Ups)
  BY <1>1, <1>2, HeadTailProperties, EmptySeq
<1>5. x.state = "closed"
  BY <1>1, <1>2, <1>4 DEF SocketOrder
<1>6. /\ y \in Sockets /\ y.up = Tail(x.up) /\ y.down = x.down /\ y.state = x.state
      /\ y.listening = x.listening
  BY <1>2, <1>4 DEF Sockets
<1> HIDE DEF y, x
<1>7. SocketOrder(y)
  <2>1. \A k \in 1..Len(y.down) : y.down[k].kind # "refresh_required"
    BY <1>2, <1>6 DEF SocketOrder
  <2> QED
    BY <1>1, <1>2, <1>5, <1>6, <2>1, UpTail
<1>8. (x.listening => s = client[c].current) /\ (s = client[c].current => client[c].connected)
  BY <1>1, Spoken DEF x
<1>9. s = client[c].current => CurrentOrder(log, client[c], y)
  BY <1>2, <1>5, <1>6, <1>8 DEF CurrentOrder
<1>10. y.listening => s = client[c].current
  BY <1>6, <1>8
<1>11. Orders(log, sock')
  BY <1>3, <1>6, <1>7, <1>9, <1>10, SetOrders
<1> QED
  BY <1>1, <1>11, ServedOrders

(* An update is served on a socket that is in the room. *)
LEMMA UpdateJoined ==
  ASSUME NEW x \in Sockets, SocketOrder(x), x.up # <<>>, Head(x.up).kind = "update"
  PROVE  x.joined
<1>1. x.up \in Seq(Ups)
  BY DEF Sockets
<1>2. Head(x.up) = x.up[1] /\ 1 \in 1..Len(x.up)
  BY <1>1, HeadTailProperties, EmptySeq, LenProperties
<1> QED
  BY <1>2 DEF SocketOrder

LEMMA FirstServedOrder ==
  ASSUME NEW x \in Sockets, SocketOrder(x), x.up # <<>>, Head(x.up).kind = "update"
  PROVE  /\ FirstServed(x) \in Sockets /\ SocketOrder(FirstServed(x))
         /\ FirstServed(x).up = Tail(x.up) /\ FirstServed(x).down = x.down /\ FirstServed(x).state = x.state
         /\ FirstServed(x).listening = x.listening /\ FirstServed(x).joined = x.joined
<1> DEFINE y == FirstServed(x)
<1>1. x.up \in Seq(Ups) /\ Tail(x.up) \in Seq(Ups)
  <2>1. x.up \in Seq(Ups)
    BY DEF Sockets
  <2> QED
    BY <2>1, HeadTailProperties
<1>2. /\ y \in Sockets /\ y.up = Tail(x.up) /\ y.down = x.down /\ y.state = x.state
      /\ y.listening = x.listening /\ y.joined = x.joined
  BY <1>1 DEF FirstServed, Sockets
<1> HIDE DEF y
<1>3. x.joined /\ \A k \in 1..Len(y.down) : y.down[k].kind # "refresh_required"
  BY <1>2, UpdateJoined DEF SocketOrder
<1>4. SocketOrder(y)
  BY <1>2, <1>3, UpTail
<1> QED
  BY <1>2, <1>4 DEF y

(* An update that is not taken is answered with an error. *)
LEMMA ErrorOrder ==
  ASSUME IInv, OrderInv, NEW c \in Client, NEW s \in Slot, Serves(c, s, "update"),
         client' = client, log' = log, sock' = Reply(Taken(c, s), c, s, Signal("error"))
  PROVE  OrderInv'
<1> DEFINE x == sock[c][s]
           frame == Signal("error")
           first == FirstServed(x)
           y == Answered(first, frame)
<1>1. x.up # <<>> /\ Head(x.up).kind = "update"
  BY DEF Serves
<1>2. /\ x \in Sockets /\ SocketOrder(x) /\ x.down \in Seq(Downs)
      /\ sock \in [Client -> [Slot -> Sockets]]
      /\ s = client[c].current => CurrentOrder(log, client[c], x)
  BY SocketNow
<1>3. frame \in Downs /\ frame.kind = "error"
  BY DEF Signal, Downs
<1> HIDE DEF frame
<1>4. sock' = With(c, s, y)
  <2>1. Taken(c, s) = With(c, s, first)
    BY <1>2, TakenIs
  <2>2. Reply(With(c, s, first), c, s, frame) = With(c, s, y)
    BY <1>2, ReplySet
  <2> QED
    BY <2>1, <2>2 DEF frame
<1>5. (x.listening => s = client[c].current) /\ (s = client[c].current => client[c].connected)
  BY <1>1, Spoken
<1> HIDE DEF x
<1>6. /\ first \in Sockets /\ SocketOrder(first) /\ first.up = Tail(x.up) /\ first.down = x.down
      /\ first.state = x.state /\ first.listening = x.listening /\ first.joined = x.joined /\ x.joined
  BY <1>1, <1>2, FirstServedOrder, UpdateJoined
<1> HIDE DEF first
<1>7. /\ y \in Sockets /\ y.up = first.up /\ y.state = x.state /\ y.listening = x.listening
      /\ y.joined = x.joined /\ y.down = IF x.state = "open" THEN Append(x.down, frame) ELSE x.down
  <2>1. Append(x.down, frame) \in Seq(Downs)
    BY <1>2, <1>3, AppendAt
  <2> QED
    BY <1>6, <2>1 DEF Answered, Sockets
<1> HIDE DEF y
<1>8. \A k \in 1..Len(y.down) : y.down[k].kind # "refresh_required"
  <2>1. \A k \in 1..Len(x.down) : x.down[k].kind # "refresh_required"
    BY <1>2 DEF SocketOrder
  <2>2. \A k \in 1..Len(Append(x.down, frame)) : Append(x.down, frame)[k].kind # "refresh_required"
    BY <1>2, <1>3, <2>1, DownOrder
  <2> QED
    BY <1>7, <2>1, <2>2
<1>9. SocketOrder(y)
  BY <1>1, <1>2, <1>6, <1>7, <1>8, UpTail
<1>10. ASSUME s = client[c].current, x.state = "open" PROVE Stream(log, client[c], y)
  <2> DEFINE p == client[c]
  <2>1. Stream(log, p, x)
    BY <1>2, <1>10 DEF CurrentOrder
  <2>2. \A a \in Author : log.seen[a] \in Nat
    BY DEF IInv, Replicas, Vectors
  <2>3. y.down = Append(x.down, frame) /\ ~Carries(frame) /\ frame.kind # "update"
    BY <1>3, <1>7, <1>10 DEF Carries
  <2>4. /\ Announced(p.admitted, x.down) /\ Linked(p.doc, x.down) /\ Admits(p.admitted, x.down)
        /\ \A a \in Author : Reaches(p.doc, x.down, a, log.seen[a])
    BY <1>6, <2>1 DEF Stream
  <2> HIDE DEF p
  <2> DEFINE t == Append(x.down, frame)
  <2>5. /\ Announced(p.admitted, t) /\ Linked(p.doc, t) /\ Admits(p.admitted, t)
        /\ \A a \in Author : Reaches(p.doc, t, a, log.seen[a])
    BY <1>2, <1>3, <2>2, <2>3, <2>4, StreamAppend
  <2>6. y.down = t /\ y.joined
    BY <1>6, <1>7, <2>3
  <2> HIDE DEF t
  <2> QED
    BY <2>5, <2>6 DEF Stream, p
<1>11. s = client[c].current => CurrentOrder(log, client[c], y)
  <2> SUFFICES ASSUME s = client[c].current PROVE CurrentOrder(log, client[c], y)
    OBVIOUS
  <2> QED
    BY <1>2, <1>5, <1>7, <1>10 DEF CurrentOrder
<1>12. y.listening => s = client[c].current
  BY <1>5, <1>7
<1>13. Orders(log, With(c, s, y))
  BY <1>7, <1>9, <1>11, <1>12, SetOrders DEF With
<1> QED
  BY <1>4, <1>13, ServedOrders

(* What a socket becomes as the room hears of an update. *)
Heard(x, u) ==
  IF x.joined /\ x.state = "open" THEN [x EXCEPT !.down = Append(x.down, Frame("update", u))] ELSE x

LEMMA HeardIs ==
  ASSUME NEW x \in Sockets, SocketOrder(x), NEW u \in Updates
  PROVE  LET y == Heard(x, u) IN
         /\ y \in Sockets /\ SocketOrder(y) /\ y.up = x.up /\ y.state = x.state /\ y.joined = x.joined
         /\ y.listening = x.listening
         /\ y.down = IF x.joined /\ x.state = "open" THEN Append(x.down, Frame("update", u)) ELSE x.down
<1> DEFINE frame == Frame("update", u)
           y == Heard(x, u)
<1>1. x.down \in Seq(Downs) /\ x.up \in Seq(Ups)
  BY DEF Sockets
<1>2. frame \in Downs /\ frame.kind = "update"
  BY DEF Frame, Downs
<1> HIDE DEF frame
<1>3. Append(x.down, frame) \in Seq(Downs)
  BY <1>1, <1>2, AppendAt
<1>4. /\ y \in Sockets /\ y.up = x.up /\ y.state = x.state /\ y.joined = x.joined /\ y.listening = x.listening
      /\ y.down = IF x.joined /\ x.state = "open" THEN Append(x.down, frame) ELSE x.down
  BY <1>1, <1>3 DEF Heard, Sockets, frame
<1> HIDE DEF y
<1>5. \A k \in 1..Len(y.down) : y.down[k].kind # "refresh_required"
  <2>1. \A k \in 1..Len(x.down) : x.down[k].kind # "refresh_required"
    BY DEF SocketOrder
  <2>2. \A k \in 1..Len(Append(x.down, frame)) : Append(x.down, frame)[k].kind # "refresh_required"
    BY <1>1, <1>2, <2>1, DownOrder
  <2> QED
    BY <1>4, <2>1, <2>2
<1>6. SocketOrder(y)
  BY <1>4, <1>5 DEF SocketOrder, Fresh
<1> QED
  BY <1>4, <1>6 DEF y, frame

(* The stream goes on with the update the log has just taken. *)
LEMMA HeardStream ==
  ASSUME NEW L \in Replicas, NEW u \in Updates, Fits(L, u), NEW p \in Providers, NEW x \in Sockets,
         SocketOrder(x), Stream(L, p, x), x.state = "open"
  PROVE  Stream(Merge(L, u), p, Heard(x, u))
<1> DEFINE M == Merge(L, u)
           y == Heard(x, u)
           frame == Frame("update", u)
<1>1. /\ y.joined = x.joined /\ x.down \in Seq(Downs)
      /\ y.down = IF x.joined THEN Append(x.down, frame) ELSE x.down
  BY HeardIs DEF Sockets
<1>2. frame \in Downs /\ frame.kind = "update" /\ frame.body = u /\ Carries(frame)
  BY DEF Frame, Downs, Carries
<1>3. \A a \in Author : /\ L.seen[a] \in Nat /\ u.to[a] \in Nat /\ u.from[a] \in Nat /\ p.doc.seen[a] \in Nat
                        /\ M.seen[a] = IF u.to[a] > L.seen[a] THEN u.to[a] ELSE L.seen[a]
  <2>1. p.doc \in Replicas
    BY DEF Providers
  <2> QED
    BY <2>1, MergeParts DEF Replicas, Updates, Vectors
<1> SUFFICES Stream(M, p, y)
  OBVIOUS
<1> HIDE DEF M, y, frame
<1>4. CASE ~x.joined
  <2>1. y.down = x.down /\ ~y.joined
    BY <1>1, <1>4
  <2>2. Announced(p.admitted, x.down) /\ Linked(p.doc, x.down) /\ ~p.admitted
    BY <1>4 DEF Stream
  <2> QED
    BY <2>1, <2>2 DEF Stream
<1>5. CASE x.joined
  <2> DEFINE t == Append(x.down, frame)
             d == p.doc
  <2>1. /\ Announced(p.admitted, x.down) /\ Linked(d, x.down) /\ Admits(p.admitted, x.down)
        /\ \A a \in Author : Reaches(d, x.down, a, L.seen[a])
    BY <1>5 DEF Stream
  <2>2. ASSUME NEW a \in Author, u.from[a] < u.to[a] PROVE Reaches(d, x.down, a, u.from[a])
    <3>1. u.from[a] <= L.seen[a] /\ Reaches(d, x.down, a, L.seen[a])
      BY <2>1, <2>2 DEF Fits
    <3>2. \A k \in 1..Len(x.down) : Carries(x.down[k]) => x.down[k].body.to[a] \in Nat
      <4> SUFFICES ASSUME NEW k \in 1..Len(x.down), Carries(x.down[k]) PROVE x.down[k].body.to[a] \in Nat
        OBVIOUS
      <4>1. x.down[k] \in Downs
        BY <1>1, ElementOfSeq
      <4> QED
        BY <4>1 DEF Carries, Downs, Updates, Vectors
    <3> QED
      BY <1>3, <3>1, <3>2 DEF Reaches
  <2> HIDE DEF d
  <2>3. /\ Announced(p.admitted, t) /\ Admits(p.admitted, t) /\ Linked(d, t)
        /\ \A a \in Author, n \in Nat : Reaches(d, x.down, a, n) => Reaches(d, t, a, n)
        /\ \A a \in Author, n \in Nat : n <= u.to[a] => Reaches(d, t, a, n)
    BY <1>1, <1>2, <2>1, <2>2, StreamAppend
  <2> HIDE DEF t
  <2>4. ASSUME NEW a \in Author PROVE Reaches(d, t, a, M.seen[a])
    <3>1. CASE u.to[a] > L.seen[a]
      BY <1>3, <2>3, <3>1
    <3>2. CASE ~(u.to[a] > L.seen[a])
      BY <1>3, <2>1, <2>3, <3>2
    <3> QED
      BY <3>1, <3>2
  <2>5. y.down = t /\ y.joined
    BY <1>1, <1>5 DEF t
  <2> QED
    BY <2>3, <2>4, <2>5 DEF Stream, d
<1> QED
  BY <1>4, <1>5

LEMMA BroadcastOrder ==
  ASSUME NEW L \in Replicas, NEW u \in Updates, Fits(L, u), NEW w \in Tabs, TabOrder(L, w),
         NEW v \in Tabs, v.p = w.p, \A i \in Slot : v.s[i] = Heard(w.s[i], u)
  PROVE  TabOrder(Merge(L, u), v)
<1>1. w.p \in Providers /\ w.s \in [Slot -> Sockets] /\ (w.p.current # 0 => w.p.current \in Slot)
  BY SlotParts DEF Providers, Tabs
<1>2. \A i \in Slot : /\ w.s[i] \in Sockets /\ SocketOrder(w.s[i])
                      /\ (w.s[i].listening /\ i # w.p.current => Fresh(w.s[i]))
  BY <1>1 DEF TabOrder, SocketsOrder
<1>3. \A i \in Slot : LET y == Heard(w.s[i], u) IN
                      /\ SocketOrder(y) /\ y.listening = w.s[i].listening /\ y.state = w.s[i].state
                      /\ Fresh(w.s[i]) => Fresh(y)
  <2> TAKE i \in Slot
  <2> QED
    BY <1>2, HeardIs DEF Fresh
<1>4. SocketsOrder(v.p, v.s)
  BY <1>2, <1>3 DEF SocketsOrder
<1>5. ASSUME w.p.current # 0 PROVE CurrentOrder(Merge(L, u), v.p, v.s[v.p.current])
  <2> DEFINE k == w.p.current
  <2>1. k \in Slot /\ CurrentOrder(L, w.p, w.s[k])
    BY <1>1, <1>5 DEF TabOrder
  <2>2. w.s[k].state = "open" => Stream(Merge(L, u), w.p, Heard(w.s[k], u))
    BY <1>1, <1>2, <2>1, HeardStream DEF CurrentOrder
  <2> QED
    BY <1>3, <2>1, <2>2 DEF CurrentOrder
<1> QED
  BY <1>4, <1>5 DEF TabOrder

LEMMA MergeOrder ==
  ASSUME IInv, client' = client, NEW u \in Updates, Fits(log, u), log' = Merge(log, u),
         NEW socks \in [Client -> [Slot -> Sockets]], Orders(log, socks), sock' = Broadcast(socks, u)
  PROVE  OrderInv'
<1> SUFFICES ASSUME NEW c \in Client PROVE TabOrder(log', [p |-> client[c], s |-> sock'[c]])
  BY ServedOrders DEF Orders
<1> DEFINE w == [p |-> client[c], s |-> socks[c]]
           v == [p |-> client[c], s |-> sock'[c]]
<1>1. log \in Replicas /\ client[c] \in Providers /\ socks[c] \in [Slot -> Sockets]
  BY DEF IInv
<1>2. w \in Tabs /\ TabOrder(log, w) /\ w.p = client[c] /\ w.s = socks[c]
  BY <1>1 DEF Orders, Tabs
<1>3. \A i \in Slot : sock'[c][i] = Heard(socks[c][i], u)
  BY DEF Broadcast, Heard
<1>4. \A i \in Slot : Heard(socks[c][i], u) \in Sockets
  <2> TAKE i \in Slot
  <2>1. socks[c][i] \in Sockets /\ SocketOrder(socks[c][i])
    BY <1>1, <1>2 DEF TabOrder, SocketsOrder
  <2> QED
    BY <2>1, HeardIs
<1>5. sock'[c] \in [Slot -> Sockets]
  <2>1. sock'[c] = [i \in Slot |-> Heard(socks[c][i], u)]
    BY DEF Broadcast, Heard
  <2> QED
    BY <1>4, <2>1
<1>6. v \in Tabs /\ v.p = w.p /\ v.s = sock'[c]
  BY <1>1, <1>5 DEF Tabs
<1>7. \A i \in Slot : v.s[i] = Heard(w.s[i], u)
  BY <1>2, <1>3, <1>6
<1> HIDE DEF w, v
<1>8. TabOrder(Merge(log, u), v)
  BY <1>1, <1>2, <1>6, <1>7, BroadcastOrder
<1> QED
  BY <1>8 DEF v

LEMMA AcceptOrder == ASSUME IInv, OrderInv, NEW c \in Client, NEW s \in Slot, AcceptUpdate(c, s) PROVE OrderInv'
<1> DEFINE x == sock[c][s]
           first == FirstServed(x)
           u == Head(x.up).body
<1>1. x.up # <<>> /\ Head(x.up).kind = "update" /\ client' = client /\ Serves(c, s, "update")
  BY DEF AcceptUpdate, Serves
<1>2. /\ x \in Sockets /\ SocketOrder(x) /\ x.up \in Seq(Ups)
      /\ sock \in [Client -> [Slot -> Sockets]]
      /\ s = client[c].current => CurrentOrder(log, client[c], x)
      /\ x.listening /\ s # client[c].current => Fresh(x)
  BY SocketNow
<1>3. x.joined
  BY <1>1, <1>2, UpdateJoined
<1>4. \/ log' = log /\ sock' = Reply(Taken(c, s), c, s, Signal("error"))
      \/ Fits(log, u) /\ log' = Merge(log, u) /\ sock' = Broadcast(Taken(c, s), u)
  BY <1>3 DEF AcceptUpdate
<1>5. CASE log' = log /\ sock' = Reply(Taken(c, s), c, s, Signal("error"))
  BY <1>1, <1>5, ErrorOrder
<1>6. CASE Fits(log, u) /\ log' = Merge(log, u) /\ sock' = Broadcast(Taken(c, s), u)
  <2>1. /\ first \in Sockets /\ SocketOrder(first) /\ first.up = Tail(x.up) /\ first.down = x.down
        /\ first.state = x.state /\ first.listening = x.listening /\ first.joined = x.joined
    BY <1>1, <1>2, FirstServedOrder
  <2>2. (x.listening => s = client[c].current) /\ (s = client[c].current => client[c].connected)
    BY <1>1, Spoken
  <2>3. Taken(c, s) = With(c, s, first)
    BY <1>2, TakenIs
  <2>4. u \in Updates
    BY <1>1, TakenWires DEF Ups
  <2> HIDE DEF first, u, x
  <2>5. s = client[c].current => CurrentOrder(log, client[c], first)
    <3> SUFFICES ASSUME s = client[c].current PROVE CurrentOrder(log, client[c], first)
      OBVIOUS
    <3> QED
      BY <1>2, <2>1, <2>2 DEF CurrentOrder, Stream
  <2>6. first.listening => s = client[c].current
    BY <2>1, <2>2
  <2>7. Orders(log, Taken(c, s))
    <3>1. Orders(log, With(c, s, first))
      BY <2>1, <2>5, <2>6, SetOrders DEF With
    <3> QED
      BY <2>3, <3>1
  <2>8. Taken(c, s) \in [Client -> [Slot -> Sockets]]
    BY <1>2, <2>1, <2>3 DEF With
  <2> QED
    BY <1>1, <1>6, <2>4, <2>7, <2>8, MergeOrder
<1> QED
  BY <1>4, <1>5, <1>6

LEMMA ImportOrder == ASSUME IInv, OrderInv, ImportExternal PROVE OrderInv'
<1> DEFINE u == NextEdit(Disk, log)
<1>1. u \in Updates /\ u.from = log.seen /\ log \in Replicas
  BY DEF IInv, NextEdit, Updates, Replicas, Vectors, Author
<1>2. client' = client /\ log' = Merge(log, u) /\ sock' = Broadcast(sock, u)
  BY DEF ImportExternal
<1> HIDE DEF u
<1>3. Fits(log, u)
  BY <1>1 DEF Fits, Replicas, Vectors
<1>4. Orders(log, sock) /\ sock \in [Client -> [Slot -> Sockets]]
  BY DEF Orders, OrderInv, Tab, IInv
<1> QED
  BY <1>1, <1>2, <1>3, <1>4, MergeOrder

(* A connection goes, first for the browser, then for the server. *)
LEMMA BreakOrder == ASSUME IInv, OrderInv, NEW c \in Client, NEW s \in Slot, Break(c, s) PROVE OrderInv'
<1> DEFINE x == sock[c][s]
           state == IF x.listening THEN "dead" ELSE "closed"
           y == [x EXCEPT !.state = state, !.down = <<>>]
<1>1. /\ x \in Sockets /\ SocketOrder(x)
      /\ sock \in [Client -> [Slot -> Sockets]]
      /\ s = client[c].current => CurrentOrder(log, client[c], x)
      /\ x.listening /\ s # client[c].current => Fresh(x)
  BY SocketNow
<1>2. /\ client' = client /\ log' = log /\ sock' = [sock EXCEPT ![c][s] = y]
      /\ x.state \in {"connecting", "open"}
  BY <1>1 DEF Break, Sockets
<1>3. <<>> \in Seq(Downs) /\ Len(<<>>) = 0
  BY EmptySeq
<1> HIDE DEF x
<1>4. /\ y \in Sockets /\ y.up = x.up /\ y.down = <<>> /\ y.joined = x.joined /\ y.listening = x.listening
      /\ y.state \in {"dead", "closed"}
  BY <1>1, <1>3 DEF Sockets
<1> HIDE DEF y, state
<1>5. SocketOrder(y)
  BY <1>1, <1>2, <1>3, <1>4 DEF SocketOrder
<1>6. Fresh(x) => Fresh(y)
  BY <1>4 DEF Fresh
<1>7. s = client[c].current => CurrentOrder(log, client[c], y)
  <2> SUFFICES ASSUME s = client[c].current PROVE CurrentOrder(log, client[c], y)
    OBVIOUS
  <2> QED
    BY <1>1, <1>4, <1>6 DEF CurrentOrder
<1>8. Orders(log, sock')
  BY <1>1, <1>2, <1>4, <1>5, <1>6, <1>7, SetOrders
<1> QED
  BY <1>2, <1>8, ServedOrders

LEMMA DisconnectOrder == ASSUME IInv, OrderInv, NEW c \in Client, NEW s \in Slot, Disconnect(c, s) PROVE OrderInv'
<1> DEFINE x == sock[c][s]
           y == [x EXCEPT !.serving = FALSE, !.joined = FALSE, !.up = <<>>]
<1>1. /\ x \in Sockets /\ SocketOrder(x)
      /\ sock \in [Client -> [Slot -> Sockets]]
      /\ s = client[c].current => CurrentOrder(log, client[c], x)
      /\ x.listening /\ s # client[c].current => Fresh(x)
  BY SocketNow
<1>2. /\ client' = client /\ log' = log /\ sock' = [sock EXCEPT ![c][s] = y]
      /\ x.state \in {"dead", "closed"}
  BY <1>1 DEF Disconnect, Sockets
<1>3. <<>> \in Seq(Ups) /\ Len(<<>>) = 0
  BY EmptySeq
<1> HIDE DEF x
<1>4. /\ y \in Sockets /\ y.up = <<>> /\ y.down = x.down /\ ~y.joined /\ y.listening = x.listening
      /\ y.state = x.state
  BY <1>1, <1>3 DEF Sockets
<1> HIDE DEF y
<1>5. SocketOrder(y)
  BY <1>1, <1>2, <1>3, <1>4 DEF SocketOrder
<1>6. Fresh(x) => Fresh(y)
  BY <1>4 DEF Fresh
<1>7. s = client[c].current => CurrentOrder(log, client[c], y)
  <2> SUFFICES ASSUME s = client[c].current PROVE CurrentOrder(log, client[c], y)
    OBVIOUS
  <2> QED
    BY <1>1, <1>2, <1>4, <1>6 DEF CurrentOrder
<1>8. Orders(log, sock')
  BY <1>1, <1>2, <1>4, <1>5, <1>6, <1>7, SetOrders
<1> QED
  BY <1>2, <1>8, ServedOrders

-----------------------------------------------------------------------------
LEMMA InitOrder == Init => OrderInv
<1> SUFFICES ASSUME Init, NEW c \in Client PROVE TabOrder(log, Tab(c))
  BY DEF OrderInv
<1> DEFINE p == [Provider EXCEPT !.current = 1]
           x == [NoSocket EXCEPT !.state = "connecting", !.listening = TRUE]
           w == Tab(c)
<1>1. w.p = p /\ \A k \in Slot : w.s[k] = IF k = 1 THEN x ELSE NoSocket
  BY DEF Init, Tab
<1>2. /\ ~p.refresh /\ ~p.retry /\ ~p.admitted /\ ~p.connected /\ p.current = 1 /\ p.inFlight = <<>>
  BY DEF Provider
<1>3. /\ x.up = <<>> /\ x.down = <<>> /\ ~x.joined /\ x.state = "connecting"
      /\ NoSocket.up = <<>> /\ NoSocket.down = <<>> /\ ~NoSocket.joined /\ NoSocket.state = "closed"
      /\ ~NoSocket.listening
  BY DEF NoSocket
<1>4. Len(<<>>) = 0 /\ 1 \in Slot
  BY EmptySeq, BoundAssumption DEF Slot
<1> HIDE DEF p, x, w
<1>5. Fresh(x) /\ Fresh(NoSocket) /\ SocketOrder(x) /\ SocketOrder(NoSocket)
  BY <1>3, <1>4 DEF SocketOrder, Fresh
<1>6. PageOrder(p)
  BY <1>2, <1>4 DEF PageOrder, Holds
<1>7. SocketsOrder(w.p, w.s)
  BY <1>1, <1>2, <1>3, <1>5 DEF SocketsOrder
<1>8. CurrentOrder(log, p, w.s[1])
  BY <1>1, <1>2, <1>3, <1>4, <1>5 DEF CurrentOrder
<1>9. TabOrder(log, w)
  BY <1>1, <1>2, <1>6, <1>7, <1>8 DEF TabOrder
<1> QED
  BY <1>9 DEF w

LEMMA TabStepsOrder ==
  ASSUME IInv, OrderInv, NEW c \in Client, User(c) \/ Listener(c) \/ Browser(c)
  PROVE  OrderInv'
<1>1. CASE User(c)
  BY <1>1, EditOrder, EraseOrder DEF User
<1>2. CASE Listener(c)
  <2>1. CASE Retry(c)
    BY <2>1, AttachOrder DEF Retry
  <2>2. CASE \E s \in Slot : Open(c, s) \/ Receive(c, s) \/ HearClose(c, s)
    BY <2>2, OpenOrder, ReceiveOrder, HearCloseOrder
  <2> QED
    BY <1>2, <2>1, <2>2 DEF Listener
<1>3. CASE Browser(c)
  <2>1. CASE ComeOnline(c)
    BY <2>1, AttachOrder DEF ComeOnline
  <2> QED
    BY <1>3, <2>1, GoOfflineOrder, ReloadOrder, DestroyOrder DEF Browser
<1> QED
  BY <1>1, <1>2, <1>3

(* A subscription that fails and a closed room are ruled out; every other refusal is one
   the tab recovers from. *)
LEMMA ServerStepsOrder ==
  ASSUME OnlyTransientTrouble, IInv, OrderInv, NEW c \in Client, NEW s \in Slot, Server(c, s) \/ Failure(c, s)
  PROVE  OrderInv'
<1>1. CASE Server(c, s)
  BY <1>1, SubscribeOrder, UnsubscribeOrder, AcceptOrder, DisconnectOrder DEF Server
<1>2. CASE SubscribeFails(c, s)
  BY <1>2 DEF SubscribeFails, Mishap, OnlyTransientTrouble
<1>3. CASE RefuseUpdate(c, s)
  BY <1>3, ErrorOrder DEF RefuseUpdate
<1> QED
  BY <1>1, <1>2, <1>3, BreakOrder DEF Failure

LEMMA NextOrder == OnlyTransientTrouble /\ IInv /\ OrderInv /\ [Next]_vars => OrderInv'
<1> SUFFICES ASSUME OnlyTransientTrouble, IInv, OrderInv, [Next]_vars PROVE OrderInv'
  OBVIOUS
<1>1. CASE UNCHANGED vars
  BY <1>1 DEF vars, OrderInv, Tab
<1>2. CASE Next
  <2>1. CASE \E c \in Client : User(c) \/ Listener(c) \/ Browser(c)
    BY <2>1, TabStepsOrder
  <2>2. CASE \E c \in Client, s \in Slot : Server(c, s) \/ Failure(c, s)
    BY <2>2, ServerStepsOrder
  <2>3. CASE CloseRoom
    BY <2>3 DEF CloseRoom, Mishap, OnlyTransientTrouble
  <2> QED
    BY <1>2, <2>1, <2>2, <2>3, ImportOrder DEF Next
<1> QED
  BY <1>1, <1>2

(* No tab of the server's own schema revision gives up (terminateForRefresh in sync.ts):
   whatever connections break, updates are refused, pages are reloaded and networks come and
   go, no frame comes before its admission, none leaves a gap in the document it is merged
   into, and none reaches the server for a room its socket is not in.  That only a failed
   subscription and a closed room bring a tab to that is why they are ruled out. *)
THEOREM NeverGivesUp == OnlyTransientTrouble /\ Spec => []NeverTerminal
<1>1. OrderInv => NeverTerminal
  BY DEF OrderInv, TabOrder, PageOrder, NeverTerminal, Tab
<1>2. OnlyTransientTrouble /\ Spec => []OrderInv
  <2> SUFFICES ASSUME OnlyTransientTrouble PROVE Spec => []OrderInv
    OBVIOUS
  <2>1. IInv /\ OrderInv /\ [Next]_vars => OrderInv'
    BY NextOrder
  <2> QED
    BY InitOrder, <2>1, LedgerInvariant, PTL DEF Spec
<1> QED
  BY <1>1, <1>2, PTL

-----------------------------------------------------------------------------
(* The bound on edits.  The guard of a tab's edit looks at the tab's own document, and an
   edit that merging the server's state makes (OnSync) is the next after what the server
   sent: it stays within MaxEdits because nobody ever has more of a tab's insertions than
   the tab, so that what the server sends of them is no news to it.

   The types of TypeOK, over a set V of vectors, and the vectors that have at most K[a] of
   each author a's insertions. *)
RepsOf(V)    == [seen : V, gone : SUBSET Erasure]
UpdsOf(V)    == [from : V, to : V, gone : SUBSET Erasure]
FlightsOf(V) == [update : UpdsOf(V), count : Nat]
UpsOf(V)     == [kind : {"subscribe", "unsubscribe"}] \cup [kind : {"update"}, body : UpdsOf(V)]
DownsOf(V)   == [kind : {"admitted", "refresh_required", "error"}]
                  \cup [kind : {"sync", "update"}, body : UpdsOf(V)]
PagesOf(V)   ==
  [doc : RepsOf(V), pending : Nat, current : Slot \cup {0}, inFlight : Seq(FlightsOf(V)),
   connected : BOOLEAN, admitted : BOOLEAN, synced : BOOLEAN, refresh : BOOLEAN,
   retry : BOOLEAN, destroyed : BOOLEAN, mine : BOOLEAN]
WiresOf(V)   ==
  [state : {"closed", "connecting", "open", "dead"}, listening : BOOLEAN,
   serving : BOOLEAN, joined : BOOLEAN, up : Seq(UpsOf(V)), down : Seq(DownsOf(V))]
TabsOf(V)    == [p : PagesOf(V), s : [Slot -> WiresOf(V)]]

Under(K) == {v \in [Author -> Nat] : \A a \in Author : v[a] <= K[a]}

(* A tab authors its own insertions, so nobody has more of them than its document. *)
Cap == [a \in Author |-> IF a = Disk THEN MaxEdits ELSE client[a].doc.seen[a]]

BoundInv ==
  /\ client \in [Client -> PagesOf(Under(Cap))]
  /\ sock \in [Client -> [Slot -> WiresOf(Under(Cap))]]
  /\ log \in RepsOf(Under(Cap))
  /\ Cap \in Vector

(* Each type grows with V. *)
LEMMA TypesGrow ==
  ASSUME NEW V, NEW U, V \subseteq U
  PROVE  /\ RepsOf(V) \subseteq RepsOf(U) /\ UpdsOf(V) \subseteq UpdsOf(U)
         /\ PagesOf(V) \subseteq PagesOf(U) /\ WiresOf(V) \subseteq WiresOf(U)
<1>1. RepsOf(V) \subseteq RepsOf(U) /\ UpdsOf(V) \subseteq UpdsOf(U)
  BY DEF RepsOf, UpdsOf
<1>2. FlightsOf(V) \subseteq FlightsOf(U) /\ UpsOf(V) \subseteq UpsOf(U) /\ DownsOf(V) \subseteq DownsOf(U)
  BY <1>1 DEF FlightsOf, UpsOf, DownsOf
<1>3. \A S, T : S \subseteq T => Seq(S) \subseteq Seq(T)
  <2> SUFFICES ASSUME NEW S, NEW T, S \subseteq T, NEW q \in Seq(S) PROVE q \in Seq(T)
    OBVIOUS
  <2>1. Len(q) \in Nat /\ q \in [1..Len(q) -> S]
    BY LenProperties
  <2>2. q \in [1..Len(q) -> T]
    BY <2>1
  <2> QED
    BY <2>1, <2>2, IsASeq
<1>4. /\ Seq(FlightsOf(V)) \subseteq Seq(FlightsOf(U)) /\ Seq(UpsOf(V)) \subseteq Seq(UpsOf(U))
      /\ Seq(DownsOf(V)) \subseteq Seq(DownsOf(U))
  BY <1>2, <1>3
<1>5. PagesOf(V) \subseteq PagesOf(U)
  BY <1>1, <1>4 DEF PagesOf
<1>6. WiresOf(V) \subseteq WiresOf(U)
  BY <1>4 DEF WiresOf
<1> QED
  BY <1>1, <1>5, <1>6

LEMMA TabTypes ==
  ASSUME NEW V, NEW w \in TabsOf(V)
  PROVE  /\ w = [p |-> w.p, s |-> w.s] /\ w.p \in PagesOf(V) /\ w.s \in [Slot -> WiresOf(V)]
         /\ w.p.current # 0 => w.p.current \in Slot
         /\ w.p.inFlight \in Seq(FlightsOf(V)) /\ w.p.pending \in Nat /\ w.p.doc \in RepsOf(V)
BY DEF TabsOf, PagesOf

LEMMA TabSet ==
  ASSUME NEW V, NEW p \in PagesOf(V), NEW s \in [Slot -> WiresOf(V)], NEW k \in Slot, NEW x \in WiresOf(V)
  PROVE  [p |-> p, s |-> [s EXCEPT ![k] = x]] \in TabsOf(V)
BY DEF TabsOf

LEMMA SendTyped ==
  ASSUME NEW V, NEW w \in TabsOf(V), NEW frame \in UpsOf(V)
  PROVE  Send(w, frame) \in TabsOf(V) /\ Send(w, frame).p = w.p
<1> DEFINE k == w.p.current
           v == [w EXCEPT !.s[w.p.current].up = Append(@, frame)]
           x == [w.s[k] EXCEPT !.up = Append(w.s[k].up, frame)]
<1>1. CASE IsOpen(w) /\ w.s[k].state = "open"
  <2>1. k \in Slot /\ w.s[k] \in WiresOf(V) /\ w.p \in PagesOf(V) /\ w.s \in [Slot -> WiresOf(V)]
    BY <1>1, TabTypes DEF IsOpen
  <2>2. x \in WiresOf(V)
    <3>1. w.s[k].up \in Seq(UpsOf(V))
      BY <2>1 DEF WiresOf
    <3>2. Append(w.s[k].up, frame) \in Seq(UpsOf(V))
      BY <3>1, AppendProperties
    <3> QED
      BY <2>1, <3>2 DEF WiresOf
  <2>3. v = [p |-> w.p, s |-> [w.s EXCEPT ![k] = x]]
    BY <2>1 DEF TabsOf
  <2>4. Send(w, frame) = v
    BY <1>1 DEF Send
  <2> HIDE DEF x, v
  <2> QED
    BY <2>1, <2>2, <2>3, <2>4, TabSet
<1>2. CASE ~ (IsOpen(w) /\ w.s[k].state = "open")
  BY <1>2 DEF Send
<1> QED
  BY <1>1, <1>2

LEMMA DetachTyped ==
  ASSUME NEW V, NEW w \in TabsOf(V)
  PROVE  Detach(w) \in TabsOf(V) /\ Detach(w).p.doc = w.p.doc
<1> DEFINE k == w.p.current
           q == [w.p EXCEPT !.current = 0, !.admitted = FALSE, !.inFlight = <<>>]
           x == [w.s[k] EXCEPT !.listening = FALSE]
<1>1. <<>> \in Seq(FlightsOf(V)) /\ w.p \in PagesOf(V) /\ w.s \in [Slot -> WiresOf(V)]
  BY EmptySeq, TabTypes
<1>2. q \in PagesOf(V) /\ q.doc = w.p.doc
  BY <1>1 DEF PagesOf
<1>3. CASE k = 0
  <2>1. Detach(w) = [p |-> q, s |-> w.s]
    BY <1>1, <1>3 DEF Detach, TabsOf, PagesOf
  <2> HIDE DEF q, k
  <2> QED
    BY <1>1, <1>2, <2>1 DEF TabsOf
<1>4. CASE k # 0
  <2>1. k \in Slot /\ w.s[k] \in WiresOf(V)
    BY <1>4, TabTypes
  <2>2. x \in WiresOf(V)
    BY <2>1 DEF WiresOf
  <2>3. Detach(w) = [p |-> q, s |-> [w.s EXCEPT ![k] = x]]
    BY <1>1, <1>4 DEF Detach, TabsOf
  <2> HIDE DEF q, x, k
  <2>4. [p |-> q, s |-> [w.s EXCEPT ![k] = x]] \in TabsOf(V)
    BY <1>1, <1>2, <2>1, <2>2, TabSet
  <2> QED
    BY <1>2, <2>3, <2>4
<1> QED
  BY <1>3, <1>4

LEMMA DetachAndCloseTyped ==
  ASSUME NEW V, NEW w \in TabsOf(V)
  PROVE  DetachAndClose(w) \in TabsOf(V) /\ DetachAndClose(w).p.doc = w.p.doc
<1> DEFINE k == w.p.current
           none == <<>>
           d == Detach(w)
           x == [d.s[k] EXCEPT !.state = "closed", !.down = <<>>]
           v == [d EXCEPT !.s[k].state = "closed", !.s[k].down = <<>>]
<1>1. d \in TabsOf(V) /\ d.p.doc = w.p.doc /\ d.p \in PagesOf(V) /\ d.s \in [Slot -> WiresOf(V)]
  BY DetachTyped, TabTypes
<1>2. CASE k = 0
  BY <1>1, <1>2 DEF DetachAndClose
<1>3. CASE k # 0
  <2>1. k \in Slot /\ none \in Seq(DownsOf(V))
    BY <1>3, TabTypes, EmptySeq
  <2>2. DetachAndClose(w) = v
    BY <1>3 DEF DetachAndClose
  <2> HIDE DEF d, k
  <2>3. d.s[k] \in WiresOf(V)
    BY <1>1, <2>1
  <2>4. x \in WiresOf(V)
    BY <2>1, <2>3 DEF WiresOf
  <2>5. v = [p |-> d.p, s |-> [d.s EXCEPT ![k] = x]]
    <3>1. v = [d EXCEPT !.s = [d.s EXCEPT ![k] = x]]
      BY <1>1, <2>1 DEF TabsOf
    <3> QED
      BY <1>1, <3>1 DEF TabsOf
  <2> HIDE DEF x, v
  <2> QED
    BY <1>1, <2>1, <2>2, <2>4, <2>5, TabSet
<1> QED
  BY <1>2, <1>3

LEMMA ScheduleReconnectTyped ==
  ASSUME NEW V, NEW w \in TabsOf(V)
  PROVE  ScheduleReconnect(w) \in TabsOf(V) /\ ScheduleReconnect(w).p.doc = w.p.doc
<1> DEFINE v == [w EXCEPT !.p.retry = TRUE]
<1>1. v \in TabsOf(V) /\ v.p.doc = w.p.doc
  BY DEF TabsOf, PagesOf
<1>2. ScheduleReconnect(w) \in {w, v}
  BY DEF ScheduleReconnect
<1> HIDE DEF v
<1> QED
  BY <1>1, <1>2

LEMMA OfflineTyped ==
  ASSUME NEW V, NEW w \in TabsOf(V)
  PROVE  Offline(w) \in TabsOf(V) /\ Offline(w).p.doc = w.p.doc
<1> DEFINE d == DetachAndClose(w)
           v == [d EXCEPT !.p.connected = FALSE]
<1>1. d \in TabsOf(V) /\ d.p.doc = w.p.doc
  BY DetachAndCloseTyped
<1>2. Offline(w) \in {w, ScheduleReconnect(v)}
  BY DEF Offline
<1> HIDE DEF d
<1>3. v \in TabsOf(V) /\ v.p.doc = d.p.doc
  BY <1>1 DEF TabsOf, PagesOf
<1> HIDE DEF v
<1> QED
  BY <1>1, <1>2, <1>3, ScheduleReconnectTyped

LEMMA TerminateTyped ==
  ASSUME NEW V, NEW w \in TabsOf(V)
  PROVE  Terminate(w) \in TabsOf(V) /\ Terminate(w).p.doc = w.p.doc
<1> DEFINE r == [w EXCEPT !.p.refresh = TRUE]
           d == DetachAndClose(r)
           v == [d EXCEPT !.p.synced = FALSE, !.p.retry = FALSE, !.p.connected = FALSE]
<1>1. r \in TabsOf(V) /\ r.p.doc = w.p.doc
  BY DEF TabsOf, PagesOf
<1>2. Terminate(w) = v
  BY DEF Terminate
<1> HIDE DEF r
<1>3. d \in TabsOf(V) /\ d.p.doc = r.p.doc
  BY <1>1, DetachAndCloseTyped
<1> HIDE DEF d
<1>4. v \in TabsOf(V) /\ v.p.doc = d.p.doc
  BY <1>3 DEF TabsOf, PagesOf
<1> QED
  BY <1>1, <1>2, <1>3, <1>4

LEMMA AttachedTyped ==
  ASSUME NEW V, NEW w \in TabsOf(V), NEW v \in Attached(w)
  PROVE  v \in TabsOf(V) /\ v.p.doc = w.p.doc
<1>1. CASE v = w
  BY <1>1
<1>2. CASE v # w
  <2>1. PICK k \in Slot : v = [w EXCEPT !.p.current = k, !.s[k].state = "connecting", !.s[k].listening = TRUE]
    BY <1>2 DEF Attached, FreeSlots
  <2> DEFINE x == [w.s[k] EXCEPT !.state = "connecting", !.listening = TRUE]
             q == [w.p EXCEPT !.current = k]
  <2>2. w.p \in PagesOf(V) /\ w.s \in [Slot -> WiresOf(V)]
    BY TabTypes
  <2>3. x \in WiresOf(V)
    BY <2>2 DEF WiresOf
  <2>4. q \in PagesOf(V) /\ q.doc = w.p.doc
    BY <2>2 DEF PagesOf
  <2>5. v = [p |-> q, s |-> [w.s EXCEPT ![k] = x]]
    BY <2>1, <2>2 DEF TabsOf
  <2> HIDE DEF x, q
  <2> QED
    BY <2>2, <2>3, <2>4, <2>5, TabSet
<1> QED
  BY <1>1, <1>2

(* What the functions on documents and updates return. *)
LEMMA MergeUnder ==
  ASSUME NEW K \in [Author -> Nat], NEW d \in RepsOf(Under(K)), NEW u \in UpdsOf(Under(K))
  PROVE  /\ Merge(d, u) \in RepsOf(Under(K))
         /\ \A a \in Author : d.seen[a] = K[a] => Merge(d, u).seen[a] = K[a]
<1> DEFINE m == [a \in Author |-> IF u.to[a] > d.seen[a] THEN u.to[a] ELSE d.seen[a]]
<1>1. /\ d.seen \in [Author -> Nat] /\ u.to \in [Author -> Nat]
      /\ \A a \in Author : d.seen[a] <= K[a] /\ u.to[a] <= K[a]
  BY DEF RepsOf, UpdsOf, Under
<1>2. m \in Under(K) /\ \A a \in Author : d.seen[a] = K[a] => m[a] = K[a]
  BY <1>1 DEF Under
<1> HIDE DEF m
<1>3. Merge(d, u) = [seen |-> m, gone |-> d.gone \cup u.gone]
  BY DEF Merge, m
<1> QED
  BY <1>2, <1>3 DEF RepsOf, UpdsOf

LEMMA MissingUnder ==
  ASSUME NEW K \in [Author -> Nat], NEW d \in RepsOf(Under(K)), NEW v \in Under(K)
  PROVE  Missing(d, v) \in UpdsOf(Under(K))
<1> DEFINE m == [a \in Author |-> IF v[a] < d.seen[a] THEN v[a] ELSE d.seen[a]]
<1>1. /\ d.seen \in [Author -> Nat] /\ v \in [Author -> Nat]
      /\ \A a \in Author : d.seen[a] <= K[a] /\ v[a] <= K[a]
  BY DEF RepsOf, Under
<1>2. m \in Under(K)
  BY <1>1 DEF Under
<1> HIDE DEF m
<1>3. Missing(d, v) = [from |-> m, to |-> d.seen, gone |-> d.gone]
  BY DEF Missing, m
<1> QED
  BY <1>2, <1>3 DEF RepsOf, UpdsOf

LEMMA StateUnder ==
  ASSUME NEW K \in [Author -> Nat], NEW d \in RepsOf(Under(K))
  PROVE  State(d) \in UpdsOf(Under(K))
<1>1. Empty.seen \in Under(K)
  BY DEF Empty, Under
<1> QED
  BY <1>1 DEF State, RepsOf, UpdsOf

(* One more insertion of an author raises the bound by one. *)
Raised(K, c) == [K EXCEPT ![c] = @ + 1]

LEMMA RaisedUnder ==
  ASSUME NEW K \in [Author -> Nat], NEW c \in Author
  PROVE  /\ Raised(K, c) \in [Author -> Nat] /\ Raised(K, c)[c] = K[c] + 1
         /\ \A a \in Author : a # c => Raised(K, c)[a] = K[a]
         /\ Under(K) \subseteq Under(Raised(K, c))
<1>1. /\ Raised(K, c) \in [Author -> Nat] /\ Raised(K, c)[c] = K[c] + 1
      /\ \A a \in Author : a # c => Raised(K, c)[a] = K[a]
  BY DEF Raised
<1>2. \A a \in Author : K[a] <= Raised(K, c)[a]
  BY <1>1
<1>3. Under(K) \subseteq Under(Raised(K, c))
  <2> SUFFICES ASSUME NEW v \in Under(K) PROVE v \in Under(Raised(K, c))
    OBVIOUS
  <2>1. v \in [Author -> Nat] /\ \A a \in Author : v[a] <= K[a]
    BY DEF Under
  <2>2. ASSUME NEW a \in Author PROVE v[a] <= Raised(K, c)[a]
    <3>1. v[a] \in Nat /\ K[a] \in Nat /\ Raised(K, c)[a] \in Nat
      BY <1>1, <2>1
    <3> QED
      BY <1>2, <2>1, <3>1
  <2> QED
    BY <2>1, <2>2 DEF Under
<1> QED
  BY <1>1, <1>3

LEMMA NextEditUnder ==
  ASSUME NEW K \in [Author -> Nat], NEW c \in Author, NEW d \in RepsOf(Under(K)), d.seen[c] = K[c]
  PROVE  /\ NextEdit(c, d) \in UpdsOf(Under(Raised(K, c)))
         /\ Merge(d, NextEdit(c, d)).seen[c] = K[c] + 1
<1> DEFINE t == [d.seen EXCEPT ![c] = @ + 1]
           R == Raised(K, c)
<1>1. d.seen \in [Author -> Nat] /\ \A a \in Author : d.seen[a] <= K[a]
  BY DEF RepsOf, Under
<1>2. /\ R \in [Author -> Nat] /\ R[c] = K[c] + 1 /\ Under(K) \subseteq Under(R)
      /\ \A a \in Author : a # c => R[a] = K[a]
  BY RaisedUnder
<1> HIDE DEF R
<1>3. t \in [Author -> Nat] /\ t[c] = K[c] + 1 /\ \A a \in Author : a # c => t[a] = d.seen[a]
  BY <1>1
<1> HIDE DEF t
<1>4. ASSUME NEW a \in Author PROVE t[a] <= R[a]
  <2>1. t[a] \in Nat /\ R[a] \in Nat
    BY <1>2, <1>3
  <2>2. CASE a = c
    BY <1>2, <1>3, <2>1, <2>2
  <2>3. CASE a # c
    BY <1>1, <1>2, <1>3, <2>3
  <2> QED
    BY <2>2, <2>3
<1>5. t \in Under(R)
  BY <1>3, <1>4 DEF Under
<1>6. d.seen \in Under(R)
  BY <1>2 DEF RepsOf
<1>7. NextEdit(c, d) = [from |-> d.seen, to |-> t, gone |-> {}]
  BY DEF NextEdit, t
<1>8. NextEdit(c, d) \in UpdsOf(Under(R))
  BY <1>5, <1>6, <1>7 DEF UpdsOf
<1>9. Merge(d, NextEdit(c, d)).seen[c] = K[c] + 1
  <2>1. t[c] > d.seen[c]
    BY <1>1, <1>3
  <2> QED
    BY <1>3, <1>7, <2>1 DEF Merge
<1> QED
  BY <1>8, <1>9 DEF R

-----------------------------------------------------------------------------
LEMMA SendUpdateTyped ==
  ASSUME NEW K \in [Author -> Nat], NEW w \in TabsOf(Under(K)), NEW u \in UpdsOf(Under(K))
  PROVE  /\ SendUpdate(w, u) \in TabsOf(Under(K)) /\ SendUpdate(w, u).p.doc = Merge(w.p.doc, u)
         /\ SendUpdate(w, u).p.pending = w.p.pending + 1
<1> DEFINE V == Under(K)
           x == [update |-> u, count |-> 1]
           v == [w EXCEPT !.p.doc = Merge(@, u), !.p.pending = @ + 1]
           t == [v EXCEPT !.p.inFlight = Append(@, x)]
           frame == Frame("update", u)
<1>1. x \in FlightsOf(V) /\ frame \in UpsOf(V)
  BY DEF FlightsOf, Frame, UpsOf
<1>2. Merge(w.p.doc, u) \in RepsOf(V) /\ w.p.pending + 1 \in Nat
  BY TabTypes, MergeUnder
<1>3. SendUpdate(w, u) \in {v, Send(t, frame)}
  BY DEF SendUpdate
<1> HIDE DEF V, x, frame
<1>w. w \in TabsOf(V)
  BY DEF V
<1>4. v \in TabsOf(V) /\ v.p.doc = Merge(w.p.doc, u) /\ v.p.pending = w.p.pending + 1
  BY <1>2, <1>w DEF TabsOf, PagesOf
<1> HIDE DEF v
<1>5. t \in TabsOf(V) /\ t.p.doc = v.p.doc /\ t.p.pending = v.p.pending
  <2>1. v.p \in PagesOf(V) /\ Append(v.p.inFlight, x) \in Seq(FlightsOf(V))
    BY <1>1, <1>4, TabTypes, AppendProperties
  <2> QED
    BY <1>4, <2>1 DEF TabsOf, PagesOf
<1> HIDE DEF t
<1>6. Send(t, frame) \in TabsOf(V) /\ Send(t, frame).p = t.p
  BY <1>1, <1>5, SendTyped
<1> QED
  BY <1>3, <1>4, <1>5, <1>6 DEF V

LEMMA FlushTyped ==
  ASSUME NEW V, NEW w \in TabsOf(V), NEW m \in UpdsOf(V), NEW before \in Nat, before <= w.p.pending
  PROVE  Flush(w, m, before) \in TabsOf(V) /\ Flush(w, m, before).p.doc = w.p.doc
<1> DEFINE count == IF before > 1 THEN before ELSE 1
           x == [update |-> m, count |-> count]
           frame == Frame("update", m)
           v == [w EXCEPT !.p.pending = @ - before + count, !.p.inFlight = Append(@, x),
                          !.p.synced = TRUE]
           z == [w EXCEPT !.p.pending = @ - before, !.p.synced = TRUE]
<1>1. /\ count \in Nat /\ x \in FlightsOf(V) /\ frame \in UpsOf(V)
      /\ w.p \in PagesOf(V) /\ w.p.pending \in Nat /\ w.p.inFlight \in Seq(FlightsOf(V))
  BY TabTypes DEF FlightsOf, Frame, UpsOf
<1>2. w.p.pending - before \in Nat /\ w.p.pending - before + count \in Nat
  BY <1>1
<1>3. CASE HasContent(m)
  <2>1. Flush(w, m, before) = Send(v, frame)
    BY <1>3 DEF Flush
  <2> HIDE DEF count, x, frame
  <2>2. Append(w.p.inFlight, x) \in Seq(FlightsOf(V))
    BY <1>1, AppendProperties
  <2>3. v \in TabsOf(V) /\ v.p.doc = w.p.doc
    BY <1>1, <1>2, <2>2 DEF TabsOf, PagesOf
  <2> HIDE DEF v
  <2> QED
    BY <1>1, <2>1, <2>3, SendTyped
<1>4. CASE ~ HasContent(m)
  <2>1. Flush(w, m, before) = z
    BY <1>4 DEF Flush
  <2>2. z \in TabsOf(V) /\ z.p.doc = w.p.doc
    BY <1>1, <1>2 DEF TabsOf, PagesOf
  <2> QED
    BY <2>1, <2>2
<1> QED
  BY <1>3, <1>4

LEMMA OnUpdateTyped ==
  ASSUME NEW K \in [Author -> Nat], NEW w \in TabsOf(Under(K)), NEW u \in UpdsOf(Under(K))
  PROVE  /\ OnUpdate(w, u) \in TabsOf(Under(K))
         /\ OnUpdate(w, u).p.doc \in {w.p.doc, Merge(w.p.doc, u)}
<1> DEFINE V == Under(K)
           flight == w.p.inFlight
           echoes == {i \in DOMAIN flight : flight[i].update = u}
<1>1. /\ w \in TabsOf(V) /\ w.p \in PagesOf(V) /\ flight \in Seq(FlightsOf(V)) /\ w.p.pending \in Nat
      /\ w.s \in [Slot -> WiresOf(V)] /\ Merge(w.p.doc, u) \in RepsOf(V)
  BY TabTypes, MergeUnder
<1>2. DOMAIN flight = 1..Len(flight) /\ Len(flight) \in Nat
  BY <1>1, LenProperties
<1> HIDE DEF V
<1>3. CASE echoes # {}
  <2> DEFINE i == CHOOSE j \in echoes : \A k \in echoes : j <= k
             left == w.p.pending - flight[i].count
             count == IF left > 0 THEN left ELSE 0
             rest == Without(flight, i)
             v == [w EXCEPT !.p.pending = count, !.p.inFlight = rest]
  <2>1. OnUpdate(w, u) = v
    BY <1>3 DEF OnUpdate, Without
  <2>2. i \in 1..Len(flight)
    <3>1. echoes \subseteq Nat
      BY <1>2
    <3>2. \E j \in echoes : \A k \in echoes : j <= k
      <4> HIDE DEF echoes
      <4> QED
        BY <1>3, <3>1, Least
    <3>3. i \in echoes
      BY <3>2
    <3> HIDE DEF i
    <3> QED
      BY <1>2, <3>3
  <2> HIDE DEF i
  <2>3. flight[i].count \in Nat
    <3>1. flight[i] \in FlightsOf(V)
      BY <1>1, <2>2, ElementOfSeq
    <3> QED
      BY <3>1 DEF FlightsOf
  <2>4. rest \in Seq(FlightsOf(V))
    BY <1>1, <2>2, WithoutParts
  <2>5. count \in Nat
    BY <1>1, <2>3
  <2> HIDE DEF rest, count
  <2>6. v \in TabsOf(V) /\ v.p.doc = w.p.doc
    BY <1>1, <2>4, <2>5 DEF TabsOf, PagesOf
  <2> QED
    BY <2>1, <2>6 DEF V
<1>4. CASE echoes = {} /\ Fits(w.p.doc, u)
  <2> DEFINE v == [w EXCEPT !.p.doc = Merge(@, u)]
  <2>1. OnUpdate(w, u) = v
    BY <1>4 DEF OnUpdate
  <2>2. v \in TabsOf(V) /\ v.p.doc = Merge(w.p.doc, u)
    BY <1>1 DEF TabsOf, PagesOf
  <2> QED
    BY <2>1, <2>2 DEF V
<1>5. CASE echoes = {} /\ ~ Fits(w.p.doc, u)
  <2>1. OnUpdate(w, u) = Terminate(w)
    BY <1>5 DEF OnUpdate
  <2> QED
    BY <2>1, TerminateTyped
<1> QED
  BY <1>3, <1>4, <1>5

(* A tab whose document has all of its own insertions that there are, K[c] of them. *)
OwnTab(K, c, w) == w \in TabsOf(Under(K)) /\ w.p.doc.seen[c] = K[c]

LEMMA OnSyncTyped ==
  ASSUME NEW K \in [Author -> Nat], NEW c \in Client, NEW w, OwnTab(K, c, w),
         NEW u \in UpdsOf(Under(K)), NEW normalizes \in BOOLEAN
  PROVE  IF normalizes THEN OwnTab(Raised(K, c), c, OnSync(c, w, u, normalizes))
                       ELSE OwnTab(K, c, OnSync(c, w, u, normalizes))
<1> DEFINE V == Under(K)
           R == Raised(K, c)
           d == w.p.doc
           n == w.p.pending
           missing == Missing(d, u.to)
           theirs == [seen |-> u.to, gone |-> u.gone]
           mine == HasContent(missing) /\ ~Contains(d, theirs)
           D == Merge(d, u)
           q == [w.p EXCEPT !.inFlight = <<>>, !.doc = D, !.mine = mine]
           merged == [p |-> q, s |-> w.s]
           edit == NextEdit(c, D)
           edited == IF normalizes THEN SendUpdate(merged, edit) ELSE merged
<1>1. /\ w \in TabsOf(V) /\ d \in RepsOf(V) /\ n \in Nat /\ w.p \in PagesOf(V)
      /\ w.s \in [Slot -> WiresOf(V)] /\ <<>> \in Seq(FlightsOf(V)) /\ d.seen[c] = K[c]
      /\ c \in Author
  BY TabTypes, EmptySeq DEF OwnTab, Author
<1>2. D \in RepsOf(V) /\ D.seen[c] = K[c] /\ missing \in UpdsOf(V)
  <2>1. u.to \in V
    BY DEF UpdsOf
  <2> QED
    BY <1>1, <2>1, MergeUnder, MissingUnder
<1>3. OnSync(c, w, u, normalizes) = Flush(edited, missing, n)
  <2> DEFINE m == [w EXCEPT !.p.inFlight = <<>>, !.p.doc = Merge(@, u), !.p.mine = mine]
  <2>1. m = merged
    <3> HIDE DEF mine, D
    <3>1. m = [w EXCEPT !.p.inFlight = <<>>, !.p.doc = D, !.p.mine = mine]
      BY DEF D
    <3> HIDE DEF m
    <3>2. m = [w EXCEPT !.p = q]
      BY <1>1, <3>1 DEF TabsOf
    <3> HIDE DEF q
    <3> QED
      BY <1>1, <3>2 DEF TabsOf
  <2>2. m.p.doc = D
    <3> HIDE DEF m, D
    <3> QED
      BY <1>1, <2>1 DEF TabsOf, PagesOf
  <2>3. OnSync(c, w, u, normalizes) =
          Flush(IF normalizes THEN SendUpdate(m, NextEdit(c, m.p.doc)) ELSE m, missing, n)
    BY DEF OnSync
  <2> HIDE DEF m, missing, n, merged
  <2> QED
    BY <2>1, <2>2, <2>3
<1>4. mine \in BOOLEAN
  OBVIOUS
<1> HIDE DEF D, mine
<1>5. q \in PagesOf(V) /\ q.doc = D /\ q.pending = n
  BY <1>1, <1>2, <1>4 DEF PagesOf
<1> HIDE DEF q
<1>6. merged \in TabsOf(V) /\ merged.p = q
  BY <1>1, <1>5 DEF TabsOf
<1> HIDE DEF merged, missing
<1>7. CASE ~ normalizes
  <2>1. edited = merged /\ n <= merged.p.pending
    BY <1>1, <1>5, <1>6, <1>7
  <2>2. Flush(edited, missing, n) \in TabsOf(V) /\ Flush(edited, missing, n).p.doc = D
    BY <1>1, <1>2, <1>5, <1>6, <2>1, FlushTyped
  <2> QED
    BY <1>2, <1>3, <1>7, <2>2 DEF OwnTab
<1>8. CASE normalizes
  <2>1. /\ edit \in UpdsOf(Under(R)) /\ Merge(D, edit).seen[c] = K[c] + 1
        /\ R \in [Author -> Nat] /\ R[c] = K[c] + 1 /\ V \subseteq Under(R)
    BY <1>1, <1>2, NextEditUnder, RaisedUnder
  <2> HIDE DEF R, edit
  <2>2. merged \in TabsOf(Under(R)) /\ missing \in UpdsOf(Under(R))
    BY <1>2, <1>6, <2>1, TypesGrow DEF TabsOf
  <2>3. /\ edited = SendUpdate(merged, edit) /\ edited \in TabsOf(Under(R))
        /\ edited.p.doc = Merge(D, edit) /\ edited.p.pending = n + 1
    BY <1>5, <1>6, <1>8, <2>1, <2>2, SendUpdateTyped
  <2> HIDE DEF edited
  <2>4. n <= edited.p.pending
    BY <1>1, <2>3
  <2>5. /\ Flush(edited, missing, n) \in TabsOf(Under(R))
        /\ Flush(edited, missing, n).p.doc = Merge(D, edit)
    BY <1>1, <2>2, <2>3, <2>4, FlushTyped
  <2> QED
    BY <1>3, <1>8, <2>1, <2>5 DEF OwnTab, R
<1> QED
  BY <1>7, <1>8

LEMMA OnFrameTyped ==
  ASSUME NEW K \in [Author -> Nat], NEW c \in Client, NEW w, OwnTab(K, c, w),
         NEW frame \in DownsOf(Under(K)), NEW normalizes \in BOOLEAN
  PROVE  \/ OwnTab(K, c, OnFrame(c, w, frame, normalizes))
         \/ normalizes = TRUE /\ OwnTab(Raised(K, c), c, OnFrame(c, w, frame, normalizes))
<1> DEFINE f == OnFrame(c, w, frame, normalizes)
<1>1. w \in TabsOf(Under(K)) /\ w.p.doc.seen[c] = K[c] /\ c \in Author
  BY DEF OwnTab, Author
<1>2. OwnTab(K, c, Terminate(w)) /\ OwnTab(K, c, Offline(w))
  BY <1>1, TerminateTyped, OfflineTyped DEF OwnTab
<1>3. CASE frame.kind = "admitted"
  <2> DEFINE v == [w EXCEPT !.p.admitted = TRUE]
  <2>1. f = v
    BY <1>3 DEF OnFrame
  <2>2. v \in TabsOf(Under(K)) /\ v.p.doc = w.p.doc
    BY <1>1 DEF TabsOf, PagesOf
  <2> HIDE DEF v, f
  <2> QED
    BY <1>1, <2>1, <2>2 DEF OwnTab, f
<1>4. CASE frame.kind \in {"refresh_required", "error"}
  <2>1. f \in {Terminate(w), Offline(w)}
    BY <1>4 DEF OnFrame
  <2> QED
    BY <1>2, <2>1
<1>5. CASE frame.kind = "update"
  <2>1. frame.body \in UpdsOf(Under(K)) /\ f \in {OnUpdate(w, frame.body), Terminate(w)}
    BY <1>5 DEF DownsOf, OnFrame
  <2>2. OwnTab(K, c, OnUpdate(w, frame.body))
    <3>1. /\ OnUpdate(w, frame.body) \in TabsOf(Under(K))
          /\ OnUpdate(w, frame.body).p.doc \in {w.p.doc, Merge(w.p.doc, frame.body)}
      BY <1>1, <2>1, OnUpdateTyped
    <3>2. Merge(w.p.doc, frame.body).seen[c] = K[c]
      BY <1>1, <2>1, TabTypes, MergeUnder
    <3> QED
      BY <1>1, <3>1, <3>2 DEF OwnTab
  <2> QED
    BY <1>2, <2>1, <2>2
<1>6. CASE frame.kind = "sync"
  <2>1. frame.body \in UpdsOf(Under(K)) /\ f \in {OnSync(c, w, frame.body, normalizes), Terminate(w)}
    BY <1>6 DEF DownsOf, OnFrame
  <2> QED
    BY <1>2, <2>1, OnSyncTyped
<1>7. frame.kind \in {"admitted", "refresh_required", "error", "sync", "update"}
  BY DEF DownsOf
<1> QED
  BY <1>3, <1>4, <1>5, <1>6, <1>7

-----------------------------------------------------------------------------
(* A step of a tab, which may make one insertion of its own. *)
LEMMA CapParts ==
  ASSUME BoundInv
  PROVE  /\ Cap \in [Author -> Nat] /\ Cap[Disk] = MaxEdits
         /\ \A a \in Author : Cap[a] \in 0..MaxEdits
         /\ \A c \in Client : c \in Author /\ Cap[c] = client[c].doc.seen[c]
<1>1. \A c \in Client : c \in Author /\ c # Disk
  BY DiskAssumption DEF Author
<1>2. Disk \in Author
  BY DEF Author
<1> QED
  BY <1>1, <1>2, BoundAssumption DEF BoundInv, Vector, Cap

LEMMA TabOwn ==
  ASSUME BoundInv, NEW c \in Client
  PROVE  /\ OwnTab(Cap, c, Tab(c)) /\ Tab(c) \in TabsOf(Under(Cap))
         /\ Tab(c).p = client[c] /\ Tab(c).s = sock[c]
BY CapParts DEF BoundInv, OwnTab, Tab, TabsOf

LEMMA InstalledBound ==
  ASSUME BoundInv, NEW c \in Client, NEW w, NEW K,
         K = Cap \/ (K = Raised(Cap, c) /\ Cap[c] < MaxEdits),
         OwnTab(K, c, w), Install(c, w), log' = log
  PROVE  BoundInv'
<1>1. /\ Cap \in [Author -> Nat] /\ c \in Author /\ Disk \in Author /\ c # Disk
      /\ \A a \in Author : Cap[a] \in 0..MaxEdits
  BY CapParts, DiskAssumption DEF Author
<1>2. /\ K \in [Author -> Nat] /\ Under(Cap) \subseteq Under(K) /\ K[c] \in 0..MaxEdits
      /\ \A a \in Author : a # c => K[a] = Cap[a]
  <2>1. CASE K = Cap
    BY <1>1, <2>1
  <2>2. CASE K = Raised(Cap, c) /\ Cap[c] < MaxEdits
    <3>1. /\ K \in [Author -> Nat] /\ Under(Cap) \subseteq Under(K) /\ K[c] = Cap[c] + 1
          /\ \A a \in Author : a # c => K[a] = Cap[a]
      BY <1>1, <2>2, RaisedUnder
    <3>2. K[c] \in 0..MaxEdits
      BY <1>1, <2>2, <3>1, BoundAssumption
    <3> QED
      BY <3>1, <3>2
  <2> QED
    BY <2>1, <2>2
<1> DEFINE V == Under(K)
<1>3. w.p \in PagesOf(V) /\ w.s \in [Slot -> WiresOf(V)] /\ w.p.doc.seen[c] = K[c]
  BY TabTypes DEF OwnTab
<1>4. /\ RepsOf(Under(Cap)) \subseteq RepsOf(V) /\ PagesOf(Under(Cap)) \subseteq PagesOf(V)
      /\ WiresOf(Under(Cap)) \subseteq WiresOf(V)
  BY <1>2, TypesGrow
<1> HIDE DEF V
<1>5. /\ client' = [client EXCEPT ![c] = w.p] /\ sock' = [sock EXCEPT ![c] = w.s]
      /\ DOMAIN client = Client
  BY DEF Install, BoundInv
<1>6. client' \in [Client -> PagesOf(V)] /\ sock' \in [Client -> [Slot -> WiresOf(V)]]
  <2>1. client \in [Client -> PagesOf(V)] /\ sock \in [Client -> [Slot -> WiresOf(V)]]
    BY <1>4 DEF BoundInv
  <2> QED
    BY <1>3, <1>5, <2>1
<1>7. Cap' = K
  <2> DEFINE M == [a \in Author |-> IF a = Disk THEN MaxEdits ELSE client'[a].doc.seen[a]]
  <2>1. Cap' = M
    BY DEF Cap
  <2>2. ASSUME NEW a \in Author PROVE M[a] = K[a]
    <3>1. CASE a = c
      <4>1. client'[c] = w.p
        BY <1>5
      <4> QED
        BY <1>1, <1>3, <3>1, <4>1
    <3>2. CASE a # c
      <4>1. K[a] = Cap[a] /\ Cap[a] = IF a = Disk THEN MaxEdits ELSE client[a].doc.seen[a]
        BY <1>2, <3>2 DEF Cap
      <4>2. a # Disk => client'[a] = client[a]
        BY <1>5, <3>2 DEF Author
      <4> QED
        BY <4>1, <4>2
    <3> QED
      BY <3>1, <3>2
  <2> QED
    <3> HIDE DEF M
    <3>1. DOMAIN M = Author
      BY DEF M
    <3>2. M = [a \in Author |-> M[a]] /\ K = [a \in Author |-> K[a]]
      BY <1>2 DEF M
    <3>3. [a \in Author |-> M[a]] = [a \in Author |-> K[a]]
      BY <2>2
    <3> QED
      BY <2>1, <3>2, <3>3
<1>8. K \in Vector
  <2>1. \A a \in Author : K[a] \in 0..MaxEdits
    BY <1>1, <1>2
  <2> QED
    BY <1>2, <2>1 DEF Vector
<1>9. log' \in RepsOf(V)
  BY <1>4 DEF BoundInv
<1> QED
  BY <1>6, <1>7, <1>8, <1>9 DEF BoundInv, V

LEMMA InstalledTyped ==
  ASSUME BoundInv, NEW c \in Client, NEW w, OwnTab(Cap, c, w), Install(c, w), log' = log
  PROVE  BoundInv'
<1> DEFINE K == Cap
<1>1. OwnTab(K, c, w) /\ (K = Cap \/ (K = Raised(Cap, c) /\ Cap[c] < MaxEdits))
  OBVIOUS
<1> HIDE DEF K
<1> QED
  BY <1>1, InstalledBound

LEMMA InstalledRaised ==
  ASSUME BoundInv, NEW c \in Client, NEW w, OwnTab(Raised(Cap, c), c, w), Cap[c] < MaxEdits,
         Install(c, w), log' = log
  PROVE  BoundInv'
<1> DEFINE K == Raised(Cap, c)
<1>1. K = Raised(Cap, c) /\ OwnTab(K, c, w)
  OBVIOUS
<1> HIDE DEF K
<1> QED
  BY <1>1, InstalledBound

LEMMA EditTyped == ASSUME BoundInv, NEW c \in Client, Edit(c) PROVE BoundInv'
<1> DEFINE K == Raised(Cap, c)
           d == client[c].doc
           u == NextEdit(c, d)
           w == Tab(c)
<1>1. /\ Cap \in [Author -> Nat] /\ c \in Author /\ Cap[c] = d.seen[c]
  BY CapParts
<1>2. d \in RepsOf(Under(Cap)) /\ w \in TabsOf(Under(Cap)) /\ w.p.doc = d
  BY TabOwn, TabTypes
<1>3. u \in UpdsOf(Under(K)) /\ Merge(d, u).seen[c] = K[c] /\ K \in [Author -> Nat]
  BY <1>1, <1>2, NextEditUnder, RaisedUnder
<1>4. w \in TabsOf(Under(K))
  <2>1. Under(Cap) \subseteq Under(K)
    BY <1>1, RaisedUnder
  <2> HIDE DEF K, w
  <2>2. PagesOf(Under(Cap)) \subseteq PagesOf(Under(K)) /\ WiresOf(Under(Cap)) \subseteq WiresOf(Under(K))
    BY <2>1, TypesGrow
  <2> QED
    BY <1>2, <2>2 DEF TabsOf
<1>5. Install(c, SendUpdate(w, u)) /\ log' = log /\ Cap[c] < MaxEdits
  BY <1>1 DEF Edit
<1> HIDE DEF K, d, u, w
<1>6. OwnTab(K, c, SendUpdate(w, u))
  BY <1>2, <1>3, <1>4, SendUpdateTyped DEF OwnTab
<1> QED
  BY <1>5, <1>6, InstalledRaised DEF K

LEMMA EraseTyped == ASSUME BoundInv, NEW c \in Client, NEW e \in Erasure, Erase(c, e) PROVE BoundInv'
<1> DEFINE d == client[c].doc
           u == [from |-> d.seen, to |-> d.seen, gone |-> {e}]
           w == Tab(c)
<1>1. /\ Cap \in [Author -> Nat] /\ c \in Author /\ Cap[c] = d.seen[c]
  BY CapParts
<1>2. d \in RepsOf(Under(Cap)) /\ w \in TabsOf(Under(Cap)) /\ w.p.doc = d
  BY TabOwn, TabTypes
<1>3. u \in UpdsOf(Under(Cap))
  BY <1>2 DEF RepsOf, UpdsOf
<1>4. Install(c, SendUpdate(w, u)) /\ log' = log
  BY DEF Erase
<1> HIDE DEF d, u, w
<1>5. OwnTab(Cap, c, SendUpdate(w, u))
  BY <1>1, <1>2, <1>3, SendUpdateTyped, MergeUnder DEF OwnTab
<1> QED
  BY <1>4, <1>5, InstalledTyped

LEMMA OpenTyped == ASSUME BoundInv, NEW c \in Client, NEW s \in Slot, Open(c, s) PROVE BoundInv'
<1> DEFINE V == Under(Cap)
           w == Tab(c)
           opened == [w EXCEPT !.s[s].state = "open", !.s[s].serving = TRUE]
           linked == [opened EXCEPT !.p.connected = TRUE]
           frame == Signal("subscribe")
           x == [w.s[s] EXCEPT !.state = "open", !.serving = TRUE]
<1>1. /\ w \in TabsOf(V) /\ w.p \in PagesOf(V) /\ w.s[s] \in WiresOf(V)
      /\ w.s \in [Slot -> WiresOf(V)] /\ w.p.doc.seen[c] = Cap[c]
  BY TabOwn, TabTypes DEF OwnTab
<1>2. log' = log /\ (Install(c, opened) \/ Install(c, Send(linked, frame)))
  BY DEF Open
<1> HIDE DEF w, V
<1>3. x \in WiresOf(V)
  BY <1>1 DEF WiresOf
<1>4. opened = [p |-> w.p, s |-> [w.s EXCEPT ![s] = x]]
  <2>1. opened = [w EXCEPT !.s = [w.s EXCEPT ![s] = x]]
    BY <1>1 DEF TabsOf
  <2> QED
    BY <1>1, <2>1 DEF TabsOf
<1> HIDE DEF x, opened
<1>5. opened \in TabsOf(V) /\ opened.p = w.p
  BY <1>1, <1>3, <1>4, TabSet
<1>6. linked \in TabsOf(V) /\ linked.p.doc = opened.p.doc
  BY <1>5 DEF TabsOf, PagesOf
<1> HIDE DEF linked
<1>7. frame \in UpsOf(V)
  BY DEF Signal, UpsOf
<1>8. OwnTab(Cap, c, opened) /\ OwnTab(Cap, c, Send(linked, frame))
  BY <1>1, <1>5, <1>6, <1>7, SendTyped DEF OwnTab, V
<1> QED
  BY <1>2, <1>8, InstalledTyped

LEMMA ReceiveTyped == ASSUME BoundInv, NEW c \in Client, NEW s \in Slot, Receive(c, s) PROVE BoundInv'
<1> DEFINE V == Under(Cap)
           w == Tab(c)
           down == sock[c][s].down
           taken == [w EXCEPT !.s[s].down = Tail(@), !.p.mine = FALSE]
           x == [w.s[s] EXCEPT !.down = Tail(down)]
           q == [w.p EXCEPT !.mine = FALSE]
           frame == Head(down)
<1>1. PICK normalizes \in BOOLEAN : /\ normalizes => client[c].doc.seen[c] < MaxEdits
                                    /\ Install(c, OnFrame(c, taken, frame, normalizes))
  BY DEF Receive
<1>2. log' = log /\ down # <<>>
  BY DEF Receive
<1>3. /\ w \in TabsOf(V) /\ w.p \in PagesOf(V) /\ w.s[s] \in WiresOf(V)
      /\ w.s \in [Slot -> WiresOf(V)] /\ w.p.doc.seen[c] = Cap[c] /\ w.s = sock[c]
  BY TabOwn, TabTypes DEF OwnTab
<1>4. Cap \in [Author -> Nat] /\ Cap[c] = client[c].doc.seen[c]
  BY CapParts
<1>5. frame \in DownsOf(V) /\ Tail(down) \in Seq(DownsOf(V))
  <2>1. down \in Seq(DownsOf(V))
    BY <1>3 DEF WiresOf
  <2> QED
    BY <1>2, <2>1, HeadTailProperties
<1>6. w.s[s].down = down
  BY <1>3
<1> HIDE DEF w, V, down, frame
<1>7. x \in WiresOf(V)
  BY <1>3, <1>5 DEF WiresOf
<1>8. q \in PagesOf(V) /\ q.doc = w.p.doc
  BY <1>3 DEF PagesOf
<1>9. taken = [p |-> q, s |-> [w.s EXCEPT ![s] = x]]
  <2> DEFINE v == [p |-> w.p, s |-> [w.s EXCEPT ![s] = x]]
  <2>1. [w EXCEPT !.s[s].down = Tail(@)] = v
    <3>1. [w EXCEPT !.s[s].down = Tail(@)] = [w EXCEPT !.s = [w.s EXCEPT ![s] = x]]
      BY <1>3, <1>6 DEF TabsOf
    <3>2. v = [w EXCEPT !.s = [w.s EXCEPT ![s] = x]]
      <4> HIDE DEF x
      <4> QED
        BY <1>3 DEF TabsOf
    <3> QED
      BY <3>1, <3>2
  <2>2. taken = [v EXCEPT !.p.mine = FALSE]
    BY <2>1
  <2> HIDE DEF x, taken
  <2> QED
    BY <1>3, <2>2 DEF TabsOf
<1> HIDE DEF x, q, taken
<1>10. taken \in TabsOf(V) /\ taken.p = q
  BY <1>3, <1>7, <1>8, <1>9, TabSet
<1>11. OwnTab(Cap, c, taken)
  BY <1>3, <1>8, <1>10 DEF OwnTab, V
<1> DEFINE f == OnFrame(c, taken, frame, normalizes)
<1>12. OwnTab(Cap, c, f) \/ (normalizes = TRUE /\ OwnTab(Raised(Cap, c), c, f))
  BY <1>4, <1>5, <1>11, OnFrameTyped DEF V
<1>13. normalizes = TRUE => Cap[c] < MaxEdits
  BY <1>1, <1>4
<1>14. Install(c, f)
  BY <1>1
<1> HIDE DEF f
<1>15. OwnTab(Cap, c, f) \/ (OwnTab(Raised(Cap, c), c, f) /\ Cap[c] < MaxEdits)
  BY <1>12, <1>13
<1>16. CASE OwnTab(Cap, c, f)
  BY <1>2, <1>14, <1>16, InstalledTyped
<1>17. CASE OwnTab(Raised(Cap, c), c, f) /\ Cap[c] < MaxEdits
  BY <1>2, <1>14, <1>17, InstalledRaised
<1> QED
  BY <1>15, <1>16, <1>17

LEMMA HearCloseTyped == ASSUME BoundInv, NEW c \in Client, NEW s \in Slot, HearClose(c, s) PROVE BoundInv'
<1> DEFINE V == Under(Cap)
           w == Tab(c)
           closed == [w EXCEPT !.s[s].state = "closed", !.s[s].listening = FALSE, !.p.connected = FALSE]
           x == [w.s[s] EXCEPT !.state = "closed", !.listening = FALSE]
           q == [w.p EXCEPT !.connected = FALSE]
<1>1. /\ w \in TabsOf(V) /\ w.p \in PagesOf(V) /\ w.s[s] \in WiresOf(V)
      /\ w.s \in [Slot -> WiresOf(V)] /\ w.p.doc.seen[c] = Cap[c]
  BY TabOwn, TabTypes DEF OwnTab
<1>2. log' = log /\ Install(c, ScheduleReconnect(Detach(closed)))
  BY DEF HearClose
<1> HIDE DEF w, V
<1>3. x \in WiresOf(V)
  BY <1>1 DEF WiresOf
<1>4. q \in PagesOf(V) /\ q.doc = w.p.doc
  BY <1>1 DEF PagesOf
<1>5. closed = [p |-> q, s |-> [w.s EXCEPT ![s] = x]]
  <2> DEFINE v == [p |-> w.p, s |-> [w.s EXCEPT ![s] = x]]
  <2>1. [w EXCEPT !.s[s].state = "closed", !.s[s].listening = FALSE] = v
    <3>1. [w EXCEPT !.s[s].state = "closed", !.s[s].listening = FALSE] = [w EXCEPT !.s = [w.s EXCEPT ![s] = x]]
      BY <1>1 DEF TabsOf
    <3> QED
      BY <1>1, <3>1 DEF TabsOf
  <2>2. closed = [v EXCEPT !.p.connected = FALSE]
    BY <2>1
  <2> HIDE DEF x, closed
  <2> QED
    BY <1>1, <2>2 DEF TabsOf
<1> HIDE DEF x, q, closed
<1>6. closed \in TabsOf(V) /\ closed.p = q
  BY <1>1, <1>3, <1>4, <1>5, TabSet
<1>7. OwnTab(Cap, c, ScheduleReconnect(Detach(closed)))
  BY <1>1, <1>4, <1>6, DetachTyped, ScheduleReconnectTyped DEF OwnTab, V
<1> QED
  BY <1>2, <1>7, InstalledTyped

LEMMA AttachTyped ==
  ASSUME BoundInv, NEW c \in Client, log' = log,
         \E w \in Attached([Tab(c) EXCEPT !.p.retry = FALSE]) : Install(c, w)
  PROVE  BoundInv'
<1> DEFINE V == Under(Cap)
           t == Tab(c)
           v == [t EXCEPT !.p.retry = FALSE]
<1>1. t \in TabsOf(V) /\ t.p.doc.seen[c] = Cap[c]
  BY TabOwn DEF OwnTab
<1>2. PICK w \in Attached(v) : Install(c, w)
  OBVIOUS
<1> HIDE DEF V, t
<1>3. v \in TabsOf(V) /\ v.p.doc = t.p.doc
  BY <1>1 DEF TabsOf, PagesOf
<1> HIDE DEF v
<1>4. OwnTab(Cap, c, w)
  BY <1>1, <1>3, AttachedTyped DEF OwnTab, V
<1> QED
  BY <1>2, <1>4, InstalledTyped

LEMMA ReloadTyped == ASSUME BoundInv, NEW c \in Client, Reload(c) PROVE BoundInv'
<1> DEFINE V == Under(Cap)
           q == [Provider EXCEPT !.doc = client[c].doc]
           t == [s \in Slot |-> IF sock[c][s].serving
                  THEN [sock[c][s] EXCEPT !.state = "closed", !.listening = FALSE, !.down = <<>>]
                  ELSE NoSocket]
           v == [p |-> q, s |-> t]
<1>1. PICK w \in Attached(v) : Install(c, w)
  BY DEF Reload
<1>2. log' = log
  BY DEF Reload
<1>3. client[c].doc \in RepsOf(V) /\ client[c].doc.seen[c] = Cap[c] /\ \A s \in Slot : sock[c][s] \in WiresOf(V)
  BY CapParts DEF BoundInv, PagesOf
<1> HIDE DEF V
<1>4. <<>> \in Seq(FlightsOf(V)) /\ <<>> \in Seq(UpsOf(V)) /\ <<>> \in Seq(DownsOf(V))
  BY EmptySeq
<1>5. q \in PagesOf(V) /\ q.doc = client[c].doc
  BY <1>3, <1>4 DEF Provider, PagesOf
<1>6. t \in [Slot -> WiresOf(V)]
  <2> SUFFICES ASSUME NEW s \in Slot PROVE t[s] \in WiresOf(V)
    OBVIOUS
  <2>1. CASE sock[c][s].serving
    BY <1>3, <1>4, <2>1 DEF WiresOf
  <2>2. CASE ~ sock[c][s].serving
    BY <1>4, <2>2 DEF NoSocket, WiresOf
  <2> QED
    BY <2>1, <2>2
<1> HIDE DEF q, t
<1>7. v \in TabsOf(V) /\ v.p = q
  BY <1>5, <1>6 DEF TabsOf
<1> HIDE DEF v
<1>8. OwnTab(Cap, c, w)
  BY <1>3, <1>5, <1>7, AttachedTyped DEF OwnTab, V
<1> QED
  BY <1>1, <1>2, <1>8, InstalledTyped

LEMMA DestroyTyped == ASSUME BoundInv, NEW c \in Client, Destroy(c) PROVE BoundInv'
<1> DEFINE V == Under(Cap)
           sent == Send(Tab(c), Signal("unsubscribe"))
           marked == [sent EXCEPT !.p.destroyed = TRUE]
           left == DetachAndClose(marked)
           v == [left EXCEPT !.p.connected = FALSE, !.p.retry = FALSE]
<1>1. log' = log /\ Install(c, v)
  BY DEF Destroy
<1>2. Signal("unsubscribe") \in UpsOf(V)
  BY DEF Signal, UpsOf
<1>3. sent \in TabsOf(V) /\ sent.p.doc.seen[c] = Cap[c]
  BY <1>2, TabOwn, SendTyped DEF OwnTab
<1> HIDE DEF V, sent
<1>4. marked \in TabsOf(V) /\ marked.p.doc = sent.p.doc
  BY <1>3 DEF TabsOf, PagesOf
<1> HIDE DEF marked
<1>5. left \in TabsOf(V) /\ left.p.doc = marked.p.doc
  BY <1>4, DetachAndCloseTyped
<1> HIDE DEF left
<1>6. v \in TabsOf(V) /\ v.p.doc = left.p.doc
  BY <1>5 DEF TabsOf, PagesOf
<1> HIDE DEF v
<1>7. OwnTab(Cap, c, v)
  BY <1>3, <1>4, <1>5, <1>6 DEF OwnTab, V
<1> QED
  BY <1>1, <1>7, InstalledTyped

-----------------------------------------------------------------------------
(* A step of the server or the network. *)
SocksOf(V) == [Client -> [Slot -> WiresOf(V)]]

LEMMA ServedTyped ==
  ASSUME BoundInv, client' = client, sock' \in SocksOf(Under(Cap)), log' \in RepsOf(Under(Cap))
  PROVE  BoundInv'
<1>1. Cap' = Cap
  BY DEF Cap
<1> QED
  BY <1>1 DEF BoundInv, SocksOf

LEMMA SocksSet ==
  ASSUME NEW V, NEW socks \in SocksOf(V), NEW c \in Client, NEW s \in Slot, NEW x \in WiresOf(V)
  PROVE  [socks EXCEPT ![c][s] = x] \in SocksOf(V)
BY DEF SocksOf

LEMMA SocksNow ==
  ASSUME BoundInv
  PROVE  /\ sock \in SocksOf(Under(Cap)) /\ log \in RepsOf(Under(Cap))
         /\ \A c \in Client, s \in Slot : sock[c][s] \in WiresOf(Under(Cap))
BY DEF BoundInv, SocksOf

LEMMA SocksTaken ==
  ASSUME BoundInv, NEW c \in Client, NEW s \in Slot, sock[c][s].up # <<>>
  PROVE  Taken(c, s) \in SocksOf(Under(Cap)) /\ Head(sock[c][s].up) \in UpsOf(Under(Cap))
<1> DEFINE V == Under(Cap)
           x == [sock[c][s] EXCEPT !.up = Tail(@)]
<1>1. sock \in SocksOf(V) /\ sock[c][s] \in WiresOf(V)
  BY SocksNow
<1>2. Head(sock[c][s].up) \in UpsOf(V) /\ Tail(sock[c][s].up) \in Seq(UpsOf(V))
  <2>1. sock[c][s].up \in Seq(UpsOf(V))
    BY <1>1 DEF WiresOf
  <2> QED
    BY <2>1, HeadTailProperties
<1>3. x \in WiresOf(V)
  BY <1>1, <1>2 DEF WiresOf
<1>4. Taken(c, s) = [sock EXCEPT ![c][s] = x]
  BY DEF Taken
<1> HIDE DEF x
<1>5. [sock EXCEPT ![c][s] = x] \in SocksOf(V)
  BY <1>1, <1>3, SocksSet
<1> QED
  BY <1>2, <1>4, <1>5

LEMMA SocksReply ==
  ASSUME NEW V, NEW socks \in SocksOf(V), NEW c \in Client, NEW s \in Slot, NEW frame \in DownsOf(V)
  PROVE  Reply(socks, c, s, frame) \in SocksOf(V)
<1> DEFINE x == [socks[c][s] EXCEPT !.down = Append(@, frame)]
<1>1. socks[c][s] \in WiresOf(V)
  BY DEF SocksOf
<1>2. Append(socks[c][s].down, frame) \in Seq(DownsOf(V))
  <2>1. socks[c][s].down \in Seq(DownsOf(V))
    BY <1>1 DEF WiresOf
  <2> QED
    BY <2>1, AppendProperties
<1>3. x \in WiresOf(V)
  BY <1>1, <1>2 DEF WiresOf
<1>4. Reply(socks, c, s, frame) \in {socks, [socks EXCEPT ![c][s] = x]}
  BY DEF Reply
<1> HIDE DEF x
<1> QED
  BY <1>3, <1>4, SocksSet

LEMMA SocksBroadcast ==
  ASSUME NEW V, NEW socks \in SocksOf(V), NEW u \in UpdsOf(V)
  PROVE  Broadcast(socks, u) \in SocksOf(V)
<1> DEFINE frame == Frame("update", u)
           b == Broadcast(socks, u)
<1>1. frame \in DownsOf(V)
  BY DEF Frame, DownsOf
<1>2. ASSUME NEW c \in Client, NEW s \in Slot PROVE b[c][s] \in WiresOf(V)
  <2> DEFINE x == [socks[c][s] EXCEPT !.down = Append(@, frame)]
  <2>1. socks[c][s] \in WiresOf(V)
    BY DEF SocksOf
  <2>2. b[c][s] \in {x, socks[c][s]}
    BY DEF Broadcast
  <2> HIDE DEF frame
  <2>3. Append(socks[c][s].down, frame) \in Seq(DownsOf(V))
    <3>1. socks[c][s].down \in Seq(DownsOf(V))
      BY <2>1 DEF WiresOf
    <3> QED
      BY <1>1, <3>1, AppendProperties
  <2>4. x \in WiresOf(V)
    BY <2>1, <2>3 DEF WiresOf
  <2> QED
    BY <2>1, <2>2, <2>4
<1>3. b = [c \in Client |-> [s \in Slot |-> b[c][s]]]
  BY DEF Broadcast
<1> HIDE DEF b
<1> QED
  BY <1>2, <1>3 DEF SocksOf, b

LEMMA SubscribeTyped == ASSUME BoundInv, NEW c \in Client, NEW s \in Slot, Subscribe(c, s) PROVE BoundInv'
<1> DEFINE V == Under(Cap)
           admission == Signal("admitted")
           state == Frame("sync", State(log))
           two == Reply(Reply(Taken(c, s), c, s, admission), c, s, state)
           x == [two[c][s] EXCEPT !.joined = TRUE]
<1>1. /\ sock[c][s].up # <<>> /\ client' = client /\ log' = log
      /\ sock' = [two EXCEPT ![c][s].joined = TRUE]
  BY DEF Subscribe, Serves
<1>2. admission \in DownsOf(V) /\ state \in DownsOf(V) /\ log \in RepsOf(V)
  <2>1. State(log) \in UpdsOf(V)
    BY SocksNow, CapParts, StateUnder
  <2> QED
    BY <2>1, SocksNow DEF Signal, Frame, DownsOf
<1>3. two \in SocksOf(V)
  BY <1>1, <1>2, SocksTaken, SocksReply
<1> HIDE DEF two
<1>4. two[c][s] \in WiresOf(V)
  BY <1>3 DEF SocksOf
<1>5. x \in WiresOf(V) /\ sock' = [two EXCEPT ![c][s] = x]
  BY <1>1, <1>4 DEF WiresOf
<1> HIDE DEF x
<1>6. sock' \in SocksOf(V)
  BY <1>3, <1>5, SocksSet
<1> QED
  BY <1>1, <1>2, <1>6, ServedTyped

LEMMA RefusalTyped ==
  ASSUME BoundInv, NEW c \in Client, NEW s \in Slot, sock[c][s].up # <<>>, client' = client, log' = log,
         NEW kind \in {"refresh_required", "error"}, sock' = Reply(Taken(c, s), c, s, Signal(kind))
  PROVE  BoundInv'
<1>1. Signal(kind) \in DownsOf(Under(Cap))
  BY DEF Signal, DownsOf
<1> QED
  BY <1>1, SocksNow, SocksTaken, SocksReply, ServedTyped

LEMMA UnsubscribeTyped == ASSUME BoundInv, NEW c \in Client, NEW s \in Slot, Unsubscribe(c, s) PROVE BoundInv'
<1> DEFINE V == Under(Cap)
           t == Taken(c, s)
           x == [t[c][s] EXCEPT !.joined = FALSE]
<1>1. /\ sock[c][s].up # <<>> /\ client' = client /\ log' = log
      /\ sock' = [t EXCEPT ![c][s].joined = FALSE]
  BY DEF Unsubscribe, Serves
<1>2. t \in SocksOf(V) /\ log \in RepsOf(V)
  BY <1>1, SocksTaken, SocksNow
<1> HIDE DEF t
<1>3. t[c][s] \in WiresOf(V)
  BY <1>2 DEF SocksOf
<1>4. x \in WiresOf(V) /\ sock' = [t EXCEPT ![c][s] = x]
  BY <1>1, <1>3 DEF WiresOf
<1> HIDE DEF x
<1>5. sock' \in SocksOf(V)
  BY <1>2, <1>4, SocksSet
<1> QED
  BY <1>1, <1>2, <1>5, ServedTyped

LEMMA AcceptTyped == ASSUME BoundInv, NEW c \in Client, NEW s \in Slot, AcceptUpdate(c, s) PROVE BoundInv'
<1> DEFINE V == Under(Cap)
           u == Head(sock[c][s].up).body
<1>1. /\ sock[c][s].up # <<>> /\ Head(sock[c][s].up).kind = "update" /\ client' = client
  BY DEF AcceptUpdate, Serves
<1>2. Taken(c, s) \in SocksOf(V) /\ u \in UpdsOf(V) /\ log \in RepsOf(V)
  BY <1>1, SocksTaken, SocksNow DEF UpsOf
<1>3. \/ log' = log /\ sock' = Reply(Taken(c, s), c, s, Signal("refresh_required"))
      \/ log' = log /\ sock' = Reply(Taken(c, s), c, s, Signal("error"))
      \/ log' = Merge(log, u) /\ sock' = Broadcast(Taken(c, s), u)
  BY DEF AcceptUpdate
<1>4. CASE log' = log /\ sock' = Reply(Taken(c, s), c, s, Signal("refresh_required"))
  BY <1>1, <1>4, RefusalTyped
<1>5. CASE log' = log /\ sock' = Reply(Taken(c, s), c, s, Signal("error"))
  BY <1>1, <1>5, RefusalTyped
<1>6. CASE log' = Merge(log, u) /\ sock' = Broadcast(Taken(c, s), u)
  BY <1>1, <1>2, <1>6, CapParts, MergeUnder, SocksBroadcast, ServedTyped
<1> QED
  BY <1>3, <1>4, <1>5, <1>6

LEMMA ImportTyped == ASSUME BoundInv, ImportExternal PROVE BoundInv'
<1> DEFINE V == Under(Cap)
           t == [log.seen EXCEPT ![Disk] = @ + 1]
           u == NextEdit(Disk, log)
<1>1. /\ client' = client /\ log' = Merge(log, u) /\ sock' = Broadcast(sock, u)
      /\ log.seen[Disk] < MaxEdits
  BY DEF ImportExternal
<1>2. /\ log \in RepsOf(V) /\ sock \in SocksOf(V) /\ Cap \in [Author -> Nat]
      /\ Cap[Disk] = MaxEdits /\ Disk \in Author
  BY SocksNow, CapParts DEF Author
<1>3. log.seen \in [Author -> Nat] /\ \A a \in Author : log.seen[a] <= Cap[a]
  BY <1>2 DEF RepsOf, Under
<1>4. t \in Under(Cap)
  <2>1. t \in [Author -> Nat]
    BY <1>2, <1>3
  <2>2. ASSUME NEW a \in Author PROVE t[a] <= Cap[a]
    <3>1. CASE a = Disk
      <4>1. t[a] = log.seen[Disk] + 1 /\ log.seen[Disk] \in Nat
        BY <1>2, <1>3, <3>1
      <4> HIDE DEF t
      <4> QED
        BY <1>1, <1>2, <3>1, <4>1, BoundAssumption
    <3>2. CASE a # Disk
      BY <1>3, <3>2
    <3> QED
      BY <3>1, <3>2
  <2> HIDE DEF t
  <2> QED
    BY <2>1, <2>2 DEF Under
<1>5. u \in UpdsOf(V)
  <2>1. u = [from |-> log.seen, to |-> t, gone |-> {}]
    BY DEF NextEdit
  <2> HIDE DEF t, u
  <2> QED
    BY <1>2, <1>4, <2>1 DEF RepsOf, UpdsOf
<1> HIDE DEF u
<1> QED
  BY <1>1, <1>2, <1>5, MergeUnder, SocksBroadcast, ServedTyped

LEMMA CloseRoomTyped == ASSUME BoundInv, CloseRoom PROVE BoundInv'
<1> DEFINE V == Under(Cap)
<1>1. /\ client' = client /\ log' = log
      /\ sock' = [c \in Client |-> [s \in Slot |-> [sock[c][s] EXCEPT !.joined = FALSE]]]
  BY DEF CloseRoom
<1>2. ASSUME NEW c \in Client, NEW s \in Slot PROVE [sock[c][s] EXCEPT !.joined = FALSE] \in WiresOf(V)
  BY SocksNow DEF WiresOf
<1>3. sock' \in SocksOf(V)
  BY <1>1, <1>2 DEF SocksOf
<1> QED
  BY <1>1, <1>3, SocksNow, ServedTyped

LEMMA BreakTyped == ASSUME BoundInv, NEW c \in Client, NEW s \in Slot, Break(c, s) PROVE BoundInv'
<1> DEFINE V == Under(Cap)
           state == IF sock[c][s].listening THEN "dead" ELSE "closed"
           x == [sock[c][s] EXCEPT !.state = state, !.down = <<>>]
<1>1. sock \in SocksOf(V) /\ sock[c][s] \in WiresOf(V) /\ log \in RepsOf(V) /\ <<>> \in Seq(DownsOf(V))
  BY SocksNow, EmptySeq
<1>2. x \in WiresOf(V)
  BY <1>1 DEF WiresOf
<1>3. client' = client /\ log' = log /\ sock' = [sock EXCEPT ![c][s] = x]
  BY <1>1 DEF Break, SocksOf, WiresOf
<1> HIDE DEF x
<1> QED
  BY <1>1, <1>2, <1>3, SocksSet, ServedTyped

LEMMA DisconnectTyped == ASSUME BoundInv, NEW c \in Client, NEW s \in Slot, Disconnect(c, s) PROVE BoundInv'
<1> DEFINE V == Under(Cap)
           x == [sock[c][s] EXCEPT !.serving = FALSE, !.joined = FALSE, !.up = <<>>]
<1>1. sock \in SocksOf(V) /\ sock[c][s] \in WiresOf(V) /\ log \in RepsOf(V) /\ <<>> \in Seq(UpsOf(V))
  BY SocksNow, EmptySeq
<1>2. x \in WiresOf(V)
  BY <1>1 DEF WiresOf
<1>3. client' = client /\ log' = log /\ sock' = [sock EXCEPT ![c][s] = x]
  BY <1>1 DEF Disconnect
<1> HIDE DEF x
<1> QED
  BY <1>1, <1>2, <1>3, SocksSet, ServedTyped

-----------------------------------------------------------------------------
LEMMA TabStepsTyped ==
  ASSUME BoundInv, NEW c \in Client, User(c) \/ Listener(c) \/ Browser(c)
  PROVE  BoundInv'
<1>1. CASE User(c)
  BY <1>1, EditTyped, EraseTyped DEF User
<1>2. CASE Listener(c)
  <2>1. CASE Retry(c)
    BY <2>1, AttachTyped DEF Retry
  <2> QED
    BY <1>2, <2>1, OpenTyped, ReceiveTyped, HearCloseTyped DEF Listener
<1>3. CASE Browser(c)
  <2>1. CASE GoOffline(c)
    <3>1. Install(c, Offline(Tab(c))) /\ log' = log
      BY <2>1 DEF GoOffline
    <3>2. OwnTab(Cap, c, Offline(Tab(c)))
      BY TabOwn, OfflineTyped DEF OwnTab
    <3> QED
      BY <3>1, <3>2, InstalledTyped
  <2>2. CASE ComeOnline(c)
    BY <2>2, AttachTyped DEF ComeOnline
  <2> QED
    BY <1>3, <2>1, <2>2, ReloadTyped, DestroyTyped DEF Browser
<1> QED
  BY <1>1, <1>2, <1>3

LEMMA ServerStepsTyped ==
  ASSUME BoundInv, NEW c \in Client, NEW s \in Slot, Server(c, s) \/ Failure(c, s)
  PROVE  BoundInv'
<1>1. CASE Server(c, s)
  BY <1>1, SubscribeTyped, UnsubscribeTyped, AcceptTyped, DisconnectTyped DEF Server
<1>2. CASE SubscribeFails(c, s)
  BY <1>2, RefusalTyped DEF SubscribeFails, Serves
<1>3. CASE RefuseUpdate(c, s)
  BY <1>3, RefusalTyped DEF RefuseUpdate, Serves
<1> QED
  BY <1>1, <1>2, <1>3, BreakTyped DEF Failure

LEMMA NextTyped == BoundInv /\ [Next]_vars => BoundInv'
<1> SUFFICES ASSUME BoundInv, [Next]_vars PROVE BoundInv'
  OBVIOUS
<1>1. CASE UNCHANGED vars
  BY <1>1, SocksNow, ServedTyped DEF vars
<1>2. CASE Next
  <2>1. CASE \E c \in Client : User(c) \/ Listener(c) \/ Browser(c)
    BY <2>1, TabStepsTyped
  <2>2. CASE \E c \in Client, s \in Slot : Server(c, s) \/ Failure(c, s)
    BY <2>2, ServerStepsTyped
  <2> QED
    BY <1>2, <2>1, <2>2, ImportTyped, CloseRoomTyped DEF Next
<1> QED
  BY <1>1, <1>2

LEMMA InitTyped == Init => BoundInv
<1> SUFFICES ASSUME Init PROVE BoundInv
  OBVIOUS
<1> DEFINE V == Under(Cap)
<1>1. <<>> \in Seq(FlightsOf(V)) /\ <<>> \in Seq(UpsOf(V)) /\ <<>> \in Seq(DownsOf(V))
  BY EmptySeq
<1>2. ASSUME NEW c \in Client PROVE client[c].doc = Empty
  BY DEF Init, Provider
<1>3. ASSUME NEW a \in Author PROVE Cap[a] = IF a = Disk THEN MaxEdits ELSE 0
  BY <1>2 DEF Cap, Author, Empty
<1>4. Cap \in Vector /\ Cap \in [Author -> Nat]
  <2>1. \A a \in Author : Cap[a] \in 0..MaxEdits /\ Cap[a] \in Nat
    BY <1>3, BoundAssumption
  <2> QED
    BY <2>1 DEF Cap, Vector
<1>5. Empty \in RepsOf(V)
  <2>1. [a \in Author |-> 0] \in Under(Cap)
    BY <1>4 DEF Under
  <2> QED
    BY <2>1 DEF Empty, RepsOf
<1>6. 1 \in Slot
  BY BoundAssumption DEF Slot
<1> HIDE DEF V
<1>7. client \in [Client -> PagesOf(V)]
  BY <1>1, <1>5, <1>6 DEF Init, Provider, PagesOf
<1>8. sock \in [Client -> [Slot -> WiresOf(V)]]
  BY <1>1 DEF Init, NoSocket, WiresOf
<1> QED
  BY <1>4, <1>5, <1>7, <1>8 DEF BoundInv, Init, V

LEMMA TroubleSteps ==
  ASSUME [Next]_vars
  PROVE  trouble' = trouble \/ \E kind : Mishap(kind)
<1>1. ASSUME NEW c \in Client, User(c) PROVE trouble' = trouble
  BY <1>1 DEF User, Edit, Erase
<1>2. ASSUME NEW c \in Client, Listener(c) PROVE trouble' = trouble
  BY <1>2 DEF Listener, Retry, Open, Receive, HearClose
<1>3. ASSUME NEW c \in Client, Browser(c) PROVE \E kind : Mishap(kind)
  BY <1>3 DEF Browser, GoOffline, ComeOnline, Reload, Destroy
<1>4. ASSUME NEW c \in Client, NEW s \in Slot, Server(c, s) PROVE trouble' = trouble
  BY <1>4 DEF Server, Subscribe, Unsubscribe, AcceptUpdate, Disconnect
<1>5. ASSUME NEW c \in Client, NEW s \in Slot, Failure(c, s) PROVE \E kind : Mishap(kind)
  BY <1>5 DEF Failure, SubscribeFails, RefuseUpdate, Break
<1>6. ASSUME ImportExternal \/ UNCHANGED vars PROVE trouble' = trouble
  BY <1>6 DEF ImportExternal, vars
<1>7. ASSUME CloseRoom PROVE \E kind : Mishap(kind)
  BY <1>7 DEF CloseRoom
<1> QED
  BY <1>1, <1>2, <1>3, <1>4, <1>5, <1>6, <1>7 DEF Next

(* Every vector that a tab, a frame or the log holds stays within MaxEdits, which only the
   guards of an edit bound: a tab that normalizes what the server sent (onMessage in sync.ts)
   makes its own next edit, not one that the server already has of it. *)
THEOREM ProtocolTyped == Spec => []TypeOK
<1> DEFINE Mishaps == trouble \in 0..MaxTrouble
<1>1. Init => Mishaps
  BY BoundAssumption DEF Init
<1>2. Mishaps /\ [Next]_vars => Mishaps'
  BY TroubleSteps, BoundAssumption DEF Mishap
<1>3. BoundInv /\ Mishaps => TypeOK
  <2> SUFFICES ASSUME BoundInv, Mishaps PROVE TypeOK
    OBVIOUS
  <2>1. Under(Cap) \subseteq Vector
    <3> SUFFICES ASSUME NEW v \in Under(Cap), NEW a \in Author PROVE v[a] \in 0..MaxEdits
      BY DEF Under, Vector
    <3>1. v[a] \in Nat /\ v[a] <= Cap[a] /\ Cap[a] \in 0..MaxEdits
      BY CapParts DEF Under
    <3> QED
      BY <3>1, BoundAssumption
  <2>2. /\ client \in [Client -> PagesOf(Vector)] /\ sock \in [Client -> [Slot -> WiresOf(Vector)]]
        /\ log \in RepsOf(Vector)
    <3>1. /\ PagesOf(Under(Cap)) \subseteq PagesOf(Vector) /\ WiresOf(Under(Cap)) \subseteq WiresOf(Vector)
          /\ RepsOf(Under(Cap)) \subseteq RepsOf(Vector)
      BY <2>1, TypesGrow
    <3> QED
      BY <3>1 DEF BoundInv
  <2> QED
    BY <2>2 DEF TypeOK, PagesOf, WiresOf, RepsOf, UpdsOf, FlightsOf, UpsOf, DownsOf,
                Replica, Update, UpFrames, DownFrames
<1> HIDE DEF Mishaps
<1> QED
  BY <1>1, <1>2, <1>3, InitTyped, NextTyped, PTL DEF Spec
==============================================================================
