------------------------ MODULE OfflineReplica_proofs ------------------------
(* Proofs about OfflineReplica, for any notes, panes, edits and worlds. *)
EXTENDS OfflineReplica, SequenceTheorems, NaturalsInduction, WellFoundedInduction, TLAPS

-----------------------------------------------------------------------------
(* Induction, with a set for the predicate. *)
LEMMA Least ==
  ASSUME NEW T, T \subseteq Nat, T # {}
  PROVE  \E x \in T : \A y \in T : x <= y
<1> DEFINE R == OpToRel(<, Nat)
<1>1. IsWellFoundedOn(R, Nat)
  BY NatLessThanWellFounded
<1>2. R = {ss \in Nat \X Nat : ss[1] < ss[2]}
  BY DEF OpToRel
<1> HIDE DEF R
<1>3. PICK x \in T : \A y \in T : <<y, x>> \notin R
  BY <1>1, WFMin
<1>4. SUFFICES ASSUME NEW y \in T PROVE x <= y
  OBVIOUS
<1>5. <<y, x>> \in Nat \X Nat /\ <<y, x>>[1] = y /\ <<y, x>>[2] = x
  OBVIOUS
<1>6. ~ (y < x)
  BY <1>2, <1>3, <1>5
<1>7. x \in Nat /\ y \in Nat
  OBVIOUS
<1> QED
  BY <1>6, <1>7

LEMMA Induct ==
  ASSUME NEW n \in Nat, NEW T, 0 \in T, \A i \in 0..n : i \in T /\ i < n => i + 1 \in T
  PROVE  \A i \in 0..n : i \in T
<1> DEFINE U == {i \in 0..n : i \notin T}
<1>1. SUFFICES ASSUME U # {} PROVE FALSE
  OBVIOUS
<1>0. U \subseteq Nat
  OBVIOUS
<1>2. PICK x \in U : \A y \in U : x <= y
  <2> HIDE DEF U
  <2> QED
    BY <1>0, <1>1, Least
<1>3. x # 0
  OBVIOUS
<1>4. x \in Nat /\ x - 1 \in 0..n /\ x - 1 < n
  BY <1>2, <1>3
<1>5. x - 1 \notin U
  BY <1>2, <1>4
<1>6. x - 1 \in T /\ (x - 1) + 1 = x
  BY <1>4, <1>5
<1> QED
  BY <1>2, <1>4, <1>6

-----------------------------------------------------------------------------
(* The records: what is deleted goes, what is opened comes last, and no note has two. *)
Recorded ==
  /\ resident \in Seq(Note)
  /\ \A i, j \in DOMAIN resident : resident[i] = resident[j] => i = j

LEMMA WithoutParts ==
  ASSUME Recorded, NEW n
  PROVE  /\ Without(n) \in Seq(Note)
         /\ \A i, j \in DOMAIN Without(n) : Without(n)[i] = Without(n)[j] => i = j
         /\ {Without(n)[i] : i \in DOMAIN Without(n)} = Residents \ {n}
<1> DEFINE L == Len(resident)
           k == CHOOSE k \in DOMAIN resident : resident[k] = n
           s == [i \in 1..(L - 1) |-> resident[IF i < k THEN i ELSE i + 1]]
<1>1. resident \in Seq(Note) /\ L \in Nat /\ DOMAIN resident = 1..L
      /\ \A i \in 1..L : resident[i] \in Note
  BY LenProperties DEF Recorded
<1>2. CASE n \notin Residents
  <2>1. Without(n) = resident
    BY <1>2 DEF Without
  <2> QED
    BY <1>2, <2>1 DEF Recorded, Residents
<1>3. CASE n \in Residents
  <2>1. Without(n) = s
    BY <1>3 DEF Without
  <2>2. k \in 1..L /\ resident[k] = n
    BY <1>1, <1>3 DEF Residents
  <2>3. \A i, j \in 1..L : resident[i] = resident[j] => i = j
    BY <1>1 DEF Recorded
  <2> HIDE DEF k, L
  <2>4. \A i \in 1..(L - 1) : (IF i < k THEN i ELSE i + 1) \in 1..L
    BY <1>1, <2>2
  <2>5. s \in [1..(L - 1) -> Note] /\ L - 1 \in Nat
    BY <1>1, <2>2, <2>4
  <2>6. s \in Seq(Note) /\ DOMAIN s = 1..(L - 1)
    BY <2>5, SeqDef
  <2>7. ASSUME NEW i \in 1..(L - 1), NEW j \in 1..(L - 1), s[i] = s[j] PROVE i = j
    <3>1. (IF i < k THEN i ELSE i + 1) = (IF j < k THEN j ELSE j + 1)
      BY <2>3, <2>4, <2>7
    <3> QED
      BY <1>1, <2>2, <3>1
  <2>8. ASSUME NEW i \in 1..(L - 1) PROVE s[i] \in Residents /\ s[i] # n
    <3>1. (IF i < k THEN i ELSE i + 1) # k
      BY <1>1, <2>2
    <3>2. s[i] = resident[IF i < k THEN i ELSE i + 1]
      OBVIOUS
    <3> QED
      BY <1>1, <2>2, <2>3, <2>4, <3>1, <3>2 DEF Residents
  <2>9. ASSUME NEW m \in Residents, m # n PROVE \E i \in 1..(L - 1) : s[i] = m
    <3>1. PICK j \in 1..L : resident[j] = m
      BY <1>1 DEF Residents
    <3>2. j # k
      BY <2>2, <2>9, <3>1
    <3>3. CASE j < k
      <4>1. j \in 1..(L - 1)
        BY <1>1, <2>2, <3>3
      <4> QED
        BY <3>1, <3>3, <4>1
    <3>4. CASE j > k
      <4>1. j - 1 \in 1..(L - 1) /\ ~(j - 1 < k) /\ (j - 1) + 1 = j
        BY <1>1, <2>2, <3>4
      <4> QED
        BY <3>1, <4>1
    <3> QED
      BY <1>1, <2>2, <3>2, <3>3, <3>4
  <2> HIDE DEF s
  <2>10. {s[i] : i \in 1..(L - 1)} = Residents \ {n}
    BY <2>8, <2>9
  <2> QED
    BY <2>1, <2>6, <2>7, <2>10
<1> QED
  BY <1>2, <1>3

LEMMA RecordsDeleted ==
  ASSUME Recorded, NEW n, resident' = Without(n)
  PROVE  Recorded' /\ Residents' = Residents \ {n}
<1> DEFINE w == Without(n)
<1>1. /\ w \in Seq(Note)
      /\ \A i, j \in DOMAIN w : w[i] = w[j] => i = j
      /\ {w[i] : i \in DOMAIN w} = Residents \ {n}
  BY WithoutParts
<1>2. resident' = w
  OBVIOUS
<1> HIDE DEF w
<1>3. Recorded'
  BY <1>1, <1>2 DEF Recorded
<1>4. Residents' = {w[i] : i \in DOMAIN w}
  BY <1>2 DEF Residents
<1> QED
  BY <1>1, <1>3, <1>4

LEMMA RecordsOpened ==
  ASSUME Recorded, NEW n \in Note, resident' = Append(Without(n), n)
  PROVE  Recorded' /\ Residents' = Residents \cup {n}
<1> DEFINE w == Without(n)
           s == Append(w, n)
<1>1. /\ w \in Seq(Note)
      /\ \A i, j \in DOMAIN w : w[i] = w[j] => i = j
      /\ {w[i] : i \in DOMAIN w} = Residents \ {n}
  BY WithoutParts
<1> HIDE DEF w
<1>2. /\ s \in Seq(Note) /\ DOMAIN w = 1..Len(w) /\ Len(w) \in Nat
      /\ DOMAIN s = 1..(Len(w) + 1)
      /\ \A i \in 1..Len(w) : s[i] = w[i]
      /\ s[Len(w) + 1] = n
  BY <1>1, AppendProperties, LenProperties
<1>3. \A i \in 1..Len(w) : w[i] # n
  BY <1>1, <1>2
<1> HIDE DEF s
<1>4. \A i, j \in DOMAIN s : s[i] = s[j] => i = j
  <2> SUFFICES ASSUME NEW i \in DOMAIN s, NEW j \in DOMAIN s, s[i] = s[j] PROVE i = j
    OBVIOUS
  <2>1. CASE i = Len(w) + 1
    BY <1>2, <1>3, <2>1
  <2>2. CASE j = Len(w) + 1
    BY <1>2, <1>3, <2>2
  <2>3. CASE i \in 1..Len(w) /\ j \in 1..Len(w)
    BY <1>1, <1>2, <2>3
  <2> QED
    BY <1>2, <2>1, <2>2, <2>3
<1>5. {s[i] : i \in DOMAIN s} = Residents \cup {n}
  <2>1. \A i \in DOMAIN s : i \in 1..Len(w) \/ i = Len(w) + 1
    BY <1>2
  <2>2. \A i \in DOMAIN s : s[i] \in Residents \cup {n}
    BY <1>1, <1>2, <2>1
  <2>3. \A m \in Residents \ {n} : \E i \in DOMAIN s : s[i] = m
    BY <1>1, <1>2
  <2>4. \E i \in DOMAIN s : s[i] = n
    BY <1>2
  <2> QED
    BY <2>2, <2>3, <2>4
<1>6. resident' = s
  BY DEF s, w
<1>7. Recorded'
  BY <1>2, <1>4, <1>6 DEF Recorded
<1>8. Residents' = {s[i] : i \in DOMAIN s}
  BY <1>6 DEF Residents
<1> QED
  BY <1>5, <1>7, <1>8

(* What an eviction chooses are notes. *)
Chosen(pinned, e) ==
  e = [i \in 0..Len(resident) |->
        IF i = 0 THEN <<>>
        ELSE IF \/ resident[i] \in pinned \cup unsynced
                \/ Len(resident) <= world.cap + Len(e[i - 1])
        THEN e[i - 1]
        ELSE Append(e[i - 1], resident[i])]

LEMMA ChoiceExists ==
  ASSUME Recorded, NEW pinned
  PROVE  \E e : Chosen(pinned, e)
<1> DEFINE n == Len(resident)
           Grown(s, i) == IF \/ resident[i] \in pinned \cup unsynced
                             \/ Len(resident) <= world.cap + Len(s)
                          THEN s ELSE Append(s, resident[i])
           To(m, e) == /\ e = [i \in 0..m |-> e[i]] /\ e[0] = <<>>
                       /\ \A i \in 1..m : e[i] = Grown(e[i - 1], i)
           T == {m \in 0..n : \E e : To(m, e)}
<1>0. n \in Nat
  BY LenProperties DEF Recorded
<1>1. 0 \in T
  <2>1. To(0, [i \in 0..0 |-> <<>>])
    OBVIOUS
  <2>2. \E e : To(0, e)
    <3> HIDE DEF To
    <3> QED
      BY <2>1
  <2> QED
    BY <1>0, <2>2
<1>2. ASSUME NEW i \in 0..n, i \in T, i < n PROVE i + 1 \in T
  <2>1. PICK e : To(i, e)
    BY <1>2
  <2> DEFINE g == [j \in 0..(i + 1) |-> IF j = i + 1 THEN Grown(e[i], i + 1) ELSE e[j]]
  <2> HIDE DEF Grown
  <2>2. i \in Nat
    BY <1>0
  <2>3. g = [j \in 0..(i + 1) |-> g[j]] /\ g[0] = <<>>
    BY <2>1, <2>2
  <2>4. \A j \in 1..(i + 1) : g[j] = Grown(g[j - 1], j)
    <3>1. SUFFICES ASSUME NEW j \in 1..(i + 1) PROVE g[j] = Grown(g[j - 1], j)
      OBVIOUS
    <3>2. j - 1 \in 0..(i + 1) /\ j - 1 # i + 1 /\ j \in 0..(i + 1) /\ (j # i + 1 => j \in 1..i)
      BY <2>2
    <3>3. g[j - 1] = e[j - 1]
      BY <3>2
    <3>4. CASE j = i + 1
      <4>1. j - 1 = i
        BY <2>2, <3>4
      <4> QED
        BY <3>2, <3>3, <3>4, <4>1
    <3>5. CASE j # i + 1
      BY <2>1, <3>2, <3>3, <3>5
    <3> QED
      BY <3>4, <3>5
  <2>5. To(i + 1, g)
    BY <2>3, <2>4
  <2>6. \E h : To(i + 1, h)
    <3> HIDE DEF To, g
    <3> QED
      BY <2>5
  <2>7. i + 1 \in 0..n
    BY <1>0, <1>2
  <2> HIDE DEF To
  <2> QED
    BY <2>6, <2>7
<1>3. n \in T
  <2>1. \A i \in 0..n : i \in T /\ i < n => i + 1 \in T
    <3> TAKE i \in 0..n
    <3> QED
      BY <1>2
  <2> HIDE DEF T, n
  <2>2. \A i \in 0..n : i \in T
    BY <1>0, <1>1, <2>1, Induct
  <2> QED
    BY <1>0, <2>2
<1>4. PICK e : To(n, e)
  BY <1>3
<1>5. e = [i \in 0..n |-> IF i = 0 THEN <<>> ELSE Grown(e[i - 1], i)]
  <2> HIDE DEF Grown
  <2>1. \A i \in 0..n : e[i] = IF i = 0 THEN <<>> ELSE Grown(e[i - 1], i)
    BY <1>0, <1>4
  <2> QED
    BY <1>4, <2>1
<1>6. Chosen(pinned, e)
  BY <1>5 DEF Chosen
<1> QED
  BY <1>6

LEMMA EvictableTyped ==
  ASSUME Recorded, NEW pinned
  PROVE  Evictable(pinned) \in Seq(Note)
<1> DEFINE n == Len(resident)
           e == CHOOSE e : Chosen(pinned, e)
           T == {i \in 0..n : e[i] \in Seq(Note)}
<1>0. n \in Nat /\ \A i \in 1..n : resident[i] \in Note
  BY LenProperties DEF Recorded
<1>1. Chosen(pinned, e)
  BY ChoiceExists
<1>2. Evictable(pinned) = e[n]
  BY DEF Evictable, Chosen
<1> HIDE DEF e
<1>3. e[0] = <<>>
  BY <1>0, <1>1 DEF Chosen
<1>4. ASSUME NEW i \in 0..n, i \in T, i < n PROVE i + 1 \in T
  <2>1. i + 1 \in 0..n /\ i + 1 # 0 /\ (i + 1) - 1 = i /\ i + 1 \in 1..n
    BY <1>0, <1>4
  <2>2. e[i + 1] = IF \/ resident[i + 1] \in pinned \cup unsynced
                      \/ Len(resident) <= world.cap + Len(e[(i + 1) - 1])
                   THEN e[(i + 1) - 1] ELSE Append(e[(i + 1) - 1], resident[i + 1])
    BY <1>1, <2>1 DEF Chosen
  <2>3. e[i + 1] = e[i] \/ e[i + 1] = Append(e[i], resident[i + 1])
    BY <2>1, <2>2
  <2>4. e[i] \in Seq(Note)
    BY <1>4
  <2>5. e[i + 1] \in Seq(Note)
    <3>1. \A s \in Seq(Note), m \in Note : Append(s, m) \in Seq(Note)
      BY AppendProperties
    <3>2. resident[i + 1] \in Note
      BY <1>0, <2>1
    <3>3. Append(e[i], resident[i + 1]) \in Seq(Note)
      BY <2>4, <3>1, <3>2
    <3> QED
      BY <2>3, <2>4, <3>3
  <2> QED
    BY <2>1, <2>5
<1>5. 0 \in T
  <2>1. <<>> \in Seq(Note)
    OBVIOUS
  <2>2. e[0] \in Seq(Note)
    BY <1>3, <2>1, Zenon
  <2>3. 0 \in 0..n
    BY <1>0
  <2> QED
    BY <2>2, <2>3
<1>6. n \in T
  <2>1. \A i \in 0..n : i \in T /\ i < n => i + 1 \in T
    <3> TAKE i \in 0..n
    <3> QED
      BY <1>4
  <2> HIDE DEF T, n
  <2>2. \A i \in 0..n : i \in T
    BY <1>0, <1>5, <2>1, Induct
  <2> QED
    BY <1>0, <2>2
<1> QED
  BY <1>2, <1>6
-----------------------------------------------------------------------------
(* What a caller waits for, the note it is about, and whether its pane has opened it:
   the transactions that are called and not yet run are those. *)
PaneAwaits(q) ==
  CASE q.phase = "asking" -> "ask"
    [] q.phase = "fetched" -> "open"
    [] q.phase = "measuring" -> "size"
    [] q.sweep = "opening" -> "open"
    [] q.sweep = "list" -> "list"
    [] q.sweep = "delete" -> "delete"
    [] OTHER -> "nothing"

CatalogAwaits(k) ==
  CASE k.pc = "list" -> "list"
    [] k.pc = "delete" -> IF k.denied THEN "clear" ELSE "delete"
    [] OTHER -> "nothing"

PaneStands(q) == [awaits |-> PaneAwaits(q), note |-> q.note, opened |-> q.opened]
CatalogStands(k) == [awaits |-> CatalogAwaits(k), note |-> NoNote, opened |-> FALSE]

Standing ==
  [b \in Callers |-> IF b = "catalog" THEN CatalogStands(catalog) ELSE PaneStands(pane[b])]

(* A measurement is not waited for. *)
Posted(c, s) ==
  /\ c.op = "measure" => s.opened
  /\ c.op # "measure" => c.op = s.awaits
  /\ c.op \in {"ask", "open", "measure", "size"} => c.note = s.note /\ c.note \in Note

(* The calls of one caller: one at most is waited for, an opening is the first and the
   measuring of the size the last. *)
Queue(cs, S) ==
  /\ \A i \in 1..Len(cs) : Posted(cs[i], S[cs[i].by])
  /\ \A i, j \in 1..Len(cs) : cs[i].by = cs[j].by =>
       /\ i # j => cs[i].op = "measure" \/ cs[j].op = "measure"
       /\ cs[i].op = "open" => i <= j
       /\ cs[i].op = "size" => j <= i

LEMMA QueueSame ==
  ASSUME NEW cs \in Seq(Call), NEW S, NEW T, Queue(cs, S), \A b \in Callers : T[b] = S[b]
  PROVE  Queue(cs, T)
<1>1. \A i \in 1..Len(cs) : cs[i] \in Call
  BY LenProperties
<1>2. \A i \in 1..Len(cs) : cs[i].by \in Callers
  BY <1>1 DEF Call
<1> QED
  BY <1>2 DEF Queue

(* Others are as they were, and so is the caller, but for what it may wait for. *)
Others(S, T, by) == \A b \in Callers \ {by} : T[b] = S[b]
Keeps(s, t) == s.opened => t.opened /\ t.note = s.note

(* Nothing was waited for. *)
LEMMA QueueIdle ==
  ASSUME NEW cs \in Seq(Call), NEW S, NEW T, NEW by \in Callers, Queue(cs, S),
         Others(S, T, by), Keeps(S[by], T[by]), S[by].awaits = "nothing"
  PROVE  Queue(cs, T)
<1>1. \A i \in 1..Len(cs) : cs[i] \in Call
  BY LenProperties
<1>2. \A i \in 1..Len(cs) : cs[i].by \in Callers /\ cs[i].op # "nothing"
  BY <1>1 DEF Call
<1>3. ASSUME NEW i \in 1..Len(cs) PROVE Posted(cs[i], T[cs[i].by])
  <2>1. CASE cs[i].by # by
    BY <1>2, <2>1 DEF Queue, Others
  <2>2. CASE cs[i].by = by
    <3>1. Posted(cs[i], S[by])
      BY <2>2 DEF Queue
    <3>2. cs[i].op = "measure" /\ S[by].opened
      BY <1>2, <3>1 DEF Posted
    <3> QED
      BY <2>2, <3>1, <3>2 DEF Posted, Keeps
  <2> QED
    BY <2>1, <2>2
<1> QED
  BY <1>3 DEF Queue

(* A call is made, by one that waited for nothing. *)
LEMMA QueueAppend ==
  ASSUME NEW cs \in Seq(Call), NEW c \in Call, NEW S, NEW T, Queue(cs, S),
         Others(S, T, c.by), Keeps(S[c.by], T[c.by]), S[c.by].awaits = "nothing",
         c.op = "open" => ~S[c.by].opened, Posted(c, T[c.by])
  PROVE  Queue(Append(cs, c), T)
<1> DEFINE s == Append(cs, c)
           n == Len(cs)
<1>1. /\ n \in Nat /\ Len(s) = n + 1 /\ s[n + 1] = c
      /\ \A i \in 1..n : s[i] = cs[i] /\ cs[i] \in Call
  BY LenProperties, AppendProperties
<1>2. c.by \in Callers
  BY DEF Call
<1>3. Queue(cs, T)
  BY <1>2, QueueIdle
<1>4. \A i \in 1..n : Posted(cs[i], S[cs[i].by])
  BY DEF Queue
<1>5. ASSUME NEW i \in 1..n, cs[i].by = c.by PROVE cs[i].op = "measure" /\ S[c.by].opened
  <2>1. cs[i].op # "nothing"
    BY <1>1 DEF Call
  <2> QED
    BY <1>4, <1>5, <2>1 DEF Posted
<1> HIDE DEF s
<1>6. \A i \in 1..Len(s) : i \in 1..n \/ i = n + 1
  BY <1>1
<1> HIDE DEF n
<1>7. \A i \in 1..Len(s) : Posted(s[i], T[s[i].by])
  BY <1>1, <1>3, <1>6 DEF Queue, n
<1>8. ASSUME NEW i \in 1..Len(s), NEW j \in 1..Len(s), s[i].by = s[j].by
      PROVE  /\ i # j => s[i].op = "measure" \/ s[j].op = "measure"
             /\ s[i].op = "open" => i <= j
             /\ s[i].op = "size" => j <= i
  <2>1. CASE i \in 1..n /\ j \in 1..n
    BY <1>1, <1>3, <1>8, <2>1 DEF Queue, n
  <2>2. CASE i \in 1..n /\ j = n + 1
    BY <1>1, <1>5, <1>8, <2>2
  <2>3. CASE i = n + 1 /\ j \in 1..n
    BY <1>1, <1>5, <1>8, <2>3
  <2>4. CASE i = n + 1 /\ j = n + 1
    BY <1>1, <2>4
  <2> QED
    BY <1>6, <2>1, <2>2, <2>3, <2>4
<1>9. Queue(s, T)
  BY <1>7, <1>8 DEF Queue
<1> QED
  BY <1>9 DEF s

(* A measurement is called. *)
LEMMA QueueMeasure ==
  ASSUME NEW cs \in Seq(Call), NEW c \in Call, NEW S, NEW T, Queue(cs, S),
         Others(S, T, c.by), Keeps(S[c.by], T[c.by]), S[c.by].opened,
         T[c.by].awaits = S[c.by].awaits, S[c.by].awaits # "size",
         c.op = "measure", c.note = T[c.by].note, c.note \in Note
  PROVE  Queue(Append(cs, c), T)
<1> DEFINE s == Append(cs, c)
           n == Len(cs)
<1>1. /\ n \in Nat /\ Len(s) = n + 1 /\ s[n + 1] = c
      /\ \A i \in 1..n : s[i] = cs[i] /\ cs[i] \in Call
  BY LenProperties, AppendProperties
<1>2. c.by \in Callers /\ \A i \in 1..n : cs[i].by \in Callers
  BY <1>1 DEF Call
<1>3. \A i \in 1..n : Posted(cs[i], S[cs[i].by])
  BY DEF Queue
<1>4. ASSUME NEW i \in 1..n, cs[i].by = c.by PROVE cs[i].op # "size"
  BY <1>3, <1>4 DEF Posted
<1>5. ASSUME NEW i \in 1..n PROVE Posted(cs[i], T[cs[i].by])
  <2>1. CASE cs[i].by # c.by
    BY <1>2, <1>3, <2>1 DEF Others
  <2>2. CASE cs[i].by = c.by
    BY <1>3, <2>2 DEF Posted, Keeps
  <2> QED
    BY <2>1, <2>2
<1>6. Posted(c, T[c.by])
  BY DEF Posted, Keeps
<1> HIDE DEF s
<1>7. \A i \in 1..Len(s) : i \in 1..n \/ i = n + 1
  BY <1>1
<1> HIDE DEF n
<1>8. \A i \in 1..Len(s) : Posted(s[i], T[s[i].by])
  BY <1>1, <1>5, <1>6, <1>7
<1>9. ASSUME NEW i \in 1..Len(s), NEW j \in 1..Len(s), s[i].by = s[j].by
      PROVE  /\ i # j => s[i].op = "measure" \/ s[j].op = "measure"
             /\ s[i].op = "open" => i <= j
             /\ s[i].op = "size" => j <= i
  <2>1. CASE i \in 1..n /\ j \in 1..n
    BY <1>1, <1>9, <2>1 DEF Queue, n
  <2>2. CASE i \in 1..n /\ j = n + 1
    BY <1>1, <1>4, <1>9, <2>2
  <2>3. CASE i = n + 1 /\ j \in 1..n
    BY <1>1, <2>3
  <2>4. CASE i = n + 1 /\ j = n + 1
    BY <1>1, <2>4
  <2> QED
    BY <1>7, <2>1, <2>2, <2>3, <2>4
<1>10. Queue(s, T)
  BY <1>8, <1>9 DEF Queue
<1> QED
  BY <1>10 DEF s

LEMMA TailParts ==
  ASSUME NEW cs \in Seq(Call), cs # <<>>
  PROVE  /\ Tail(cs) \in Seq(Call) /\ Head(cs) \in Call /\ Head(cs) = cs[1]
         /\ Len(cs) \in Nat /\ 1 \in 1..Len(cs) /\ Len(Tail(cs)) = Len(cs) - 1
         /\ \A i \in 1..Len(Tail(cs)) : /\ Tail(cs)[i] = cs[i + 1] /\ cs[i + 1] \in Call
                                        /\ i + 1 \in 1..Len(cs) /\ i + 1 # 1
<1>1. Len(cs) \in Nat /\ Len(cs) # 0 /\ \A i \in 1..Len(cs) : cs[i] \in Call
  BY LenProperties, EmptySeq
<1>2. /\ Tail(cs) \in Seq(Call) /\ Len(Tail(cs)) = Len(cs) - 1
      /\ \A i \in 1..Len(Tail(cs)) : Tail(cs)[i] = cs[i + 1]
  BY HeadTailProperties
<1>3. Head(cs) \in Call /\ Head(cs) = cs[1]
  BY HeadTailProperties, <1>1
<1> QED
  BY <1>1, <1>2, <1>3

(* The next call runs, and its caller goes on. *)
LEMMA QueueRun ==
  ASSUME NEW cs \in Seq(Call), cs # <<>>, NEW S, NEW T, Queue(cs, S),
         Head(cs).op # "measure", Others(S, T, Head(cs).by),
         \/ Head(cs).op = "size"
         \/ Keeps(S[Head(cs).by], T[Head(cs).by])
  PROVE  Queue(Tail(cs), T)
<1> DEFINE c == cs[1]
           t == Tail(cs)
<1>1. /\ t \in Seq(Call) /\ c \in Call /\ Head(cs) = c /\ Len(cs) \in Nat
      /\ 1 \in 1..Len(cs) /\ Len(t) = Len(cs) - 1
      /\ \A i \in 1..Len(t) : /\ t[i] = cs[i + 1] /\ cs[i + 1] \in Call
                              /\ i + 1 \in 1..Len(cs) /\ i + 1 # 1
  BY TailParts
<1> HIDE DEF c, t
<1>2. ASSUME NEW i \in 1..Len(t) PROVE Posted(t[i], T[t[i].by])
  <2>1. Posted(t[i], S[t[i].by]) /\ t[i].by \in Callers
    BY <1>1 DEF Queue, Call
  <2>2. CASE t[i].by # c.by
    BY <1>1, <2>1, <2>2 DEF Others
  <2>3. CASE t[i].by = c.by
    <3>1. t[i].op = "measure" /\ c.op # "size"
      BY <1>1, <2>3 DEF Queue, c
    <3> QED
      BY <1>1, <2>1, <2>3, <3>1 DEF Posted, Keeps
  <2> QED
    BY <2>2, <2>3
<1>3. ASSUME NEW i \in 1..Len(t), NEW j \in 1..Len(t), t[i].by = t[j].by
      PROVE  /\ i # j => t[i].op = "measure" \/ t[j].op = "measure"
             /\ t[i].op = "open" => i <= j
             /\ t[i].op = "size" => j <= i
  <2>1. i + 1 \in 1..Len(cs) /\ j + 1 \in 1..Len(cs) /\ cs[i + 1].by = cs[j + 1].by
    BY <1>1, <1>3
  <2>2. /\ i + 1 # j + 1 => cs[i + 1].op = "measure" \/ cs[j + 1].op = "measure"
        /\ cs[i + 1].op = "open" => i + 1 <= j + 1
        /\ cs[i + 1].op = "size" => j + 1 <= i + 1
    BY <2>1 DEF Queue
  <2> QED
    BY <1>1, <2>2
<1>4. Queue(t, T)
  BY <1>2, <1>3 DEF Queue
<1> QED
  BY <1>4 DEF t

LEMMA QueueRunMeasure ==
  ASSUME NEW cs \in Seq(Call), cs # <<>>, NEW S, Queue(cs, S)
  PROVE  Queue(Tail(cs), S)
<1> DEFINE t == Tail(cs)
<1>1. /\ Len(cs) \in Nat /\ Len(t) = Len(cs) - 1
      /\ \A i \in 1..Len(t) : /\ t[i] = cs[i + 1] /\ i + 1 \in 1..Len(cs)
  BY TailParts
<1> HIDE DEF t
<1>2. \A i \in 1..Len(t) : Posted(t[i], S[t[i].by])
  BY <1>1 DEF Queue
<1>3. ASSUME NEW i \in 1..Len(t), NEW j \in 1..Len(t), t[i].by = t[j].by
      PROVE  /\ i # j => t[i].op = "measure" \/ t[j].op = "measure"
             /\ t[i].op = "open" => i <= j
             /\ t[i].op = "size" => j <= i
  <2>1. i + 1 \in 1..Len(cs) /\ j + 1 \in 1..Len(cs) /\ cs[i + 1].by = cs[j + 1].by
    BY <1>1, <1>3
  <2>2. /\ i + 1 # j + 1 => cs[i + 1].op = "measure" \/ cs[j + 1].op = "measure"
        /\ cs[i + 1].op = "open" => i + 1 <= j + 1
        /\ cs[i + 1].op = "size" => j + 1 <= i + 1
    BY <2>1 DEF Queue
  <2> QED
    BY <1>1, <2>2
<1>4. Queue(t, S)
  BY <1>2, <1>3 DEF Queue
<1> QED
  BY <1>4 DEF t
-----------------------------------------------------------------------------
(* The shape of the state: types, at which point a pane and the reconciliation can be
   with what, and that every call is one its caller waits for. *)
Session ==
  [note : Note \cup {NoNote}, phase : Phases, resident : BOOLEAN,
   covered : BOOLEAN, doc : SUBSET Edit, pending : SUBSET Edit, synced : BOOLEAN,
   attached : BOOLEAN, opened : BOOLEAN, dirty : Flags, revoked : BOOLEAN,
   sweep : {"none", "opening", "pins", "list", "drop", "delete"},
   pinned : SUBSET Note, dropping : Seq(Note)]

PaneShape(q) ==
  /\ q.phase = "closed" => q = Closed
  /\ q.phase # "closed" => q.note \in Note
  /\ q.phase \notin {"open", "settling"} => q.sweep = "none"
  /\ ~q.opened => q.sweep = "none"
  /\ q.opened => q.phase \in {"open", "settling", "measuring"}
  /\ q.sweep \in {"drop", "delete"} => q.dropping # <<>>

WorldShape ==
  /\ world \in World
  /\ readable \subseteq Note /\ pins \subseteq Note /\ late \subseteq Note
  /\ server \in [Note -> SUBSET Edit] /\ body \in [Note -> SUBSET Edit]
  /\ used \subseteq Edit

RecordShape == Recorded /\ unsynced \subseteq Residents

PanesShape == pane \in [Pane -> Session] /\ \A p \in Pane : PaneShape(pane[p])

CatalogShape ==
  /\ catalog \in [pc : {"idle", "list", "pins", "clear", "drop", "delete"},
                  denied : BOOLEAN, answer : SUBSET Note, todo : SUBSET Note]
  /\ catalog.pc = "idle" => catalog.todo = {}
  /\ catalog.pc = "pins" => ~catalog.denied
  /\ catalog.pc = "clear" => catalog.denied

CallsShape == calls \in Seq(Call) /\ Queue(calls, Standing)

ShapeInv == WorldShape /\ RecordShape /\ PanesShape /\ CatalogShape /\ CallsShape

LEMMA ShapeTyped == ShapeInv => TypeOK
BY DEF ShapeInv, TypeOK, WorldShape, RecordShape, Recorded, PanesShape, CatalogShape,
       CallsShape, Session

LEMMA ClosedTyped == Closed \in Session /\ PaneShape(Closed) /\ Closed.phase = "closed"
<1>1. <<>> \in Seq(Note)
  OBVIOUS
<1>2. Closed \in Session
  BY <1>1 DEF Closed, Session, Phases, Flags
<1> QED
  BY <1>2 DEF Closed, PaneShape

LEMMA ShapeInit == Init => ShapeInv
<1> SUFFICES ASSUME Init PROVE ShapeInv
  OBVIOUS
<1>1. WorldShape
  BY DEF Init, WorldShape
<1>2. RecordShape
  <2>1. resident = <<>> /\ <<>> \in Seq(Note) /\ DOMAIN resident = {}
    BY DEF Init
  <2> QED
    BY <2>1 DEF Init, RecordShape, Recorded
<1>3. PanesShape
  BY ClosedTyped DEF Init, PanesShape
<1>4. CatalogShape
  BY DEF Init, CatalogShape
<1>5. CallsShape
  <2>1. calls = <<>> /\ <<>> \in Seq(Call) /\ Len(calls) = 0
    BY DEF Init
  <2>2. Queue(calls, Standing)
    BY <2>1 DEF Queue
  <2> QED
    BY <2>1, <2>2 DEF CallsShape
<1> QED
  BY <1>1, <1>2, <1>3, <1>4, <1>5 DEF ShapeInv

LEMMA OnePane ==
  ASSUME PanesShape, NEW p \in Pane, NEW q \in Session, PaneShape(q),
         pane' = [pane EXCEPT ![p] = q]
  PROVE  PanesShape'
BY DEF PanesShape

LEMMA Standings ==
  /\ Standing["catalog"] = CatalogStands(catalog)
  /\ \A p \in Pane : Standing[p] = PaneStands(pane[p])
  /\ "catalog" \in Callers /\ Pane \subseteq Callers
  /\ \A b \in Callers : b = "catalog" \/ b \in Pane
BY NamesAssumption DEF Standing, Callers

LEMMA StandingsNext ==
  /\ Standing'["catalog"] = CatalogStands(catalog')
  /\ \A p \in Pane : Standing'[p] = PaneStands(pane'[p])
BY NamesAssumption DEF Standing, Callers

LEMMA PaneMoves ==
  ASSUME PanesShape, NEW p \in Pane, NEW q, pane' = [pane EXCEPT ![p] = q],
         catalog' = catalog
  PROVE  /\ Standing[p] = PaneStands(pane[p]) /\ Standing'[p] = PaneStands(q)
         /\ Others(Standing, Standing', p)
<1>1. pane'[p] = q /\ \A r \in Pane : r # p => pane'[r] = pane[r]
  BY DEF PanesShape
<1> QED
  BY <1>1, Standings, StandingsNext DEF Others

LEMMA CatalogMoves ==
  ASSUME \A p \in Pane : PaneStands(pane'[p]) = PaneStands(pane[p])
  PROVE  /\ Standing["catalog"] = CatalogStands(catalog)
         /\ Standing'["catalog"] = CatalogStands(catalog')
         /\ Others(Standing, Standing', "catalog")
BY Standings, StandingsNext DEF Others

(* The panes stand where they stood, and so does the catalogue. *)
LEMMA CallsStay ==
  ASSUME CallsShape, UNCHANGED calls,
         \A p \in Pane : PaneStands(pane'[p]) = PaneStands(pane[p]),
         CatalogAwaits(catalog') = CatalogAwaits(catalog)
  PROVE  CallsShape'
<1>1. \A b \in Callers : Standing'[b] = Standing[b]
  BY Standings, StandingsNext DEF CatalogStands
<1>2. Queue(calls, Standing')
  BY <1>1, QueueSame DEF CallsShape
<1> QED
  BY <1>2 DEF CallsShape

(* A pane moves on that waits for nothing. *)
LEMMA CallsIdle ==
  ASSUME CallsShape, PanesShape, UNCHANGED <<calls, catalog>>, NEW p \in Pane, NEW q,
         pane' = [pane EXCEPT ![p] = q],
         PaneAwaits(pane[p]) = "nothing",
         pane[p].opened => q.opened /\ q.note = pane[p].note
  PROVE  CallsShape'
<1>1. p \in Callers
  BY Standings
<1>2. /\ Others(Standing, Standing', p) /\ Keeps(Standing[p], Standing'[p])
      /\ Standing[p].awaits = "nothing"
  <2>1. catalog' = catalog
    OBVIOUS
  <2>2. /\ Standing[p] = PaneStands(pane[p]) /\ Standing'[p] = PaneStands(q)
        /\ Others(Standing, Standing', p)
    BY <2>1, PaneMoves
  <2> QED
    BY <2>2 DEF PaneStands, Keeps
<1>3. Queue(calls, Standing')
  BY <1>1, <1>2, QueueIdle DEF CallsShape
<1> QED
  BY <1>3 DEF CallsShape

(* It calls, and waits. *)
LEMMA CallsWait ==
  ASSUME CallsShape, PanesShape, UNCHANGED catalog, NEW p \in Pane, NEW q,
         pane' = [pane EXCEPT ![p] = q],
         PaneAwaits(pane[p]) = "nothing",
         pane[p].opened => q.opened /\ q.note = pane[p].note,
         NEW op \in {"ask", "open", "size", "list", "delete"},
         NEW n \in Note \cup {NoNote}, NEW d \in Flags,
         calls' = Enqueue(op, p, n, d),
         PaneAwaits(q) = op, op = "open" => ~pane[p].opened,
         op \in {"ask", "open", "size"} => n = q.note /\ n \in Note
  PROVE  CallsShape'
<1> DEFINE c == [op |-> op, by |-> p, note |-> n, dirty |-> d]
<1>1. c \in Call /\ c.by = p /\ c.op = op /\ c.note = n
  BY Standings DEF Call
<1>2. calls' = Append(calls, c)
  BY DEF Enqueue
<1>3. /\ Others(Standing, Standing', p) /\ Keeps(Standing[p], Standing'[p])
      /\ Standing[p].awaits = "nothing" /\ Standing[p].opened = pane[p].opened
      /\ Standing'[p].awaits = op /\ Standing'[p].note = q.note
  <2>1. catalog' = catalog
    OBVIOUS
  <2>2. /\ Standing[p] = PaneStands(pane[p]) /\ Standing'[p] = PaneStands(q)
        /\ Others(Standing, Standing', p)
    BY <2>1, PaneMoves
  <2> QED
    BY <2>2 DEF PaneStands, Keeps
<1> HIDE DEF c
<1>4. Posted(c, Standing'[c.by])
  BY <1>1, <1>3 DEF Posted
<1>5. calls' \in Seq(Call)
  BY <1>1, <1>2, AppendProperties DEF CallsShape
<1>6. Queue(calls', Standing')
  BY <1>1, <1>2, <1>3, <1>4, QueueAppend DEF CallsShape
<1> QED
  BY <1>5, <1>6 DEF CallsShape

LEMMA CallsMeasure ==
  ASSUME CallsShape, PanesShape, UNCHANGED catalog, NEW p \in Pane, NEW q,
         pane' = [pane EXCEPT ![p] = q],
         pane[p].opened, q.opened, q.note = pane[p].note, q.note \in Note,
         PaneAwaits(q) = PaneAwaits(pane[p]), PaneAwaits(q) # "size", NEW d \in Flags,
         calls' = Enqueue("measure", p, q.note, d)
  PROVE  CallsShape'
<1> DEFINE c == [op |-> "measure", by |-> p, note |-> q.note, dirty |-> d]
<1>1. c \in Call /\ c.by = p /\ c.op = "measure" /\ c.note = q.note
  BY Standings DEF Call
<1>2. calls' = Append(calls, c)
  BY DEF Enqueue
<1>3. /\ Others(Standing, Standing', p) /\ Keeps(Standing[p], Standing'[p])
      /\ Standing'[p].awaits = Standing[p].awaits /\ Standing[p].opened
      /\ Standing'[p].note = q.note /\ Standing[p].awaits # "size"
  <2>1. catalog' = catalog
    OBVIOUS
  <2>2. /\ Standing[p] = PaneStands(pane[p]) /\ Standing'[p] = PaneStands(q)
        /\ Others(Standing, Standing', p)
    BY <2>1, PaneMoves
  <2> QED
    BY <2>2 DEF PaneStands, Keeps
<1> HIDE DEF c
<1>4. calls' \in Seq(Call)
  BY <1>1, <1>2, AppendProperties DEF CallsShape
<1>5. Queue(calls', Standing')
  BY <1>1, <1>2, <1>3, QueueMeasure DEF CallsShape
<1> QED
  BY <1>4, <1>5 DEF CallsShape

(* Its call runs, and it goes on. *)
LEMMA CallsRun ==
  ASSUME CallsShape, PanesShape, UNCHANGED catalog, NEW p \in Pane, NEW q,
         pane' = [pane EXCEPT ![p] = q],
         calls # <<>>, calls' = Tail(calls), Head(calls).by = p, Head(calls).op # "measure",
         \/ Head(calls).op = "size"
         \/ pane[p].opened => q.opened /\ q.note = pane[p].note
  PROVE  CallsShape'
<1>1. /\ Others(Standing, Standing', p)
      /\ Head(calls).op = "size" \/ Keeps(Standing[p], Standing'[p])
  <2>1. catalog' = catalog
    OBVIOUS
  <2>2. /\ Standing[p] = PaneStands(pane[p]) /\ Standing'[p] = PaneStands(q)
        /\ Others(Standing, Standing', p)
    BY <2>1, PaneMoves
  <2> QED
    BY <2>2 DEF PaneStands, Keeps
<1>2. Queue(calls', Standing')
  BY <1>1, QueueRun DEF CallsShape
<1>3. calls' \in Seq(Call)
  BY TailParts DEF CallsShape
<1> QED
  BY <1>2, <1>3 DEF CallsShape

(* The catalogue calls; its call runs. *)
LEMMA CatalogCalls ==
  ASSUME CallsShape, \A p \in Pane : PaneStands(pane'[p]) = PaneStands(pane[p]),
         CatalogAwaits(catalog) = "nothing", NEW op \in {"list", "clear", "delete"},
         CatalogAwaits(catalog') = op, NEW n \in Note \cup {NoNote},
         calls' = Enqueue(op, "catalog", n, "unknown")
  PROVE  CallsShape'
<1> DEFINE c == [op |-> op, by |-> "catalog", note |-> n, dirty |-> "unknown"]
<1>1. c \in Call /\ c.by = "catalog" /\ c.op = op
  BY Standings DEF Call, Flags
<1>2. calls' = Append(calls, c)
  BY DEF Enqueue
<1>3. /\ Others(Standing, Standing', "catalog")
      /\ Keeps(Standing["catalog"], Standing'["catalog"])
      /\ Standing["catalog"].awaits = "nothing"
      /\ Standing'["catalog"].awaits = op
  BY CatalogMoves DEF CatalogStands, Keeps
<1> HIDE DEF c
<1>4. Posted(c, Standing'[c.by])
  BY <1>1, <1>3 DEF Posted
<1>5. calls' \in Seq(Call)
  BY <1>1, <1>2, AppendProperties DEF CallsShape
<1>6. Queue(calls', Standing')
  BY <1>1, <1>2, <1>3, <1>4, QueueAppend DEF CallsShape
<1> QED
  BY <1>5, <1>6 DEF CallsShape

LEMMA CatalogRuns ==
  ASSUME CallsShape, \A p \in Pane : PaneStands(pane'[p]) = PaneStands(pane[p]),
         calls # <<>>, calls' = Tail(calls), Head(calls).by = "catalog",
         Head(calls).op # "measure"
  PROVE  CallsShape'
<1>1. /\ Others(Standing, Standing', "catalog")
      /\ Keeps(Standing["catalog"], Standing'["catalog"])
  BY CatalogMoves DEF CatalogStands, Keeps
<1>2. Queue(calls', Standing')
  BY <1>1, QueueRun DEF CallsShape
<1>3. calls' \in Seq(Call)
  BY TailParts DEF CallsShape
<1> QED
  BY <1>2, <1>3 DEF CallsShape

(* The call that runs is one its caller waits for. *)
LEMMA NextCall ==
  ASSUME ShapeInv, calls # <<>>, NEW c, c = Head(calls)
  PROVE  /\ c \in Call /\ c = calls[1] /\ 1 \in 1..Len(calls)
         /\ c.by \in Pane => Posted(c, PaneStands(pane[c.by]))
         /\ c.by = "catalog" => Posted(c, CatalogStands(catalog))
         /\ c.by \in Pane \/ c.by = "catalog"
         /\ c.op \in {"ask", "open", "measure", "size"} =>
              c.by \in Pane /\ c.note = pane[c.by].note /\ c.note \in Note
         /\ c.op = "clear" => c.by = "catalog"
<1>1. c \in Call /\ c = calls[1] /\ 1 \in 1..Len(calls)
  BY TailParts DEF ShapeInv, CallsShape
<1>2. Posted(c, Standing[c.by])
  BY <1>1 DEF ShapeInv, CallsShape, Queue
<1>3. c.by \in Pane \/ c.by = "catalog"
  BY <1>1, Standings DEF Call
<1>4. c.by \in Pane => Posted(c, PaneStands(pane[c.by]))
  BY <1>2, Standings
<1>5. c.by = "catalog" => Posted(c, CatalogStands(catalog))
  BY <1>2, Standings
<1>6. c.op \in {"ask", "open", "measure", "size"} => c.by \in Pane
  BY <1>3, <1>5 DEF Posted, CatalogStands, CatalogAwaits
<1>7. c.op \in {"ask", "open", "measure", "size"} => c.note = pane[c.by].note /\ c.note \in Note
  BY <1>4, <1>6 DEF Posted, PaneStands
<1>8. c.op = "clear" => c.by = "catalog"
  BY <1>3, <1>4 DEF Posted, PaneStands, PaneAwaits
<1> QED
  BY <1>1, <1>3, <1>4, <1>5, <1>6, <1>7, <1>8
-----------------------------------------------------------------------------
(* Every step keeps the shape. *)
LEMMA ReportShape ==
  ASSUME PanesShape, CallsShape, UNCHANGED catalog, NEW p \in Pane,
         NEW now \in Session, PaneShape(now), now.phase = "open",
         now.note = pane[p].note, now.opened = pane[p].opened, now.sweep = pane[p].sweep,
         pane[p].phase \in {"loading", "open"}, Report(p, now)
  PROVE  PanesShape' /\ CallsShape'
<1> DEFINE next == IF now.pending # {} THEN "dirty"
                   ELSE IF now.synced THEN "clean" ELSE "unknown"
<1>1. next \in Flags
  BY DEF Flags
<1>2. PaneAwaits(now) = PaneAwaits(pane[p]) /\ PaneAwaits(now) # "size"
  BY DEF PaneAwaits
<1>3. pane[p] \in Session /\ PaneShape(pane[p]) /\ now.note \in Note
  BY DEF PanesShape, PaneShape
<1>4. CASE /\ ~now.revoked /\ ~now.opened /\ (now.resident \/ now.synced)
           /\ pane' = [pane EXCEPT ![p] =
                [now EXCEPT !.opened = TRUE, !.dirty = next, !.sweep = "opening"]]
           /\ calls' = Enqueue("open", p, now.note, next)
  <2> DEFINE q == [now EXCEPT !.opened = TRUE, !.dirty = next, !.sweep = "opening"]
  <2>1. q \in Session /\ q.phase = "open" /\ q.opened /\ q.sweep = "opening" /\ q.note = now.note
    BY <1>1 DEF Session
  <2>2. pane' = [pane EXCEPT ![p] = q]
    BY <1>4
  <2> HIDE DEF q, next
  <2>3. PaneShape(q)
    BY <1>3, <2>1 DEF PaneShape
  <2>4. PaneAwaits(q) = "open"
    BY <2>1 DEF PaneAwaits
  <2>5. PaneAwaits(pane[p]) = "nothing" /\ ~pane[p].opened
    BY <1>3, <1>4 DEF PaneAwaits, PaneShape
  <2>6. PanesShape'
    BY <2>1, <2>2, <2>3, OnePane
  <2>7. CallsShape'
    BY <1>1, <1>3, <1>4, <2>1, <2>2, <2>4, <2>5, CallsWait
  <2> QED
    BY <2>6, <2>7
<1>5. CASE /\ now.opened
           /\ pane' = [pane EXCEPT ![p] = [now EXCEPT !.dirty = next]]
           /\ calls' = Enqueue("measure", p, now.note, next)
  <2> DEFINE q == [now EXCEPT !.dirty = next]
  <2>1. /\ q \in Session /\ q.phase = "open" /\ q.opened /\ q.sweep = now.sweep
        /\ q.note = now.note /\ q.dropping = now.dropping
    BY <1>1, <1>5 DEF Session
  <2>2. pane' = [pane EXCEPT ![p] = q]
    BY <1>5
  <2> HIDE DEF q, next
  <2>3. PaneShape(q)
    BY <1>3, <2>1 DEF PaneShape
  <2>4. PaneAwaits(q) = PaneAwaits(pane[p])
    BY <1>2, <2>1 DEF PaneAwaits
  <2>6. PanesShape'
    BY <2>1, <2>2, <2>3, OnePane
  <2>7. CallsShape'
    BY <1>1, <1>2, <1>3, <1>5, <2>1, <2>2, <2>4, CallsMeasure
  <2> QED
    BY <2>6, <2>7
<1>6. CASE pane' = [pane EXCEPT ![p] = now] /\ UNCHANGED calls
  <2>1. PanesShape'
    BY <1>6, OnePane
  <2>2. \A r \in Pane : PaneStands(pane'[r]) = PaneStands(pane[r])
    BY <1>2, <1>6 DEF PaneStands, PanesShape
  <2>3. CallsShape'
    BY <1>6, <2>2, CallsStay
  <2> QED
    BY <2>1, <2>3
<1> QED
  BY <1>4, <1>5, <1>6 DEF Report

LEMMA OpenShape ==
  ASSUME ShapeInv, UNCHANGED world, NEW p \in Pane, NEW n \in Note, Open(p, n)
  PROVE  ShapeInv'
<1> DEFINE q == [Closed EXCEPT !.note = n, !.phase = "asking"]
<1>1. /\ q \in Session /\ q.phase = "asking" /\ q.note = n /\ q.sweep = "none" /\ ~q.opened
      /\ PaneAwaits(q) = "ask" /\ PaneShape(q)
  BY ClosedTyped DEF Session, Phases, Closed, PaneAwaits, PaneShape
<1>2. pane' = [pane EXCEPT ![p] = q] /\ UNCHANGED catalog
  BY DEF Open
<1>3. PaneAwaits(pane[p]) = "nothing" /\ ~pane[p].opened
  BY DEF ShapeInv, PanesShape, PaneShape, Open, PaneAwaits
<1> HIDE DEF q
<1>4. WorldShape'
  BY DEF ShapeInv, WorldShape, Open, stores
<1>5. RecordShape'
  BY DEF ShapeInv, RecordShape, Recorded, Residents, Open, stores
<1>6. PanesShape'
  BY <1>1, <1>2, OnePane DEF ShapeInv
<1>7. CatalogShape'
  BY DEF ShapeInv, CatalogShape, Open
<1>8. CallsShape'
  BY <1>1, <1>2, <1>3, CallsWait DEF ShapeInv, Open, Flags
<1> QED
  BY <1>4, <1>5, <1>6, <1>7, <1>8 DEF ShapeInv

LEMMA LoadShape ==
  ASSUME ShapeInv, UNCHANGED world, NEW p \in Pane, Load(p)
  PROVE  ShapeInv'
<1> DEFINE now == [pane[p] EXCEPT !.phase = "open", !.attached = TRUE,
                                  !.covered = pane[p].revoked \/ ~pane[p].resident,
                                  !.doc = body[pane[p].note]]
<1>0. pane[p] \in Session /\ PaneShape(pane[p]) /\ pane[p].phase = "loading" /\ pane[p].note \in Note
  BY DEF ShapeInv, PanesShape, PaneShape, Load
<1>1. body[pane[p].note] \subseteq Edit
  BY <1>0 DEF ShapeInv, WorldShape
<1>2. /\ now \in Session /\ now.phase = "open" /\ now.note = pane[p].note
      /\ now.opened = pane[p].opened /\ now.sweep = pane[p].sweep
  BY <1>0, <1>1 DEF Session, Phases
<1>3. Report(p, now) /\ UNCHANGED catalog
  BY DEF Load
<1> HIDE DEF now
<1>4. PaneShape(now)
  BY <1>0, <1>2 DEF PaneShape
<1>5. PanesShape' /\ CallsShape'
  BY <1>0, <1>2, <1>3, <1>4, ReportShape DEF ShapeInv
<1>6. WorldShape'
  BY DEF ShapeInv, WorldShape, Load, stores
<1>7. RecordShape'
  BY DEF ShapeInv, RecordShape, Recorded, Residents, Load, stores
<1>8. CatalogShape'
  BY DEF ShapeInv, CatalogShape, Load
<1> QED
  BY <1>5, <1>6, <1>7, <1>8 DEF ShapeInv

LEMMA TypeShape ==
  ASSUME ShapeInv, UNCHANGED world, NEW p \in Pane, NEW e \in Edit, Type(p, e)
  PROVE  ShapeInv'
<1> DEFINE now == [pane[p] EXCEPT !.doc = @ \cup {e}, !.pending = @ \cup {e}]
<1>0. pane[p] \in Session /\ PaneShape(pane[p]) /\ pane[p].phase = "open" /\ pane[p].note \in Note
  BY DEF ShapeInv, PanesShape, PaneShape, Type
<1>2. /\ now \in Session /\ now.phase = "open" /\ now.note = pane[p].note
      /\ now.opened = pane[p].opened /\ now.sweep = pane[p].sweep
      /\ now.dropping = pane[p].dropping
  BY <1>0 DEF Session
<1>3. Report(p, now) /\ UNCHANGED catalog
  BY DEF Type
<1> HIDE DEF now
<1>4. PaneShape(now)
  BY <1>0, <1>2 DEF PaneShape
<1>5. PanesShape' /\ CallsShape'
  BY <1>0, <1>2, <1>3, <1>4, ReportShape DEF ShapeInv
<1>6. WorldShape'
  BY <1>0 DEF ShapeInv, WorldShape, Type
<1>7. RecordShape'
  BY DEF ShapeInv, RecordShape, Recorded, Residents, Type
<1>8. CatalogShape'
  BY DEF ShapeInv, CatalogShape, Type
<1> QED
  BY <1>5, <1>6, <1>7, <1>8 DEF ShapeInv

LEMMA SyncShape ==
  ASSUME ShapeInv, UNCHANGED world, NEW p \in Pane, Sync(p)
  PROVE  ShapeInv'
<1> DEFINE n == pane[p].note
           now == [pane[p] EXCEPT !.doc = @ \cup server[n], !.synced = TRUE,
                                  !.covered = @ /\ pane[p].revoked,
                                  !.pending = pane[p].doc \ server[n]]
<1>0. pane[p] \in Session /\ PaneShape(pane[p]) /\ pane[p].phase = "open" /\ n \in Note
  BY DEF ShapeInv, PanesShape, PaneShape, Sync
<1>1. server[n] \subseteq Edit
  BY <1>0 DEF ShapeInv, WorldShape
<1>2. /\ now \in Session /\ now.phase = "open" /\ now.note = pane[p].note
      /\ now.opened = pane[p].opened /\ now.sweep = pane[p].sweep
      /\ now.dropping = pane[p].dropping
  BY <1>0, <1>1 DEF Session
<1>3. Report(p, now) /\ UNCHANGED catalog
  BY DEF Sync
<1> HIDE DEF now
<1>4. PaneShape(now)
  BY <1>0, <1>2 DEF PaneShape
<1>5. PanesShape' /\ CallsShape'
  BY <1>0, <1>2, <1>3, <1>4, ReportShape DEF ShapeInv
<1>6. WorldShape'
  BY <1>0, <1>1 DEF ShapeInv, WorldShape, Sync
<1>7. RecordShape'
  BY DEF ShapeInv, RecordShape, Recorded, Residents, Sync
<1>8. CatalogShape'
  BY DEF ShapeInv, CatalogShape, Sync
<1> QED
  BY <1>5, <1>6, <1>7, <1>8 DEF ShapeInv

LEMMA AcknowledgeShape ==
  ASSUME ShapeInv, UNCHANGED world, NEW p \in Pane, Acknowledge(p)
  PROVE  ShapeInv'
<1> DEFINE n == pane[p].note
           now == [pane[p] EXCEPT !.pending = {}]
<1>0. pane[p] \in Session /\ PaneShape(pane[p]) /\ pane[p].phase = "open" /\ n \in Note
  BY DEF ShapeInv, PanesShape, PaneShape, Acknowledge
<1>1. pane[p].pending \subseteq Edit
  BY <1>0 DEF Session
<1>2. /\ now \in Session /\ now.phase = "open" /\ now.note = pane[p].note
      /\ now.opened = pane[p].opened /\ now.sweep = pane[p].sweep
      /\ now.dropping = pane[p].dropping
  BY <1>0 DEF Session
<1>3. Report(p, now) /\ UNCHANGED catalog
  BY DEF Acknowledge
<1> HIDE DEF now
<1>4. PaneShape(now)
  BY <1>0, <1>2 DEF PaneShape
<1>5. PanesShape' /\ CallsShape'
  BY <1>0, <1>2, <1>3, <1>4, ReportShape DEF ShapeInv
<1>6. WorldShape'
  BY <1>0, <1>1 DEF ShapeInv, WorldShape, Acknowledge, stores
<1>7. RecordShape'
  BY DEF ShapeInv, RecordShape, Recorded, Residents, Acknowledge, stores
<1>8. CatalogShape'
  BY DEF ShapeInv, CatalogShape, Acknowledge
<1> QED
  BY <1>5, <1>6, <1>7, <1>8 DEF ShapeInv

LEMMA SettleShape ==
  ASSUME ShapeInv, UNCHANGED world, NEW p \in Pane, Settle(p)
  PROVE  ShapeInv'
<1> DEFINE q == [pane[p] EXCEPT !.phase = "settling"]
<1>0. pane[p] \in Session /\ PaneShape(pane[p]) /\ pane[p].phase = "open"
  BY DEF ShapeInv, PanesShape, Settle
<1>1. /\ q \in Session /\ q.phase = "settling" /\ q.note = pane[p].note
      /\ q.sweep = pane[p].sweep /\ q.opened = pane[p].opened /\ q.dropping = pane[p].dropping
  BY <1>0 DEF Session, Phases
<1>2. pane' = [pane EXCEPT ![p] = q] /\ UNCHANGED catalog /\ UNCHANGED calls
  BY DEF Settle
<1> HIDE DEF q
<1>3. PaneShape(q) /\ PaneStands(q) = PaneStands(pane[p])
  BY <1>0, <1>1 DEF PaneShape, PaneStands, PaneAwaits
<1>4. WorldShape'
  BY DEF ShapeInv, WorldShape, Settle, stores
<1>5. RecordShape'
  BY DEF ShapeInv, RecordShape, Recorded, Residents, Settle, stores
<1>6. PanesShape'
  BY <1>1, <1>2, <1>3, OnePane DEF ShapeInv
<1>7. CatalogShape'
  BY DEF ShapeInv, CatalogShape, Settle
<1>8. CallsShape'
  <2>1. \A r \in Pane : PaneStands(pane'[r]) = PaneStands(pane[r])
    BY <1>2, <1>3 DEF ShapeInv, PanesShape
  <2> QED
    BY <1>2, <2>1, CallsStay DEF ShapeInv
<1> QED
  BY <1>4, <1>5, <1>6, <1>7, <1>8 DEF ShapeInv

LEMMA MeasureSizeShape ==
  ASSUME ShapeInv, UNCHANGED world, NEW p \in Pane, MeasureSize(p)
  PROVE  ShapeInv'
<1> DEFINE q == [pane[p] EXCEPT !.phase = "measuring"]
<1>0. /\ pane[p] \in Session /\ PaneShape(pane[p]) /\ pane[p].phase = "settling"
      /\ pane[p].sweep = "none" /\ pane[p].note \in Note
  BY DEF ShapeInv, PanesShape, PaneShape, MeasureSize
<1>1. /\ q \in Session /\ q.phase = "measuring" /\ q.note = pane[p].note
      /\ q.sweep = pane[p].sweep /\ q.opened = pane[p].opened
  BY <1>0 DEF Session, Phases
<1>2. /\ pane' = [pane EXCEPT ![p] = q] /\ UNCHANGED catalog
      /\ calls' = Enqueue("size", p, q.note, "unknown")
  BY <1>1 DEF MeasureSize
<1> HIDE DEF q
<1>3. PaneShape(q) /\ PaneAwaits(q) = "size" /\ PaneAwaits(pane[p]) = "nothing"
  BY <1>0, <1>1 DEF PaneShape, PaneAwaits
<1>4. WorldShape'
  BY DEF ShapeInv, WorldShape, MeasureSize, stores
<1>5. RecordShape'
  BY DEF ShapeInv, RecordShape, Recorded, Residents, MeasureSize, stores
<1>6. PanesShape'
  BY <1>1, <1>2, <1>3, OnePane DEF ShapeInv
<1>7. CatalogShape'
  BY DEF ShapeInv, CatalogShape, MeasureSize
<1>8. CallsShape'
  BY <1>0, <1>1, <1>2, <1>3, CallsWait DEF ShapeInv, Flags
<1> QED
  BY <1>4, <1>5, <1>6, <1>7, <1>8 DEF ShapeInv

LEMMA SetPinnedShape ==
  ASSUME ShapeInv, UNCHANGED world, NEW n \in Note, NEW b \in BOOLEAN, SetPinned(n, b)
  PROVE  ShapeInv'
<1>4. WorldShape'
  BY DEF ShapeInv, WorldShape, SetPinned
<1>5. RecordShape'
  BY DEF ShapeInv, RecordShape, Recorded, Residents, SetPinned
<1>6. PanesShape'
  BY DEF ShapeInv, PanesShape, SetPinned
<1>7. CatalogShape'
  BY DEF ShapeInv, CatalogShape, SetPinned
<1>8. CallsShape'
  BY CallsStay DEF ShapeInv, SetPinned
<1> QED
  BY <1>4, <1>5, <1>6, <1>7, <1>8 DEF ShapeInv

LEMMA EvictPinsShape ==
  ASSUME ShapeInv, UNCHANGED world, NEW p \in Pane, EvictPins(p)
  PROVE  ShapeInv'
<1> DEFINE q == [pane[p] EXCEPT !.sweep = "list", !.pinned = pins]
<1>0. /\ pane[p] \in Session /\ PaneShape(pane[p]) /\ pane[p].sweep = "pins"
      /\ pins \subseteq Note
  BY DEF ShapeInv, PanesShape, WorldShape, EvictPins
<1>1. /\ q \in Session /\ q.phase = pane[p].phase /\ q.note = pane[p].note
      /\ q.sweep = "list" /\ q.opened = pane[p].opened
  BY <1>0 DEF Session
<1>2. /\ pane' = [pane EXCEPT ![p] = q] /\ UNCHANGED catalog
      /\ calls' = Enqueue("list", p, NoNote, "unknown")
  BY DEF EvictPins, ShapeInv, PanesShape
<1> HIDE DEF q
<1>3. PaneShape(q) /\ PaneAwaits(q) = "list" /\ PaneAwaits(pane[p]) = "nothing"
  BY <1>0, <1>1, ClosedTyped DEF PaneShape, PaneAwaits
<1>4. WorldShape'
  BY DEF ShapeInv, WorldShape, EvictPins, stores
<1>5. RecordShape'
  BY DEF ShapeInv, RecordShape, Recorded, Residents, EvictPins, stores
<1>6. PanesShape'
  BY <1>1, <1>2, <1>3, OnePane DEF ShapeInv
<1>7. CatalogShape'
  BY DEF ShapeInv, CatalogShape, EvictPins
<1>8. CallsShape'
  BY <1>0, <1>1, <1>2, <1>3, CallsWait DEF ShapeInv, Flags
<1> QED
  BY <1>4, <1>5, <1>6, <1>7, <1>8 DEF ShapeInv

(* A body is dropped: panes on it are cut off, and stand where they stood. *)
LEMMA DropParts ==
  ASSUME WorldShape, NEW panes \in [Pane -> Session], \A p \in Pane : PaneShape(panes[p]),
         NEW n \in Note, DropBody(n, panes)
  PROVE  /\ PanesShape'
         /\ \A p \in Pane : PaneStands(pane'[p]) = PaneStands(panes[p])
         /\ body' \in [Note -> SUBSET Edit]
<1>1. body' \in [Note -> SUBSET Edit]
  BY DEF DropBody, WorldShape
<1>2. ASSUME NEW p \in Pane
      PROVE  /\ pane'[p] \in Session /\ PaneShape(pane'[p])
             /\ PaneStands(pane'[p]) = PaneStands(panes[p])
  <2> DEFINE q == [panes[p] EXCEPT !.attached = FALSE]
  <2>1. panes[p] \in Session /\ PaneShape(panes[p])
    OBVIOUS
  <2>2. /\ q \in Session /\ q.phase = panes[p].phase /\ q.note = panes[p].note
        /\ q.sweep = panes[p].sweep /\ q.opened = panes[p].opened /\ q.dropping = panes[p].dropping
    BY <2>1 DEF Session
  <2>3. pane'[p] = IF panes[p].note = n THEN q ELSE panes[p]
    BY DEF DropBody
  <2> HIDE DEF q
  <2>4. panes[p].note = n => panes[p].phase # "closed"
    BY <2>1, NamesAssumption DEF PaneShape, Closed
  <2>5. panes[p].note = n => PaneShape(q)
    BY <2>1, <2>2, <2>4 DEF PaneShape
  <2>6. PaneStands(q) = PaneStands(panes[p])
    BY <2>2 DEF PaneStands, PaneAwaits
  <2> QED
    BY <2>1, <2>2, <2>3, <2>5, <2>6
<1>3. PanesShape'
  <2>1. pane' = [p \in Pane |-> pane'[p]]
    BY DEF DropBody
  <2> QED
    BY <1>2, <2>1 DEF PanesShape
<1> QED
  BY <1>1, <1>2, <1>3

LEMMA EvictDropShape ==
  ASSUME ShapeInv, UNCHANGED world, NEW p \in Pane, EvictDrop(p)
  PROVE  ShapeInv'
<1> DEFINE n == Head(pane[p].dropping)
           q == [pane[p] EXCEPT !.sweep = "delete"]
           panes == [pane EXCEPT ![p] = q]
<1>0. /\ pane[p] \in Session /\ PaneShape(pane[p]) /\ pane[p].sweep = "drop"
      /\ pane[p].dropping \in Seq(Note) /\ pane[p].dropping # <<>>
  BY DEF ShapeInv, PanesShape, PaneShape, EvictDrop, Session
<1>n. n \in Note
  BY <1>0, HeadTailProperties
<1>1. /\ q \in Session /\ q.phase = pane[p].phase /\ q.note = pane[p].note
      /\ q.sweep = "delete" /\ q.opened = pane[p].opened /\ q.dropping = pane[p].dropping
  BY <1>0 DEF Session
<1>2. DropBody(n, panes) /\ UNCHANGED catalog /\ calls' = Enqueue("delete", p, n, "unknown")
  BY DEF EvictDrop, ShapeInv, PanesShape
<1> HIDE DEF q, n
<1>3. PaneShape(q) /\ PaneAwaits(q) = "delete" /\ PaneAwaits(pane[p]) = "nothing"
  BY <1>0, <1>1, ClosedTyped DEF PaneShape, PaneAwaits, Closed
<1>4. panes \in [Pane -> Session] /\ \A r \in Pane : PaneShape(panes[r])
      /\ panes[p] = q /\ \A o \in Pane : o # p => panes[o] = pane[o]
  BY <1>1, <1>3 DEF ShapeInv, PanesShape
<1> HIDE DEF panes
<1>5. /\ PanesShape' /\ body' \in [Note -> SUBSET Edit]
      /\ \A r \in Pane : PaneStands(pane'[r]) = PaneStands(panes[r])
  BY <1>2, <1>4, <1>n, DropParts DEF ShapeInv
<1>6. WorldShape'
  BY <1>5 DEF ShapeInv, WorldShape, EvictDrop
<1>7. RecordShape'
  BY DEF ShapeInv, RecordShape, Recorded, Residents, EvictDrop
<1>8. CatalogShape'
  BY DEF ShapeInv, CatalogShape, EvictDrop
<1>9. CallsShape'
  <2> DEFINE c == [op |-> "delete", by |-> p, note |-> n, dirty |-> "unknown"]
  <2>1. c \in Call /\ c.by = p /\ c.op = "delete"
    BY <1>n, Standings DEF Call, Flags
  <2>2. calls' = Append(calls, c)
    BY <1>2 DEF Enqueue
  <2> HIDE DEF c
  <2>3. /\ Standing[p] = PaneStands(pane[p]) /\ Standing'[p] = PaneStands(q)
        /\ \A r \in Pane : r # p => Standing'[r] = Standing[r]
        /\ Standing'["catalog"] = Standing["catalog"]
    BY <1>2, <1>4, <1>5, Standings, StandingsNext
  <2>4. Others(Standing, Standing', p)
    BY <2>3, Standings DEF Others
  <2>5. Posted(c, Standing'[c.by]) /\ Keeps(Standing[p], Standing'[p])
        /\ Standing[p].awaits = "nothing"
    BY <1>1, <1>3, <2>1, <2>3 DEF Posted, Keeps, PaneStands
  <2>6. calls' \in Seq(Call)
    BY <2>1, <2>2, AppendProperties DEF CallsShape, ShapeInv
  <2>7. Queue(calls', Standing')
    BY <2>1, <2>2, <2>4, <2>5, QueueAppend DEF CallsShape, ShapeInv
  <2> QED
    BY <2>6, <2>7 DEF CallsShape
<1> QED
  BY <1>5, <1>6, <1>7, <1>8, <1>9 DEF ShapeInv

LEMMA PrefetchShape ==
  ASSUME ShapeInv, UNCHANGED world, NEW p \in Pane, NEW n \in Note, Prefetch(p, n)
  PROVE  ShapeInv'
<1> DEFINE q == [Closed EXCEPT !.note = n, !.phase = "fetching",
                               !.attached = TRUE, !.doc = body[n]]
<1>0. body[n] \subseteq Edit
  BY DEF ShapeInv, WorldShape
<1>1. /\ q \in Session /\ q.phase = "fetching" /\ q.note = n /\ q.sweep = "none" /\ ~q.opened
      /\ PaneShape(q)
  BY <1>0, ClosedTyped DEF Session, Phases, Closed, PaneShape
<1>2. pane' = [pane EXCEPT ![p] = q] /\ UNCHANGED catalog /\ UNCHANGED calls
  BY DEF Prefetch
<1>3. PaneAwaits(pane[p]) = "nothing" /\ ~pane[p].opened
  BY DEF ShapeInv, PanesShape, PaneShape, Prefetch, PaneAwaits
<1> HIDE DEF q
<1>4. WorldShape'
  BY DEF ShapeInv, WorldShape, Prefetch, stores
<1>5. RecordShape'
  BY DEF ShapeInv, RecordShape, Recorded, Residents, Prefetch, stores
<1>6. PanesShape'
  BY <1>1, <1>2, OnePane DEF ShapeInv
<1>7. CatalogShape'
  BY DEF ShapeInv, CatalogShape, Prefetch
<1>8. CallsShape'
  BY <1>1, <1>2, <1>3, CallsIdle DEF ShapeInv
<1> QED
  BY <1>4, <1>5, <1>6, <1>7, <1>8 DEF ShapeInv

LEMMA FetchedShape ==
  ASSUME ShapeInv, UNCHANGED world, NEW p \in Pane, Fetched(p)
  PROVE  ShapeInv'
<1> DEFINE n == pane[p].note
           q == [pane[p] EXCEPT !.phase = "fetched"]
<1>0. /\ pane[p] \in Session /\ PaneShape(pane[p]) /\ pane[p].phase = "fetching" /\ n \in Note
      /\ server[n] \subseteq Edit /\ body[n] \subseteq Edit /\ pane[p].doc \subseteq Edit
  BY DEF ShapeInv, PanesShape, PaneShape, Fetched, WorldShape, Session
<1>1. PaneAwaits(pane[p]) = "nothing" /\ ~pane[p].opened /\ pane[p].sweep = "none"
  BY <1>0 DEF PaneShape, PaneAwaits
<1>2. WorldShape'
  <2>1. body' \in [Note -> SUBSET Edit]
    BY <1>0 DEF ShapeInv, WorldShape, Fetched
  <2>2. server' \in [Note -> SUBSET Edit]
    BY <1>0 DEF ShapeInv, WorldShape, Fetched
  <2> QED
    BY <2>1, <2>2 DEF ShapeInv, WorldShape, Fetched
<1>3. RecordShape'
  BY DEF ShapeInv, RecordShape, Recorded, Residents, Fetched
<1>4. CatalogShape'
  BY DEF ShapeInv, CatalogShape, Fetched
<1>5. CASE pane[p].revoked
  <2>1. pane' = [pane EXCEPT ![p] = Closed] /\ UNCHANGED <<calls, catalog>>
    BY <1>5 DEF Fetched
  <2>2. PanesShape'
    BY <2>1, ClosedTyped, OnePane DEF ShapeInv
  <2>3. CallsShape'
    BY <1>1, <2>1, CallsIdle DEF ShapeInv
  <2> QED
    BY <1>2, <1>3, <1>4, <2>2, <2>3 DEF ShapeInv
<1>6. CASE ~pane[p].revoked
  <2>1. /\ q \in Session /\ q.phase = "fetched" /\ q.note = n /\ q.sweep = "none" /\ ~q.opened
    BY <1>0, <1>1 DEF Session, Phases
  <2>2. /\ pane' = [pane EXCEPT ![p] = q] /\ UNCHANGED catalog
        /\ calls' = Enqueue("open", p, n, "unknown")
    BY <1>6 DEF Fetched
  <2> HIDE DEF q
  <2>3. PaneShape(q) /\ PaneAwaits(q) = "open"
    BY <1>0, <2>1 DEF PaneShape, PaneAwaits
  <2>4. PanesShape'
    BY <2>1, <2>2, <2>3, OnePane DEF ShapeInv
  <2>5. CallsShape'
    BY <1>0, <1>1, <2>1, <2>2, <2>3, CallsWait DEF ShapeInv, Flags
  <2> QED
    BY <1>2, <1>3, <1>4, <2>4, <2>5 DEF ShapeInv
<1> QED
  BY <1>5, <1>6

LEMMA FetchFailsShape ==
  ASSUME ShapeInv, UNCHANGED world, NEW p \in Pane, FetchFails(p)
  PROVE  ShapeInv'
<1>1. PaneAwaits(pane[p]) = "nothing" /\ ~pane[p].opened
  BY DEF ShapeInv, PanesShape, PaneShape, FetchFails, PaneAwaits
<1>2. pane' = [pane EXCEPT ![p] = Closed] /\ UNCHANGED <<calls, catalog>>
  BY DEF FetchFails
<1>3. PanesShape'
  BY <1>2, ClosedTyped, OnePane DEF ShapeInv
<1>4. CallsShape'
  BY <1>1, <1>2, CallsIdle DEF ShapeInv
<1>5. WorldShape'
  BY DEF ShapeInv, WorldShape, FetchFails, stores
<1>6. RecordShape'
  BY DEF ShapeInv, RecordShape, Recorded, Residents, FetchFails, stores
<1>7. CatalogShape'
  BY DEF ShapeInv, CatalogShape, FetchFails
<1> QED
  BY <1>3, <1>4, <1>5, <1>6, <1>7 DEF ShapeInv

(* The panes a reconciliation ends. *)
LEMMA RevokeParts ==
  ASSUME PanesShape, NEW ending \in SUBSET Pane,
         \A p \in ending : pane[p].phase # "closed",
         pane' = [p \in Pane |->
           IF p \in ending THEN [pane[p] EXCEPT !.revoked = TRUE] ELSE pane[p]]
  PROVE  PanesShape' /\ \A p \in Pane : PaneStands(pane'[p]) = PaneStands(pane[p])
<1>1. ASSUME NEW p \in Pane
      PROVE  /\ pane'[p] \in Session /\ PaneShape(pane'[p])
             /\ PaneStands(pane'[p]) = PaneStands(pane[p])
  <2> DEFINE q == [pane[p] EXCEPT !.revoked = TRUE]
  <2>1. pane[p] \in Session /\ PaneShape(pane[p])
    BY DEF PanesShape
  <2>2. /\ q \in Session /\ q.phase = pane[p].phase /\ q.note = pane[p].note
        /\ q.sweep = pane[p].sweep /\ q.opened = pane[p].opened /\ q.dropping = pane[p].dropping
    BY <2>1 DEF Session
  <2>3. pane'[p] = IF p \in ending THEN q ELSE pane[p]
    OBVIOUS
  <2> HIDE DEF q
  <2>4. p \in ending => PaneShape(q)
    BY <2>1, <2>2 DEF PaneShape
  <2>5. PaneStands(q) = PaneStands(pane[p])
    BY <2>2 DEF PaneStands, PaneAwaits
  <2> QED
    BY <2>1, <2>2, <2>3, <2>4, <2>5
<1>2. pane' = [p \in Pane |-> pane'[p]]
  OBVIOUS
<1> QED
  BY <1>1, <1>2 DEF PanesShape

LEMMA ReconcileShape ==
  ASSUME ShapeInv, UNCHANGED world, NEW denied \in BOOLEAN, Reconcile(denied)
  PROVE  ShapeInv'
<1> DEFINE answer == IF denied THEN {} ELSE readable
           ending == Revoked(answer)
<1>1. /\ pane' = [p \in Pane |->
           IF p \in ending THEN [pane[p] EXCEPT !.revoked = TRUE] ELSE pane[p]]
      /\ catalog' = [pc |-> "list", denied |-> denied, answer |-> answer,
                     todo |-> {pane[p].note : p \in ending}]
      /\ calls' = Enqueue("list", "catalog", NoNote, "unknown")
      /\ catalog.pc = "idle"
  BY DEF Reconcile
<1>2. ending \in SUBSET Pane /\ \A p \in ending : pane[p].phase # "closed" /\ pane[p].note \in Note
  BY DEF Revoked, ShapeInv, PanesShape, PaneShape
<1>3. answer \subseteq Note
  BY DEF ShapeInv, WorldShape
<1> HIDE DEF ending, answer
<1>4. PanesShape' /\ \A p \in Pane : PaneStands(pane'[p]) = PaneStands(pane[p])
  BY <1>1, <1>2, RevokeParts DEF ShapeInv
<1>5. CatalogShape'
  BY <1>1, <1>2, <1>3 DEF CatalogShape
<1>6. CatalogAwaits(catalog) = "nothing" /\ CatalogAwaits(catalog') = "list"
  BY <1>1 DEF CatalogAwaits
<1>7. CallsShape'
  BY <1>1, <1>4, <1>6, CatalogCalls DEF ShapeInv
<1>8. WorldShape'
  BY DEF ShapeInv, WorldShape, Reconcile, stores
<1>9. RecordShape'
  BY DEF ShapeInv, RecordShape, Recorded, Residents, Reconcile, stores
<1> QED
  BY <1>4, <1>5, <1>7, <1>8, <1>9 DEF ShapeInv

LEMMA ReconcilePinsShape ==
  ASSUME ShapeInv, UNCHANGED world, ReconcilePins
  PROVE  ShapeInv'
<1>1. catalog' = [catalog EXCEPT !.pc = "drop"] /\ catalog.pc = "pins" /\ UNCHANGED <<calls, pane>>
  BY DEF ReconcilePins
<1>2. CatalogShape'
  BY <1>1 DEF ShapeInv, CatalogShape
<1>3. CatalogAwaits(catalog') = CatalogAwaits(catalog)
  BY <1>1 DEF CatalogAwaits, ShapeInv, CatalogShape
<1>4. CallsShape'
  BY <1>1, <1>3, CallsStay DEF ShapeInv
<1>5. WorldShape'
  BY DEF ShapeInv, WorldShape, ReconcilePins
<1>6. RecordShape'
  BY DEF ShapeInv, RecordShape, Recorded, Residents, ReconcilePins
<1>7. PanesShape'
  BY <1>1 DEF ShapeInv, PanesShape
<1> QED
  BY <1>2, <1>4, <1>5, <1>6, <1>7 DEF ShapeInv

LEMMA ReconcileDeniedShape ==
  ASSUME ShapeInv, UNCHANGED world, ReconcileDenied
  PROVE  ShapeInv'
<1>1. /\ catalog' = [catalog EXCEPT !.pc = "delete"] /\ catalog.pc = "clear" /\ UNCHANGED pane
      /\ calls' = Enqueue("clear", "catalog", NoNote, "unknown")
  BY DEF ReconcileDenied
<1>2. CatalogShape' /\ catalog.denied
  BY <1>1 DEF ShapeInv, CatalogShape
<1>3. CatalogAwaits(catalog') = "clear" /\ CatalogAwaits(catalog) = "nothing"
  BY <1>1, <1>2 DEF CatalogAwaits, ShapeInv, CatalogShape
<1>4. CallsShape'
  BY <1>1, <1>3, CatalogCalls DEF ShapeInv
<1>5. WorldShape'
  BY DEF ShapeInv, WorldShape, ReconcileDenied, stores
<1>6. RecordShape'
  BY DEF ShapeInv, RecordShape, Recorded, Residents, ReconcileDenied, stores
<1>7. PanesShape'
  BY <1>1 DEF ShapeInv, PanesShape
<1> QED
  BY <1>2, <1>4, <1>5, <1>6, <1>7 DEF ShapeInv

LEMMA ReconcileDropShape ==
  ASSUME ShapeInv, UNCHANGED world, NEW n \in Note, ReconcileDrop(n)
  PROVE  ShapeInv'
<1>0. catalog.pc = "drop" /\ DropBody(n, pane)
  BY DEF ReconcileDrop
<1>1. /\ PanesShape' /\ body' \in [Note -> SUBSET Edit]
      /\ \A p \in Pane : PaneStands(pane'[p]) = PaneStands(pane[p])
  BY <1>0, DropParts DEF ShapeInv, PanesShape
<1>2. WorldShape'
  BY <1>1 DEF ShapeInv, WorldShape, ReconcileDrop
<1>3. RecordShape'
  BY DEF ShapeInv, RecordShape, Recorded, Residents, ReconcileDrop
<1>4. CASE catalog.denied
  <2>1. catalog' = [catalog EXCEPT !.todo = @ \ {n}] /\ UNCHANGED calls
    BY <1>4 DEF ReconcileDrop
  <2>2. CatalogShape' /\ CatalogAwaits(catalog') = CatalogAwaits(catalog)
    BY <1>0, <2>1 DEF ShapeInv, CatalogShape, CatalogAwaits
  <2>3. CallsShape'
    BY <1>1, <2>1, <2>2, CallsStay DEF ShapeInv
  <2> QED
    BY <1>1, <1>2, <1>3, <2>2, <2>3 DEF ShapeInv
<1>5. CASE ~catalog.denied
  <2>1. /\ catalog' = [catalog EXCEPT !.pc = "delete"]
        /\ calls' = Enqueue("delete", "catalog", n, "unknown")
    BY <1>5 DEF ReconcileDrop
  <2>2. /\ CatalogShape'
        /\ CatalogAwaits(catalog') = "delete" /\ CatalogAwaits(catalog) = "nothing"
    BY <1>0, <1>5, <2>1 DEF ShapeInv, CatalogShape, CatalogAwaits
  <2>3. CallsShape'
    BY <1>1, <2>1, <2>2, CatalogCalls DEF ShapeInv
  <2> QED
    BY <1>1, <1>2, <1>3, <2>2, <2>3 DEF ShapeInv
<1> QED
  BY <1>4, <1>5

LEMMA ReconcileDoneShape ==
  ASSUME ShapeInv, UNCHANGED world, ReconcileDone
  PROVE  ShapeInv'
<1>1. /\ catalog' = [catalog EXCEPT !.pc = "idle"] /\ catalog.pc = "drop" /\ catalog.todo = {}
      /\ UNCHANGED <<calls, pane>>
  BY DEF ReconcileDone
<1>2. CatalogShape'
  BY <1>1 DEF ShapeInv, CatalogShape
<1>3. CatalogAwaits(catalog') = CatalogAwaits(catalog)
  BY <1>1 DEF CatalogAwaits, ShapeInv, CatalogShape
<1>4. CallsShape'
  BY <1>1, <1>3, CallsStay DEF ShapeInv
<1>5. WorldShape'
  BY DEF ShapeInv, WorldShape, ReconcileDone, stores
<1>6. RecordShape'
  BY DEF ShapeInv, RecordShape, Recorded, Residents, ReconcileDone, stores
<1>7. PanesShape'
  BY <1>1 DEF ShapeInv, PanesShape
<1> QED
  BY <1>2, <1>4, <1>5, <1>6, <1>7 DEF ShapeInv

LEMMA RunAskShape == ASSUME ShapeInv, UNCHANGED world, RunAsk PROVE ShapeInv'
<1> DEFINE c == Head(calls)
           p == c.by
           here == c.note \in Residents
           q == [pane[p] EXCEPT !.resident = here, !.phase = "loading"]
<1>0. calls # <<>> /\ c.op = "ask" /\ calls' = Tail(calls) /\ UNCHANGED catalog
  BY DEF RunAsk, Run
<1>1. p \in Pane /\ Posted(c, PaneStands(pane[p]))
  BY <1>0, NextCall
<1>2. pane[p] \in Session /\ PaneShape(pane[p])
  BY <1>1 DEF ShapeInv, PanesShape
<1>3. pane[p].phase = "asking" /\ ~pane[p].opened /\ pane[p].sweep = "none" /\ pane[p].note \in Note
  BY <1>0, <1>1, <1>2 DEF Posted, PaneStands, PaneAwaits, PaneShape
<1>4. pane' = [pane EXCEPT ![p] = q]
  BY DEF RunAsk, ShapeInv, PanesShape
<1>b. here \in BOOLEAN
  OBVIOUS
<1> HIDE DEF here
<1>5. q \in Session /\ q.phase = "loading" /\ ~q.opened /\ q.sweep = "none" /\ q.note \in Note
  BY <1>2, <1>3, <1>b DEF Session, Phases
<1> HIDE DEF q, c
<1>6. PaneShape(q)
  BY <1>5 DEF PaneShape
<1>7. PanesShape'
  BY <1>1, <1>4, <1>5, <1>6, OnePane DEF ShapeInv
<1>8. CallsShape'
  BY <1>0, <1>1, <1>3, <1>4, CallsRun DEF ShapeInv, c
<1>9. WorldShape'
  BY DEF ShapeInv, WorldShape, RunAsk, stores
<1>10. RecordShape'
  BY DEF ShapeInv, RecordShape, Recorded, Residents, RunAsk, stores
<1>11. CatalogShape'
  BY <1>0 DEF ShapeInv, CatalogShape
<1> QED
  BY <1>7, <1>8, <1>9, <1>10, <1>11 DEF ShapeInv

(* What an opening does to the records. *)
LEMMA OpenedParts ==
  ASSUME RecordShape, NEW p \in Pane, NEW n \in Note, NEW d \in Flags, Opened(p, n, d)
  PROVE  /\ RecordShape'
         /\ Residents' = IF Current(p) THEN Residents \cup {n} ELSE Residents
         /\ unsynced' = IF Current(p) /\ d = "dirty" THEN unsynced \cup {n}
                        ELSE IF Current(p) /\ d = "clean" THEN unsynced \ {n} ELSE unsynced
<1>1. CASE ~Current(p)
  BY <1>1 DEF Opened, RecordShape, Recorded, Residents
<1>2. CASE Current(p)
  <2>1. resident' = Append(Without(n), n)
    BY <1>2 DEF Opened
  <2>2. Recorded' /\ Residents' = Residents \cup {n}
    BY <2>1, RecordsOpened DEF RecordShape
  <2>3. unsynced' = IF d = "dirty" THEN unsynced \cup {n}
                    ELSE IF d = "clean" THEN unsynced \ {n} ELSE unsynced
    BY <1>2 DEF Opened
  <2> QED
    BY <1>2, <2>2, <2>3 DEF RecordShape
<1> QED
  BY <1>1, <1>2

LEMMA MeasuredParts ==
  ASSUME RecordShape, NEW p \in Pane, NEW n \in Note, NEW d \in Flags, Measured(p, n, d)
  PROVE  /\ RecordShape' /\ Residents' = Residents
         /\ unsynced' = IF n \in Residents /\ Current(p) /\ d = "dirty" THEN unsynced \cup {n}
                        ELSE IF n \in Residents /\ Current(p) /\ d = "clean"
                        THEN unsynced \ {n} ELSE unsynced
BY DEF Measured, RecordShape, Recorded, Residents

LEMMA RunOpenShape == ASSUME ShapeInv, UNCHANGED world, RunOpen PROVE ShapeInv'
<1> DEFINE c == Head(calls)
           p == c.by
           q == [pane[p] EXCEPT !.sweep = "pins"]
<1>0. calls # <<>> /\ c.op = "open" /\ calls' = Tail(calls) /\ UNCHANGED catalog
      /\ Opened(p, c.note, c.dirty)
  BY DEF RunOpen, Run
<1>1. p \in Pane /\ Posted(c, PaneStands(pane[p])) /\ c \in Call /\ c.note \in Note
  BY <1>0, NextCall
<1>2. pane[p] \in Session /\ PaneShape(pane[p]) /\ c.dirty \in Flags
  BY <1>1 DEF ShapeInv, PanesShape, Call
<1>3. pane[p].phase = "fetched" \/ pane[p].sweep = "opening"
  BY <1>0, <1>1 DEF Posted, PaneStands, PaneAwaits
<1>4. pane' = [pane EXCEPT ![p] = IF pane[p].phase = "fetched" THEN Closed ELSE q]
  BY DEF RunOpen, ShapeInv, PanesShape
<1>5. /\ q \in Session /\ q.phase = pane[p].phase /\ q.opened = pane[p].opened
      /\ q.sweep = "pins" /\ q.note = pane[p].note
  BY <1>2 DEF Session
<1> HIDE DEF q, c
<1>6. RecordShape'
  BY <1>0, <1>1, <1>2, OpenedParts DEF ShapeInv
<1>7. WorldShape'
  BY DEF ShapeInv, WorldShape, RunOpen
<1>8. CatalogShape'
  BY <1>0 DEF ShapeInv, CatalogShape
<1>9. CASE pane[p].phase = "fetched"
  <2>1. pane' = [pane EXCEPT ![p] = Closed] /\ ~pane[p].opened
    BY <1>2, <1>4, <1>9 DEF PaneShape
  <2>2. PanesShape'
    BY <1>1, <2>1, ClosedTyped, OnePane DEF ShapeInv
  <2>3. CallsShape'
    BY <1>0, <1>1, <2>1, CallsRun DEF ShapeInv, c
  <2> QED
    BY <1>6, <1>7, <1>8, <2>2, <2>3 DEF ShapeInv
<1>10. CASE pane[p].phase # "fetched"
  <2>1. pane' = [pane EXCEPT ![p] = q]
    BY <1>4, <1>10
  <2>2. PaneShape(q)
    BY <1>2, <1>3, <1>5, <1>10, ClosedTyped DEF PaneShape, Closed
  <2>3. PanesShape'
    BY <1>1, <1>5, <2>1, <2>2, OnePane DEF ShapeInv
  <2>4. CallsShape'
    BY <1>0, <1>1, <1>5, <2>1, CallsRun DEF ShapeInv, c
  <2> QED
    BY <1>6, <1>7, <1>8, <2>3, <2>4 DEF ShapeInv
<1> QED
  BY <1>9, <1>10

LEMMA RunMeasureShape == ASSUME ShapeInv, UNCHANGED world, RunMeasure PROVE ShapeInv'
<1> DEFINE c == Head(calls)
<1>0. /\ calls # <<>> /\ c.op = "measure" /\ calls' = Tail(calls) /\ UNCHANGED <<catalog, pane>>
      /\ Measured(c.by, c.note, c.dirty)
  BY DEF RunMeasure, Run
<1>1. c.by \in Pane /\ c \in Call /\ c.note \in Note
  BY <1>0, NextCall
<1>2. c.dirty \in Flags
  BY <1>1 DEF Call
<1> HIDE DEF c
<1>3. RecordShape'
  BY <1>0, <1>1, <1>2, MeasuredParts DEF ShapeInv
<1>4. WorldShape'
  BY DEF ShapeInv, WorldShape, RunMeasure
<1>5. CatalogShape' /\ PanesShape'
  BY <1>0 DEF ShapeInv, CatalogShape, PanesShape
<1>6. Standing' = Standing
  BY <1>0 DEF Standing
<1>7. Queue(calls', Standing) /\ calls' \in Seq(Call)
  BY <1>0, QueueRunMeasure, TailParts DEF ShapeInv, CallsShape
<1>8. CallsShape'
  BY <1>6, <1>7 DEF CallsShape
<1> QED
  BY <1>3, <1>4, <1>5, <1>8 DEF ShapeInv

LEMMA RunSizeShape == ASSUME ShapeInv, UNCHANGED world, RunSize PROVE ShapeInv'
<1> DEFINE c == Head(calls)
           p == c.by
<1>0. /\ calls # <<>> /\ c.op = "size" /\ calls' = Tail(calls) /\ UNCHANGED catalog
      /\ pane' = [pane EXCEPT ![p] = Closed]
  BY DEF RunSize, Run
<1>1. p \in Pane
  BY <1>0, NextCall
<1> HIDE DEF c
<1>2. PanesShape'
  BY <1>0, <1>1, ClosedTyped, OnePane DEF ShapeInv
<1>3. CallsShape'
  BY <1>0, <1>1, CallsRun DEF ShapeInv, c
<1>4. WorldShape'
  BY DEF ShapeInv, WorldShape, RunSize, stores
<1>5. RecordShape'
  BY DEF ShapeInv, RecordShape, Recorded, Residents, RunSize, stores
<1>6. CatalogShape'
  BY <1>0 DEF ShapeInv, CatalogShape
<1> QED
  BY <1>2, <1>3, <1>4, <1>5, <1>6 DEF ShapeInv

LEMMA RunEvictListShape == ASSUME ShapeInv, UNCHANGED world, RunEvictList PROVE ShapeInv'
<1> DEFINE c == Head(calls)
           p == c.by
           dropping == Evictable(pane[p].pinned)
           q == [pane[p] EXCEPT !.dropping = dropping,
                                !.sweep = IF dropping = <<>> THEN "none" ELSE "drop"]
<1>0. /\ calls # <<>> /\ c.op = "list" /\ calls' = Tail(calls) /\ UNCHANGED catalog /\ p \in Pane
  BY DEF RunEvictList, Run
<1>1. Posted(c, PaneStands(pane[p]))
  BY <1>0, NextCall
<1>2. pane[p] \in Session /\ PaneShape(pane[p])
  BY <1>0 DEF ShapeInv, PanesShape
<1>3. pane[p].sweep = "list"
  BY <1>0, <1>1 DEF Posted, PaneStands, PaneAwaits
<1>4. dropping \in Seq(Note)
  BY EvictableTyped DEF ShapeInv, RecordShape
<1>5. pane' = [pane EXCEPT ![p] = q]
  BY <1>0 DEF RunEvictList, ShapeInv, PanesShape
<1> HIDE DEF dropping
<1>6. /\ q \in Session /\ q.phase = pane[p].phase /\ q.opened = pane[p].opened
      /\ q.note = pane[p].note /\ q.sweep \in {"none", "drop"}
      /\ q.sweep = "drop" => q.dropping # <<>>
  BY <1>2, <1>4 DEF Session
<1> HIDE DEF q, c
<1>7. PaneShape(q)
  BY <1>2, <1>3, <1>6, ClosedTyped DEF PaneShape, Closed
<1>8. PanesShape'
  BY <1>0, <1>5, <1>6, <1>7, OnePane DEF ShapeInv
<1>9. CallsShape'
  BY <1>0, <1>5, <1>6, CallsRun DEF ShapeInv, c
<1>10. WorldShape'
  BY DEF ShapeInv, WorldShape, RunEvictList, stores
<1>11. RecordShape'
  BY DEF ShapeInv, RecordShape, Recorded, Residents, RunEvictList, stores
<1>12. CatalogShape'
  BY <1>0 DEF ShapeInv, CatalogShape
<1> QED
  BY <1>8, <1>9, <1>10, <1>11, <1>12 DEF ShapeInv

LEMMA DeletedParts ==
  ASSUME RecordShape, NEW n, resident' = Without(n), unsynced' = unsynced \ {n}
  PROVE  RecordShape' /\ Residents' = Residents \ {n}
BY RecordsDeleted DEF RecordShape

LEMMA RunEvictDeleteShape == ASSUME ShapeInv, UNCHANGED world, RunEvictDelete PROVE ShapeInv'
<1> DEFINE c == Head(calls)
           p == c.by
           rest == Tail(pane[p].dropping)
           q == [pane[p] EXCEPT !.dropping = rest,
                                !.sweep = IF rest = <<>> THEN "none" ELSE "drop"]
<1>0. /\ calls # <<>> /\ c.op = "delete" /\ calls' = Tail(calls) /\ UNCHANGED catalog /\ p \in Pane
      /\ resident' = Without(c.note) /\ unsynced' = unsynced \ {c.note}
  BY DEF RunEvictDelete, Run
<1>1. Posted(c, PaneStands(pane[p]))
  BY <1>0, NextCall
<1>2. pane[p] \in Session /\ PaneShape(pane[p])
  BY <1>0 DEF ShapeInv, PanesShape
<1>3. pane[p].sweep = "delete"
  BY <1>0, <1>1 DEF Posted, PaneStands, PaneAwaits
<1>4. rest \in Seq(Note)
  <2>1. pane[p].dropping \in Seq(Note) /\ pane[p].dropping # <<>>
    BY <1>2, <1>3 DEF Session, PaneShape
  <2> QED
    BY <2>1, HeadTailProperties
<1>5. pane' = [pane EXCEPT ![p] = q]
  BY <1>0 DEF RunEvictDelete, ShapeInv, PanesShape
<1> HIDE DEF rest
<1>6. /\ q \in Session /\ q.phase = pane[p].phase /\ q.opened = pane[p].opened
      /\ q.note = pane[p].note /\ q.sweep \in {"none", "drop"}
      /\ q.sweep = "drop" => q.dropping # <<>>
  BY <1>2, <1>4 DEF Session
<1> HIDE DEF q, c
<1>7. PaneShape(q)
  BY <1>2, <1>3, <1>6, ClosedTyped DEF PaneShape, Closed
<1>8. PanesShape'
  BY <1>0, <1>5, <1>6, <1>7, OnePane DEF ShapeInv
<1>9. CallsShape'
  BY <1>0, <1>5, <1>6, CallsRun DEF ShapeInv, c
<1>10. WorldShape'
  BY DEF ShapeInv, WorldShape, RunEvictDelete
<1>11. RecordShape'
  BY <1>0, DeletedParts DEF ShapeInv
<1>12. CatalogShape'
  BY <1>0 DEF ShapeInv, CatalogShape
<1> QED
  BY <1>8, <1>9, <1>10, <1>11, <1>12 DEF ShapeInv

LEMMA RunCatalogListShape == ASSUME ShapeInv, UNCHANGED world, RunCatalogList PROVE ShapeInv'
<1> DEFINE c == Head(calls)
<1>0. /\ calls # <<>> /\ c.op = "list" /\ calls' = Tail(calls) /\ UNCHANGED pane
      /\ c.by = "catalog"
      /\ catalog' = [catalog EXCEPT !.todo = @ \cup (Residents \ catalog.answer),
                                    !.pc = IF catalog.denied THEN "clear" ELSE "pins"]
  BY DEF RunCatalogList, Run
<1>1. Residents \subseteq Note
  <2>1. resident \in Seq(Note)
    BY DEF ShapeInv, RecordShape, Recorded
  <2> QED
    BY <2>1, LenProperties DEF Residents
<1>2. CatalogShape'
  BY <1>0, <1>1 DEF ShapeInv, CatalogShape
<1>3. CallsShape'
  BY <1>0, CatalogRuns DEF ShapeInv
<1>4. WorldShape'
  BY DEF ShapeInv, WorldShape, RunCatalogList, stores
<1>5. RecordShape'
  BY DEF ShapeInv, RecordShape, Recorded, Residents, RunCatalogList, stores
<1>6. PanesShape'
  BY <1>0 DEF ShapeInv, PanesShape
<1> QED
  BY <1>2, <1>3, <1>4, <1>5, <1>6 DEF ShapeInv

LEMMA RunCatalogDeleteShape == ASSUME ShapeInv, UNCHANGED world, RunCatalogDelete PROVE ShapeInv'
<1> DEFINE c == Head(calls)
<1>0. /\ calls # <<>> /\ c.op = "delete" /\ calls' = Tail(calls) /\ UNCHANGED pane
      /\ c.by = "catalog"
      /\ catalog' = [catalog EXCEPT !.todo = @ \ {c.note}, !.pc = "drop"]
      /\ resident' = Without(c.note) /\ unsynced' = unsynced \ {c.note}
  BY DEF RunCatalogDelete, Run
<1>2. CatalogShape'
  BY <1>0 DEF ShapeInv, CatalogShape
<1>3. CallsShape'
  BY <1>0, CatalogRuns DEF ShapeInv
<1>4. WorldShape'
  BY DEF ShapeInv, WorldShape, RunCatalogDelete
<1>5. RecordShape'
  BY <1>0, DeletedParts DEF ShapeInv
<1>6. PanesShape'
  BY <1>0 DEF ShapeInv, PanesShape
<1> QED
  BY <1>2, <1>3, <1>4, <1>5, <1>6 DEF ShapeInv

LEMMA RunClearShape == ASSUME ShapeInv, UNCHANGED world, RunClear PROVE ShapeInv'
<1>0. /\ calls # <<>> /\ Head(calls).op = "clear" /\ calls' = Tail(calls) /\ UNCHANGED pane
      /\ catalog' = [catalog EXCEPT !.pc = "drop"]
      /\ resident' = <<>> /\ unsynced' = {} /\ pins' = {}
  BY DEF RunClear, Run
<1>1. Head(calls).by = "catalog"
  BY <1>0, NextCall
<1>2. CatalogShape'
  BY <1>0 DEF ShapeInv, CatalogShape
<1>3. CallsShape'
  BY <1>0, <1>1, CatalogRuns DEF ShapeInv
<1>4. WorldShape'
  BY <1>0 DEF ShapeInv, WorldShape, RunClear
<1>5. RecordShape'
  <2>1. <<>> \in Seq(Note) /\ DOMAIN <<>> = {}
    OBVIOUS
  <2>2. Recorded'
    BY <1>0, <2>1 DEF Recorded
  <2> QED
    BY <1>0, <2>2 DEF RecordShape
<1>6. PanesShape'
  BY <1>0 DEF ShapeInv, PanesShape
<1> QED
  BY <1>2, <1>3, <1>4, <1>5, <1>6 DEF ShapeInv

LEMMA ChangeAccessShape ==
  ASSUME ShapeInv, UNCHANGED world, NEW notes \in SUBSET Note, ChangeAccess(notes)
  PROVE  ShapeInv'
<1>4. WorldShape'
  BY DEF ShapeInv, WorldShape, ChangeAccess, stores
<1>5. RecordShape'
  BY DEF ShapeInv, RecordShape, Recorded, Residents, ChangeAccess, stores
<1>6. PanesShape'
  BY DEF ShapeInv, PanesShape, ChangeAccess
<1>7. CatalogShape'
  BY DEF ShapeInv, CatalogShape, ChangeAccess
<1>8. CallsShape'
  BY CallsStay DEF ShapeInv, ChangeAccess
<1> QED
  BY <1>4, <1>5, <1>6, <1>7, <1>8 DEF ShapeInv

LEMMA QuitShape == ASSUME ShapeInv, UNCHANGED world, Quit PROVE ShapeInv'
<1>0. /\ calls' = <<>> /\ pane' = [p \in Pane |-> Closed]
      /\ catalog' = [pc |-> "idle", denied |-> FALSE, answer |-> Note, todo |-> {}]
  BY DEF Quit
<1>1. CallsShape'
  <2>1. <<>> \in Seq(Call) /\ Len(<<>>) = 0
    OBVIOUS
  <2>2. Queue(<<>>, Standing')
    BY <2>1 DEF Queue
  <2> QED
    BY <1>0, <2>1, <2>2 DEF CallsShape
<1>2. PanesShape'
  BY <1>0, ClosedTyped DEF PanesShape
<1>3. CatalogShape'
  BY <1>0 DEF CatalogShape
<1>4. WorldShape'
  BY DEF ShapeInv, WorldShape, Quit, stores
<1>5. RecordShape'
  BY DEF ShapeInv, RecordShape, Recorded, Residents, Quit, stores
<1> QED
  BY <1>1, <1>2, <1>3, <1>4, <1>5 DEF ShapeInv

LEMMA ShapeNext == ASSUME ShapeInv, [Next]_vars PROVE ShapeInv'
<1>1. CASE UNCHANGED vars
  <2>1. Standing' = Standing
    BY <1>1 DEF vars, Standing
  <2>2. CallsShape'
    BY <1>1, <2>1 DEF ShapeInv, CallsShape, vars
  <2>3. WorldShape' /\ RecordShape' /\ PanesShape' /\ CatalogShape'
    BY <1>1 DEF ShapeInv, vars, stores, WorldShape, RecordShape, Recorded, Residents,
                PanesShape, CatalogShape
  <2> QED
    BY <2>2, <2>3 DEF ShapeInv
<1>2. CASE Next
  <2>0. UNCHANGED world
    BY <1>2 DEF Next
  <2>1. ASSUME NEW p \in Pane,
               \/ Load(p) \/ Sync(p) \/ Acknowledge(p) \/ Settle(p) \/ MeasureSize(p)
               \/ EvictPins(p) \/ EvictDrop(p) \/ Fetched(p) \/ FetchFails(p)
        PROVE  ShapeInv'
    BY <2>0, <2>1, LoadShape, SyncShape, AcknowledgeShape, SettleShape, MeasureSizeShape,
       EvictPinsShape, EvictDropShape, FetchedShape, FetchFailsShape
  <2>2. ASSUME NEW p \in Pane, NEW n \in Note, Open(p, n) \/ Prefetch(p, n) PROVE ShapeInv'
    BY <2>0, <2>2, OpenShape, PrefetchShape
  <2>3. ASSUME NEW p \in Pane, NEW e \in Edit, Type(p, e) PROVE ShapeInv'
    BY <2>0, <2>3, TypeShape
  <2>4. CASE \E n \in Note, pinned \in BOOLEAN : SetPinned(n, pinned)
    BY <2>0, <2>4, SetPinnedShape
  <2>5. CASE \/ \E denied \in BOOLEAN : Reconcile(denied)
             \/ ReconcilePins \/ ReconcileDenied \/ ReconcileDone
             \/ \E n \in Note : ReconcileDrop(n)
    BY <2>0, <2>5, ReconcileShape, ReconcilePinsShape, ReconcileDeniedShape, ReconcileDoneShape,
       ReconcileDropShape
  <2>6. CASE Transaction
    BY <2>0, <2>6, RunAskShape, RunOpenShape, RunMeasureShape, RunSizeShape, RunEvictListShape,
       RunEvictDeleteShape, RunCatalogListShape, RunCatalogDeleteShape, RunClearShape DEF Transaction
  <2>7. CASE \E notes \in SUBSET Note : ChangeAccess(notes)
    BY <2>0, <2>7, ChangeAccessShape
  <2>8. CASE Quit
    BY <2>0, <2>8, QuitShape
  <2> QED
    BY <1>2, <2>1, <2>2, <2>3, <2>4, <2>5, <2>6, <2>7, <2>8 DEF Next, Step
<1> QED
  BY <1>1, <1>2

LEMMA ShapeInvariant == Spec => []ShapeInv
BY ShapeInit, ShapeNext, PTL DEF Spec

(* Every state of the device has its types: a note has one record at most, only records
   say that something is unsent, and every call is one of the device's callers. *)
THEOREM ReplicaTyped == Spec => []TypeOK
BY ShapeInvariant, ShapeTyped, PTL

-----------------------------------------------------------------------------
(* What was revoked stays gone.  A session that is not revoked is of a note the last
   answer lists, or is younger than it; a record is of such a note, or is still to be
   deleted. *)
Gone ==
  /\ \A p \in Pane : pane[p].phase # "closed" /\ ~pane[p].revoked =>
       pane[p].note \in catalog.answer \cup late
  /\ catalog.pc \in {"pins", "drop", "delete"} /\ ~catalog.denied =>
       Residents \subseteq catalog.answer \cup late \cup catalog.todo
  /\ catalog.pc = "idle" \/ (catalog.pc = "drop" /\ catalog.denied) =>
       Residents \subseteq catalog.answer \cup late

(* The parts of a report that do not depend on what is told. *)
LEMMA ReportKeeps ==
  ASSUME PanesShape, NEW p \in Pane, NEW now \in Session, Report(p, now)
  PROVE  /\ \A r \in Pane \ {p} : pane'[r] = pane[r]
         /\ pane'[p].note = now.note /\ pane'[p].phase = now.phase
         /\ pane'[p].resident = now.resident /\ pane'[p].covered = now.covered
         /\ pane'[p].doc = now.doc /\ pane'[p].pending = now.pending
         /\ pane'[p].synced = now.synced /\ pane'[p].attached = now.attached
         /\ pane'[p].revoked = now.revoked
<1> DEFINE next == IF now.pending # {} THEN "dirty"
                   ELSE IF now.synced THEN "clean" ELSE "unknown"
<1>1. next \in Flags
  BY DEF Flags
<1>2. \/ pane' = [pane EXCEPT ![p] = [now EXCEPT !.opened = TRUE, !.dirty = next, !.sweep = "opening"]]
      \/ pane' = [pane EXCEPT ![p] = [now EXCEPT !.dirty = next]]
      \/ pane' = [pane EXCEPT ![p] = now]
  BY DEF Report
<1>3. PICK q : /\ pane' = [pane EXCEPT ![p] = q]
               /\ \/ q = [now EXCEPT !.opened = TRUE, !.dirty = next, !.sweep = "opening"]
                  \/ q = [now EXCEPT !.dirty = next]
                  \/ q = now
  BY <1>2
<1> HIDE DEF next
<1>4. /\ q.note = now.note /\ q.phase = now.phase
      /\ q.resident = now.resident /\ q.covered = now.covered
      /\ q.doc = now.doc /\ q.pending = now.pending
      /\ q.synced = now.synced /\ q.attached = now.attached
      /\ q.revoked = now.revoked
  BY <1>1, <1>3 DEF Session
<1>5. pane'[p] = q /\ \A r \in Pane \ {p} : pane'[r] = pane[r]
  BY <1>3 DEF PanesShape
<1> QED
  BY <1>4, <1>5

(* A pane that did not become another's or another note's. *)
Stays(q, r) == r.phase # "closed" /\ ~r.revoked => q.phase # "closed" /\ ~q.revoked /\ r.note = q.note

LEMMA GoneStays ==
  ASSUME Gone, UNCHANGED <<catalog, late>>, \A p \in Pane : Stays(pane[p], pane'[p]),
         Residents' \subseteq Residents
  PROVE  Gone'
BY DEF Gone, Stays

LEMMA ReportStays ==
  ASSUME PanesShape, NEW p \in Pane, NEW now \in Session, Report(p, now),
         pane[p].phase # "closed", now.note = pane[p].note, now.revoked = pane[p].revoked
  PROVE  \A r \in Pane : Stays(pane[r], pane'[r])
<1>1. \A r \in Pane \ {p} : pane'[r] = pane[r]
  BY ReportKeeps
<1>2. pane'[p].note = now.note /\ pane'[p].revoked = now.revoked
  BY ReportKeeps
<1> QED
  BY <1>1, <1>2 DEF Stays

(* The steps of an open pane and of the reads of the store. *)
LEMMA GonePane ==
  ASSUME ShapeInv, Gone, NEW p \in Pane,
         \/ Load(p) \/ Sync(p) \/ Acknowledge(p) \/ Settle(p) \/ MeasureSize(p)
         \/ EvictPins(p) \/ EvictDrop(p) \/ Fetched(p) \/ FetchFails(p)
         \/ \E e \in Edit : Type(p, e)
  PROVE  Gone'
<1>0. pane[p] \in Session /\ PaneShape(pane[p]) /\ pane \in [Pane -> Session]
  BY DEF ShapeInv, PanesShape
<1>t. pane[p].note \in Note =>
        server[pane[p].note] \subseteq Edit /\ body[pane[p].note] \subseteq Edit
  BY DEF ShapeInv, WorldShape
<1>1. CASE Load(p)
  <2> DEFINE now == [pane[p] EXCEPT !.phase = "open", !.attached = TRUE,
                                    !.covered = pane[p].revoked \/ ~pane[p].resident,
                                    !.doc = body[pane[p].note]]
  <2>1. pane[p].phase # "closed" /\ Report(p, now) /\ UNCHANGED <<catalog, late, stores>>
    BY <1>1 DEF Load
  <2>2. now \in Session /\ now.note = pane[p].note /\ now.revoked = pane[p].revoked
    BY <1>0, <1>t, <2>1 DEF Session, Phases, PaneShape
  <2> HIDE DEF now
  <2>3. \A r \in Pane : Stays(pane[r], pane'[r])
    BY <2>1, <2>2, ReportStays DEF ShapeInv
  <2> QED
    BY <2>1, <2>3, GoneStays DEF Residents, stores
<1>2. CASE \E e \in Edit : Type(p, e)
  <2>0. PICK e \in Edit : Type(p, e)
    BY <1>2
  <2> DEFINE now == [pane[p] EXCEPT !.doc = @ \cup {e}, !.pending = @ \cup {e}]
  <2>1. pane[p].phase # "closed" /\ Report(p, now) /\ UNCHANGED <<catalog, late, resident>>
    BY <2>0 DEF Type
  <2>2. now \in Session /\ now.note = pane[p].note /\ now.revoked = pane[p].revoked
    BY <1>0 DEF Session
  <2> HIDE DEF now
  <2>3. \A r \in Pane : Stays(pane[r], pane'[r])
    BY <2>1, <2>2, ReportStays DEF ShapeInv
  <2> QED
    BY <2>1, <2>3, GoneStays DEF Residents
<1>3. CASE Sync(p)
  <2> DEFINE n == pane[p].note
             now == [pane[p] EXCEPT !.doc = @ \cup server[n], !.synced = TRUE,
                                    !.covered = @ /\ pane[p].revoked,
                                    !.pending = pane[p].doc \ server[n]]
  <2>1. pane[p].phase # "closed" /\ Report(p, now) /\ UNCHANGED <<catalog, late, resident>>
    BY <1>3 DEF Sync
  <2>2. now \in Session /\ now.note = pane[p].note /\ now.revoked = pane[p].revoked
    BY <1>0, <1>t, <2>1 DEF Session, PaneShape
  <2> HIDE DEF now
  <2>3. \A r \in Pane : Stays(pane[r], pane'[r])
    BY <2>1, <2>2, ReportStays DEF ShapeInv
  <2> QED
    BY <2>1, <2>3, GoneStays DEF Residents
<1>4. CASE Acknowledge(p)
  <2> DEFINE now == [pane[p] EXCEPT !.pending = {}]
  <2>1. pane[p].phase # "closed" /\ Report(p, now) /\ UNCHANGED <<catalog, late, stores>>
    BY <1>4 DEF Acknowledge
  <2>2. now \in Session /\ now.note = pane[p].note /\ now.revoked = pane[p].revoked
    BY <1>0 DEF Session
  <2> HIDE DEF now
  <2>3. \A r \in Pane : Stays(pane[r], pane'[r])
    BY <2>1, <2>2, ReportStays DEF ShapeInv
  <2> QED
    BY <2>1, <2>3, GoneStays DEF Residents, stores
<1>5. CASE Settle(p)
  <2>1. \A r \in Pane : Stays(pane[r], pane'[r])
    BY <1>0, <1>5 DEF Settle, Stays, Session
  <2> QED
    BY <1>5, <2>1, GoneStays DEF Settle, Residents, stores
<1>6. CASE MeasureSize(p)
  <2>1. \A r \in Pane : Stays(pane[r], pane'[r])
    BY <1>0, <1>6 DEF MeasureSize, Stays, Session
  <2> QED
    BY <1>6, <2>1, GoneStays DEF MeasureSize, Residents, stores
<1>7. CASE EvictPins(p)
  <2>1. \A r \in Pane : Stays(pane[r], pane'[r])
    BY <1>0, <1>7 DEF EvictPins, Stays, Session
  <2> QED
    BY <1>7, <2>1, GoneStays DEF EvictPins, Residents, stores
<1>8. CASE EvictDrop(p)
  <2>1. \A r \in Pane : Stays(pane[r], pane'[r])
    BY <1>0, <1>8 DEF EvictDrop, DropBody, Stays, Session
  <2> QED
    BY <1>8, <2>1, GoneStays DEF EvictDrop, Residents
<1>9. CASE Fetched(p)
  <2>0. \/ pane' = [pane EXCEPT ![p] = Closed]
        \/ pane' = [pane EXCEPT ![p].phase = "fetched"]
    BY <1>9 DEF Fetched
  <2>a. pane[p].phase # "closed"
    BY <1>9 DEF Fetched
  <2>b. ASSUME pane' = [pane EXCEPT ![p] = Closed]
        PROVE  \A r \in Pane : Stays(pane[r], pane'[r])
    BY <1>0, <2>b, ClosedTyped DEF Stays
  <2>c. ASSUME pane' = [pane EXCEPT ![p].phase = "fetched"]
        PROVE  \A r \in Pane : Stays(pane[r], pane'[r])
    BY <1>0, <2>a, <2>c DEF Stays, Session
  <2>1. \A r \in Pane : Stays(pane[r], pane'[r])
    BY <2>0, <2>b, <2>c
  <2> QED
    BY <1>9, <2>1, GoneStays DEF Fetched, Residents
<1>10. CASE FetchFails(p)
  <2>1. \A r \in Pane : Stays(pane[r], pane'[r])
    BY <1>0, <1>10, ClosedTyped DEF FetchFails, Stays, Session
  <2> QED
    BY <1>10, <2>1, GoneStays DEF FetchFails, Residents, stores
<1> QED
  BY <1>1, <1>2, <1>3, <1>4, <1>5, <1>6, <1>7, <1>8, <1>9, <1>10

(* A session opens, for a note that is late from then on. *)
LEMMA GoneOpens ==
  ASSUME ShapeInv, Gone, NEW p \in Pane, NEW n \in Note, Open(p, n) \/ Prefetch(p, n)
  PROVE  Gone'
<1>1. /\ late' = late \cup {n} /\ UNCHANGED <<catalog, resident>>
      /\ \A r \in Pane \ {p} : pane'[r] = pane[r]
      /\ pane'[p].note = n
  BY DEF Open, Prefetch, stores, ShapeInv, PanesShape, Closed
<1>2. Residents' = Residents
  BY <1>1 DEF Residents
<1> QED
  BY <1>1, <1>2 DEF Gone

(* The reconciliation. *)
LEMMA GoneReconciles ==
  ASSUME ShapeInv, Gone,
         \/ \E denied \in BOOLEAN : Reconcile(denied)
         \/ ReconcilePins \/ ReconcileDenied \/ ReconcileDone
         \/ \E n \in Note : ReconcileDrop(n)
  PROVE  Gone'
<1>0. pane \in [Pane -> Session]
  BY DEF ShapeInv, PanesShape
<1>1. ASSUME NEW denied \in BOOLEAN, Reconcile(denied) PROVE Gone'
  <2> DEFINE answer == IF denied THEN {} ELSE readable
  <2>1. /\ catalog' = [pc |-> "list", denied |-> denied, answer |-> answer,
                       todo |-> {pane[p].note : p \in Revoked(answer)}]
        /\ pane' = [p \in Pane |->
             IF p \in Revoked(answer) THEN [pane[p] EXCEPT !.revoked = TRUE] ELSE pane[p]]
    BY <1>1 DEF Reconcile
  <2> HIDE DEF answer
  <2>2. catalog'.pc = "list" /\ catalog'.answer = answer
    BY <2>1
  <2>3. ASSUME NEW p \in Pane, pane'[p].phase # "closed", ~pane'[p].revoked
        PROVE  pane'[p].note \in answer
    BY <1>0, <2>1, <2>3 DEF Revoked, Session
  <2> QED
    BY <2>2, <2>3 DEF Gone
<1>2. CASE ReconcilePins
  <2>1. catalog' = [catalog EXCEPT !.pc = "drop"] /\ UNCHANGED <<pane, resident, late>>
        /\ catalog.pc = "pins" /\ ~catalog.denied
    BY <1>2 DEF ReconcilePins, ShapeInv, CatalogShape
  <2> QED
    BY <2>1 DEF Gone, Residents, ShapeInv, CatalogShape
<1>3. CASE ReconcileDenied
  <2>1. catalog' = [catalog EXCEPT !.pc = "delete"] /\ UNCHANGED <<pane, resident, late>>
        /\ catalog.denied
    BY <1>3 DEF ReconcileDenied, ShapeInv, CatalogShape, stores
  <2> QED
    BY <2>1 DEF Gone, Residents, ShapeInv, CatalogShape
<1>4. CASE ReconcileDone
  <2>1. catalog' = [catalog EXCEPT !.pc = "idle"] /\ UNCHANGED <<pane, resident, late>>
        /\ catalog.todo = {} /\ catalog.pc = "drop" /\ catalog.denied \in BOOLEAN
    BY <1>4 DEF ReconcileDone, ShapeInv, CatalogShape, stores
  <2>2. Residents \subseteq catalog.answer \cup late
    BY <2>1 DEF Gone
  <2> QED
    BY <2>1, <2>2 DEF Gone, Residents, ShapeInv, CatalogShape
<1>5. ASSUME NEW n \in Note, ReconcileDrop(n) PROVE Gone'
  <2>1. \A p \in Pane : Stays(pane[p], pane'[p])
    BY <1>0, <1>5 DEF ReconcileDrop, DropBody, Stays, Session
  <2>2. UNCHANGED <<late, resident>> /\ catalog.pc = "drop"
    BY <1>5 DEF ReconcileDrop
  <2>3. Residents' = Residents
    BY <2>2 DEF Residents
  <2>4. \A p \in Pane : pane'[p].phase # "closed" /\ ~pane'[p].revoked =>
          pane'[p].note \in catalog.answer \cup late
    BY <2>1 DEF Gone, Stays
  <2>5. CASE catalog.denied
    <3>1. catalog' = [catalog EXCEPT !.todo = @ \ {n}]
      BY <1>5, <2>5 DEF ReconcileDrop
    <3> QED
      BY <2>2, <2>3, <2>4, <2>5, <3>1 DEF Gone, ShapeInv, CatalogShape
  <2>6. CASE ~catalog.denied
    <3>1. catalog' = [catalog EXCEPT !.pc = "delete"]
      BY <1>5, <2>6 DEF ReconcileDrop
    <3> QED
      BY <2>2, <2>3, <2>4, <2>6, <3>1 DEF Gone, ShapeInv, CatalogShape
  <2> QED
    BY <2>5, <2>6
<1> QED
  BY <1>1, <1>2, <1>3, <1>4, <1>5

LEMMA GoneTransactions == ASSUME ShapeInv, Gone, Transaction PROVE Gone'
<1> DEFINE c == Head(calls)
<1>0. pane \in [Pane -> Session] /\ RecordShape /\ \A p \in Pane : PaneShape(pane[p])
  BY DEF ShapeInv, PanesShape
<1>1. CASE RunAsk
  <2>1. c.by \in Pane /\ Posted(c, PaneStands(pane[c.by])) /\ c.op = "ask"
    BY <1>1, NextCall DEF RunAsk, Run
  <2>2. pane[c.by].phase = "asking"
    BY <1>0, <2>1 DEF Posted, PaneStands, PaneAwaits, PaneShape
  <2>3. \A p \in Pane : Stays(pane[p], pane'[p])
    BY <1>0, <1>1, <2>1, <2>2 DEF RunAsk, Stays, Session
  <2> QED
    BY <1>1, <2>3, GoneStays DEF RunAsk, Residents, stores
<1>2. CASE RunOpen
  <2>1. c.by \in Pane /\ Posted(c, PaneStands(pane[c.by])) /\ c.op = "open" /\ c \in Call
        /\ c.note = pane[c.by].note /\ c.note \in Note
    BY <1>2, NextCall DEF RunOpen, Run
  <2>2. Opened(c.by, c.note, c.dirty) /\ UNCHANGED <<catalog, late>> /\ c.dirty \in Flags
    BY <1>2, <2>1 DEF RunOpen, Call
  <2>3. Residents' = IF Current(c.by) THEN Residents \cup {c.note} ELSE Residents
    BY <1>0, <2>1, <2>2, OpenedParts
  <2>4. pane[c.by].phase # "closed"
    BY <1>0, <2>1, NamesAssumption DEF PaneShape, Closed
  <2>5. Current(c.by) => c.note \in catalog.answer \cup late
    BY <2>1, <2>4 DEF Current, Gone
  <2>6. \A p \in Pane : Stays(pane[p], pane'[p])
    BY <1>0, <1>2, <2>1, <2>4, ClosedTyped DEF RunOpen, Stays, Session
  <2>7. \A p \in Pane : pane'[p].phase # "closed" /\ ~pane'[p].revoked =>
          pane'[p].note \in catalog.answer \cup late
    BY <2>6 DEF Gone, Stays
  <2> QED
    BY <2>2, <2>3, <2>5, <2>7 DEF Gone
<1>3. CASE RunMeasure
  <2>1. UNCHANGED <<resident, pane, catalog, late>>
    BY <1>3 DEF RunMeasure, Measured
  <2> QED
    BY <2>1 DEF Gone, Residents
<1>4. CASE RunSize
  <2>1. c.by \in Pane
    BY <1>4, NextCall DEF RunSize, Run
  <2>2. \A p \in Pane : Stays(pane[p], pane'[p])
    BY <1>0, <1>4, <2>1, ClosedTyped DEF RunSize, Stays
  <2> QED
    BY <1>4, <2>2, GoneStays DEF RunSize, Residents, stores
<1>5. CASE RunEvictList
  <2>1. \A p \in Pane : Stays(pane[p], pane'[p])
    BY <1>0, <1>5 DEF RunEvictList, Stays, Session
  <2> QED
    BY <1>5, <2>1, GoneStays DEF RunEvictList, Residents, stores
<1>6. CASE RunEvictDelete
  <2>1. \A p \in Pane : Stays(pane[p], pane'[p])
    BY <1>0, <1>6 DEF RunEvictDelete, Stays, Session
  <2>2. Residents' = Residents \ {c.note}
    BY <1>0, <1>6, DeletedParts DEF RunEvictDelete
  <2> QED
    BY <1>6, <2>1, <2>2, GoneStays DEF RunEvictDelete
<1>7. CASE RunCatalogList
  <2>1. /\ catalog' = [catalog EXCEPT !.todo = @ \cup (Residents \ catalog.answer),
                                      !.pc = IF catalog.denied THEN "clear" ELSE "pins"]
        /\ UNCHANGED <<resident, pane, late>>
    BY <1>7 DEF RunCatalogList, stores
  <2>2. Residents' = Residents
    BY <2>1 DEF Residents
  <2> QED
    BY <2>1, <2>2 DEF Gone, ShapeInv, CatalogShape
<1>8. CASE RunCatalogDelete
  <2>1. /\ catalog' = [catalog EXCEPT !.todo = @ \ {c.note}, !.pc = "drop"]
        /\ UNCHANGED <<pane, late>> /\ c.by = "catalog" /\ c.op = "delete"
    BY <1>8 DEF RunCatalogDelete, Run
  <2>2. Residents' = Residents \ {c.note}
    BY <1>0, <1>8, DeletedParts DEF RunCatalogDelete
  <2>3. Posted(c, CatalogStands(catalog))
    BY <1>8, <2>1, NextCall DEF RunCatalogDelete, Run
  <2>4. catalog.pc = "delete" /\ ~catalog.denied
    BY <2>1, <2>3 DEF Posted, CatalogStands, CatalogAwaits, ShapeInv, CatalogShape
  <2> QED
    BY <2>1, <2>2, <2>4 DEF Gone, ShapeInv, CatalogShape
<1>9. CASE RunClear
  <2>1. /\ catalog' = [catalog EXCEPT !.pc = "drop"] /\ resident' = <<>>
        /\ UNCHANGED <<pane, late>>
    BY <1>9 DEF RunClear
  <2>2. Residents' = {}
    BY <2>1 DEF Residents
  <2> QED
    BY <2>1, <2>2 DEF Gone, ShapeInv, CatalogShape
<1> QED
  BY <1>1, <1>2, <1>3, <1>4, <1>5, <1>6, <1>7, <1>8, <1>9 DEF Transaction

LEMMA GoneNext == ASSUME ShapeInv, Gone, [Next]_vars PROVE Gone'
<1>1. CASE UNCHANGED vars
  BY <1>1 DEF Gone, Residents, vars, stores
<1>2. CASE \E n \in Note, pinned \in BOOLEAN : SetPinned(n, pinned)
  BY <1>2 DEF Gone, Residents, SetPinned
<1>3. CASE \E notes \in SUBSET Note : ChangeAccess(notes)
  BY <1>3 DEF Gone, Residents, ChangeAccess, stores
<1>4. CASE Quit
  <2>1. Residents \subseteq Note
    <3>1. resident \in Seq(Note)
      BY DEF ShapeInv, RecordShape, Recorded
    <3> QED
      BY <3>1, LenProperties DEF Residents
  <2> QED
    BY <1>4, <2>1, ClosedTyped DEF Gone, Residents, Quit, stores
<1> QED
  BY <1>1, <1>2, <1>3, <1>4, GonePane, GoneOpens, GoneReconciles, GoneTransactions DEF Next, Step

(* No session that a reconciliation found unreadable brings its record back after the
   purge, at whatever point it was and however its calls were queued. *)
THEOREM RevokedAreGone == Spec => []RevokedStaysGone
<1>1. Init => Gone
  BY ClosedTyped DEF Init, Gone, Residents
<1>2. ShapeInv /\ Gone /\ [Next]_vars => Gone'
  BY GoneNext
<1>3. Gone => RevokedStaysGone
  BY DEF Gone, RevokedStaysGone
<1> QED
  BY <1>1, <1>2, <1>3, ShapeInvariant, PTL DEF Spec

-----------------------------------------------------------------------------
(* A record that says nothing is unsent is right about it, where no note is in two panes
   (two sessions on one record overwrite each other's word). *)
OnePaneEach == Shared = FALSE

Shown == {"open", "settling", "measuring"}
Occupies(q) == q.phase \in {"asking", "loading"} \cup Shown
Unsent(B, S, n) == ~(B[n] \subseteq S[n])
Said(q) == IF q.pending # {} THEN "dirty" ELSE IF q.synced THEN "clean" ELSE "unknown"

(* Calls that touch the record of a note, or of a session. *)
Deletes(cs, n) == \E i \in 1..Len(cs) : cs[i].op = "delete" /\ cs[i].note = n
DeletedBy(cs, b, n) ==
  \E i \in 1..Len(cs) : cs[i].op = "delete" /\ cs[i].by = b /\ cs[i].note = n
DeletesBeforeOpen(cs, p, n) ==
  \A i \in 1..Len(cs) : cs[i].op = "delete" /\ cs[i].note = n =>
    \E j \in 1..Len(cs) : i < j /\ cs[j].op = "open" /\ cs[j].by = p
Opens(cs, p) == \E i \in 1..Len(cs) : cs[i].op = "open" /\ cs[i].by = p
SaysDirty(cs, p) == \E i \in 1..Len(cs) : cs[i].by = p /\ cs[i].dirty = "dirty"
EndsDirty(cs, p) ==
  \A i \in 1..Len(cs) : cs[i].by = p /\ cs[i].op \in {"open", "measure"} =>
    \E j \in 1..Len(cs) : i <= j /\ cs[j].by = p /\ cs[j].dirty = "dirty"

(* The reconciliation reads the records before any session asks that it left alone. *)
ListsFirst(cs, P) ==
  \E j \in 1..Len(cs) : /\ cs[j].op = "list" /\ cs[j].by = "catalog"
                        /\ \A i \in 1..Len(cs) : i < j /\ cs[i].op = "ask" => P[cs[i].by].revoked

(* Only a session that has opened its note says anything of it, and "clean" only after
   the server's state. *)
CallTrue(c, P) ==
  c.dirty # "unknown" =>
    /\ c.op \in {"open", "measure"} /\ c.by \in Pane /\ P[c.by].opened
    /\ c.dirty = "clean" => P[c.by].synced
CallsTrue(cs, P) == \A i \in 1..Len(cs) : CallTrue(cs[i], P)

(* Notes whose bodies the reconciliation has still to drop. *)
Going == {n \in catalog.todo : ~DeletedBy(calls, "catalog", n)}

(* A session whose accounting counts. *)
Live(q, G) == q.phase \in Shown /\ q.opened /\ q.attached /\ ~q.revoked /\ q.note \notin G

(* What a session says of its document is true of it, and so is what it does not say. *)
SessionTrue(q, S) ==
  /\ q.phase \notin Shown => q.pending = {} /\ ~q.synced /\ ~q.opened
  /\ q.phase \notin Shown /\ q.phase # "loading" => ~q.resident
  /\ q.phase \in Shown /\ ~q.revoked =>
       /\ q.opened <=> q.resident \/ q.synced
       /\ q.opened => q.dirty = Said(q)
       /\ ~q.covered => q.opened
  /\ q.phase \in Shown /\ q.synced => q.doc \subseteq S[q.note] \cup q.pending

(* The body holds what the pane shows; a body that was dropped under a pane was sent. *)
BodyTrue(q, B, S, G) ==
  q.phase \in Shown =>
    /\ q.attached => B[q.note] \subseteq q.doc \cup S[q.note]
    /\ ~q.attached => ~Unsent(B, S, q.note)
    /\ q.revoked /\ ~q.covered /\ q.attached => q.note \in G

(* The record of a live session is there, or will be; if the session is dirty, the record
   says so, or will, and no call after that takes it back. *)
Counted(p, q, cs, R, U) ==
  /\ DeletesBeforeOpen(cs, p, q.note)
  /\ Opens(cs, p) \/ q.note \in R
  /\ q.dirty = "dirty" => EndsDirty(cs, p) /\ (q.note \in U \/ SaysDirty(cs, p))

LiveDirty(P, G, n) == \E p \in Pane : Live(P[p], G) /\ P[p].note = n /\ P[p].dirty = "dirty"
RecordTrue(n, B, S, G, P, cs, U) ==
  Unsent(B, S, n) /\ n \notin G => LiveDirty(P, G, n) \/ (n \in U /\ ~Deletes(cs, n))

Sessions == \A p \in Pane : SessionTrue(pane[p], server)
Bodies == \A p \in Pane : BodyTrue(pane[p], body, server, Going)
Accounts == \A p \in Pane : Live(pane[p], Going) => Counted(p, pane[p], calls, Residents, unsynced)
OneEach == \A p, q \in Pane :
  Occupies(pane[p]) /\ Occupies(pane[q]) /\ pane[p].note = pane[q].note => p = q
Records == \A n \in Note : RecordTrue(n, body, server, Going, pane, calls, unsynced)

(* After a denial: every note that still has a record is going. *)
DenialTrue ==
  catalog.denied /\ catalog.pc # "idle" =>
    /\ readable = {} /\ catalog.answer = {}
    /\ \A p \in Pane : ~pane[p].revoked => ~pane[p].synced /\ pane[p].phase # "fetched"
    /\ catalog.pc = "list" =>
         /\ \A p \in Pane : ~pane[p].revoked => pane[p].phase \in {"closed", "asking", "fetching"}
         /\ ListsFirst(calls, pane)
    /\ catalog.pc \in {"clear", "delete"} =>
         /\ Residents \subseteq catalog.todo
         /\ \A p \in Pane : ~pane[p].revoked /\ pane[p].resident => pane[p].note \in catalog.todo

Truth ==
  Sessions /\ Bodies /\ Accounts /\ OneEach /\ CallsTrue(calls, pane) /\ Records /\ DenialTrue

-----------------------------------------------------------------------------
(* What a call that is made, and one that runs, change of the sequence of calls. *)
LEMMA AppendCalls ==
  ASSUME NEW cs \in Seq(Call), NEW c \in Call
  PROVE  LET s == Append(cs, c) IN
         /\ \A n : Deletes(s, n) => Deletes(cs, n) \/ (c.op = "delete" /\ c.note = n)
         /\ \A b, n : DeletedBy(s, b, n) <=>
                        DeletedBy(cs, b, n) \/ (c.op = "delete" /\ c.by = b /\ c.note = n)
         /\ \A p, n : \/ c.op = "open" /\ c.by = p
                      \/ DeletesBeforeOpen(cs, p, n) /\ ~(c.op = "delete" /\ c.note = n)
                      => DeletesBeforeOpen(s, p, n)
         /\ \A p : Opens(cs, p) \/ (c.op = "open" /\ c.by = p) => Opens(s, p)
         /\ \A p : SaysDirty(cs, p) \/ (c.by = p /\ c.dirty = "dirty") => SaysDirty(s, p)
         /\ \A p : \/ c.by = p /\ c.dirty = "dirty"
                   \/ EndsDirty(cs, p) /\ ~(c.by = p /\ c.op \in {"open", "measure"})
                   => EndsDirty(s, p)
<1> DEFINE s == Append(cs, c)
           L == Len(cs)
<1>1. /\ L \in Nat /\ Len(s) = L + 1 /\ s[L + 1] = c
      /\ \A i \in 1..L : s[i] = cs[i]
  BY LenProperties, AppendProperties
<1> HIDE DEF s, L
<1>2. /\ \A i \in 1..Len(s) : i \in 1..L \/ i = L + 1
      /\ \A i \in 1..L : i \in 1..Len(s) /\ i < L + 1
      /\ L + 1 \in 1..Len(s)
      /\ \A i \in 1..Len(s) : i <= L + 1
  BY <1>1
<1>3. \A n : Deletes(s, n) => Deletes(cs, n) \/ (c.op = "delete" /\ c.note = n)
  BY <1>1, <1>2 DEF Deletes, L
<1>4. \A b, n : DeletedBy(s, b, n) <=>
                  DeletedBy(cs, b, n) \/ (c.op = "delete" /\ c.by = b /\ c.note = n)
  BY <1>1, <1>2 DEF DeletedBy, L
<1>5. \A p, n : c.op = "open" /\ c.by = p => DeletesBeforeOpen(s, p, n)
  <2> SUFFICES ASSUME NEW p, NEW n, c.op = "open", c.by = p PROVE DeletesBeforeOpen(s, p, n)
    OBVIOUS
  <2>1. \A i \in 1..Len(s) : s[i].op = "delete" => i \in 1..L
    BY <1>1, <1>2
  <2> QED
    BY <1>1, <1>2, <2>1 DEF DeletesBeforeOpen
<1>6. \A p, n : DeletesBeforeOpen(cs, p, n) /\ ~(c.op = "delete" /\ c.note = n) =>
                  DeletesBeforeOpen(s, p, n)
  BY <1>1, <1>2 DEF DeletesBeforeOpen, L
<1>7. \A p : Opens(cs, p) \/ (c.op = "open" /\ c.by = p) => Opens(s, p)
  BY <1>1, <1>2 DEF Opens, L
<1>8. \A p : SaysDirty(cs, p) \/ (c.by = p /\ c.dirty = "dirty") => SaysDirty(s, p)
  BY <1>1, <1>2 DEF SaysDirty, L
<1>9. \A p : c.by = p /\ c.dirty = "dirty" => EndsDirty(s, p)
  BY <1>1, <1>2 DEF EndsDirty
<1>10. \A p : EndsDirty(cs, p) /\ ~(c.by = p /\ c.op \in {"open", "measure"}) => EndsDirty(s, p)
  BY <1>1, <1>2 DEF EndsDirty, L
<1> QED
  BY <1>3, <1>4, <1>5, <1>6, <1>7, <1>8, <1>9, <1>10 DEF s

LEMMA TailCalls ==
  ASSUME NEW cs \in Seq(Call), cs # <<>>
  PROVE  LET t == Tail(cs)
             c == Head(cs)
         IN
         /\ \A n : Deletes(t, n) => Deletes(cs, n)
         /\ \A b, n : DeletedBy(cs, b, n) <=>
                        DeletedBy(t, b, n) \/ (c.op = "delete" /\ c.by = b /\ c.note = n)
         /\ \A p, n : DeletesBeforeOpen(cs, p, n) => DeletesBeforeOpen(t, p, n)
         /\ \A p, n : DeletesBeforeOpen(cs, p, n) /\ c.op = "delete" /\ c.note = n => Opens(t, p)
         /\ \A p : Opens(cs, p) => Opens(t, p) \/ (c.op = "open" /\ c.by = p)
         /\ \A p : SaysDirty(cs, p) => SaysDirty(t, p) \/ (c.by = p /\ c.dirty = "dirty")
         /\ \A p : EndsDirty(cs, p) => EndsDirty(t, p)
         /\ \A p : EndsDirty(cs, p) /\ c.by = p /\ c.op \in {"open", "measure"}
                     /\ c.dirty # "dirty" => SaysDirty(t, p)
<1> DEFINE t == Tail(cs)
           c == Head(cs)
           L == Len(cs)
<1>1. /\ c = cs[1] /\ L \in Nat /\ 1 \in 1..L /\ Len(t) = L - 1
      /\ \A i \in 1..Len(t) : t[i] = cs[i + 1]
  BY TailParts
<1> HIDE DEF t, c, L
<1>2. /\ \A i \in 1..Len(t) : i + 1 \in 1..L
      /\ \A i \in 1..L : i # 1 => i - 1 \in 1..Len(t) /\ (i - 1) + 1 = i
  BY <1>1
<1>3. \A i \in 1..L : i # 1 => t[i - 1] = cs[i]
  BY <1>1, <1>2
<1>4. \A n : Deletes(t, n) => Deletes(cs, n)
  BY <1>1, <1>2 DEF Deletes, L
<1>5. \A b, n : DeletedBy(cs, b, n) <=>
                  DeletedBy(t, b, n) \/ (c.op = "delete" /\ c.by = b /\ c.note = n)
  <2> SUFFICES ASSUME NEW b, NEW n
               PROVE  DeletedBy(cs, b, n) <=>
                        DeletedBy(t, b, n) \/ (c.op = "delete" /\ c.by = b /\ c.note = n)
    OBVIOUS
  <2>1. DeletedBy(cs, b, n) => DeletedBy(t, b, n) \/ (c.op = "delete" /\ c.by = b /\ c.note = n)
    BY <1>1, <1>2, <1>3 DEF DeletedBy, L
  <2>2. DeletedBy(t, b, n) => DeletedBy(cs, b, n)
    BY <1>1, <1>2 DEF DeletedBy, L
  <2>3. c.op = "delete" /\ c.by = b /\ c.note = n => DeletedBy(cs, b, n)
    BY <1>1 DEF DeletedBy, L
  <2> QED
    BY <2>1, <2>2, <2>3
<1>6. ASSUME NEW p, NEW n, NEW i \in 1..L, DeletesBeforeOpen(cs, p, n),
             cs[i].op = "delete", cs[i].note = n
      PROVE  \E j \in 1..Len(t) : i <= j /\ t[j].op = "open" /\ t[j].by = p
  <2>1. PICK j \in 1..L : i < j /\ cs[j].op = "open" /\ cs[j].by = p
    BY <1>6 DEF DeletesBeforeOpen, L
  <2>2. j # 1 /\ i <= j - 1
    BY <1>1, <2>1
  <2> QED
    BY <1>2, <1>3, <2>1, <2>2
<1>7. \A p, n : DeletesBeforeOpen(cs, p, n) => DeletesBeforeOpen(t, p, n)
  <2> SUFFICES ASSUME NEW p, NEW n, DeletesBeforeOpen(cs, p, n) PROVE DeletesBeforeOpen(t, p, n)
    OBVIOUS
  <2>1. ASSUME NEW i \in 1..Len(t), t[i].op = "delete", t[i].note = n
        PROVE  \E j \in 1..Len(t) : i < j /\ t[j].op = "open" /\ t[j].by = p
    <3>1. i + 1 \in 1..L /\ cs[i + 1].op = "delete" /\ cs[i + 1].note = n
      BY <1>1, <1>2, <2>1
    <3>2. PICK j \in 1..Len(t) : i + 1 <= j /\ t[j].op = "open" /\ t[j].by = p
      BY <1>6, <3>1
    <3>3. i < j
      BY <1>1, <3>2
    <3> QED
      BY <3>2, <3>3
  <2> QED
    BY <2>1 DEF DeletesBeforeOpen
<1>8. \A p, n : DeletesBeforeOpen(cs, p, n) /\ c.op = "delete" /\ c.note = n => Opens(t, p)
  BY <1>1, <1>6 DEF Opens
<1>9. \A p : Opens(cs, p) => Opens(t, p) \/ (c.op = "open" /\ c.by = p)
  BY <1>1, <1>2, <1>3 DEF Opens, L
<1>10. \A p : SaysDirty(cs, p) => SaysDirty(t, p) \/ (c.by = p /\ c.dirty = "dirty")
  BY <1>1, <1>2, <1>3 DEF SaysDirty, L
<1>11. \A p : EndsDirty(cs, p) => EndsDirty(t, p)
  <2> SUFFICES ASSUME NEW p, EndsDirty(cs, p), NEW i \in 1..Len(t),
                      t[i].by = p, t[i].op \in {"open", "measure"}
               PROVE  \E j \in 1..Len(t) : i <= j /\ t[j].by = p /\ t[j].dirty = "dirty"
    BY DEF EndsDirty
  <2>1. i + 1 \in 1..L /\ cs[i + 1].by = p /\ cs[i + 1].op \in {"open", "measure"}
    BY <1>1, <1>2
  <2>2. PICK j \in 1..L : i + 1 <= j /\ cs[j].by = p /\ cs[j].dirty = "dirty"
    BY <2>1 DEF EndsDirty, L
  <2>3. j # 1 /\ i <= j - 1
    BY <1>1, <2>2
  <2> QED
    BY <1>2, <1>3, <2>2, <2>3
<1>12. \A p : EndsDirty(cs, p) /\ c.by = p /\ c.op \in {"open", "measure"} /\ c.dirty # "dirty" =>
                SaysDirty(t, p)
  <2> SUFFICES ASSUME NEW p, EndsDirty(cs, p), c.by = p, c.op \in {"open", "measure"},
                      c.dirty # "dirty"
               PROVE  SaysDirty(t, p)
    OBVIOUS
  <2>1. PICK j \in 1..L : cs[j].by = p /\ cs[j].dirty = "dirty"
    BY <1>1 DEF EndsDirty, L
  <2>2. j # 1
    BY <1>1, <2>1
  <2> QED
    BY <1>2, <1>3, <2>1, <2>2 DEF SaysDirty
<1> QED
  BY <1>4, <1>5, <1>7, <1>8, <1>9, <1>10, <1>11, <1>12 DEF t, c

LEMMA ListsCalls ==
  ASSUME NEW cs \in Seq(Call), NEW P, NEW Q, ListsFirst(cs, P),
         \A i \in 1..Len(cs) :
           cs[i].op = "ask" /\ P[cs[i].by].revoked => Q[cs[i].by].revoked
  PROVE  /\ ListsFirst(cs, Q)
         /\ \A c \in Call : ListsFirst(Append(cs, c), Q)
         /\ ~(Head(cs).op = "list" /\ Head(cs).by = "catalog") => ListsFirst(Tail(cs), Q)
         /\ Head(cs).op = "ask" => cs # <<>> /\ P[Head(cs).by].revoked
<1>0. PICK j \in 1..Len(cs) : /\ cs[j].op = "list" /\ cs[j].by = "catalog"
                              /\ \A i \in 1..Len(cs) : i < j /\ cs[i].op = "ask" =>
                                                         P[cs[i].by].revoked
  BY DEF ListsFirst
<1>1. ListsFirst(cs, Q)
  BY <1>0 DEF ListsFirst
<1>2. ASSUME NEW c \in Call PROVE ListsFirst(Append(cs, c), Q)
  <2> DEFINE s == Append(cs, c)
  <2>1. /\ Len(cs) \in Nat /\ Len(s) = Len(cs) + 1 /\ \A i \in 1..Len(cs) : s[i] = cs[i]
    BY LenProperties, AppendProperties
  <2> HIDE DEF s
  <2>2. j \in 1..Len(s) /\ s[j] = cs[j]
    BY <2>1
  <2>3. \A i \in 1..Len(s) : i < j => i \in 1..Len(cs) /\ s[i] = cs[i]
    BY <2>1
  <2>4. ListsFirst(s, Q)
    BY <1>0, <2>2, <2>3 DEF ListsFirst
  <2> QED
    BY <2>4 DEF s
<1>3. cs # <<>> /\ Len(cs) \in Nat
  BY LenProperties
<1> DEFINE t == Tail(cs)
<1>4. /\ Head(cs) = cs[1] /\ 1 \in 1..Len(cs) /\ Len(t) = Len(cs) - 1
      /\ \A i \in 1..Len(t) : t[i] = cs[i + 1]
  BY <1>3, TailParts
<1> HIDE DEF t
<1>5. ASSUME ~(Head(cs).op = "list" /\ Head(cs).by = "catalog") PROVE ListsFirst(t, Q)
  <2>1. j # 1
    BY <1>0, <1>4, <1>5
  <2>2. j - 1 \in 1..Len(t) /\ t[j - 1] = cs[j]
    BY <1>3, <1>4, <2>1
  <2>3. ASSUME NEW i \in 1..Len(t), i < j - 1, t[i].op = "ask" PROVE Q[t[i].by].revoked
    <3>1. i + 1 \in 1..Len(cs) /\ i + 1 < j /\ t[i] = cs[i + 1]
      BY <1>3, <1>4, <2>3
    <3>2. P[cs[i + 1].by].revoked /\ cs[i + 1].op = "ask"
      BY <1>0, <2>3, <3>1
    <3> QED
      BY <3>1, <3>2
  <2>4. t[j - 1].op = "list" /\ t[j - 1].by = "catalog"
    BY <1>0, <2>2
  <2> QED
    BY <2>2, <2>3, <2>4 DEF ListsFirst
<1>6. Head(cs).op = "ask" => P[Head(cs).by].revoked
  BY <1>0, <1>3, <1>4
<1> QED
  BY <1>1, <1>2, <1>3, <1>5, <1>6 DEF t

LEMMA CallsTrueCalls ==
  ASSUME NEW cs \in Seq(Call), NEW P, NEW Q, CallsTrue(cs, P),
         \A i \in 1..Len(cs) : cs[i].by \in Pane => /\ P[cs[i].by].opened => Q[cs[i].by].opened
                                                    /\ P[cs[i].by].synced => Q[cs[i].by].synced
  PROVE  /\ CallsTrue(cs, Q)
         /\ \A c \in Call : CallTrue(c, Q) => CallsTrue(Append(cs, c), Q)
         /\ cs # <<>> => CallsTrue(Tail(cs), Q) /\ CallTrue(Head(cs), P)
<1>1. CallsTrue(cs, Q)
  BY DEF CallsTrue, CallTrue
<1>2. ASSUME NEW c \in Call, CallTrue(c, Q) PROVE CallsTrue(Append(cs, c), Q)
  <2> DEFINE s == Append(cs, c)
  <2>1. \A i \in 1..Len(s) : (i \in 1..Len(cs) /\ s[i] = cs[i]) \/ s[i] = c
    BY LenProperties, AppendProperties
  <2> HIDE DEF s
  <2>2. CallsTrue(s, Q)
    BY <1>1, <1>2, <2>1 DEF CallsTrue
  <2> QED
    BY <2>2 DEF s
<1>3. ASSUME cs # <<>> PROVE CallsTrue(Tail(cs), Q) /\ CallTrue(Head(cs), P)
  BY <1>1, <1>3, TailParts DEF CallsTrue
<1> QED
  BY <1>1, <1>2, <1>3

(* What a running call does to the account of a session, and a call that is made. *)
LEMMA CountedAppend ==
  ASSUME NEW p, NEW q, NEW r, NEW cs \in Seq(Call), NEW R, NEW U, NEW c \in Call,
         Counted(p, q, cs, R, U), r.note = q.note, r.dirty = q.dirty,
         c.op = "delete" => c.note # q.note,
         c.by = p => c.op \notin {"open", "measure"}
  PROVE  Counted(p, r, Append(cs, c), R, U)
<1> DEFINE s == Append(cs, c)
<1>1. /\ DeletesBeforeOpen(cs, p, q.note) => DeletesBeforeOpen(s, p, q.note)
      /\ Opens(cs, p) => Opens(s, p)
      /\ SaysDirty(cs, p) => SaysDirty(s, p)
      /\ EndsDirty(cs, p) => EndsDirty(s, p)
  BY AppendCalls
<1> HIDE DEF s
<1>2. Counted(p, r, s, R, U)
  BY <1>1 DEF Counted
<1> QED
  BY <1>2 DEF s

LEMMA CountedTail ==
  ASSUME NEW p, NEW q, NEW r, NEW cs \in Seq(Call), cs # <<>>, NEW R, NEW U, NEW V, NEW W,
         NEW c, c = Head(cs), Counted(p, q, cs, R, U), r.note = q.note, r.dirty = q.dirty,
         q.note \in R => q.note \in V \/ (c.op = "delete" /\ c.note = q.note),
         c.op = "open" /\ c.by = p => q.note \in V,
         q.note \in U => \/ q.note \in W
                         \/ c.op = "delete" /\ c.note = q.note
                         \/ c.by = p /\ c.op \in {"open", "measure"} /\ c.dirty # "dirty",
         c.by = p /\ c.dirty = "dirty" => q.note \in W
  PROVE  Counted(p, r, Tail(cs), V, W)
<1> DEFINE t == Tail(cs)
           n == q.note
<1>1. /\ DeletesBeforeOpen(t, p, n)
      /\ c.op = "delete" /\ c.note = n => Opens(t, p)
      /\ Opens(cs, p) => Opens(t, p) \/ (c.op = "open" /\ c.by = p)
      /\ SaysDirty(cs, p) => SaysDirty(t, p) \/ (c.by = p /\ c.dirty = "dirty")
      /\ EndsDirty(cs, p) => EndsDirty(t, p)
      /\ EndsDirty(cs, p) /\ c.by = p /\ c.op \in {"open", "measure"} /\ c.dirty # "dirty"
           => SaysDirty(t, p)
  BY TailCalls DEF Counted
<1> HIDE DEF t
<1>2. EndsDirty(t, p) /\ Opens(t, p) => SaysDirty(t, p)
  BY DEF EndsDirty, Opens, SaysDirty
<1>3. Opens(t, p) \/ n \in V
  BY <1>1 DEF Counted
<1>4. ASSUME q.dirty = "dirty" PROVE EndsDirty(t, p) /\ (n \in W \/ SaysDirty(t, p))
  BY <1>1, <1>2, <1>4 DEF Counted
<1>5. Counted(p, r, t, V, W)
  BY <1>1, <1>3, <1>4 DEF Counted
<1> QED
  BY <1>5 DEF t

(* A session goes on, perhaps revoked or cut off; one that is not shown may become another. *)
Similar(q, r) ==
  /\ r.phase \in Shown <=> q.phase \in Shown
  /\ r.phase \in Shown \/ r.phase = q.phase
  /\ r.note = q.note /\ r.resident = q.resident /\ r.covered = q.covered
  /\ r.doc = q.doc /\ r.pending = q.pending /\ r.synced = q.synced
  /\ r.opened = q.opened /\ r.dirty = q.dirty
  /\ q.revoked => r.revoked
  /\ r.attached => q.attached
Hidden(q, r) ==
  /\ q.phase \notin Shown /\ r.phase \notin Shown
  /\ r.pending = {} /\ ~r.synced /\ ~r.opened
  /\ r.phase # "loading" => ~r.resident
  /\ q.phase = "asking" /\ q.revoked => r.revoked
Follows(q, r) == Similar(q, r) \/ Hidden(q, r)

LEMMA SessionFollows ==
  ASSUME NEW q, NEW r, NEW S, NEW T, SessionTrue(q, S), Follows(q, r),
         q.phase \in Shown => S[q.note] \subseteq T[q.note]
  PROVE  /\ SessionTrue(r, T)
         /\ q.opened => r.opened
         /\ q.synced => r.synced
<1>1. CASE Similar(q, r)
  <2>1. Said(r) = Said(q)
    BY <1>1 DEF Said, Similar
  <2>2. r.phase \notin Shown => r.pending = {} /\ ~r.synced /\ ~r.opened
    BY <1>1 DEF SessionTrue, Similar
  <2>3. r.phase \notin Shown /\ r.phase # "loading" => ~r.resident
    BY <1>1 DEF SessionTrue, Similar
  <2>4. r.phase \in Shown /\ ~r.revoked =>
          /\ r.opened <=> r.resident \/ r.synced
          /\ r.opened => r.dirty = Said(r)
          /\ ~r.covered => r.opened
    BY <1>1, <2>1 DEF SessionTrue, Similar
  <2>5. r.phase \in Shown /\ r.synced => r.doc \subseteq T[r.note] \cup r.pending
    BY <1>1 DEF SessionTrue, Similar
  <2> QED
    BY <1>1, <2>2, <2>3, <2>4, <2>5 DEF SessionTrue, Similar
<1>2. CASE Hidden(q, r)
  BY <1>2 DEF SessionTrue, Hidden
<1> QED
  BY <1>1, <1>2 DEF Follows

LEMMA BodyFollows ==
  ASSUME NEW q, NEW r, NEW B, NEW C, NEW S, NEW T, NEW G, NEW H, BodyTrue(q, B, S, G),
         Follows(q, r),
         q.phase \in Shown => /\ S[q.note] \subseteq T[q.note]
                              /\ C[q.note] \subseteq B[q.note] \cup T[q.note]
                              /\ q.attached /\ ~r.attached => C[q.note] = {}
                              /\ q.note \in G /\ r.attached => q.note \in H
                              /\ r.revoked /\ ~q.revoked => q.note \in H
  PROVE  BodyTrue(r, C, T, H)
<1> SUFFICES ASSUME r.phase \in Shown PROVE BodyTrue(r, C, T, H)
  BY DEF BodyTrue
<1>1. Similar(q, r) /\ q.phase \in Shown /\ r.note = q.note
  BY DEF Follows, Hidden, Similar
<1>2. r.attached => C[r.note] \subseteq r.doc \cup T[r.note]
  BY <1>1 DEF BodyTrue, Similar
<1>3. ~r.attached => ~Unsent(C, T, r.note)
  BY <1>1 DEF BodyTrue, Similar, Unsent
<1>4. r.revoked /\ ~r.covered /\ r.attached => r.note \in H
  BY <1>1 DEF BodyTrue, Similar
<1> QED
  BY <1>2, <1>3, <1>4 DEF BodyTrue

(* The calls change by one call that says nothing, or by one that runs. *)
CallsMove ==
  \/ calls' = calls
  \/ \E c \in Call : c.dirty = "unknown" /\ calls' = Append(calls, c)
  \/ calls # <<>> /\ calls' = Tail(calls)

LEMMA CallsFollow ==
  ASSUME ShapeInv, Sessions, CallsTrue(calls, pane), CallsMove,
         \A p \in Pane : /\ pane[p].opened => pane'[p].opened
                         /\ pane[p].synced => pane'[p].synced
  PROVE  CallsTrue(calls', pane')
<1>1. calls \in Seq(Call)
  BY DEF ShapeInv, CallsShape
<1>2. /\ CallsTrue(calls, pane')
      /\ \A c \in Call : CallTrue(c, pane') => CallsTrue(Append(calls, c), pane')
      /\ calls # <<>> => CallsTrue(Tail(calls), pane')
  BY <1>1, CallsTrueCalls
<1>3. \A c \in Call : c.dirty = "unknown" => CallTrue(c, pane')
  BY DEF CallTrue
<1> QED
  BY <1>2, <1>3 DEF CallsMove

(* What going on takes to be true still. *)
LEMMA TruthFollows ==
  ASSUME ShapeInv, Sessions, Bodies, Accounts, Records, CallsTrue(calls, pane), CallsMove,
         \A p \in Pane : Follows(pane[p], pane'[p]),
         \A n \in Note : /\ server[n] \subseteq server'[n]
                         /\ body'[n] \subseteq body[n] \cup server'[n],
         \A p \in Pane : pane[p].phase \in Shown /\ pane[p].attached /\ ~pane'[p].attached =>
                           body'[pane[p].note] = {},
         \A n \in Going : \/ n \in Going'
                          \/ /\ body'[n] = {}
                             /\ \A p \in Pane : pane'[p].note = n => ~pane'[p].attached,
         \A p \in Pane : pane'[p].revoked /\ ~pane[p].revoked => pane[p].note \in Going',
         \A p \in Pane :
           /\ Live(pane[p], Going) /\ Live(pane'[p], Going')
           /\ Counted(p, pane[p], calls, Residents, unsynced)
           => Counted(p, pane'[p], calls', Residents', unsynced'),
         \A n \in unsynced :
           Unsent(body', server', n) /\ n \notin Going' /\ ~Deletes(calls, n) =>
             LiveDirty(pane, Going, n) \/ (n \in unsynced' /\ ~Deletes(calls', n))
  PROVE  Sessions' /\ Bodies' /\ Accounts' /\ Records' /\ CallsTrue(calls', pane')
<1>0. \A p \in Pane : pane[p].phase \in Shown => pane[p].note \in Note
  BY DEF ShapeInv, PanesShape, PaneShape, Shown
<1>g. Going \subseteq Note
  BY DEF Going, ShapeInv, CatalogShape
<1>1. ASSUME NEW p \in Pane
      PROVE  /\ SessionTrue(pane'[p], server')
             /\ pane[p].opened => pane'[p].opened
             /\ pane[p].synced => pane'[p].synced
  BY <1>0, SessionFollows DEF Sessions
<1>2. ASSUME NEW p \in Pane PROVE BodyTrue(pane'[p], body', server', Going')
  <2>1. /\ BodyTrue(pane[p], body, server, Going) /\ Follows(pane[p], pane'[p])
        /\ pane[p].phase \in Shown => pane'[p].note = pane[p].note
    BY DEF Bodies, Follows, Similar, Hidden
  <2>2. pane[p].phase \in Shown =>
          /\ server[pane[p].note] \subseteq server'[pane[p].note]
          /\ body'[pane[p].note] \subseteq body[pane[p].note] \cup server'[pane[p].note]
          /\ pane[p].attached /\ ~pane'[p].attached => body'[pane[p].note] = {}
          /\ pane[p].note \in Going /\ pane'[p].attached => pane[p].note \in Going'
          /\ pane'[p].revoked /\ ~pane[p].revoked => pane[p].note \in Going'
    BY <1>0, <2>1
  <2> QED
    BY <2>1, <2>2, BodyFollows
<1>3. ASSUME NEW p \in Pane, Live(pane'[p], Going')
      PROVE  Counted(p, pane'[p], calls', Residents', unsynced')
  <2>1. Similar(pane[p], pane'[p])
    BY <1>3 DEF Follows, Hidden, Live
  <2>2. pane[p].note \notin Going
    BY <1>3, <2>1 DEF Live, Similar
  <2>3. Live(pane[p], Going)
    BY <1>3, <2>1, <2>2 DEF Live, Similar
  <2> QED
    BY <1>3, <2>3 DEF Accounts
<1>4. ASSUME NEW n \in Note, Unsent(body', server', n), n \notin Going'
      PROVE  LiveDirty(pane', Going', n) \/ (n \in unsynced' /\ ~Deletes(calls', n))
  <2>1. Unsent(body, server, n)
    BY <1>4 DEF Unsent
  <2>2. body'[n] # {}
    BY <1>4 DEF Unsent
  <2>3. n \notin Going
    BY <1>4, <2>2
  <2>4. LiveDirty(pane, Going, n) \/ (n \in unsynced /\ ~Deletes(calls, n))
    BY <2>1, <2>3 DEF Records, RecordTrue
  <2>5. CASE LiveDirty(pane, Going, n)
    <3>1. PICK p \in Pane : Live(pane[p], Going) /\ pane[p].note = n /\ pane[p].dirty = "dirty"
      BY <2>5 DEF LiveDirty
    <3>2. Similar(pane[p], pane'[p])
      BY <3>1 DEF Live, Follows, Hidden
    <3>3. pane'[p].attached
      BY <2>2, <3>1 DEF Live
    <3>4. ~pane'[p].revoked
      BY <1>4, <3>1 DEF Live
    <3>5. Live(pane'[p], Going') /\ pane'[p].note = n /\ pane'[p].dirty = "dirty"
      BY <1>4, <3>1, <3>2, <3>3, <3>4 DEF Live, Similar
    <3> QED
      BY <3>5 DEF LiveDirty
  <2> QED
    BY <1>4, <2>4, <2>5
<1>5. CallsTrue(calls', pane')
  BY <1>1, CallsFollow
<1>6. Sessions'
  BY <1>1 DEF Sessions
<1>7. Bodies'
  BY <1>2 DEF Bodies
<1>8. Accounts'
  BY <1>3 DEF Accounts
<1>9. Records'
  BY <1>4 DEF Records, RecordTrue
<1> QED
  BY <1>5, <1>6, <1>7, <1>8, <1>9

LEMMA OneEachFollows ==
  ASSUME OneEach,
         \A p \in Pane : Occupies(pane'[p]) => Occupies(pane[p]) /\ pane'[p].note = pane[p].note
  PROVE  OneEach'
BY DEF OneEach

LEMMA SimilarOccupies ==
  ASSUME NEW q, NEW r, Similar(q, r), Occupies(r)
  PROVE  Occupies(q) /\ r.note = q.note
BY DEF Similar, Occupies

(* Nothing is known of the server that was not, and no record is found that was not. *)
Harmless(q, r) ==
  ~r.revoked =>
    \/ /\ ~q.revoked
       /\ r.synced => q.synced
       /\ r.phase = "fetched" => q.phase = "fetched"
       /\ q.phase \in {"closed", "asking", "fetching"} => r.phase \in {"closed", "asking", "fetching"}
       /\ r.resident => q.resident /\ r.note = q.note
    \/ r.phase \in {"closed", "asking", "fetching"} /\ ~r.synced /\ ~r.resident

(* Only the pane that asks has its question in the queue. *)
LEMMA Asking ==
  ASSUME ShapeInv, NEW i \in 1..Len(calls), calls[i].op = "ask"
  PROVE  calls[i].by \in Pane /\ pane[calls[i].by].phase = "asking"
<1>1. calls[i] \in Call
  BY LenProperties DEF ShapeInv, CallsShape
<1>2. Posted(calls[i], Standing[calls[i].by])
  BY DEF ShapeInv, CallsShape, Queue
<1>3. calls[i].by \in Pane \/ calls[i].by = "catalog"
  BY <1>1, Standings DEF Call
<1>4. calls[i].by = "catalog" => FALSE
  BY <1>2, Standings DEF Posted, CatalogStands, CatalogAwaits
<1>5. ASSUME calls[i].by \in Pane PROVE pane[calls[i].by].phase = "asking"
  <2>0. Posted(calls[i], PaneStands(pane[calls[i].by]))
    BY <1>2, <1>5, Standings
  <2>1. PaneAwaits(pane[calls[i].by]) = "ask"
    BY <2>0 DEF Posted, PaneStands
  <2> QED
    BY <2>1 DEF PaneAwaits
<1> QED
  BY <1>3, <1>4, <1>5

CallsPass ==
  \/ calls' = calls
  \/ \E c \in Call : calls' = Append(calls, c)
  \/ calls # <<>> /\ calls' = Tail(calls) /\ ~(Head(calls).op = "list" /\ Head(calls).by = "catalog")

LEMMA DenialFollows ==
  ASSUME ShapeInv, DenialTrue, CallsPass, catalog' = catalog, readable' \subseteq readable,
         readable = {} => \A p \in Pane : Harmless(pane[p], pane'[p]),
         \A p \in Pane : pane[p].phase = "asking" /\ pane[p].revoked => pane'[p].revoked,
         catalog.denied /\ catalog.pc \in {"clear", "delete"} /\ Residents \subseteq catalog.todo =>
           Residents' \subseteq catalog.todo
  PROVE  DenialTrue'
<1> SUFFICES ASSUME catalog.denied, catalog.pc # "idle" PROVE DenialTrue'
  BY DEF DenialTrue
<1>1. readable = {} /\ catalog.answer = {} /\ \A p \in Pane : Harmless(pane[p], pane'[p])
  BY DEF DenialTrue
<1>2. ASSUME NEW p \in Pane, ~pane'[p].revoked
      PROVE  ~pane'[p].synced /\ pane'[p].phase # "fetched"
  <2>1. ~pane[p].revoked => ~pane[p].synced /\ pane[p].phase # "fetched"
    BY DEF DenialTrue
  <2> QED
    BY <1>1, <1>2, <2>1 DEF Harmless
<1>3. ASSUME catalog.pc = "list"
      PROVE  /\ \A p \in Pane : ~pane'[p].revoked => pane'[p].phase \in {"closed", "asking", "fetching"}
             /\ ListsFirst(calls', pane')
  <2>1. \A p \in Pane : ~pane[p].revoked => pane[p].phase \in {"closed", "asking", "fetching"}
    BY <1>3 DEF DenialTrue
  <2>2. \A p \in Pane : ~pane'[p].revoked => pane'[p].phase \in {"closed", "asking", "fetching"}
    BY <1>1, <2>1 DEF Harmless
  <2>3. ListsFirst(calls, pane)
    BY <1>3 DEF DenialTrue
  <2>4. \A i \in 1..Len(calls) :
          calls[i].op = "ask" /\ pane[calls[i].by].revoked => pane'[calls[i].by].revoked
    BY Asking
  <2>5. calls \in Seq(Call)
    BY DEF ShapeInv, CallsShape
  <2>6. /\ ListsFirst(calls, pane')
        /\ \A c \in Call : ListsFirst(Append(calls, c), pane')
        /\ ~(Head(calls).op = "list" /\ Head(calls).by = "catalog") => ListsFirst(Tail(calls), pane')
    BY <2>3, <2>4, <2>5, ListsCalls
  <2>7. ListsFirst(calls', pane')
    BY <2>6 DEF CallsPass
  <2> QED
    BY <2>2, <2>7
<1>4. ASSUME catalog.pc \in {"clear", "delete"}
      PROVE  /\ Residents' \subseteq catalog.todo
             /\ \A p \in Pane : ~pane'[p].revoked /\ pane'[p].resident => pane'[p].note \in catalog.todo
  <2>1. /\ Residents \subseteq catalog.todo
        /\ \A p \in Pane : ~pane[p].revoked /\ pane[p].resident => pane[p].note \in catalog.todo
    BY <1>4 DEF DenialTrue
  <2> QED
    BY <1>1, <1>4, <2>1 DEF Harmless
<1> QED
  BY <1>1, <1>2, <1>3, <1>4 DEF DenialTrue

(* Calls that the reconciliation's deletions are not among. *)
LEMMA GoingStays ==
  ASSUME ShapeInv, catalog'.todo = catalog.todo,
         \/ calls' = calls
         \/ \E c \in Call : calls' = Append(calls, c) /\ ~(c.op = "delete" /\ c.by = "catalog")
         \/ /\ calls # <<>> /\ calls' = Tail(calls)
            /\ ~(Head(calls).op = "delete" /\ Head(calls).by = "catalog")
  PROVE  Going' = Going
<1>1. calls \in Seq(Call)
  BY DEF ShapeInv, CallsShape
<1>2. \A n : DeletedBy(calls', "catalog", n) <=> DeletedBy(calls, "catalog", n)
  <2>1. CASE calls' = calls
    BY <2>1
  <2>2. CASE \E c \in Call : calls' = Append(calls, c) /\ ~(c.op = "delete" /\ c.by = "catalog")
    BY <1>1, <2>2, AppendCalls
  <2>3. CASE /\ calls # <<>> /\ calls' = Tail(calls)
             /\ ~(Head(calls).op = "delete" /\ Head(calls).by = "catalog")
    BY <1>1, <2>3, TailCalls
  <2> QED
    BY <2>1, <2>2, <2>3
<1> QED
  BY <1>2 DEF Going

-----------------------------------------------------------------------------
(* What a report says, and what it leaves. *)
Tells(q, now) ==
  /\ q \in Session
  /\ q.note = now.note /\ q.phase = now.phase /\ q.resident = now.resident
  /\ q.covered = now.covered /\ q.doc = now.doc /\ q.pending = now.pending
  /\ q.synced = now.synced /\ q.attached = now.attached /\ q.revoked = now.revoked

LEMMA ReportParts ==
  ASSUME PanesShape, NEW p \in Pane, NEW now \in Session, Report(p, now)
  PROVE  /\ \A r \in Pane \ {p} : pane'[r] = pane[r]
         /\ Tells(pane'[p], now)
         /\ \/ /\ ~now.revoked /\ ~now.opened /\ (now.resident \/ now.synced)
               /\ pane'[p].opened /\ pane'[p].dirty = Said(now)
               /\ calls' = Enqueue("open", p, now.note, Said(now))
            \/ /\ ~now.revoked /\ now.opened /\ pane'[p].opened
               /\ Said(now) # "unknown" /\ pane'[p].dirty = Said(now)
               /\ calls' = Enqueue("measure", p, now.note, Said(now))
            \/ /\ \/ now.revoked
                  \/ ~now.opened /\ ~now.resident /\ ~now.synced
                  \/ now.opened /\ (Said(now) = "unknown" \/ Said(now) = now.dirty)
               /\ pane'[p].opened = now.opened /\ pane'[p].dirty = now.dirty
               /\ calls' = calls
<1> DEFINE next == Said(now)
           opening == [now EXCEPT !.opened = TRUE, !.dirty = next, !.sweep = "opening"]
           measured == [now EXCEPT !.dirty = next]
<1>1. next \in Flags
  BY DEF Flags, Said
<1>2. \/ /\ ~now.revoked /\ ~now.opened /\ (now.resident \/ now.synced)
         /\ pane' = [pane EXCEPT ![p] = opening]
         /\ calls' = Enqueue("open", p, now.note, next)
      \/ /\ ~now.revoked /\ now.opened /\ next # "unknown"
         /\ pane' = [pane EXCEPT ![p] = measured]
         /\ calls' = Enqueue("measure", p, now.note, next)
      \/ /\ \/ now.revoked
            \/ ~now.opened /\ ~now.resident /\ ~now.synced
            \/ now.opened /\ (next = "unknown" \/ next = now.dirty)
         /\ pane' = [pane EXCEPT ![p] = now]
         /\ calls' = calls
  BY DEF Report, Said
<1> HIDE DEF next
<1>3. opening \in Session /\ Tells(opening, now) /\ opening.opened /\ opening.dirty = next
  BY <1>1 DEF Session, Tells
<1>4. measured \in Session /\ Tells(measured, now) /\ measured.opened = now.opened /\ measured.dirty = next
  BY <1>1 DEF Session, Tells
<1>5. Tells(now, now)
  BY DEF Tells
<1> HIDE DEF opening, measured
<1>6. \A q : pane' = [pane EXCEPT ![p] = q] =>
               pane'[p] = q /\ \A r \in Pane \ {p} : pane'[r] = pane[r]
  BY DEF PanesShape
<1> QED
  BY <1>2, <1>3, <1>4, <1>5, <1>6 DEF next

(* A report keeps the truth, if what it is made from is true. *)
LEMMA ReportTruth ==
  ASSUME ShapeInv, Truth, NEW p \in Pane, NEW now \in Session, Report(p, now),
         UNCHANGED <<readable, resident, unsynced, catalog>>,
         pane[p].phase \in {"loading", "open"}, now.phase = "open",
         now.note = pane[p].note, now.opened = pane[p].opened, now.dirty = pane[p].dirty,
         now.revoked = pane[p].revoked, now.resident = pane[p].resident,
         pane[p].phase = "open" => now.attached = pane[p].attached,
         pane[p].synced => now.synced,
         catalog.denied /\ catalog.pc # "idle" /\ readable = {} /\ ~now.revoked =>
           now.synced = pane[p].synced,
         now.synced => now.doc \subseteq server'[now.note] \cup now.pending,
         ~now.revoked /\ (~now.covered \/ Said(now) = "dirty") =>
           now.opened \/ now.resident \/ now.synced,
         now.opened /\ ~now.revoked => Said(now) # "unknown" /\ (now.resident \/ now.synced),
         BodyTrue(now, body', server', Going),
         \A m \in Note : /\ server[m] \subseteq server'[m]
                         /\ m # now.note => body'[m] = body[m],
         Unsent(body', server', now.note) /\ now.note \notin Going =>
           \/ now.attached /\ ~now.revoked /\ Said(now) = "dirty"
           \/ Unsent(body, server, now.note) /\ (pane[p].phase # "open" \/ now.revoked)
  PROVE  Truth'
<1> DEFINE q == pane'[p]
           n == now.note
<1>0. /\ pane[p] \in Session /\ PaneShape(pane[p]) /\ n \in Note
      /\ calls \in Seq(Call) /\ p # "catalog" /\ p \in Callers
      /\ \A r \in Pane : pane[r].phase \in Shown => pane[r].note \in Note
  BY NamesAssumption DEF ShapeInv, PanesShape, PaneShape, CallsShape, Shown, Callers
<1>1. /\ \A r \in Pane \ {p} : pane'[r] = pane[r]
      /\ Tells(q, now)
      /\ \/ /\ ~now.revoked /\ ~now.opened /\ (now.resident \/ now.synced)
            /\ q.opened /\ q.dirty = Said(now)
            /\ calls' = Enqueue("open", p, n, Said(now))
         \/ /\ ~now.revoked /\ now.opened /\ q.opened
            /\ Said(now) # "unknown" /\ q.dirty = Said(now)
            /\ calls' = Enqueue("measure", p, n, Said(now))
         \/ /\ \/ now.revoked
               \/ ~now.opened /\ ~now.resident /\ ~now.synced
               \/ now.opened /\ (Said(now) = "unknown" \/ Said(now) = now.dirty)
            /\ q.opened = now.opened /\ q.dirty = now.dirty
            /\ calls' = calls
  BY ReportParts DEF ShapeInv
<1> HIDE DEF q
<1>2. /\ q.note = n /\ q.phase = "open" /\ q.resident = now.resident
      /\ q.covered = now.covered /\ q.doc = now.doc /\ q.pending = now.pending
      /\ q.synced = now.synced /\ q.attached = now.attached /\ q.revoked = now.revoked
      /\ Said(q) = Said(now) /\ q.phase \in Shown
  BY <1>1 DEF Tells, Said, Shown
<1>3. \/ calls' = calls
      \/ \E c \in Call : /\ calls' = Append(calls, c) /\ c.by = p /\ c.op \in {"open", "measure"}
                         /\ c.dirty = Said(now) /\ c.note = n
                         /\ ~now.revoked /\ q.opened /\ q.dirty = Said(now)
                         /\ c.op = "measure" => now.opened
  <2>1. Said(now) \in Flags
    BY DEF Said, Flags
  <2>2. ASSUME NEW op \in {"open", "measure"}, calls' = Enqueue(op, p, n, Said(now)),
               ~now.revoked, q.opened, q.dirty = Said(now), op = "measure" => now.opened
        PROVE  \E c \in Call : /\ calls' = Append(calls, c) /\ c.by = p /\ c.op \in {"open", "measure"}
                               /\ c.dirty = Said(now) /\ c.note = n
                               /\ ~now.revoked /\ q.opened /\ q.dirty = Said(now)
                               /\ c.op = "measure" => now.opened
    <3> DEFINE c == [op |-> op, by |-> p, note |-> n, dirty |-> Said(now)]
    <3>1. c \in Call
      BY <1>0, <2>1 DEF Call
    <3>2. calls' = Append(calls, c)
      BY <2>2 DEF Enqueue
    <3>3. c.by = p /\ c.op = op /\ c.dirty = Said(now) /\ c.note = n
      OBVIOUS
    <3> HIDE DEF c
    <3> QED
      BY <2>2, <3>1, <3>2, <3>3
  <2> QED
    BY <1>1, <2>2
<1>4. Going' = Going /\ Going \subseteq Note
  <2>1. \/ calls' = calls
        \/ \E c \in Call : calls' = Append(calls, c) /\ ~(c.op = "delete" /\ c.by = "catalog")
    BY <1>3
  <2> QED
    BY <2>1, GoingStays DEF Going, ShapeInv, CatalogShape
<1>5. Residents' = Residents
  BY DEF Residents
<1>6. q.opened /\ ~q.revoked => q.dirty = Said(now)
  BY <1>1, <1>2
<1>7. ~q.revoked => (q.opened <=> q.resident \/ q.synced)
  BY <1>1, <1>2
<1>8. now.opened => q.opened /\ pane[p].phase = "open"
  BY <1>0, <1>1 DEF PaneShape
<1>9. SessionTrue(q, server')
  BY <1>2, <1>6, <1>7 DEF SessionTrue
<1>10. Sessions'
  <2>1. ASSUME NEW r \in Pane \ {p} PROVE SessionTrue(pane'[r], server')
    BY <1>0, <1>1 DEF Truth, Sessions, SessionTrue
  <2>2. \A r \in Pane : SessionTrue(pane'[r], server')
    BY <1>9, <2>1 DEF q
  <2> QED
    BY <2>2 DEF Sessions
<1>11. OneEach'
  <2>1. Occupies(pane[p])
    BY DEF Occupies, Shown
  <2>2. \A r \in Pane : pane'[r].note = pane[r].note /\ (Occupies(pane'[r]) => Occupies(pane[r]))
    BY <1>1, <1>2, <2>1 DEF q
  <2> QED
    BY <2>2, OneEachFollows DEF Truth
<1>12. Bodies'
  <2>1. BodyTrue(q, body', server', Going)
    BY <1>2 DEF BodyTrue
  <2>2. ASSUME NEW r \in Pane \ {p} PROVE BodyTrue(pane'[r], body', server', Going)
    <3>1. pane[r].phase \in Shown => pane[r].note # n /\ pane[r].note \in Note
      <4>1. Occupies(pane[p]) /\ (pane[r].phase \in Shown => Occupies(pane[r]))
        BY DEF Occupies, Shown
      <4> QED
        BY <1>0, <4>1 DEF Truth, OneEach
    <3>2. pane'[r] = pane[r] /\ BodyTrue(pane[r], body, server, Going)
      BY <1>1 DEF Truth, Bodies
    <3>3. pane[r].phase \in Shown => /\ body'[pane[r].note] = body[pane[r].note]
                                     /\ server[pane[r].note] \subseteq server'[pane[r].note]
      BY <3>1
    <3> QED
      BY <3>2, <3>3 DEF BodyTrue, Unsent
  <2>3. \A r \in Pane : BodyTrue(pane'[r], body', server', Going)
    BY <2>1, <2>2 DEF q
  <2> QED
    BY <1>4, <2>3 DEF Bodies
<1>13. ASSUME NEW r \in Pane \ {p}, Live(pane[r], Going)
       PROVE  Counted(r, pane'[r], calls', Residents, unsynced)
  <2>1. Counted(r, pane[r], calls, Residents, unsynced) /\ pane'[r] = pane[r]
    BY <1>1, <1>13 DEF Truth, Accounts
  <2>2. CASE calls' = calls
    BY <2>1, <2>2
  <2>3. ASSUME NEW c \in Call, calls' = Append(calls, c), c.by = p, c.op \in {"open", "measure"}
        PROVE  Counted(r, pane'[r], calls', Residents, unsynced)
    BY <1>0, <2>1, <2>3, CountedAppend
  <2> QED
    BY <1>3, <2>2, <2>3
<1>14. ASSUME Live(q, Going) PROVE Counted(p, q, calls', Residents, unsynced)
  <2>1. q.opened /\ ~now.revoked /\ now.attached /\ n \notin Going /\ q.dirty = Said(now)
    BY <1>2, <1>6, <1>14 DEF Live
  <2>2. ASSUME now.opened PROVE Counted(p, pane[p], calls, Residents, unsynced)
    <3>1. Live(pane[p], Going)
      BY <1>8, <2>1, <2>2 DEF Live, Shown
    <3> QED
      BY <3>1 DEF Truth, Accounts
  <2>3. CASE calls' = calls
    <3>0. ASSUME NEW op \in {"open", "measure"} PROVE Enqueue(op, p, n, Said(now)) # calls
      <4> DEFINE c == [op |-> op, by |-> p, note |-> n, dirty |-> Said(now)]
      <4>1. c \in Call
        BY <1>0 DEF Call, Said, Flags
      <4> HIDE DEF c
      <4>2. Len(Append(calls, c)) = Len(calls) + 1 /\ Len(calls) \in Nat
        BY <1>0, <4>1, AppendProperties, LenProperties
      <4>3. Append(calls, c) # calls
        BY <4>2
      <4> QED
        BY <4>3 DEF Enqueue, c
    <3>1. now.opened /\ q.dirty = now.dirty
      BY <1>1, <2>1, <2>3, <3>0
    <3> QED
      BY <1>2, <2>2, <2>3, <3>1 DEF Counted
  <2>4. ASSUME NEW c \in Call, calls' = Append(calls, c), c.by = p, c.op \in {"open", "measure"},
               c.dirty = Said(now), c.op = "measure" => now.opened
        PROVE  Counted(p, q, calls', Residents, unsynced)
    <3>1. /\ \/ c.op = "open"
             \/ DeletesBeforeOpen(calls, p, n)
             => DeletesBeforeOpen(calls', p, n)
          /\ c.op = "open" \/ Opens(calls, p) => Opens(calls', p)
          /\ c.dirty = "dirty" => SaysDirty(calls', p) /\ EndsDirty(calls', p)
      BY <1>0, <2>4, AppendCalls
    <3>2. c.op # "open" => DeletesBeforeOpen(calls, p, n) /\ (Opens(calls, p) \/ n \in Residents)
      BY <2>2, <2>4 DEF Counted
    <3> QED
      BY <1>2, <2>1, <2>4, <3>1, <3>2 DEF Counted
  <2> QED
    BY <1>3, <2>3, <2>4
<1>15. Accounts'
  <2>1. ASSUME NEW r \in Pane, Live(pane'[r], Going) PROVE Counted(r, pane'[r], calls', Residents, unsynced)
    BY <1>1, <1>13, <1>14, <2>1 DEF q
  <2> QED
    BY <1>4, <1>5, <2>1 DEF Accounts
<1>16. CallsTrue(calls', pane')
  <2>1. \A r \in Pane : /\ pane[r].opened => pane'[r].opened
                        /\ pane[r].synced => pane'[r].synced
    BY <1>1, <1>2, <1>8 DEF q
  <2>2. CallsTrue(calls, pane') /\ \A c \in Call : CallTrue(c, pane') => CallsTrue(Append(calls, c), pane')
    BY <1>0, <2>1, CallsTrueCalls DEF Truth
  <2>3. ASSUME NEW c \in Call, c.by = p, c.op \in {"open", "measure"}, c.dirty = Said(now), q.opened
        PROVE  CallTrue(c, pane')
    BY <1>2, <2>3 DEF CallTrue, Said, q
  <2> QED
    BY <1>3, <2>2, <2>3
<1>17. ASSUME NEW m \in Note, Unsent(body', server', m), m \notin Going
       PROVE  LiveDirty(pane', Going, m) \/ (m \in unsynced /\ ~Deletes(calls', m))
  <2>1. ASSUME m \in unsynced, ~Deletes(calls, m) PROVE ~Deletes(calls', m)
    BY <1>0, <1>3, <2>1, AppendCalls
  <2>2. ASSUME NEW r \in Pane, r # p, Live(pane[r], Going), pane[r].note = m, pane[r].dirty = "dirty"
        PROVE  LiveDirty(pane', Going, m)
    BY <1>1, <2>2 DEF LiveDirty
  <2>3. CASE m = n /\ now.attached /\ ~now.revoked /\ Said(now) = "dirty"
    <3>1. q.opened /\ q.dirty = "dirty"
      BY <1>6, <1>7, <1>8, <1>2, <2>3
    <3>2. Live(q, Going) /\ q.note = m
      BY <1>2, <1>17, <2>3, <3>1 DEF Live
    <3> QED
      BY <3>1, <3>2 DEF LiveDirty, q
  <2>4. CASE /\ ~(m = n /\ now.attached /\ ~now.revoked /\ Said(now) = "dirty")
    <3>1. /\ Unsent(body, server, m)
          /\ m # n \/ pane[p].phase # "open" \/ now.revoked
      BY <1>17, <2>4 DEF Unsent
    <3>2. \/ LiveDirty(pane, Going, m)
          \/ m \in unsynced /\ ~Deletes(calls, m)
      BY <1>17, <3>1 DEF Truth, Records, RecordTrue
    <3>3. ~(Live(pane[p], Going) /\ pane[p].note = m)
      BY <3>1 DEF Live, Shown
    <3> QED
      BY <2>1, <2>2, <3>2, <3>3 DEF LiveDirty
  <2> QED
    BY <2>3, <2>4
<1>18. Records'
  BY <1>4, <1>17 DEF Records, RecordTrue
<1>19. DenialTrue'
  <2> SUFFICES ASSUME catalog.denied, catalog.pc # "idle" PROVE DenialTrue'
    BY DEF DenialTrue
  <2>0. readable = {}
    BY DEF Truth, DenialTrue
  <2>1. \A r \in Pane : Harmless(pane[r], pane'[r])
    <3>1. Harmless(pane[p], q)
      BY <1>2, <2>0 DEF Harmless
    <3>2. \A r \in Pane \ {p} : Harmless(pane[r], pane'[r])
      BY <1>1 DEF Harmless
    <3> QED
      BY <3>1, <3>2 DEF q
  <2>2. CallsPass
    BY <1>3 DEF CallsPass
  <2>3. \A r \in Pane : pane[r].phase = "asking" /\ pane[r].revoked => pane'[r].revoked
    BY <1>1
  <2> QED
    BY <1>5, <2>1, <2>2, <2>3, DenialFollows DEF Truth
<1> QED
  BY <1>10, <1>11, <1>12, <1>15, <1>16, <1>18, <1>19 DEF Truth

-----------------------------------------------------------------------------
(* Every step keeps the truth: the sessions that report. *)
LEMMA PaneTruth ==
  ASSUME ShapeInv, Truth, NEW p \in Pane
  PROVE  /\ pane[p] \in Session /\ PaneShape(pane[p])
         /\ SessionTrue(pane[p], server) /\ BodyTrue(pane[p], body, server, Going)
         /\ pane[p].phase # "closed" => pane[p].note \in Note
         /\ pane[p].note \in Note =>
              server[pane[p].note] \subseteq Edit /\ body[pane[p].note] \subseteq Edit
BY DEF ShapeInv, PanesShape, PaneShape, WorldShape, Truth, Sessions, Bodies

LEMMA LoadTruth ==
  ASSUME ShapeInv, Truth, NEW p \in Pane, Load(p)
  PROVE  Truth'
<1> DEFINE n == pane[p].note
           now == [pane[p] EXCEPT !.phase = "open", !.attached = TRUE,
                                  !.covered = pane[p].revoked \/ ~pane[p].resident,
                                  !.doc = body[n]]
<1>0. /\ pane[p] \in Session /\ PaneShape(pane[p]) /\ SessionTrue(pane[p], server)
      /\ pane[p].phase = "loading" /\ n \in Note /\ body[n] \subseteq Edit
  BY PaneTruth DEF Load
<1>1. Report(p, now) /\ UNCHANGED <<readable, server, resident, unsynced, body, catalog>>
  BY DEF Load, stores
<1>2. /\ now \in Session /\ now.phase = "open" /\ now.note = n /\ now.attached
      /\ now.covered = (pane[p].revoked \/ ~pane[p].resident) /\ now.doc = body[n]
      /\ now.opened = pane[p].opened /\ now.dirty = pane[p].dirty /\ now.pending = pane[p].pending
      /\ now.revoked = pane[p].revoked /\ now.resident = pane[p].resident
      /\ now.synced = pane[p].synced
  BY <1>0 DEF Session, Phases
<1> HIDE DEF now
<1>3. now.pending = {} /\ ~now.synced /\ ~now.opened /\ Said(now) = "unknown"
  BY <1>0, <1>2 DEF SessionTrue, Shown, Said
<1>4. BodyTrue(now, body', server', Going)
  BY <1>1, <1>2 DEF BodyTrue
<1>5. Unsent(body', server', n) => Unsent(body, server, n)
  BY <1>1
<1> QED
  BY <1>0, <1>1, <1>2, <1>3, <1>4, <1>5, ReportTruth

LEMMA TypeTruth ==
  ASSUME ShapeInv, Truth, NEW p \in Pane, NEW e \in Edit, Type(p, e)
  PROVE  Truth'
<1> DEFINE n == pane[p].note
           now == [pane[p] EXCEPT !.doc = @ \cup {e}, !.pending = @ \cup {e}]
<1>0. /\ pane[p] \in Session /\ PaneShape(pane[p]) /\ SessionTrue(pane[p], server)
      /\ BodyTrue(pane[p], body, server, Going)
      /\ pane[p].phase = "open" /\ ~pane[p].covered /\ n \in Note
  BY PaneTruth DEF Type
<1>1. Report(p, now) /\ UNCHANGED <<readable, server, resident, unsynced, catalog>>
  BY DEF Type
<1>2. /\ now \in Session /\ now.phase = "open" /\ now.note = n /\ now.attached = pane[p].attached
      /\ now.covered = pane[p].covered /\ now.doc = pane[p].doc \cup {e}
      /\ now.opened = pane[p].opened /\ now.dirty = pane[p].dirty
      /\ now.pending = pane[p].pending \cup {e}
      /\ now.revoked = pane[p].revoked /\ now.resident = pane[p].resident
      /\ now.synced = pane[p].synced
  BY <1>0 DEF Session
<1> HIDE DEF now
<1>3. /\ pane[p].attached => body'[n] = body[n] \cup {e}
      /\ ~pane[p].attached => body'[n] = body[n]
      /\ \A m \in Note : m # n => body'[m] = body[m]
  BY <1>0 DEF Type, ShapeInv, WorldShape
<1>4. Said(now) = "dirty"
  BY <1>2 DEF Said
<1>5. ~now.revoked => now.opened /\ (now.resident \/ now.synced)
  BY <1>0, <1>2 DEF SessionTrue, Shown
<1>6. BodyTrue(now, body', server', Going)
  BY <1>0, <1>1, <1>2, <1>3 DEF BodyTrue, Unsent
<1>7. Unsent(body', server', n) /\ n \notin Going => now.attached /\ ~now.revoked
  BY <1>0, <1>1, <1>2, <1>3 DEF BodyTrue, Unsent, Shown
<1>8. now.synced => now.doc \subseteq server'[n] \cup now.pending
  BY <1>0, <1>1, <1>2 DEF SessionTrue, Shown
<1> QED
  BY <1>0, <1>1, <1>2, <1>3, <1>4, <1>5, <1>6, <1>7, <1>8, ReportTruth

LEMMA SyncTruth ==
  ASSUME ShapeInv, Truth, NEW p \in Pane, Sync(p)
  PROVE  Truth'
<1> DEFINE n == pane[p].note
           now == [pane[p] EXCEPT !.doc = @ \cup server[n], !.synced = TRUE,
                                  !.covered = @ /\ pane[p].revoked,
                                  !.pending = pane[p].doc \ server[n]]
<1>0. /\ pane[p] \in Session /\ PaneShape(pane[p]) /\ SessionTrue(pane[p], server)
      /\ BodyTrue(pane[p], body, server, Going)
      /\ pane[p].phase = "open" /\ n \in Note /\ n \in readable /\ server[n] \subseteq Edit
  BY PaneTruth DEF Sync
<1>1. Report(p, now) /\ UNCHANGED <<readable, server, resident, unsynced, catalog>>
  BY DEF Sync
<1>2. /\ now \in Session /\ now.phase = "open" /\ now.note = n /\ now.attached = pane[p].attached
      /\ now.covered = (pane[p].covered /\ pane[p].revoked) /\ now.doc = pane[p].doc \cup server[n]
      /\ now.opened = pane[p].opened /\ now.dirty = pane[p].dirty
      /\ now.pending = pane[p].doc \ server[n]
      /\ now.revoked = pane[p].revoked /\ now.resident = pane[p].resident
      /\ now.synced
  BY <1>0 DEF Session
<1> HIDE DEF now
<1>3. /\ pane[p].attached => body'[n] = body[n] \cup server[n]
      /\ ~pane[p].attached => body'[n] = body[n]
      /\ \A m \in Note : m # n => body'[m] = body[m]
  BY <1>0 DEF Sync, ShapeInv, WorldShape
<1>4. Said(now) # "unknown" /\ (now.pending # {} => Said(now) = "dirty")
  BY <1>2 DEF Said
<1>6. BodyTrue(now, body', server', Going)
  BY <1>0, <1>1, <1>2, <1>3 DEF BodyTrue, Unsent, Shown
<1>7. ASSUME Unsent(body', server', n), n \notin Going
      PROVE  \/ now.attached /\ ~now.revoked /\ Said(now) = "dirty"
             \/ Unsent(body, server, n) /\ now.revoked
  <2>1. Unsent(body, server, n) /\ pane[p].attached
    BY <1>0, <1>1, <1>3, <1>7 DEF BodyTrue, Unsent, Shown
  <2>2. now.pending # {}
    BY <1>0, <1>2, <2>1 DEF BodyTrue, Unsent, Shown
  <2> QED
    BY <1>2, <1>4, <2>1, <2>2
<1>8. now.synced => now.doc \subseteq server'[n] \cup now.pending
  BY <1>1, <1>2
<1> QED
  BY <1>0, <1>1, <1>2, <1>3, <1>4, <1>6, <1>7, <1>8, ReportTruth

LEMMA AcknowledgeTruth ==
  ASSUME ShapeInv, Truth, NEW p \in Pane, Acknowledge(p)
  PROVE  Truth'
<1> DEFINE n == pane[p].note
           now == [pane[p] EXCEPT !.pending = {}]
<1>0. /\ pane[p] \in Session /\ PaneShape(pane[p]) /\ SessionTrue(pane[p], server)
      /\ BodyTrue(pane[p], body, server, Going)
      /\ pane[p].phase = "open" /\ n \in Note /\ pane[p].synced
  BY PaneTruth DEF Acknowledge
<1>1. Report(p, now) /\ UNCHANGED <<readable, body, resident, unsynced, catalog>>
  BY DEF Acknowledge, stores
<1>2. /\ now \in Session /\ now.phase = "open" /\ now.note = n /\ now.attached = pane[p].attached
      /\ now.covered = pane[p].covered /\ now.doc = pane[p].doc
      /\ now.opened = pane[p].opened /\ now.dirty = pane[p].dirty
      /\ now.pending = {}
      /\ now.revoked = pane[p].revoked /\ now.resident = pane[p].resident
      /\ now.synced
  BY <1>0 DEF Session
<1> HIDE DEF now
<1>3. /\ server'[n] = server[n] \cup pane[p].pending
      /\ \A m \in Note : m # n => server'[m] = server[m]
  BY <1>0 DEF Acknowledge, ShapeInv, WorldShape
<1>4. Said(now) = "clean"
  BY <1>2 DEF Said
<1>5. now.doc \subseteq server'[n]
  BY <1>0, <1>2, <1>3 DEF SessionTrue, Shown
<1>6. ~Unsent(body', server', n)
  BY <1>0, <1>1, <1>2, <1>3, <1>5 DEF BodyTrue, Unsent, Shown
<1>7. BodyTrue(now, body', server', Going)
  BY <1>0, <1>1, <1>2, <1>3, <1>6 DEF BodyTrue, Unsent, Shown
<1> QED
  BY <1>0, <1>1, <1>2, <1>3, <1>4, <1>5, <1>6, <1>7, ReportTruth

(* One pane moves on, and calls what no account is about. *)
LEMMA QuietTruth ==
  ASSUME ShapeInv, Truth, OneEach', NEW p \in Pane, NEW q, pane' = [pane EXCEPT ![p] = q],
         UNCHANGED <<readable, resident, unsynced, catalog>>,
         \A n \in Note : /\ server[n] \subseteq server'[n]
                         /\ body'[n] \subseteq body[n] \cup server'[n],
         Follows(pane[p], q), readable = {} => Harmless(pane[p], q),
         pane[p].phase \in Shown => q.attached = pane[p].attached,
         q.revoked => pane[p].revoked,
         \/ calls' = calls
         \/ \E op \in {"ask", "size", "list", "open"}, n \in Note \cup {NoNote} :
              /\ calls' = Enqueue(op, p, n, "unknown")
              /\ op = "open" => pane[p].phase \notin Shown
  PROVE  Truth'
<1>0. /\ pane'[p] = q /\ \A r \in Pane : r # p => pane'[r] = pane[r]
      /\ calls \in Seq(Call) /\ p # "catalog" /\ p \in Callers
  BY NamesAssumption DEF ShapeInv, PanesShape, CallsShape, Callers
<1>1. \/ calls' = calls
      \/ \E c \in Call : /\ calls' = Append(calls, c) /\ c.dirty = "unknown" /\ c.by = p
                         /\ c.op \notin {"delete", "measure"}
                         /\ c.op = "open" => pane[p].phase \notin Shown
  <2>1. ASSUME NEW op \in {"ask", "size", "list", "open"}, NEW n \in Note \cup {NoNote},
               calls' = Enqueue(op, p, n, "unknown"), op = "open" => pane[p].phase \notin Shown
        PROVE  \E c \in Call : /\ calls' = Append(calls, c) /\ c.dirty = "unknown" /\ c.by = p
                               /\ c.op \notin {"delete", "measure"}
                               /\ c.op = "open" => pane[p].phase \notin Shown
    <3> DEFINE c == [op |-> op, by |-> p, note |-> n, dirty |-> "unknown"]
    <3>1. c \in Call
      BY <1>0 DEF Call, Flags
    <3>2. calls' = Append(calls, c)
      BY <2>1 DEF Enqueue
    <3>3. c.by = p /\ c.op = op /\ c.dirty = "unknown"
      OBVIOUS
    <3> HIDE DEF c
    <3> QED
      BY <2>1, <3>1, <3>2, <3>3
  <2> QED
    BY <2>1
<1>2. CallsMove /\ CallsPass
  BY <1>1 DEF CallsMove, CallsPass
<1>3. Going' = Going
  <2>1. \/ calls' = calls
        \/ \E c \in Call : calls' = Append(calls, c) /\ ~(c.op = "delete" /\ c.by = "catalog")
    BY <1>1
  <2> QED
    BY <2>1, GoingStays
<1>4. Residents' = Residents
  BY DEF Residents
<1>5. \A r \in Pane : /\ Follows(pane[r], pane'[r])
                      /\ readable = {} => Harmless(pane[r], pane'[r])
  <2>1. \A r \in Pane \ {p} : Follows(pane[r], pane[r]) /\ Harmless(pane[r], pane[r])
    BY DEF Follows, Similar, Harmless
  <2> QED
    BY <1>0, <2>1
<1>6. \A r \in Pane : pane[r].phase = "asking" /\ pane[r].revoked => pane'[r].revoked
  BY <1>5 DEF Follows, Similar, Hidden
<1>7. ASSUME NEW r \in Pane, Live(pane[r], Going), Counted(r, pane[r], calls, Residents, unsynced)
      PROVE  Counted(r, pane'[r], calls', Residents', unsynced')
  <2>1. pane'[r].note = pane[r].note /\ pane'[r].dirty = pane[r].dirty /\ pane[r].phase \in Shown
    BY <1>5, <1>7 DEF Follows, Hidden, Similar, Live
  <2>2. CASE calls' = calls
    BY <1>4, <1>7, <2>1, <2>2 DEF Counted
  <2>3. ASSUME NEW c \in Call, calls' = Append(calls, c), c.by = p, c.op \notin {"delete", "measure"},
               c.op = "open" => pane[p].phase \notin Shown
        PROVE  Counted(r, pane'[r], calls', Residents', unsynced')
    <3>1. c.by = r => c.op \notin {"open", "measure"}
      BY <2>1, <2>3
    <3>2. Counted(r, pane'[r], Append(calls, c), Residents, unsynced)
      BY <1>0, <1>7, <2>1, <2>3, <3>1, CountedAppend
    <3> QED
      BY <1>4, <2>3, <3>2
  <2> QED
    BY <1>1, <2>2, <2>3
<1>8. ASSUME NEW n \in unsynced, ~Deletes(calls, n) PROVE n \in unsynced' /\ ~Deletes(calls', n)
  <2>1. CASE calls' = calls
    BY <1>8, <2>1
  <2>2. ASSUME NEW c \in Call, calls' = Append(calls, c), c.op # "delete" PROVE ~Deletes(calls', n)
    BY <1>0, <1>8, <2>2, AppendCalls
  <2> QED
    BY <1>1, <2>1, <2>2
<1>9. \A r \in Pane : /\ pane[r].phase \in Shown /\ pane[r].attached => pane'[r].attached
                      /\ pane'[r].revoked => pane[r].revoked
  BY <1>0
<1>10. Sessions' /\ Bodies' /\ Accounts' /\ Records' /\ CallsTrue(calls', pane')
  BY <1>2, <1>3, <1>5, <1>7, <1>8, <1>9, TruthFollows DEF Truth
<1>11. DenialTrue'
  BY <1>2, <1>4, <1>5, <1>6, DenialFollows DEF Truth
<1> QED
  BY <1>10, <1>11 DEF Truth

(* A pane that neither opens nor closes. *)
LEMMA OnTruth ==
  ASSUME ShapeInv, Truth, NEW p \in Pane, NEW q, pane' = [pane EXCEPT ![p] = q],
         UNCHANGED <<readable, server, resident, unsynced, body, catalog>>,
         pane[p].phase \in Shown, Similar(pane[p], q), q.attached = pane[p].attached,
         q.revoked = pane[p].revoked,
         \/ calls' = calls
         \/ \E op \in {"size", "list"}, n \in Note \cup {NoNote} :
              calls' = Enqueue(op, p, n, "unknown")
  PROVE  Truth'
<1>1. OneEach'
  <2>1. pane'[p] = q /\ \A r \in Pane : r # p => pane'[r] = pane[r]
    BY DEF ShapeInv, PanesShape
  <2>2. \A r \in Pane : Occupies(pane'[r]) => Occupies(pane[r]) /\ pane'[r].note = pane[r].note
    BY <2>1, SimilarOccupies
  <2> QED
    BY <2>2, OneEachFollows DEF Truth
<1>2. Follows(pane[p], q) /\ Harmless(pane[p], q)
  BY DEF Follows, Similar, Harmless, Shown
<1> QED
  BY <1>1, <1>2, QuietTruth

LEMMA SettleTruth ==
  ASSUME ShapeInv, Truth, NEW p \in Pane, Settle(p)
  PROVE  Truth'
<1> DEFINE q == [pane[p] EXCEPT !.phase = "settling"]
<1>0. pane[p] \in Session /\ pane[p].phase = "open"
  BY PaneTruth DEF Settle
<1>1. Similar(pane[p], q) /\ q.attached = pane[p].attached /\ q.revoked = pane[p].revoked
  BY <1>0 DEF Session, Similar, Shown
<1>2. /\ pane' = [pane EXCEPT ![p] = q] /\ calls' = calls
      /\ UNCHANGED <<readable, server, resident, unsynced, body, catalog>>
  BY DEF Settle, stores
<1> HIDE DEF q
<1> QED
  BY <1>0, <1>1, <1>2, OnTruth DEF Shown

LEMMA MeasureSizeTruth ==
  ASSUME ShapeInv, Truth, NEW p \in Pane, MeasureSize(p)
  PROVE  Truth'
<1> DEFINE q == [pane[p] EXCEPT !.phase = "measuring"]
<1>0. pane[p] \in Session /\ pane[p].phase = "settling" /\ pane[p].note \in Note
  BY PaneTruth DEF MeasureSize
<1>1. Similar(pane[p], q) /\ q.attached = pane[p].attached /\ q.revoked = pane[p].revoked
  BY <1>0 DEF Session, Similar, Shown
<1>2. /\ pane' = [pane EXCEPT ![p] = q] /\ calls' = Enqueue("size", p, pane[p].note, "unknown")
      /\ UNCHANGED <<readable, server, resident, unsynced, body, catalog>>
  BY DEF MeasureSize, stores
<1> HIDE DEF q
<1> QED
  BY <1>0, <1>1, <1>2, OnTruth DEF Shown

LEMMA EvictPinsTruth ==
  ASSUME ShapeInv, Truth, NEW p \in Pane, EvictPins(p)
  PROVE  Truth'
<1> DEFINE q == [pane[p] EXCEPT !.sweep = "list", !.pinned = pins]
<1>0. pane[p] \in Session /\ PaneShape(pane[p]) /\ pane[p].sweep = "pins"
  BY PaneTruth DEF EvictPins
<1>1. Similar(pane[p], q) /\ q.attached = pane[p].attached /\ q.revoked = pane[p].revoked
  BY <1>0 DEF Session, Similar
<1>2. /\ pane' = [pane EXCEPT ![p] = q] /\ calls' = Enqueue("list", p, NoNote, "unknown")
      /\ UNCHANGED <<readable, server, resident, unsynced, body, catalog>>
  BY DEF EvictPins, stores, ShapeInv, PanesShape
<1>3. pane[p].phase \in Shown
  BY <1>0 DEF PaneShape, Shown
<1> HIDE DEF q
<1> QED
  BY <1>0, <1>1, <1>2, <1>3, OnTruth

LEMMA OpenTruth ==
  ASSUME OnePaneEach, ShapeInv, Truth, NEW p \in Pane, NEW n \in Note, Open(p, n)
  PROVE  Truth'
<1> DEFINE q == [Closed EXCEPT !.note = n, !.phase = "asking"]
<1>1. /\ q.phase = "asking" /\ q.note = n /\ ~q.opened /\ q.pending = {} /\ ~q.synced
      /\ ~q.resident /\ ~q.revoked
  BY DEF Closed
<1>2. /\ pane' = [pane EXCEPT ![p] = q] /\ calls' = Enqueue("ask", p, n, "unknown")
      /\ UNCHANGED <<readable, server, resident, unsynced, body, catalog>>
      /\ pane[p].phase = "closed"
      /\ \A r \in Pane : pane[r].note # n \/ pane[r].phase \in {"fetching", "fetched"}
  BY DEF Open, stores, OnePaneEach
<1> HIDE DEF q
<1>3. pane'[p] = q /\ \A r \in Pane : r # p => pane'[r] = pane[r]
  BY <1>2 DEF ShapeInv, PanesShape
<1>4. \A r \in Pane : Occupies(pane[r]) => pane[r].note # n
  BY <1>2 DEF Occupies, Shown
<1>5. OneEach'
  BY <1>1, <1>3, <1>4 DEF Truth, OneEach
<1>6. Follows(pane[p], q) /\ Harmless(pane[p], q)
  BY <1>1, <1>2 DEF Follows, Hidden, Shown, Harmless
<1> QED
  BY <1>1, <1>2, <1>5, <1>6, QuietTruth DEF Shown

(* A pane that shows nothing, before and after. *)
LEMMA OffTruth ==
  ASSUME ShapeInv, Truth, NEW p \in Pane, NEW q, pane' = [pane EXCEPT ![p] = q],
         UNCHANGED <<readable, resident, unsynced, catalog>>,
         \A n \in Note : /\ server[n] \subseteq server'[n]
                         /\ body'[n] \subseteq body[n] \cup server'[n],
         pane[p].phase \in {"closed", "fetching"},
         q.phase \in {"closed", "fetching", "fetched"}, q.phase = "fetched" => readable # {},
         q.pending = {}, ~q.synced, ~q.opened, ~q.resident, ~q.revoked,
         \/ calls' = calls
         \/ \E n \in Note : calls' = Enqueue("open", p, n, "unknown")
  PROVE  Truth'
<1>1. OneEach'
  <2>1. pane'[p] = q /\ \A r \in Pane : r # p => pane'[r] = pane[r]
    BY DEF ShapeInv, PanesShape
  <2>2. \A r \in Pane : Occupies(pane'[r]) => Occupies(pane[r]) /\ pane'[r].note = pane[r].note
    BY <2>1 DEF Occupies, Shown
  <2> QED
    BY <2>2, OneEachFollows DEF Truth
<1>2. Follows(pane[p], q)
  BY DEF Follows, Hidden, Shown
<1>3. readable = {} => Harmless(pane[p], q)
  BY DEF Harmless
<1> QED
  BY <1>1, <1>2, <1>3, QuietTruth DEF Shown

LEMMA PrefetchTruth ==
  ASSUME ShapeInv, Truth, NEW p \in Pane, NEW n \in Note, Prefetch(p, n)
  PROVE  Truth'
<1> DEFINE q == [Closed EXCEPT !.note = n, !.phase = "fetching",
                               !.attached = TRUE, !.doc = body[n]]
<1>1. /\ q.phase = "fetching" /\ ~q.opened /\ q.pending = {} /\ ~q.synced
      /\ ~q.resident /\ ~q.revoked
  BY DEF Closed
<1>2. /\ pane' = [pane EXCEPT ![p] = q] /\ calls' = calls
      /\ UNCHANGED <<readable, server, resident, unsynced, body, catalog>>
      /\ pane[p].phase = "closed"
  BY DEF Prefetch, stores
<1> HIDE DEF q
<1> QED
  BY <1>1, <1>2, OffTruth

LEMMA FetchedTruth ==
  ASSUME ShapeInv, Truth, NEW p \in Pane, Fetched(p)
  PROVE  Truth'
<1> DEFINE n == pane[p].note
           q == [pane[p] EXCEPT !.phase = "fetched"]
<1>0. /\ pane[p] \in Session /\ SessionTrue(pane[p], server) /\ PaneShape(pane[p])
      /\ pane[p].phase = "fetching" /\ n \in Note /\ n \in readable
  BY PaneTruth DEF Fetched
<1>1. \A m \in Note : /\ server[m] \subseteq server'[m]
                      /\ body'[m] \subseteq body[m] \cup server'[m]
  BY <1>0 DEF Fetched, ShapeInv, WorldShape
<1>2. UNCHANGED <<readable, resident, unsynced, catalog>>
  BY DEF Fetched
<1>3. CASE pane[p].revoked
  <2>1. pane' = [pane EXCEPT ![p] = Closed] /\ calls' = calls
    BY <1>3 DEF Fetched
  <2>2. /\ Closed.phase = "closed" /\ Closed.pending = {} /\ ~Closed.synced /\ ~Closed.opened
        /\ ~Closed.resident /\ ~Closed.revoked
    BY DEF Closed
  <2> QED
    BY <1>0, <1>1, <1>2, <2>1, <2>2, OffTruth
<1>4. CASE ~pane[p].revoked
  <2>1. pane' = [pane EXCEPT ![p] = q] /\ calls' = Enqueue("open", p, n, "unknown")
    BY <1>4 DEF Fetched
  <2>2. /\ q.phase = "fetched" /\ q.pending = {} /\ ~q.synced /\ ~q.opened
        /\ ~q.resident /\ ~q.revoked
    BY <1>0, <1>4 DEF Session, SessionTrue, Shown
  <2> HIDE DEF q
  <2> QED
    BY <1>0, <1>1, <1>2, <2>1, <2>2, OffTruth
<1> QED
  BY <1>3, <1>4

LEMMA FetchFailsTruth ==
  ASSUME ShapeInv, Truth, NEW p \in Pane, FetchFails(p)
  PROVE  Truth'
<1>1. /\ pane' = [pane EXCEPT ![p] = Closed] /\ calls' = calls /\ pane[p].phase = "fetching"
      /\ UNCHANGED <<readable, server, resident, unsynced, body, catalog>>
  BY DEF FetchFails, stores
<1>2. /\ Closed.phase = "closed" /\ Closed.pending = {} /\ ~Closed.synced /\ ~Closed.opened
      /\ ~Closed.resident /\ ~Closed.revoked
  BY DEF Closed
<1> QED
  BY <1>1, <1>2, OffTruth

(* A body is dropped, and its panes are cut off. *)
LEMMA DropTruth ==
  ASSUME ShapeInv, Truth, NEW n \in Note, NEW panes, DropBody(n, panes),
         \A r \in Pane : /\ panes[r] \in Session /\ Similar(pane[r], panes[r])
                         /\ panes[r].attached = pane[r].attached
                         /\ panes[r].revoked = pane[r].revoked,
         UNCHANGED <<readable, server, resident, unsynced>>,
         \A m \in Going : m # n => m \in Going',
         \/ calls' = calls
         \/ \E by \in Callers : calls' = Enqueue("delete", by, n, "unknown")
  PROVE  /\ Sessions' /\ Bodies' /\ Accounts' /\ OneEach' /\ CallsTrue(calls', pane') /\ Records'
         /\ CallsPass
         /\ \A r \in Pane : Similar(pane[r], pane'[r]) /\ pane'[r].revoked = pane[r].revoked
<1>0. calls \in Seq(Call) /\ body' = [body EXCEPT ![n] = {}] /\ body \in [Note -> SUBSET Edit]
  BY DEF ShapeInv, CallsShape, DropBody, WorldShape
<1>1. ASSUME NEW r \in Pane
      PROVE  /\ Similar(pane[r], pane'[r]) /\ pane'[r].revoked = pane[r].revoked
             /\ IF pane[r].note = n THEN ~pane'[r].attached ELSE pane'[r].attached = pane[r].attached
  <2> DEFINE q == panes[r]
             cut == [q EXCEPT !.attached = FALSE]
  <2>1. pane'[r] = IF q.note = n THEN cut ELSE q
    BY DEF DropBody
  <2>2. q \in Session /\ Similar(pane[r], q) /\ q.attached = pane[r].attached
        /\ q.revoked = pane[r].revoked /\ q.note = pane[r].note
    BY DEF Similar
  <2> HIDE DEF q
  <2>3. Similar(pane[r], cut) /\ ~cut.attached /\ cut.revoked = q.revoked
    BY <2>2 DEF Similar, Session
  <2> HIDE DEF cut
  <2> QED
    BY <2>1, <2>2, <2>3
<1>2. \/ calls' = calls
      \/ \E c \in Call : /\ calls' = Append(calls, c) /\ c.op = "delete" /\ c.note = n
                         /\ c.dirty = "unknown"
  <2>1. ASSUME NEW by \in Callers, calls' = Enqueue("delete", by, n, "unknown")
        PROVE  \E c \in Call : /\ calls' = Append(calls, c) /\ c.op = "delete" /\ c.note = n
                               /\ c.dirty = "unknown"
    <3> DEFINE c == [op |-> "delete", by |-> by, note |-> n, dirty |-> "unknown"]
    <3>1. c \in Call /\ c.op = "delete" /\ c.note = n /\ c.dirty = "unknown"
      BY DEF Call, Flags
    <3>2. calls' = Append(calls, c)
      BY <2>1 DEF Enqueue
    <3> HIDE DEF c
    <3> QED
      BY <3>1, <3>2
  <2> QED
    BY <2>1
<1>3. CallsMove /\ CallsPass
  BY <1>2 DEF CallsMove, CallsPass
<1>4. Residents' = Residents
  BY DEF Residents
<1>5. \A m \in Note : /\ server[m] \subseteq server'[m]
                      /\ body'[m] \subseteq body[m] \cup server'[m]
                      /\ m = n => body'[m] = {}
  BY <1>0
<1>6. ASSUME NEW r \in Pane, Live(pane'[r], Going'),
             Counted(r, pane[r], calls, Residents, unsynced)
      PROVE  Counted(r, pane'[r], calls', Residents', unsynced')
  <2>1. /\ pane[r].note # n /\ pane'[r].note = pane[r].note /\ pane'[r].dirty = pane[r].dirty
    BY <1>1, <1>6 DEF Live, Similar
  <2>2. CASE calls' = calls
    BY <1>4, <1>6, <2>1, <2>2 DEF Counted
  <2>3. ASSUME NEW c \in Call, calls' = Append(calls, c), c.op = "delete", c.note = n
        PROVE  Counted(r, pane'[r], calls', Residents', unsynced')
    <3>1. Counted(r, pane'[r], Append(calls, c), Residents, unsynced)
      BY <1>0, <1>6, <2>1, <2>3, CountedAppend
    <3> QED
      BY <1>4, <2>3, <3>1
  <2> QED
    BY <1>2, <2>2, <2>3
<1>7. ASSUME NEW m \in unsynced, Unsent(body', server', m), ~Deletes(calls, m)
      PROVE  m \in unsynced' /\ ~Deletes(calls', m)
  <2>1. m # n
    BY <1>5, <1>7 DEF Unsent
  <2>2. CASE calls' = calls
    BY <1>7, <2>2
  <2>3. ASSUME NEW c \in Call, calls' = Append(calls, c), c.note = n PROVE ~Deletes(calls', m)
    BY <1>0, <1>7, <2>1, <2>3, AppendCalls
  <2> QED
    BY <1>2, <1>7, <2>2, <2>3
<1>8. \A r \in Pane : Follows(pane[r], pane'[r])
  BY <1>1 DEF Follows
<1>9. \A r \in Pane : pane[r].phase \in Shown /\ pane[r].attached /\ ~pane'[r].attached =>
                        body'[pane[r].note] = {}
  <2>1. \A r \in Pane : pane[r].attached /\ ~pane'[r].attached => pane[r].note = n
    BY <1>1
  <2> QED
    BY <1>5, <2>1
<1>10. \A m \in Going : \/ m \in Going'
                        \/ /\ body'[m] = {}
                           /\ \A r \in Pane : pane'[r].note = m => ~pane'[r].attached
  <2>1. \A r \in Pane : pane'[r].note = pane[r].note
    BY <1>1 DEF Similar
  <2> QED
    BY <1>1, <1>5, <2>1
<1>11. \A r \in Pane : ~(pane'[r].revoked /\ ~pane[r].revoked)
  BY <1>1
<1>12. Sessions' /\ Bodies' /\ Accounts' /\ Records' /\ CallsTrue(calls', pane')
  BY <1>3, <1>5, <1>6, <1>7, <1>8, <1>9, <1>10, <1>11, TruthFollows DEF Truth
<1>13. OneEach'
  BY <1>1, SimilarOccupies, OneEachFollows DEF Truth
<1> QED
  BY <1>1, <1>3, <1>12, <1>13

LEMMA EvictDropTruth ==
  ASSUME ShapeInv, Truth, NEW p \in Pane, EvictDrop(p)
  PROVE  Truth'
<1> DEFINE n == Head(pane[p].dropping)
           q == [pane[p] EXCEPT !.sweep = "delete"]
           panes == [pane EXCEPT ![p] = q]
<1>0. /\ pane[p] \in Session /\ PaneShape(pane[p]) /\ pane[p].sweep = "drop"
      /\ pane[p].dropping \in Seq(Note) /\ pane[p].dropping # <<>>
      /\ pane \in [Pane -> Session] /\ calls \in Seq(Call) /\ p \in Callers /\ p # "catalog"
  BY NamesAssumption DEF ShapeInv, PanesShape, PaneShape, EvictDrop, Session, CallsShape, Callers
<1>n. n \in Note
  BY <1>0, HeadTailProperties
<1>1. /\ q \in Session /\ Similar(pane[p], q) /\ q.attached = pane[p].attached
      /\ q.revoked = pane[p].revoked
  BY <1>0 DEF Session, Similar
<1>2. /\ DropBody(n, panes) /\ calls' = Enqueue("delete", p, n, "unknown")
      /\ UNCHANGED <<readable, server, resident, unsynced, catalog>>
  BY <1>0 DEF EvictDrop
<1> HIDE DEF q, n
<1>3. panes[p] = q /\ \A r \in Pane : r # p => panes[r] = pane[r]
  BY <1>0
<1> HIDE DEF panes
<1>4. \A r \in Pane : /\ panes[r] \in Session /\ Similar(pane[r], panes[r])
                      /\ panes[r].attached = pane[r].attached
                      /\ panes[r].revoked = pane[r].revoked
  <2>1. \A r \in Pane : r # p => Similar(pane[r], panes[r])
    BY <1>3 DEF Similar
  <2> QED
    BY <1>0, <1>1, <1>3, <2>1
<1>5. Going' = Going
  <2> DEFINE c == [op |-> "delete", by |-> p, note |-> n, dirty |-> "unknown"]
  <2>1. c \in Call /\ c.by # "catalog"
    BY <1>0, <1>n DEF Call, Flags
  <2>2. calls' = Append(calls, c)
    BY <1>2 DEF Enqueue
  <2> HIDE DEF c
  <2> QED
    BY <1>2, <2>1, <2>2, GoingStays
<1>6. /\ Sessions' /\ Bodies' /\ Accounts' /\ OneEach' /\ CallsTrue(calls', pane') /\ Records'
      /\ CallsPass
      /\ \A r \in Pane : Similar(pane[r], pane'[r]) /\ pane'[r].revoked = pane[r].revoked
  BY <1>0, <1>n, <1>2, <1>4, <1>5, DropTruth
<1>7. DenialTrue'
  <2>1. \A r \in Pane : Harmless(pane[r], pane'[r])
    BY <1>6 DEF Similar, Harmless, Shown
  <2> QED
    BY <1>2, <1>6, <2>1, DenialFollows DEF Truth, Residents
<1> QED
  BY <1>6, <1>7 DEF Truth

(* What the reconciliation has called is what it waits for. *)
LEMMA CatalogCalled ==
  ASSUME ShapeInv, NEW n, DeletedBy(calls, "catalog", n)
  PROVE  catalog.pc = "delete" /\ ~catalog.denied
<1>1. PICK i \in 1..Len(calls) : calls[i].op = "delete" /\ calls[i].by = "catalog"
  BY DEF DeletedBy
<1>2. Posted(calls[i], Standing[calls[i].by])
  BY DEF ShapeInv, CallsShape, Queue
<1>3. CatalogAwaits(catalog) = "delete"
  BY <1>1, <1>2, Standings DEF Posted, CatalogStands
<1> QED
  BY <1>3 DEF CatalogAwaits

LEMMA ReconcileDropTruth ==
  ASSUME ShapeInv, Truth, NEW n \in Note, ReconcileDrop(n)
  PROVE  Truth'
<1>0. /\ pane \in [Pane -> Session] /\ calls \in Seq(Call) /\ "catalog" \in Callers
      /\ DropBody(n, pane) /\ UNCHANGED <<readable, server, resident, unsynced>>
      /\ catalog.pc = "drop" /\ CatalogShape
  BY DEF ShapeInv, PanesShape, CallsShape, Callers, ReconcileDrop
<1>1. \A r \in Pane : Similar(pane[r], pane[r])
  BY DEF Similar
<1>2. \/ catalog.denied /\ catalog' = [catalog EXCEPT !.todo = @ \ {n}] /\ calls' = calls
      \/ /\ ~catalog.denied /\ catalog' = [catalog EXCEPT !.pc = "delete"]
         /\ calls' = Enqueue("delete", "catalog", n, "unknown")
  BY DEF ReconcileDrop
<1>3. ASSUME NEW m \in Going, m # n PROVE m \in Going'
  <2>1. m \in catalog.todo /\ m \in catalog'.todo
    BY <1>0, <1>2, <1>3 DEF Going, CatalogShape
  <2>2. ~DeletedBy(calls, "catalog", m)
    BY DEF Going
  <2>3. CASE calls' = calls
    BY <2>1, <2>2, <2>3 DEF Going
  <2>4. CASE calls' = Enqueue("delete", "catalog", n, "unknown")
    <3> DEFINE c == [op |-> "delete", by |-> "catalog", note |-> n, dirty |-> "unknown"]
    <3>1. c \in Call /\ c.note # m
      BY <1>0, <1>3 DEF Call, Flags
    <3>2. calls' = Append(calls, c)
      BY <2>4 DEF Enqueue
    <3> HIDE DEF c
    <3>3. ~DeletedBy(calls', "catalog", m)
      BY <1>0, <2>2, <3>1, <3>2, AppendCalls
    <3> QED
      BY <2>1, <3>3 DEF Going
  <2> QED
    BY <1>2, <2>3, <2>4
<1>4. \/ calls' = calls
      \/ \E by \in Callers : calls' = Enqueue("delete", by, n, "unknown")
  BY <1>0, <1>2
<1>6. /\ Sessions' /\ Bodies' /\ Accounts' /\ OneEach' /\ CallsTrue(calls', pane') /\ Records'
      /\ \A r \in Pane : Similar(pane[r], pane'[r]) /\ pane'[r].revoked = pane[r].revoked
  BY <1>0, <1>1, <1>3, <1>4, DropTruth
<1>7. DenialTrue'
  <2>1. CASE catalog.denied
    <3>1. /\ catalog'.pc = "drop" /\ catalog'.denied /\ catalog'.answer = catalog.answer
      BY <1>0, <1>2, <2>1 DEF CatalogShape
    <3>2. /\ readable = {} /\ catalog.answer = {}
          /\ \A r \in Pane : ~pane[r].revoked => ~pane[r].synced /\ pane[r].phase # "fetched"
      BY <1>0, <2>1 DEF Truth, DenialTrue
    <3>3. \A r \in Pane : ~pane'[r].revoked => ~pane'[r].synced /\ pane'[r].phase # "fetched"
      BY <1>6, <3>2 DEF Similar, Shown
    <3> QED
      BY <1>0, <3>1, <3>2, <3>3 DEF DenialTrue
  <2>2. CASE ~catalog.denied
    <3>1. ~catalog'.denied
      BY <1>0, <1>2, <2>2 DEF CatalogShape
    <3> QED
      BY <3>1 DEF DenialTrue
  <2> QED
    BY <2>1, <2>2
<1> QED
  BY <1>6, <1>7 DEF Truth

(* The panes stay as they are, but for sweeps, and so do the bodies. *)
LEMMA RestTruth ==
  ASSUME ShapeInv, Truth, CallsMove, UNCHANGED <<server, body>>,
         \A r \in Pane : /\ Similar(pane[r], pane'[r])
                         /\ pane'[r].attached = pane[r].attached
                         /\ pane'[r].revoked /\ ~pane[r].revoked => pane[r].note \in Going',
         Going \subseteq Going',
         \A r \in Pane :
           /\ Live(pane[r], Going) /\ Live(pane'[r], Going')
           /\ Counted(r, pane[r], calls, Residents, unsynced)
           => Counted(r, pane'[r], calls', Residents', unsynced'),
         \A n \in unsynced :
           Unsent(body, server, n) /\ n \notin Going' /\ ~Deletes(calls, n) =>
             LiveDirty(pane, Going, n) \/ (n \in unsynced' /\ ~Deletes(calls', n))
  PROVE  Sessions' /\ Bodies' /\ Accounts' /\ OneEach' /\ CallsTrue(calls', pane') /\ Records'
<1>1. \A r \in Pane : Follows(pane[r], pane'[r])
  BY DEF Follows
<1>2. \A n \in Note : /\ server[n] \subseteq server'[n]
                      /\ body'[n] \subseteq body[n] \cup server'[n]
  OBVIOUS
<1>3. \A r \in Pane : ~(pane[r].phase \in Shown /\ pane[r].attached /\ ~pane'[r].attached)
  OBVIOUS
<1>4. \A n \in unsynced :
        Unsent(body', server', n) /\ n \notin Going' /\ ~Deletes(calls, n) =>
          LiveDirty(pane, Going, n) \/ (n \in unsynced' /\ ~Deletes(calls', n))
  BY DEF Unsent
<1>5. Sessions' /\ Bodies' /\ Accounts' /\ Records' /\ CallsTrue(calls', pane')
  BY <1>1, <1>2, <1>3, <1>4, TruthFollows DEF Truth
<1>6. OneEach'
  BY SimilarOccupies, OneEachFollows DEF Truth
<1> QED
  BY <1>5, <1>6

(* The reconciliation calls what deletes nothing. *)
LEMMA CatalogTruth ==
  ASSUME ShapeInv, Truth, UNCHANGED <<server, body, resident, unsynced>>,
         \A r \in Pane : /\ Similar(pane[r], pane'[r])
                         /\ pane'[r].attached = pane[r].attached
                         /\ pane'[r].revoked /\ ~pane[r].revoked => pane[r].note \in Going',
         Going \subseteq Going',
         \/ calls' = calls
         \/ \E op \in {"list", "clear"} : calls' = Enqueue(op, "catalog", NoNote, "unknown")
  PROVE  Sessions' /\ Bodies' /\ Accounts' /\ OneEach' /\ CallsTrue(calls', pane') /\ Records'
<1>0. calls \in Seq(Call) /\ "catalog" \in Callers /\ "catalog" \notin Pane
  BY NamesAssumption DEF ShapeInv, CallsShape, Callers
<1>1. \/ calls' = calls
      \/ \E c \in Call : /\ calls' = Append(calls, c) /\ c.op \in {"list", "clear"}
                         /\ c.by = "catalog" /\ c.dirty = "unknown"
  <2>1. ASSUME NEW op \in {"list", "clear"}, calls' = Enqueue(op, "catalog", NoNote, "unknown")
        PROVE  \E c \in Call : /\ calls' = Append(calls, c) /\ c.op \in {"list", "clear"}
                               /\ c.by = "catalog" /\ c.dirty = "unknown"
    <3> DEFINE c == [op |-> op, by |-> "catalog", note |-> NoNote, dirty |-> "unknown"]
    <3>1. c \in Call /\ c.op \in {"list", "clear"} /\ c.by = "catalog" /\ c.dirty = "unknown"
      BY <1>0 DEF Call, Flags
    <3>2. calls' = Append(calls, c)
      BY <2>1 DEF Enqueue
    <3> HIDE DEF c
    <3> QED
      BY <3>1, <3>2
  <2> QED
    BY <2>1
<1>2. CallsMove
  BY <1>1 DEF CallsMove
<1>3. Residents' = Residents
  BY DEF Residents
<1>4. ASSUME NEW r \in Pane, Counted(r, pane[r], calls, Residents, unsynced)
      PROVE  Counted(r, pane'[r], calls', Residents', unsynced')
  <2>1. pane'[r].note = pane[r].note /\ pane'[r].dirty = pane[r].dirty /\ r # "catalog"
    BY <1>0 DEF Similar
  <2>2. CASE calls' = calls
    BY <1>3, <1>4, <2>1, <2>2 DEF Counted
  <2>3. ASSUME NEW c \in Call, calls' = Append(calls, c), c.op \in {"list", "clear"}
        PROVE  Counted(r, pane'[r], calls', Residents', unsynced')
    <3>1. Counted(r, pane'[r], Append(calls, c), Residents, unsynced)
      BY <1>0, <1>4, <2>1, <2>3, CountedAppend
    <3> QED
      BY <1>3, <2>3, <3>1
  <2> QED
    BY <1>1, <2>2, <2>3
<1>5. ASSUME NEW n \in unsynced, ~Deletes(calls, n) PROVE n \in unsynced' /\ ~Deletes(calls', n)
  <2>1. CASE calls' = calls
    BY <1>5, <2>1
  <2>2. ASSUME NEW c \in Call, calls' = Append(calls, c), c.op # "delete" PROVE ~Deletes(calls', n)
    BY <1>0, <1>5, <2>2, AppendCalls
  <2> QED
    BY <1>1, <2>1, <2>2
<1> QED
  BY <1>2, <1>4, <1>5, RestTruth

LEMMA ReconcileTruth ==
  ASSUME ShapeInv, Truth, NEW denied \in BOOLEAN, Reconcile(denied)
  PROVE  Truth'
<1> DEFINE answer == IF denied THEN {} ELSE readable
           ending == Revoked(answer)
<1>1. /\ pane' = [p \in Pane |->
           IF p \in ending THEN [pane[p] EXCEPT !.revoked = TRUE] ELSE pane[p]]
      /\ catalog' = [pc |-> "list", denied |-> denied, answer |-> answer,
                     todo |-> {pane[p].note : p \in ending}]
      /\ calls' = Enqueue("list", "catalog", NoNote, "unknown")
      /\ catalog.pc = "idle" /\ catalog.todo = {}
      /\ UNCHANGED <<readable, server, body, resident, unsynced>>
      /\ denied => readable = {}
  BY DEF Reconcile, stores, ShapeInv, CatalogShape
<1>2. \A p \in Pane : p \in ending <=> pane[p].phase # "closed" /\ pane[p].note \notin answer
  BY DEF Revoked
<1>0. denied => answer = {}
  OBVIOUS
<1> HIDE DEF ending, answer
<1>3. ASSUME NEW p \in Pane
      PROVE  /\ Similar(pane[p], pane'[p]) /\ pane'[p].attached = pane[p].attached
             /\ pane'[p].revoked <=> pane[p].revoked \/ p \in ending
             /\ pane'[p].phase = pane[p].phase
  <2> DEFINE q == [pane[p] EXCEPT !.revoked = TRUE]
  <2>1. pane[p] \in Session
    BY DEF ShapeInv, PanesShape
  <2>2. /\ Similar(pane[p], q) /\ q.attached = pane[p].attached /\ q.revoked
        /\ q.phase = pane[p].phase
    BY <2>1 DEF Session, Similar
  <2>3. pane'[p] = IF p \in ending THEN q ELSE pane[p]
    BY <1>1
  <2> HIDE DEF q
  <2>4. Similar(pane[p], pane[p])
    BY DEF Similar
  <2> QED
    BY <2>2, <2>3, <2>4
<1>c. /\ calls \in Seq(Call) /\ "catalog" \in Callers /\ "catalog" \notin Pane
  BY NamesAssumption DEF ShapeInv, CallsShape, Callers
<1> DEFINE c == [op |-> "list", by |-> "catalog", note |-> NoNote, dirty |-> "unknown"]
<1>4. c \in Call /\ c.op = "list" /\ c.by = "catalog" /\ calls' = Append(calls, c)
  BY <1>1, <1>c DEF Call, Flags, Enqueue
<1> HIDE DEF c
<1>5. \A n : ~DeletedBy(calls', "catalog", n)
  <2>1. \A n : ~DeletedBy(calls, "catalog", n)
    BY <1>1, CatalogCalled
  <2> QED
    BY <1>c, <1>4, <2>1, AppendCalls
<1>6. Going = {} /\ \A p \in ending : p \in Pane => pane[p].note \in Going'
  BY <1>1, <1>5 DEF Going
<1>7. Sessions' /\ Bodies' /\ Accounts' /\ OneEach' /\ CallsTrue(calls', pane') /\ Records'
  BY <1>1, <1>3, <1>6, CatalogTruth
<1>8. ASSUME denied PROVE DenialTrue'
  <2>1. ASSUME NEW p \in Pane, ~pane'[p].revoked
        PROVE  pane'[p].phase = "closed" /\ ~pane'[p].synced
    <3>1. pane'[p].phase = "closed" /\ pane[p].phase = "closed"
      BY <1>0, <1>2, <1>3, <1>8, <2>1
    <3>2. Closed.synced = FALSE /\ pane[p] = Closed
      BY <3>1 DEF Closed, ShapeInv, PanesShape, PaneShape
    <3> QED
      BY <1>3, <3>1, <3>2 DEF Similar
  <2>2. ListsFirst(calls', pane')
    <3>1. /\ Len(calls) \in Nat /\ Len(calls') = Len(calls) + 1 /\ calls'[Len(calls) + 1] = c
          /\ \A i \in 1..Len(calls) : calls'[i] = calls[i]
      BY <1>c, <1>4, LenProperties, AppendProperties
    <3>2. \A i \in 1..Len(calls') : i < Len(calls) + 1 => i \in 1..Len(calls) /\ calls'[i] = calls[i]
      BY <3>1
    <3>3. ASSUME NEW i \in 1..Len(calls), calls[i].op = "ask" PROVE pane'[calls[i].by].revoked
      <4>1. calls[i].by \in Pane /\ pane[calls[i].by].phase = "asking"
        BY <3>3, Asking
      <4>2. calls[i].by \in ending
        BY <1>0, <1>2, <1>8, <4>1
      <4> QED
        BY <1>3, <4>1, <4>2
    <3>4. Len(calls) + 1 \in 1..Len(calls')
      BY <3>1
    <3>5. \A i \in 1..Len(calls') : i < Len(calls) + 1 /\ calls'[i].op = "ask" =>
            pane'[calls'[i].by].revoked
      BY <3>2, <3>3
    <3> QED
      BY <1>4, <3>1, <3>4, <3>5 DEF ListsFirst
  <2>3. catalog'.pc = "list" /\ catalog'.answer = {} /\ readable' = {}
    BY <1>0, <1>1, <1>8
  <2> QED
    BY <2>1, <2>2, <2>3 DEF DenialTrue
<1>9. ASSUME ~denied PROVE DenialTrue'
  <2>1. ~catalog'.denied
    BY <1>1, <1>9
  <2> QED
    BY <2>1 DEF DenialTrue
<1> QED
  BY <1>7, <1>8, <1>9 DEF Truth

LEMMA ReconcileGoesOn ==
  ASSUME ShapeInv, Truth, ReconcilePins \/ ReconcileDenied \/ ReconcileDone
  PROVE  Truth'
<1>1. /\ UNCHANGED <<readable, server, body, resident, unsynced, pane>>
      /\ \/ calls' = calls
         \/ \E op \in {"list", "clear"} : calls' = Enqueue(op, "catalog", NoNote, "unknown")
      /\ CatalogShape /\ calls \in Seq(Call) /\ "catalog" \in Callers
  BY DEF ReconcilePins, ReconcileDenied, ReconcileDone, stores, ShapeInv, CallsShape, Callers
<1>2. /\ catalog'.todo = catalog.todo /\ catalog'.denied = catalog.denied
      /\ catalog'.answer = catalog.answer
      /\ catalog.pc \in {"pins", "clear", "drop"}
      /\ catalog'.pc = "delete" => catalog.pc = "clear"
      /\ catalog'.pc \in {"idle", "drop", "delete"}
  BY <1>1 DEF ReconcilePins, ReconcileDenied, ReconcileDone, CatalogShape
<1>3. Going' = Going
  <2>1. \/ calls' = calls
        \/ \E c \in Call : calls' = Append(calls, c) /\ ~(c.op = "delete" /\ c.by = "catalog")
    <3>1. ASSUME NEW op \in {"list", "clear"}, calls' = Enqueue(op, "catalog", NoNote, "unknown")
          PROVE  \E c \in Call : calls' = Append(calls, c) /\ ~(c.op = "delete" /\ c.by = "catalog")
      <4> DEFINE c == [op |-> op, by |-> "catalog", note |-> NoNote, dirty |-> "unknown"]
      <4>1. c \in Call /\ c.op = op
        BY <1>1 DEF Call, Flags
      <4>2. calls' = Append(calls, c)
        BY <3>1 DEF Enqueue
      <4> HIDE DEF c
      <4> QED
        BY <4>1, <4>2
    <3> QED
      BY <1>1, <3>1
  <2> QED
    BY <1>2, <2>1, GoingStays
<1>4. \A r \in Pane : Similar(pane[r], pane'[r]) /\ pane'[r] = pane[r]
  BY <1>1 DEF Similar
<1>5. Sessions' /\ Bodies' /\ Accounts' /\ OneEach' /\ CallsTrue(calls', pane') /\ Records'
  BY <1>1, <1>3, <1>4, CatalogTruth
<1>6. DenialTrue'
  <2> SUFFICES ASSUME catalog.denied, catalog'.pc # "idle" PROVE DenialTrue'
    BY <1>2 DEF DenialTrue
  <2>1. /\ readable = {} /\ catalog.answer = {}
        /\ \A p \in Pane : ~pane[p].revoked => ~pane[p].synced /\ pane[p].phase # "fetched"
        /\ catalog.pc = "clear" =>
             /\ Residents \subseteq catalog.todo
             /\ \A p \in Pane : ~pane[p].revoked /\ pane[p].resident => pane[p].note \in catalog.todo
    BY <1>2 DEF Truth, DenialTrue
  <2>2. Residents' = Residents
    BY <1>1 DEF Residents
  <2> QED
    BY <1>1, <1>2, <2>1, <2>2 DEF DenialTrue
<1> QED
  BY <1>5, <1>6 DEF Truth

-----------------------------------------------------------------------------
(* The transactions that run. *)
LEMMA HeadCall ==
  ASSUME ShapeInv, Truth, calls # <<>>, NEW c, c = Head(calls)
  PROVE  /\ c \in Call /\ CallTrue(c, pane) /\ calls \in Seq(Call)
         /\ c.op \notin {"open", "measure"} => c.dirty = "unknown"
<1>1. calls \in Seq(Call)
  BY DEF ShapeInv, CallsShape
<1>2. c \in Call
  BY <1>1, TailParts
<1>3. \A i \in 1..Len(calls) : calls[i].by \in Pane =>
        /\ pane[calls[i].by].opened => pane[calls[i].by].opened
        /\ pane[calls[i].by].synced => pane[calls[i].by].synced
  OBVIOUS
<1>4. CallTrue(c, pane)
  BY <1>1, <1>3, CallsTrueCalls DEF Truth
<1> QED
  BY <1>1, <1>2, <1>4 DEF CallTrue

LEMMA RunAskTruth == ASSUME ShapeInv, Truth, RunAsk PROVE Truth'
<1> DEFINE c == Head(calls)
           p == c.by
           here == c.note \in Residents
           q == [pane[p] EXCEPT !.resident = here, !.phase = "loading"]
<1>0. /\ calls # <<>> /\ c.op = "ask" /\ calls' = Tail(calls)
      /\ UNCHANGED <<readable, server, resident, unsynced, body, catalog>>
  BY DEF RunAsk, Run, stores
<1>1. p \in Pane /\ Posted(c, PaneStands(pane[p])) /\ c.note = pane[p].note
  BY <1>0, NextCall
<1>c. c \in Call /\ c.dirty = "unknown" /\ calls \in Seq(Call)
  BY <1>0, HeadCall
<1>2. /\ pane[p] \in Session /\ PaneShape(pane[p]) /\ SessionTrue(pane[p], server)
      /\ pane \in [Pane -> Session]
  BY <1>1, PaneTruth DEF ShapeInv, PanesShape
<1>3. pane[p].phase = "asking" /\ pane[p].note \in Note
  BY <1>0, <1>1, <1>2 DEF Posted, PaneStands, PaneAwaits, PaneShape
<1>4. pane' = [pane EXCEPT ![p] = q]
  BY DEF RunAsk, ShapeInv, PanesShape
<1>b. here \in BOOLEAN
  OBVIOUS
<1> HIDE DEF here
<1>5. /\ q.phase = "loading" /\ q.note = pane[p].note /\ q.resident = here
      /\ q.pending = {} /\ ~q.synced /\ ~q.opened /\ q.revoked = pane[p].revoked
  BY <1>2, <1>3, <1>b DEF Session, SessionTrue, Shown
<1> HIDE DEF q
<1>6. pane'[p] = q /\ \A r \in Pane : r # p => pane'[r] = pane[r]
  BY <1>1, <1>2, <1>4
<1>7. \A r \in Pane : /\ Follows(pane[r], pane'[r])
                      /\ r # p => Similar(pane[r], pane'[r])
                      /\ pane'[r].revoked = pane[r].revoked
                      /\ pane[r].phase \in Shown => pane'[r] = pane[r]
  <2>1. Follows(pane[p], q) /\ pane[p].phase \notin Shown
    BY <1>3, <1>5 DEF Follows, Hidden, Shown
  <2>2. \A r \in Pane : Similar(pane[r], pane[r])
    BY DEF Similar
  <2> QED
    BY <1>5, <1>6, <2>1, <2>2 DEF Follows
<1>8. CallsMove /\ Going' = Going /\ Residents' = Residents
  <2>1. ~(Head(calls).op = "delete" /\ Head(calls).by = "catalog")
    BY <1>0
  <2>2. Going' = Going
    BY <1>0, <2>1, GoingStays
  <2> QED
    BY <1>0, <2>2 DEF CallsMove, Residents
<1>9. ASSUME NEW r \in Pane, Live(pane[r], Going), Counted(r, pane[r], calls, Residents, unsynced)
      PROVE  Counted(r, pane'[r], calls', Residents', unsynced')
  <2>1. pane'[r] = pane[r]
    BY <1>7, <1>9 DEF Live
  <2>2. Counted(r, pane[r], Tail(calls), Residents, unsynced)
    BY <1>0, <1>c, <1>9, CountedTail
  <2> QED
    BY <1>0, <1>8, <2>1, <2>2
<1>10. \A n \in unsynced : ~Deletes(calls, n) => n \in unsynced' /\ ~Deletes(calls', n)
  BY <1>0, <1>c, TailCalls
<1>11. Sessions' /\ Bodies' /\ Accounts' /\ Records' /\ CallsTrue(calls', pane')
  <2>1. \A n \in Note : /\ server[n] \subseteq server'[n]
                        /\ body'[n] \subseteq body[n] \cup server'[n]
    BY <1>0
  <2>2. \A r \in Pane : ~(pane[r].phase \in Shown /\ pane[r].attached /\ ~pane'[r].attached)
    BY <1>7
  <2> QED
    BY <1>7, <1>8, <1>9, <1>10, <2>1, <2>2, TruthFollows DEF Truth
<1>12. OneEach'
  <2>1. \A r \in Pane : Occupies(pane'[r]) => Occupies(pane[r]) /\ pane'[r].note = pane[r].note
    BY <1>3, <1>5, <1>6 DEF Occupies
  <2> QED
    BY <2>1, OneEachFollows DEF Truth
<1>13. DenialTrue'
  <2> SUFFICES ASSUME catalog.denied, catalog.pc # "idle" PROVE DenialTrue'
    BY <1>0 DEF DenialTrue
  <2>1. DenialTrue
    BY DEF Truth
  <2>2. readable = {} /\ catalog.answer = {}
    BY <2>1 DEF DenialTrue
  <2>3. \A r \in Pane : ~pane'[r].revoked => ~pane'[r].synced /\ pane'[r].phase # "fetched"
    BY <1>5, <1>6, <2>1 DEF DenialTrue
  <2>4. ASSUME catalog.pc = "list"
        PROVE  /\ \A r \in Pane : ~pane'[r].revoked =>
                    pane'[r].phase \in {"closed", "asking", "fetching"}
               /\ ListsFirst(calls', pane')
    <3>1. /\ ListsFirst(calls, pane)
          /\ \A r \in Pane : ~pane[r].revoked => pane[r].phase \in {"closed", "asking", "fetching"}
      BY <2>1, <2>4 DEF DenialTrue
    <3>2. \A i \in 1..Len(calls) : calls[i].op = "ask" /\ pane[calls[i].by].revoked =>
            pane'[calls[i].by].revoked
      BY <1>7, Asking
    <3>3. /\ ~(Head(calls).op = "list" /\ Head(calls).by = "catalog") => ListsFirst(Tail(calls), pane')
          /\ Head(calls).op = "ask" => pane[Head(calls).by].revoked
      BY <1>c, <3>1, <3>2, ListsCalls
    <3>4. pane[p].revoked /\ ListsFirst(calls', pane')
      BY <1>0, <3>3
    <3> QED
      BY <1>5, <1>6, <3>1, <3>4
  <2>5. ASSUME catalog.pc \in {"clear", "delete"}
        PROVE  /\ Residents' \subseteq catalog.todo
               /\ \A r \in Pane : ~pane'[r].revoked /\ pane'[r].resident => pane'[r].note \in catalog.todo
    <3>1. /\ Residents \subseteq catalog.todo
          /\ \A r \in Pane : ~pane[r].revoked /\ pane[r].resident => pane[r].note \in catalog.todo
      BY <2>1, <2>5 DEF DenialTrue
    <3>2. q.resident => q.note \in catalog.todo
      BY <1>1, <1>5, <3>1 DEF here
    <3> QED
      BY <1>6, <1>8, <3>1, <3>2
  <2> QED
    BY <1>0, <2>2, <2>3, <2>4, <2>5 DEF DenialTrue
<1> QED
  BY <1>11, <1>12, <1>13 DEF Truth

LEMMA RunEvictListTruth == ASSUME ShapeInv, Truth, RunEvictList PROVE Truth'
<1> DEFINE c == Head(calls)
           p == c.by
           dropping == Evictable(pane[p].pinned)
           q == [pane[p] EXCEPT !.dropping = dropping,
                                !.sweep = IF dropping = <<>> THEN "none" ELSE "drop"]
<1>0. /\ calls # <<>> /\ c.op = "list" /\ p \in Pane /\ p # "catalog" /\ calls' = Tail(calls)
      /\ UNCHANGED <<readable, server, resident, unsynced, body, catalog>>
  BY NamesAssumption DEF RunEvictList, Run, stores
<1>c. c \in Call /\ c.dirty = "unknown" /\ calls \in Seq(Call)
  BY <1>0, HeadCall
<1>1. pane[p] \in Session /\ pane \in [Pane -> Session]
  BY <1>0 DEF ShapeInv, PanesShape
<1>2. pane' = [pane EXCEPT ![p] = q]
  BY <1>0 DEF RunEvictList, ShapeInv, PanesShape
<1> HIDE DEF dropping
<1>3. /\ Similar(pane[p], q) /\ q.attached = pane[p].attached /\ q.revoked = pane[p].revoked
      /\ q.phase = pane[p].phase
  BY <1>1 DEF Similar, Session
<1> HIDE DEF q
<1>4. \A r \in Pane : /\ Similar(pane[r], pane'[r]) /\ pane'[r].attached = pane[r].attached
                      /\ pane'[r].revoked = pane[r].revoked /\ pane'[r].phase = pane[r].phase
  <2>1. pane'[p] = q /\ \A r \in Pane : r # p => pane'[r] = pane[r]
    BY <1>0, <1>1, <1>2
  <2>2. \A r \in Pane : Similar(pane[r], pane[r])
    BY DEF Similar
  <2> QED
    BY <1>3, <2>1, <2>2
<1>5. CallsMove /\ CallsPass /\ Going' = Going /\ Residents' = Residents
  <2>1. ~(Head(calls).op = "delete" /\ Head(calls).by = "catalog")
    BY <1>0
  <2>2. Going' = Going
    BY <1>0, <2>1, GoingStays
  <2> QED
    BY <1>0, <2>2 DEF CallsMove, CallsPass, Residents
<1>6. ASSUME NEW r \in Pane, Counted(r, pane[r], calls, Residents, unsynced)
      PROVE  Counted(r, pane'[r], calls', Residents', unsynced')
  <2>1. pane'[r].note = pane[r].note /\ pane'[r].dirty = pane[r].dirty
    BY <1>4 DEF Similar
  <2>2. Counted(r, pane'[r], Tail(calls), Residents, unsynced)
    BY <1>0, <1>c, <1>6, <2>1, CountedTail
  <2> QED
    BY <1>0, <1>5, <2>2
<1>7. \A n \in unsynced : ~Deletes(calls, n) => n \in unsynced' /\ ~Deletes(calls', n)
  BY <1>0, <1>c, TailCalls
<1>8. Sessions' /\ Bodies' /\ Accounts' /\ OneEach' /\ CallsTrue(calls', pane') /\ Records'
  BY <1>0, <1>4, <1>5, <1>6, <1>7, RestTruth
<1>9. DenialTrue'
  <2>1. \A r \in Pane : Harmless(pane[r], pane'[r])
    BY <1>4 DEF Similar, Harmless
  <2> QED
    BY <1>0, <1>4, <1>5, <2>1, DenialFollows DEF Truth
<1> QED
  BY <1>8, <1>9 DEF Truth

LEMMA RunSizeTruth == ASSUME ShapeInv, Truth, RunSize PROVE Truth'
<1> DEFINE c == Head(calls)
           p == c.by
           t == Tail(calls)
<1>0. /\ calls # <<>> /\ c.op = "size" /\ calls' = t
      /\ UNCHANGED <<readable, server, resident, unsynced, body, catalog>>
      /\ pane' = [pane EXCEPT ![p] = Closed]
  BY DEF RunSize, Run, stores
<1>1. p \in Pane /\ p # "catalog"
  BY <1>0, NextCall, NamesAssumption
<1>c. c \in Call /\ c.dirty = "unknown" /\ calls \in Seq(Call)
  BY <1>0, HeadCall
<1>2. pane'[p] = Closed /\ \A r \in Pane : r # p => pane'[r] = pane[r]
  BY <1>0, <1>1 DEF ShapeInv, PanesShape
<1>3. /\ Closed.phase = "closed" /\ Closed.pending = {} /\ ~Closed.synced /\ ~Closed.opened
      /\ ~Closed.resident
  BY DEF Closed
<1>4. /\ c = calls[1] /\ 1 \in 1..Len(calls)
      /\ \A i \in 1..Len(t) : t[i] = calls[i + 1] /\ i + 1 \in 1..Len(calls) /\ i + 1 # 1
  BY <1>0, <1>c, TailParts
<1>5. \A i \in 1..Len(calls) : calls[i].by = p => i = 1
  <2>1. \A j \in 1..Len(calls) : calls[1].by = calls[j].by => j <= 1
    BY <1>0, <1>4 DEF ShapeInv, CallsShape, Queue
  <2> QED
    BY <1>4, <2>1
<1>6. ASSUME Live(pane[p], Going), pane[p].dirty = "dirty"
      PROVE  pane[p].note \in unsynced /\ ~Deletes(calls, pane[p].note)
  <2>1. Counted(p, pane[p], calls, Residents, unsynced)
    BY <1>1, <1>6 DEF Truth, Accounts
  <2>2. ~Opens(calls, p)
    BY <1>0, <1>4, <1>5 DEF Opens
  <2>3. ~SaysDirty(calls, p)
    BY <1>c, <1>4, <1>5 DEF SaysDirty
  <2>4. ~Deletes(calls, pane[p].note)
    BY <2>1, <2>2 DEF Counted, DeletesBeforeOpen, Deletes, Opens
  <2> QED
    BY <1>6, <2>1, <2>3, <2>4 DEF Counted
<1>7. Going' = Going /\ Residents' = Residents /\ CallsPass
  <2>1. ~(Head(calls).op = "delete" /\ Head(calls).by = "catalog")
    BY <1>0
  <2>2. Going' = Going
    BY <1>0, <2>1, GoingStays
  <2> QED
    BY <1>0, <2>2 DEF CallsPass, Residents
<1> HIDE DEF t
<1>8. Sessions'
  <2>1. \A r \in Pane : SessionTrue(pane'[r], server)
    BY <1>2, <1>3 DEF Truth, Sessions, SessionTrue, Shown
  <2> QED
    BY <1>0, <2>1 DEF Sessions
<1>9. Bodies'
  <2>1. \A r \in Pane : BodyTrue(pane'[r], body, server, Going)
    BY <1>2, <1>3 DEF Truth, Bodies, BodyTrue, Shown
  <2> QED
    BY <1>0, <1>7, <2>1 DEF Bodies
<1>10. Accounts'
  <2>1. ASSUME NEW r \in Pane, Live(pane'[r], Going)
        PROVE  Counted(r, pane'[r], calls', Residents, unsynced)
    <3>1. r # p
      BY <1>2, <1>3, <2>1 DEF Live, Shown
    <3>2. Counted(r, pane[r], calls, Residents, unsynced) /\ pane'[r] = pane[r]
      BY <1>2, <2>1, <3>1 DEF Truth, Accounts
    <3>3. Counted(r, pane[r], Tail(calls), Residents, unsynced)
      BY <1>0, <1>c, <3>2, CountedTail
    <3> QED
      BY <1>0, <3>2, <3>3 DEF t
  <2> QED
    BY <1>0, <1>7, <2>1 DEF Accounts
<1>11. OneEach'
  <2>1. \A r \in Pane : Occupies(pane'[r]) => Occupies(pane[r]) /\ pane'[r].note = pane[r].note
    BY <1>2, <1>3 DEF Occupies, Shown
  <2> QED
    BY <2>1, OneEachFollows DEF Truth
<1>12. CallsTrue(calls', pane')
  <2>1. ASSUME NEW i \in 1..Len(t) PROVE CallTrue(t[i], pane')
    <3>1. CallTrue(calls[i + 1], pane) /\ calls[i + 1].by # p /\ t[i] = calls[i + 1]
      BY <1>4, <1>5 DEF Truth, CallsTrue
    <3> QED
      BY <1>2, <3>1 DEF CallTrue
  <2> QED
    BY <1>0, <2>1 DEF CallsTrue
<1>13. Records'
  <2>1. ASSUME NEW n \in Note, Unsent(body, server, n), n \notin Going
        PROVE  LiveDirty(pane', Going, n) \/ (n \in unsynced /\ ~Deletes(calls', n))
    <3>1. LiveDirty(pane, Going, n) \/ (n \in unsynced /\ ~Deletes(calls, n))
      BY <2>1 DEF Truth, Records, RecordTrue
    <3>2. ~Deletes(calls, n) => ~Deletes(calls', n)
      BY <1>0, <1>c, TailCalls DEF t
    <3>3. CASE LiveDirty(pane, Going, n)
      <4>1. PICK r \in Pane : Live(pane[r], Going) /\ pane[r].note = n /\ pane[r].dirty = "dirty"
        BY <3>3 DEF LiveDirty
      <4>2. CASE r = p
        BY <1>6, <3>2, <4>1, <4>2
      <4>3. CASE r # p
        BY <1>2, <4>1, <4>3 DEF LiveDirty
      <4> QED
        BY <4>2, <4>3
    <3> QED
      BY <3>1, <3>2, <3>3
  <2> QED
    BY <1>0, <1>7, <2>1 DEF Records, RecordTrue
<1>14. DenialTrue'
  <2>1. \A r \in Pane : Harmless(pane[r], pane'[r])
    BY <1>2, <1>3 DEF Harmless
  <2>2. pane[p].phase # "asking"
    <3>1. Posted(c, PaneStands(pane[p])) /\ PaneShape(pane[p])
      BY <1>0, <1>1, NextCall DEF ShapeInv, PanesShape
    <3> QED
      BY <1>0, <3>1 DEF Posted, PaneStands, PaneAwaits, PaneShape
  <2>3. \A r \in Pane : pane[r].phase = "asking" /\ pane[r].revoked => pane'[r].revoked
    BY <1>2, <2>2
  <2> QED
    BY <1>0, <1>7, <2>1, <2>3, DenialFollows DEF Truth
<1> QED
  BY <1>8, <1>9, <1>10, <1>11, <1>12, <1>13, <1>14 DEF Truth

(* What a session says that its note is all sent, when it is not, another session knows. *)
LEMMA SaysClean ==
  ASSUME ShapeInv, Truth, calls # <<>>, NEW c, c = Head(calls), c.op \in {"open", "measure"},
         c.dirty = "clean", Current(c.by), Unsent(body, server, c.note), c.note \notin Going
  PROVE  LiveDirty(pane, Going, c.note)
<1> DEFINE q == pane[c.by]
<1>1. c.by \in Pane /\ c.note = q.note /\ c.note \in Note
  BY NextCall
<1>2. q.opened /\ q.synced /\ ~q.revoked
  BY HeadCall DEF CallTrue, Current
<1>3. /\ PaneShape(q) /\ SessionTrue(q, server) /\ BodyTrue(q, body, server, Going)
  BY <1>1, PaneTruth
<1>4. q.phase \in Shown
  BY <1>2, <1>3 DEF PaneShape, Shown
<1>5. q.attached /\ q.dirty = Said(q)
  BY <1>1, <1>2, <1>3, <1>4 DEF SessionTrue, BodyTrue
<1>6. q.pending # {}
  BY <1>1, <1>2, <1>3, <1>4, <1>5 DEF SessionTrue, BodyTrue, Unsent
<1>7. q.dirty = "dirty"
  BY <1>5, <1>6 DEF Said
<1> QED
  BY <1>1, <1>2, <1>4, <1>5, <1>7 DEF LiveDirty, Live

(* Who says something of a note is the only session that shows it. *)
LEMMA SaysOne ==
  ASSUME ShapeInv, Truth, calls # <<>>, NEW c, c = Head(calls), c.dirty # "unknown",
         NEW r \in Pane, Live(pane[r], Going), pane[r].note = c.note
  PROVE  r = c.by
<1>1. c.op \in {"open", "measure"} /\ c.by \in Pane /\ pane[c.by].opened
  BY HeadCall DEF CallTrue
<1>2. c.note = pane[c.by].note /\ PaneShape(pane[c.by])
  BY <1>1, NextCall, PaneTruth
<1>3. Occupies(pane[c.by]) /\ Occupies(pane[r])
  BY <1>1, <1>2 DEF PaneShape, Occupies, Shown, Live
<1> QED
  BY <1>1, <1>2, <1>3 DEF Truth, OneEach

LEMMA RunOpenTruth == ASSUME ShapeInv, Truth, RunOpen PROVE Truth'
<1> DEFINE c == Head(calls)
           p == c.by
           on == [pane[p] EXCEPT !.sweep = "pins"]
           q == IF pane[p].phase = "fetched" THEN Closed ELSE on
<1>0. /\ calls # <<>> /\ c.op = "open" /\ calls' = Tail(calls)
      /\ UNCHANGED <<readable, server, body, catalog>> /\ Opened(p, c.note, c.dirty)
  BY DEF RunOpen, Run
<1>1. /\ p \in Pane /\ Posted(c, PaneStands(pane[p])) /\ c.note = pane[p].note /\ c.note \in Note
      /\ c.dirty \in Flags
  BY <1>0, NextCall DEF Call
<1>c. c \in Call /\ calls \in Seq(Call)
  BY <1>0, HeadCall
<1>2. /\ pane[p] \in Session /\ PaneShape(pane[p]) /\ SessionTrue(pane[p], server)
      /\ pane \in [Pane -> Session]
  BY <1>1, PaneTruth DEF ShapeInv, PanesShape
<1>3. pane[p].phase = "fetched" \/ pane[p].sweep = "opening"
  BY <1>0, <1>1 DEF Posted, PaneStands, PaneAwaits
<1>o. pane[p].phase # "fetched" => pane[p].opened /\ pane[p].phase \in Shown
  BY <1>2, <1>3 DEF PaneShape, Shown
<1>4. pane' = [pane EXCEPT ![p] = q]
  BY DEF RunOpen, ShapeInv, PanesShape
<1>5. /\ Residents' = IF Current(p) THEN Residents \cup {c.note} ELSE Residents
      /\ unsynced' = IF Current(p) /\ c.dirty = "dirty" THEN unsynced \cup {c.note}
                     ELSE IF Current(p) /\ c.dirty = "clean" THEN unsynced \ {c.note}
                     ELSE unsynced
  BY <1>0, <1>1, OpenedParts DEF ShapeInv
<1>6. /\ Similar(pane[p], on) /\ on.attached = pane[p].attached /\ on.revoked = pane[p].revoked
      /\ on.phase = pane[p].phase
  BY <1>2 DEF Session, Similar
<1>7. /\ Closed.phase = "closed" /\ Closed.pending = {} /\ ~Closed.synced /\ ~Closed.opened
      /\ ~Closed.resident /\ ~Closed.revoked
  BY DEF Closed
<1>8. /\ Follows(pane[p], q)
      /\ pane[p].phase \in Shown => /\ Similar(pane[p], q) /\ q.attached = pane[p].attached
                                    /\ q.revoked = pane[p].revoked
      /\ q.revoked => pane[p].revoked
      /\ Occupies(q) => Occupies(pane[p]) /\ q.note = pane[p].note
      /\ Harmless(pane[p], q)
  <2>1. CASE pane[p].phase = "fetched"
    <3>1. Hidden(pane[p], Closed)
      BY <1>7, <2>1 DEF Hidden, Shown
    <3> QED
      BY <1>7, <2>1, <3>1 DEF Follows, Harmless, Shown, Occupies
  <2>2. CASE pane[p].phase # "fetched"
    <3>1. Harmless(pane[p], on)
      BY <1>6 DEF Similar, Harmless
    <3>2. Occupies(on) => Occupies(pane[p]) /\ on.note = pane[p].note
      BY <1>6, SimilarOccupies
    <3> QED
      BY <1>6, <2>2, <3>1, <3>2 DEF Follows
  <2> QED
    BY <2>1, <2>2
<1> HIDE DEF q, on
<1>9. pane'[p] = q /\ \A r \in Pane : r # p => pane'[r] = pane[r]
  BY <1>1, <1>2, <1>4
<1>10. \A r \in Pane :
         /\ Follows(pane[r], pane'[r])
         /\ pane[r].phase \in Shown => /\ Similar(pane[r], pane'[r])
                                       /\ pane'[r].attached = pane[r].attached
                                       /\ pane'[r].revoked = pane[r].revoked
         /\ pane'[r].revoked => pane[r].revoked
         /\ Occupies(pane'[r]) => Occupies(pane[r]) /\ pane'[r].note = pane[r].note
         /\ Harmless(pane[r], pane'[r])
  <2>1. \A r \in Pane : Similar(pane[r], pane[r]) /\ Harmless(pane[r], pane[r])
    BY DEF Similar, Harmless
  <2> QED
    BY <1>8, <1>9, <2>1 DEF Follows
<1>11. CallsMove /\ CallsPass /\ Going' = Going
  <2>1. ~(Head(calls).op = "delete" /\ Head(calls).by = "catalog")
    BY <1>0
  <2>2. Going' = Going
    BY <1>0, <2>1, GoingStays
  <2> QED
    BY <1>0, <2>2 DEF CallsMove, CallsPass
<1>12. ASSUME NEW r \in Pane, Live(pane[r], Going), Counted(r, pane[r], calls, Residents, unsynced)
       PROVE  Counted(r, pane'[r], calls', Residents', unsynced')
  <2> DEFINE m == pane[r].note
  <2>1. pane'[r].note = m /\ pane'[r].dirty = pane[r].dirty
    BY <1>10, <1>12 DEF Live, Similar
  <2>2. r = p => Current(p) /\ m = c.note
    BY <1>1, <1>12 DEF Live, Current
  <2>3. m \in Residents => m \in Residents'
    BY <1>5
  <2>4. r = p => m \in Residents' /\ (c.dirty = "dirty" => m \in unsynced')
    BY <1>5, <2>2
  <2>5. m \in unsynced /\ m \notin unsynced' => c.by = r /\ c.dirty # "dirty"
    <3>1. SUFFICES ASSUME m \in unsynced, m \notin unsynced' PROVE c.by = r /\ c.dirty # "dirty"
      OBVIOUS
    <3>2. c.dirty = "clean" /\ m = c.note
      BY <1>5, <3>1
    <3> QED
      BY <1>0, <1>12, <3>2, SaysOne
  <2> HIDE DEF m
  <2>6. Counted(r, pane'[r], Tail(calls), Residents', unsynced')
    BY <1>0, <1>c, <1>12, <2>1, <2>3, <2>4, <2>5, CountedTail DEF m
  <2> QED
    BY <1>0, <2>6
<1>13. ASSUME NEW n \in unsynced, Unsent(body, server, n), n \notin Going, ~Deletes(calls, n)
       PROVE  LiveDirty(pane, Going, n) \/ (n \in unsynced' /\ ~Deletes(calls', n))
  <2>1. ~Deletes(calls', n)
    BY <1>0, <1>c, <1>13, TailCalls
  <2>2. ASSUME n \notin unsynced' PROVE LiveDirty(pane, Going, n)
    <3>1. c.dirty = "clean" /\ n = c.note /\ Current(c.by)
      BY <1>5, <2>2
    <3> QED
      BY <1>0, <1>13, <3>1, SaysClean
  <2> QED
    BY <2>1, <2>2
<1>14. Sessions' /\ Bodies' /\ Accounts' /\ Records' /\ CallsTrue(calls', pane')
  <2>1. \A n \in Note : /\ server[n] \subseteq server'[n]
                        /\ body'[n] \subseteq body[n] \cup server'[n]
    BY <1>0
  <2>2. \A r \in Pane : ~(pane[r].phase \in Shown /\ pane[r].attached /\ ~pane'[r].attached)
    BY <1>10
  <2>3. \A n \in unsynced :
          Unsent(body', server', n) /\ n \notin Going' /\ ~Deletes(calls, n) =>
            LiveDirty(pane, Going, n) \/ (n \in unsynced' /\ ~Deletes(calls', n))
    BY <1>0, <1>11, <1>13
  <2>4. \A r \in Pane : ~(pane'[r].revoked /\ ~pane[r].revoked)
    BY <1>10
  <2>5. \A r \in Pane :
           /\ Live(pane[r], Going) /\ Live(pane'[r], Going')
           /\ Counted(r, pane[r], calls, Residents, unsynced)
           => Counted(r, pane'[r], calls', Residents', unsynced')
    BY <1>12
  <2>6. \A r \in Pane : Follows(pane[r], pane'[r])
    BY <1>10
  <2> QED
    BY <1>11, <2>1, <2>2, <2>3, <2>4, <2>5, <2>6, TruthFollows DEF Truth
<1>15. OneEach'
  BY <1>10, OneEachFollows DEF Truth
<1>16. DenialTrue'
  <2>1. \A r \in Pane : pane[r].phase = "asking" /\ pane[r].revoked => pane'[r].revoked
    <3>1. pane[p].phase # "asking"
      BY <1>o DEF Shown
    <3> QED
      BY <1>9, <3>1
  <2>2. ASSUME catalog.denied, catalog.pc \in {"clear", "delete"}, Residents \subseteq catalog.todo,
               Current(p)
        PROVE  c.note \in catalog.todo
    <3>1. ~pane[p].revoked /\ ~pane[p].synced /\ pane[p].phase # "fetched"
      BY <1>1, <2>2 DEF Current, Truth, DenialTrue
    <3>2. pane[p].resident
      BY <1>2, <1>o, <3>1 DEF SessionTrue
    <3> QED
      BY <1>1, <2>2, <3>1, <3>2 DEF Truth, DenialTrue
  <2>3. catalog.denied /\ catalog.pc \in {"clear", "delete"} /\ Residents \subseteq catalog.todo =>
          Residents' \subseteq catalog.todo
    BY <1>5, <2>2
  <2> QED
    BY <1>0, <1>10, <1>11, <2>1, <2>3, DenialFollows DEF Truth
<1> QED
  BY <1>14, <1>15, <1>16 DEF Truth

LEMMA RunMeasureTruth == ASSUME ShapeInv, Truth, RunMeasure PROVE Truth'
<1> DEFINE c == Head(calls)
           p == c.by
<1>0. /\ calls # <<>> /\ c.op = "measure" /\ calls' = Tail(calls)
      /\ UNCHANGED <<readable, server, body, catalog, pane>> /\ Measured(p, c.note, c.dirty)
  BY DEF RunMeasure, Run
<1>1. /\ p \in Pane /\ c.note = pane[p].note /\ c.note \in Note /\ c.dirty \in Flags
      /\ c = calls[1] /\ 1 \in 1..Len(calls)
  BY <1>0, NextCall DEF Call
<1>c. c \in Call /\ calls \in Seq(Call)
  BY <1>0, HeadCall
<1>2. /\ Residents' = Residents
      /\ unsynced' = IF c.note \in Residents /\ Current(p) /\ c.dirty = "dirty"
                     THEN unsynced \cup {c.note}
                     ELSE IF c.note \in Residents /\ Current(p) /\ c.dirty = "clean"
                     THEN unsynced \ {c.note} ELSE unsynced
  BY <1>0, <1>1, MeasuredParts DEF ShapeInv
<1>3. CallsMove /\ CallsPass /\ Going' = Going
  <2>1. ~(Head(calls).op = "delete" /\ Head(calls).by = "catalog")
    BY <1>0
  <2>2. Going' = Going
    BY <1>0, <2>1, GoingStays
  <2> QED
    BY <1>0, <2>2 DEF CallsMove, CallsPass
<1>4. ~Opens(calls, p)
  <2> SUFFICES ASSUME NEW i \in 1..Len(calls), calls[i].op = "open", calls[i].by = p PROVE FALSE
    BY DEF Opens
  <2>1. i <= 1
    BY <1>1 DEF ShapeInv, CallsShape, Queue
  <2>2. i = 1
    BY <2>1
  <2> QED
    BY <1>0, <1>1, <2>2
<1>5. ASSUME NEW r \in Pane, Live(pane[r], Going), Counted(r, pane[r], calls, Residents, unsynced)
      PROVE  Counted(r, pane[r], calls', Residents', unsynced')
  <2> DEFINE m == pane[r].note
  <2>1. r = p => Current(p) /\ m = c.note /\ m \in Residents
    BY <1>1, <1>4, <1>5 DEF Live, Current, Counted
  <2>2. r = p /\ c.dirty = "dirty" => m \in unsynced'
    BY <1>2, <2>1
  <2>3. m \in unsynced /\ m \notin unsynced' => c.by = r /\ c.dirty # "dirty"
    <3>1. SUFFICES ASSUME m \in unsynced, m \notin unsynced' PROVE c.by = r /\ c.dirty # "dirty"
      OBVIOUS
    <3>2. c.dirty = "clean" /\ m = c.note
      BY <1>2, <3>1
    <3> QED
      BY <1>0, <1>5, <3>2, SaysOne
  <2>4. Counted(r, pane[r], Tail(calls), Residents, unsynced')
    BY <1>0, <1>c, <1>5, <2>2, <2>3, CountedTail
  <2> QED
    BY <1>0, <1>2, <2>4
<1>6. ASSUME NEW n \in unsynced, Unsent(body, server, n), n \notin Going, ~Deletes(calls, n)
      PROVE  LiveDirty(pane, Going, n) \/ (n \in unsynced' /\ ~Deletes(calls', n))
  <2>1. ~Deletes(calls', n)
    BY <1>0, <1>c, <1>6, TailCalls
  <2>2. ASSUME n \notin unsynced' PROVE LiveDirty(pane, Going, n)
    <3>1. c.dirty = "clean" /\ n = c.note /\ Current(c.by)
      BY <1>2, <2>2
    <3> QED
      BY <1>0, <1>6, <3>1, SaysClean
  <2> QED
    BY <2>1, <2>2
<1>7. \A r \in Pane : Similar(pane[r], pane'[r]) /\ pane'[r] = pane[r]
  BY <1>0 DEF Similar
<1>8. Sessions' /\ Bodies' /\ Accounts' /\ OneEach' /\ CallsTrue(calls', pane') /\ Records'
  BY <1>0, <1>3, <1>5, <1>6, <1>7, RestTruth
<1>9. DenialTrue'
  <2>1. \A r \in Pane : Harmless(pane[r], pane'[r])
    BY <1>7 DEF Harmless
  <2> QED
    BY <1>0, <1>2, <1>3, <2>1, DenialFollows DEF Truth
<1> QED
  BY <1>8, <1>9 DEF Truth

(* A record is deleted. *)
LEMMA RunDeleteTruth ==
  ASSUME ShapeInv, Truth, Run("delete"), UNCHANGED <<server, body>>,
         resident' = Without(Head(calls).note), unsynced' = unsynced \ {Head(calls).note},
         \A r \in Pane : /\ Similar(pane[r], pane'[r])
                         /\ pane'[r].attached = pane[r].attached
                         /\ pane'[r].revoked = pane[r].revoked,
         Going \subseteq Going'
  PROVE  /\ Sessions' /\ Bodies' /\ Accounts' /\ OneEach' /\ CallsTrue(calls', pane') /\ Records'
         /\ Residents' \subseteq Residents
<1> DEFINE c == Head(calls)
<1>0. calls # <<>> /\ c.op = "delete" /\ calls' = Tail(calls)
  BY DEF Run
<1>c. c \in Call /\ c.dirty = "unknown" /\ calls \in Seq(Call) /\ c = calls[1] /\ 1 \in 1..Len(calls)
  BY <1>0, HeadCall, NextCall
<1>1. Residents' = Residents \ {c.note}
  BY DeletedParts DEF ShapeInv
<1>2. ASSUME NEW r \in Pane, Counted(r, pane[r], calls, Residents, unsynced)
      PROVE  Counted(r, pane'[r], calls', Residents', unsynced')
  <2>1. pane'[r].note = pane[r].note /\ pane'[r].dirty = pane[r].dirty
    BY DEF Similar
  <2>2. /\ pane[r].note \in Residents => pane[r].note \in Residents' \/ c.note = pane[r].note
        /\ pane[r].note \in unsynced => pane[r].note \in unsynced' \/ c.note = pane[r].note
    BY <1>1
  <2>3. Counted(r, pane'[r], Tail(calls), Residents', unsynced')
    BY <1>0, <1>c, <1>2, <2>1, <2>2, CountedTail
  <2> QED
    BY <1>0, <2>3
<1>3. ASSUME NEW n \in unsynced, ~Deletes(calls, n) PROVE n \in unsynced' /\ ~Deletes(calls', n)
  <2>1. n # c.note
    BY <1>0, <1>c, <1>3 DEF Deletes
  <2>2. ~Deletes(calls', n)
    BY <1>0, <1>c, <1>3, TailCalls
  <2> QED
    BY <2>1, <2>2
<1>4. CallsMove
  BY <1>0 DEF CallsMove
<1>5. Sessions' /\ Bodies' /\ Accounts' /\ OneEach' /\ CallsTrue(calls', pane') /\ Records'
  BY <1>2, <1>3, <1>4, RestTruth
<1> QED
  BY <1>1, <1>5

LEMMA RunEvictDeleteTruth == ASSUME ShapeInv, Truth, RunEvictDelete PROVE Truth'
<1> DEFINE c == Head(calls)
           p == c.by
           rest == Tail(pane[p].dropping)
           q == [pane[p] EXCEPT !.dropping = rest,
                                !.sweep = IF rest = <<>> THEN "none" ELSE "drop"]
<1>0. /\ Run("delete") /\ p \in Pane /\ p # "catalog" /\ UNCHANGED <<readable, server, body, catalog>>
      /\ resident' = Without(c.note) /\ unsynced' = unsynced \ {c.note}
  BY NamesAssumption DEF RunEvictDelete
<1>1. pane[p] \in Session /\ pane \in [Pane -> Session]
  BY <1>0 DEF ShapeInv, PanesShape
<1>2. pane' = [pane EXCEPT ![p] = q]
  BY <1>0 DEF RunEvictDelete, ShapeInv, PanesShape
<1> HIDE DEF rest
<1>3. /\ Similar(pane[p], q) /\ q.attached = pane[p].attached /\ q.revoked = pane[p].revoked
  BY <1>1 DEF Similar, Session
<1> HIDE DEF q
<1>4. \A r \in Pane : /\ Similar(pane[r], pane'[r]) /\ pane'[r].attached = pane[r].attached
                      /\ pane'[r].revoked = pane[r].revoked
  <2>1. pane'[p] = q /\ \A r \in Pane : r # p => pane'[r] = pane[r]
    BY <1>0, <1>1, <1>2
  <2>2. \A r \in Pane : Similar(pane[r], pane[r])
    BY DEF Similar
  <2> QED
    BY <1>3, <2>1, <2>2
<1>5. CallsPass /\ Going' = Going
  <2>1. /\ ~(Head(calls).op = "delete" /\ Head(calls).by = "catalog")
        /\ calls # <<>> /\ calls' = Tail(calls)
    BY <1>0 DEF Run
  <2>2. Going' = Going
    BY <1>0, <2>1, GoingStays
  <2> QED
    BY <1>0, <2>1, <2>2 DEF CallsPass
<1>6. /\ Sessions' /\ Bodies' /\ Accounts' /\ OneEach' /\ CallsTrue(calls', pane') /\ Records'
      /\ Residents' \subseteq Residents
  BY <1>0, <1>4, <1>5, RunDeleteTruth
<1>7. DenialTrue'
  <2>1. \A r \in Pane : Harmless(pane[r], pane'[r])
    BY <1>4 DEF Similar, Harmless, Shown
  <2> QED
    BY <1>0, <1>4, <1>5, <1>6, <2>1, DenialFollows DEF Truth
<1> QED
  BY <1>6, <1>7 DEF Truth

LEMMA RunCatalogDeleteTruth == ASSUME ShapeInv, Truth, RunCatalogDelete PROVE Truth'
<1> DEFINE c == Head(calls)
<1>0. /\ Run("delete") /\ c.by = "catalog" /\ UNCHANGED <<readable, server, body, pane>>
      /\ resident' = Without(c.note) /\ unsynced' = unsynced \ {c.note}
      /\ catalog' = [catalog EXCEPT !.todo = @ \ {c.note}, !.pc = "drop"]
  BY DEF RunCatalogDelete
<1>1. calls # <<>> /\ c.op = "delete" /\ calls' = Tail(calls) /\ calls \in Seq(Call)
  BY <1>0 DEF Run, ShapeInv, CallsShape
<1>2. Posted(c, CatalogStands(catalog))
  BY <1>0, <1>1, NextCall
<1>3. catalog.pc = "delete" /\ ~catalog.denied
  BY <1>1, <1>2 DEF Posted, CatalogStands, CatalogAwaits
<1>4. ~catalog'.denied /\ catalog'.todo = catalog.todo \ {c.note}
  BY <1>0, <1>3 DEF ShapeInv, CatalogShape
<1>5. ASSUME NEW n \in Going PROVE n \in Going'
  <2>1. n \in catalog.todo /\ ~DeletedBy(calls, "catalog", n)
    BY DEF Going
  <2>2. n # c.note /\ ~DeletedBy(calls', "catalog", n)
    BY <1>0, <1>1, <2>1, TailCalls
  <2> QED
    BY <1>4, <2>1, <2>2 DEF Going
<1>6. \A r \in Pane : Similar(pane[r], pane'[r]) /\ pane'[r] = pane[r]
  BY <1>0 DEF Similar
<1>7. Sessions' /\ Bodies' /\ Accounts' /\ OneEach' /\ CallsTrue(calls', pane') /\ Records'
  BY <1>0, <1>5, <1>6, RunDeleteTruth
<1>8. DenialTrue'
  BY <1>4 DEF DenialTrue
<1> QED
  BY <1>7, <1>8 DEF Truth

LEMMA RunCatalogListTruth == ASSUME ShapeInv, Truth, RunCatalogList PROVE Truth'
<1> DEFINE c == Head(calls)
<1>0. /\ calls # <<>> /\ c.op = "list" /\ calls' = Tail(calls) /\ c.by = "catalog"
      /\ catalog' = [catalog EXCEPT !.todo = @ \cup (Residents \ catalog.answer),
                                    !.pc = IF catalog.denied THEN "clear" ELSE "pins"]
      /\ UNCHANGED <<readable, server, resident, unsynced, body, pane>>
  BY DEF RunCatalogList, Run, stores
<1>c. c \in Call /\ c.dirty = "unknown" /\ calls \in Seq(Call)
  BY <1>0, HeadCall
<1>1. Posted(c, CatalogStands(catalog))
  BY <1>0, NextCall
<1>2. catalog.pc = "list"
  BY <1>0, <1>1 DEF Posted, CatalogStands, CatalogAwaits
<1>3. /\ catalog'.todo = catalog.todo \cup (Residents \ catalog.answer)
      /\ catalog'.denied = catalog.denied /\ catalog'.answer = catalog.answer
      /\ catalog'.pc \in {"clear", "pins"} /\ (catalog.denied => catalog'.pc = "clear")
      /\ Residents' = Residents
  BY <1>0 DEF ShapeInv, CatalogShape, Residents
<1>4. ASSUME NEW n \in Going PROVE n \in Going'
  <2>1. n \in catalog.todo /\ ~DeletedBy(calls, "catalog", n)
    BY DEF Going
  <2>2. ~DeletedBy(calls', "catalog", n)
    BY <1>0, <1>c, <2>1, TailCalls
  <2> QED
    BY <1>3, <2>1, <2>2 DEF Going
<1>5. ASSUME NEW r \in Pane, Counted(r, pane[r], calls, Residents, unsynced)
      PROVE  Counted(r, pane'[r], calls', Residents', unsynced')
  <2>1. Counted(r, pane[r], Tail(calls), Residents, unsynced)
    BY <1>0, <1>c, <1>5, CountedTail
  <2> QED
    BY <1>0, <1>3, <2>1
<1>6. \A n \in unsynced : ~Deletes(calls, n) => n \in unsynced' /\ ~Deletes(calls', n)
  BY <1>0, <1>c, TailCalls
<1>7. \A r \in Pane : Similar(pane[r], pane'[r]) /\ pane'[r] = pane[r]
  BY <1>0 DEF Similar
<1>8. CallsMove
  BY <1>0 DEF CallsMove
<1>9. Sessions' /\ Bodies' /\ Accounts' /\ OneEach' /\ CallsTrue(calls', pane') /\ Records'
  BY <1>0, <1>4, <1>5, <1>6, <1>7, <1>8, RestTruth
<1>10. ASSUME catalog.denied PROVE DenialTrue'
  <2>1. /\ readable = {} /\ catalog.answer = {}
        /\ \A p \in Pane : ~pane[p].revoked => ~pane[p].synced /\ pane[p].phase # "fetched"
        /\ \A p \in Pane : ~pane[p].revoked => pane[p].phase \in {"closed", "asking", "fetching"}
    BY <1>2, <1>10 DEF Truth, DenialTrue
  <2>2. \A p \in Pane : ~pane[p].revoked => ~pane[p].resident
    BY <2>1 DEF Truth, Sessions, SessionTrue, Shown
  <2>3. Residents' \subseteq catalog'.todo
    BY <1>3, <2>1
  <2> QED
    BY <1>0, <1>3, <1>10, <2>1, <2>2, <2>3 DEF DenialTrue
<1>11. ASSUME ~catalog.denied PROVE DenialTrue'
  BY <1>3, <1>11 DEF DenialTrue
<1> QED
  BY <1>9, <1>10, <1>11 DEF Truth

LEMMA RunClearTruth == ASSUME ShapeInv, Truth, RunClear PROVE Truth'
<1> DEFINE c == Head(calls)
<1>0. /\ calls # <<>> /\ c.op = "clear" /\ calls' = Tail(calls)
      /\ catalog' = [catalog EXCEPT !.pc = "drop"]
      /\ UNCHANGED <<readable, server, body, pane>>
  BY DEF RunClear, Run
<1>1. c.by = "catalog" /\ Posted(c, CatalogStands(catalog)) /\ calls \in Seq(Call)
  BY <1>0, NextCall DEF ShapeInv, CallsShape
<1>2. catalog.pc = "delete" /\ catalog.denied
  BY <1>0, <1>1 DEF Posted, CatalogStands, CatalogAwaits
<1>3. /\ catalog'.todo = catalog.todo /\ catalog'.denied = catalog.denied
      /\ catalog'.answer = catalog.answer /\ catalog'.pc = "drop"
  BY <1>0 DEF ShapeInv, CatalogShape
<1>4. Going = catalog.todo
  BY <1>2, CatalogCalled DEF Going
<1>5. Going' = Going
  BY <1>0, <1>3, GoingStays
<1>6. /\ readable = {} /\ catalog.answer = {}
      /\ \A p \in Pane : ~pane[p].revoked => ~pane[p].synced /\ pane[p].phase # "fetched"
      /\ Residents \subseteq catalog.todo
      /\ \A p \in Pane : ~pane[p].revoked /\ pane[p].resident => pane[p].note \in catalog.todo
  BY <1>2 DEF Truth, DenialTrue
<1>7. ASSUME NEW r \in Pane PROVE ~Live(pane[r], Going)
  <2>1. SessionTrue(pane[r], server)
    BY DEF Truth, Sessions
  <2> QED
    BY <1>4, <1>6, <2>1 DEF Live, SessionTrue
<1>8. \A n \in unsynced : n \in Going'
  BY <1>4, <1>5, <1>6 DEF ShapeInv, RecordShape
<1>9. \A r \in Pane : Similar(pane[r], pane'[r]) /\ pane'[r] = pane[r]
  BY <1>0 DEF Similar
<1>10. CallsMove
  BY <1>0 DEF CallsMove
<1>11. Sessions' /\ Bodies' /\ Accounts' /\ OneEach' /\ CallsTrue(calls', pane') /\ Records'
  BY <1>0, <1>5, <1>7, <1>8, <1>9, <1>10, RestTruth
<1>12. DenialTrue'
  BY <1>0, <1>3, <1>6 DEF DenialTrue
<1> QED
  BY <1>11, <1>12 DEF Truth

LEMMA TransactionTruth == ASSUME ShapeInv, Truth, Transaction PROVE Truth'
BY RunAskTruth, RunOpenTruth, RunMeasureTruth, RunSizeTruth, RunEvictListTruth,
   RunEvictDeleteTruth, RunCatalogListTruth, RunCatalogDeleteTruth, RunClearTruth DEF Transaction

-----------------------------------------------------------------------------
(* The device stays as it is; access, if it changes, is lost. *)
LEMMA StillTruth ==
  ASSUME ShapeInv, Truth, UNCHANGED <<server, resident, unsynced, body, calls, pane, catalog>>,
         readable' \subseteq readable
  PROVE  Truth'
<1>1. Going' = Going /\ Residents' = Residents
  BY DEF Going, Residents
<1>2. \A r \in Pane : Similar(pane[r], pane'[r]) /\ Harmless(pane[r], pane'[r])
  BY DEF Similar, Harmless
<1>3. CallsMove /\ CallsPass
  BY DEF CallsMove, CallsPass
<1>4. \A r \in Pane : Counted(r, pane[r], calls, Residents, unsynced) =>
                        Counted(r, pane'[r], calls', Residents', unsynced')
  BY <1>1
<1>5. Sessions' /\ Bodies' /\ Accounts' /\ OneEach' /\ CallsTrue(calls', pane') /\ Records'
  BY <1>1, <1>2, <1>3, <1>4, RestTruth
<1>6. DenialTrue'
  BY <1>1, <1>2, <1>3, DenialFollows DEF Truth
<1> QED
  BY <1>5, <1>6 DEF Truth

(* The browser goes when nothing is under way. *)
LEMMA QuitTruth ==
  ASSUME ShapeInv, Truth, Quit, "abrupt" \notin world.quits
  PROVE  Truth'
<1>1. /\ calls = <<>> /\ catalog.pc = "idle" /\ calls' = <<>>
      /\ pane' = [p \in Pane |-> Closed]
      /\ catalog' = [pc |-> "idle", denied |-> FALSE, answer |-> Note, todo |-> {}]
      /\ UNCHANGED <<readable, server, body, resident, unsynced>>
  BY DEF Quit, stores
<1>2. catalog.todo = {} /\ Going = {} /\ Going' = {} /\ Len(<<>>) = 0
  BY <1>1 DEF ShapeInv, CatalogShape, Going
<1>3. /\ Closed.phase = "closed" /\ Closed.pending = {} /\ ~Closed.synced /\ ~Closed.opened
      /\ ~Closed.resident
  BY DEF Closed
<1>4. \A p \in Pane : pane'[p] = Closed
  BY <1>1
<1>5. \A n : ~Deletes(calls', n)
  BY <1>1, <1>2 DEF Deletes
<1>6. ASSUME NEW n \in Note, Unsent(body, server, n) PROVE n \in unsynced
  <2>1. LiveDirty(pane, Going, n) \/ n \in unsynced
    BY <1>2, <1>6 DEF Truth, Records, RecordTrue
  <2>2. ASSUME NEW p \in Pane, Live(pane[p], Going), pane[p].note = n, pane[p].dirty = "dirty"
        PROVE  n \in unsynced
    <3>1. Counted(p, pane[p], calls, Residents, unsynced)
      BY <2>2 DEF Truth, Accounts
    <3>2. ~SaysDirty(calls, p)
      BY <1>1, <1>2 DEF SaysDirty
    <3> QED
      BY <2>2, <3>1, <3>2 DEF Counted
  <2> QED
    BY <2>1, <2>2 DEF LiveDirty
<1>7. Sessions' /\ Bodies' /\ Accounts' /\ OneEach'
  BY <1>3, <1>4 DEF Sessions, SessionTrue, Bodies, BodyTrue, Accounts, Live, OneEach, Occupies, Shown
<1>8. CallsTrue(calls', pane')
  BY <1>1, <1>2 DEF CallsTrue
<1>9. Records'
  <2>1. \A n \in Note : Unsent(body', server', n) => n \in unsynced' /\ ~Deletes(calls', n)
    BY <1>1, <1>5, <1>6
  <2> QED
    BY <2>1 DEF Records, RecordTrue
<1>10. DenialTrue'
  BY <1>1 DEF DenialTrue
<1> QED
  BY <1>7, <1>8, <1>9, <1>10 DEF Truth

(* The browser runs its transactions before it goes, and access does not come back. *)
Kindly == "abrupt" \notin world.quits /\ "regain" \notin world.access

LEMMA TruthInit == Init => Truth
<1> SUFFICES ASSUME Init PROVE Truth
  OBVIOUS
<1>1. calls = <<>> /\ catalog.todo = {} /\ catalog.pc = "idle" /\ body = [n \in Note |-> {}]
  BY DEF Init
<1>2. \A p \in Pane : pane[p] = Closed
  BY DEF Init
<1>3. /\ Closed.phase = "closed" /\ Closed.pending = {} /\ ~Closed.synced /\ ~Closed.opened
      /\ ~Closed.resident
  BY DEF Closed
<1>4. Sessions /\ Bodies /\ Accounts /\ OneEach
  BY <1>2, <1>3 DEF Sessions, SessionTrue, Bodies, BodyTrue, Accounts, Live, OneEach, Occupies, Shown
<1>5. CallsTrue(calls, pane)
  BY <1>1 DEF CallsTrue
<1>6. Records
  BY <1>1 DEF Records, RecordTrue, Unsent
<1>7. DenialTrue
  BY <1>1 DEF DenialTrue
<1> QED
  BY <1>4, <1>5, <1>6, <1>7 DEF Truth

LEMMA TruthNext ==
  ASSUME OnePaneEach, ShapeInv, Kindly, Truth, [Next]_vars
  PROVE  Truth'
<1>1. CASE UNCHANGED vars
  BY <1>1, StillTruth DEF vars, stores
<1>2. CASE Next
  <2>1. ASSUME NEW p \in Pane,
               \/ Load(p) \/ Sync(p) \/ Acknowledge(p) \/ Settle(p) \/ MeasureSize(p)
               \/ EvictPins(p) \/ EvictDrop(p) \/ Fetched(p) \/ FetchFails(p)
        PROVE  Truth'
    BY <2>1, LoadTruth, SyncTruth, AcknowledgeTruth, SettleTruth, MeasureSizeTruth,
       EvictPinsTruth, EvictDropTruth, FetchedTruth, FetchFailsTruth
  <2>2. ASSUME NEW p \in Pane, NEW n \in Note, Open(p, n) \/ Prefetch(p, n) PROVE Truth'
    BY <2>2, OpenTruth, PrefetchTruth
  <2>3. ASSUME NEW p \in Pane, NEW e \in Edit, Type(p, e) PROVE Truth'
    BY <2>3, TypeTruth
  <2>4. CASE \E n \in Note, pinned \in BOOLEAN : SetPinned(n, pinned)
    BY <2>4, StillTruth DEF SetPinned
  <2>5. CASE \/ \E denied \in BOOLEAN : Reconcile(denied)
             \/ ReconcilePins \/ ReconcileDenied \/ ReconcileDone
             \/ \E n \in Note : ReconcileDrop(n)
    BY <2>5, ReconcileTruth, ReconcileGoesOn, ReconcileDropTruth
  <2>6. CASE Transaction
    BY <2>6, TransactionTruth
  <2>7. ASSUME NEW notes \in SUBSET Note, ChangeAccess(notes) PROVE Truth'
    <3>1. readable' \subseteq readable
      BY <2>7 DEF ChangeAccess, Kindly
    <3> QED
      BY <2>7, <3>1, StillTruth DEF ChangeAccess, stores
  <2>8. CASE Quit
    BY <2>8, QuitTruth DEF Kindly
  <2> QED
    BY <1>2, <2>1, <2>2, <2>3, <2>4, <2>5, <2>6, <2>7, <2>8 DEF Next, Step
<1> QED
  BY <1>1, <1>2

(* Under a live session that has something to send, the record says so or a call about
   the note will. *)
LEMMA TruthCleans ==
  ASSUME ShapeInv, Kindly => Truth
  PROVE  CleanMeansSent
<1> SUFFICES ASSUME Kindly, NEW n \in Residents \ (unsynced \cup catalog.todo),
                    \A i \in DOMAIN calls : calls[i].note # n
             PROVE  body[n] \subseteq server[n]
  BY DEF CleanMeansSent, Kindly
<1>0. Truth /\ calls \in Seq(Call) /\ DOMAIN calls = 1..Len(calls)
  BY LenProperties DEF ShapeInv, CallsShape
<1>1. n \in Note /\ n \notin Going /\ n \notin unsynced
  <2>1. resident \in Seq(Note)
    BY DEF ShapeInv, RecordShape, Recorded
  <2> QED
    BY <2>1, LenProperties DEF Residents, Going
<1>2. ASSUME NEW p \in Pane, Live(pane[p], Going), pane[p].note = n, pane[p].dirty = "dirty"
      PROVE  FALSE
  <2>1. SaysDirty(calls, p)
    BY <1>0, <1>1, <1>2 DEF Truth, Accounts, Counted
  <2>2. PICK i \in 1..Len(calls) : calls[i].by = p /\ calls[i].dirty = "dirty"
    BY <2>1 DEF SaysDirty
  <2>3. calls[i].op \in {"open", "measure"}
    BY <1>0, <2>2 DEF Truth, CallsTrue, CallTrue
  <2>4. Posted(calls[i], PaneStands(pane[p]))
    <3>1. Posted(calls[i], Standing[calls[i].by])
      BY DEF ShapeInv, CallsShape, Queue
    <3> QED
      BY <2>2, <3>1, Standings
  <2>5. calls[i].note = n
    BY <1>2, <2>3, <2>4 DEF Posted, PaneStands
  <2> QED
    BY <1>0, <2>5
<1>3. ~LiveDirty(pane, Going, n)
  BY <1>2 DEF LiveDirty
<1> QED
  BY <1>0, <1>1, <1>3 DEF Truth, Records, RecordTrue, Unsent

(* Where no note is in two panes, a record without the flag tells the truth: every edit of
   the body is on the server, and an eviction that trusts the flag loses nothing. *)
THEOREM CleanIsSent == OnePaneEach /\ Spec => []CleanMeansSent
<1> SUFFICES ASSUME OnePaneEach PROVE Spec => []CleanMeansSent
  OBVIOUS
<1>1. Init => (Kindly => Truth)
  BY TruthInit
<1>2. ShapeInv /\ (Kindly => Truth) /\ [Next]_vars => (Kindly => Truth)'
  <2> SUFFICES ASSUME ShapeInv, Kindly => Truth, [Next]_vars, Kindly'
               PROVE  Truth'
    OBVIOUS
  <2>1. Kindly
    BY DEF Kindly, Next, vars
  <2> QED
    BY <2>1, TruthNext
<1>3. ShapeInv /\ (Kindly => Truth) => CleanMeansSent
  BY TruthCleans
<1> QED
  BY <1>1, <1>2, <1>3, ShapeInvariant, PTL DEF Spec
=============================================================================
