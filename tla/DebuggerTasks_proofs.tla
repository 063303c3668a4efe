-------------------------- MODULE DebuggerTasks_proofs --------------------------
(***************************************************************************)
(* The list and the table of the Debugger, for any number of tasks, ids    *)
(* and Agents and any limits. Both are sequences that are cut, filtered    *)
(* and pushed, so the first part is about the places of a sequence; then   *)
(* come the table through saves and trims, the list through the events of  *)
(* tasks, the steps of the Debugger, and the order in which rows leave.    *)
(***************************************************************************)
EXTENDS DebuggerTasks, FiniteSetTheorems, SequenceTheorems, WellFoundedInduction, TLAPS

---------------------------------------------------------------------------
\* Numbers.

\* A set of numbers that is not empty has a least one.
LEMMA LeastNumber ==
  ASSUME NEW S, S \subseteq Nat, S # {}
  PROVE  \E m \in S : \A n \in S : m <= n
<1>1. PICK m \in S : \A n \in S : ~ (<<n, m>> \in OpToRel(<, Nat))
  BY NatLessThanWellFounded, WFMin
<1>2. \A n \in S : ~ (n < m)
  BY <1>1 DEF OpToRel
<1>3. QED
  BY <1>2

\* Induction, stated for a set of numbers.
LEMMA Induction ==
  ASSUME NEW S, 0 \in S, \A n \in Nat : n \in S => n + 1 \in S
  PROVE  Nat \subseteq S
<1> DEFINE T == Nat \ S
<1>1. SUFFICES ASSUME T # {} PROVE FALSE
  OBVIOUS
<1>2. PICK m \in T : \A n \in T : m <= n
  BY <1>1, LeastNumber
<1>3. m \in Nat /\ m \notin S /\ m # 0
  BY <1>2
<1>4. m - 1 \in Nat /\ m - 1 \notin T
  BY <1>2, <1>3
<1>5. QED
  BY <1>3, <1>4

\* Max of some of the first n numbers is one of them, and none is greater.
LEMMA MaxOfSet ==
  ASSUME NEW n \in Nat, NEW x \in SUBSET (1..n), x # {}
  PROVE  Max(x) \in x /\ \A y \in x : y <= Max(x)
<1>1. \E m \in x : \A y \in x : m >= y
  <2> DEFINE Rest == {n - y : y \in x}
             k == CHOOSE y \in x : TRUE
  <2>1. x \subseteq 1..n /\ k \in x
    OBVIOUS
  <2>2. Rest \subseteq Nat /\ Rest # {}
    <3>1. \A y \in x : n - y \in Nat
      BY <2>1
    <3>2. n - k \in Rest
      BY <2>1
    <3>3. QED
      BY <3>1, <3>2
  <2>3. PICK r \in Rest : \A q \in Rest : r <= q
    BY <2>2, LeastNumber
  <2>4. PICK m \in x : r = n - m
    BY <2>3
  <2>5. ASSUME NEW y \in x PROVE m >= y
    <3>1. n - y \in Rest
      OBVIOUS
    <3>2. n - m <= n - y
      BY <2>3, <2>4, <3>1
    <3>3. QED
      BY <2>1, <3>2
  <2>6. QED
    BY <2>5
<1>2. Max(x) \in x /\ \A y \in x : Max(x) >= y
  BY <1>1 DEF Max
<1>3. QED
  BY <1>2

---------------------------------------------------------------------------
\* Places of a sequence.

\* Some of the first n numbers are finitely many, at most n.
LEMMA PlacesFinite ==
  ASSUME NEW n \in Nat, NEW P \in SUBSET (1..n)
  PROVE  IsFiniteSet(P) /\ Cardinality(P) \in Nat /\ Cardinality(P) <= n
<1>1. IsFiniteSet(1..n) /\ Cardinality(1..n) = n
  BY FS_Interval
<1>2. IsFiniteSet(P) /\ Cardinality(P) <= Cardinality(1..n)
  BY <1>1, FS_Subset
<1>3. QED
  BY <1>1, <1>2, FS_CardinalityType

Rank(P, i) == Cardinality({j \in P : j <= i})

\* A place of P has a rank within it, and a later place a greater one.
LEMMA RankOrder ==
  ASSUME NEW n \in Nat, NEW P \in SUBSET (1..n)
  PROVE  /\ \A i \in P : Rank(P, i) \in 1..Cardinality(P)
         /\ \A i, j \in P : i < j => Rank(P, i) < Rank(P, j)
<1> DEFINE Upto(i) == {j \in P : j <= i}
<1>1. IsFiniteSet(P) /\ Cardinality(P) \in Nat /\ \A i \in P : i \in Nat
  BY PlacesFinite
<1>2. ASSUME NEW i \in P
      PROVE  /\ IsFiniteSet(Upto(i)) /\ Cardinality(Upto(i)) \in Nat
             /\ Cardinality(Upto(i)) <= Cardinality(P) /\ Cardinality(Upto(i)) # 0
  <2>1. Upto(i) \in SUBSET P /\ i \in Upto(i)
    BY <1>1
  <2>2. IsFiniteSet(Upto(i)) /\ Cardinality(Upto(i)) <= Cardinality(P)
    BY <1>1, <2>1, FS_Subset
  <2>3. Cardinality(Upto(i)) \in Nat
    BY <2>2, FS_CardinalityType
  <2>4. Cardinality(Upto(i)) # 0
    BY <2>1, <2>2, FS_EmptySet
  <2>5. QED
    BY <2>2, <2>3, <2>4
<1>3. ASSUME NEW i \in P, NEW j \in P, i < j PROVE Rank(P, i) < Rank(P, j)
  <2>1. Upto(i) \in SUBSET Upto(j) /\ j \in Upto(j) /\ j \notin Upto(i)
    <3>1. i \in Nat /\ j \in Nat /\ \A x \in P : x \in Nat
      BY <1>1
    <3>2. \A x \in P : x <= i => x <= j
      BY <1>3, <3>1
    <3>3. j \notin Upto(i) /\ j \in Upto(j)
      BY <1>3, <3>1
    <3>4. QED
      BY <3>2, <3>3
  <2>2. IsFiniteSet(Upto(j)) /\ Cardinality(Upto(i)) \in Nat /\ Cardinality(Upto(j)) \in Nat
    BY <1>2
  <2> HIDE DEF Upto
  <2>3. Cardinality(Upto(i)) <= Cardinality(Upto(j)) /\ Cardinality(Upto(i)) # Cardinality(Upto(j))
    BY <2>1, <2>2, FS_Subset
  <2>4. QED
    BY <2>2, <2>3 DEF Upto, Rank
<1>4. QED
  BY <1>1, <1>2, <1>3 DEF Rank

\* Two places never have the same rank.
LEMMA RankInjective ==
  ASSUME NEW n \in Nat, NEW P \in SUBSET (1..n), NEW i \in P, NEW j \in P,
         Rank(P, i) = Rank(P, j)
  PROVE  i = j
<1>1. /\ \A x \in P : Rank(P, x) \in 1..Cardinality(P)
      /\ \A x, y \in P : x < y => Rank(P, x) < Rank(P, y)
  BY RankOrder
<1>2. Cardinality(P) \in Nat /\ \A x \in P : x \in Nat
  BY PlacesFinite
<1>3. i \in Nat /\ j \in Nat /\ Rank(P, i) \in Nat /\ Rank(P, j) \in Nat
  BY <1>1, <1>2
<1>4. ~(i < j) /\ ~(j < i)
  BY <1>1, <1>3
<1>5. QED
  BY <1>3, <1>4

\* The k-th of some places is one of them, of rank k.
LEMMA KthPlace ==
  ASSUME NEW n \in Nat, NEW P \in SUBSET (1..n), NEW k \in 1..Cardinality(P)
  PROVE  Kth(P, k) \in P /\ Rank(P, Kth(P, k)) = k
<1> DEFINE f == [i \in P |-> Rank(P, i)]
           T == 1..Cardinality(P)
<1>1. IsFiniteSet(P) /\ Cardinality(P) \in Nat
  BY PlacesFinite
<1>2. IsFiniteSet(T) /\ Cardinality(T) = Cardinality(P)
  BY <1>1, FS_Interval
<1>3. f \in [P -> T]
  BY RankOrder
<1>4. \A i, j \in P : f[i] = f[j] => i = j
  BY RankInjective
<1>5. f \in Injection(P, T)
  BY <1>3, <1>4 DEF Injection, IsInjective
<1>6. f \in Surjection(P, T)
  BY <1>1, <1>2, <1>5, FS_Injection
<1>7. \E i \in P : Rank(P, i) = k
  BY <1>6 DEF Surjection
<1>8. QED
  BY <1>7 DEF Kth, Rank

\* Every place is the k-th for some k.
LEMMA KthOnto ==
  ASSUME NEW n \in Nat, NEW P \in SUBSET (1..n), NEW i \in P
  PROVE  \E k \in 1..Cardinality(P) : Kth(P, k) = i
<1>1. Rank(P, i) \in 1..Cardinality(P)
  BY RankOrder
<1>2. Kth(P, Rank(P, i)) \in P /\ Rank(P, Kth(P, Rank(P, i))) = Rank(P, i)
  BY <1>1, KthPlace
<1>3. QED
  BY <1>1, <1>2, RankInjective

\* The k-th place comes before the later ones.
LEMMA KthOrder ==
  ASSUME NEW n \in Nat, NEW P \in SUBSET (1..n),
         NEW k \in 1..Cardinality(P), NEW l \in 1..Cardinality(P), k < l
  PROVE  Kth(P, k) < Kth(P, l)
<1>1. Kth(P, k) \in P /\ Rank(P, Kth(P, k)) = k /\ Kth(P, l) \in P /\ Rank(P, Kth(P, l)) = l
  BY KthPlace
<1>2. \A x, y \in P : x < y => Rank(P, x) < Rank(P, y)
  BY RankOrder
<1>3. Cardinality(P) \in Nat /\ \A x \in P : x \in Nat
  BY PlacesFinite
<1>4. Kth(P, k) \in Nat /\ Kth(P, l) \in Nat /\ k \in Nat /\ l \in Nat
  <2>1. Kth(P, k) \in Nat /\ Kth(P, l) \in Nat
    BY <1>1, <1>3
  <2>2. k \in Nat /\ l \in Nat
    BY <1>3
  <2>3. QED
    BY <2>1, <2>2
<1> DEFINE x == Kth(P, k)
           y == Kth(P, l)
<1> HIDE DEF x, y
<1>5. x \in P /\ y \in P /\ x \in Nat /\ y \in Nat /\ Rank(P, x) = k /\ Rank(P, y) = l
  BY <1>1, <1>4 DEF x, y
<1>6. ~(y < x) /\ x # y
  BY <1>2, <1>4, <1>5
<1>7. x < y
  BY <1>5, <1>6
<1>8. QED
  BY <1>7 DEF x, y

\* It has no fewer places before it.
LEMMA KthAhead ==
  ASSUME NEW n \in Nat, NEW P \in SUBSET (1..n), NEW k \in 1..Cardinality(P)
  PROVE  k <= Kth(P, k)
<1> DEFINE i == Kth(P, k)
           Upto == {j \in P : j <= i}
<1>1. i \in P /\ Cardinality(Upto) = k
  BY KthPlace DEF Rank
<1> HIDE DEF i
<1>2. i \in Nat /\ \A j \in P : j \in Nat /\ 1 <= j
  <2>1. \A j \in P : j \in 1..n
    OBVIOUS
  <2>2. QED
    BY <1>1, <2>1
<1>3. Upto \in SUBSET (1..i)
  <2>1. ASSUME NEW j \in P, j <= i PROVE j \in 1..i
    BY <1>2, <2>1
  <2>2. QED
    BY <2>1
<1>4. Cardinality(Upto) <= i
  BY <1>2, <1>3, PlacesFinite
<1>5. QED
  BY <1>1, <1>4 DEF i

\* What is at some places of a sequence is a sequence of its elements, each place once.
LEMMA AtPlaces ==
  ASSUME NEW S, NEW s \in Seq(S), NEW P \in SUBSET (DOMAIN s)
  PROVE  /\ At(s, P) \in Seq(S) /\ Len(At(s, P)) <= Len(s)
         /\ \A k \in DOMAIN At(s, P) : Kth(P, k) \in P /\ At(s, P)[k] = s[Kth(P, k)]
         /\ \A k, l \in DOMAIN At(s, P) : Kth(P, k) = Kth(P, l) => k = l
<1> DEFINE m == Cardinality(P)
<1>1. PICK n \in Nat : n = Len(s) /\ DOMAIN s = 1..n
  OBVIOUS
<1>2. P \in SUBSET (1..n) /\ m \in Nat /\ m <= n
  BY <1>1, PlacesFinite
<1>3. \A k \in 1..m : Kth(P, k) \in P /\ Rank(P, Kth(P, k)) = k
  BY <1>2, KthPlace
<1>4. DOMAIN At(s, P) = 1..m /\ \A k \in 1..m : At(s, P)[k] = s[Kth(P, k)]
  BY DEF At
<1>5. \A k \in 1..m : s[Kth(P, k)] \in S
  <2>1. \A i \in 1..n : s[i] \in S
    BY <1>1
  <2>2. QED
    BY <1>2, <1>3, <2>1
<1>6. At(s, P) \in Seq(S) /\ Len(At(s, P)) = m
  BY <1>2, <1>5, IsASeq DEF At
<1>7. \A k, l \in 1..m : Kth(P, k) = Kth(P, l) => k = l
  BY <1>3
<1>8. QED
  BY <1>1, <1>2, <1>3, <1>4, <1>6, <1>7

---------------------------------------------------------------------------
\* The table: tasks, each id once.

Table == {rs \in Seq(Task) : \A i, j \in DOMAIN rs : rs[i].id = rs[j].id => i = j}

\* Rows taken from a table are a table.
LEMMA AtTable ==
  ASSUME NEW rs \in Table, NEW P \in SUBSET (DOMAIN rs)
  PROVE  At(rs, P) \in Table
<1>1. rs \in Seq(Task) /\ \A i, j \in DOMAIN rs : rs[i].id = rs[j].id => i = j
  BY DEF Table
<1>2. At(rs, P) \in Seq(Task)
  BY <1>1, AtPlaces
<1>3. /\ \A k \in DOMAIN At(rs, P) : Kth(P, k) \in P /\ At(rs, P)[k] = rs[Kth(P, k)]
      /\ \A k, l \in DOMAIN At(rs, P) : Kth(P, k) = Kth(P, l) => k = l
  BY <1>1, AtPlaces
<1>4. ASSUME NEW k \in DOMAIN At(rs, P), NEW l \in DOMAIN At(rs, P),
             At(rs, P)[k].id = At(rs, P)[l].id
      PROVE  k = l
  <2>1. rs[Kth(P, k)].id = rs[Kth(P, l)].id
    BY <1>3, <1>4
  <2>2. Kth(P, k) = Kth(P, l)
    BY <1>1, <1>3, <2>1
  <2>3. QED
    BY <1>3, <2>2
<1>5. QED
  BY <1>2, <1>4 DEF Table

\* An insert replaces the row with the id.
LEMMA InsertTable ==
  ASSUME NEW rs \in Table, NEW t \in Task
  PROVE  Insert(rs, t) \in Table
<1> DEFINE P == {i \in DOMAIN rs : rs[i].id # t.id}
           q == At(rs, P)
<1>1. q \in Table /\ q \in Seq(Task)
  BY AtTable DEF Table
<1>2. \A k \in DOMAIN q : q[k].id # t.id
  <2>1. rs \in Seq(Task) /\ P \in SUBSET (DOMAIN rs)
    BY DEF Table
  <2>2. \A k \in DOMAIN q : Kth(P, k) \in P /\ q[k] = rs[Kth(P, k)]
    BY <2>1, AtPlaces
  <2>3. QED
    BY <2>2
<1> HIDE DEF q
<1>3. Append(q, t) \in Table
  <2>1. \A i, j \in DOMAIN q : q[i].id = q[j].id => i = j
    BY <1>1 DEF Table
  <2>2. Append(q, t) \in Seq(Task) /\ DOMAIN Append(q, t) = 1..(Len(q) + 1)
    BY <1>1, AppendProperties
  <2>3. /\ \A i \in 1..Len(q) : Append(q, t)[i] = q[i]
        /\ Append(q, t)[Len(q) + 1] = t
    BY <1>1, AppendProperties
  <2>4. DOMAIN q = 1..Len(q) /\ Len(q) \in Nat
    BY <1>1
  <2>5. \A i, j \in 1..(Len(q) + 1) : Append(q, t)[i].id = Append(q, t)[j].id => i = j
    BY <1>2, <2>1, <2>3, <2>4
  <2>6. QED
    BY <2>2, <2>5 DEF Table
<1>4. QED
  BY <1>3 DEF Insert, q

\* A save keeps it a table.
LEMMA SaveTable ==
  ASSUME NEW rs \in Table, NEW t \in Task
  PROVE  Save(rs, t) \in Table
<1> DEFINE q == Insert(rs, t)
<1>1. q \in Table
  BY InsertTable
<1> HIDE DEF q
<1>2. Trim(q) \in Table
  BY <1>1, AtTable DEF Trim
<1>3. QED
  BY <1>2 DEF Save, q

\* Several saves, one after the other; after each of them it is a table.
LEMMA SavedTable ==
  ASSUME rows \in Table, NEW ts \in Seq(Task)
  PROVE  /\ Saved(ts)[0] = rows
         /\ \A n \in 1..Len(ts) : Saved(ts)[n] = Save(Saved(ts)[n - 1], ts[n])
         /\ \A n \in 0..Len(ts) : Saved(ts)[n] \in Table
<1> DEFINE N == 0..Len(ts)
           Value(g, k) == IF k = 0 THEN rows ELSE Save(g[k - 1], ts[k])
           Found == {k \in Nat : k <= Len(ts) =>
                       \E g \in [0..k -> Table] : \A i \in 0..k : g[i] = Value(g, i)}
<1>1. Len(ts) \in Nat /\ \A i \in 1..Len(ts) : ts[i] \in Task
  OBVIOUS
<1>2. 0 \in Found
  <2> DEFINE g == [i \in 0..0 |-> rows]
  <2>1. g \in [0..0 -> Table] /\ \A i \in 0..0 : g[i] = Value(g, i)
    OBVIOUS
  <2>2. QED
    BY <2>1
<1>3. ASSUME NEW k \in Nat, k \in Found PROVE k + 1 \in Found
  <2>1. SUFFICES ASSUME k + 1 <= Len(ts)
                 PROVE  \E g \in [0..(k + 1) -> Table] : \A i \in 0..(k + 1) : g[i] = Value(g, i)
    OBVIOUS
  <2>2. PICK g \in [0..k -> Table] : \A i \in 0..k : g[i] = Value(g, i)
    BY <1>1, <1>3, <2>1
  <2> DEFINE new == Save(g[k], ts[k + 1])
             h == [i \in 0..(k + 1) |-> IF i = k + 1 THEN new ELSE g[i]]
  <2>3. new \in Table
    BY <1>1, <2>1, <2>2, SaveTable
  <2>4. h \in [0..(k + 1) -> Table]
    BY <2>2, <2>3
  <2>5. ASSUME NEW i \in 0..(k + 1) PROVE h[i] = Value(h, i)
    <3>1. CASE i = k + 1
      BY <3>1
    <3>2. CASE i \in 0..k
      <4>1. h[i] = g[i] /\ (i # 0 => h[i - 1] = g[i - 1])
        BY <3>2
      <4>2. g[i] = Value(g, i)
        BY <2>2, <3>2
      <4>3. QED
        BY <4>1, <4>2
    <3>3. QED
      BY <3>1, <3>2
  <2>6. QED
    BY <2>4, <2>5
<1> HIDE DEF Found
<1>4. Nat \subseteq Found
  BY <1>2, <1>3, Induction
<1>5. PICK g \in [N -> Table] : \A i \in N : g[i] = Value(g, i)
  <2>1. Len(ts) \in Found
    BY <1>1, <1>4
  <2>2. QED
    BY <1>1, <2>1 DEF Found
<1>6. g = [i \in N |-> Value(g, i)]
  BY <1>5
<1> DEFINE f == CHOOSE h : h = [i \in N |-> Value(h, i)]
<1>7. f = [i \in N |-> Value(f, i)]
  BY <1>6
<1>8. Saved(ts) = f
  BY DEF Saved
<1> HIDE DEF f
<1> DEFINE In == {k \in Nat : k <= Len(ts) => f[k] \in Table}
<1>9. 0 \in In
  <2>1. f[0] = Value(f, 0)
    BY <1>1, <1>7
  <2>2. QED
    BY <2>1
<1>10. ASSUME NEW k \in Nat, k \in In PROVE k + 1 \in In
  <2>1. SUFFICES ASSUME k + 1 <= Len(ts) PROVE f[k + 1] \in Table
    OBVIOUS
  <2>2. f[k + 1] = Value(f, k + 1)
    BY <1>1, <1>7, <2>1
  <2>3. f[k] \in Table /\ ts[k + 1] \in Task
    BY <1>1, <1>10, <2>1
  <2>4. f[k + 1] = Save(f[k], ts[k + 1])
    BY <2>2
  <2>5. QED
    BY <2>3, <2>4, SaveTable
<1> HIDE DEF In
<1>11. Nat \subseteq In
  BY <1>9, <1>10, Induction
<1>12. \A n \in 0..Len(ts) : Saved(ts)[n] \in Table
  BY <1>1, <1>8, <1>11 DEF In
<1>13. \A n \in 0..Len(ts) : Saved(ts)[n] = Value(Saved(ts), n)
  BY <1>7, <1>8
<1>14. QED
  BY <1>1, <1>12, <1>13

\* What persist_task leaves.
LEMMA PersistTable ==
  ASSUME rows \in Table, store \in BOOLEAN, NEW ts \in Seq(Task), Persist(ts)
  PROVE  rows' \in Table /\ store' \in BOOLEAN
<1>1. Len(ts) \in Nat /\ \A i \in 1..Len(ts) : ts[i] \in Task
  OBVIOUS
<1>2. CASE rows' = (IF store THEN Saved(ts)[Len(ts)] ELSE rows) /\ UNCHANGED store
  BY <1>1, <1>2, SavedTable
<1>3. CASE /\ store' = FALSE
           /\ \E n \in 1..Len(ts) : rows' \in {Saved(ts)[n - 1], Insert(Saved(ts)[n - 1], ts[n])}
  <2>1. PICK n \in 1..Len(ts) : rows' \in {Saved(ts)[n - 1], Insert(Saved(ts)[n - 1], ts[n])}
    BY <1>3
  <2>2. Saved(ts)[n - 1] \in Table
    BY <1>1, SavedTable
  <2>3. QED
    BY <1>1, <1>3, <2>1, <2>2, InsertTable
<1>4. QED
  BY <1>2, <1>3 DEF Persist

---------------------------------------------------------------------------
\* The list: tasks within the limit, a running one the last of its id.

Latest(ts) == \A i, j \in DOMAIN ts : Runs(ts[i]) /\ ts[i].id = ts[j].id => j <= i

List == {ts \in Seq(Task) : Len(ts) <= MaxHistory /\ Latest(ts)}

Idle(ts) == \A i \in DOMAIN ts : ~Runs(ts[i])

\* The last place with a property, when there is one.
LEMMA LastPlaces ==
  ASSUME tasks \in Seq(Task), NEW id
  PROVE  /\ LastWith(id) = 0 => \A i \in DOMAIN tasks : tasks[i].id # id
         /\ LastWith(id) # 0 =>
              /\ LastWith(id) \in DOMAIN tasks /\ tasks[LastWith(id)].id = id
              /\ \A i \in DOMAIN tasks : tasks[i].id = id => i <= LastWith(id)
         /\ LastRunning(id) = 0 => \A i \in DOMAIN tasks : ~(tasks[i].id = id /\ Runs(tasks[i]))
         /\ LastRunning(id) # 0 =>
              /\ LastRunning(id) \in DOMAIN tasks
              /\ tasks[LastRunning(id)].id = id /\ Runs(tasks[LastRunning(id)])
<1> DEFINE I == {i \in 1..Len(tasks) : tasks[i].id = id}
           R == {i \in 1..Len(tasks) : tasks[i].id = id /\ Runs(tasks[i])}
<1>1. Len(tasks) \in Nat /\ DOMAIN tasks = 1..Len(tasks)
  OBVIOUS
<1>2. I \in SUBSET (1..Len(tasks)) /\ R \in SUBSET (1..Len(tasks))
  OBVIOUS
<1>3. /\ I # {} => Max(I) \in I /\ \A y \in I : y <= Max(I)
      /\ R # {} => Max(R) \in R
  BY <1>1, <1>2, MaxOfSet
<1>4. LastWith(id) = IF I # {} THEN Max(I) ELSE 0
  BY DEF LastWith, SelectLastInSeq
<1>5. LastRunning(id) = IF R # {} THEN Max(R) ELSE 0
  BY DEF LastRunning, SelectLastInSeq
<1> HIDE DEF I, R
<1>6. /\ I # {} => LastWith(id) \in I /\ \A y \in I : y <= LastWith(id)
      /\ I = {} => LastWith(id) = 0
      /\ R # {} => LastRunning(id) \in R
      /\ R = {} => LastRunning(id) = 0
  BY <1>3, <1>4, <1>5
<1>7. 0 \notin I /\ 0 \notin R
  BY <1>1 DEF I, R
<1>8. QED
  BY <1>1, <1>6, <1>7 DEF I, R

\* The invariant says what RunningIsLatest does.
LEMMA LatestIsLast ==
  ASSUME tasks \in Seq(Task)
  PROVE  Latest(tasks) <=> RunningIsLatest
<1>1. ASSUME NEW i \in DOMAIN tasks
      PROVE  /\ LastWith(tasks[i].id) \in DOMAIN tasks
             /\ tasks[LastWith(tasks[i].id)].id = tasks[i].id
             /\ \A j \in DOMAIN tasks : tasks[j].id = tasks[i].id => j <= LastWith(tasks[i].id)
  BY LastPlaces
<1>2. DOMAIN tasks \subseteq Nat
  OBVIOUS
<1>3. ASSUME Latest(tasks) PROVE RunningIsLatest
  <2>1. SUFFICES ASSUME NEW i \in DOMAIN tasks, Runs(tasks[i])
                 PROVE  i = LastWith(tasks[i].id)
    BY DEF RunningIsLatest
  <2> DEFINE l == LastWith(tasks[i].id)
  <2>2. l \in DOMAIN tasks /\ tasks[l].id = tasks[i].id /\ i <= l
    BY <1>1
  <2>3. l <= i
    BY <1>3, <2>1, <2>2 DEF Latest
  <2>4. QED
    BY <1>2, <2>2, <2>3
<1>4. ASSUME RunningIsLatest PROVE Latest(tasks)
  BY <1>1, <1>4 DEF RunningIsLatest, Latest
<1>5. QED
  BY <1>3, <1>4

\* A record changed in place, if that does not make it run.
LEMMA ListChanged ==
  ASSUME NEW ts \in List, NEW i \in DOMAIN ts, NEW t \in Task,
         t.id = ts[i].id, Runs(t) => Runs(ts[i])
  PROVE  [ts EXCEPT ![i] = t] \in List
<1> DEFINE q == [ts EXCEPT ![i] = t]
<1>1. ts \in Seq(Task) /\ Len(ts) <= MaxHistory /\ Latest(ts)
  BY DEF List
<1>2. q \in Seq(Task) /\ Len(q) = Len(ts) /\ DOMAIN q = DOMAIN ts
  BY <1>1
<1>3. \A j \in DOMAIN ts : q[j].id = ts[j].id /\ (Runs(q[j]) => Runs(ts[j]))
  BY <1>1
<1> HIDE DEF q
<1>4. Latest(q)
  BY <1>1, <1>2, <1>3 DEF Latest
<1>5. q \in List
  BY <1>1, <1>2, <1>4 DEF List
<1>6. QED
  BY <1>5 DEF q

\* A push moves the others forward by one place or by none.
LEMMA PushedPlaces ==
  ASSUME NEW ts \in Seq(Task), Len(ts) <= MaxHistory, NEW t \in Task
  PROVE  \E d \in 0..1, n \in Nat :
           /\ PushBounded(ts, t) \in Seq(Task)
           /\ Len(PushBounded(ts, t)) = n + 1 /\ n + 1 <= MaxHistory /\ Len(ts) = n + d
           /\ \A k \in 1..n : PushBounded(ts, t)[k] = ts[k + d]
           /\ PushBounded(ts, t)[n + 1] = t
           /\ d = 0 \/ 1 \in DOMAIN ts
<1> DEFINE u == IF Len(ts) = MaxHistory THEN Tail(ts) ELSE ts
           q == Append(u, t)
<1>1. Len(ts) \in Nat
  OBVIOUS
<1>2. PICK d \in 0..1 : /\ u \in Seq(Task) /\ Len(u) + 1 <= MaxHistory
                        /\ Len(ts) = Len(u) + d
                        /\ \A k \in 1..Len(u) : u[k] = ts[k + d]
                        /\ d = 0 \/ 1 \in DOMAIN ts
  <2>1. CASE Len(ts) = MaxHistory
    <3>1. ts # <<>> /\ 1 \in DOMAIN ts
      BY <2>1, DebuggerAssumptions
    <3>2. /\ Tail(ts) \in Seq(Task) /\ Len(Tail(ts)) = Len(ts) - 1
          /\ \A k \in 1..Len(Tail(ts)) : Tail(ts)[k] = ts[k + 1]
      BY <3>1, HeadTailProperties
    <3>3. u = Tail(ts)
      BY <2>1
    <3> HIDE DEF u
    <3>4. /\ u \in Seq(Task) /\ Len(u) = Len(ts) - 1 /\ Len(u) \in Nat
          /\ \A k \in 1..Len(u) : u[k] = ts[k + 1]
      BY <3>2, <3>3
    <3>5. Len(u) + 1 <= MaxHistory /\ Len(ts) = Len(u) + 1
      BY <1>1, <3>4, DebuggerAssumptions
    <3>6. QED
      BY <3>1, <3>4, <3>5
  <2>2. CASE Len(ts) # MaxHistory
    <3>1. u = ts
      BY <2>2
    <3>2. \A k \in 1..Len(u) : k + 0 = k
      BY <1>1, <3>1
    <3>3. Len(u) + 1 <= MaxHistory /\ Len(ts) = Len(u) + 0
      BY <1>1, <2>2, <3>1, DebuggerAssumptions
    <3>4. QED
      BY <1>1, <3>1, <3>2, <3>3
  <2>3. QED
    BY <2>1, <2>2
<1> HIDE DEF u
<1>3. /\ q \in Seq(Task) /\ Len(q) = Len(u) + 1 /\ q[Len(u) + 1] = t
      /\ \A k \in 1..Len(u) : q[k] = u[k]
  BY <1>2, AppendProperties
<1>4. PushBounded(ts, t) = q /\ Len(u) \in Nat
  BY <1>2 DEF PushBounded, u
<1> HIDE DEF q
<1>5. QED
  BY <1>2, <1>3, <1>4

\* A record pushed, when none with its id runs.
LEMMA ListPushed ==
  ASSUME NEW ts \in List, NEW t \in Task,
         \A i \in DOMAIN ts : ~(ts[i].id = t.id /\ Runs(ts[i]))
  PROVE  PushBounded(ts, t) \in List
<1> DEFINE q == PushBounded(ts, t)
<1>1. ts \in Seq(Task) /\ Len(ts) <= MaxHistory /\ Latest(ts)
  BY DEF List
<1>2. PICK d \in 0..1, n \in Nat :
        /\ q \in Seq(Task) /\ Len(q) = n + 1 /\ n + 1 <= MaxHistory /\ Len(ts) = n + d
        /\ \A k \in 1..n : q[k] = ts[k + d]
        /\ q[n + 1] = t
  BY <1>1, PushedPlaces
<1> HIDE DEF q
<1>3. DOMAIN q = 1..(n + 1) /\ \A k \in 1..n : k + d \in DOMAIN ts
  BY <1>1, <1>2
<1>4. Latest(q)
  <2>1. SUFFICES ASSUME NEW i \in 1..(n + 1), NEW j \in 1..(n + 1),
                        Runs(q[i]), q[i].id = q[j].id
                 PROVE  j <= i
    BY <1>3 DEF Latest
  <2>2. CASE i = n + 1
    BY <2>2
  <2>3. CASE i \in 1..n /\ j = n + 1
    BY <1>2, <1>3, <2>1, <2>3
  <2>4. CASE i \in 1..n /\ j \in 1..n
    <3>1. j + d <= i + d
      BY <1>1, <1>2, <1>3, <2>1, <2>4 DEF Latest
    <3>2. QED
      BY <3>1
  <2>5. QED
    BY <2>2, <2>3, <2>4
<1>5. q \in List
  BY <1>2, <1>4 DEF List
<1>6. QED
  BY <1>5 DEF q

---------------------------------------------------------------------------
(***************************************************************************)
(* What the list shows is in the table. A trim keeps the MaxPersisted rows *)
(* updated last, so the row of a listed task must not be too far from the  *)
(* end. The rows after it are of at most MaxHistory - 1 other listed tasks,*)
(* and of tasks that were pushed out since: of those there are no more     *)
(* than the places the listed task itself has moved forward. Hence the     *)
(* bound in Covers, and that MaxPersisted is 2 * MaxHistory - 1 at least.  *)
(***************************************************************************)

Listed(ts) == {ts[i].id : i \in DOMAIN ts}

IsLast(ts, i) == \A j \in DOMAIN ts : ts[j].id = ts[i].id => j <= i

Unlisted(ts, rs, p) == {q \in DOMAIN rs : p < q /\ rs[q].id \notin Listed(ts)}

\* The last records with the ids K are in the table, not too far from its end.
Covers(ts, rs, K) ==
  \A i \in DOMAIN ts : IsLast(ts, i) /\ ts[i].id \in K =>
    \E p \in DOMAIN rs : /\ rs[p] = ts[i]
                         /\ Cardinality(Unlisted(ts, rs, p)) + i <= MaxHistory

\* A set that is mapped into a finite one, no two elements together, is no larger.
LEMMA NotLarger ==
  ASSUME NEW S, NEW T, IsFiniteSet(T), NEW f \in [S -> T], \A x, y \in S : f[x] = f[y] => x = y
  PROVE  IsFiniteSet(S) /\ Cardinality(S) \in Nat /\ Cardinality(S) <= Cardinality(T)
<1>1. f \in Injection(S, T)
  BY DEF Injection, IsInjective
<1>2. QED
  BY <1>1, FS_Injection, FS_CardinalityType

\* The unlisted rows after a place are finitely many.
LEMMA UnlistedFinite ==
  ASSUME NEW ts, NEW rs \in Seq(Task), NEW p
  PROVE  IsFiniteSet(Unlisted(ts, rs, p)) /\ Cardinality(Unlisted(ts, rs, p)) \in Nat
<1>1. PICK n \in Nat : n = Len(rs) /\ DOMAIN rs = 1..n
  OBVIOUS
<1>2. Unlisted(ts, rs, p) \in SUBSET (1..n)
  BY <1>1 DEF Unlisted
<1>3. QED
  BY <1>2, PlacesFinite

\* A row that stays when rows are dropped has no more unlisted rows after it, if the list
\* becomes us and the rows that stay are listed there still.
LEMMA AtCovers ==
  ASSUME NEW ts, NEW us, NEW rs \in Seq(Task), NEW P \in SUBSET (DOMAIN rs), NEW p \in P,
         \A x \in P : rs[x].id \in Listed(ts) => rs[x].id \in Listed(us)
  PROVE  \E k \in DOMAIN At(rs, P) :
           /\ At(rs, P)[k] = rs[p]
           /\ Cardinality(Unlisted(us, At(rs, P), k)) <= Cardinality(Unlisted(ts, rs, p))
<1> DEFINE q == At(rs, P)
<1>1. PICK n \in Nat : n = Len(rs) /\ DOMAIN rs = 1..n
  OBVIOUS
<1>2. P \in SUBSET (1..n) /\ Cardinality(P) \in Nat
  BY <1>1, PlacesFinite
<1>3. DOMAIN q = 1..Cardinality(P)
  BY DEF At
<1>4. /\ \A k \in DOMAIN q : Kth(P, k) \in P /\ q[k] = rs[Kth(P, k)]
      /\ \A k, l \in DOMAIN q : Kth(P, k) = Kth(P, l) => k = l
  BY AtPlaces
<1>5. PICK k \in 1..Cardinality(P) : Kth(P, k) = p
  BY <1>2, KthOnto
<1> HIDE DEF q
<1> DEFINE U == Unlisted(us, q, k)
           V == Unlisted(ts, rs, p)
           f == [l \in U |-> Kth(P, l)]
<1>6. \A l \in U : l \in DOMAIN q /\ k < l /\ q[l].id \notin Listed(us)
  BY DEF Unlisted
<1>7. ASSUME NEW l \in U PROVE Kth(P, l) \in V
  <2>1. l \in 1..Cardinality(P) /\ k < l
    BY <1>3, <1>6
  <2>2. p < Kth(P, l)
    BY <1>2, <1>5, <2>1, KthOrder
  <2>3. Kth(P, l) \in DOMAIN rs /\ rs[Kth(P, l)].id \notin Listed(ts)
    BY <1>3, <1>4, <1>6, <2>1
  <2>4. QED
    BY <2>2, <2>3 DEF Unlisted
<1>8. \A x, y \in U : Kth(P, x) = Kth(P, y) => x = y
  BY <1>4, <1>6
<1>9. IsFiniteSet(V)
  BY UnlistedFinite
<1> HIDE DEF U, V
<1>10. f \in [U -> V] /\ \A x, y \in U : f[x] = f[y] => x = y
  BY <1>7, <1>8
<1>11. Cardinality(U) <= Cardinality(V)
  BY <1>9, <1>10, NotLarger
<1>12. QED
  BY <1>3, <1>4, <1>5, <1>11 DEF q, U, V

\* A trim keeps the rows of the listed tasks.
LEMMA TrimCovers ==
  ASSUME NEW ts \in Seq(Task), Len(ts) <= MaxHistory, NEW rs \in Table, NEW K,
         Covers(ts, rs, K)
  PROVE  Covers(ts, Trim(rs), K)
<1> DEFINE Later(i) == {j \in (i + 1)..Len(rs) : ~Runs(rs[j])}
           P == {i \in DOMAIN rs : Runs(rs[i]) \/ Cardinality(Later(i)) < MaxPersisted}
<1>1. /\ rs \in Seq(Task) /\ \A i, j \in DOMAIN rs : rs[i].id = rs[j].id => i = j
      /\ Trim(rs) = At(rs, P)
  BY DEF Table, Trim
<1>2. PICK n \in Nat : n = Len(rs) /\ DOMAIN rs = 1..n
  BY <1>1
<1>3. PICK m \in Nat : m = Len(ts) /\ DOMAIN ts = 1..m /\ m <= MaxHistory
  OBVIOUS
<1>4. SUFFICES ASSUME NEW i \in DOMAIN ts, IsLast(ts, i), ts[i].id \in K
               PROVE  \E k \in DOMAIN Trim(rs) :
                        /\ Trim(rs)[k] = ts[i]
                        /\ Cardinality(Unlisted(ts, Trim(rs), k)) + i <= MaxHistory
  BY DEF Covers
<1>5. PICK p \in DOMAIN rs : rs[p] = ts[i] /\ Cardinality(Unlisted(ts, rs, p)) + i <= MaxHistory
  BY <1>4 DEF Covers
<1> DEFINE U == Unlisted(ts, rs, p)
           L == {q \in DOMAIN rs : p < q /\ rs[q].id \in Listed(ts)}
           Others == (1..m) \ {i}
           f == [q \in L |-> CHOOSE j \in Others : ts[j].id = rs[q].id]
<1>6. IsFiniteSet(U) /\ Cardinality(U) \in Nat
  BY <1>1, UnlistedFinite
<1>7. IsFiniteSet(Others) /\ Cardinality(Others) = m - 1
  <2>1. IsFiniteSet(1..m) /\ Cardinality(1..m) = m
    BY FS_Interval
  <2>2. i \in 1..m
    BY <1>3, <1>4
  <2>3. IsFiniteSet((1..m) \ {i}) /\ Cardinality((1..m) \ {i}) = Cardinality(1..m) - 1
    BY <2>1, <2>2, FS_RemoveElement
  <2>4. QED
    BY <2>1, <2>3
<1>8. ASSUME NEW q \in L PROVE f[q] \in Others /\ ts[f[q]].id = rs[q].id
  <2>1. PICK j \in 1..m : ts[j].id = rs[q].id
    BY <1>3 DEF Listed
  <2>2. p # q /\ p \in DOMAIN rs /\ q \in DOMAIN rs
    BY <1>2
  <2>3. j # i
    BY <1>1, <1>5, <2>1, <2>2
  <2>4. \E x \in Others : ts[x].id = rs[q].id
    BY <2>1, <2>3
  <2>5. f[q] = CHOOSE x \in Others : ts[x].id = rs[q].id
    OBVIOUS
  <2> HIDE DEF f, Others
  <2>6. QED
    BY <2>4, <2>5
<1>9. IsFiniteSet(L) /\ Cardinality(L) \in Nat /\ Cardinality(L) <= m - 1
  <2>1. ASSUME NEW x \in L, NEW y \in L, f[x] = f[y] PROVE x = y
    <3>1. ts[f[x]].id = rs[x].id /\ ts[f[y]].id = rs[y].id
      BY <1>8
    <3>2. x \in DOMAIN rs /\ y \in DOMAIN rs
      OBVIOUS
    <3> HIDE DEF f, L
    <3>3. QED
      BY <1>1, <2>1, <3>1, <3>2
  <2>2. f = [q \in L |-> f[q]]
    OBVIOUS
  <2> HIDE DEF f, L, Others
  <2>3. f \in [L -> Others]
    BY <1>8, <2>2
  <2>4. QED
    BY <1>7, <2>1, <2>3, NotLarger
<1>10. Cardinality(Later(p)) < MaxPersisted
  <2>1. IsFiniteSet(U \cup L) /\ Cardinality(U \cup L) <= Cardinality(U) + Cardinality(L)
    <3>1. U \cap L \in SUBSET U
      OBVIOUS
    <3> HIDE DEF U, L
    <3>2. Cardinality(U \cap L) \in Nat
      BY <1>6, <3>1, FS_Subset, FS_CardinalityType
    <3>3. /\ IsFiniteSet(U \cup L)
          /\ Cardinality(U \cup L) = Cardinality(U) + Cardinality(L) - Cardinality(U \cap L)
      BY <1>6, <1>9, FS_Union
    <3>4. QED
      BY <1>6, <1>9, <3>2, <3>3
  <2>2. Later(p) \in SUBSET (U \cup L)
    BY <1>2 DEF Unlisted
  <2>3. IsFiniteSet(Later(p)) /\ Cardinality(Later(p)) <= Cardinality(U \cup L)
    BY <2>1, <2>2, FS_Subset
  <2>4. Cardinality(Later(p)) \in Nat /\ Cardinality(U \cup L) \in Nat
    BY <2>1, <2>3, FS_CardinalityType
  <2>5. i \in 1..m /\ Cardinality(U) + i <= MaxHistory
    BY <1>3, <1>5
  <2> HIDE DEF U, L, Later
  <2>6. QED
    BY <1>3, <1>6, <1>9, <2>1, <2>3, <2>4, <2>5, DebuggerAssumptions
<1>11. p \in P
  BY <1>10
<1> HIDE DEF P
<1>12. PICK k \in DOMAIN At(rs, P) :
         /\ At(rs, P)[k] = rs[p]
         /\ Cardinality(Unlisted(ts, At(rs, P), k)) <= Cardinality(Unlisted(ts, rs, p))
  <2>1. P \in SUBSET (DOMAIN rs)
    BY DEF P
  <2>2. QED
    BY <1>1, <1>11, <2>1, AtCovers
<1>13. At(rs, P) \in Seq(Task)
  <2>1. P \in SUBSET (DOMAIN rs)
    BY DEF P
  <2>2. QED
    BY <1>1, <2>1, AtPlaces
<1>14. Cardinality(Unlisted(ts, At(rs, P), k)) \in Nat /\ i \in Nat /\ MaxHistory \in Nat
  BY <1>3, <1>13, UnlistedFinite, DebuggerAssumptions
<1>15. Cardinality(Unlisted(ts, At(rs, P), k)) + i <= MaxHistory
  BY <1>5, <1>6, <1>12, <1>14
<1>16. QED
  BY <1>1, <1>5, <1>12, <1>15

\* A save of the last record with an id covers that id, and still covers the others.
LEMMA SaveCovers ==
  ASSUME NEW ts \in Seq(Task), Len(ts) <= MaxHistory, NEW rs \in Table, NEW K,
         Covers(ts, rs, K), NEW i \in DOMAIN ts, IsLast(ts, i)
  PROVE  Covers(ts, Save(rs, ts[i]), K \cup {ts[i].id})
<1> DEFINE t == ts[i]
           P == {x \in DOMAIN rs : rs[x].id # t.id}
           q == At(rs, P)
           r == Append(q, t)
<1>1. rs \in Seq(Task) /\ P \in SUBSET (DOMAIN rs) /\ t \in Task
  BY DEF Table
<1>2. q \in Seq(Task)
  BY <1>1, AtPlaces
<1>3. Insert(rs, t) = r
  BY DEF Insert
<1>4. PICK m \in Nat : m = Len(ts) /\ DOMAIN ts = 1..m /\ m <= MaxHistory
  OBVIOUS
<1> HIDE DEF q
<1>5. PICK n \in Nat : n = Len(q) /\ DOMAIN q = 1..n
  BY <1>2
<1>6. /\ r \in Seq(Task) /\ DOMAIN r = 1..(n + 1) /\ r[n + 1] = t
      /\ \A x \in 1..n : r[x] = q[x]
  BY <1>1, <1>2, <1>5, AppendProperties
<1> HIDE DEF r
<1>7. ASSUME NEW j \in DOMAIN ts, IsLast(ts, j), ts[j].id \in K \cup {t.id}
      PROVE  \E p \in DOMAIN r : /\ r[p] = ts[j]
                                 /\ Cardinality(Unlisted(ts, r, p)) + j <= MaxHistory
  <2>1. j \in 1..m /\ i \in 1..m
    BY <1>4
  <2>2. CASE ts[j].id = t.id
    <3>1. j = i
      BY <1>7, <2>1, <2>2 DEF IsLast
    <3>2. Unlisted(ts, r, n + 1) = {}
      BY <1>5, <1>6 DEF Unlisted
    <3>3. Cardinality(Unlisted(ts, r, n + 1)) = 0
      BY <3>2, FS_EmptySet
    <3>4. n + 1 \in DOMAIN r /\ r[n + 1] = ts[j]
      BY <1>5, <1>6, <3>1
    <3>5. QED
      BY <1>4, <2>1, <3>3, <3>4, DebuggerAssumptions
  <2>3. CASE ts[j].id # t.id
    <3>1. PICK p \in DOMAIN rs :
            rs[p] = ts[j] /\ Cardinality(Unlisted(ts, rs, p)) + j <= MaxHistory
      BY <1>7, <2>3 DEF Covers
    <3>2. p \in P
      BY <2>3, <3>1
    <3>3. PICK k \in DOMAIN q :
            q[k] = rs[p] /\ Cardinality(Unlisted(ts, q, k)) <= Cardinality(Unlisted(ts, rs, p))
      BY <1>1, <3>2, AtCovers DEF q
    <3>4. Unlisted(ts, r, k) \in SUBSET Unlisted(ts, q, k)
      <4>1. t.id \in Listed(ts)
        BY DEF Listed
      <4>2. QED
        BY <1>5, <1>6, <4>1 DEF Unlisted
    <3>5. /\ IsFiniteSet(Unlisted(ts, q, k)) /\ Cardinality(Unlisted(ts, q, k)) \in Nat
          /\ Cardinality(Unlisted(ts, r, k)) \in Nat /\ Cardinality(Unlisted(ts, rs, p)) \in Nat
      BY <1>1, <1>2, <1>6, UnlistedFinite
    <3>6. Cardinality(Unlisted(ts, r, k)) <= Cardinality(Unlisted(ts, q, k))
      BY <3>4, <3>5, FS_Subset
    <3>7. k \in DOMAIN r /\ r[k] = ts[j]
      BY <1>5, <1>6, <3>1, <3>3
    <3>8. Cardinality(Unlisted(ts, r, k)) + j <= MaxHistory
      BY <2>1, <3>1, <3>3, <3>5, <3>6, DebuggerAssumptions
    <3>9. QED
      BY <3>7, <3>8
  <2>4. QED
    BY <2>2, <2>3
<1>8. Covers(ts, r, K \cup {t.id})
  BY <1>7 DEF Covers
<1>9. r \in Table
  BY <1>1, <1>3, InsertTable
<1>10. Covers(ts, Trim(r), K \cup {t.id})
  BY <1>8, <1>9, TrimCovers
<1>11. QED
  BY <1>3, <1>10 DEF Save

\* The ids of the first records.
FirstIds(q, n) == {q[k].id : k \in 1..n}

\* One more of them.
LEMMA NextId ==
  ASSUME NEW q, NEW x \in Nat
  PROVE  FirstIds(q, x + 1) = FirstIds(q, x) \cup {q[x + 1].id}
<1>1. 1..(x + 1) = (1..x) \cup {x + 1}
  OBVIOUS
<1>2. {q[k].id : k \in (1..x) \cup {x + 1}} = {q[k].id : k \in 1..x} \cup {q[x + 1].id}
  OBVIOUS
<1>3. QED
  BY <1>1, <1>2 DEF FirstIds

\* Several saves, each of the last record with its id: after each of them the ids saved
\* so far are covered.
LEMMA SavedCovers ==
  ASSUME rows \in Table, NEW ts \in Seq(Task), Len(ts) <= MaxHistory, NEW K,
         Covers(ts, rows, K), NEW q \in Seq(Task),
         \A k \in DOMAIN q : \E i \in DOMAIN ts : IsLast(ts, i) /\ ts[i] = q[k]
  PROVE  \A x \in 0..Len(q) : Covers(ts, Saved(q)[x], K \cup FirstIds(q, x))
<1> DEFINE n == Len(q)
           Upto(x) == K \cup FirstIds(q, x)
           S == {x \in Nat : x <= n => Covers(ts, Saved(q)[x], Upto(x))}
<1>1. n \in Nat /\ DOMAIN q = 1..n
  OBVIOUS
<1>2. /\ Saved(q)[0] = rows
      /\ \A x \in 1..n : Saved(q)[x] = Save(Saved(q)[x - 1], q[x])
      /\ \A x \in 0..n : Saved(q)[x] \in Table
  BY SavedTable
<1> HIDE DEF n
<1>3. 0 \in S
  <2>1. Upto(0) = K
    BY DEF FirstIds
  <2>2. QED
    BY <1>2, <2>1
<1>4. ASSUME NEW x \in Nat, x \in S PROVE x + 1 \in S
  <2>1. SUFFICES ASSUME x + 1 <= n PROVE Covers(ts, Saved(q)[x + 1], Upto(x + 1))
    OBVIOUS
  <2>2. x + 1 \in 1..n /\ x \in 0..n /\ (x + 1) - 1 = x
    BY <1>1, <2>1
  <2>3. PICK i \in DOMAIN ts : IsLast(ts, i) /\ ts[i] = q[x + 1]
    BY <1>1, <2>2
  <2>4. Covers(ts, Saved(q)[x], Upto(x)) /\ Saved(q)[x] \in Table
    BY <1>1, <1>2, <1>4, <2>1, <2>2
  <2>5. Saved(q)[x + 1] = Save(Saved(q)[x], ts[i])
    BY <1>2, <2>2, <2>3
  <2>6. Upto(x + 1) = Upto(x) \cup {ts[i].id}
    <3>1. FirstIds(q, x + 1) = FirstIds(q, x) \cup {q[x + 1].id}
      BY NextId
    <3>2. QED
      BY <2>3, <3>1
  <2> HIDE DEF Upto
  <2>7. Covers(ts, Save(Saved(q)[x], ts[i]), Upto(x) \cup {ts[i].id})
    BY <2>3, <2>4, SaveCovers
  <2>8. QED
    BY <2>5, <2>6, <2>7
<1> HIDE DEF S
<1>5. Nat \subseteq S
  BY <1>3, <1>4, Induction
<1>6. QED
  <2>1. ASSUME NEW x \in 0..n PROVE Covers(ts, Saved(q)[x], Upto(x))
    <3>1. x \in S /\ x <= n
      BY <1>1, <1>5
    <3>2. QED
      BY <3>1 DEF S
  <2>2. QED
    BY <2>1 DEF n

\* persist_task of each.
LEMMA PersistCovers ==
  ASSUME rows \in Table, NEW ts \in Seq(Task), Len(ts) <= MaxHistory, NEW K,
         store => Covers(ts, rows, K), NEW q \in Seq(Task), Persist(q),
         \A k \in DOMAIN q : \E i \in DOMAIN ts : IsLast(ts, i) /\ ts[i] = q[k]
  PROVE  store' => Covers(ts, rows', K \cup {q[k].id : k \in DOMAIN q})
<1>1. Len(q) \in Nat /\ DOMAIN q = 1..Len(q)
  OBVIOUS
<1>2. SUFFICES ASSUME store' PROVE Covers(ts, rows', K \cup FirstIds(q, Len(q)))
  BY <1>1 DEF FirstIds
<1>3. store /\ rows' = Saved(q)[Len(q)]
  BY <1>2 DEF Persist
<1>4. \A x \in 0..Len(q) : Covers(ts, Saved(q)[x], K \cup FirstIds(q, x))
  BY <1>3, SavedCovers
<1>5. Covers(ts, Saved(q)[Len(q)], K \cup FirstIds(q, Len(q)))
  <2>1. Len(q) \in 0..Len(q)
    BY <1>1
  <2>2. QED
    BY <1>4, <2>1, Zenon
<1>6. QED
  BY <1>3, <1>5

\* Records changed that keep their ids; the last ones of some ids are as before.
LEMMA ChangedCovers ==
  ASSUME NEW ts, NEW us, NEW rs, NEW K, K \subseteq Ids,
         DOMAIN us = DOMAIN ts, \A j \in DOMAIN ts : us[j].id = ts[j].id,
         \A j \in DOMAIN ts : IsLast(ts, j) /\ ts[j].id \in K => us[j] = ts[j],
         Covers(ts, rs, Ids)
  PROVE  Covers(us, rs, K)
<1>1. Listed(us) = Listed(ts)
  BY DEF Listed
<1>2. ASSUME NEW j \in DOMAIN us, IsLast(us, j), us[j].id \in K
      PROVE  \E p \in DOMAIN rs : /\ rs[p] = us[j]
                                  /\ Cardinality(Unlisted(us, rs, p)) + j <= MaxHistory
  <2>1. IsLast(ts, j) /\ ts[j].id \in K /\ j \in DOMAIN ts
    BY <1>2 DEF IsLast
  <2>2. us[j] = ts[j]
    BY <2>1
  <2>3. PICK p \in DOMAIN rs : /\ rs[p] = ts[j]
                               /\ Cardinality(Unlisted(ts, rs, p)) + j <= MaxHistory
    BY <2>1 DEF Covers
  <2>4. Unlisted(us, rs, p) = Unlisted(ts, rs, p)
    BY <1>1 DEF Unlisted
  <2>5. QED
    BY <2>2, <2>3, <2>4
<1>3. QED
  BY <1>2 DEF Covers

\* A push: a task pushed out adds at most its own row to the unlisted ones, and then every
\* listed task has moved forward.
LEMMA PushedCovers ==
  ASSUME NEW ts \in Seq(Task), Len(ts) <= MaxHistory, NEW rs \in Table, NEW t \in Task,
         Covers(ts, rs, Ids)
  PROVE  Covers(PushBounded(ts, t), rs, Ids \ {t.id})
<1> DEFINE us == PushBounded(ts, t)
<1>1. PICK d \in 0..1, n \in Nat :
        /\ us \in Seq(Task) /\ Len(us) = n + 1 /\ n + 1 <= MaxHistory /\ Len(ts) = n + d
        /\ \A k \in 1..n : us[k] = ts[k + d]
        /\ us[n + 1] = t
        /\ d = 0 \/ 1 \in DOMAIN ts
  BY PushedPlaces
<1> HIDE DEF us
<1>2. /\ DOMAIN us = 1..(n + 1) /\ DOMAIN ts = 1..(n + d)
      /\ \A k \in 1..n : k + d \in 1..(n + d)
  BY <1>1
<1>3. rs \in Seq(Task) /\ \A x, y \in DOMAIN rs : rs[x].id = rs[y].id => x = y
  BY DEF Table
<1>4. ASSUME NEW j \in DOMAIN us, IsLast(us, j), us[j].id \in Ids \ {t.id}
      PROVE  \E p \in DOMAIN rs : /\ rs[p] = us[j]
                                  /\ Cardinality(Unlisted(us, rs, p)) + j <= MaxHistory
  <2>1. j \in 1..n /\ j + d \in DOMAIN ts /\ us[j] = ts[j + d]
    <3>1. j \in 1..(n + 1) /\ j # n + 1
      BY <1>1, <1>2, <1>4
    <3>2. j \in 1..n
      BY <3>1
    <3>3. QED
      BY <1>1, <1>2, <3>2
  <2>2. IsLast(ts, j + d)
    <3>1. SUFFICES ASSUME NEW x \in DOMAIN ts, ts[x].id = ts[j + d].id, x > j + d PROVE FALSE
      BY <1>2, <2>1 DEF IsLast
    <3>2. x - d \in 1..n /\ (x - d) + d = x /\ x - d > j
      BY <1>2, <2>1, <3>1
    <3>3. us[x - d].id = us[j].id /\ x - d \in DOMAIN us
      <4>1. us[x - d] = ts[(x - d) + d] /\ x - d \in 1..(n + 1)
        BY <1>1, <3>2
      <4>2. QED
        BY <1>2, <2>1, <3>1, <3>2, <4>1
    <3>4. x - d <= j
      BY <1>4, <3>3 DEF IsLast
    <3>5. QED
      BY <2>1, <3>2, <3>4
  <2>3. PICK p \in DOMAIN rs : /\ rs[p] = ts[j + d]
                               /\ Cardinality(Unlisted(ts, rs, p)) + (j + d) <= MaxHistory
    BY <1>4, <2>1, <2>2 DEF Covers
  <2> DEFINE U == Unlisted(us, rs, p)
             V == Unlisted(ts, rs, p)
             gone == {x \in DOMAIN rs : d = 1 /\ rs[x].id = ts[1].id}
  <2>4. IsFiniteSet(V) /\ Cardinality(V) \in Nat /\ Cardinality(U) \in Nat
    BY <1>3, UnlistedFinite
  <2>5. U \in SUBSET (V \cup gone)
    <3>1. ASSUME NEW x \in U, x \notin V PROVE x \in gone
      <4>1. x \in DOMAIN rs /\ p < x /\ rs[x].id \notin Listed(us) /\ rs[x].id \in Listed(ts)
        BY <3>1 DEF Unlisted
      <4>2. PICK k \in 1..(n + d) : ts[k].id = rs[x].id
        BY <1>2, <4>1 DEF Listed
      <4>3. CASE d = 1 /\ k = 1
        BY <4>1, <4>2, <4>3
      <4>4. CASE ~(d = 1 /\ k = 1)
        <5>1. k - d \in 1..n /\ (k - d) + d = k
          BY <4>2, <4>4
        <5>2. us[k - d] = ts[k] /\ k - d \in DOMAIN us
          BY <1>1, <1>2, <5>1
        <5>3. rs[x].id \in Listed(us)
          BY <4>2, <5>2 DEF Listed
        <5>4. QED
          BY <4>1, <5>3
      <4>5. QED
        BY <4>3, <4>4
    <3>2. QED
      BY <3>1
  <2>6. Cardinality(U) <= Cardinality(V) + d
    <3>1. CASE gone = {}
      <4>1. U \in SUBSET V
        BY <2>5, <3>1
      <4> HIDE DEF U, V
      <4>2. Cardinality(U) <= Cardinality(V)
        BY <2>4, <4>1, FS_Subset
      <4>3. QED
        BY <2>4, <4>2
    <3>2. CASE gone # {}
      <4>1. PICK x \in gone : TRUE
        BY <3>2
      <4>2. d = 1 /\ gone = {x}
        BY <1>3, <4>1
      <4>3. U \in SUBSET (V \cup {x})
        BY <2>5, <4>2
      <4> HIDE DEF U, V, gone
      <4>4. IsFiniteSet(V \cup {x}) /\ Cardinality(V \cup {x}) <= Cardinality(V) + 1
        <5>1. /\ IsFiniteSet(V \cup {x})
              /\ Cardinality(V \cup {x}) = IF x \in V THEN Cardinality(V) ELSE Cardinality(V) + 1
          BY <2>4, FS_AddElement
        <5>2. QED
          BY <2>4, <5>1
      <4>5. Cardinality(U) <= Cardinality(V \cup {x}) /\ Cardinality(V \cup {x}) \in Nat
        BY <4>3, <4>4, FS_Subset, FS_CardinalityType
      <4>6. QED
        BY <2>4, <4>2, <4>4, <4>5
    <3>3. QED
      BY <3>1, <3>2
  <2>7. Cardinality(U) + j <= MaxHistory
    <3> HIDE DEF U
    <3>1. QED
      BY <2>1, <2>3, <2>4, <2>6, DebuggerAssumptions
  <2>8. QED
    BY <2>1, <2>3, <2>7
<1>5. QED
  BY <1>4 DEF Covers, us

\* One save, after a change that left only this record uncovered.
LEMMA SaveOneCovers ==
  ASSUME rows \in Table, NEW ts \in Seq(Task), Len(ts) <= MaxHistory,
         NEW i \in DOMAIN ts, IsLast(ts, i), store => Covers(ts, rows, Ids \ {ts[i].id}),
         Persist(<<ts[i]>>)
  PROVE  store' => Covers(ts, rows', Ids)
<1> DEFINE q == <<ts[i]>>
           K == (Ids \ {ts[i].id}) \cup {q[k].id : k \in DOMAIN q}
<1>1. q \in Seq(Task) /\ DOMAIN q = {1} /\ q[1] = ts[i] /\ ts[i] \in Task
  OBVIOUS
<1>2. \A k \in DOMAIN q : \E j \in DOMAIN ts : IsLast(ts, j) /\ ts[j] = q[k]
  BY <1>1
<1>3. ts[i].id \in Ids
  BY <1>1 DEF Task
<1>4. Ids = K
  BY <1>1, <1>3
<1> HIDE DEF q
<1>5. Persist(q)
  BY DEF q
<1>6. store' => Covers(ts, rows', K)
  BY <1>1, <1>2, <1>5, PersistCovers
<1>7. QED
  BY <1>4, <1>6

---------------------------------------------------------------------------
\* List and table through the events of tasks.

PanelOK ==
  /\ tasks \in List /\ rows \in Table /\ store \in BOOLEAN
  /\ store => Covers(tasks, rows, Ids)

\* A list without records is covered by any table.
LEMMA NothingToCover ==
  ASSUME NEW rs, NEW K
  PROVE  Covers(<<>>, rs, K)
BY DEF Covers

\* A list within its limit in which nothing runs.
LEMMA IdleList ==
  ASSUME NEW ts \in Seq(Task), Len(ts) <= MaxHistory, Idle(ts)
  PROVE  ts \in List
BY DEF Idle, List, Latest

\* A record changed in place, the last of its id, and saved.
LEMMA ChangedPanel ==
  ASSUME PanelOK, NEW i \in DOMAIN tasks, NEW t \in Task, t.id = tasks[i].id,
         Runs(t) => Runs(tasks[i]), IsLast(tasks, i), Changed(i, t)
  PROVE  PanelOK'
<1> DEFINE us == [tasks EXCEPT ![i] = t]
<1>1. tasks \in Seq(Task) /\ Len(tasks) <= MaxHistory
  BY DEF PanelOK, List
<1>2. us \in List
  BY ListChanged DEF PanelOK
<1>3. tasks' = us /\ <<t>> \in Seq(Task) /\ Persist(<<t>>)
  BY DEF Changed
<1>4. rows' \in Table /\ store' \in BOOLEAN
  BY <1>3, PersistTable DEF PanelOK
<1>5. /\ DOMAIN us = DOMAIN tasks /\ us[i] = t
      /\ \A j \in DOMAIN tasks : us[j].id = tasks[j].id /\ (j # i => us[j] = tasks[j])
  BY <1>1
<1> HIDE DEF us
<1>6. us \in Seq(Task) /\ Len(us) <= MaxHistory /\ i \in DOMAIN us /\ IsLast(us, i)
  BY <1>2, <1>5 DEF List, IsLast
<1>7. store => Covers(us, rows, Ids \ {us[i].id})
  <2>1. \A j \in DOMAIN tasks : tasks[j].id \in Ids \ {us[i].id} => us[j] = tasks[j]
    BY <1>5
  <2>2. QED
    BY <1>5, <2>1, ChangedCovers DEF PanelOK
<1>8. store' => Covers(us, rows', Ids)
  BY <1>3, <1>5, <1>6, <1>7, SaveOneCovers DEF PanelOK
<1>9. QED
  BY <1>2, <1>3, <1>4, <1>8 DEF PanelOK

\* A record pushed and saved, when none with its id runs.
LEMMA PushedPanel ==
  ASSUME PanelOK, NEW t \in Task, Pushed(t),
         \A i \in DOMAIN tasks : ~(tasks[i].id = t.id /\ Runs(tasks[i]))
  PROVE  PanelOK'
<1> DEFINE us == PushBounded(tasks, t)
<1>1. tasks \in Seq(Task) /\ Len(tasks) <= MaxHistory
  BY DEF PanelOK, List
<1>2. us \in List
  BY ListPushed DEF PanelOK
<1>3. tasks' = us /\ <<t>> \in Seq(Task) /\ Persist(<<t>>)
  BY DEF Pushed
<1>4. rows' \in Table /\ store' \in BOOLEAN
  BY <1>3, PersistTable DEF PanelOK
<1>5. PICK n \in Nat : Len(us) = n + 1 /\ us[n + 1] = t
  BY <1>1, PushedPlaces
<1>6. store => Covers(us, rows, Ids \ {t.id})
  BY <1>1, PushedCovers DEF PanelOK
<1> HIDE DEF us
<1>7. us \in Seq(Task) /\ Len(us) <= MaxHistory /\ n + 1 \in DOMAIN us /\ IsLast(us, n + 1)
  BY <1>2, <1>5 DEF List, IsLast
<1>8. store' => Covers(us, rows', Ids)
  <2>1. store => Covers(us, rows, Ids \ {us[n + 1].id})
    BY <1>5, <1>6
  <2>2. Persist(<<us[n + 1]>>)
    BY <1>3, <1>5
  <2>3. QED
    BY <1>7, <2>1, <2>2, SaveOneCovers DEF PanelOK
<1>9. QED
  BY <1>2, <1>3, <1>4, <1>8 DEF PanelOK

\* A start, taken over by the running record with the id when there is one.
LEMMA StartedPanel ==
  ASSUME PanelOK, NEW id \in Ids, Started(id)
  PROVE  PanelOK'
<1> DEFINE i == LastRunning(id)
           new == [id |-> id, known |-> TRUE, state |-> "running"]
           taken == [tasks[i] EXCEPT !.known = TRUE]
<1>1. tasks \in Seq(Task)
  BY DEF PanelOK, List
<1>2. CASE i = 0
  <2>1. \A j \in DOMAIN tasks : ~(tasks[j].id = new.id /\ Runs(tasks[j]))
    BY <1>1, <1>2, LastPlaces
  <2>2. new \in Task
    BY DEF Task, States
  <2>3. Pushed(new)
    BY <1>2 DEF Started
  <2> HIDE DEF new
  <2>4. QED
    BY <2>1, <2>2, <2>3, PushedPanel
<1>3. CASE i # 0
  <2>1. i \in DOMAIN tasks /\ tasks[i].id = id /\ Runs(tasks[i]) /\ IsLast(tasks, i)
    BY <1>1, <1>3, LastPlaces DEF PanelOK, List, Latest, IsLast
  <2>2. tasks[i] \in Task
    BY <1>1, <2>1
  <2>3. taken \in Task /\ taken.id = tasks[i].id
    BY <2>2 DEF Task
  <2>4. Changed(i, taken)
    BY <1>3 DEF Started
  <2> HIDE DEF taken, i
  <2>5. QED
    BY <2>1, <2>3, <2>4, ChangedPanel
<1>4. QED
  BY <1>2, <1>3

\* Progress of a running record.
LEMMA ProgressedPanel ==
  ASSUME PanelOK, NEW id \in Ids, Progressed(id)
  PROVE  PanelOK'
<1> DEFINE i == LastRunning(id)
<1>1. tasks \in Seq(Task)
  BY DEF PanelOK, List
<1>2. CASE i = 0
  BY <1>2 DEF Progressed, PanelOK, panel
<1>3. CASE i # 0
  <2>1. i \in DOMAIN tasks /\ IsLast(tasks, i)
    BY <1>1, <1>3, LastPlaces DEF PanelOK, List, Latest, IsLast
  <2>2. tasks[i] \in Task
    BY <1>1, <2>1
  <2>3. Changed(i, tasks[i])
    BY <1>3 DEF Progressed
  <2> HIDE DEF i
  <2>4. QED
    BY <2>1, <2>2, <2>3, ChangedPanel
<1>4. QED
  BY <1>2, <1>3

\* An end, of the last record with the id.
LEMMA FinishedPanel ==
  ASSUME PanelOK, NEW id \in Ids, NEW state \in {"completed", "failed"}, Finished(id, state)
  PROVE  PanelOK'
<1> DEFINE i == LastWith(id)
           new == [id |-> id, known |-> FALSE, state |-> state]
           ended == [tasks[i] EXCEPT !.state = state]
<1>1. tasks \in Seq(Task)
  BY DEF PanelOK, List
<1>2. CASE i = 0
  <2>1. \A j \in DOMAIN tasks : ~(tasks[j].id = new.id /\ Runs(tasks[j]))
    BY <1>1, <1>2, LastPlaces
  <2>2. new \in Task
    BY DEF Task, States, Runs
  <2>3. Pushed(new)
    BY <1>2 DEF Finished
  <2> HIDE DEF new
  <2>4. QED
    BY <2>1, <2>2, <2>3, PushedPanel
<1>3. CASE i # 0
  <2>1. i \in DOMAIN tasks /\ IsLast(tasks, i)
    BY <1>1, <1>3, LastPlaces DEF IsLast
  <2>2. tasks[i] \in Task
    BY <1>1, <2>1
  <2>3. ended \in Task /\ ended.id = tasks[i].id /\ ~Runs(ended)
    BY <2>2 DEF Task, States, Runs
  <2>4. Changed(i, ended)
    BY <1>3 DEF Finished
  <2> HIDE DEF ended, i
  <2>5. QED
    BY <2>1, <2>3, <2>4, ChangedPanel
<1>4. QED
  BY <1>2, <1>3

\* What an interruption makes of the list, the records it saves, and their ids.
Halted == [i \in DOMAIN tasks |-> IF Runs(tasks[i]) THEN Failed(tasks[i]) ELSE tasks[i]]
ToSave == [k \in DOMAIN RunningOf(tasks) |-> Failed(RunningOf(tasks)[k])]
Active == {tasks[i].id : i \in {i \in DOMAIN tasks : Runs(tasks[i])}}

\* Saved are the tasks that ran, ended, each the last of its id.
LEMMA InterruptedTasks ==
  ASSUME PanelOK
  PROVE  /\ Halted \in Seq(Task) /\ Len(Halted) = Len(tasks) /\ Idle(Halted)
         /\ ToSave \in Seq(Task) /\ Active = {ToSave[k].id : k \in DOMAIN ToSave}
         /\ \A k \in DOMAIN ToSave :
              /\ ~Runs(ToSave[k])
              /\ \E i \in DOMAIN Halted : IsLast(Halted, i) /\ Halted[i] = ToSave[k]
         /\ store => Covers(Halted, rows, Ids \ Active)
<1> DEFINE R == {i \in DOMAIN tasks : Runs(tasks[i])}
<1>1. tasks \in Seq(Task) /\ Len(tasks) <= MaxHistory
  BY DEF PanelOK, List
<1>2. \A t \in Task : Failed(t) \in Task /\ ~Runs(Failed(t)) /\ Failed(t).id = t.id
  BY DEF Failed, Task, States, Runs
<1>3. Halted \in Seq(Task) /\ Len(Halted) = Len(tasks) /\ Idle(Halted)
  <2>1. \A i \in DOMAIN tasks : Halted[i] \in Task /\ ~Runs(Halted[i])
    BY <1>1, <1>2 DEF Halted
  <2>2. DOMAIN tasks = 1..Len(tasks) /\ Len(tasks) \in Nat
    BY <1>1
  <2>3. DOMAIN Halted = 1..Len(tasks)
    BY <2>2 DEF Halted
  <2>4. Halted \in [1..Len(tasks) -> Task]
    BY <2>1, <2>2 DEF Halted
  <2>5. Halted \in Seq(Task) /\ Len(Halted) = Len(tasks)
    BY <2>2, <2>4
  <2>6. QED
    BY <2>1, <2>2, <2>3, <2>5 DEF Idle
<1>4. /\ DOMAIN Halted = DOMAIN tasks
      /\ \A i \in DOMAIN tasks :
           Halted[i].id = tasks[i].id /\ (~Runs(tasks[i]) => Halted[i] = tasks[i])
  BY <1>1, <1>2 DEF Halted
<1>5. R \in SUBSET (1..Len(tasks)) /\ Len(tasks) \in Nat /\ RunningOf(tasks) = At(tasks, R)
  BY <1>1 DEF RunningOf
<1>6. /\ DOMAIN ToSave = 1..Cardinality(R)
      /\ \A k \in DOMAIN ToSave : Kth(R, k) \in R /\ ToSave[k] = Halted[Kth(R, k)]
  <2>1. /\ DOMAIN RunningOf(tasks) = 1..Cardinality(R)
        /\ \A k \in DOMAIN RunningOf(tasks) : RunningOf(tasks)[k] = tasks[Kth(R, k)]
    BY <1>5 DEF At
  <2>2. \A k \in 1..Cardinality(R) : Kth(R, k) \in R
    BY <1>5, KthPlace
  <2>3. QED
    BY <2>1, <2>2 DEF ToSave, Halted
<1>7. \A i \in R : IsLast(tasks, i)
  BY DEF PanelOK, List, Latest, IsLast
<1>8. ToSave \in Seq(Task) /\ \A k \in DOMAIN ToSave : ~Runs(ToSave[k])
  <2>1. \A k \in 1..Cardinality(R) : ToSave[k] \in Task /\ ~Runs(ToSave[k])
    BY <1>3, <1>4, <1>5, <1>6 DEF Idle
  <2>2. Cardinality(R) \in Nat
    BY <1>5, PlacesFinite
  <2>3. ToSave = [k \in 1..Cardinality(R) |-> ToSave[k]]
    BY <1>6 DEF ToSave
  <2>4. ToSave \in Seq(Task)
    <3>1. [k \in 1..Cardinality(R) |-> ToSave[k]] \in Seq(Task)
      BY <2>1, <2>2, IsASeq
    <3>2. QED
      BY <2>3, <3>1
  <2>5. QED
    BY <1>6, <2>1, <2>4
<1> HIDE DEF R
<1>9. ASSUME NEW k \in DOMAIN ToSave
      PROVE  \E i \in DOMAIN Halted : IsLast(Halted, i) /\ Halted[i] = ToSave[k]
  <2> DEFINE i == Kth(R, k)
  <2>1. i \in R /\ ToSave[k] = Halted[i]
    BY <1>6
  <2> HIDE DEF i
  <2>2. i \in DOMAIN tasks /\ IsLast(tasks, i)
    BY <1>1, <1>5, <1>7, <2>1
  <2>3. i \in DOMAIN Halted /\ IsLast(Halted, i)
    BY <1>4, <2>2 DEF IsLast
  <2>4. QED
    BY <2>1, <2>3
<1>10. Active = {ToSave[k].id : k \in DOMAIN ToSave}
  <2>1. Active = {tasks[i].id : i \in R}
    BY DEF Active, R
  <2>2. \A k \in DOMAIN ToSave : Kth(R, k) \in R /\ ToSave[k].id = tasks[Kth(R, k)].id
    <3>1. ASSUME NEW k \in DOMAIN ToSave PROVE ToSave[k].id = tasks[Kth(R, k)].id
      <4>1. Kth(R, k) \in DOMAIN tasks /\ ToSave[k] = Halted[Kth(R, k)]
        <5>1. DOMAIN tasks = 1..Len(tasks)
          BY <1>1
        <5>2. QED
          BY <1>5, <1>6, <5>1
      <4>2. QED
        BY <1>4, <4>1
    <3>2. QED
      BY <1>6, <3>1
  <2>3. \A i \in R : \E k \in DOMAIN ToSave : Kth(R, k) = i
    BY <1>5, <1>6, KthOnto
  <2>4. QED
    BY <2>1, <2>2, <2>3
<1>11. store => Covers(Halted, rows, Ids \ Active)
  <2>1. ASSUME NEW j \in DOMAIN tasks, tasks[j].id \in Ids \ Active PROVE Halted[j] = tasks[j]
    BY <1>4, <2>1 DEF Active
  <2>2. Ids \ Active \subseteq Ids
    OBVIOUS
  <2>3. QED
    BY <1>4, <2>1, <2>2, ChangedCovers DEF PanelOK
<1>12. QED
  BY <1>3, <1>8, <1>9, <1>10, <1>11

\* All that ran have failed.
LEMMA InterruptPanel ==
  ASSUME PanelOK, Interrupt
  PROVE  PanelOK'
<1>1. /\ Halted \in Seq(Task) /\ Len(Halted) = Len(tasks) /\ Idle(Halted)
      /\ ToSave \in Seq(Task) /\ Active = {ToSave[k].id : k \in DOMAIN ToSave}
      /\ \A k \in DOMAIN ToSave :
           \E i \in DOMAIN Halted : IsLast(Halted, i) /\ Halted[i] = ToSave[k]
      /\ store => Covers(Halted, rows, Ids \ Active)
  BY InterruptedTasks
<1>2. tasks' = Halted /\ Persist(ToSave) /\ Len(tasks) <= MaxHistory
  BY DEF Interrupt, Halted, ToSave, PanelOK, List
<1>3. store' => Covers(Halted, rows', (Ids \ Active) \cup Active)
  BY <1>1, <1>2, PersistCovers DEF PanelOK
<1>4. store' => Covers(Halted, rows', Ids)
  BY <1>3 DEF Covers
<1>5. tasks' \in List
  BY <1>1, <1>2, IdleList
<1>6. rows' \in Table /\ store' \in BOOLEAN
  BY <1>1, <1>2, PersistTable DEF PanelOK
<1>7. QED
  BY <1>2, <1>4, <1>5, <1>6 DEF PanelOK

---------------------------------------------------------------------------
\* List and table when they are cleared and opened.

\* Of list and table the running ones stay; a row that does is still listed.
LEMMA ClearCovers ==
  ASSUME NEW ts \in List, NEW rs \in Table, Covers(ts, rs, Ids)
  PROVE  Covers(At(ts, {i \in DOMAIN ts : Runs(ts[i])}), At(rs, {i \in DOMAIN rs : Runs(rs[i])}), Ids)
<1> DEFINE P == {i \in DOMAIN ts : Runs(ts[i])}
           R == {i \in DOMAIN rs : Runs(rs[i])}
           us == At(ts, P)
           qs == At(rs, R)
<1>1. ts \in Seq(Task) /\ Len(ts) <= MaxHistory /\ Latest(ts)
  BY DEF List
<1>2. rs \in Seq(Task) /\ \A i, j \in DOMAIN rs : rs[i].id = rs[j].id => i = j
  BY DEF Table
<1>3. PICK n \in Nat : n = Len(ts) /\ DOMAIN ts = 1..n
  BY <1>1
<1>4. P \in SUBSET (1..n) /\ Cardinality(P) \in Nat /\ R \in SUBSET (DOMAIN rs)
  BY <1>3, PlacesFinite
<1>5. DOMAIN us = 1..Cardinality(P) /\ \A k \in DOMAIN us : us[k] = ts[Kth(P, k)]
  BY DEF At
<1>6. \A k \in DOMAIN us : Kth(P, k) \in P /\ k <= Kth(P, k)
  BY <1>4, <1>5, KthPlace, KthAhead
<1>7. \A i \in P : IsLast(ts, i) /\ i \in DOMAIN ts /\ Runs(ts[i]) /\ ts[i].id \in Ids
  <2>1. \A i \in DOMAIN ts : ts[i] \in Task
    BY <1>1
  <2>2. \A i \in DOMAIN ts : ts[i].id \in Ids
    BY <2>1 DEF Task
  <2>3. QED
    BY <1>1, <2>2 DEF Latest, IsLast
<1> HIDE DEF us
<1>8. ASSUME NEW x \in R, rs[x].id \in Listed(ts) PROVE rs[x].id \in Listed(us)
  <2> DEFINE I == {j \in 1..n : ts[j].id = rs[x].id}
             i == Max(I)
  <2>1. I \in SUBSET (1..n) /\ I # {}
    BY <1>3, <1>8 DEF Listed
  <2>2. i \in I /\ \A j \in I : j <= i
    BY <2>1, MaxOfSet
  <2> HIDE DEF i
  <2>3. i \in DOMAIN ts /\ IsLast(ts, i) /\ ts[i].id = rs[x].id
    BY <1>3, <2>2 DEF IsLast
  <2>4. ts[i].id \in Ids
    <3>1. ts[i] \in Task
      BY <1>1, <2>3
    <3>2. QED
      BY <3>1 DEF Task
  <2>5. PICK p \in DOMAIN rs : rs[p] = ts[i]
    BY <2>3, <2>4 DEF Covers
  <2>6. p = x
    BY <1>2, <2>3, <2>5
  <2>7. i \in P
    BY <2>3, <2>5, <2>6
  <2>8. PICK k \in 1..Cardinality(P) : Kth(P, k) = i
    BY <1>4, <2>7, KthOnto
  <2>9. us[k].id = rs[x].id /\ k \in DOMAIN us
    BY <1>5, <2>3, <2>8
  <2>10. QED
    BY <2>9 DEF Listed
<1>9. ASSUME NEW k \in DOMAIN us, us[k].id \in Ids
      PROVE  \E p \in DOMAIN qs : /\ qs[p] = us[k]
                                  /\ Cardinality(Unlisted(us, qs, p)) + k <= MaxHistory
  <2> DEFINE i == Kth(P, k)
  <2>1. i \in P /\ k <= i /\ us[k] = ts[i]
    BY <1>5, <1>6
  <2> HIDE DEF i
  <2>2. PICK p \in DOMAIN rs : /\ rs[p] = ts[i]
                               /\ Cardinality(Unlisted(ts, rs, p)) + i <= MaxHistory
    BY <1>7, <2>1 DEF Covers
  <2>3. p \in R
    BY <1>7, <2>1, <2>2
  <2> HIDE DEF R
  <2>4. PICK q \in DOMAIN qs :
          /\ qs[q] = rs[p]
          /\ Cardinality(Unlisted(us, qs, q)) <= Cardinality(Unlisted(ts, rs, p))
    BY <1>2, <1>4, <1>8, <2>3, AtCovers
  <2>5. qs \in Seq(Task)
    BY <1>2, <1>4, AtPlaces
  <2> HIDE DEF qs
  <2>6. /\ Cardinality(Unlisted(us, qs, q)) \in Nat /\ Cardinality(Unlisted(ts, rs, p)) \in Nat
        /\ i \in Nat /\ k \in Nat /\ MaxHistory \in Nat
    <3>1. Cardinality(Unlisted(us, qs, q)) \in Nat /\ Cardinality(Unlisted(ts, rs, p)) \in Nat
      BY <1>2, <2>5, UnlistedFinite
    <3>2. i \in Nat /\ k \in Nat
      BY <1>4, <1>5, <2>1
    <3>3. QED
      BY <3>1, <3>2, DebuggerAssumptions
  <2>7. Cardinality(Unlisted(us, qs, q)) + k <= MaxHistory
    BY <2>1, <2>2, <2>4, <2>6
  <2>8. QED
    BY <2>1, <2>2, <2>4, <2>7
<1>10. Covers(us, qs, Ids)
  BY <1>9 DEF Covers
<1>11. QED
  BY <1>10 DEF us

\* What ClearFinished leaves.
LEMMA ClearPanel ==
  ASSUME PanelOK, ClearFinished
  PROVE  PanelOK'
<1> DEFINE P == {i \in DOMAIN tasks : Runs(tasks[i])}
           q == At(tasks, P)
<1>1. tasks \in Seq(Task) /\ Len(tasks) <= MaxHistory /\ Latest(tasks)
  BY DEF PanelOK, List
<1>2. /\ q \in Seq(Task) /\ Len(q) <= Len(tasks)
      /\ \A k \in DOMAIN q : Kth(P, k) \in P /\ q[k] = tasks[Kth(P, k)]
      /\ \A k, l \in DOMAIN q : Kth(P, k) = Kth(P, l) => k = l
  BY <1>1, AtPlaces
<1>3. ASSUME NEW k \in DOMAIN q, NEW l \in DOMAIN q, q[k].id = q[l].id PROVE k = l
  <2> DEFINE i == Kth(P, k)
             j == Kth(P, l)
  <2>1. i \in P /\ j \in P /\ q[k] = tasks[i] /\ q[l] = tasks[j]
    BY <1>2
  <2>2. i <= j /\ j <= i /\ i \in Nat /\ j \in Nat
    BY <1>1, <1>3, <2>1 DEF Latest
  <2>3. QED
    BY <1>2, <2>2
<1>4. tasks' = q
  BY DEF ClearFinished, RunningOf
<1>11. store => Covers(q, RunningOf(rows), Ids)
  BY ClearCovers DEF PanelOK, RunningOf
<1> HIDE DEF q
<1>5. Latest(q)
  BY <1>2, <1>3 DEF Latest
<1>6. tasks' \in List
  <2>1. Len(q) \in Nat /\ Len(tasks) \in Nat
    BY <1>1, <1>2
  <2>2. QED
    BY <1>1, <1>2, <1>4, <1>5, <2>1, DebuggerAssumptions DEF List
<1>7. RunningOf(rows) \in Table
  BY AtTable DEF PanelOK, RunningOf
<1>8. rows' \in Table /\ store' \in BOOLEAN
  BY <1>7 DEF PanelOK, ClearFinished
<1>9. store' => Covers(q, rows', Ids)
  BY <1>11 DEF ClearFinished
<1>10. QED
  BY <1>4, <1>6, <1>8, <1>9 DEF PanelOK

\* Rows marked as interrupted are a table in which nothing runs.
LEMMA InterruptedTable ==
  ASSUME NEW rs \in Table
  PROVE  Interrupted(rs) \in Table /\ Idle(Interrupted(rs))
<1> DEFINE F == {i \in DOMAIN rs : ~Runs(rs[i])}
           R == {i \in DOMAIN rs : Runs(rs[i])}
           a == At(rs, F)
           r == At(rs, R)
           b == [i \in DOMAIN r |-> Failed(r[i])]
           c == a \o b
<1>1. rs \in Seq(Task) /\ \A i, j \in DOMAIN rs : rs[i].id = rs[j].id => i = j
  BY DEF Table
<1>2. /\ a \in Seq(Task) /\ Idle(a)
      /\ \A k \in DOMAIN a : Kth(F, k) \in F /\ a[k] = rs[Kth(F, k)]
      /\ \A k, l \in DOMAIN a : a[k].id = a[l].id => k = l
  <2>1. a \in Table
    BY AtTable
  <2>2. F \in SUBSET (DOMAIN rs)
    OBVIOUS
  <2>3. \A k \in DOMAIN a : Kth(F, k) \in F /\ a[k] = rs[Kth(F, k)]
    BY <1>1, <2>2, AtPlaces
  <2> HIDE DEF a
  <2>4. QED
    BY <2>1, <2>3 DEF Table, Idle
<1>3. /\ r \in Seq(Task)
      /\ \A k \in DOMAIN r : Kth(R, k) \in R /\ r[k] = rs[Kth(R, k)]
      /\ \A k, l \in DOMAIN r : r[k].id = r[l].id => k = l
  <2>1. r \in Table
    BY AtTable
  <2>2. R \in SUBSET (DOMAIN rs)
    OBVIOUS
  <2>3. \A k \in DOMAIN r : Kth(R, k) \in R /\ r[k] = rs[Kth(R, k)]
    BY <1>1, <2>2, AtPlaces
  <2> HIDE DEF r
  <2>4. QED
    BY <2>1, <2>3 DEF Table
<1>4. Interrupted(rs) = c
  BY DEF Interrupted, RunningOf, FinishedOf
<1>5. \A k \in DOMAIN a, l \in DOMAIN r : a[k].id # r[l].id
  <2>1. TAKE k \in DOMAIN a, l \in DOMAIN r
  <2>2. Kth(F, k) # Kth(R, l) /\ Kth(F, k) \in DOMAIN rs /\ Kth(R, l) \in DOMAIN rs
    BY <1>2, <1>3
  <2>3. QED
    BY <1>1, <1>2, <1>3, <2>2
<1> HIDE DEF a, r
<1>6. /\ b \in Seq(Task) /\ Len(b) = Len(r)
      /\ \A k \in 1..Len(r) : b[k].id = r[k].id /\ ~Runs(b[k])
  <2>1. \A t \in Task : Failed(t) \in Task /\ Failed(t).id = t.id /\ ~Runs(Failed(t))
    BY DEF Failed, Task, States, Runs
  <2>2. DOMAIN r = 1..Len(r) /\ Len(r) \in Nat /\ \A k \in 1..Len(r) : r[k] \in Task
    BY <1>3
  <2>3. b \in [1..Len(r) -> Task] /\ \A k \in 1..Len(r) : b[k] = Failed(r[k])
    BY <2>1, <2>2
  <2> HIDE DEF b
  <2>4. b \in Seq(Task) /\ Len(b) = Len(r)
    BY <2>2, <2>3
  <2>5. QED
    BY <2>1, <2>2, <2>3, <2>4
<1> HIDE DEF b
<1>7. /\ c \in Seq(Task) /\ Len(c) = Len(a) + Len(b)
      /\ \A k \in 1..Len(c) : c[k] = IF k <= Len(a) THEN a[k] ELSE b[k - Len(a)]
  BY <1>2, <1>6, ConcatProperties
<1> HIDE DEF c
<1>8. /\ Len(a) \in Nat /\ Len(b) \in Nat /\ DOMAIN a = 1..Len(a) /\ DOMAIN r = 1..Len(b)
      /\ DOMAIN c = 1..Len(c)
  BY <1>2, <1>3, <1>6, <1>7
<1>9. ASSUME NEW k \in 1..Len(c)
      PROVE  \/ k \in DOMAIN a /\ c[k] = a[k]
             \/ /\ k - Len(a) \in DOMAIN r
                /\ c[k].id = r[k - Len(a)].id /\ ~Runs(c[k])
  <2>1. CASE k <= Len(a)
    BY <1>7, <1>8, <2>1
  <2>2. CASE ~ (k <= Len(a))
    <3>1. k - Len(a) \in 1..Len(b) /\ c[k] = b[k - Len(a)]
      BY <1>7, <1>8, <2>2
    <3>2. QED
      BY <1>6, <1>8, <3>1
  <2>3. QED
    BY <2>1, <2>2
<1>10. Idle(c)
  BY <1>2, <1>8, <1>9 DEF Idle
<1>11. ASSUME NEW k \in 1..Len(c), NEW l \in 1..Len(c), c[k].id = c[l].id PROVE k = l
  <2>1. CASE k \in DOMAIN a /\ c[k] = a[k] /\ l \in DOMAIN a /\ c[l] = a[l]
    BY <1>2, <1>11, <2>1
  <2>2. CASE /\ k - Len(a) \in DOMAIN r /\ c[k].id = r[k - Len(a)].id
             /\ l - Len(a) \in DOMAIN r /\ c[l].id = r[l - Len(a)].id
    <3>1. k - Len(a) = l - Len(a)
      BY <1>3, <1>11, <2>2
    <3>2. QED
      BY <1>7, <1>8, <3>1
  <2>3. CASE \/ /\ k \in DOMAIN a /\ c[k] = a[k]
                /\ l - Len(a) \in DOMAIN r /\ c[l].id = r[l - Len(a)].id
             \/ /\ l \in DOMAIN a /\ c[l] = a[l]
                /\ k - Len(a) \in DOMAIN r /\ c[k].id = r[k - Len(a)].id
    BY <1>5, <1>11, <2>3
  <2>4. QED
    BY <1>9, <2>1, <2>2, <2>3
<1>12. QED
  BY <1>4, <1>7, <1>8, <1>10, <1>11 DEF Table

\* What Open leaves.
LEMMA OpenPanel ==
  ASSUME PanelOK, ~store, Open
  PROVE  PanelOK'
<1>1. CASE UNCHANGED panel
  BY <1>1 DEF PanelOK, panel
<1>2. ASSUME NEW legacy, rows' = LegacyRemoved(Interrupted(rows), legacy)
      PROVE  /\ rows' \in Table /\ LastOf(rows', MaxHistory) \in List
             /\ Covers(LastOf(rows', MaxHistory), rows', Ids)
  <2> DEFINE q == Interrupted(rows)
             P == {i \in DOMAIN q : q[i].id \notin legacy}
  <2>1. q \in Table /\ Idle(q)
    BY InterruptedTable DEF PanelOK
  <2>2. rows' = At(q, P)
    BY <1>2 DEF LegacyRemoved
  <2>3. q \in Seq(Task) /\ P \in SUBSET (DOMAIN q)
    BY <2>1 DEF Table
  <2> HIDE DEF q, P
  <2>4. rows' \in Table /\ Idle(rows')
    <3>1. \A k \in DOMAIN At(q, P) : Kth(P, k) \in P /\ At(q, P)[k] = q[Kth(P, k)]
      BY <2>3, AtPlaces
    <3>2. At(q, P) \in Table
      BY <2>1, <2>3, AtTable
    <3>3. QED
      BY <2>1, <2>2, <2>3, <3>1, <3>2 DEF Idle
  <2> DEFINE n == Len(rows')
             m == IF n > MaxHistory THEN n - MaxHistory + 1 ELSE 1
             l == SubSeq(rows', m, n)
  <2>5. /\ rows' \in Seq(Task) /\ n \in Nat /\ MaxHistory \in Nat \ {0}
        /\ \A k \in 1..n : rows'[k] \in Task /\ ~Runs(rows'[k])
    BY <2>4, DebuggerAssumptions DEF Table, Idle
  <2>6. m \in Int /\ m >= 1 /\ n - m + 1 <= MaxHistory
    BY <2>5
  <2> HIDE DEF n, m
  <2>7. \A k \in m..n : rows'[k] \in Task
    BY <2>5, <2>6
  <2>8. /\ l \in Seq(Task) /\ Len(l) = IF m <= n THEN n - m + 1 ELSE 0
        /\ \A k \in 1..(n - m + 1) : l[k] = rows'[m + k - 1]
    BY <2>5, <2>6, <2>7, SubSeqProperties
  <2> HIDE DEF l
  <2>9. Len(l) <= MaxHistory /\ Idle(l)
    <3>1. DOMAIN l = 1..Len(l) /\ Len(l) \in Nat
      BY <2>8
    <3>2. \A k \in 1..Len(l) : m + k - 1 \in 1..n /\ l[k] = rows'[m + k - 1]
      BY <2>5, <2>6, <2>8
    <3>3. Idle(l)
      <4>1. \A k \in 1..Len(l) : ~Runs(l[k])
        BY <2>5, <3>2
      <4>2. QED
        BY <3>1, <4>1 DEF Idle
    <3>4. Len(l) <= MaxHistory
      BY <2>5, <2>6, <2>8
    <3>5. QED
      BY <3>3, <3>4
  <2>10. l \in List
    BY <2>8, <2>9, IdleList
  <2>11. DOMAIN l = 1..Len(l) /\ Len(l) \in Nat /\ DOMAIN rows' = 1..n
    BY <2>5, <2>8 DEF n
  <2>12. \A k \in 1..Len(l) : m + k - 1 \in 1..n /\ l[k] = rows'[m + k - 1]
    BY <2>5, <2>6, <2>8
  <2>13. ASSUME NEW k \in DOMAIN l
         PROVE  Cardinality(Unlisted(l, rows', m + k - 1)) + k <= MaxHistory
    <3>1. ASSUME NEW x \in 1..n, m + k - 1 < x PROVE rows'[x].id \in Listed(l)
      <4>1. x - m + 1 \in 1..Len(l) /\ m + (x - m + 1) - 1 = x
        BY <2>5, <2>6, <2>8, <2>11, <3>1
      <4>2. l[x - m + 1] = rows'[x]
        BY <2>12, <4>1
      <4>3. QED
        BY <2>11, <4>1, <4>2 DEF Listed
    <3>2. Unlisted(l, rows', m + k - 1) = {}
      BY <2>11, <3>1 DEF Unlisted
    <3>3. k \in Nat /\ k <= Len(l)
      BY <2>11
    <3>4. QED
      <4>1. Cardinality(Unlisted(l, rows', m + k - 1)) = 0
        BY <3>2, FS_EmptySet
      <4>2. QED
        BY <2>5, <2>9, <2>11, <3>3, <4>1
  <2>14. Covers(l, rows', Ids)
    BY <2>11, <2>12, <2>13 DEF Covers
  <2>15. QED
    BY <2>4, <2>10, <2>14 DEF LastOf, l, m, n
<1>3. ASSUME NEW legacy, rows' = LegacyRemoved(Interrupted(rows), legacy),
             \/ store' = TRUE /\ tasks' = LastOf(rows', MaxHistory)
             \/ UNCHANGED <<store, tasks>>
      PROVE  PanelOK'
  <2>1. CASE store' = TRUE /\ tasks' = LastOf(rows', MaxHistory)
    BY <1>2, <1>3, <2>1 DEF PanelOK
  <2>2. CASE UNCHANGED <<store, tasks>>
    BY <1>2, <1>3, <2>2 DEF PanelOK
  <2>3. QED
    BY <1>3, <2>1, <2>2
<1>4. QED
  BY <1>1, <1>3 DEF Open

---------------------------------------------------------------------------
\* The steps.

ProcessOK ==
  /\ agent \in 0..agents /\ agents \in 0..MaxAgents
  /\ alive \in BOOLEAN /\ (alive => agent = agents /\ agent # 0)
  /\ busy \subseteq Ids

PipesOK ==
  /\ pipes \in [1..MaxAgents -> Seq(Line)]
  /\ \A a \in 1..MaxAgents : Len(pipes[a]) <= MaxLines

FrameOK ==
  /\ at \in {"drain", "agent", "debugger", "updater", "draw", "closed"}
  /\ ready \subseteq Components
  /\ updater \in BOOLEAN /\ closing \in BOOLEAN
  /\ starts \in 0..MaxStarts
  /\ at = "closed" => ~store

IInv == PanelOK /\ ProcessOK /\ PipesOK /\ FrameOK

\* The invariant has the type invariant and the properties in it.
LEMMA InvariantMeans == IInv => TypeOK /\ RunningIsLatest /\ HistoryAgrees
<1>1. SUFFICES ASSUME IInv PROVE TypeOK /\ RunningIsLatest /\ HistoryAgrees
  OBVIOUS
<1>2. /\ tasks \in Seq(Task) /\ Len(tasks) <= MaxHistory /\ Latest(tasks)
      /\ rows \in Seq(Task) /\ \A i, j \in DOMAIN rows : rows[i].id = rows[j].id => i = j
  BY <1>1 DEF IInv, PanelOK, List, Table
<1>3. RunningIsLatest
  BY <1>2, LatestIsLast
<1>4. TypeOK
  BY <1>1, <1>2 DEF IInv, PanelOK, ProcessOK, PipesOK, FrameOK, TypeOK
<1>5. HistoryAgrees
  <2>1. SUFFICES ASSUME store, NEW id \in Ids, LastWith(id) # 0
                 PROVE  \E i \in DOMAIN rows : rows[i] = tasks[LastWith(id)]
    BY DEF HistoryAgrees
  <2>2. LastWith(id) \in DOMAIN tasks /\ tasks[LastWith(id)].id = id /\ IsLast(tasks, LastWith(id))
    BY <1>2, <2>1, LastPlaces DEF IsLast
  <2>3. QED
    BY <1>1, <2>1, <2>2 DEF IInv, PanelOK, Covers
<1>6. QED
  BY <1>3, <1>4, <1>5

\* What a step leaves alone keeps its part.
LEMMA Untouched ==
  ASSUME IInv
  PROVE  /\ UNCHANGED panel => PanelOK'
         /\ UNCHANGED process => ProcessOK'
         /\ UNCHANGED pipes => PipesOK'
<1>1. UNCHANGED panel => PanelOK'
  BY DEF IInv, PanelOK, panel
<1>2. UNCHANGED process => ProcessOK'
  BY DEF IInv, ProcessOK, process
<1>3. UNCHANGED pipes => PipesOK'
  BY DEF IInv, PipesOK
<1>4. QED
  BY <1>1, <1>2, <1>3

\* An Agent given up, and one started.
LEMMA Processes ==
  ASSUME IInv
  PROVE  /\ NoAgent => ProcessOK'
         /\ Spawned => ProcessOK'
         /\ (/\ agents < MaxAgents /\ agents' = agents + 1 /\ agent' = agents + 1
             /\ alive' = TRUE /\ busy' = {}) => ProcessOK'
<1>1. agents \in Nat /\ agents <= MaxAgents /\ MaxAgents \in Nat
  BY DebuggerAssumptions DEF IInv, ProcessOK
<1>2. NoAgent => ProcessOK'
  <2>1. SUFFICES ASSUME NoAgent PROVE ProcessOK'
    OBVIOUS
  <2>2. agents' = agents /\ agent' = 0 /\ alive' = FALSE /\ busy' = {}
    BY <2>1 DEF NoAgent
  <2>3. agent' \in 0..agents' /\ agents' \in 0..MaxAgents
    BY <1>1, <2>2
  <2>4. QED
    BY <2>2, <2>3 DEF ProcessOK
<1>3. ASSUME agents < MaxAgents, agents' = agents + 1, agent' = agents + 1,
             alive' = TRUE, busy' = {}
      PROVE  ProcessOK'
  <2>1. agent' \in 0..agents' /\ agents' \in 0..MaxAgents /\ agent' = agents' /\ agent' # 0
    BY <1>1, <1>3
  <2>2. QED
    BY <1>3, <2>1 DEF ProcessOK
<1>4. Spawned => ProcessOK'
  BY <1>3, Untouched DEF Spawned
<1>5. QED
  BY <1>2, <1>3, <1>4

\* stop_agent.
LEMMA StoppedKeeps ==
  ASSUME IInv, Stopped
  PROVE  PanelOK' /\ ProcessOK'
<1>1. PanelOK
  BY DEF IInv
<1>2. CASE agent # 0 /\ NoAgent /\ Interrupt
  BY <1>1, <1>2, Processes, InterruptPanel
<1>3. CASE UNCHANGED process /\ UNCHANGED panel
  BY <1>3, Untouched
<1>4. QED
  BY <1>2, <1>3 DEF Stopped

\* The Agent's steps.
LEMMA AgentKeeps ==
  ASSUME IInv, AgentStep
  PROVE  IInv'
<1>1. ASSUME NEW line \in Line, Writes(line), busy' \subseteq Ids, starts' \in 0..MaxStarts
      PROVE  IInv'
  <2>1. agent \in 1..MaxAgents /\ pipes[agent] \in Seq(Line) /\ Len(pipes[agent]) < MaxLines
    BY <1>1, DebuggerAssumptions DEF IInv, ProcessOK, PipesOK, Writes
  <2> DEFINE q == Append(pipes[agent], line)
  <2>2. q \in Seq(Line) /\ Len(q) = Len(pipes[agent]) + 1
    BY <1>1, <2>1, AppendProperties
  <2>3. Len(q) <= MaxLines
    <3>1. Len(pipes[agent]) \in Nat /\ MaxLines \in Nat
      BY <2>1, DebuggerAssumptions
    <3>2. QED
      BY <2>1, <2>2, <3>1
  <2>4. pipes' = [pipes EXCEPT ![agent] = q]
    BY <1>1 DEF Writes
  <2> HIDE DEF q
  <2>5. PipesOK'
    BY <2>1, <2>2, <2>3, <2>4 DEF IInv, PipesOK
  <2>6. PanelOK'
    BY <1>1, Untouched DEF Writes
  <2>7. ProcessOK' /\ FrameOK'
    BY <1>1 DEF IInv, ProcessOK, FrameOK, Writes, panel
  <2>8. QED
    BY <2>5, <2>6, <2>7 DEF IInv
<1>2. busy \subseteq Ids /\ starts \in 0..MaxStarts
  BY DEF IInv, ProcessOK, FrameOK
<1>3. ASSUME NEW id \in Ids, TaskStarts(id) PROVE IInv'
  <2>1. [kind |-> "started", id |-> id] \in Line
    BY DEF Line, Events
  <2>2. busy' \subseteq Ids /\ starts' \in 0..MaxStarts
    BY <1>2, <1>3, DebuggerAssumptions DEF TaskStarts
  <2>3. QED
    BY <1>1, <1>3, <2>1, <2>2 DEF TaskStarts
<1>4. ASSUME NEW id \in Ids, TaskProgresses(id) PROVE IInv'
  <2>1. [kind |-> "progress", id |-> id] \in Line
    BY DEF Line, Events
  <2>2. QED
    BY <1>1, <1>2, <1>4, <2>1 DEF TaskProgresses
<1>5. ASSUME NEW id \in Ids, NEW state \in {"completed", "failed"}, TaskEnds(id, state)
      PROVE  IInv'
  <2>1. [kind |-> state, id |-> id] \in Line
    BY DEF Line, Events
  <2>2. busy' \subseteq Ids
    BY <1>2, <1>5 DEF TaskEnds
  <2>3. QED
    BY <1>1, <1>2, <1>5, <2>1, <2>2 DEF TaskEnds
<1>6. ASSUME NEW c \in Components, UpdateReady(c) PROVE IInv'
  <2>1. [kind |-> "ready", id |-> c] \in Line
    BY DEF Line
  <2>2. QED
    BY <1>1, <1>2, <1>6, <2>1 DEF UpdateReady
<1>7. ASSUME AgentExits PROVE IInv'
  <2>1. PanelOK' /\ PipesOK'
    BY <1>7, Untouched DEF AgentExits
  <2>2. ProcessOK' /\ FrameOK'
    BY <1>7 DEF IInv, ProcessOK, FrameOK, AgentExits, panel
  <2>3. QED
    BY <2>1, <2>2 DEF IInv
<1>8. QED
  BY <1>3, <1>4, <1>5, <1>6, <1>7 DEF AgentStep

\* A line of any Agent is handled.
LEMMA LineKeeps ==
  ASSUME IInv, NEW a \in 1..MaxAgents, HandleLine(a)
  PROVE  IInv'
<1> DEFINE line == Head(pipes[a])
           rest == Tail(pipes[a])
<1>1. /\ pipes[a] \in Seq(Line) /\ pipes[a] # <<>> /\ Len(pipes[a]) <= MaxLines
      /\ pipes' = [pipes EXCEPT ![a] = rest]
  BY DEF IInv, PipesOK, HandleLine
<1>2. line \in Line /\ rest \in Seq(Line) /\ Len(rest) = Len(pipes[a]) - 1
  BY <1>1, HeadTailProperties
<1>3. Len(rest) <= MaxLines
  <2>1. Len(pipes[a]) \in Nat /\ MaxLines \in Nat
    BY <1>1, DebuggerAssumptions
  <2>2. QED
    BY <1>1, <1>2, <2>1
<1>4. PipesOK'
  <2> HIDE DEF rest
  <2>1. QED
    BY <1>1, <1>2, <1>3 DEF IInv, PipesOK
<1>5. \/ line.kind \in Events /\ line.id \in Ids
      \/ line.kind = "ready" /\ line.id \in Components
  BY <1>2 DEF Line
<1>6. PanelOK'
  <2>1. PanelOK
    BY DEF IInv
  <2>2. CASE line.kind = "started"
    <3>1. Started(line.id) /\ line.id \in Ids
      BY <1>5, <2>2 DEF HandleLine
    <3>2. QED
      BY <2>1, <3>1, StartedPanel
  <2>3. CASE line.kind = "progress"
    <3>1. Progressed(line.id) /\ line.id \in Ids
      BY <1>5, <2>3 DEF HandleLine
    <3>2. QED
      BY <2>1, <3>1, ProgressedPanel
  <2>4. CASE line.kind \in {"completed", "failed"}
    <3>1. Finished(line.id, line.kind) /\ line.id \in Ids
      BY <1>5, <2>4 DEF HandleLine
    <3>2. QED
      BY <2>1, <2>4, <3>1, FinishedPanel
  <2>5. CASE line.kind = "ready"
    <3>1. UNCHANGED panel
      BY <2>5 DEF HandleLine
    <3>2. QED
      BY <3>1, Untouched
  <2>6. QED
    BY <1>5, <2>2, <2>3, <2>4, <2>5 DEF Events
<1>7. ready' \subseteq Components
  BY <1>5 DEF IInv, FrameOK, HandleLine, Events
<1>8. ProcessOK' /\ FrameOK'
  <2>1. ProcessOK'
    BY Untouched DEF HandleLine
  <2>2. FrameOK'
    BY <1>7 DEF IInv, FrameOK, HandleLine, Goes
  <2>3. QED
    BY <2>1, <2>2
<1>9. QED
  BY <1>4, <1>6, <1>8 DEF IInv

\* The rest of the frame: an exit, updates, the updater.
LEMMA FrameKeeps ==
  ASSUME IInv, CheckExit \/ ApplyReadyUpdate \/ ApplyReadyDebuggerUpdate \/ CheckUpdater \/ NextFrame
  PROVE  IInv'
<1>1. PanelOK /\ FrameOK
  BY DEF IInv
<1>2. CASE CheckExit
  <2>1. PanelOK' /\ ProcessOK'
    <3>1. CASE NoAgent /\ Interrupt
      BY <1>1, <3>1, Processes, InterruptPanel
    <3>2. CASE UNCHANGED process /\ UNCHANGED panel
      BY <3>2, Untouched
    <3>3. QED
      BY <1>2, <3>1, <3>2 DEF CheckExit
  <2>2. PipesOK'
    BY <1>2, Untouched DEF CheckExit
  <2>3. FrameOK'
    BY <1>1, <1>2 DEF FrameOK, CheckExit, Goes
  <2>4. QED
    BY <2>1, <2>2, <2>3 DEF IInv
<1>3. CASE ApplyReadyUpdate
  <2>1. PanelOK' /\ ProcessOK'
    <3>1. CASE Stopped
      BY <3>1, StoppedKeeps
    <3>2. CASE UNCHANGED process /\ UNCHANGED panel
      BY <3>2, Untouched
    <3>3. QED
      BY <1>3, <3>1, <3>2 DEF ApplyReadyUpdate
  <2>2. PipesOK'
    BY <1>3, Untouched DEF ApplyReadyUpdate
  <2>3. at' = "debugger" /\ ready' \subseteq ready /\ closing' = closing /\ starts' = starts
    BY <1>3 DEF ApplyReadyUpdate, Goes
  <2>4. updater' = updater \/ updater' = TRUE
    BY <1>3 DEF ApplyReadyUpdate
  <2>5. FrameOK'
    BY <1>1, <2>3, <2>4 DEF FrameOK
  <2>6. QED
    BY <2>1, <2>2, <2>5 DEF IInv
<1>4. CASE ApplyReadyDebuggerUpdate
  <2>1. PanelOK' /\ ProcessOK'
    <3>1. CASE Stopped
      BY <3>1, StoppedKeeps
    <3>2. CASE UNCHANGED process /\ UNCHANGED panel
      BY <3>2, Untouched
    <3>3. CASE /\ IF agent # 0 THEN Interrupt ELSE UNCHANGED panel
               /\ \/ NoAgent
                  \/ /\ agents < MaxAgents /\ agents' = agents + 1 /\ agent' = agents + 1
                     /\ alive' = TRUE /\ busy' = {}
      <4>1. PanelOK'
        BY <1>1, <3>3, InterruptPanel, Untouched
      <4>2. ProcessOK'
        BY <3>3, Processes
      <4>3. QED
        BY <4>1, <4>2
    <3>4. QED
      BY <1>4, <3>1, <3>2, <3>3 DEF ApplyReadyDebuggerUpdate
  <2>2. PipesOK'
    BY <1>4, Untouched DEF ApplyReadyDebuggerUpdate
  <2>3. at' = "updater" /\ ready' \subseteq ready /\ updater' = updater /\ starts' = starts
    BY <1>4 DEF ApplyReadyDebuggerUpdate, Goes
  <2>4. closing' = closing \/ closing' = TRUE
    BY <1>4 DEF ApplyReadyDebuggerUpdate
  <2>5. FrameOK'
    BY <1>1, <2>3, <2>4 DEF FrameOK
  <2>6. QED
    BY <2>1, <2>2, <2>5 DEF IInv
<1>5. CASE CheckUpdater
  <2>1. ProcessOK'
    BY <1>5, Processes, Untouched DEF CheckUpdater
  <2>2. PanelOK' /\ PipesOK'
    BY <1>5, Untouched DEF CheckUpdater
  <2>3. at' = "draw" /\ ready' = ready /\ closing' = closing /\ starts' = starts
    BY <1>5 DEF CheckUpdater, Goes
  <2>4. updater' = updater \/ updater' = FALSE
    BY <1>5 DEF CheckUpdater
  <2>5. FrameOK'
    BY <1>1, <2>3, <2>4 DEF FrameOK
  <2>6. QED
    BY <2>1, <2>2, <2>5 DEF IInv
<1>6. CASE NextFrame
  <2>1. PanelOK' /\ ProcessOK' /\ PipesOK'
    BY <1>6, Untouched DEF NextFrame
  <2>2. FrameOK'
    BY <1>1, <1>6 DEF FrameOK, NextFrame, Goes
  <2>3. QED
    BY <2>1, <2>2 DEF IInv
<1>7. QED
  BY <1>2, <1>3, <1>4, <1>5, <1>6

\* The owner's clicks.
LEMMA ClickKeeps ==
  ASSUME IInv, StartAgent \/ StopAgent \/ InstallUpdate \/ ClearFinished
  PROVE  IInv'
<1>1. PanelOK /\ FrameOK
  BY DEF IInv
<1>2. CASE StartAgent
  <2>1. PanelOK' /\ ProcessOK' /\ PipesOK'
    BY <1>2, Processes, Untouched DEF StartAgent
  <2>2. FrameOK'
    BY <1>1, <1>2 DEF FrameOK, StartAgent, Goes
  <2>3. QED
    BY <2>1, <2>2 DEF IInv
<1>3. CASE StopAgent
  <2>1. PanelOK' /\ ProcessOK' /\ PipesOK'
    BY <1>3, StoppedKeeps, Untouched DEF StopAgent
  <2>2. FrameOK'
    BY <1>1, <1>3 DEF FrameOK, StopAgent, Goes
  <2>3. QED
    BY <2>1, <2>2 DEF IInv
<1>4. CASE InstallUpdate
  <2>1. PanelOK' /\ ProcessOK' /\ PipesOK'
    BY <1>4, StoppedKeeps, Untouched DEF InstallUpdate
  <2>2. closing' \in BOOLEAN /\ (at' = "draw" \/ at' = "drain")
    BY <1>4 DEF InstallUpdate
  <2>3. ready' = ready /\ updater' = updater /\ starts' = starts
    BY <1>4 DEF InstallUpdate
  <2>4. FrameOK'
    BY <1>1, <2>2, <2>3 DEF FrameOK
  <2>5. QED
    BY <2>1, <2>4 DEF IInv
<1>5. CASE ClearFinished
  <2>1. PanelOK'
    BY <1>1, <1>5, ClearPanel
  <2>2. ProcessOK' /\ PipesOK'
    BY <1>5, Untouched DEF ClearFinished
  <2>3. FrameOK'
    BY <1>1, <1>5 DEF FrameOK, ClearFinished, Goes
  <2>4. QED
    BY <2>1, <2>2, <2>3 DEF IInv
<1>6. QED
  BY <1>2, <1>3, <1>4, <1>5

\* The Debugger closes or goes down, and is started.
LEMMA SessionKeeps ==
  ASSUME IInv, Close \/ Open
  PROVE  IInv'
<1>1. PanelOK /\ FrameOK /\ PipesOK
  BY DEF IInv
<1>2. CASE Close
  <2>1. PanelOK'
    <3>1. tasks' \in Seq(Task) /\ Len(tasks') <= MaxHistory /\ Idle(tasks')
      BY <1>2, DebuggerAssumptions DEF Close, Idle
    <3>2. tasks' \in List
      BY <3>1, IdleList
    <3>3. QED
      BY <1>1, <1>2, <3>2 DEF PanelOK, Close
  <2>2. ProcessOK'
    BY <1>2, Processes DEF Close
  <2>3. PipesOK'
    <3>1. pipes' = [a \in 1..MaxAgents |-> <<>>]
      BY <1>1, <1>2 DEF PipesOK, Close
    <3>2. <<>> \in Seq(Line) /\ Len(<<>>) <= MaxLines
      BY DebuggerAssumptions
    <3>3. QED
      BY <3>1, <3>2 DEF PipesOK
  <2>4. FrameOK'
    BY <1>1, <1>2 DEF FrameOK, Close
  <2>5. QED
    BY <2>1, <2>2, <2>3, <2>4 DEF IInv
<1>3. CASE Open
  <2>1. PanelOK'
    <3>1. ~store
      BY <1>1, <1>3 DEF FrameOK, Open, Goes
    <3>2. QED
      BY <1>1, <1>3, <3>1, OpenPanel
  <2>2. ProcessOK' /\ PipesOK'
    BY <1>3, Untouched DEF Open
  <2>3. FrameOK'
    BY <1>1, <1>3 DEF FrameOK, Open, Goes
  <2>4. QED
    BY <2>1, <2>2, <2>3 DEF IInv
<1>4. QED
  BY <1>2, <1>3

\* The invariant holds at first, whatever earlier sessions have left.
LEMMA InitIsSound == Init => IInv
<1>1. SUFFICES ASSUME Init PROVE IInv
  OBVIOUS
<1>2. PanelOK
  <2>1. tasks \in Seq(Task) /\ Len(tasks) <= MaxHistory /\ Idle(tasks)
    BY <1>1, DebuggerAssumptions DEF Init, Idle
  <2>2. tasks \in List
    BY <2>1, IdleList
  <2>3. rows \in Earlier /\ store = FALSE
    BY <1>1 DEF Init
  <2>4. rows \in Seq([id : Ids, known : BOOLEAN, state : {"completed", "failed"}])
    BY <2>3, DebuggerAssumptions
  <2>5. [id : Ids, known : BOOLEAN, state : {"completed", "failed"}] \subseteq Task
    BY DEF Task, States, Runs
  <2>6. rows \in Seq(Task)
    BY <2>4, <2>5, SeqMonotonic
  <2>7. rows \in Table
    BY <2>3, <2>6, DebuggerAssumptions DEF Table
  <2>8. QED
    BY <2>2, <2>3, <2>7 DEF PanelOK
<1>3. ProcessOK /\ FrameOK
  <2>1. 0 \in 0..0 /\ 0 \in 0..MaxAgents /\ 0 \in 0..MaxStarts
    BY DebuggerAssumptions
  <2>2. ProcessOK
    BY <1>1, <2>1 DEF Init, ProcessOK
  <2>3. FrameOK
    BY <1>1, <2>1 DEF Init, FrameOK
  <2>4. QED
    BY <2>2, <2>3
<1>4. PipesOK
  <2>1. <<>> \in Seq(Line) /\ Len(<<>>) <= MaxLines
    BY DebuggerAssumptions
  <2>2. pipes = [a \in 1..MaxAgents |-> <<>>]
    BY <1>1 DEF Init
  <2>3. QED
    BY <2>1, <2>2 DEF PipesOK
<1>5. QED
  BY <1>2, <1>3, <1>4 DEF IInv

\* Every step keeps it.
LEMMA StepsKeepIt == IInv /\ [Next]_vars => IInv'
<1>1. SUFFICES ASSUME IInv, [Next]_vars PROVE IInv'
  OBVIOUS
<1>2. CASE UNCHANGED vars
  <2>1. PanelOK' /\ ProcessOK' /\ PipesOK'
    BY <1>1, <1>2, Untouched DEF vars
  <2>2. FrameOK'
    BY <1>1, <1>2 DEF IInv, FrameOK, vars, panel
  <2>3. QED
    BY <2>1, <2>2 DEF IInv
<1>3. CASE Next
  <2>1. CASE AgentStep
    BY <1>1, <2>1, AgentKeeps
  <2>2. CASE Frame
    BY <1>1, <2>2, LineKeeps, FrameKeeps DEF Frame
  <2>3. CASE StartAgent \/ StopAgent \/ InstallUpdate \/ ClearFinished
    BY <1>1, <2>3, ClickKeeps
  <2>4. CASE Close \/ Open
    BY <1>1, <2>4, SessionKeeps
  <2>5. QED
    BY <1>3, <2>1, <2>2, <2>3, <2>4 DEF Next
<1>4. QED
  BY <1>1, <1>2, <1>3

---------------------------------------------------------------------------
(***************************************************************************)
(* How rows leave the table. Aged says what becomes of a table when some   *)
(* ids are saved: the other rows stay as they are and keep their order,    *)
(* and of those that ended the ones updated longest ago leave first. That  *)
(* holds of an insert and of a trim, and of steps made one after the other,*)
(* hence of the saves of an interruption.                                  *)
(***************************************************************************)

Over(rs) == {i \in DOMAIN rs : ~Runs(rs[i])}

\* Rows taken from a table are those of the places, in their order.
LEMMA AtOrder ==
  ASSUME NEW rs \in Table, NEW P \in SUBSET (DOMAIN rs)
  PROVE  /\ \A j \in DOMAIN At(rs, P) : \E i \in P : At(rs, P)[j] = rs[i]
         /\ \A i \in P : \E j \in DOMAIN At(rs, P) : At(rs, P)[j] = rs[i]
         /\ \A i, k \in DOMAIN rs, j, l \in DOMAIN At(rs, P) :
              i < k /\ At(rs, P)[j].id = rs[i].id /\ At(rs, P)[l].id = rs[k].id => j < l
<1> DEFINE q == At(rs, P)
<1>1. rs \in Seq(Task) /\ \A i, j \in DOMAIN rs : rs[i].id = rs[j].id => i = j
  BY DEF Table
<1>2. PICK n \in Nat : n = Len(rs) /\ DOMAIN rs = 1..n
  BY <1>1
<1>3. P \in SUBSET (1..n) /\ Cardinality(P) \in Nat
  BY <1>2, PlacesFinite
<1>4. DOMAIN q = 1..Cardinality(P)
  BY DEF At
<1>5. \A k \in DOMAIN q : Kth(P, k) \in P /\ q[k] = rs[Kth(P, k)]
  BY <1>1, AtPlaces
<1> HIDE DEF q
<1>6. \A i \in P : \E j \in DOMAIN q : q[j] = rs[i]
  <2>1. ASSUME NEW i \in P PROVE \E j \in DOMAIN q : q[j] = rs[i]
    <3>1. PICK j \in 1..Cardinality(P) : Kth(P, j) = i
      BY <1>3, KthOnto
    <3>2. QED
      BY <1>4, <1>5, <3>1
  <2>2. QED
    BY <2>1
<1>7. ASSUME NEW i \in DOMAIN rs, NEW k \in DOMAIN rs, NEW j \in DOMAIN q, NEW l \in DOMAIN q,
             i < k, q[j].id = rs[i].id, q[l].id = rs[k].id
      PROVE  j < l
  <2>1. Kth(P, j) = i /\ Kth(P, l) = k
    BY <1>1, <1>2, <1>5, <1>7
  <2>2. j \in 1..Cardinality(P) /\ l \in 1..Cardinality(P) /\ i \in Nat /\ k \in Nat
    BY <1>2, <1>4
  <2>3. l < j => k < i
    BY <1>3, <2>1, <2>2, KthOrder
  <2>4. QED
    BY <1>3, <1>7, <2>1, <2>2, <2>3
<1>8. QED
  BY <1>5, <1>6, <1>7 DEF q

\* There are no fewer ended rows when those of some ids are still there.
LEMMA StillOver ==
  ASSUME NEW rs \in Table, NEW qs \in Table, NEW F \in SUBSET (DOMAIN rs),
         \A i \in F : \E j \in Over(qs) : qs[j].id = rs[i].id
  PROVE  /\ Cardinality(F) \in Nat /\ Cardinality(Over(qs)) \in Nat
         /\ Cardinality(F) <= Cardinality(Over(qs))
<1> DEFINE f == [i \in F |-> CHOOSE j \in Over(qs) : qs[j].id = rs[i].id]
<1>1. /\ rs \in Seq(Task) /\ \A i, j \in DOMAIN rs : rs[i].id = rs[j].id => i = j
      /\ qs \in Seq(Task)
  BY DEF Table
<1>2. \A i \in F : f[i] \in Over(qs) /\ qs[f[i]].id = rs[i].id
  OBVIOUS
<1>3. f \in [F -> Over(qs)]
  BY <1>2
<1> HIDE DEF f
<1>4. \A x, y \in F : f[x] = f[y] => x = y
  BY <1>1, <1>2
<1>5. IsFiniteSet(Over(qs)) /\ Cardinality(Over(qs)) \in Nat
  <2>1. PICK n \in Nat : DOMAIN qs = 1..n
    BY <1>1
  <2>2. Over(qs) \in SUBSET (1..n)
    BY <2>1 DEF Over
  <2>3. QED
    BY <2>2, PlacesFinite
<1>6. QED
  BY <1>3, <1>4, <1>5, NotLarger

\* The row i has ended, and so have, or are there no more, the ones before it that are
\* not of the ids saved.
LeftByAge(rs, qs, K, i) ==
  /\ ~Runs(rs[i])
  /\ \A k \in 1..(i - 1) : Runs(rs[k]) \/ rs[k].id \in K \/ rs[k].id \notin Listed(qs)

\* The table rs has become qs, and the ids K have been saved.
Aged(rs, qs, K) ==
  /\ \A j \in DOMAIN qs : qs[j].id \in K \/ \E i \in DOMAIN rs : rs[i] = qs[j]
  /\ \A i, k \in DOMAIN rs, j, l \in DOMAIN qs :
       /\ i < k /\ rs[i].id \notin K /\ rs[k].id \notin K
       /\ qs[j].id = rs[i].id /\ qs[l].id = rs[k].id
       => j < l
  /\ \A i \in DOMAIN rs : rs[i].id \in Listed(qs) \/ LeftByAge(rs, qs, K, i)

\* One step after another.
LEMMA AgedTwice ==
  ASSUME NEW rs \in Table, NEW qs \in Table, NEW ss \in Table, NEW K, NEW L,
         Aged(rs, qs, K), Aged(qs, ss, L), K \cup L \subseteq Listed(ss)
  PROVE  Aged(rs, ss, K \cup L)
<1>1. /\ \A i, j \in DOMAIN rs : rs[i].id = rs[j].id => i = j
      /\ \A i, j \in DOMAIN qs : qs[i].id = qs[j].id => i = j
  BY DEF Table
<1>2. PICK n \in Nat : DOMAIN rs = 1..n
  BY DEF Table
<1>3. PICK m \in Nat : DOMAIN qs = 1..m
  BY DEF Table
<1>4. /\ \A j \in DOMAIN qs : qs[j].id \in K \/ \E i \in DOMAIN rs : rs[i] = qs[j]
      /\ \A i, k \in DOMAIN rs, j, l \in DOMAIN qs :
           /\ i < k /\ rs[i].id \notin K /\ rs[k].id \notin K
           /\ qs[j].id = rs[i].id /\ qs[l].id = rs[k].id
           => j < l
      /\ \A i \in DOMAIN rs : rs[i].id \in Listed(qs) \/ LeftByAge(rs, qs, K, i)
  BY DEF Aged
<1>5. /\ \A j \in DOMAIN ss : ss[j].id \in L \/ \E i \in DOMAIN qs : qs[i] = ss[j]
      /\ \A i, k \in DOMAIN qs, j, l \in DOMAIN ss :
           /\ i < k /\ qs[i].id \notin L /\ qs[k].id \notin L
           /\ ss[j].id = qs[i].id /\ ss[l].id = qs[k].id
           => j < l
      /\ \A i \in DOMAIN qs : qs[i].id \in Listed(ss) \/ LeftByAge(qs, ss, L, i)
  BY DEF Aged
<1>6. \A j \in DOMAIN ss : ss[j].id \in K \cup L \/ \E i \in DOMAIN rs : rs[i] = ss[j]
  BY <1>4, <1>5
<1>7. \A j \in DOMAIN ss : ss[j].id \notin L => \E i \in DOMAIN qs : qs[i].id = ss[j].id
  BY <1>5
<1>8. ASSUME NEW i \in DOMAIN rs, NEW k \in DOMAIN rs, NEW j \in DOMAIN ss, NEW l \in DOMAIN ss,
             i < k, rs[i].id \notin K \cup L, rs[k].id \notin K \cup L,
             ss[j].id = rs[i].id, ss[l].id = rs[k].id
      PROVE  j < l
  <2>1. PICK x \in DOMAIN qs : qs[x].id = ss[j].id
    BY <1>7, <1>8
  <2>2. PICK y \in DOMAIN qs : qs[y].id = ss[l].id
    BY <1>7, <1>8
  <2>3. x < y
    BY <1>4, <1>8, <2>1, <2>2
  <2>4. QED
    BY <1>5, <1>8, <2>1, <2>2, <2>3
<1>9. ASSUME NEW i \in DOMAIN rs, rs[i].id \notin Listed(ss)
      PROVE  LeftByAge(rs, ss, K \cup L, i)
  <2>1. rs[i].id \notin K /\ rs[i].id \notin L
    BY <1>9
  <2>2. ASSUME NEW k \in DOMAIN rs, rs[k].id \notin Listed(qs), rs[k].id \notin L
        PROVE  rs[k].id \notin Listed(ss)
    BY <1>7, <2>2 DEF Listed
  <2>3. CASE rs[i].id \notin Listed(qs)
    <3>1. LeftByAge(rs, qs, K, i)
      BY <1>4, <2>3
    <3>2. \A k \in 1..(i - 1) : k \in DOMAIN rs
      BY <1>2
    <3>3. QED
      BY <2>2, <3>1, <3>2 DEF LeftByAge
  <2>4. CASE rs[i].id \in Listed(qs)
    <3>1. PICK j \in DOMAIN qs : qs[j].id = rs[i].id
      BY <2>4 DEF Listed
    <3>2. qs[j] = rs[i]
      BY <1>1, <1>4, <2>1, <3>1
    <3>3. LeftByAge(qs, ss, L, j)
      BY <1>5, <1>9, <3>1
    <3>4. ~Runs(rs[i])
      BY <3>2, <3>3 DEF LeftByAge
    <3>5. ASSUME NEW k \in 1..(i - 1), ~Runs(rs[k]), rs[k].id \notin K, rs[k].id \notin L
          PROVE  rs[k].id \notin Listed(ss)
      <4>1. k \in DOMAIN rs /\ k < i
        BY <1>2
      <4>2. CASE rs[k].id \notin Listed(qs)
        BY <2>2, <3>5, <4>1, <4>2
      <4>3. CASE rs[k].id \in Listed(qs)
        <5>1. PICK l \in DOMAIN qs : qs[l].id = rs[k].id
          BY <4>3 DEF Listed
        <5>2. qs[l] = rs[k]
          BY <1>1, <1>4, <3>5, <4>1, <5>1
        <5>3. l < j
          BY <1>4, <2>1, <3>1, <3>5, <4>1, <5>1
        <5>4. l \in 1..(j - 1)
          BY <1>3, <5>3
        <5>5. QED
          BY <3>3, <3>5, <5>2, <5>4 DEF LeftByAge
      <4>4. QED
        BY <4>2, <4>3
    <3>6. QED
      BY <3>4, <3>5 DEF LeftByAge
  <2>5. QED
    BY <2>3, <2>4
<1>10. QED
  BY <1>6, <1>8, <1>9 DEF Aged

\* An insert leaves all ids, the one inserted last; if it has ended, as many have ended.
LEMMA InsertAges ==
  ASSUME NEW rs \in Table, NEW t \in Task
  PROVE  /\ Aged(rs, Insert(rs, t), {t.id})
         /\ \A i \in DOMAIN rs : rs[i].id \in Listed(Insert(rs, t))
         /\ Len(Insert(rs, t)) \in Nat \ {0} /\ Insert(rs, t)[Len(Insert(rs, t))] = t
         /\ ~Runs(t) => Cardinality(Over(rs)) <= Cardinality(Over(Insert(rs, t)))
<1> DEFINE P == {i \in DOMAIN rs : rs[i].id # t.id}
           q == At(rs, P)
           r == Insert(rs, t)
<1>1. rs \in Seq(Task) /\ P \in SUBSET (DOMAIN rs)
  BY DEF Table
<1>2. q \in Seq(Task) /\ r = Append(q, t)
  BY <1>1, AtPlaces DEF Insert
<1>3. /\ \A j \in DOMAIN q : \E i \in P : q[j] = rs[i]
      /\ \A i \in P : \E j \in DOMAIN q : q[j] = rs[i]
      /\ \A i, k \in DOMAIN rs, j, l \in DOMAIN q :
           i < k /\ q[j].id = rs[i].id /\ q[l].id = rs[k].id => j < l
  BY <1>1, AtOrder
<1>4. r \in Table
  BY InsertTable
<1> HIDE DEF q, r
<1>5. PICK n \in Nat : n = Len(q) /\ DOMAIN q = 1..n
  BY <1>2
<1>6. /\ DOMAIN r = 1..(n + 1) /\ r[n + 1] = t /\ Len(r) = n + 1
      /\ \A x \in 1..n : r[x] = q[x]
  BY <1>2, <1>5, AppendProperties
<1>7. \A j \in DOMAIN r : r[j].id = t.id \/ \E i \in DOMAIN rs : rs[i] = r[j]
  BY <1>3, <1>5, <1>6
<1>8. ASSUME NEW i \in DOMAIN rs, NEW k \in DOMAIN rs, NEW j \in DOMAIN r, NEW l \in DOMAIN r,
             i < k, rs[i].id # t.id, rs[k].id # t.id, r[j].id = rs[i].id, r[l].id = rs[k].id
      PROVE  j < l
  <2>1. j \in DOMAIN q /\ l \in DOMAIN q /\ r[j] = q[j] /\ r[l] = q[l]
    BY <1>5, <1>6, <1>8
  <2>2. QED
    BY <1>3, <1>8, <2>1
<1>9. \A i \in DOMAIN rs : rs[i].id # t.id => \E j \in DOMAIN r : r[j] = rs[i]
  BY <1>3, <1>5, <1>6
<1>10. \A i \in DOMAIN rs : rs[i].id \in Listed(r)
  BY <1>5, <1>6, <1>9 DEF Listed
<1>11. ASSUME ~Runs(t)
       PROVE  Cardinality(Over(rs)) <= Cardinality(Over(r))
  <2>1. ASSUME NEW i \in Over(rs) PROVE \E j \in Over(r) : r[j].id = rs[i].id
    <3>1. i \in DOMAIN rs /\ ~Runs(rs[i])
      BY DEF Over
    <3>2. CASE rs[i].id = t.id
      <4>1. n + 1 \in Over(r)
        BY <1>5, <1>6, <1>11 DEF Over
      <4>2. QED
        BY <1>6, <3>2, <4>1
    <3>3. CASE rs[i].id # t.id
      <4>1. PICK j \in DOMAIN r : r[j] = rs[i]
        BY <1>9, <3>1, <3>3
      <4>2. QED
        BY <3>1, <4>1 DEF Over
    <3>4. QED
      BY <3>2, <3>3
  <2>2. Over(rs) \in SUBSET (DOMAIN rs)
    BY DEF Over
  <2>3. QED
    BY <1>4, <2>1, <2>2, StillOver
<1>12. Aged(rs, r, {t.id})
  BY <1>7, <1>8, <1>10 DEF Aged
<1>13. QED
  BY <1>5, <1>6, <1>10, <1>11, <1>12 DEF r

\* A trim takes those away that ended and were updated longest ago; MaxPersisted ended
\* ones stay, or all when there are fewer, and the row updated last stays.
LEMMA TrimAges ==
  ASSUME NEW rs \in Table
  PROVE  /\ Aged(rs, Trim(rs), {})
         /\ \A i \in DOMAIN rs :
              rs[i].id \notin Listed(Trim(rs)) => MaxPersisted <= Cardinality(Over(rs))
         /\ Cardinality(Over(Trim(rs))) <= MaxPersisted
         /\ MaxPersisted <= Cardinality(Over(rs)) => Cardinality(Over(Trim(rs))) = MaxPersisted
         /\ Len(rs) \in DOMAIN rs => rs[Len(rs)].id \in Listed(Trim(rs))
<1> DEFINE Later(i) == {j \in (i + 1)..Len(rs) : ~Runs(rs[j])}
           P == {i \in DOMAIN rs : Runs(rs[i]) \/ Cardinality(Later(i)) < MaxPersisted}
           q == Trim(rs)
<1>1. /\ rs \in Seq(Task) /\ P \in SUBSET (DOMAIN rs) /\ q = At(rs, P)
      /\ \A i, j \in DOMAIN rs : rs[i].id = rs[j].id => i = j
  BY DEF Table, Trim
<1>2. q \in Table
  BY <1>1, AtTable
<1>3. /\ \A j \in DOMAIN q : \E i \in P : q[j] = rs[i]
      /\ \A i \in P : \E j \in DOMAIN q : q[j] = rs[i]
      /\ \A i, k \in DOMAIN rs, j, l \in DOMAIN q :
           i < k /\ q[j].id = rs[i].id /\ q[l].id = rs[k].id => j < l
  <2> HIDE DEF P, q
  <2>1. /\ \A j \in DOMAIN At(rs, P) : \E i \in P : At(rs, P)[j] = rs[i]
        /\ \A i \in P : \E j \in DOMAIN At(rs, P) : At(rs, P)[j] = rs[i]
        /\ \A i, k \in DOMAIN rs, j, l \in DOMAIN At(rs, P) :
             i < k /\ At(rs, P)[j].id = rs[i].id /\ At(rs, P)[l].id = rs[k].id => j < l
    BY <1>1, AtOrder
  <2>2. QED
    BY <1>1, <2>1
<1> HIDE DEF q
<1>4. PICK n \in Nat : n = Len(rs) /\ DOMAIN rs = 1..n
  BY <1>1
<1>5. MaxPersisted \in Nat \ {0}
  BY DebuggerAssumptions
<1>6. /\ IsFiniteSet(Over(rs)) /\ Cardinality(Over(rs)) \in Nat
      /\ \A i \in DOMAIN rs : Later(i) \in SUBSET Over(rs) /\ Later(i) \in SUBSET (DOMAIN rs)
  <2>1. Over(rs) \in SUBSET (1..n)
    BY <1>4 DEF Over
  <2>2. QED
    BY <1>4, <2>1, PlacesFinite DEF Over
<1>7. ASSUME NEW i \in DOMAIN rs
      PROVE  /\ IsFiniteSet(Later(i)) /\ Cardinality(Later(i)) \in Nat
             /\ Cardinality(Later(i)) <= Cardinality(Over(rs))
             /\ \A k \in 1..(i - 1) : k \in DOMAIN rs /\ Cardinality(Later(i)) <= Cardinality(Later(k))
  <2>1. ASSUME NEW k \in DOMAIN rs
        PROVE  IsFiniteSet(Later(k)) /\ Cardinality(Later(k)) \in Nat
    BY <1>6, FS_Subset, FS_CardinalityType
  <2>2. Cardinality(Later(i)) <= Cardinality(Over(rs))
    BY <1>6, FS_Subset
  <2>3. ASSUME NEW k \in 1..(i - 1)
        PROVE  k \in DOMAIN rs /\ Cardinality(Later(i)) <= Cardinality(Later(k))
    <3>1. k \in DOMAIN rs /\ k < i
      BY <1>4
    <3>2. Later(i) \in SUBSET Later(k)
      BY <1>4, <3>1
    <3> HIDE DEF Later
    <3>3. QED
      BY <2>1, <3>1, <3>2, FS_Subset
  <2>4. QED
    BY <2>1, <2>2, <2>3
<1> HIDE DEF Later
<1>8. \A i \in DOMAIN rs : rs[i].id \in Listed(q) <=> i \in P
  <2>1. ASSUME NEW i \in DOMAIN rs, rs[i].id \in Listed(q) PROVE i \in P
    <3>1. PICK j \in DOMAIN q : q[j].id = rs[i].id
      BY <2>1 DEF Listed
    <3>2. PICK k \in P : q[j] = rs[k]
      BY <1>3
    <3>3. QED
      BY <1>1, <3>1, <3>2
  <2>2. ASSUME NEW i \in P PROVE rs[i].id \in Listed(q)
    BY <1>3 DEF Listed
  <2>3. QED
    BY <2>1, <2>2
<1>9. ASSUME NEW i \in DOMAIN rs, i \notin P
      PROVE  /\ LeftByAge(rs, q, {}, i)
             /\ MaxPersisted <= Cardinality(Later(i)) /\ MaxPersisted <= Cardinality(Over(rs))
  <2>1. ~Runs(rs[i]) /\ MaxPersisted <= Cardinality(Later(i))
    BY <1>5, <1>7, <1>9
  <2>2. ASSUME NEW k \in 1..(i - 1), ~Runs(rs[k]) PROVE rs[k].id \notin Listed(q)
    <3>1. k \in DOMAIN rs /\ MaxPersisted <= Cardinality(Later(k)) /\ Cardinality(Later(k)) \in Nat
      BY <1>5, <1>7, <2>1
    <3>2. k \notin P
      BY <1>5, <2>2, <3>1
    <3>3. QED
      BY <1>8, <3>1, <3>2
  <2>3. QED
    BY <1>5, <1>6, <1>7, <2>1, <2>2 DEF LeftByAge
<1>10. Aged(rs, q, {})
  BY <1>1, <1>3, <1>8, <1>9 DEF Aged
<1>11. Cardinality(Over(q)) \in Nat /\ Cardinality(Over(q)) <= MaxPersisted
  <2> DEFINE F == {i \in P : ~Runs(rs[i])}
  <2>1. F \in SUBSET (DOMAIN rs) /\ IsFiniteSet(F) /\ Cardinality(F) \in Nat
    <3>1. F \in SUBSET (1..n)
      BY <1>4
    <3>2. QED
      BY <1>4, <3>1, PlacesFinite
  <2>2. /\ Cardinality(Over(q)) \in Nat
        /\ Cardinality(Over(q)) <= Cardinality({i \in DOMAIN rs : ~Runs(rs[i]) /\ i \in P})
    <3> DEFINE G == {i \in DOMAIN rs : ~Runs(rs[i]) /\ i \in P}
               f == [j \in Over(q) |-> CHOOSE i \in G : rs[i] = q[j]]
    <3>1. ASSUME NEW j \in Over(q) PROVE f[j] \in G /\ rs[f[j]] = q[j]
      BY <1>1, <1>3 DEF Over
    <3>2. IsFiniteSet(G)
      <4>1. G \in SUBSET (1..n)
        BY <1>4
      <4>2. QED
        BY <4>1, PlacesFinite
    <3>3. f \in [Over(q) -> G]
      BY <3>1
    <3> HIDE DEF f, G
    <3>4. \A x, y \in Over(q) : f[x] = f[y] => x = y
      BY <1>2, <3>1 DEF Table, Over
    <3>5. Cardinality(Over(q)) \in Nat /\ Cardinality(Over(q)) <= Cardinality(G)
      BY <3>2, <3>3, <3>4, NotLarger
    <3>6. QED
      BY <3>5 DEF G
  <2>3. {i \in DOMAIN rs : ~Runs(rs[i]) /\ i \in P} = F
    BY <1>1
  <2>4. CASE F = {}
    <3>1. Cardinality(F) = 0
      BY <2>4, FS_EmptySet
    <3> HIDE DEF F
    <3>2. QED
      BY <1>5, <2>2, <2>3, <3>1
  <2>5. CASE F # {}
    <3>1. F \subseteq Nat
      BY <1>4
    <3>2. PICK i \in F : \A k \in F : i <= k
      BY <2>5, <3>1, LeastNumber
    <3>3. i \in DOMAIN rs /\ Cardinality(Later(i)) < MaxPersisted
      BY <1>1, <3>2
    <3>4. F \ {i} \in SUBSET Later(i)
      BY <1>4, <3>2 DEF Later
    <3> HIDE DEF F
    <3>5. Cardinality(F \ {i}) = Cardinality(F) - 1
      BY <2>1, <3>2, FS_RemoveElement
    <3>6. Cardinality(F \ {i}) <= Cardinality(Later(i))
      BY <1>7, <3>3, <3>4, FS_Subset
    <3>7. Cardinality(Later(i)) \in Nat
      BY <1>7, <3>3
    <3>8. Cardinality(Over(q)) \in Nat /\ Cardinality(Over(q)) <= Cardinality(F)
      BY <2>2, <2>3
    <3>9. QED
      BY <1>5, <2>1, <3>3, <3>5, <3>6, <3>7, <3>8
  <2>6. QED
    BY <2>4, <2>5
<1>12. ASSUME MaxPersisted <= Cardinality(Over(rs))
       PROVE  MaxPersisted <= Cardinality(Over(q))
  <2> DEFINE D == {i \in DOMAIN rs : i \notin P}
  <2>1. ASSUME NEW i \in P, ~Runs(rs[i]) PROVE \E j \in Over(q) : q[j].id = rs[i].id
    BY <1>3, <2>1 DEF Over
  <2>2. CASE D = {}
    <3>1. Over(rs) \in SUBSET (DOMAIN rs) /\ \A i \in Over(rs) : \E j \in Over(q) : q[j].id = rs[i].id
      BY <2>1, <2>2 DEF Over
    <3>2. Cardinality(Over(rs)) <= Cardinality(Over(q))
      BY <1>2, <3>1, StillOver
    <3>3. QED
      BY <1>5, <1>6, <1>11, <1>12, <3>2
  <2>3. CASE D # {}
    <3>1. D \in SUBSET (1..n)
      BY <1>4
    <3>2. PICK i \in D : \A k \in D : k <= i
      <4> HIDE DEF D
      <4>1. QED
        BY <2>3, <3>1, MaxOfSet
    <3>3. i \in DOMAIN rs /\ i \notin P
      OBVIOUS
    <3>4. \A j \in Later(i) : j \in DOMAIN rs /\ i < j /\ ~Runs(rs[j])
      BY <1>4, <3>3 DEF Later
    <3>5. \A j \in Later(i) : j \in P
      BY <1>4, <3>2, <3>3, <3>4
    <3>6. Later(i) \in SUBSET (DOMAIN rs) /\ \A j \in Later(i) : \E k \in Over(q) : q[k].id = rs[j].id
      BY <2>1, <3>4, <3>5
    <3>7. Cardinality(Later(i)) <= Cardinality(Over(q))
      BY <1>2, <3>6, StillOver
    <3>8. QED
      BY <1>5, <1>7, <1>9, <1>11, <3>3, <3>7
  <2>4. QED
    BY <2>2, <2>3
<1>13. ASSUME Len(rs) \in DOMAIN rs PROVE rs[Len(rs)].id \in Listed(q)
  <2>1. Later(n) = {}
    BY <1>4 DEF Later
  <2>2. Cardinality(Later(n)) < MaxPersisted
    BY <1>5, <2>1, FS_EmptySet
  <2>3. n \in P
    BY <1>4, <1>13, <2>2
  <2>4. QED
    BY <1>4, <1>8, <1>13, <2>3
<1>14. QED
  BY <1>5, <1>8, <1>9, <1>10, <1>11, <1>12, <1>13 DEF q

\* A save: the record saved is the last, and when a row has left, MaxPersisted ended ones
\* have stayed.
LEMMA SaveAges ==
  ASSUME NEW rs \in Table, NEW t \in Task
  PROVE  /\ Aged(rs, Save(rs, t), {t.id})
         /\ \A i \in DOMAIN rs :
              rs[i].id \notin Listed(Save(rs, t)) => Cardinality(Over(Save(rs, t))) = MaxPersisted
         /\ ~Runs(t) /\ MaxPersisted <= Cardinality(Over(rs))
              => Cardinality(Over(Save(rs, t))) = MaxPersisted
         /\ \A j \in 1..(Len(Save(rs, t)) - 1) : Save(rs, t)[j].id # t.id
<1> DEFINE r == Insert(rs, t)
           s == Save(rs, t)
<1>1. r \in Table /\ s \in Table
  BY InsertTable, SaveTable
<1>2. /\ Aged(rs, r, {t.id})
      /\ \A i \in DOMAIN rs : rs[i].id \in Listed(r)
      /\ Len(r) \in Nat \ {0} /\ r[Len(r)] = t
      /\ ~Runs(t) => Cardinality(Over(rs)) <= Cardinality(Over(r))
  BY InsertAges
<1>3. s = Trim(r)
  BY DEF Save
<1> HIDE DEF r, s
<1>4. /\ Aged(r, s, {})
      /\ \A i \in DOMAIN r : r[i].id \notin Listed(s) => MaxPersisted <= Cardinality(Over(r))
      /\ MaxPersisted <= Cardinality(Over(r)) => Cardinality(Over(s)) = MaxPersisted
      /\ Len(r) \in DOMAIN r => r[Len(r)].id \in Listed(s)
  BY <1>1, <1>3, TrimAges
<1>5. PICK n \in Nat : n = Len(r) /\ DOMAIN r = 1..n
  BY <1>1 DEF Table
<1>6. n \in DOMAIN r /\ r[n] = t /\ t.id \in Listed(s)
  BY <1>2, <1>4, <1>5
<1>7. Aged(rs, s, {t.id})
  <2>1. {t.id} \cup {} \subseteq Listed(s)
    BY <1>6
  <2>2. Aged(rs, s, {t.id} \cup {})
    BY <1>1, <1>2, <1>4, <2>1, AgedTwice
  <2>3. {t.id} \cup {} = {t.id}
    OBVIOUS
  <2>4. QED
    BY <2>2, <2>3
<1>8. ASSUME NEW i \in DOMAIN rs, rs[i].id \notin Listed(s)
      PROVE  Cardinality(Over(s)) = MaxPersisted
  <2>1. PICK j \in DOMAIN r : r[j].id = rs[i].id
    BY <1>2 DEF Listed
  <2>2. QED
    BY <1>4, <1>8, <2>1
<1>9. ASSUME ~Runs(t), MaxPersisted <= Cardinality(Over(rs))
      PROVE  Cardinality(Over(s)) = MaxPersisted
  <2>1. MaxPersisted \in Nat
    BY DebuggerAssumptions
  <2>2. Cardinality(Over(rs)) \in Nat /\ Cardinality(Over(r)) \in Nat
    <3>1. Over(rs) \in SUBSET (DOMAIN rs) /\ Over(r) \in SUBSET (DOMAIN r)
      BY DEF Over
    <3>2. PICK m \in Nat : DOMAIN rs = 1..m
      BY DEF Table
    <3>3. QED
      BY <1>5, <3>1, <3>2, PlacesFinite
  <2>3. QED
    BY <1>2, <1>4, <1>9, <2>1, <2>2
<1>10. ASSUME NEW j \in 1..(Len(s) - 1) PROVE s[j].id # t.id
  <2>1. PICK m \in Nat : m = Len(s) /\ DOMAIN s = 1..m
    BY <1>1 DEF Table
  <2>2. j \in DOMAIN s /\ j < m /\ m \in DOMAIN s
    BY <2>1
  <2>3. SUFFICES ASSUME s[j].id = t.id PROVE FALSE
    OBVIOUS
  <2>4. s[m].id # t.id
    BY <1>1, <2>1, <2>2, <2>3 DEF Table
  <2>5. PICK i \in DOMAIN r : r[i] = s[m]
    BY <1>4, <2>2 DEF Aged
  <2>6. i < n
    BY <1>5, <1>6, <2>4, <2>5
  <2>7. m < j
    BY <1>4, <1>6, <2>2, <2>3, <2>5, <2>6 DEF Aged
  <2>8. QED
    BY <2>1, <2>2, <2>7
<1>11. QED
  BY <1>7, <1>8, <1>9, <1>10 DEF s

\* A table that is left alone.
LEMMA NothingAges ==
  ASSUME NEW rs \in Table
  PROVE  Aged(rs, rs, {})
<1>1. PICK n \in Nat : DOMAIN rs = 1..n
  BY DEF Table
<1>2. \A i, j \in DOMAIN rs : rs[i].id = rs[j].id => i = j
  BY DEF Table
<1>3. \A i \in DOMAIN rs : rs[i].id \in Listed(rs)
  BY DEF Listed
<1>4. QED
  BY <1>2, <1>3 DEF Aged

\* The saves of ended tasks, when each that was saved is in the table.
LEMMA SavesAge ==
  ASSUME rows \in Table, NEW q \in Seq(Task), \A k \in DOMAIN q : ~Runs(q[k]),
         \A x \in 0..Len(q) : FirstIds(q, x) \subseteq Listed(Saved(q)[x])
  PROVE  \A x \in 0..Len(q) :
           /\ Aged(rows, Saved(q)[x], FirstIds(q, x))
           /\ \A i \in DOMAIN rows : rows[i].id \notin Listed(Saved(q)[x])
                => Cardinality(Over(Saved(q)[x])) = MaxPersisted
<1> DEFINE AtLimit(rs) == \A i \in DOMAIN rows :
                            rows[i].id \notin Listed(rs) => Cardinality(Over(rs)) = MaxPersisted
           S == {x \in Nat : x <= Len(q) =>
                               Aged(rows, Saved(q)[x], FirstIds(q, x)) /\ AtLimit(Saved(q)[x])}
<1>1. Len(q) \in Nat /\ DOMAIN q = 1..Len(q)
  OBVIOUS
<1>2. /\ Saved(q)[0] = rows
      /\ \A x \in 1..Len(q) : Saved(q)[x] = Save(Saved(q)[x - 1], q[x])
      /\ \A x \in 0..Len(q) : Saved(q)[x] \in Table
  BY SavedTable
<1>3. 0 \in S
  <2>1. FirstIds(q, 0) = {}
    BY DEF FirstIds
  <2>2. Aged(rows, Saved(q)[0], FirstIds(q, 0)) /\ AtLimit(Saved(q)[0])
    BY <1>2, <2>1, NothingAges DEF Listed
  <2>3. QED
    BY <2>2
<1>4. ASSUME NEW x \in Nat, x \in S PROVE x + 1 \in S
  <2> DEFINE rs == Saved(q)[x]
             ss == Saved(q)[x + 1]
             t  == q[x + 1]
  <2>1. SUFFICES ASSUME x + 1 <= Len(q)
                 PROVE  Aged(rows, ss, FirstIds(q, x + 1)) /\ AtLimit(ss)
    OBVIOUS
  <2>2. x + 1 \in 1..Len(q) /\ x + 1 \in 0..Len(q) /\ x \in 0..Len(q) /\ (x + 1) - 1 = x
    BY <1>1, <2>1
  <2>3. rs \in Table /\ ss \in Table /\ ss = Save(rs, t) /\ t \in Task /\ ~Runs(t)
    BY <1>1, <1>2, <2>2
  <2>4. Aged(rows, rs, FirstIds(q, x)) /\ AtLimit(rs)
    BY <1>1, <1>4, <2>1
  <2>5. FirstIds(q, x + 1) = FirstIds(q, x) \cup {t.id} /\ FirstIds(q, x + 1) \subseteq Listed(ss)
    BY <2>2, NextId
  <2> HIDE DEF rs, ss, t
  <2>6. /\ Aged(rs, ss, {t.id})
        /\ \A i \in DOMAIN rs : rs[i].id \notin Listed(ss) => Cardinality(Over(ss)) = MaxPersisted
        /\ MaxPersisted <= Cardinality(Over(rs)) => Cardinality(Over(ss)) = MaxPersisted
    BY <2>3, SaveAges
  <2>7. Aged(rows, ss, FirstIds(q, x + 1))
    BY <2>3, <2>4, <2>5, <2>6, AgedTwice
  <2>8. ASSUME NEW i \in DOMAIN rows, rows[i].id \notin Listed(ss)
        PROVE  Cardinality(Over(ss)) = MaxPersisted
    <3>1. CASE rows[i].id \in Listed(rs)
      <4>1. PICK j \in DOMAIN rs : rs[j].id = rows[i].id
        BY <3>1 DEF Listed
      <4>2. QED
        BY <2>6, <2>8, <4>1
    <3>2. CASE rows[i].id \notin Listed(rs)
      <4>1. MaxPersisted <= Cardinality(Over(rs))
        BY <2>4, <3>2, DebuggerAssumptions
      <4>2. QED
        BY <2>6, <4>1
    <3>3. QED
      BY <3>1, <3>2
  <2>9. QED
    BY <2>7, <2>8
<1> HIDE DEF S
<1>5. Nat \subseteq S
  BY <1>3, <1>4, Induction
<1>6. ASSUME NEW x \in 0..Len(q)
      PROVE  Aged(rows, Saved(q)[x], FirstIds(q, x)) /\ AtLimit(Saved(q)[x])
  <2>1. x \in S /\ x <= Len(q)
    BY <1>1, <1>5
  <2>2. QED
    BY <2>1 DEF S
<1>7. QED
  BY <1>6

\* What FinishedLeaveByAge says of a step, when records of the ids X may be replaced.
LeavesByAge(X) ==
  \A i \in DOMAIN rows :
    \/ \E j \in DOMAIN rows' : rows'[j] = rows[i]
    \/ /\ Runs(rows[i]) \/ rows[i].id \in X
       /\ \E j \in DOMAIN rows' : rows'[j].id = rows[i].id
    \/ /\ ~Runs(rows[i])
       /\ \/ \A j \in DOMAIN rows' : Runs(rows'[j])
          \/ at = "closed" /\ ~rows[i].known
          \/ /\ Cardinality({j \in DOMAIN rows' : ~Runs(rows'[j])}) >= MaxPersisted
             /\ store' => Cardinality({j \in DOMAIN rows' : ~Runs(rows'[j])}) = MaxPersisted
             /\ \A k \in 1..(i - 1), j \in 1..(Len(rows') - 1) :
                  Runs(rows[k]) \/ rows'[j] # rows[k]

\* A table that is left alone loses no row.
LEMMA KeptLeaves ==
  ASSUME rows' = rows, NEW X
  PROVE  LeavesByAge(X)
BY DEF LeavesByAge

\* The rows of the ids K were running, or are of the ids X.
Replaces(K, X) == \A k \in DOMAIN rows : rows[k].id \in K => Runs(rows[k]) \/ rows[k].id \in X

\* A step that ages the table, when of the ids saved none that had ended is before the
\* last row.
LEMMA AgedLeaves ==
  ASSUME rows \in Table, rows' \in Table, NEW K, Aged(rows, rows', K), NEW X, Replaces(K, X),
         \A i \in DOMAIN rows : rows[i].id \notin Listed(rows') =>
           /\ Cardinality(Over(rows')) >= MaxPersisted
           /\ store' => Cardinality(Over(rows')) = MaxPersisted,
         \A k \in DOMAIN rows : rows[k].id \in K /\ ~Runs(rows[k]) =>
           \A j \in 1..(Len(rows') - 1) : rows'[j].id # rows[k].id
  PROVE  LeavesByAge(X)
<1>1. ASSUME NEW i \in DOMAIN rows, NEW l \in DOMAIN rows', rows'[l].id = rows[i].id
      PROVE  rows'[l] = rows[i] \/ Runs(rows[i]) \/ rows[i].id \in X
  <2>1. CASE rows[i].id \in K
    BY <2>1 DEF Replaces
  <2>2. CASE rows[i].id \notin K
    <3>1. PICK k \in DOMAIN rows : rows[k] = rows'[l]
      BY <1>1, <2>2 DEF Aged
    <3>2. k = i
      BY <1>1, <3>1 DEF Table
    <3>3. QED
      BY <3>1, <3>2
  <2>3. QED
    BY <2>1, <2>2
<1>2. ASSUME NEW i \in DOMAIN rows, rows[i].id \notin Listed(rows')
      PROVE  /\ ~Runs(rows[i])
             /\ Cardinality({j \in DOMAIN rows' : ~Runs(rows'[j])}) >= MaxPersisted
             /\ store' => Cardinality({j \in DOMAIN rows' : ~Runs(rows'[j])}) = MaxPersisted
             /\ \A k \in 1..(i - 1), j \in 1..(Len(rows') - 1) :
                  Runs(rows[k]) \/ rows'[j] # rows[k]
  <2>1. LeftByAge(rows, rows', K, i)
    BY <1>2 DEF Aged
  <2>2. PICK n \in Nat : DOMAIN rows = 1..n
    BY DEF Table
  <2>3. PICK m \in Nat : m = Len(rows') /\ DOMAIN rows' = 1..m
    BY DEF Table
  <2>4. ASSUME NEW k \in 1..(i - 1), NEW j \in 1..(Len(rows') - 1), ~Runs(rows[k])
        PROVE  rows'[j] # rows[k]
    <3>1. k \in DOMAIN rows /\ j \in DOMAIN rows'
      BY <2>2, <2>3
    <3>2. rows[k].id \in K \/ rows[k].id \notin Listed(rows')
      BY <2>1, <2>4 DEF LeftByAge
    <3>3. rows[k].id \notin Listed(rows') => rows'[j].id # rows[k].id
      BY <3>1 DEF Listed
    <3>4. QED
      BY <2>4, <3>1, <3>2, <3>3
  <2>5. QED
    BY <1>2, <2>1, <2>4 DEF LeftByAge, Over
<1>3. ASSUME NEW i \in DOMAIN rows, rows[i].id \in Listed(rows')
      PROVE  \/ \E j \in DOMAIN rows' : rows'[j] = rows[i]
             \/ /\ Runs(rows[i]) \/ rows[i].id \in X
                /\ \E j \in DOMAIN rows' : rows'[j].id = rows[i].id
  <2>1. PICK l \in DOMAIN rows' : rows'[l].id = rows[i].id
    BY <1>3 DEF Listed
  <2>2. QED
    BY <1>1, <2>1
<1>4. QED
  BY <1>2, <1>3 DEF LeavesByAge

\* One record saved.
LEMMA SaveLeaves ==
  ASSUME rows \in Table, store \in BOOLEAN, NEW t \in Task, Persist(<<t>>),
         NEW X, store => Replaces({t.id}, X)
  PROVE  LeavesByAge(X)
<1> DEFINE q == <<t>>
<1>1. q \in Seq(Task) /\ Len(q) = 1 /\ q[1] = t
  OBVIOUS
<1>2. rows' \in Table
  BY <1>1, PersistTable
<1> HIDE DEF q
<1>3. Saved(q)[0] = rows /\ Saved(q)[1] = Save(rows, t)
  <2>1. /\ Saved(q)[0] = rows
        /\ \A n \in 1..Len(q) : Saved(q)[n] = Save(Saved(q)[n - 1], q[n])
    BY <1>1, SavedTable
  <2>2. 1 \in 1..Len(q) /\ 1 - 1 = 0
    BY <1>1
  <2>3. QED
    BY <1>1, <2>1, <2>2
<1>4. \/ rows' = rows
      \/ rows' = Save(rows, t)
      \/ rows' = Insert(rows, t)
  <2>1. Persist(q)
    BY DEF q
  <2>2. CASE rows' = (IF store THEN Saved(q)[Len(q)] ELSE rows)
    BY <1>1, <1>3, <2>2
  <2>3. CASE \E n \in 1..Len(q) : rows' \in {Saved(q)[n - 1], Insert(Saved(q)[n - 1], q[n])}
    <3>1. PICK n \in 1..Len(q) : rows' \in {Saved(q)[n - 1], Insert(Saved(q)[n - 1], q[n])}
      BY <2>3
    <3>2. n = 1 /\ n - 1 = 0
      BY <1>1
    <3>3. QED
      BY <1>1, <1>3, <3>1, <3>2
  <2>4. QED
    BY <2>1, <2>2, <2>3 DEF Persist
<1>5. ASSUME rows' = Save(rows, t), Replaces({t.id}, X)
      PROVE  LeavesByAge(X)
  <2>1. /\ Aged(rows, rows', {t.id})
        /\ \A i \in DOMAIN rows :
             rows[i].id \notin Listed(rows') => Cardinality(Over(rows')) = MaxPersisted
        /\ \A j \in 1..(Len(rows') - 1) : rows'[j].id # t.id
    BY <1>5, SaveAges
  <2>2. \A i \in DOMAIN rows : rows[i].id \notin Listed(rows') =>
          /\ Cardinality(Over(rows')) >= MaxPersisted
          /\ store' => Cardinality(Over(rows')) = MaxPersisted
    BY <2>1, DebuggerAssumptions
  <2>3. \A k \in DOMAIN rows : rows[k].id \in {t.id} /\ ~Runs(rows[k]) =>
          \A j \in 1..(Len(rows') - 1) : rows'[j].id # rows[k].id
    BY <2>1
  <2>4. QED
    BY <1>2, <1>5, <2>1, <2>2, <2>3, AgedLeaves
<1>6. ASSUME rows' = Insert(rows, t), Replaces({t.id}, X)
      PROVE  LeavesByAge(X)
  <2>1. /\ Aged(rows, rows', {t.id})
        /\ \A i \in DOMAIN rows : rows[i].id \in Listed(rows')
        /\ Len(rows') \in Nat \ {0} /\ rows'[Len(rows')] = t
    BY <1>6, InsertAges
  <2>2. \A j \in 1..(Len(rows') - 1) : rows'[j].id # t.id
    <3>1. \A i, j \in DOMAIN rows' : rows'[i].id = rows'[j].id => i = j
      BY <1>2 DEF Table
    <3>2. PICK m \in Nat : m = Len(rows') /\ DOMAIN rows' = 1..m
      BY <1>2 DEF Table
    <3>3. QED
      BY <2>1, <3>1, <3>2
  <2>3. QED
    BY <1>2, <1>6, <2>1, <2>2, AgedLeaves
<1>7. store \/ rows' = rows
  <2>1. Persist(q)
    BY DEF q
  <2>2. QED
    BY <2>1 DEF Persist
<1>8. QED
  BY <1>4, <1>5, <1>6, <1>7, KeptLeaves

\* The row of a task that runs is a running one.
LEMMA RowRuns ==
  ASSUME PanelOK, store, NEW i \in DOMAIN tasks, Runs(tasks[i]),
         NEW k \in DOMAIN rows, rows[k].id = tasks[i].id
  PROVE  Runs(rows[k])
<1>1. tasks[i] \in Task /\ tasks[i].id \in Ids /\ rows \in Table
  BY DEF PanelOK, List, Task
<1>2. IsLast(tasks, i)
  BY DEF PanelOK, List, Latest, IsLast
<1>3. PICK p \in DOMAIN rows : rows[p] = tasks[i]
  BY <1>1, <1>2 DEF PanelOK, Covers
<1>4. p = k
  BY <1>1, <1>3 DEF Table
<1>5. QED
  BY <1>3, <1>4

\* The tasks of an Agent that stopped, saved one after the other: their rows were running.
LEMMA InterruptLeaves ==
  ASSUME PanelOK, Interrupt
  PROVE  LeavesByAge({})
<1> DEFINE q == ToSave
           n == Len(ToSave)
<1>1. /\ Halted \in Seq(Task) /\ Len(Halted) = Len(tasks) /\ Len(tasks) <= MaxHistory
      /\ q \in Seq(Task) /\ Active = {q[k].id : k \in DOMAIN q}
      /\ \A k \in DOMAIN q :
           ~Runs(q[k]) /\ \E i \in DOMAIN Halted : IsLast(Halted, i) /\ Halted[i] = q[k]
      /\ store => Covers(Halted, rows, Ids \ Active)
  BY InterruptedTasks DEF PanelOK, List
<1>2. Persist(q) /\ rows \in Table /\ store \in BOOLEAN
  BY DEF Interrupt, ToSave, PanelOK
<1> HIDE DEF q, n
<1>3. n \in Nat /\ n = Len(q) /\ DOMAIN q = 1..n
  BY <1>1 DEF q, n
<1>4. rows' \in Table
  BY <1>1, <1>2, PersistTable
<1>5. CASE ~store
  BY <1>2, <1>5, KeptLeaves DEF Persist
<1>6. CASE store
  <2>1. \A x \in 0..n : Covers(Halted, Saved(q)[x], (Ids \ Active) \cup FirstIds(q, x))
    BY <1>1, <1>2, <1>3, <1>6, SavedCovers
  <2>2. ASSUME NEW x \in 0..n PROVE FirstIds(q, x) \subseteq Listed(Saved(q)[x])
    <3>1. SUFFICES ASSUME NEW k \in 1..x PROVE q[k].id \in Listed(Saved(q)[x])
      BY DEF FirstIds
    <3>2. k \in DOMAIN q /\ q[k].id \in FirstIds(q, x)
      BY <1>3 DEF FirstIds
    <3>3. PICK i \in DOMAIN Halted : IsLast(Halted, i) /\ Halted[i] = q[k]
      BY <1>1, <3>2
    <3>4. Covers(Halted, Saved(q)[x], (Ids \ Active) \cup FirstIds(q, x))
      BY <2>1
    <3>5. PICK p \in DOMAIN Saved(q)[x] : Saved(q)[x][p] = Halted[i]
      BY <3>2, <3>3, <3>4 DEF Covers
    <3>6. QED
      BY <3>3, <3>5 DEF Listed
  <2>3. \A x \in 0..n :
          /\ Aged(rows, Saved(q)[x], FirstIds(q, x))
          /\ \A i \in DOMAIN rows : rows[i].id \notin Listed(Saved(q)[x])
               => Cardinality(Over(Saved(q)[x])) = MaxPersisted
    BY <1>1, <1>2, <1>3, <2>2, SavesAge
  <2>4. \A x \in 0..n : FirstIds(q, x) \subseteq Active
    BY <1>1, <1>3 DEF FirstIds
  <2>5. ASSUME NEW k \in DOMAIN rows, rows[k].id \in Active PROVE Runs(rows[k])
    <3>1. PICK i \in DOMAIN tasks : Runs(tasks[i]) /\ tasks[i].id = rows[k].id
      BY <2>5 DEF Active
    <3>2. QED
      BY <1>6, <3>1, RowRuns
  <2>6. MaxPersisted \in Nat
    BY DebuggerAssumptions
  <2>7. ASSUME NEW x \in 0..n, rows' = Saved(q)[x] PROVE LeavesByAge({})
    <3>1. /\ Aged(rows, rows', FirstIds(q, x)) /\ FirstIds(q, x) \subseteq Active
          /\ \A i \in DOMAIN rows : rows[i].id \notin Listed(rows')
               => Cardinality(Over(rows')) = MaxPersisted
      BY <2>3, <2>4, <2>7
    <3>2. QED
      BY <1>2, <1>4, <2>5, <2>6, <3>1, AgedLeaves DEF Replaces
  <2>8. ASSUME NEW x \in 1..n, store' = FALSE, rows' = Insert(Saved(q)[x - 1], q[x])
        PROVE  LeavesByAge({})
    <3> DEFINE rs == Saved(q)[x - 1]
               t  == q[x]
    <3>1. x - 1 \in 0..n /\ x - 1 \in Nat /\ (x - 1) + 1 = x /\ x \in 0..n
      BY <1>3
    <3>2. /\ Aged(rows, rs, FirstIds(q, x - 1)) /\ FirstIds(q, x - 1) \subseteq Listed(rs)
          /\ \A i \in DOMAIN rows : rows[i].id \notin Listed(rs) => Cardinality(Over(rs)) = MaxPersisted
      BY <2>2, <2>3, <3>1
    <3>3. rs \in Table /\ t \in Task /\ ~Runs(t)
      BY <1>1, <1>2, <1>3, <3>1, SavedTable
    <3>4. FirstIds(q, x) = FirstIds(q, x - 1) \cup {t.id} /\ FirstIds(q, x) \subseteq Active
      BY <2>4, <3>1, NextId
    <3> HIDE DEF rs, t
    <3>5. rows' = Insert(rs, t)
      BY <2>8 DEF rs, t
    <3>6. /\ Aged(rs, rows', {t.id})
          /\ \A i \in DOMAIN rs : rs[i].id \in Listed(rows')
          /\ Len(rows') \in Nat \ {0} /\ rows'[Len(rows')] = t
          /\ Cardinality(Over(rs)) <= Cardinality(Over(rows'))
      BY <3>3, <3>5, InsertAges
    <3>7. \A id \in Listed(rs) : id \in Listed(rows')
      BY <3>6 DEF Listed
    <3>8. t.id \in Listed(rows')
      BY <1>4, <3>6 DEF Listed, Table
    <3>9. Aged(rows, rows', FirstIds(q, x))
      BY <1>2, <1>4, <3>2, <3>3, <3>4, <3>6, <3>7, <3>8, AgedTwice
    <3>10. \A i \in DOMAIN rows :
             rows[i].id \notin Listed(rows') => Cardinality(Over(rows')) >= MaxPersisted
      <4>1. PICK a \in Nat : DOMAIN rows' = 1..a
        BY <1>4 DEF Table
      <4>2. Over(rows') \in SUBSET (1..a)
        BY <4>1 DEF Over
      <4>3. Cardinality(Over(rows')) \in Nat
        BY <4>2, PlacesFinite
      <4>4. QED
        BY <2>6, <3>2, <3>6, <3>7, <4>3
    <3>11. QED
      BY <1>2, <1>4, <2>5, <2>8, <3>4, <3>9, <3>10, AgedLeaves DEF Replaces
  <2>9. QED
    <3>1. CASE rows' = Saved(q)[n]
      BY <1>3, <2>7, <3>1
    <3>2. CASE /\ store' = FALSE
               /\ \E x \in 1..n : rows' \in {Saved(q)[x - 1], Insert(Saved(q)[x - 1], q[x])}
      <4>1. PICK x \in 1..n : rows' \in {Saved(q)[x - 1], Insert(Saved(q)[x - 1], q[x])}
        BY <3>2
      <4>2. x - 1 \in 0..n
        BY <1>3
      <4>3. QED
        BY <2>7, <2>8, <3>2, <4>1, <4>2
    <3>3. QED
      BY <1>2, <1>3, <1>6, <3>1, <3>2 DEF Persist
<1>7. QED
  BY <1>5, <1>6

\* mark_interrupted loses no row, and those of ended tasks stay as they are.
LEMMA InterruptedKeeps ==
  ASSUME NEW rs \in Table
  PROVE  /\ \A i \in DOMAIN rs : rs[i].id \in Listed(Interrupted(rs))
         /\ \A i \in DOMAIN rs :
              ~Runs(rs[i]) => \E j \in DOMAIN Interrupted(rs) : Interrupted(rs)[j] = rs[i]
<1> DEFINE F == {i \in DOMAIN rs : ~Runs(rs[i])}
           R == {i \in DOMAIN rs : Runs(rs[i])}
           a == At(rs, F)
           r == At(rs, R)
           b == [i \in DOMAIN r |-> Failed(r[i])]
           c == a \o b
<1>1. /\ F \in SUBSET (DOMAIN rs) /\ R \in SUBSET (DOMAIN rs)
      /\ \A i \in DOMAIN rs : (i \in F \/ i \in R) /\ (~Runs(rs[i]) => i \in F)
  OBVIOUS
<1>2. Interrupted(rs) = c
  BY DEF Interrupted, RunningOf, FinishedOf
<1> HIDE DEF F, R
<1>3. a \in Seq(Task) /\ r \in Seq(Task)
  BY <1>1, AtTable DEF Table
<1>4. /\ \A i \in F : \E j \in DOMAIN a : a[j] = rs[i]
      /\ \A i \in R : \E j \in DOMAIN r : r[j] = rs[i]
  BY <1>1, AtOrder
<1> HIDE DEF a, r
<1>5. PICK n \in Nat : n = Len(a) /\ DOMAIN a = 1..n
  BY <1>3
<1>6. PICK m \in Nat : m = Len(r) /\ DOMAIN r = 1..m
  BY <1>3
<1>7. \A k \in 1..m : b[k] \in Task /\ b[k].id = r[k].id
  BY <1>3, <1>6 DEF Failed, Task, States, Runs
<1>8. b \in Seq(Task) /\ Len(b) = m
  <2>1. b = [k \in 1..m |-> b[k]]
    BY <1>6
  <2> HIDE DEF b
  <2>2. [k \in 1..m |-> b[k]] \in Seq(Task) /\ Len([k \in 1..m |-> b[k]]) = m
    BY <1>7, IsASeq
  <2>3. QED
    BY <2>1, <2>2
<1> HIDE DEF b
<1>9. /\ c \in Seq(Task) /\ Len(c) = n + m
      /\ \A k \in 1..Len(c) : c[k] = IF k <= Len(a) THEN a[k] ELSE b[k - Len(a)]
  BY <1>3, <1>5, <1>8, ConcatProperties
<1> HIDE DEF c
<1>10. DOMAIN c = 1..(n + m)
  BY <1>9
<1>11. \A j \in 1..n : j \in DOMAIN c /\ c[j] = a[j]
  BY <1>5, <1>9, <1>10
<1>12. \A j \in 1..m : n + j \in DOMAIN c /\ c[n + j] = b[j]
  <2>1. TAKE j \in 1..m
  <2>2. n + j \in 1..(n + m) /\ ~(n + j <= n) /\ (n + j) - n = j
    OBVIOUS
  <2>3. QED
    BY <1>5, <1>9, <1>10, <2>2
<1>13. \A i \in F : rs[i].id \in Listed(c) /\ \E j \in DOMAIN c : c[j] = rs[i]
  BY <1>4, <1>5, <1>11 DEF Listed
<1>14. ASSUME NEW i \in R PROVE rs[i].id \in Listed(c)
  <2>1. PICK j \in 1..m : r[j] = rs[i]
    BY <1>4, <1>6
  <2>2. n + j \in DOMAIN c /\ c[n + j].id = rs[i].id
    BY <1>7, <1>12, <2>1
  <2>3. QED
    BY <2>2 DEF Listed
<1>15. QED
  BY <1>1, <1>2, <1>13, <1>14

\* clear_finished takes away what has ended.
LEMMA ClearLeaves ==
  ASSUME PanelOK, ClearFinished
  PROVE  LeavesByAge({})
<1> DEFINE R == {i \in DOMAIN rows : Runs(rows[i])}
<1>1. rows \in Table /\ R \in SUBSET (DOMAIN rows)
  BY DEF PanelOK
<1>2. CASE rows' = RunningOf(rows)
  <2>1. rows' = At(rows, R)
    BY <1>2 DEF RunningOf
  <2>2. /\ \A j \in DOMAIN At(rows, R) : \E i \in R : At(rows, R)[j] = rows[i]
        /\ \A i \in R : \E j \in DOMAIN At(rows, R) : At(rows, R)[j] = rows[i]
    <3> HIDE DEF R
    <3>1. QED
      BY <1>1, AtOrder
  <2>3. \A j \in DOMAIN rows' : Runs(rows'[j])
    BY <2>1, <2>2
  <2>4. \A i \in DOMAIN rows : Runs(rows[i]) => \E j \in DOMAIN rows' : rows'[j] = rows[i]
    BY <2>1, <2>2
  <2>5. QED
    BY <2>3, <2>4 DEF LeavesByAge
<1>3. QED
  BY <1>2, KeptLeaves DEF ClearFinished

\* TaskStore::open takes away legacy rows, which were not running.
LEMMA OpenLeaves ==
  ASSUME PanelOK, Open
  PROVE  LeavesByAge({})
<1>1. rows \in Table /\ at = "closed"
  BY DEF PanelOK, Open, Goes
<1>2. CASE UNCHANGED panel
  BY <1>2, KeptLeaves DEF panel
<1>3. ASSUME NEW legacy \in SUBSET {rows[i].id : i \in {j \in DOMAIN rows :
                              ~rows[j].known /\ rows[j].state # "completed"}},
             rows' = LegacyRemoved(Interrupted(rows), legacy)
      PROVE  LeavesByAge({})
  <2> DEFINE q == Interrupted(rows)
             P == {i \in DOMAIN q : q[i].id \notin legacy}
  <2>1. q \in Table /\ P \in SUBSET (DOMAIN q) /\ rows' = At(q, P)
    BY <1>1, <1>3, InterruptedTable DEF LegacyRemoved
  <2>2. /\ \A i \in DOMAIN rows : \E j \in DOMAIN q : q[j].id = rows[i].id
        /\ \A i \in DOMAIN rows : ~Runs(rows[i]) => \E j \in DOMAIN q : q[j] = rows[i]
    BY <1>1, InterruptedKeeps DEF Listed
  <2> HIDE DEF q
  <2>3. \A j \in P : \E k \in DOMAIN rows' : rows'[k] = q[j]
    <3> HIDE DEF P
    <3>1. \A i \in P : \E j \in DOMAIN At(q, P) : At(q, P)[j] = q[i]
      BY <2>1, AtOrder
    <3>2. QED
      BY <2>1, <3>1
  <2>4. ASSUME NEW i \in DOMAIN rows, rows[i].id \in legacy
        PROVE  ~Runs(rows[i]) /\ ~rows[i].known
    <3>1. PICK k \in DOMAIN rows : ~rows[k].known /\ rows[k].id = rows[i].id
      BY <1>3, <2>4
    <3>2. k = i /\ rows[i] \in Task
      BY <1>1, <3>1 DEF Table
    <3>3. QED
      BY <3>1, <3>2 DEF Task
  <2>5. ASSUME NEW i \in DOMAIN rows, rows[i].id \notin legacy, ~Runs(rows[i])
        PROVE  \E j \in DOMAIN rows' : rows'[j] = rows[i]
    <3>1. PICK j \in DOMAIN q : q[j] = rows[i]
      BY <2>2, <2>5
    <3>2. QED
      BY <2>3, <2>5, <3>1
  <2>6. ASSUME NEW i \in DOMAIN rows, rows[i].id \notin legacy
        PROVE  \E j \in DOMAIN rows' : rows'[j].id = rows[i].id
    <3>1. PICK j \in DOMAIN q : q[j].id = rows[i].id
      BY <2>2
    <3>2. QED
      BY <2>3, <2>6, <3>1
  <2>7. QED
    BY <1>1, <2>4, <2>5, <2>6 DEF LeavesByAge
<1>4. QED
  BY <1>2, <1>3 DEF Open

\* The events of tasks: a record changed or pushed is saved, and its id may have a row;
\* progress is saved over the row of a task that runs.
LEMMA EventLeaves ==
  ASSUME PanelOK, NEW id \in Ids
  PROVE  /\ Started(id) => LeavesByAge({id})
         /\ Progressed(id) => LeavesByAge({})
         /\ \A state \in {"completed", "failed"} : Finished(id, state) => LeavesByAge({id})
<1>1. tasks \in Seq(Task) /\ rows \in Table /\ store \in BOOLEAN
  BY DEF PanelOK, List
<1>2. ASSUME NEW t \in Task, t.id = id, Persist(<<t>>) PROVE LeavesByAge({id})
  <2>1. Replaces({t.id}, {id})
    BY <1>2 DEF Replaces
  <2>2. QED
    BY <1>1, <1>2, <2>1, SaveLeaves
<1>3. ASSUME Started(id) PROVE LeavesByAge({id})
  <2> DEFINE i == LastRunning(id)
             new == [id |-> id, known |-> TRUE, state |-> "running"]
             taken == [tasks[i] EXCEPT !.known = TRUE]
  <2>1. CASE i = 0
    <3>1. new \in Task /\ new.id = id /\ Persist(<<new>>)
      BY <1>3, <2>1 DEF Started, Pushed, Task, States
    <3>2. QED
      BY <1>2, <3>1
  <2>2. CASE i # 0
    <3>1. i \in DOMAIN tasks
      BY <1>1, <2>2, LastPlaces
    <3>2. tasks[i] \in Task /\ tasks[i].id = id
      BY <1>1, <2>2, <3>1, LastPlaces
    <3>3. taken \in Task /\ taken.id = id
      BY <3>2 DEF Task
    <3>4. Persist(<<taken>>)
      BY <1>3, <2>2 DEF Started, Changed
    <3>5. QED
      BY <1>2, <3>3, <3>4
  <2>3. QED
    BY <2>1, <2>2
<1>4. ASSUME Progressed(id) PROVE LeavesByAge({})
  <2> DEFINE i == LastRunning(id)
  <2>1. CASE i = 0
    BY <1>4, <2>1, KeptLeaves DEF Progressed, panel
  <2>2. CASE i # 0
    <3>1. i \in DOMAIN tasks
      BY <1>1, <2>2, LastPlaces
    <3>2. tasks[i] \in Task /\ Runs(tasks[i]) /\ Persist(<<tasks[i]>>)
      BY <1>1, <1>4, <2>2, <3>1, LastPlaces DEF Progressed, Changed
    <3>3. store => Replaces({tasks[i].id}, {})
      BY <3>1, <3>2, RowRuns DEF Replaces
    <3> HIDE DEF i
    <3>4. QED
      BY <1>1, <3>2, <3>3, SaveLeaves
  <2>3. QED
    BY <2>1, <2>2
<1>5. ASSUME NEW state \in {"completed", "failed"}, Finished(id, state)
      PROVE  LeavesByAge({id})
  <2> DEFINE i == LastWith(id)
             new == [id |-> id, known |-> FALSE, state |-> state]
             ended == [tasks[i] EXCEPT !.state = state]
  <2>1. CASE i = 0
    <3>1. new \in Task /\ new.id = id /\ Persist(<<new>>)
      BY <1>5, <2>1 DEF Finished, Pushed, Task, States, Runs
    <3>2. QED
      BY <1>2, <3>1
  <2>2. CASE i # 0
    <3>1. i \in DOMAIN tasks
      BY <1>1, <2>2, LastPlaces
    <3>2. tasks[i] \in Task /\ tasks[i].id = id
      BY <1>1, <2>2, <3>1, LastPlaces
    <3>3. ended \in Task /\ ended.id = id
      BY <3>2 DEF Task, States, Runs
    <3>4. Persist(<<ended>>)
      BY <1>5, <2>2 DEF Finished, Changed
    <3>5. QED
      BY <1>2, <3>3, <3>4
  <2>3. QED
    BY <2>1, <2>2
<1>6. QED
  BY <1>3, <1>4, <1>5

\* What FinishedLeaveByAge says of a step.
RecordsLeaveByAge == LeavesByAge({id \in Ids : Handled(id)})

\* A step that replaces no record of an ended task.
LEMMA NoneReplaced ==
  ASSUME LeavesByAge({})
  PROVE  RecordsLeaveByAge
BY DEF LeavesByAge, RecordsLeaveByAge

\* A step that replaces none but the record of the task a line is about.
LEMMA OneReplaced ==
  ASSUME NEW id \in Ids, Handled(id), LeavesByAge({id})
  PROVE  RecordsLeaveByAge
<1> DEFINE X == {x \in Ids : Handled(x)}
<1>1. id \in X
  OBVIOUS
<1> HIDE DEF X
<1>2. LeavesByAge(X)
  BY <1>1 DEF LeavesByAge
<1>3. QED
  BY <1>2 DEF RecordsLeaveByAge, X

\* Every step.
LEMMA StepsLeaveByAge == IInv /\ [Next]_vars => RecordsLeaveByAge
<1>1. SUFFICES ASSUME IInv, [Next]_vars PROVE RecordsLeaveByAge
  OBVIOUS
<1>2. PanelOK /\ PipesOK
  BY <1>1 DEF IInv
<1>3. CASE UNCHANGED rows
  BY <1>3, KeptLeaves DEF RecordsLeaveByAge
<1>4. UNCHANGED panel => UNCHANGED rows
  BY DEF panel
<1>5. Interrupt => RecordsLeaveByAge
  BY <1>2, InterruptLeaves, NoneReplaced
<1>6. Stopped => RecordsLeaveByAge
  BY <1>3, <1>4, <1>5 DEF Stopped
<1>7. CASE UNCHANGED vars
  BY <1>3, <1>4, <1>7 DEF vars
<1>8. CASE AgentStep
  BY <1>3, <1>4, <1>8
     DEF AgentStep, TaskStarts, TaskProgresses, TaskEnds, UpdateReady, Writes, AgentExits
<1>9. ASSUME NEW a \in 1..MaxAgents, HandleLine(a) PROVE RecordsLeaveByAge
  <2> DEFINE line == Head(pipes[a])
  <2>1. line \in Line
    BY <1>2, <1>9, HeadTailProperties DEF PipesOK, HandleLine
  <2>2. \/ line.kind = "ready"
        \/ line.id \in Ids /\ line.kind \in Events
    BY <2>1 DEF Line
  <2>3. line.kind \in {"started", "completed", "failed"} => Handled(line.id)
    <3>1. pipes[a] # <<>> /\ pipes'[a] = Tail(pipes[a])
      BY <1>2, <1>9 DEF HandleLine, PipesOK
    <3>2. QED
      BY <3>1 DEF Handled
  <2>4. CASE line.kind = "ready"
    BY <1>3, <1>4, <1>9, <2>4 DEF HandleLine
  <2>5. CASE line.kind = "started" /\ line.id \in Ids
    <3>1. LeavesByAge({line.id})
      BY <1>2, <1>9, <2>5, EventLeaves DEF HandleLine
    <3>2. QED
      BY <2>5, <2>3, <3>1, OneReplaced
  <2>6. CASE line.kind = "progress" /\ line.id \in Ids
    BY <1>2, <1>9, <2>6, EventLeaves, NoneReplaced DEF HandleLine
  <2>7. CASE line.kind \in {"completed", "failed"} /\ line.id \in Ids
    <3>1. Finished(line.id, line.kind)
      BY <1>9, <2>7 DEF HandleLine
    <3> HIDE DEF line
    <3>2. LeavesByAge({line.id})
      BY <1>2, <2>7, <3>1, EventLeaves
    <3>3. QED
      BY <2>7, <2>3, <3>2, OneReplaced
  <2>8. QED
    BY <2>2, <2>4, <2>5, <2>6, <2>7 DEF Events
<1>10. CASE CheckExit
  BY <1>3, <1>4, <1>5, <1>10 DEF CheckExit
<1>11. CASE ApplyReadyUpdate
  BY <1>3, <1>4, <1>6, <1>11 DEF ApplyReadyUpdate
<1>12. CASE ApplyReadyDebuggerUpdate
  BY <1>3, <1>4, <1>5, <1>6, <1>12 DEF ApplyReadyDebuggerUpdate
<1>13. CASE CheckUpdater \/ NextFrame \/ StartAgent
  BY <1>3, <1>4, <1>13 DEF CheckUpdater, NextFrame, StartAgent
<1>14. CASE StopAgent \/ InstallUpdate
  BY <1>6, <1>14 DEF StopAgent, InstallUpdate
<1>15. CASE ClearFinished
  BY <1>2, <1>15, ClearLeaves, NoneReplaced
<1>16. CASE Close
  BY <1>3, <1>16 DEF Close
<1>17. CASE Open
  BY <1>2, <1>17, OpenLeaves, NoneReplaced
<1>18. QED
  BY <1>1, <1>7, <1>8, <1>9, <1>10, <1>11, <1>12, <1>13, <1>14, <1>15, <1>16, <1>17 DEF Next, Frame

---------------------------------------------------------------------------
\* The theorems.

\* The inductive invariant holds in every state.
THEOREM Invariance == Spec => []IInv
BY InitIsSound, StepsKeepIt, PTL DEF Spec

\* The list stays within MAX_TASK_HISTORY and the table names no id twice, through saves,
\* failing saves, trims, clearing, restarts of the Debugger and lines of earlier Agents.
THEOREM TypeCorrect == Spec => []TypeOK
BY Invariance, InvariantMeans, PTL

\* No record shown running hangs behind another of its id: the next end of that id, from
\* whatever Agent, reaches it (record_task_started and record_task_finished).
THEOREM NoneHangsBehind == Spec => []RunningIsLatest
BY Invariance, InvariantMeans, PTL

\* While the history is open, what the list shows last of a task is in the table: no trim
\* drops it (trim, save, clear_finished), however full the table is and whatever ran.
THEOREM RestartFinds == Spec => []HistoryAgrees
BY Invariance, InvariantMeans, PTL

\* Whatever is saved, interrupted, trimmed, cleared or lost to errors: the record of a task
\* that has ended is left as it is unless a line starts or ends a task of its id, and
\* leaves the table as the one updated longest ago (trim, save).
THEOREM OldestLeaveFirst == Spec => FinishedLeaveByAge
<1>1. IInv /\ [Next]_vars =>
        (\A i \in DOMAIN rows :
           \/ \E j \in DOMAIN rows' : rows'[j] = rows[i]
           \/ /\ Runs(rows[i]) \/ Handled(rows[i].id)
              /\ \E j \in DOMAIN rows' : rows'[j].id = rows[i].id
           \/ /\ ~Runs(rows[i])
              /\ \/ \A j \in DOMAIN rows' : Runs(rows'[j])
                 \/ at = "closed" /\ ~rows[i].known
                 \/ /\ Cardinality({j \in DOMAIN rows' : ~Runs(rows'[j])}) >= MaxPersisted
                    /\ store' => Cardinality({j \in DOMAIN rows' : ~Runs(rows'[j])}) = MaxPersisted
                    /\ \A k \in 1..(i - 1), j \in 1..(Len(rows') - 1) :
                         Runs(rows[k]) \/ rows'[j] # rows[k])
  BY StepsLeaveByAge DEF RecordsLeaveByAge, LeavesByAge
<1>2. QED
  BY <1>1, Invariance, PTL DEF Spec, FinishedLeaveByAge

=============================================================================
