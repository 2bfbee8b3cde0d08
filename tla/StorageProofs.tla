--------------------------- MODULE StorageProofs ---------------------------
(***************************************************************************)
(* Proofs about Storage, for every set of clients, rooms, names and keys,  *)
(* every cap and any number of messages and presets.  The first part is    *)
(* about sets of rows: what ORDER BY id and LIMIT make of a room to which  *)
(* a row is added.  The second says what the draft of the open transaction *)
(* holds at each of its steps, in terms of what is committed; from it      *)
(* follow the cap, the passcodes, the presets and the refinement of        *)
(* HistoryLog.                                                             *)
(***************************************************************************)
EXTENDS Storage, FiniteSetTheorems, WellFoundedInduction, TLAPS

-----------------------------------------------------------------------------
(* Sets of rows.                                                           *)

\* What an INTEGER PRIMARY KEY makes of a table.
Keyed(rows) ==
    /\ IsFiniteSet(rows)
    /\ \A x \in rows : x.id \in Nat
    /\ \A x, y \in rows : x.id = y.id => x = y

\* The rows of one table that is part of another.
LEMMA KeyedSubset ==
    ASSUME NEW R, Keyed(R), NEW S \in SUBSET R
    PROVE  Keyed(S)
BY FS_Subset DEF Keyed

\* A table that is not empty has a first row.
LEMMA FirstRow ==
    ASSUME NEW R, Keyed(R), R # {}
    PROVE  \E m \in R : \A y \in R \ {m} : m.id < y.id
<1>. DEFINE ids == {x.id : x \in R}
<1>1. ids \subseteq Nat /\ ids # {}
  BY DEF Keyed
<1>. DEFINE less == {ss \in Nat \X Nat : ss[1] < ss[2]}
<1>2. PICK i \in ids : \A j \in ids : ~ (<<j, i>> \in less)
  <2>1. IsWellFoundedOn(less, Nat)
    BY NatLessThanWellFounded DEF OpToRel
  <2>. HIDE DEF ids, less
  <2>. QED
    BY <1>1, <2>1, WFMin
<1>3. ASSUME NEW j \in ids
      PROVE  i <= j
  <2>1. i \in Nat /\ j \in Nat
    BY <1>1
  <2>2. ~ (<<j, i>> \in less)
    BY <1>2
  <2>3. ~ (j < i)
    BY <2>1, <2>2
  <2>. QED
    BY <2>1, <2>3
<1>4. PICK m \in R : m.id = i
  OBVIOUS
<1>5. ASSUME NEW y \in R, y # m
      PROVE  m.id < y.id
  <2>1. m.id # y.id
    BY <1>5 DEF Keyed
  <2>2. m.id <= y.id
    <3>1. y.id \in ids
      OBVIOUS
    <3>. QED
      BY <1>3, <1>4, <3>1
  <2>. QED
    BY <2>1, <2>2 DEF Keyed
<1>. QED
  BY <1>5

\* LIMIT n keeps at most n rows.
LEMMA NewestBound ==
    ASSUME NEW R, Keyed(R), NEW n \in Nat
    PROVE  Cardinality(Newest(R, n)) <= n
<1>. DEFINE N == Newest(R, n)
<1>1. N \subseteq R
  BY DEF Newest
<1>2. CASE N = {}
  BY <1>2, FS_EmptySet
<1>3. CASE N # {}
  <2>1. Keyed(N)
    BY <1>1, KeyedSubset
  <2>2. PICK m \in N : \A y \in N \ {m} : m.id < y.id
    <3>. HIDE DEF N
    <3>. QED
      BY <1>3, <2>1, FirstRow
  <2>. DEFINE A == {y \in R : y.id > m.id}
  <2>3. N \ {m} \subseteq A
    <3>1. \A y \in R : y.id \in Nat
      BY DEF Keyed
    <3>. QED
      BY <1>1, <2>2, <3>1
  <2>4. IsFiniteSet(R) /\ IsFiniteSet(N)
    BY <2>1 DEF Keyed
  <2>5. IsFiniteSet(A) /\ Cardinality(A) \in Nat
    BY <2>4, FS_Subset, FS_CardinalityType
  <2>6. Cardinality(A) < n
    BY <2>2 DEF Newest
  <2>7. Cardinality(N \ {m}) <= Cardinality(A)
    <3>. HIDE DEF A, N
    <3>. QED
      BY <2>3, <2>5, FS_Subset
  <2>8. Cardinality(N \ {m}) = Cardinality(N) - 1 /\ Cardinality(N) \in Nat
    <3>. HIDE DEF N
    <3>. QED
      BY <2>2, <2>4, FS_RemoveElement, FS_CardinalityType
  <2>. HIDE DEF A, N
  <2>9. Cardinality(N \ {m}) \in Int
    BY <2>8
  <2>. QED
    BY <2>5, <2>6, <2>7, <2>8, <2>9 DEF N
<1>. QED
  BY <1>2, <1>3

\* The rows with a greater or a smaller id than one of them are fewer.
LEMMA OthersFewer ==
    ASSUME NEW R, Keyed(R), NEW x \in R
    PROVE  /\ Cardinality(R) \in Nat
           /\ Cardinality({y \in R : y.id > x.id}) \in Nat
           /\ Cardinality({y \in R : y.id < x.id}) \in Nat
           /\ Cardinality({y \in R : y.id > x.id}) < Cardinality(R)
           /\ Cardinality({y \in R : y.id < x.id}) < Cardinality(R)
<1>1. IsFiniteSet(R) /\ \A y \in R : y.id \in Nat
  BY DEF Keyed
<1>2. Cardinality(R) \in Nat
  BY <1>1, FS_CardinalityType
<1>3. ASSUME NEW A \in SUBSET (R \ {x})
      PROVE  Cardinality(A) \in Nat /\ Cardinality(A) < Cardinality(R)
  <2>1. IsFiniteSet(R \ {x}) /\ Cardinality(R \ {x}) = Cardinality(R) - 1
    BY <1>1, FS_RemoveElement
  <2>2. IsFiniteSet(A) /\ Cardinality(A) <= Cardinality(R \ {x})
    BY <2>1, FS_Subset
  <2>3. Cardinality(A) \in Nat
    BY <2>2, FS_CardinalityType
  <2>. QED
    BY <1>2, <2>1, <2>2, <2>3
<1>4. {y \in R : y.id > x.id} \in SUBSET (R \ {x})
  BY <1>1
<1>5. {y \in R : y.id < x.id} \in SUBSET (R \ {x})
  BY <1>1
<1>6. /\ Cardinality({y \in R : y.id > x.id}) \in Nat
      /\ Cardinality({y \in R : y.id > x.id}) < Cardinality(R)
  BY <1>3, <1>4, Zenon
<1>7. /\ Cardinality({y \in R : y.id < x.id}) \in Nat
      /\ Cardinality({y \in R : y.id < x.id}) < Cardinality(R)
  BY <1>3, <1>5, Zenon
<1>. QED
  BY <1>2, <1>6, <1>7

\* LIMIT n leaves n rows or fewer alone.
LEMMA NewestAll ==
    ASSUME NEW R, Keyed(R), NEW n \in Nat, Cardinality(R) <= n
    PROVE  Newest(R, n) = R
<1>1. ASSUME NEW x \in R
      PROVE  Cardinality({y \in R : y.id > x.id}) < n
  <2>. DEFINE a == Cardinality({y \in R : y.id > x.id})
  <2>1. a \in Nat /\ a < Cardinality(R) /\ Cardinality(R) \in Nat
    BY OthersFewer
  <2>. HIDE DEF a
  <2>2. a < n
    BY <2>1
  <2>. QED
    BY <2>2 DEF a
<1>. QED
  BY <1>1 DEF Newest

\* A row that comes after all the others.
Appends(r, R) == r.id \in Nat /\ \A y \in R : y.id < r.id

\* A table with a new row is still a table, with one row more.
LEMMA AppendKeyed ==
    ASSUME NEW R, Keyed(R), NEW r, Appends(r, R)
    PROVE  /\ Keyed(R \cup {r})
           /\ Cardinality(R \cup {r}) = Cardinality(R) + 1
           /\ r \notin R
<1>1. r \notin R /\ \A y \in R : y.id # r.id
  BY DEF Keyed, Appends
<1>2. IsFiniteSet(R \cup {r}) /\ Cardinality(R \cup {r}) = Cardinality(R) + 1
  BY <1>1, FS_AddElement DEF Keyed
<1>3. \A x \in R \cup {r} : x.id \in Nat
  BY DEF Keyed, Appends
<1>4. \A x, y \in R \cup {r} : x.id = y.id => x = y
  BY <1>1 DEF Keyed
<1>. QED
  BY <1>1, <1>2, <1>3, <1>4 DEF Keyed

\* Below the cap a new row is kept with all the others.
LEMMA NewestBelowCap ==
    ASSUME NEW R, Keyed(R), NEW r, Appends(r, R),
           NEW n \in Nat, Cardinality(R) < n
    PROVE  Newest(R \cup {r}, n) = R \cup {r}
<1>1. Cardinality(R) \in Nat
  BY FS_CardinalityType DEF Keyed
<1>2. Keyed(R \cup {r}) /\ Cardinality(R \cup {r}) = Cardinality(R) + 1
  BY AppendKeyed
<1>3. Cardinality(R \cup {r}) <= n
  BY <1>1, <1>2
<1>. QED
  BY <1>2, <1>3, NewestAll

\* At the cap a new row takes the place of the first one.
LEMMA NewestAtCap ==
    ASSUME NEW R, Keyed(R), NEW r, Appends(r, R),
           NEW n \in Nat, Cardinality(R) = n,
           NEW m \in R, \A y \in R \ {m} : m.id < y.id
    PROVE  Newest(R \cup {r}, n) = (R \ {m}) \cup {r}
<1>. DEFINE all == R \cup {r}
            After(x) == {y \in all : y.id > x.id}
<1>1. Keyed(all) /\ Cardinality(all) = n + 1 /\ r \notin R
  BY AppendKeyed
<1>2. m.id \in Nat /\ r.id \in Nat /\ \A x \in R : x.id \in Nat /\ x.id < r.id
  BY DEF Keyed, Appends
<1>3. After(m) = all \ {m}
  BY <1>2
<1>4. Cardinality(After(m)) = n
  <2>1. Cardinality(all \ {m}) = Cardinality(all) - 1
    BY <1>1, FS_RemoveElement DEF Keyed
  <2>2. Cardinality(all \ {m}) = n
    <3>. HIDE DEF all
    <3>. QED
      BY <1>1, <2>1
  <2>. QED
    BY <1>3, <2>2
<1>5. ASSUME NEW x \in all, x # m
      PROVE  Cardinality(After(x)) < n
  <2>1. After(x) \in SUBSET ((all \ {m}) \ {x})
    BY <1>2, <1>5
  <2>2. /\ IsFiniteSet((all \ {m}) \ {x})
        /\ Cardinality((all \ {m}) \ {x}) = n - 1
    <3>1. IsFiniteSet(all) /\ m \in all
      BY <1>1 DEF Keyed
    <3>2. IsFiniteSet(all \ {m}) /\ Cardinality(all \ {m}) = n
      BY <1>3, <1>4, <3>1, FS_RemoveElement
    <3>3. x \in all \ {m}
      BY <1>5
    <3>. HIDE DEF all
    <3>. QED
      BY <3>2, <3>3, FS_RemoveElement
  <2>3. IsFiniteSet(After(x)) /\ Cardinality(After(x)) <= n - 1
    <3>. HIDE DEF After, all
    <3>. QED
      BY <2>1, <2>2, FS_Subset
  <2>4. Cardinality(After(x)) \in Nat
    <3>. HIDE DEF After
    <3>. QED
      BY <2>3, FS_CardinalityType
  <2>. HIDE DEF After
  <2>. QED
    BY <2>3, <2>4
<1>6. m \notin Newest(all, n)
  <2>1. ~ (Cardinality(After(m)) < n)
    BY <1>4
  <2>. QED
    BY <2>1 DEF Newest
<1>7. \A x \in all : x # m => x \in Newest(all, n)
  BY <1>5 DEF Newest
<1>8. Newest(all, n) \subseteq all
  BY DEF Newest
<1>. QED
  BY <1>1, <1>6, <1>7, <1>8

-----------------------------------------------------------------------------
(* The rows of a room as a sequence.                                       *)

\* A room without LIMIT, oldest row first.
InOrder(rows) == [i \in 1..Cardinality(rows) |-> TheRow(Ranked(rows, i - 1)).body]

\* A new row comes last.
LEMMA OrderOfAppend ==
    ASSUME NEW R, Keyed(R), NEW r, Appends(r, R)
    PROVE  InOrder(R \cup {r}) = Append(InOrder(R), r.body)
<1>. DEFINE all == R \cup {r}
            n == Cardinality(R)
<1>1. n \in Nat /\ Cardinality(all) = n + 1 /\ Keyed(all) /\ r \notin R
  BY AppendKeyed, FS_CardinalityType DEF Keyed
<1>2. r.id \in Nat /\ \A x \in R : x.id \in Nat /\ x.id < r.id
  BY DEF Keyed, Appends
<1>3. \A x \in R : {y \in all : y.id < x.id} = {y \in R : y.id < x.id}
  BY <1>2
<1>4. {y \in all : y.id < r.id} = R
  BY <1>2
<1>5. ASSUME NEW k \in 0..(n - 1)
      PROVE  Ranked(all, k) = Ranked(R, k)
  <2>1. r \notin Ranked(all, k)
    <3>1. n # k
      <4>. HIDE DEF n
      <4>. QED
        BY <1>1
    <3>. QED
      BY <1>4, <3>1 DEF Ranked
  <2>2. \A x \in R : x \in Ranked(all, k) <=> x \in Ranked(R, k)
    BY <1>3 DEF Ranked
  <2>. QED
    BY <2>1, <2>2 DEF Ranked
<1>6. Ranked(all, n) = {r}
  <2>1. r \in Ranked(all, n)
    BY <1>4 DEF Ranked
  <2>2. ASSUME NEW x \in R
        PROVE  x \notin Ranked(all, n)
    <3>1. Cardinality({y \in R : y.id < x.id}) # n
      <4>. DEFINE a == Cardinality({y \in R : y.id < x.id})
      <4>1. a \in Nat /\ a < n
        BY OthersFewer
      <4>. HIDE DEF a, n
      <4>2. a # n
        BY <1>1, <4>1
      <4>. QED
        BY <4>2 DEF a
    <3>. QED
      BY <1>3, <3>1 DEF Ranked
  <2>. QED
    BY <2>1, <2>2 DEF Ranked
<1>7. TheRow({r}) = r
  BY DEF TheRow
<1>. DEFINE old == InOrder(R)
            new == InOrder(all)
            B == {old[i] : i \in 1..n} \cup {r.body}
<1>8. old = [i \in 1..n |-> old[i]] /\ old \in Seq(B) /\ Len(old) = n
  BY <1>1 DEF InOrder
<1>9. new = [i \in 1..(n + 1) |-> IF i = n + 1 THEN r.body ELSE old[i]]
  <2>1. ASSUME NEW i \in 1..(n + 1)
        PROVE  TheRow(Ranked(all, i - 1)).body = IF i = n + 1 THEN r.body ELSE old[i]
    <3>1. CASE i = n + 1
      <4>1. i - 1 = n
        BY <1>1, <3>1
      <4>. QED
        BY <1>6, <1>7, <3>1, <4>1
    <3>2. CASE i # n + 1
      <4>1. i - 1 \in 0..(n - 1) /\ i \in 1..n
        BY <1>1, <3>2
      <4>2. Ranked(all, i - 1) = Ranked(R, i - 1)
        BY <1>5, <4>1
      <4>3. old[i] = TheRow(Ranked(R, i - 1)).body
        BY <4>1 DEF InOrder
      <4>. QED
        BY <3>2, <4>2, <4>3
    <3>. QED
      BY <3>1, <3>2
  <2>2. new = [i \in 1..(n + 1) |-> TheRow(Ranked(all, i - 1)).body]
    BY <1>1 DEF InOrder
  <2>. HIDE DEF new, old, n, all
  <2>. QED
    BY <2>1, <2>2
<1>. HIDE DEF old, new, n, B
<1>10. Append(old, r.body) = [i \in 1..(n + 1) |-> IF i = n + 1 THEN r.body ELSE old[i]]
  BY <1>1, <1>8
<1>. QED
  BY <1>9, <1>10 DEF old, new

\* Without its first row the room starts with the second.
LEMMA OrderOfRest ==
    ASSUME NEW R, Keyed(R), NEW m \in R, \A y \in R \ {m} : m.id < y.id
    PROVE  /\ Cardinality(R) \in Nat \ {0}
           /\ Cardinality(R \ {m}) = Cardinality(R) - 1
           /\ InOrder(R \ {m}) =
                [i \in 1..(Cardinality(R) - 1) |-> InOrder(R)[i + 1]]
<1>. DEFINE rest == R \ {m}
            n == Cardinality(R)
<1>1. IsFiniteSet(R) /\ \A x \in R : x.id \in Nat
  BY DEF Keyed
<1>2. n \in Nat /\ n # 0 /\ Cardinality(rest) = n - 1
  BY <1>1, FS_CardinalityType, FS_EmptySet, FS_RemoveElement
<1>3. ASSUME NEW k \in Nat
      PROVE  Ranked(rest, k) = Ranked(R, k + 1)
  <2>1. m \notin Ranked(R, k + 1)
    <3>1. {y \in R : y.id < m.id} = {}
      BY <1>1
    <3>2. Cardinality({y \in R : y.id < m.id}) = 0
      BY <3>1, FS_EmptySet
    <3>3. k + 1 # 0
      OBVIOUS
    <3>. QED
      BY <3>2, <3>3 DEF Ranked
  <2>2. ASSUME NEW x \in rest
        PROVE  x \in Ranked(rest, k) <=> x \in Ranked(R, k + 1)
    <3>. DEFINE a == {y \in rest : y.id < x.id}
    <3>1. {y \in R : y.id < x.id} = a \cup {m}
      BY <1>1
    <3>2. IsFiniteSet(a)
      BY <1>1, FS_Subset
    <3>3. m \notin a
      OBVIOUS
    <3>4. Cardinality(a) \in Nat /\ Cardinality(a \cup {m}) = Cardinality(a) + 1
      <4>. HIDE DEF a
      <4>. QED
        BY <3>2, <3>3, FS_AddElement, FS_CardinalityType
    <3>5. Cardinality(a) = k <=> Cardinality(a \cup {m}) = k + 1
      <4>. HIDE DEF a
      <4>. QED
        BY <3>4
    <3>. QED
      BY <3>1, <3>5 DEF Ranked
  <2>. QED
    BY <2>1, <2>2 DEF Ranked
<1>4. ASSUME NEW i \in 1..(n - 1)
      PROVE  TheRow(Ranked(rest, i - 1)).body = InOrder(R)[i + 1]
  <2>1. i - 1 \in Nat /\ i + 1 \in 1..n /\ (i + 1) - 1 = (i - 1) + 1
    BY <1>2
  <2>2. Ranked(rest, i - 1) = Ranked(R, (i + 1) - 1)
    BY <1>3, <2>1
  <2>. QED
    BY <2>1, <2>2 DEF InOrder
<1>5. InOrder(rest) = [i \in 1..(n - 1) |-> TheRow(Ranked(rest, i - 1)).body]
  BY <1>2 DEF InOrder
<1>. HIDE DEF rest, n
<1>6. InOrder(rest) = [i \in 1..(n - 1) |-> InOrder(R)[i + 1]]
  BY <1>4, <1>5
<1>. QED
  BY <1>2, <1>6 DEF rest, n

\* What a capped room shows after a new row is what HistoryLog promises: the
\* last n of what it showed and the new one.
LEMMA OrderOfCapped ==
    ASSUME NEW R, Keyed(R), NEW r, Appends(r, R),
           NEW n \in Nat \ {0}, Cardinality(R) <= n
    PROVE  InOrder(Newest(R \cup {r}, n))
             = Promise!LastN(Append(InOrder(R), r.body), n)
<1>. DEFINE old == InOrder(R)
            S == {old[i] : i \in 1..Cardinality(R)} \cup {r.body}
            longer == Append(old, r.body)
<1>1. Cardinality(R) \in Nat
  BY FS_CardinalityType DEF Keyed
<1>2. old \in Seq(S) /\ Len(old) = Cardinality(R)
  <2>1. old = [i \in 1..Cardinality(R) |-> old[i]]
    BY DEF InOrder
  <2>. QED
    BY <1>1, <2>1 DEF InOrder
<1>3. longer \in Seq(S) /\ Len(longer) = Cardinality(R) + 1
  <2>. HIDE DEF old, S
  <2>1. r.body \in S
    BY DEF S
  <2>. QED
    BY <1>1, <1>2, <2>1
<1>4. CASE Cardinality(R) < n
  <2>1. Newest(R \cup {r}, n) = R \cup {r}
    BY <1>4, NewestBelowCap
  <2>2. InOrder(R \cup {r}) = longer
    BY OrderOfAppend
  <2>3. Len(longer) <= n
    <3>. HIDE DEF longer
    <3>. QED
      BY <1>1, <1>3, <1>4
  <2>. HIDE DEF longer
  <2>. QED
    BY <2>1, <2>2, <2>3 DEF Promise!LastN, longer
<1>5. CASE Cardinality(R) = n
  <2>1. R # {}
    BY <1>5, FS_EmptySet
  <2>2. PICK m \in R : \A y \in R \ {m} : m.id < y.id
    BY <2>1, FirstRow
  <2>. DEFINE rest == R \ {m}
              new == InOrder(rest)
  <2>3. Newest(R \cup {r}, n) = rest \cup {r}
    BY <1>5, <2>2, NewestAtCap
  <2>4. InOrder(rest \cup {r}) = Append(new, r.body)
    <3>1. Keyed(rest) /\ Appends(r, rest)
      BY KeyedSubset DEF Appends
    <3>. HIDE DEF rest
    <3>. QED
      BY <3>1, OrderOfAppend
  <2>5. new = [i \in 1..(n - 1) |-> old[i + 1]]
    BY <1>5, <2>2, OrderOfRest
  <2>6. SubSeq(longer, 2, n + 1) = Append(new, r.body)
    <3>1. new \in Seq(S) /\ Len(new) = n - 1 /\ r.body \in S
      <4>1. \A i \in 1..(n - 1) : old[i + 1] \in S
        BY <1>5
      <4>. HIDE DEF old, S
      <4>2. \A i \in 1..(n - 1) : new[i] \in S
        BY <2>5, <4>1
      <4>3. r.body \in S
        BY DEF S
      <4>4. n - 1 \in Nat
        OBVIOUS
      <4>. HIDE DEF new
      <4>5. new = [i \in 1..(n - 1) |-> new[i]]
        BY <2>5
      <4>6. new \in [1..(n - 1) -> S]
        BY <4>2, <4>5
      <4>7. new \in Seq(S)
        BY <4>4, <4>6
      <4>8. Len(new) = n - 1
        BY <4>4, <4>6, <4>7
      <4>. QED
        BY <4>3, <4>7, <4>8
    <3>2. Append(new, r.body) = [i \in 1..n |-> IF i = n THEN r.body ELSE old[i + 1]]
      <4>1. \A i \in 1..(n - 1) : new[i] = old[i + 1]
        BY <2>5
      <4>. HIDE DEF old, new, S
      <4>2. Append(new, r.body) = [i \in 1..n |-> IF i = n THEN r.body ELSE new[i]]
        BY <3>1
      <4>. QED
        BY <4>1, <4>2
    <3>3. longer = [i \in 1..(n + 1) |-> IF i = n + 1 THEN r.body ELSE old[i]]
      <4>1. Len(old) = n
        BY <1>2, <1>5
      <4>. HIDE DEF old, S
      <4>. QED
        BY <1>2, <3>1, <4>1
    <3>4. SubSeq(longer, 2, n + 1) = [i \in 1..n |-> longer[i + 1]]
      <4>. HIDE DEF longer, S
      <4>. QED
        BY <1>3, <1>5
    <3>5. [i \in 1..n |-> longer[i + 1]]
            = [i \in 1..n |-> IF i = n THEN r.body ELSE old[i + 1]]
      <4>. HIDE DEF longer, old
      <4>. QED
        BY <3>3
    <3>. QED
      BY <3>2, <3>4, <3>5
  <2>7. Len(longer) = n + 1
    BY <1>3, <1>5
  <2>8. Promise!LastN(longer, n) = SubSeq(longer, 2, n + 1)
    <3>1. ~ (n + 1 <= n) /\ (n + 1) - n + 1 = 2
      OBVIOUS
    <3>. HIDE DEF longer
    <3>. QED
      BY <2>7, <3>1 DEF Promise!LastN
  <2>. QED
    BY <2>3, <2>4, <2>6, <2>8
<1>. QED
  BY <1>1, <1>4, <1>5

-----------------------------------------------------------------------------
(* The inductive invariant.                                                *)

\* What log_message adds, and the tables as its two statements leave them.
NewRow(c) == [id |-> db.lastRow + 1, room |-> client[c].room, body |-> client[c].body]

Logged(c) == [db EXCEPT !.lastRow = @ + 1, !.rows = @ \cup {NewRow(c)}]

Capped(rows, room) ==
    (rows \ InRoom(rows, room)) \cup Newest(InRoom(rows, room), Limit)

LoggedAndCapped(c) ==
    [db EXCEPT !.lastRow = @ + 1, !.rows = Capped(@ \cup {NewRow(c)}, client[c].room)]

\* The same for save_room_preset.
NewPreset(c) ==
    [id |-> db.lastPreset + 1, name |-> client[c].name,
     sealedWith |-> IF client[c].passcode THEN client[c].key ELSE None]

Unsaved(c) == [db EXCEPT !.presets = Without(@, client[c].name)]

Saved(c) ==
    [db EXCEPT !.lastPreset = @ + 1,
               !.presets = Without(@, client[c].name) \cup {NewPreset(c)}]

\* The arguments a client has where it needs them: a message or a preset with
\* the key that is stored.
Logging(c) ==
    \/ client[c].pc \in {"insert", "prune"}
    \/ client[c].pc = "commit" /\ client[c].name = None

Saving(c) ==
    \/ client[c].pc \in {"delete", "insertPreset"}
    \/ client[c].pc = "commit" /\ client[c].name # None

ArgsOf(c) ==
    /\ Logging(c) => /\ client[c].room \in Rooms /\ client[c].body \in Bodies
                     /\ client[c].name = None
    /\ Saving(c) => /\ client[c].name \in Names
                    /\ client[c].key \in SecretKeys /\ client[c].key = db.encKey

ArgsInv == \A c \in Clients : ArgsOf(c)

\* What the open transaction has written, over what is committed.
DraftOf(c) ==
    /\ client[c].pc = "prune" => draft = Logged(c)
    /\ client[c].pc = "insertPreset" => draft = Unsaved(c)
    /\ client[c].pc = "commit" =>
          draft = IF client[c].name = None THEN LoggedAndCapped(c) ELSE Saved(c)

DraftInv == \A c \in Clients : DraftOf(c)

\* The row ids are those an INTEGER PRIMARY KEY hands out.
RowsInv ==
    /\ Keyed(db.rows)
    /\ \A x \in db.rows : x.id <= db.lastRow

StorageInv ==
    /\ TypeOK /\ ArgsInv /\ DraftInv
    /\ RowsInv /\ RoomLogBounded
    /\ PasscodesReadable /\ OnePresetPerName

-----------------------------------------------------------------------------
(* Types.                                                                  *)

Pcs == {"idle", "readKey", "failed"} \cup Waiting \cup InTransaction

ClientState ==
    [pc : Pcs, room : Rooms \cup {None}, body : Bodies \cup {None},
     name : Names \cup {None}, key : SecretKeys \cup {None}, passcode : BOOLEAN]

\* A client that goes on: only its pc changes.
LEMMA GotoEffect ==
    ASSUME TypeOK, NEW c \in Clients, NEW pc \in Pcs, Goto(c, pc)
    PROVE  /\ client' \in [Clients -> ClientState]
           /\ client'[c].pc = pc
           /\ client'[c].room = client[c].room /\ client'[c].body = client[c].body
           /\ client'[c].name = client[c].name /\ client'[c].key = client[c].key
           /\ client'[c].passcode = client[c].passcode
           /\ \A d \in Clients \ {c} : client'[d] = client[d]
BY DEF TypeOK, Goto, ClientState, Pcs

\* A client that starts or ends a call.
LEMMA ResetEffect ==
    ASSUME TypeOK, NEW c \in Clients, NEW s \in ClientState,
           client' = [client EXCEPT ![c] = s]
    PROVE  /\ client' \in [Clients -> ClientState]
           /\ client'[c] = s
           /\ \A d \in Clients \ {c} : client'[d] = client[d]
BY DEF TypeOK, ClientState, Pcs

\* A client with its key, or one that only wanted to load.
LEMMA BoxType ==
    ASSUME TypeOK, NEW c \in Clients, NEW k \in SecretKeys
    PROVE  WithBox(c, k) \in ClientState
BY DEF TypeOK, WithBox, IdleClient, ClientState, Pcs, Waiting

\* A client that is nowhere has no arguments.
LEMMA IdleType == IdleClient \in ClientState
BY DEF IdleClient, ClientState, Pcs

\* While nobody, or only c, has the write lock, no other client is in a
\* transaction.
LEMMA OneWriter ==
    ASSUME TypeOK, NEW c \in Clients, lock = None \/ lock = c
    PROVE  \A d \in Clients \ {c} : client[d].pc \notin InTransaction
BY StorageAssumption DEF TypeOK

\* What is committed before the first write has the types of a draft.
LEMMA RowType ==
    ASSUME TypeOK, NEW c \in Clients, client[c].room \in Rooms, client[c].body \in Bodies,
           db.lastRow < MaxRows
    PROVE  NewRow(c) \in Row /\ db.lastRow + 1 \in 0..MaxRows
BY StorageAssumption DEF TypeOK, Tables, NewRow, Row

\* The initial state is well-formed.
LEMMA InitType == Init => TypeOK
BY StorageAssumption DEF Init, TypeOK, EmptyTables, Tables, IdleClient, InTransaction, Waiting

\* The step of a client c that leaves the tables alone.
LEMMA TypeOfStep ==
    ASSUME TypeOK, NEW c \in Clients,
           client' \in [Clients -> ClientState],
           \A d \in Clients \ {c} : client'[d] = client[d],
           db' \in Tables, draft' \in Tables,
           \/ lock' = lock /\ (client'[c].pc \in InTransaction <=> client[c].pc \in InTransaction)
           \/ lock = None /\ lock' = c /\ client'[c].pc \in InTransaction
           \/ lock = c /\ lock' = None /\ client'[c].pc \notin InTransaction
    PROVE  TypeOK'
<1>1. lock' \in Clients \cup {None}
  BY DEF TypeOK
<1>2. ASSUME NEW d \in Clients
      PROVE  client'[d].pc \in InTransaction <=> lock' = d
  BY StorageAssumption DEF TypeOK
<1>. QED
  BY <1>1, <1>2 DEF TypeOK, ClientState, Pcs

\* Every step keeps the types.
LEMMA StepType ==
    ASSUME TypeOK, ArgsInv, DraftInv, [Next]_vars
    PROVE  TypeOK'
<1>1. db \in Tables /\ draft \in Tables /\ client \in [Clients -> ClientState]
  BY DEF TypeOK, ClientState, Pcs
<1>2. CASE UNCHANGED vars
  BY <1>2 DEF vars, TypeOK
<1>3. ASSUME NEW c \in Clients, NEW room \in Rooms, NEW body \in Bodies,
             LogMessage(c, room, body)
      PROVE  TypeOK'
  <2>. DEFINE s == [IdleClient EXCEPT !.pc = "insert", !.room = room, !.body = body]
  <2>1. s \in ClientState /\ s.pc = "insert"
    BY DEF IdleClient, ClientState, Pcs, Waiting
  <2>2. client' = [client EXCEPT ![c] = s] /\ UNCHANGED <<db, draft, lock>>
    BY <1>3 DEF LogMessage
  <2>3. client[c].pc = "idle"
    BY <1>3 DEF LogMessage, At
  <2>. HIDE DEF s
  <2>. QED
    BY <1>1, <2>1, <2>2, <2>3, ResetEffect, TypeOfStep DEF InTransaction
<1>4. ASSUME NEW c \in Clients, NEW name \in Names, NEW passcode \in BOOLEAN,
             SavePreset(c, name, passcode)
      PROVE  TypeOK'
  <2>. DEFINE s == [IdleClient EXCEPT !.pc = "readKey", !.name = name, !.passcode = passcode]
  <2>1. s \in ClientState /\ s.pc = "readKey"
    BY DEF IdleClient, ClientState, Pcs
  <2>2. client' = [client EXCEPT ![c] = s] /\ UNCHANGED <<db, draft, lock>>
    BY <1>4 DEF SavePreset
  <2>3. client[c].pc = "idle"
    BY <1>4 DEF SavePreset, At
  <2>. HIDE DEF s
  <2>. QED
    BY <1>1, <2>1, <2>2, <2>3, ResetEffect, TypeOfStep DEF InTransaction
<1>5. ASSUME NEW c \in Clients, LoadPresets(c)
      PROVE  TypeOK'
  <2>. DEFINE s == [IdleClient EXCEPT !.pc = "readKey"]
  <2>1. s \in ClientState /\ s.pc = "readKey"
    BY DEF IdleClient, ClientState, Pcs
  <2>2. client' = [client EXCEPT ![c] = s] /\ UNCHANGED <<db, draft, lock>>
    BY <1>5 DEF LoadPresets
  <2>3. client[c].pc = "idle"
    BY <1>5 DEF LoadPresets, At
  <2>. HIDE DEF s
  <2>. QED
    BY <1>1, <2>1, <2>2, <2>3, ResetEffect, TypeOfStep DEF InTransaction
<1>6. ASSUME NEW c \in Clients, InsertRow(c)
      PROVE  TypeOK'
  <2>1. Goto(c, "prune") /\ "prune" \in Pcs /\ lock = None /\ lock' = c /\ db' = db
    BY <1>6 DEF InsertRow, BeginWrite, Pcs, InTransaction
  <2>2. NewRow(c) \in Row /\ db.lastRow + 1 \in 0..MaxRows
    <3>1. client[c].room \in Rooms /\ client[c].body \in Bodies
      BY <1>6 DEF InsertRow, At, ArgsInv, ArgsOf, Logging
    <3>. QED
      BY <1>6, <3>1, RowType DEF InsertRow
  <2>3. draft' = Logged(c)
    BY <1>6 DEF InsertRow, BeginWrite, Logged, NewRow
  <2>4. draft' \in Tables
    BY <1>1, <2>2, <2>3 DEF Logged, Tables
  <2>. QED
    BY <1>1, <2>1, <2>4, GotoEffect, TypeOfStep DEF InTransaction
<1>7. ASSUME NEW c \in Clients, PruneRows(c)
      PROVE  TypeOK'
  <2>1. Goto(c, "commit") /\ "commit" \in Pcs /\ UNCHANGED <<db, lock>>
    BY <1>7 DEF PruneRows, Pcs, InTransaction
  <2>2. draft' = [draft EXCEPT !.rows = Capped(draft.rows, client[c].room)]
    BY <1>1, <1>7 DEF PruneRows, Capped, Tables
  <2>3. Capped(draft.rows, client[c].room) \subseteq draft.rows
    BY DEF Capped, InRoom, Newest
  <2>4. draft' \in Tables
    BY <1>1, <2>2, <2>3 DEF Tables
  <2>5. client[c].pc = "prune"
    BY <1>7 DEF PruneRows, At
  <2>. QED
    BY <1>1, <2>1, <2>4, <2>5, GotoEffect, TypeOfStep DEF InTransaction
<1>8. ASSUME NEW c \in Clients, Commit(c)
      PROVE  TypeOK'
  <2>1. /\ client[c].pc = "commit" /\ db' = draft /\ lock' = None /\ draft' = draft
        /\ client' = [client EXCEPT ![c] = IdleClient]
    BY <1>8 DEF Commit, At
  <2>2. lock = c
    BY <2>1 DEF TypeOK, InTransaction
  <2>3. IdleClient.pc = "idle"
    BY DEF IdleClient
  <2>. QED
    BY <1>1, <2>1, <2>2, <2>3, IdleType, ResetEffect, TypeOfStep DEF InTransaction
<1>9. ASSUME NEW c \in Clients, ReadKey(c)
      PROVE  TypeOK'
  <2>1. client[c].pc = "readKey" /\ UNCHANGED <<db, draft, lock>>
    BY <1>9 DEF ReadKey, At
  <2>2. CASE db.encKey = None
    <3>1. Goto(c, "makeKey") /\ "makeKey" \in Pcs
      BY <1>1, <1>9, <2>2 DEF ReadKey, Goto, Pcs, Waiting
    <3>. QED
      BY <1>1, <2>1, <3>1, GotoEffect, TypeOfStep DEF InTransaction
  <2>3. CASE db.encKey # None
    <3>1. db.encKey \in SecretKeys
      BY <1>1, <2>3 DEF Tables
    <3>2. WithBox(c, db.encKey) \in ClientState
      BY <3>1, BoxType
    <3>3. WithBox(c, db.encKey).pc \in {"idle", "delete"}
      BY <1>1, <2>1 DEF WithBox, IdleClient, ClientState
    <3>4. client' = [client EXCEPT ![c] = WithBox(c, db.encKey)]
      BY <1>9, <2>3 DEF ReadKey
    <3>. QED
      BY <1>1, <2>1, <3>2, <3>3, <3>4, ResetEffect, TypeOfStep DEF InTransaction
  <2>. QED
    BY <2>2, <2>3
<1>10. ASSUME NEW c \in Clients, NEW k \in SecretKeys, MakeKey(c, k)
       PROVE  TypeOK'
  <2>1. client[c].pc = "makeKey" /\ UNCHANGED <<draft, lock>>
    BY <1>10 DEF MakeKey, At
  <2>2. CASE db.encKey = None
    <3>1. db' \in Tables
      BY <1>1, <1>10, <2>2 DEF MakeKey, Tables
    <3>2. WithBox(c, k) \in ClientState
      BY BoxType
    <3>3. WithBox(c, k).pc \in {"idle", "delete"}
      BY <1>1, <2>1 DEF WithBox, IdleClient, ClientState
    <3>4. client' = [client EXCEPT ![c] = WithBox(c, k)]
      BY <1>10, <2>2 DEF MakeKey
    <3>. QED
      BY <1>1, <2>1, <3>1, <3>2, <3>3, <3>4, ResetEffect, TypeOfStep DEF InTransaction
  <2>3. CASE db.encKey # None
    <3>1. Goto(c, "failed") /\ "failed" \in Pcs /\ db' = db
      BY <1>10, <2>3 DEF MakeKey, Pcs
    <3>. QED
      BY <1>1, <2>1, <3>1, GotoEffect, TypeOfStep DEF InTransaction
  <2>. QED
    BY <2>2, <2>3
<1>11. ASSUME NEW c \in Clients, DeleteOld(c)
       PROVE  TypeOK'
  <2>1. /\ Goto(c, "insertPreset") /\ "insertPreset" \in Pcs
        /\ lock = None /\ lock' = c /\ db' = db /\ draft' = Unsaved(c)
    BY <1>11 DEF DeleteOld, BeginWrite, Unsaved, Pcs, InTransaction
  <2>2. Without(db.presets, client[c].name) \subseteq db.presets
    BY DEF Without
  <2>3. draft' \in Tables
    BY <1>1, <2>1, <2>2 DEF Unsaved, Tables
  <2>. QED
    BY <1>1, <2>1, <2>3, GotoEffect, TypeOfStep DEF InTransaction
<1>12. ASSUME NEW c \in Clients, InsertPreset(c)
       PROVE  TypeOK'
  <2>1. /\ Goto(c, "commit") /\ "commit" \in Pcs /\ UNCHANGED <<db, lock>>
        /\ client[c].pc = "insertPreset" /\ draft.lastPreset < MaxPresets
    BY <1>12 DEF InsertPreset, At, Pcs, InTransaction
  <2>. DEFINE sealed == IF client[c].passcode THEN client[c].key ELSE None
              p == [id |-> draft.lastPreset + 1, name |-> client[c].name,
                    sealedWith |-> sealed]
  <2>2. draft' = [draft EXCEPT !.lastPreset = @ + 1, !.presets = @ \cup {p}]
    BY <1>12 DEF InsertPreset
  <2>3. client[c].name \in Names /\ client[c].key \in SecretKeys
    BY <2>1 DEF ArgsInv, ArgsOf, Saving
  <2>4. draft.lastPreset + 1 \in 1..MaxPresets /\ draft.lastPreset + 1 \in 0..MaxPresets
    BY <1>1, <2>1, StorageAssumption DEF Tables
  <2>5. sealed \in SecretKeys \cup {None}
    BY <2>3
  <2>6. p \in Preset
    <3>. HIDE DEF sealed
    <3>. QED
      BY <2>3, <2>4, <2>5 DEF Preset
  <2>7. draft' \in Tables
    <3>. HIDE DEF p
    <3>. QED
      BY <1>1, <2>2, <2>4, <2>6 DEF Tables
  <2>. QED
    BY <1>1, <2>1, <2>7, GotoEffect, TypeOfStep DEF InTransaction
<1>13. ASSUME NEW c \in Clients, NEW gone \in SUBSET db.presets, DeletePresets(c, gone)
       PROVE  TypeOK'
  <2>1. db' \in Tables /\ UNCHANGED <<draft, lock, client>>
    BY <1>1, <1>13 DEF DeletePresets, Tables
  <2>. QED
    BY <2>1 DEF TypeOK
<1>14. ASSUME NEW c \in Clients, Busy(c)
       PROVE  TypeOK'
  <2>1. /\ Goto(c, "failed") /\ "failed" \in Pcs /\ UNCHANGED <<db, draft, lock>>
        /\ client[c].pc \in Waiting
    BY <1>14 DEF Busy, Pcs
  <2>. QED
    BY <1>1, <2>1, GotoEffect, TypeOfStep DEF InTransaction, Waiting
<1>15. ASSUME NEW c \in Clients, Crash(c)
       PROVE  TypeOK'
  <2>1. client' = [client EXCEPT ![c] = IdleClient] /\ db' = db /\ draft' = draft
    BY <1>15 DEF Crash
  <2>2. IdleClient.pc = "idle"
    BY DEF IdleClient
  <2>3. CASE lock = c
    <3>1. lock' = None
      BY <1>15, <2>3 DEF Crash
    <3>. QED
      BY <1>1, <2>1, <2>2, <2>3, <3>1, IdleType, ResetEffect, TypeOfStep DEF InTransaction
  <2>4. CASE lock # c
    <3>1. lock' = lock
      BY <1>15, <2>4 DEF Crash
    <3>2. client[c].pc \notin InTransaction
      BY <2>4 DEF TypeOK
    <3>. QED
      BY <1>1, <2>1, <2>2, <3>1, <3>2, IdleType, ResetEffect, TypeOfStep DEF InTransaction
  <2>. QED
    BY <2>3, <2>4
<1>. QED
  BY <1>2, <1>3, <1>4, <1>5, <1>6, <1>7, <1>8, <1>9, <1>10, <1>11, <1>12, <1>13,
     <1>14, <1>15 DEF Next

-----------------------------------------------------------------------------
(* Arguments and drafts.                                                   *)

\* The arguments of a client that makes no step: the stored key, once there,
\* does not change.
LEMMA ArgsOfOther ==
    ASSUME NEW d \in Clients, ArgsOf(d), client'[d] = client[d],
           db'.encKey = db.encKey \/ db.encKey = None
    PROVE  ArgsOf(d)'
BY StorageAssumption DEF ArgsOf, Logging, Saving

\* The same for the draft: only the client with the lock has one.
LEMMA DraftOfOther ==
    ASSUME NEW d \in Clients, DraftOf(d), client'[d] = client[d],
           client[d].pc \notin InTransaction \/ (db' = db /\ draft' = draft)
    PROVE  DraftOf(d)'
<1>1. CASE client[d].pc \notin InTransaction
  BY <1>1 DEF DraftOf, InTransaction
<1>2. CASE db' = db /\ draft' = draft
  BY <1>2 DEF DraftOf, Logged, LoggedAndCapped, Unsaved, Saved, NewRow, NewPreset
<1>. QED
  BY <1>1, <1>2

\* A client that logs, saves and waits for nothing.
LEMMA NothingToKeep ==
    ASSUME NEW c \in Clients,
           client'[c].pc \in {"idle", "readKey", "makeKey", "failed"}
    PROVE  ArgsOf(c)' /\ DraftOf(c)'
BY DEF ArgsOf, Logging, Saving, DraftOf

\* What a step of c must show when the tables stay as they are ...
LEMMA QuietStep ==
    ASSUME ArgsInv, DraftInv, NEW c \in Clients, db' = db, draft' = draft,
           \A d \in Clients \ {c} : client'[d] = client[d],
           ArgsOf(c)', DraftOf(c)'
    PROVE  ArgsInv' /\ DraftInv'
BY ArgsOfOther, DraftOfOther DEF ArgsInv, DraftInv

\* ... and when they do not, which takes the lock.
LEMMA WritingStep ==
    ASSUME TypeOK, ArgsInv, DraftInv, NEW c \in Clients,
           lock = None \/ lock = c,
           db'.encKey = db.encKey \/ db.encKey = None,
           \A d \in Clients \ {c} : client'[d] = client[d],
           ArgsOf(c)', DraftOf(c)'
    PROVE  ArgsInv' /\ DraftInv'
BY OneWriter, ArgsOfOther, DraftOfOther DEF ArgsInv, DraftInv

\* The rows and the key of the tables a commit brings.
LEMMA CommitEffect ==
    ASSUME TypeOK, ArgsInv, DraftInv, NEW c \in Clients, Commit(c)
    PROVE  /\ lock = c /\ client[c].pc = "commit" /\ db'.encKey = db.encKey
           /\ client[c].name = None =>
                 /\ db'.rows = Capped(db.rows \cup {NewRow(c)}, client[c].room)
                 /\ db'.lastRow = db.lastRow + 1
                 /\ db'.presets = db.presets
                 /\ client[c].room \in Rooms /\ client[c].body \in Bodies
           /\ client[c].name # None =>
                 /\ db'.rows = db.rows /\ db'.lastRow = db.lastRow
                 /\ db'.presets = Without(db.presets, client[c].name) \cup {NewPreset(c)}
                 /\ client[c].key = db.encKey
<1>1. client[c].pc = "commit" /\ db' = draft
  BY DEF Commit, At
<1>2. lock = c
  BY <1>1 DEF TypeOK, InTransaction
<1>3. db \in Tables
  BY DEF TypeOK
<1>4. DraftOf(c) /\ ArgsOf(c)
  BY DEF DraftInv, ArgsInv
<1>5. CASE client[c].name = None
  <2>1. db' = LoggedAndCapped(c)
    BY <1>1, <1>4, <1>5 DEF DraftOf
  <2>2. client[c].room \in Rooms /\ client[c].body \in Bodies
    BY <1>1, <1>4, <1>5 DEF ArgsOf, Logging
  <2>. QED
    BY <1>1, <1>2, <1>3, <1>5, <2>1, <2>2 DEF LoggedAndCapped, Tables
<1>6. CASE client[c].name # None
  <2>1. db' = Saved(c)
    BY <1>1, <1>4, <1>6 DEF DraftOf
  <2>2. client[c].key = db.encKey
    BY <1>1, <1>4, <1>6 DEF ArgsOf, Saving
  <2>. QED
    BY <1>1, <1>2, <1>3, <1>6, <2>1, <2>2 DEF Saved, Tables
<1>. QED
  BY <1>5, <1>6

\* Every step keeps the arguments and the draft what they are said to be.
LEMMA StepDraft ==
    ASSUME TypeOK, ArgsInv, DraftInv, [Next]_vars
    PROVE  ArgsInv' /\ DraftInv'
<1>1. db \in Tables /\ draft \in Tables /\ client \in [Clients -> ClientState]
  BY DEF TypeOK, ClientState, Pcs
<1>2. CASE UNCHANGED vars
  BY <1>2, ArgsOfOther, DraftOfOther DEF vars, ArgsInv, DraftInv
<1>3. ASSUME NEW c \in Clients, NEW room \in Rooms, NEW body \in Bodies,
             LogMessage(c, room, body)
      PROVE  ArgsInv' /\ DraftInv'
  <2>. DEFINE s == [IdleClient EXCEPT !.pc = "insert", !.room = room, !.body = body]
  <2>1. /\ s \in ClientState /\ s.pc = "insert"
        /\ s.room = room /\ s.body = body /\ s.name = None
    BY DEF IdleClient, ClientState, Pcs, Waiting
  <2>2. client' = [client EXCEPT ![c] = s] /\ UNCHANGED <<db, draft, lock>>
    BY <1>3 DEF LogMessage
  <2>. HIDE DEF s
  <2>3. client'[c] = s /\ \A d \in Clients \ {c} : client'[d] = client[d]
    BY <2>1, <2>2, ResetEffect
  <2>4. ArgsOf(c)' /\ DraftOf(c)'
    BY <2>1, <2>3 DEF ArgsOf, Logging, Saving, DraftOf
  <2>. QED
    BY <2>2, <2>3, <2>4, QuietStep
<1>4. ASSUME NEW c \in Clients, NEW name \in Names, NEW passcode \in BOOLEAN,
             SavePreset(c, name, passcode)
      PROVE  ArgsInv' /\ DraftInv'
  <2>. DEFINE s == [IdleClient EXCEPT !.pc = "readKey", !.name = name, !.passcode = passcode]
  <2>1. s \in ClientState /\ s.pc = "readKey"
    BY DEF IdleClient, ClientState, Pcs
  <2>2. client' = [client EXCEPT ![c] = s] /\ UNCHANGED <<db, draft, lock>>
    BY <1>4 DEF SavePreset
  <2>. HIDE DEF s
  <2>3. client'[c] = s /\ \A d \in Clients \ {c} : client'[d] = client[d]
    BY <2>1, <2>2, ResetEffect
  <2>. QED
    BY <2>1, <2>2, <2>3, NothingToKeep, QuietStep
<1>5. ASSUME NEW c \in Clients, LoadPresets(c)
      PROVE  ArgsInv' /\ DraftInv'
  <2>. DEFINE s == [IdleClient EXCEPT !.pc = "readKey"]
  <2>1. s \in ClientState /\ s.pc = "readKey"
    BY DEF IdleClient, ClientState, Pcs
  <2>2. client' = [client EXCEPT ![c] = s] /\ UNCHANGED <<db, draft, lock>>
    BY <1>5 DEF LoadPresets
  <2>. HIDE DEF s
  <2>3. client'[c] = s /\ \A d \in Clients \ {c} : client'[d] = client[d]
    BY <2>1, <2>2, ResetEffect
  <2>. QED
    BY <2>1, <2>2, <2>3, NothingToKeep, QuietStep
<1>6. ASSUME NEW c \in Clients, InsertRow(c)
      PROVE  ArgsInv' /\ DraftInv'
  <2>1. /\ Goto(c, "prune") /\ "prune" \in Pcs /\ lock = None /\ db' = db
        /\ client[c].pc = "insert"
    BY <1>6 DEF InsertRow, BeginWrite, At, Pcs, InTransaction
  <2>2. draft' = Logged(c)
    BY <1>6 DEF InsertRow, BeginWrite, Logged, NewRow
  <2>3. /\ client'[c].pc = "prune" /\ client'[c].room = client[c].room
        /\ client'[c].body = client[c].body /\ client'[c].name = client[c].name
        /\ \A d \in Clients \ {c} : client'[d] = client[d]
    BY <2>1, GotoEffect
  <2>4. ArgsOf(c)'
    <3>1. ArgsOf(c)
      BY DEF ArgsInv
    <3>. QED
      BY <2>1, <2>3, <3>1 DEF ArgsOf, Logging, Saving
  <2>5. DraftOf(c)'
    BY <2>1, <2>2, <2>3 DEF DraftOf, Logged, NewRow
  <2>. QED
    BY <2>1, <2>3, <2>4, <2>5, WritingStep
<1>7. ASSUME NEW c \in Clients, PruneRows(c)
      PROVE  ArgsInv' /\ DraftInv'
  <2>1. /\ Goto(c, "commit") /\ "commit" \in Pcs /\ UNCHANGED <<db, lock>>
        /\ client[c].pc = "prune"
    BY <1>7 DEF PruneRows, At, Pcs, InTransaction
  <2>2. lock = c
    BY <2>1 DEF TypeOK, InTransaction
  <2>3. /\ client'[c].pc = "commit" /\ client'[c].room = client[c].room
        /\ client'[c].body = client[c].body /\ client'[c].name = client[c].name
        /\ \A d \in Clients \ {c} : client'[d] = client[d]
    BY <2>1, GotoEffect
  <2>4. ArgsOf(c) /\ DraftOf(c)
    BY DEF ArgsInv, DraftInv
  <2>5. ArgsOf(c)' /\ client[c].name = None
    BY <2>1, <2>3, <2>4 DEF ArgsOf, Logging, Saving
  <2>6. draft = Logged(c)
    BY <2>1, <2>4 DEF DraftOf
  <2>7. draft' = [draft EXCEPT !.rows = Capped(draft.rows, client[c].room)]
    BY <1>1, <1>7 DEF PruneRows, Capped, Tables
  <2>8. draft' = LoggedAndCapped(c)
    BY <1>1, <2>6, <2>7 DEF Logged, LoggedAndCapped, Tables
  <2>9. DraftOf(c)'
    BY <2>1, <2>3, <2>5, <2>8 DEF DraftOf, LoggedAndCapped, NewRow
  <2>. QED
    BY <2>1, <2>2, <2>3, <2>5, <2>9, WritingStep
<1>8. ASSUME NEW c \in Clients, Commit(c)
      PROVE  ArgsInv' /\ DraftInv'
  <2>1. lock = c /\ db'.encKey = db.encKey
    BY <1>8, CommitEffect
  <2>2. client' = [client EXCEPT ![c] = IdleClient] /\ IdleClient.pc = "idle"
    BY <1>8 DEF Commit, IdleClient
  <2>3. client'[c] = IdleClient /\ \A d \in Clients \ {c} : client'[d] = client[d]
    BY <2>2, IdleType, ResetEffect
  <2>. QED
    BY <2>1, <2>2, <2>3, NothingToKeep, WritingStep
<1>9. ASSUME NEW c \in Clients, NEW k \in SecretKeys, client[c].pc \in {"readKey", "makeKey"},
             client' = [client EXCEPT ![c] = WithBox(c, k)], db'.encKey = k
      PROVE  /\ ArgsOf(c)' /\ DraftOf(c)'
             /\ \A d \in Clients \ {c} : client'[d] = client[d]
  <2>1. client'[c] = WithBox(c, k) /\ \A d \in Clients \ {c} : client'[d] = client[d]
    BY <1>9, BoxType, ResetEffect
  <2>2. CASE client[c].name = None
    BY <2>1, <2>2, NothingToKeep DEF WithBox, IdleClient
  <2>3. CASE client[c].name # None
    <3>1. client'[c] = [client[c] EXCEPT !.pc = "delete", !.key = k]
      BY <2>1, <2>3 DEF WithBox
    <3>2. client[c].name \in Names
      BY <1>1, <2>3 DEF ClientState
    <3>3. /\ client'[c].pc = "delete" /\ client'[c].key = k
          /\ client'[c].name = client[c].name
      BY <1>1, <3>1 DEF ClientState
    <3>. QED
      BY <1>9, <2>1, <3>2, <3>3 DEF ArgsOf, Logging, Saving, DraftOf
  <2>. QED
    BY <2>1, <2>2, <2>3
<1>10. ASSUME NEW c \in Clients, ReadKey(c)
       PROVE  ArgsInv' /\ DraftInv'
  <2>1. client[c].pc = "readKey" /\ UNCHANGED <<db, draft, lock>>
    BY <1>10 DEF ReadKey, At
  <2>2. CASE db.encKey = None
    <3>1. Goto(c, "makeKey") /\ "makeKey" \in Pcs
      BY <1>1, <1>10, <2>2 DEF ReadKey, Goto, Pcs, Waiting
    <3>2. client'[c].pc = "makeKey" /\ \A d \in Clients \ {c} : client'[d] = client[d]
      BY <3>1, GotoEffect
    <3>. QED
      BY <2>1, <3>2, NothingToKeep, QuietStep
  <2>3. CASE db.encKey # None
    <3>1. db.encKey \in SecretKeys
      BY <1>1, <2>3 DEF Tables
    <3>2. client' = [client EXCEPT ![c] = WithBox(c, db.encKey)]
      BY <1>10, <2>3 DEF ReadKey
    <3>3. /\ ArgsOf(c)' /\ DraftOf(c)'
          /\ \A d \in Clients \ {c} : client'[d] = client[d]
      BY <1>9, <2>1, <3>1, <3>2
    <3>. QED
      BY <2>1, <3>3, QuietStep
  <2>. QED
    BY <2>2, <2>3
<1>11. ASSUME NEW c \in Clients, NEW k \in SecretKeys, MakeKey(c, k)
       PROVE  ArgsInv' /\ DraftInv'
  <2>1. client[c].pc = "makeKey" /\ lock = None /\ UNCHANGED <<draft, lock>>
    BY <1>11 DEF MakeKey, At
  <2>2. CASE db.encKey = None
    <3>1. db'.encKey = k
      BY <1>1, <1>11, <2>2 DEF MakeKey, Tables
    <3>2. client' = [client EXCEPT ![c] = WithBox(c, k)]
      BY <1>11, <2>2 DEF MakeKey
    <3>3. /\ ArgsOf(c)' /\ DraftOf(c)'
          /\ \A d \in Clients \ {c} : client'[d] = client[d]
      BY <1>9, <2>1, <3>1, <3>2
    <3>. QED
      BY <2>1, <2>2, <3>3, WritingStep
  <2>3. CASE db.encKey # None
    <3>1. Goto(c, "failed") /\ "failed" \in Pcs /\ db' = db
      BY <1>11, <2>3 DEF MakeKey, Pcs
    <3>2. client'[c].pc = "failed" /\ \A d \in Clients \ {c} : client'[d] = client[d]
      BY <3>1, GotoEffect
    <3>. QED
      BY <2>1, <3>1, <3>2, NothingToKeep, QuietStep
  <2>. QED
    BY <2>2, <2>3
<1>12. ASSUME NEW c \in Clients, DeleteOld(c)
       PROVE  ArgsInv' /\ DraftInv'
  <2>1. /\ Goto(c, "insertPreset") /\ "insertPreset" \in Pcs /\ client[c].pc = "delete"
        /\ lock = None /\ db' = db /\ draft' = Unsaved(c)
    BY <1>12 DEF DeleteOld, BeginWrite, At, Unsaved, Pcs, InTransaction
  <2>2. /\ client'[c].pc = "insertPreset" /\ client'[c].name = client[c].name
        /\ client'[c].key = client[c].key
        /\ \A d \in Clients \ {c} : client'[d] = client[d]
    BY <2>1, GotoEffect
  <2>3. ArgsOf(c)'
    <3>1. ArgsOf(c)
      BY DEF ArgsInv
    <3>. QED
      BY <2>1, <2>2, <3>1 DEF ArgsOf, Logging, Saving
  <2>4. DraftOf(c)'
    BY <2>1, <2>2 DEF DraftOf, Unsaved
  <2>. QED
    BY <2>1, <2>2, <2>3, <2>4, WritingStep
<1>13. ASSUME NEW c \in Clients, InsertPreset(c)
       PROVE  ArgsInv' /\ DraftInv'
  <2>1. /\ Goto(c, "commit") /\ "commit" \in Pcs /\ UNCHANGED <<db, lock>>
        /\ client[c].pc = "insertPreset"
    BY <1>13 DEF InsertPreset, At, Pcs, InTransaction
  <2>2. lock = c
    BY <2>1 DEF TypeOK, InTransaction
  <2>3. /\ client'[c].pc = "commit" /\ client'[c].name = client[c].name
        /\ client'[c].key = client[c].key /\ client'[c].passcode = client[c].passcode
        /\ \A d \in Clients \ {c} : client'[d] = client[d]
    BY <2>1, GotoEffect
  <2>4. ArgsOf(c) /\ DraftOf(c)
    BY DEF ArgsInv, DraftInv
  <2>5. client[c].name \in Names /\ client[c].name # None
    BY <2>1, <2>4, StorageAssumption DEF ArgsOf, Saving
  <2>6. ArgsOf(c)'
    BY <2>1, <2>3, <2>4, <2>5 DEF ArgsOf, Logging, Saving
  <2>7. draft = Unsaved(c)
    BY <2>1, <2>4 DEF DraftOf
  <2>8. draft.lastPreset = db.lastPreset
    BY <1>1, <2>7 DEF Unsaved, Tables
  <2>9. draft' = [draft EXCEPT !.lastPreset = @ + 1, !.presets = @ \cup {NewPreset(c)}]
    BY <1>13, <2>8 DEF InsertPreset, NewPreset
  <2>10. draft' = Saved(c)
    BY <1>1, <2>7, <2>9 DEF Unsaved, Saved, Tables
  <2>11. DraftOf(c)'
    BY <2>1, <2>3, <2>5, <2>10 DEF DraftOf, Saved, NewPreset
  <2>. QED
    BY <2>1, <2>2, <2>3, <2>6, <2>11, WritingStep
<1>14. ASSUME NEW c \in Clients, NEW gone \in SUBSET db.presets, DeletePresets(c, gone)
       PROVE  ArgsInv' /\ DraftInv'
  <2>1. lock = None /\ client' = client /\ client[c].pc = "idle"
    BY <1>14 DEF DeletePresets, At
  <2>2. db'.encKey = db.encKey
    BY <1>1, <1>14 DEF DeletePresets, Tables
  <2>. QED
    BY <2>1, <2>2, NothingToKeep, WritingStep
<1>15. ASSUME NEW c \in Clients, Busy(c)
       PROVE  ArgsInv' /\ DraftInv'
  <2>1. Goto(c, "failed") /\ "failed" \in Pcs /\ UNCHANGED <<db, draft, lock>>
    BY <1>15 DEF Busy, Pcs
  <2>2. client'[c].pc = "failed" /\ \A d \in Clients \ {c} : client'[d] = client[d]
    BY <2>1, GotoEffect
  <2>. QED
    BY <2>1, <2>2, NothingToKeep, QuietStep
<1>16. ASSUME NEW c \in Clients, Crash(c)
       PROVE  ArgsInv' /\ DraftInv'
  <2>1. /\ client' = [client EXCEPT ![c] = IdleClient] /\ db' = db /\ draft' = draft
        /\ IdleClient.pc = "idle"
    BY <1>16 DEF Crash, IdleClient
  <2>2. client'[c] = IdleClient /\ \A d \in Clients \ {c} : client'[d] = client[d]
    BY <2>1, IdleType, ResetEffect
  <2>. QED
    BY <2>1, <2>2, NothingToKeep, QuietStep
<1>. QED
  BY <1>2, <1>3, <1>4, <1>5, <1>6, <1>7, <1>8, <1>10, <1>11, <1>12, <1>13, <1>14,
     <1>15, <1>16 DEF Next

-----------------------------------------------------------------------------
(* What is committed.                                                      *)

\* The rooms of a table to which a row was added and whose room was capped.
LEMMA RoomsOfCapped ==
    ASSUME NEW R, NEW r
    PROVE  /\ InRoom(Capped(R \cup {r}, r.room), r.room)
                = Newest(InRoom(R, r.room) \cup {r}, Limit)
           /\ \A q : q # r.room => InRoom(Capped(R \cup {r}, r.room), q) = InRoom(R, q)
<1>1. InRoom(R \cup {r}, r.room) = InRoom(R, r.room) \cup {r}
  BY DEF InRoom
<1>2. Newest(InRoom(R, r.room) \cup {r}, Limit) \subseteq InRoom(R, r.room) \cup {r}
  BY DEF Newest
<1>3. InRoom(Capped(R \cup {r}, r.room), r.room)
        = Newest(InRoom(R, r.room) \cup {r}, Limit)
  <2>1. \A x \in InRoom(R, r.room) \cup {r} : x.room = r.room /\ x \in R \cup {r}
    BY DEF InRoom
  <2>. DEFINE kept == Newest(InRoom(R, r.room) \cup {r}, Limit)
              own == InRoom(R, r.room) \cup {r}
  <2>2. \A x \in R \cup {r} : x.room = r.room => x \in own
    BY DEF InRoom
  <2>3. Capped(R \cup {r}, r.room) = ((R \cup {r}) \ own) \cup kept
    BY <1>1 DEF Capped
  <2>. HIDE DEF kept, own
  <2>4. kept \subseteq own /\ \A x \in own : x.room = r.room /\ x \in R \cup {r}
    BY <1>2, <2>1 DEF kept, own
  <2>. QED
    BY <2>2, <2>3, <2>4 DEF InRoom, kept
<1>4. ASSUME NEW q, q # r.room
      PROVE  InRoom(Capped(R \cup {r}, r.room), q) = InRoom(R, q)
  <2>. DEFINE kept == Newest(InRoom(R, r.room) \cup {r}, Limit)
              own == InRoom(R, r.room) \cup {r}
  <2>1. Capped(R \cup {r}, r.room) = ((R \cup {r}) \ own) \cup kept
    BY <1>1 DEF Capped
  <2>2. \A x : x \in own => x.room = r.room
    BY DEF InRoom
  <2>. HIDE DEF kept, own
  <2>3. kept \subseteq own
    BY <1>2 DEF kept, own
  <2>4. r \in own
    BY DEF own
  <2>. QED
    BY <1>4, <2>1, <2>2, <2>3, <2>4 DEF InRoom
<1>. QED
  BY <1>3, <1>4

\* The rows of one room, to which the one that is logged is added.
LEMMA LoggedRow ==
    ASSUME TypeOK, RowsInv, NEW c \in Clients
    PROVE  /\ Appends(NewRow(c), db.rows)
           /\ Keyed(InRoom(db.rows, client[c].room))
           /\ Appends(NewRow(c), InRoom(db.rows, client[c].room))
           /\ NewRow(c).room = client[c].room
<1>1. db.lastRow \in Nat /\ \A x \in db.rows : x.id \in Nat /\ x.id <= db.lastRow
  BY StorageAssumption DEF TypeOK, Tables, RowsInv, Keyed
<1>2. NewRow(c).id = db.lastRow + 1 /\ NewRow(c).room = client[c].room
  BY DEF NewRow
<1>3. Appends(NewRow(c), db.rows)
  BY <1>1, <1>2 DEF Appends
<1>4. InRoom(db.rows, client[c].room) \in SUBSET db.rows
  BY DEF InRoom
<1>. QED
  BY <1>2, <1>3, <1>4, KeyedSubset DEF RowsInv, Appends

\* The steps that change what is committed.
LEMMA CommittingSteps ==
    ASSUME TypeOK, [Next]_vars
    PROVE  \/ db' = db
           \/ \E c \in Clients : Commit(c)
           \/ \E k \in SecretKeys : db.encKey = None /\ db' = [db EXCEPT !.encKey = k]
           \/ /\ client' = client
              /\ \E gone \in SUBSET db.presets : db' = [db EXCEPT !.presets = @ \ gone]
BY DEF Next, vars, LogMessage, InsertRow, BeginWrite, PruneRows, SavePreset, LoadPresets,
       ReadKey, MakeKey, DeleteOld, InsertPreset, DeletePresets, Busy, Crash

\* Every step keeps the log within its cap and its ids in order.
LEMMA StepLog ==
    ASSUME TypeOK, ArgsInv, DraftInv, RowsInv, RoomLogBounded, [Next]_vars
    PROVE  RowsInv' /\ RoomLogBounded'
<1>1. db \in Tables /\ db.lastRow \in Nat
  BY StorageAssumption DEF TypeOK, Tables
<1>2. CASE db'.rows = db.rows /\ db'.lastRow = db.lastRow
  BY <1>2 DEF RowsInv, RoomLogBounded
<1>3. ASSUME NEW c \in Clients, Commit(c), client[c].name = None
      PROVE  RowsInv' /\ RoomLogBounded'
  <2>. DEFINE r == NewRow(c)
              own == InRoom(db.rows, r.room)
  <2>1. /\ db'.rows = Capped(db.rows \cup {r}, r.room)
        /\ db'.lastRow = db.lastRow + 1
    BY <1>3, CommitEffect, LoggedRow
  <2>2. /\ Appends(r, db.rows) /\ Appends(r, own) /\ Keyed(own) /\ Keyed(db.rows)
        /\ \A x \in db.rows : x.id <= db.lastRow
    BY LoggedRow DEF RowsInv
  <2>3. r.id = db.lastRow + 1
    BY DEF NewRow
  <2>. HIDE DEF r
  <2>4. db'.rows \subseteq db.rows \cup {r}
    BY <2>1 DEF Capped, InRoom, Newest
  <2>5. Keyed(db'.rows)
    BY <2>2, <2>4, AppendKeyed, KeyedSubset
  <2>6. \A x \in db'.rows : x.id <= db'.lastRow
    <3>1. ASSUME NEW x \in db.rows
          PROVE  x.id <= db.lastRow + 1
      <4>1. x.id \in Nat /\ x.id <= db.lastRow
        BY <2>2 DEF Keyed
      <4>. QED
        BY <1>1, <4>1
    <3>2. r.id <= db.lastRow + 1
      BY <1>1, <2>3
    <3>. QED
      BY <2>1, <2>4, <3>1, <3>2
  <2>7. Cardinality(InRoom(db'.rows, r.room)) <= Limit
    <3>1. InRoom(db'.rows, r.room) = Newest(own \cup {r}, Limit)
      BY <2>1, RoomsOfCapped
    <3>2. Keyed(own \cup {r})
      BY <2>2, AppendKeyed
    <3>3. Limit \in Nat
      BY StorageAssumption
    <3>. HIDE DEF own
    <3>4. Cardinality(Newest(own \cup {r}, Limit)) <= Limit
      BY <3>2, <3>3, NewestBound
    <3>. QED
      BY <3>1, <3>4
  <2>8. ASSUME NEW q \in Rooms
        PROVE  Cardinality(InRoom(db'.rows, q)) <= Limit
    <3>1. q # r.room => InRoom(Capped(db.rows \cup {r}, r.room), q) = InRoom(db.rows, q)
      BY RoomsOfCapped
    <3>2. Cardinality(InRoom(db.rows, q)) <= Limit
      BY DEF RoomLogBounded
    <3>3. CASE q = r.room
      BY <2>7, <3>3
    <3>4. CASE q # r.room
      BY <2>1, <3>1, <3>2, <3>4
    <3>. QED
      BY <3>3, <3>4
  <2>. QED
    BY <2>5, <2>6, <2>8 DEF RowsInv, RoomLogBounded
<1>4. ASSUME NEW c \in Clients, Commit(c), client[c].name # None
      PROVE  RowsInv' /\ RoomLogBounded'
  BY <1>2, <1>4, CommitEffect
<1>5. ASSUME NEW k \in SecretKeys, db' = [db EXCEPT !.encKey = k]
      PROVE  RowsInv' /\ RoomLogBounded'
  BY <1>1, <1>2, <1>5 DEF Tables
<1>6. ASSUME NEW gone \in SUBSET db.presets, db' = [db EXCEPT !.presets = @ \ gone]
      PROVE  RowsInv' /\ RoomLogBounded'
  BY <1>1, <1>2, <1>6 DEF Tables
<1>. QED
  BY <1>2, <1>3, <1>4, <1>5, <1>6, CommittingSteps

\* Every step leaves the stored passcodes readable.
LEMMA StepPasscodes ==
    ASSUME TypeOK, ArgsInv, DraftInv, PasscodesReadable, [Next]_vars
    PROVE  PasscodesReadable'
<1>1. db \in Tables
  BY DEF TypeOK
<1>2. CASE db'.presets \subseteq db.presets /\ db'.encKey = db.encKey
  BY <1>2 DEF PasscodesReadable
<1>3. ASSUME NEW c \in Clients, Commit(c), client[c].name # None
      PROVE  PasscodesReadable'
  <2>1. /\ db'.presets = Without(db.presets, client[c].name) \cup {NewPreset(c)}
        /\ db'.encKey = db.encKey /\ client[c].key = db.encKey
    BY <1>3, CommitEffect
  <2>2. NewPreset(c).sealedWith \in {None, db.encKey}
    BY <2>1 DEF NewPreset
  <2>. QED
    BY <2>1, <2>2 DEF PasscodesReadable, Without
<1>4. ASSUME NEW c \in Clients, Commit(c), client[c].name = None
      PROVE  PasscodesReadable'
  BY <1>2, <1>4, CommitEffect
<1>5. ASSUME NEW k \in SecretKeys, db.encKey = None, db' = [db EXCEPT !.encKey = k]
      PROVE  PasscodesReadable'
  <2>1. db'.presets = db.presets
    BY <1>1, <1>5 DEF Tables
  <2>. QED
    BY <1>5, <2>1 DEF PasscodesReadable
<1>6. ASSUME NEW gone \in SUBSET db.presets, db' = [db EXCEPT !.presets = @ \ gone]
      PROVE  PasscodesReadable'
  BY <1>1, <1>2, <1>6 DEF Tables
<1>. QED
  BY <1>2, <1>3, <1>4, <1>5, <1>6, CommittingSteps

\* Every step keeps the presets apart.
LEMMA StepPresets ==
    ASSUME TypeOK, ArgsInv, DraftInv, OnePresetPerName, [Next]_vars
    PROVE  OnePresetPerName'
<1>1. db \in Tables
  BY DEF TypeOK
<1>2. CASE db'.presets \subseteq db.presets
  BY <1>2 DEF OnePresetPerName
<1>3. ASSUME NEW c \in Clients, Commit(c), client[c].name # None
      PROVE  OnePresetPerName'
  <2>1. db'.presets = Without(db.presets, client[c].name) \cup {NewPreset(c)}
    BY <1>3, CommitEffect
  <2>2. NewPreset(c).name = client[c].name
    BY DEF NewPreset
  <2>. QED
    BY <2>1, <2>2 DEF OnePresetPerName, Without
<1>4. ASSUME NEW c \in Clients, Commit(c), client[c].name = None
      PROVE  OnePresetPerName'
  BY <1>2, <1>4, CommitEffect
<1>5. ASSUME NEW k \in SecretKeys, db' = [db EXCEPT !.encKey = k]
      PROVE  OnePresetPerName'
  BY <1>1, <1>2, <1>5 DEF Tables
<1>6. ASSUME NEW gone \in SUBSET db.presets, db' = [db EXCEPT !.presets = @ \ gone]
      PROVE  OnePresetPerName'
  BY <1>1, <1>2, <1>6 DEF Tables
<1>. QED
  BY <1>2, <1>3, <1>4, <1>5, <1>6, CommittingSteps

\* A step of a client, which is any step but the deletion of presets, leaves a
\* preset of every name there was.
LEMMA StepNames ==
    ASSUME TypeOK, ArgsInv, DraftInv, [Next]_vars, client' # client
    PROVE  {x.name : x \in db.presets} \subseteq {x.name : x \in db'.presets}
<1>1. db \in Tables
  BY DEF TypeOK
<1>2. ASSUME NEW c \in Clients, Commit(c), client[c].name # None
      PROVE  {x.name : x \in db.presets} \subseteq {x.name : x \in db'.presets}
  <2>1. db'.presets = Without(db.presets, client[c].name) \cup {NewPreset(c)}
    BY <1>2, CommitEffect
  <2>2. NewPreset(c).name = client[c].name /\ NewPreset(c) \in db'.presets
    BY <2>1 DEF NewPreset
  <2>3. ASSUME NEW x \in db.presets
        PROVE  \E y \in db'.presets : y.name = x.name
    BY <2>1, <2>2 DEF Without
  <2>. QED
    BY <2>3
<1>3. ASSUME NEW c \in Clients, Commit(c), client[c].name = None
      PROVE  db'.presets = db.presets
  BY <1>3, CommitEffect
<1>4. ASSUME NEW k \in SecretKeys, db' = [db EXCEPT !.encKey = k]
      PROVE  db'.presets = db.presets
  BY <1>1, <1>4 DEF Tables
<1>. QED
  BY <1>2, <1>3, <1>4, CommittingSteps

-----------------------------------------------------------------------------
(* The theorems.                                                           *)

\* The empty file satisfies the invariant.
LEMMA InitStorage == Init => StorageInv
<1>. SUFFICES ASSUME Init PROVE StorageInv
  OBVIOUS
<1>1. TypeOK
  BY InitType
<1>2. ArgsInv /\ DraftInv
  BY DEF Init, ArgsInv, ArgsOf, Logging, Saving, DraftInv, DraftOf, IdleClient
<1>3. db.rows = {} /\ db.presets = {}
  BY DEF Init, EmptyTables
<1>4. RowsInv /\ PasscodesReadable /\ OnePresetPerName
  BY <1>3, FS_EmptySet DEF RowsInv, Keyed, PasscodesReadable, OnePresetPerName
<1>5. RoomLogBounded
  <2>1. \A room \in Rooms : InRoom(db.rows, room) = {}
    BY <1>3 DEF InRoom
  <2>2. Cardinality({}) = 0 /\ 0 <= Limit
    BY FS_EmptySet, StorageAssumption
  <2>. QED
    BY <2>1, <2>2 DEF RoomLogBounded
<1>. QED
  BY <1>1, <1>2, <1>4, <1>5 DEF StorageInv

\* Every step keeps it.
LEMMA StepStorage == StorageInv /\ [Next]_vars => StorageInv'
BY StepType, StepDraft, StepLog, StepPasscodes, StepPresets DEF StorageInv

\* The invariant holds, whatever the clients, wherever they die.
THEOREM StorageHolds == Spec => []StorageInv
BY InitStorage, StepStorage, PTL DEF Spec

\* The tables, drafts and clients have their types: db.py never writes a row
\* or a preset with an argument that is missing.
THEOREM TypeCorrect == Spec => []TypeOK
<1>1. StorageInv => TypeOK
  BY DEF StorageInv
<1>. QED
  BY <1>1, StorageHolds, PTL

\* log_message never commits more than MSG_LOG_LIMIT messages of a room.
THEOREM LogBounded == Spec => []RoomLogBounded
<1>1. StorageInv => RoomLogBounded
  BY DEF StorageInv
<1>. QED
  BY <1>1, StorageHolds, PTL

\* _get_box never leaves a passcode that the stored key does not open, although
\* clients may find the key missing at the same time.
THEOREM PasscodesHold == Spec => []PasscodesReadable
<1>1. StorageInv => PasscodesReadable
  BY DEF StorageInv
<1>. QED
  BY <1>1, StorageHolds, PTL

\* save_room_preset never leaves two presets of one name.
THEOREM OnePresetHolds == Spec => []OnePresetPerName
<1>1. StorageInv => OnePresetPerName
  BY DEF StorageInv
<1>. QED
  BY <1>1, StorageHolds, PTL

\* save_room_preset never loses the preset it replaces.
THEOREM PresetKept == Spec => SavedPresetKept
<1>1. StorageInv /\ [Next]_vars =>
        [client' # client =>
            {x.name : x \in db.presets} \subseteq {x.name : x \in db'.presets}]_vars
  BY StepNames DEF StorageInv
<1>. QED
  BY <1>1, StorageHolds, PTL DEF Spec, SavedPresetKept

-----------------------------------------------------------------------------
(* The refinement of HistoryLog.                                           *)

\* A room within the cap is shown whole.
LEMMA ShownWhole ==
    ASSUME RowsInv, RoomLogBounded, NEW room \in Rooms
    PROVE  History(db.rows, room, Limit) = InOrder(InRoom(db.rows, room))
<1>1. Keyed(InRoom(db.rows, room))
  BY KeyedSubset DEF RowsInv, InRoom
<1>2. Newest(InRoom(db.rows, room), Limit) = InRoom(db.rows, room)
  BY <1>1, NewestAll, StorageAssumption DEF RoomLogBounded
<1>. QED
  BY <1>2 DEF History, InOrder

\* An empty file shows nothing of any room.
LEMMA InitPromise == Init => Promise!Init
<1>. SUFFICES ASSUME Init PROVE Promise!Init
  OBVIOUS
<1>1. db.rows = {} /\ db.lastRow = 0
  BY DEF Init, EmptyTables
<1>2. ASSUME NEW room \in Rooms
      PROVE  History(db.rows, room, Limit) = <<>>
  <2>1. Newest(InRoom(db.rows, room), Limit) = {}
    BY <1>1 DEF InRoom, Newest
  <2>2. Cardinality({}) = 0
    BY FS_EmptySet
  <2>. QED
    BY <2>1, <2>2 DEF History
<1>. QED
  BY <1>1, <1>2 DEF Promise!Init

\* The commit of log_message posts the message in its room ...
LEMMA CommitPosts ==
    ASSUME StorageInv, StorageInv', NEW c \in Clients, Commit(c), client[c].name = None
    PROVE  Promise!Post(client[c].room, client[c].body)
<1>. DEFINE r == NewRow(c)
            own == InRoom(db.rows, r.room)
<1>1. /\ db'.rows = Capped(db.rows \cup {r}, r.room)
      /\ db'.lastRow = db.lastRow + 1
      /\ r.room \in Rooms /\ r.room = client[c].room /\ r.body = client[c].body
  BY CommitEffect DEF StorageInv, NewRow
<1>2. Keyed(own) /\ Appends(r, own)
  BY LoggedRow DEF StorageInv, NewRow
<1>. HIDE DEF r
<1>3. Limit \in Nat \ {0} /\ Cardinality(own) <= Limit
  BY <1>1, StorageAssumption DEF StorageInv, RoomLogBounded
<1>4. History(db'.rows, r.room, Limit)
        = Promise!LastN(Append(History(db.rows, r.room, Limit), r.body), Limit)
  <2>1. History(db.rows, r.room, Limit) = InOrder(own)
    BY <1>1, ShownWhole DEF StorageInv
  <2>2. History(db'.rows, r.room, Limit) = InOrder(InRoom(db'.rows, r.room))
    <3>1. Keyed(InRoom(db'.rows, r.room))
      BY KeyedSubset DEF StorageInv, RowsInv, InRoom
    <3>2. Cardinality(InRoom(db'.rows, r.room)) <= Limit
      BY <1>1 DEF StorageInv, RoomLogBounded
    <3>3. Newest(InRoom(db'.rows, r.room), Limit) = InRoom(db'.rows, r.room)
      BY <1>3, <3>1, <3>2, NewestAll
    <3>. QED
      BY <3>3 DEF History, InOrder
  <2>3. InRoom(db'.rows, r.room) = Newest(own \cup {r}, Limit)
    BY <1>1, RoomsOfCapped
  <2>4. InOrder(Newest(own \cup {r}, Limit))
          = Promise!LastN(Append(InOrder(own), r.body), Limit)
    <3>. HIDE DEF own
    <3>. QED
      BY <1>2, <1>3, OrderOfCapped
  <2>. QED
    BY <2>1, <2>2, <2>3, <2>4
<1>5. ASSUME NEW q \in Rooms, q # r.room
      PROVE  History(db'.rows, q, Limit) = History(db.rows, q, Limit)
  <2>1. InRoom(Capped(db.rows \cup {r}, r.room), q) = InRoom(db.rows, q)
    BY <1>5, RoomsOfCapped
  <2>. QED
    BY <1>1, <2>1 DEF History
<1>6. [room \in Rooms |-> History(db'.rows, room, Limit)]
        = [[room \in Rooms |-> History(db.rows, room, Limit)] EXCEPT
             ![r.room] = Promise!LastN(Append(@, r.body), Limit)]
  BY <1>1, <1>4, <1>5
<1>. QED
  BY <1>1, <1>6 DEF Promise!Post

\* ... and no other step changes what is shown.
LEMMA StepPromise ==
    ASSUME StorageInv, StorageInv', [Next]_vars
    PROVE  [Promise!Next]_(Promise!vars)
<1>1. CASE db'.rows = db.rows /\ db'.lastRow = db.lastRow
  BY <1>1 DEF Promise!vars
<1>2. ASSUME NEW c \in Clients, Commit(c), client[c].name = None
      PROVE  Promise!Next
  <2>1. client[c].room \in Rooms /\ client[c].body \in Bodies
    BY <1>2, CommitEffect DEF StorageInv
  <2>. QED
    BY <1>2, <2>1, CommitPosts DEF Promise!Next
<1>3. ASSUME NEW c \in Clients, Commit(c), client[c].name # None
      PROVE  db'.rows = db.rows /\ db'.lastRow = db.lastRow
  BY <1>3, CommitEffect DEF StorageInv
<1>4. db \in Tables
  BY DEF StorageInv, TypeOK
<1>5. ASSUME NEW k \in SecretKeys, db' = [db EXCEPT !.encKey = k]
      PROVE  db'.rows = db.rows /\ db'.lastRow = db.lastRow
  BY <1>4, <1>5 DEF Tables
<1>6. ASSUME NEW gone \in SUBSET db.presets, db' = [db EXCEPT !.presets = @ \ gone]
      PROVE  db'.rows = db.rows /\ db'.lastRow = db.lastRow
  BY <1>4, <1>6 DEF Tables
<1>. QED
  BY <1>1, <1>2, <1>3, <1>5, <1>6, CommittingSteps DEF StorageInv

\* load_history shows the last MSG_LOG_LIMIT messages of the room in the order
\* of their commits, whoever logs at the same time and whatever client dies.
THEOREM HistoryKept == Spec => KeepsHistory
BY InitPromise, StepPromise, StorageHolds, PTL DEF Spec, KeepsHistory, Promise!Spec

=============================================================================
