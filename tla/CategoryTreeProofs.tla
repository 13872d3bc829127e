------------------------- MODULE CategoryTreeProofs -------------------------
(* Theorems about the places of categories: how low positions get, what the  *)
(* public tree shows, and that positions stand for lists.  First come lemmas *)
(* about counting and about lists in order, then what each write does to the *)
(* parent, position and deletion of every row, then the three theorems.      *)
EXTENDS CategoryProofs, SequenceTheorems

-----------------------------------------------------------------------------
(* Counting. *)

LEMMA LeastExists ==
  ASSUME NEW S \in SUBSET Nat, S # {}
  PROVE  \E m \in S : \A k \in S : m <= k
  <1>1. PICK top \in S : TRUE
    OBVIOUS
  <1> DEFINE F == {k \in (-top) .. 0 : -k \in S}
  <1>2. F \subseteq Int /\ IsFiniteSet(F)
    <2>1. IsFiniteSet((-top) .. 0)
      BY FS_Interval
    <2> QED BY <2>1, FS_Subset
  <1>3. -top \in F
    BY <1>1
  <1> HIDE DEF F
  <1>4. PICK x \in F : \A y \in F : x >= y
    BY <1>2, <1>3, GreatestExists
  <1>5. x \in Int /\ -x \in S /\ -x <= top
    BY <1>4 DEF F
  <1>6. ASSUME NEW k \in S PROVE -x <= k
    <2>1. CASE k > top
      BY <1>5, <2>1
    <2>2. CASE k <= top
      <3>1. -k \in F
        BY <2>2 DEF F
      <3> QED BY <1>4, <1>5, <3>1
    <2> QED BY <2>1, <2>2
  <1> QED BY <1>5, <1>6

LEMMA CountUp ==
  ASSUME NEW S, 0 \in S, \A k \in Nat : k \in S => k + 1 \in S
  PROVE  Nat \subseteq S
  <1>1. SUFFICES ASSUME Nat \ S # {} PROVE FALSE
    OBVIOUS
  <1>2. PICK m \in Nat \ S : \A k \in Nat \ S : m <= k
    BY <1>1, LeastExists
  <1>3. m # 0 /\ m - 1 \in Nat
    BY <1>2
  <1>4. m - 1 \in S
    BY <1>2, <1>3
  <1> QED BY <1>2, <1>3, <1>4

-----------------------------------------------------------------------------
(* The list of a set of rows: its members once each, by rising position.  A *)
(* set whose positions are numbers and differ has exactly one.              *)

\* s lists S in the order of the positions in rows.
Lists(s, S, rows) ==
  /\ s \in Seq(S)
  /\ \A x \in S : \E i \in 1 .. Len(s) : s[i] = x
  /\ \A i, j \in 1 .. Len(s) : i < j => rows[s[i]].position < rows[s[j]].position

\* The positions of the rows of S are numbers, no two the same.
Places(S, rows) ==
  /\ \A x \in S : rows[x].position \in Int
  /\ \A x, y \in S : rows[x].position = rows[y].position => x = y

LEMMA PrefixIs ==
  ASSUME NEW S, NEW s \in Seq(S), NEW k \in 1 .. Len(s) + 1
  PROVE  LET a == SubSeq(s, 1, k - 1) IN
         a \in Seq(S) /\ Len(a) = k - 1 /\ \A j \in 1 .. k - 1 : a[j] = s[j]
  <1> DEFINE a == SubSeq(s, 1, k - 1)
  <1>1. Len(s) \in Nat /\ \A j \in 1 .. Len(s) : s[j] \in S
    BY LenProperties, ElementOfSeq
  <1>2. \A j \in 1 .. k - 1 : s[j] \in S
    BY <1>1
  <1>3. 1 \in Int /\ k - 1 \in Int /\ (IF 1 <= k - 1 THEN (k - 1) - 1 + 1 ELSE 0) = k - 1
    BY <1>1
  <1>4. /\ a \in Seq(S) /\ Len(a) = IF 1 <= k - 1 THEN (k - 1) - 1 + 1 ELSE 0
        /\ \A j \in 1 .. (k - 1) - 1 + 1 : a[j] = s[1 + j - 1]
    BY <1>2, <1>3, SubSeqProperties
  <1> HIDE DEF a
  <1>5. a \in Seq(S) /\ Len(a) = k - 1 /\ \A j \in 1 .. k - 1 : a[j] = s[j]
    BY <1>1, <1>3, <1>4
  <1> QED BY <1>5 DEF a

LEMMA SuffixIs ==
  ASSUME NEW S, NEW s \in Seq(S), NEW k \in 1 .. Len(s) + 1
  PROVE  LET b == SubSeq(s, k, Len(s)) IN
         /\ b \in Seq(S) /\ Len(b) = Len(s) + 1 - k
         /\ \A j \in 1 .. Len(s) + 1 - k : b[j] = s[k + j - 1]
  <1> DEFINE b == SubSeq(s, k, Len(s))
  <1>1. Len(s) \in Nat /\ \A j \in 1 .. Len(s) : s[j] \in S
    BY LenProperties, ElementOfSeq
  <1>2. \A j \in k .. Len(s) : s[j] \in S
    BY <1>1
  <1>3. /\ k \in Int /\ Len(s) \in Int
        /\ (IF k <= Len(s) THEN Len(s) - k + 1 ELSE 0) = Len(s) + 1 - k
    BY <1>1
  <1>4. /\ b \in Seq(S) /\ Len(b) = IF k <= Len(s) THEN Len(s) - k + 1 ELSE 0
        /\ \A j \in 1 .. Len(s) - k + 1 : b[j] = s[k + j - 1]
    BY <1>2, <1>3, SubSeqProperties
  <1> HIDE DEF b
  <1>5. /\ b \in Seq(S) /\ Len(b) = Len(s) + 1 - k
        /\ \A j \in 1 .. Len(s) + 1 - k : b[j] = s[k + j - 1]
    BY <1>1, <1>3, <1>4
  <1> QED BY <1>5 DEF b

LEMMA RemoveAtIs ==
  ASSUME NEW S, NEW s \in Seq(S), NEW i \in 1 .. Len(s)
  PROVE  /\ RemoveAt(s, i) \in Seq(S) /\ Len(RemoveAt(s, i)) = Len(s) - 1
         /\ \A j \in 1 .. Len(s) - 1 : RemoveAt(s, i)[j] = IF j < i THEN s[j] ELSE s[j + 1]
  <1> DEFINE a == SubSeq(s, 1, i - 1)
             b == SubSeq(s, i + 1, Len(s))
  <1>1. Len(s) \in Nat /\ i \in 1 .. Len(s) + 1 /\ i + 1 \in 1 .. Len(s) + 1
    BY LenProperties
  <1>2. a \in Seq(S) /\ Len(a) = i - 1 /\ \A j \in 1 .. i - 1 : a[j] = s[j]
    BY <1>1, PrefixIs
  <1>3. /\ b \in Seq(S) /\ Len(b) = Len(s) + 1 - (i + 1)
        /\ \A j \in 1 .. Len(s) + 1 - (i + 1) : b[j] = s[(i + 1) + j - 1]
    BY <1>1, SuffixIs
  <1>4. RemoveAt(s, i) = a \o b
    BY DEF RemoveAt
  <1> HIDE DEF a, b
  <1>5. /\ a \o b \in Seq(S) /\ Len(a \o b) = Len(a) + Len(b)
        /\ \A j \in 1 .. Len(a) + Len(b) : (a \o b)[j] = IF j <= Len(a) THEN a[j] ELSE b[j - Len(a)]
    BY <1>2, <1>3, ConcatProperties
  <1>6. Len(a) + Len(b) = Len(s) - 1
    BY <1>1, <1>2, <1>3
  <1>7. ASSUME NEW j \in 1 .. Len(s) - 1
        PROVE  (a \o b)[j] = IF j < i THEN s[j] ELSE s[j + 1]
    <2>1. CASE j < i
      BY <1>1, <1>2, <1>5, <1>6, <2>1
    <2>2. CASE ~(j < i)
      <3>1. (a \o b)[j] = b[j - (i - 1)]
        BY <1>1, <1>2, <1>5, <1>6, <2>2
      <3>2. b[j - (i - 1)] = s[(i + 1) + (j - (i - 1)) - 1] /\ (i + 1) + (j - (i - 1)) - 1 = j + 1
        BY <1>1, <1>3, <2>2
      <3> QED BY <2>2, <3>1, <3>2
    <2> QED BY <2>1, <2>2
  <1> QED BY <1>4, <1>5, <1>6, <1>7

LEMMA AppendIs ==
  ASSUME NEW S, NEW s \in Seq(S), NEW x \in S
  PROVE  /\ Append(s, x) \in Seq(S) /\ Len(Append(s, x)) = Len(s) + 1
         /\ \A j \in 1 .. Len(s) + 1 : Append(s, x)[j] = IF j <= Len(s) THEN s[j] ELSE x
  OBVIOUS

LEMMA InsertAtIs ==
  ASSUME NEW S, NEW s \in Seq(S), NEW k \in 1 .. Len(s) + 1, NEW x \in S
  PROVE  /\ InsertAt(s, k, x) \in Seq(S) /\ Len(InsertAt(s, k, x)) = Len(s) + 1
         /\ \A j \in 1 .. Len(s) + 1 :
              InsertAt(s, k, x)[j] = IF j < k THEN s[j] ELSE IF j = k THEN x ELSE s[j - 1]
  <1> DEFINE a == SubSeq(s, 1, k - 1)
             b == SubSeq(s, k, Len(s))
             m == a \o <<x>>
  <1>1. Len(s) \in Nat
    BY LenProperties
  <1>2. a \in Seq(S) /\ Len(a) = k - 1 /\ \A j \in 1 .. k - 1 : a[j] = s[j]
    BY PrefixIs
  <1>3. /\ b \in Seq(S) /\ Len(b) = Len(s) + 1 - k
        /\ \A j \in 1 .. Len(s) + 1 - k : b[j] = s[k + j - 1]
    BY SuffixIs
  <1>4. InsertAt(s, k, x) = m \o b
    BY DEF InsertAt
  <1> HIDE DEF a, b
  <1>5. m = Append(a, x)
    BY <1>2
  <1> HIDE DEF m
  <1>6. /\ m \in Seq(S) /\ Len(m) = k
        /\ \A j \in 1 .. k : m[j] = IF j < k THEN s[j] ELSE x
    BY <1>1, <1>2, <1>5, AppendIs
  <1>7. /\ m \o b \in Seq(S) /\ Len(m \o b) = Len(m) + Len(b)
        /\ \A j \in 1 .. Len(m) + Len(b) : (m \o b)[j] = IF j <= Len(m) THEN m[j] ELSE b[j - Len(m)]
    BY <1>3, <1>6, ConcatProperties
  <1>8. Len(m) + Len(b) = Len(s) + 1
    BY <1>1, <1>3, <1>6
  <1>9. ASSUME NEW j \in 1 .. Len(s) + 1
        PROVE  (m \o b)[j] = IF j < k THEN s[j] ELSE IF j = k THEN x ELSE s[j - 1]
    <2>1. CASE j <= k
      BY <1>1, <1>6, <1>7, <1>8, <2>1
    <2>2. CASE ~(j <= k)
      <3>1. (m \o b)[j] = b[j - k]
        BY <1>1, <1>6, <1>7, <1>8, <2>2
      <3>2. b[j - k] = s[k + (j - k) - 1] /\ k + (j - k) - 1 = j - 1
        BY <1>1, <1>3, <2>2
      <3> QED BY <2>2, <3>1, <3>2
    <2> QED BY <2>1, <2>2
  <1> QED BY <1>4, <1>7, <1>8, <1>9

LEMMA ListIs ==
  ASSUME NEW S, NEW rows, Places(S, rows), NEW s, Lists(s, S, rows)
  PROVE  /\ s \in Seq(S) /\ Len(s) \in Nat /\ DOMAIN s = 1 .. Len(s)
         /\ \A i \in 1 .. Len(s) : s[i] \in S /\ rows[s[i]].position \in Int
  <1>1. /\ s \in Seq(S) /\ Len(s) \in Nat /\ DOMAIN s = 1 .. Len(s)
        /\ \A i \in 1 .. Len(s) : s[i] \in S
    BY LenProperties, ElementOfSeq DEF Lists
  <1> QED BY <1>1 DEF Places

LEMMA ListOnce ==
  ASSUME NEW S, NEW rows, Places(S, rows), NEW s, Lists(s, S, rows)
  PROVE  \A i, j \in 1 .. Len(s) : s[i] = s[j] => i = j
  <1> SUFFICES ASSUME NEW i \in 1 .. Len(s), NEW j \in 1 .. Len(s), s[i] = s[j] PROVE i = j
    OBVIOUS
  <1>1. Len(s) \in Nat /\ rows[s[i]].position \in Int /\ rows[s[j]].position \in Int
    BY ListIs
  <1>2. /\ i < j => rows[s[i]].position < rows[s[j]].position
        /\ j < i => rows[s[j]].position < rows[s[i]].position
    BY DEF Lists
  <1>3. i \in Nat /\ j \in Nat
    OBVIOUS
  <1> QED BY <1>1, <1>2, <1>3

\* Two lists of S go on alike after they begin alike.
LEMMA ListsGoOn ==
  ASSUME NEW S, NEW rows, Places(S, rows), NEW u, NEW v, Lists(u, S, rows), Lists(v, S, rows),
         NEW i \in 1 .. Len(u), \A j \in 1 .. Len(u) : j < i => j <= Len(v) /\ u[j] = v[j]
  PROVE  i <= Len(v) /\ u[i] = v[i]
  <1>1. /\ Len(u) \in Nat /\ Len(v) \in Nat
        /\ \A j \in 1 .. Len(u) : u[j] \in S /\ rows[u[j]].position \in Int
        /\ \A j \in 1 .. Len(v) : v[j] \in S /\ rows[v[j]].position \in Int
    BY ListIs
  <1>2. /\ \A x \in S : \E k \in 1 .. Len(u) : u[k] = x
        /\ \A j, k \in 1 .. Len(u) : j < k => rows[u[j]].position < rows[u[k]].position
        /\ \A j, k \in 1 .. Len(u) : u[j] = u[k] => j = k
    <2>1. \A j, k \in 1 .. Len(u) : u[j] = u[k] => j = k
      BY ListOnce
    <2> QED BY <2>1 DEF Lists
  <1>v. /\ \A x \in S : \E k \in 1 .. Len(v) : v[k] = x
        /\ \A j, k \in 1 .. Len(v) : j < k => rows[v[j]].position < rows[v[k]].position
        /\ \A j, k \in 1 .. Len(v) : v[j] = v[k] => j = k
    <2>1. \A j, k \in 1 .. Len(v) : v[j] = v[k] => j = k
      BY ListOnce
    <2> QED BY <2>1 DEF Lists
  <1>3. PICK k \in 1 .. Len(v) : v[k] = u[i]
    BY <1>1, <1>v
  <1>4. ~(k < i)
    <2>1. SUFFICES ASSUME k < i PROVE FALSE
      OBVIOUS
    <2>2. k \in 1 .. Len(u) /\ u[k] = v[k]
      BY <1>1, <2>1
    <2>3. k = i
      BY <1>2, <1>3, <2>2
    <2> QED BY <1>1, <2>1, <2>3
  <1>5. ~(k > i)
    <2>1. SUFFICES ASSUME k > i PROVE FALSE
      OBVIOUS
    <2>2. i \in 1 .. Len(v) /\ i < k
      BY <1>1, <2>1
    <2>3. rows[v[i]].position < rows[u[i]].position
      BY <1>3, <1>v, <2>2
    <2>4. PICK m \in 1 .. Len(u) : u[m] = v[i]
      BY <1>1, <1>2, <2>2
    <2>5. ~(m < i)
      <3>1. SUFFICES ASSUME m < i PROVE FALSE
        OBVIOUS
      <3>2. m \in 1 .. Len(v) /\ v[m] = v[i]
        BY <1>1, <2>4, <3>1
      <3>3. m = i
        BY <1>v, <2>2, <3>2
      <3> QED BY <1>1, <3>1, <3>3
    <2>6. m = i \/ rows[u[i]].position < rows[u[m]].position
      <3>1. m = i \/ i < m
        BY <1>1, <2>5
      <3> QED BY <1>2, <3>1
    <2> QED BY <1>1, <2>3, <2>4, <2>6
  <1> QED BY <1>1, <1>3, <1>4, <1>5

LEMMA ListBegins ==
  ASSUME NEW S, NEW rows, Places(S, rows), NEW u, NEW v, Lists(u, S, rows), Lists(v, S, rows)
  PROVE  \A i \in 1 .. Len(u) : i <= Len(v) /\ u[i] = v[i]
  <1> DEFINE Off == {i \in 1 .. Len(u) : ~(i <= Len(v) /\ u[i] = v[i])}
  <1>1. SUFFICES ASSUME Off # {} PROVE FALSE
    OBVIOUS
  <1>2. Off \in SUBSET Nat
    OBVIOUS
  <1>3. PICK i \in Off : \A j \in Off : i <= j
    <2> HIDE DEF Off
    <2> QED BY <1>1, <1>2, LeastExists
  <1>4. \A j \in 1 .. Len(u) : j < i => j <= Len(v) /\ u[j] = v[j]
    <2>1. ASSUME NEW j \in 1 .. Len(u), j < i PROVE j \notin Off
      <3> HIDE DEF Off
      <3>1. j \in Nat /\ i \in Nat
        BY <1>2
      <3> QED BY <1>3, <2>1, <3>1
    <2> QED BY <2>1
  <1>5. i \in 1 .. Len(u)
    OBVIOUS
  <1>6. i <= Len(v) /\ u[i] = v[i]
    <2> HIDE DEF Off
    <2> QED BY <1>4, <1>5, ListsGoOn
  <1> QED BY <1>6

\* A set has one list.
LEMMA OneList ==
  ASSUME NEW S, NEW rows, Places(S, rows), NEW s, NEW t, Lists(s, S, rows), Lists(t, S, rows)
  PROVE  s = t
  <1>1. s \in Seq(S) /\ Len(s) \in Nat /\ t \in Seq(S) /\ Len(t) \in Nat
    BY ListIs
  <1>2. \A i \in 1 .. Len(s) : i <= Len(t) /\ s[i] = t[i]
    BY ListBegins
  <1>3. \A i \in 1 .. Len(t) : i <= Len(s)
    BY ListBegins
  <1>4. Len(s) <= Len(t) /\ Len(t) <= Len(s)
    <2>1. Len(s) = 0 \/ Len(s) \in 1 .. Len(s)
      BY <1>1
    <2>2. Len(t) = 0 \/ Len(t) \in 1 .. Len(t)
      BY <1>1
    <2> QED BY <1>1, <1>2, <1>3, <2>1, <2>2
  <1> QED BY <1>1, <1>2, <1>4, SeqEqual

\* Positions that do not change the order do not change the list.
LEMMA SameList ==
  ASSUME NEW S, NEW rows, NEW new, NEW s, Lists(s, S, rows),
         \A x, y \in S : rows[x].position < rows[y].position => new[x].position < new[y].position
  PROVE  Lists(s, S, new)
  BY LenProperties, ElementOfSeq DEF Lists

LEMMA AppendLists ==
  ASSUME NEW S, NEW rows, NEW s, Lists(s, S, rows),
         NEW x, \A y \in S : rows[y].position < rows[x].position
  PROVE  Lists(Append(s, x), S \cup {x}, rows)
  <1> DEFINE T == S \cup {x}
             new == Append(s, x)
  <1>1. s \in Seq(T) /\ Len(s) \in Nat /\ \A j \in 1 .. Len(s) : s[j] \in S
    BY SeqMonotonic, LenProperties, ElementOfSeq DEF Lists
  <1>2. /\ new \in Seq(T) /\ Len(new) = Len(s) + 1
        /\ \A j \in 1 .. Len(s) + 1 : new[j] = IF j <= Len(s) THEN s[j] ELSE x
    BY <1>1, AppendIs
  <1> HIDE DEF new
  <1>3. ASSUME NEW y \in T PROVE \E i \in 1 .. Len(new) : new[i] = y
    <2>1. CASE y \in S
      <3>1. PICK i \in 1 .. Len(s) : s[i] = y
        BY <2>1 DEF Lists
      <3> QED BY <1>1, <1>2, <3>1
    <2>2. CASE y = x
      <3>1. Len(s) + 1 \in 1 .. Len(new) /\ new[Len(s) + 1] = x
        BY <1>1, <1>2
      <3> QED BY <2>2, <3>1
    <2> QED BY <2>1, <2>2
  <1>4. ASSUME NEW i \in 1 .. Len(new), NEW j \in 1 .. Len(new), i < j
        PROVE  rows[new[i]].position < rows[new[j]].position
    <2>1. i \in 1 .. Len(s) /\ new[i] = s[i]
      BY <1>1, <1>2, <1>4
    <2>2. CASE j <= Len(s)
      <3>1. j \in 1 .. Len(s) /\ new[j] = s[j]
        BY <1>1, <1>2, <2>2
      <3> QED BY <1>4, <2>1, <3>1 DEF Lists
    <2>3. CASE ~(j <= Len(s))
      BY <1>1, <1>2, <2>1, <2>3
    <2> QED BY <2>2, <2>3
  <1>5. Lists(new, T, rows)
    BY <1>2, <1>3, <1>4 DEF Lists
  <1> QED BY <1>5 DEF new

LEMMA RetypedSeq ==
  ASSUME NEW S, NEW T, NEW s \in Seq(S), \A i \in 1 .. Len(s) : s[i] \in T
  PROVE  s \in Seq(T)
  <1>1. Len(s) \in Nat /\ s \in [1 .. Len(s) -> S]
    BY LenProperties
  <1>2. s \in [1 .. Len(s) -> T]
    BY <1>1
  <1> QED BY <1>1, <1>2, SeqDef

LEMMA RemoveLists ==
  ASSUME NEW S, NEW rows, Places(S, rows), NEW s, Lists(s, S, rows), NEW i \in 1 .. Len(s)
  PROVE  Lists(RemoveAt(s, i), S \ {s[i]}, rows)
  <1> DEFINE T == S \ {s[i]}
             new == RemoveAt(s, i)
  <1>1. /\ s \in Seq(S) /\ Len(s) \in Nat
        /\ \A j \in 1 .. Len(s) : s[j] \in S
    BY ListIs
  <1>2. \A j, k \in 1 .. Len(s) : s[j] = s[k] => j = k
    BY ListOnce
  <1>3. /\ new \in Seq(S) /\ Len(new) = Len(s) - 1
        /\ \A j \in 1 .. Len(s) - 1 : new[j] = IF j < i THEN s[j] ELSE s[j + 1]
    BY <1>1, RemoveAtIs
  <1> HIDE DEF new
  <1> DEFINE old(j) == IF j < i THEN j ELSE j + 1
  <1>4. \A j \in 1 .. Len(new) : new[j] = s[old(j)] /\ old(j) \in 1 .. Len(s) /\ old(j) # i
    BY <1>1, <1>3
  <1>5. \A j, k \in 1 .. Len(new) : j < k => old(j) < old(k)
    BY <1>1, <1>3
  <1>6. \A k \in 1 .. Len(s) : k # i => \E j \in 1 .. Len(new) : old(j) = k
    <2>1. ASSUME NEW k \in 1 .. Len(s), k # i PROVE \E j \in 1 .. Len(new) : old(j) = k
      <3>1. CASE k < i
        <4>1. k \in 1 .. Len(new) /\ old(k) = k
          BY <1>1, <1>3, <3>1
        <4> QED BY <4>1
      <3>2. CASE k > i
        <4>1. k - 1 \in 1 .. Len(new) /\ old(k - 1) = k
          BY <1>1, <1>3, <3>2
        <4> QED BY <4>1
      <3> QED BY <2>1, <3>1, <3>2
    <2> QED BY <2>1
  <1> HIDE DEF old
  <1>7. new \in Seq(T)
    <2>1. \A j \in 1 .. Len(new) : new[j] \in T
      BY <1>1, <1>2, <1>4
    <2> QED BY <1>3, <2>1, RetypedSeq
  <1>8. ASSUME NEW x \in T PROVE \E j \in 1 .. Len(new) : new[j] = x
    <2>1. PICK k \in 1 .. Len(s) : s[k] = x
      BY DEF Lists
    <2>2. PICK j \in 1 .. Len(new) : old(j) = k
      BY <1>6, <2>1
    <2> QED BY <1>4, <2>1, <2>2
  <1>9. ASSUME NEW j \in 1 .. Len(new), NEW k \in 1 .. Len(new), j < k
        PROVE  rows[new[j]].position < rows[new[k]].position
    <2>1. rows[s[old(j)]].position < rows[s[old(k)]].position
      BY <1>4, <1>5, <1>9 DEF Lists
    <2> QED BY <1>4, <2>1
  <1>10. Lists(new, T, rows)
    BY <1>7, <1>8, <1>9 DEF Lists
  <1> QED BY <1>10 DEF new

\* Where x belongs in a list.
LEMMA GapExists ==
  ASSUME NEW S, NEW rows, Places(S, rows), NEW s, Lists(s, S, rows),
         NEW x, rows[x].position \in Int,
         \A y \in S : rows[y].position # rows[x].position
  PROVE  \E k \in 1 .. Len(s) + 1 : \A j \in 1 .. Len(s) :
           IF j < k THEN rows[s[j]].position < rows[x].position
                    ELSE rows[x].position < rows[s[j]].position
  <1> DEFINE before == {j \in 1 .. Len(s) : rows[s[j]].position < rows[x].position}
  <1>1. /\ Len(s) \in Nat
        /\ \A j \in 1 .. Len(s) : /\ s[j] \in S /\ rows[s[j]].position \in Int
                                  /\ rows[s[j]].position # rows[x].position
    BY ListIs
  <1>2. \A i, j \in 1 .. Len(s) : i < j => rows[s[i]].position < rows[s[j]].position
    BY DEF Lists
  <1>3. CASE before = {}
    <2>1. \A j \in 1 .. Len(s) : rows[x].position < rows[s[j]].position /\ ~(j < 1)
      BY <1>1, <1>3
    <2>2. 1 \in 1 .. Len(s) + 1
      BY <1>1
    <2> QED BY <2>1, <2>2
  <1>4. CASE before # {}
    <2>1. before \in SUBSET Int /\ IsFiniteSet(before)
      <3>1. IsFiniteSet(1 .. Len(s)) /\ before \in SUBSET (1 .. Len(s))
        BY <1>1, FS_Interval
      <3> QED BY <3>1, FS_Subset
    <2>2. PICK i \in before : \A j \in before : i >= j
      <3> HIDE DEF before
      <3> QED BY <1>4, <2>1, GreatestExists
    <2>3. i \in 1 .. Len(s) /\ rows[s[i]].position < rows[x].position
      BY <2>2
    <2>4. i + 1 \in 1 .. Len(s) + 1
      BY <1>1, <2>3
    <2>5. ASSUME NEW j \in 1 .. Len(s)
          PROVE  IF j < i + 1 THEN rows[s[j]].position < rows[x].position
                              ELSE rows[x].position < rows[s[j]].position
      <3>1. CASE j = i
        BY <1>1, <2>3, <3>1
      <3>2. CASE j < i
        <4>1. rows[s[j]].position < rows[s[i]].position
          BY <1>2, <2>3, <3>2
        <4>2. rows[s[j]].position < rows[x].position /\ j < i + 1
          BY <1>1, <2>3, <3>2, <4>1
        <4> QED BY <4>2
      <3>3. CASE i < j
        <4>1. j \notin before
          BY <2>2, <2>3, <3>3
        <4>2. rows[x].position < rows[s[j]].position /\ ~(j < i + 1)
          BY <1>1, <2>3, <3>3, <4>1
        <4> QED BY <4>2
      <3> QED BY <2>3, <3>1, <3>2, <3>3
    <2> QED BY <2>4, <2>5
  <1> QED BY <1>3, <1>4

LEMMA InsertLists ==
  ASSUME NEW S, NEW rows, Places(S, rows), NEW s, Lists(s, S, rows),
         NEW x, rows[x].position \in Int,
         \A y \in S : rows[y].position # rows[x].position
  PROVE  \E k \in 1 .. Len(s) + 1 : Lists(InsertAt(s, k, x), S \cup {x}, rows)
  <1>1. PICK k \in 1 .. Len(s) + 1 : \A j \in 1 .. Len(s) :
          IF j < k THEN rows[s[j]].position < rows[x].position
                   ELSE rows[x].position < rows[s[j]].position
    BY GapExists
  <1> DEFINE T == S \cup {x}
             new == InsertAt(s, k, x)
  <1>2. s \in Seq(T) /\ Len(s) \in Nat /\ \A j \in 1 .. Len(s) : s[j] \in S
    BY ListIs, SeqMonotonic
  <1>3. /\ new \in Seq(T) /\ Len(new) = Len(s) + 1
        /\ \A j \in 1 .. Len(s) + 1 : new[j] = IF j < k THEN s[j] ELSE IF j = k THEN x ELSE s[j - 1]
    BY <1>2, InsertAtIs
  <1> HIDE DEF new
  <1>4. ASSUME NEW y \in T PROVE \E j \in 1 .. Len(new) : new[j] = y
    <2>1. CASE y = x
      <3>1. k \in 1 .. Len(new) /\ new[k] = x
        BY <1>2, <1>3
      <3> QED BY <2>1, <3>1
    <2>2. CASE y \in S
      <3>1. PICK i \in 1 .. Len(s) : s[i] = y
        BY <2>2 DEF Lists
      <3>2. CASE i < k
        <4>1. i \in 1 .. Len(new) /\ new[i] = y
          BY <1>2, <1>3, <3>1, <3>2
        <4> QED BY <4>1
      <3>3. CASE ~(i < k)
        <4>1. i + 1 \in 1 .. Len(new) /\ new[i + 1] = y
          <5>1. i + 1 \in 1 .. Len(s) + 1 /\ ~(i + 1 < k) /\ i + 1 # k /\ (i + 1) - 1 = i
            BY <1>2, <3>3
          <5> QED BY <1>3, <3>1, <5>1
        <4> QED BY <4>1
      <3> QED BY <3>2, <3>3
    <2> QED BY <2>1, <2>2
  <1>5. ASSUME NEW i \in 1 .. Len(new), NEW j \in 1 .. Len(new), i < j
        PROVE  rows[new[i]].position < rows[new[j]].position
    <2>0. i \in Nat /\ j \in Nat /\ k \in Nat /\ i <= Len(s) + 1 /\ j <= Len(s) + 1 /\ 1 <= i
      BY <1>2, <1>3
    <2>1. CASE j < k
      <3>1. /\ new[i] = s[i] /\ new[j] = s[j] /\ i \in 1 .. Len(s) /\ j \in 1 .. Len(s)
        BY <1>2, <1>3, <1>5, <2>0, <2>1
      <3> QED BY <1>5, <3>1 DEF Lists
    <2>2. CASE j = k
      <3>1. new[i] = s[i] /\ new[j] = x /\ i \in 1 .. Len(s) /\ i < k
        BY <1>2, <1>3, <1>5, <2>0, <2>2
      <3> QED BY <1>1, <3>1
    <2>3. CASE k < j /\ i < k
      <3>1. /\ new[i] = s[i] /\ new[j] = s[j - 1] /\ i < j - 1
            /\ i \in 1 .. Len(s) /\ j - 1 \in 1 .. Len(s)
        BY <1>2, <1>3, <1>5, <2>0, <2>3
      <3> QED BY <3>1 DEF Lists
    <2>4. CASE k < j /\ i = k
      <3>1. new[i] = x /\ new[j] = s[j - 1] /\ j - 1 \in 1 .. Len(s) /\ ~(j - 1 < k)
        BY <1>2, <1>3, <1>5, <2>0, <2>4
      <3> QED BY <1>1, <3>1
    <2>5. CASE k < i
      <3>1. /\ new[i] = s[i - 1] /\ new[j] = s[j - 1] /\ i - 1 < j - 1
            /\ i - 1 \in 1 .. Len(s) /\ j - 1 \in 1 .. Len(s)
        BY <1>2, <1>3, <1>5, <2>0, <2>5
      <3> QED BY <3>1 DEF Lists
    <2> QED BY <1>5, <2>0, <2>1, <2>2, <2>3, <2>4, <2>5
  <1>6. Lists(new, T, rows)
    BY <1>3, <1>4, <1>5 DEF Lists
  <1> QED BY <1>6 DEF new

LEMMA ListExists ==
  ASSUME NEW S, IsFiniteSet(S), NEW rows, Places(S, rows)
  PROVE  \E s : Lists(s, S, rows)
  <1> DEFINE Sizes == {n \in Nat : \A T \in SUBSET S :
                         Cardinality(T) = n => \E s : Lists(s, T, rows)}
  <1>1. \A T \in SUBSET S : IsFiniteSet(T) /\ Cardinality(T) \in Nat /\ Places(T, rows)
    BY FS_Subset, FS_CardinalityType DEF Places
  <1>2. 0 \in Sizes
    <2>1. Lists(<<>>, {}, rows)
      BY DEF Lists
    <2>2. \A T \in SUBSET S : Cardinality(T) = 0 => T = {}
      BY <1>1, FS_EmptySet
    <2> QED BY <2>1, <2>2
  <1>3. ASSUME NEW n \in Nat, n \in Sizes PROVE n + 1 \in Sizes
    <2> SUFFICES ASSUME NEW T \in SUBSET S, Cardinality(T) = n + 1 PROVE \E s : Lists(s, T, rows)
      OBVIOUS
    <2> DEFINE used == {rows[x].position : x \in T}
    <2>1. T # {}
      BY <1>3, FS_EmptySet
    <2>2. used \in SUBSET Int /\ used # {}
      BY <1>1, <2>1 DEF Places
    <2>3. IsFiniteSet(used)
      <3> DEFINE f == [x \in T |-> rows[x].position]
      <3>1. f \in Surjection(T, used)
        BY DEF Surjection
      <3> QED BY <1>1, <3>1, FS_Surjection
    <2>4. PICK top \in used : \A y \in used : top >= y
      <3> HIDE DEF used
      <3> QED BY <2>2, <2>3, GreatestExists
    <2>5. PICK x \in T : rows[x].position = top
      BY <2>4
    <2>6. /\ T \ {x} \in SUBSET S /\ (T \ {x}) \cup {x} = T
          /\ \A y \in T \ {x} : rows[y].position < rows[x].position
      <3>1. ASSUME NEW y \in T \ {x} PROVE rows[y].position < rows[x].position
        <4>1. /\ rows[y].position \in Int /\ rows[x].position \in Int
              /\ rows[y].position # rows[x].position
          BY <1>1, <2>5 DEF Places
        <4>2. rows[x].position >= rows[y].position
          BY <2>4, <2>5
        <4> QED BY <4>1, <4>2
      <3> QED BY <3>1
    <2>7. Cardinality(T \ {x}) = n
      <3>1. IsFiniteSet(T) /\ Cardinality(T) = n + 1 /\ n \in Nat
        BY <1>1
      <3>2. Cardinality(T \ {x}) = Cardinality(T) - 1
        BY <3>1, FS_RemoveElement
      <3> QED BY <3>1, <3>2
    <2>8. PICK s : Lists(s, T \ {x}, rows)
      BY <1>3, <2>6, <2>7
    <2> QED BY <2>6, <2>8, AppendLists
  <1> HIDE DEF Sizes
  <1>4. Cardinality(S) \in Sizes
    BY <1>1, <1>2, <1>3, CountUp
  <1> QED BY <1>4 DEF Sizes

\* The sequence CHOOSE takes to put S in order is its list.
InOrderOf(S, rows) ==
  CHOOSE s \in SetToSeqs(S) :
    \A i, j \in DOMAIN s : i < j => rows[s[i]].position <= rows[s[j]].position

LEMMA OrderIsList ==
  ASSUME NEW S, IsFiniteSet(S), NEW rows, Places(S, rows)
  PROVE  Lists(InOrderOf(S, rows), S, rows)
  <1> DEFINE n == Cardinality(S)
             Sorted(s) == \A i, j \in DOMAIN s : i < j => rows[s[i]].position <= rows[s[j]].position
  <1>1. n \in Nat
    BY FS_CardinalityType
  <1>2. ASSUME NEW s, Lists(s, S, rows) PROVE s \in SetToSeqs(S) /\ Sorted(s)
    <2>1. /\ s \in [1 .. Len(s) -> S] /\ Len(s) \in Nat /\ DOMAIN s = 1 .. Len(s)
          /\ \A i \in 1 .. Len(s) : s[i] \in S /\ rows[s[i]].position \in Int
      BY <1>2, ListIs, LenProperties
    <2>2. \A i, j \in 1 .. Len(s) : s[i] = s[j] => i = j
      BY <1>2, ListOnce
    <2>3. s \in Bijection(1 .. Len(s), S)
      <3>1. \A x \in S : \E i \in 1 .. Len(s) : s[i] = x
        BY <1>2 DEF Lists
      <3> QED BY <2>1, <2>2, <3>1 DEF Bijection, Injection, Surjection, IsInjective
    <2>4. Len(s) = n
      BY <2>1, <2>3, FS_CountingElements DEF ExistsBijection
    <2>5. s \in SetToSeqs(S)
      BY <2>1, <2>2, <2>4 DEF SetToSeqs
    <2>6. Sorted(s)
      <3>1. \A i, j \in 1 .. Len(s) : i < j => rows[s[i]].position < rows[s[j]].position
        BY <1>2 DEF Lists
      <3> QED BY <2>1, <3>1
    <2> QED BY <2>5, <2>6
  <1>3. ASSUME NEW s \in SetToSeqs(S), Sorted(s) PROVE Lists(s, S, rows)
    <2>1. s \in [1 .. n -> S] /\ \A i, j \in 1 .. n : i # j => s[i] # s[j]
      BY DEF SetToSeqs
    <2>2. s \in Seq(S) /\ Len(s) = n /\ DOMAIN s = 1 .. n
      <3>1. s \in Seq(S)
        BY <1>1, <2>1, SeqDef
      <3>2. DOMAIN s = 1 .. Len(s) /\ DOMAIN s = 1 .. n
        BY <2>1, <3>1, LenProperties
      <3>3. Len(s) \in Nat
        BY <3>1, LenProperties
      <3> HIDE DEF n
      <3>4. \A i \in Nat : i \in 1 .. Len(s) <=> i \in 1 .. n
        BY <3>2
      <3>5. (Len(s) = 0 \/ Len(s) \in 1 .. Len(s)) /\ (n = 0 \/ n \in 1 .. n)
        BY <1>1, <3>3
      <3>6. Len(s) <= n /\ n <= Len(s)
        BY <1>1, <3>3, <3>4, <3>5
      <3>7. Len(s) = n
        BY <1>1, <3>3, <3>6
      <3> QED BY <3>1, <3>2, <3>7
    <2>3. s \in Injection(1 .. n, S)
      BY <2>1 DEF Injection, IsInjective
    <2>4. IsFiniteSet(1 .. n) /\ Cardinality(1 .. n) = n
      <3> HIDE DEF n
      <3> QED BY <1>1, FS_Interval
    <2>5. s \in Surjection(1 .. n, S)
      BY <2>3, <2>4, FS_Injection
    <2>6. \A x \in S : \E i \in 1 .. n : s[i] = x
      BY <2>5 DEF Surjection
    <2>7. ASSUME NEW i \in 1 .. n, NEW j \in 1 .. n, i < j
          PROVE  rows[s[i]].position < rows[s[j]].position
      <3>1. s[i] \in S /\ s[j] \in S /\ s[i] # s[j]
        BY <1>1, <2>1, <2>7
      <3>2. /\ rows[s[i]].position \in Int /\ rows[s[j]].position \in Int
            /\ rows[s[i]].position # rows[s[j]].position
        BY <3>1 DEF Places
      <3>3. rows[s[i]].position <= rows[s[j]].position
        BY <1>3, <2>2, <2>7
      <3> QED BY <3>2, <3>3
    <2> HIDE DEF n
    <2> QED BY <2>2, <2>6, <2>7 DEF Lists
  <1>4. \E s \in SetToSeqs(S) : Sorted(s)
    BY <1>2, ListExists
  <1>5. InOrderOf(S, rows) = CHOOSE s \in SetToSeqs(S) : Sorted(s)
    BY DEF InOrderOf
  <1> HIDE DEF Sorted
  <1>6. InOrderOf(S, rows) \in SetToSeqs(S) /\ Sorted(InOrderOf(S, rows))
    BY <1>4, <1>5
  <1> QED BY <1>3, <1>6

-----------------------------------------------------------------------------
(* The writes.  A step that changes the table is one of four. *)

USE ConstantsAssumption, NoneIsNoRow

Creates(r, c) ==
  /\ req[r].op = "create" /\ req[r].pc = "write" /\ ~Exists(c)
  /\ cat' = [cat EXCEPT ![c] = NewRow(req[r])]
Updates(r) ==
  /\ req[r].op \in {"update", "reorder"} /\ req[r].pc = "write"
  /\ cat' = UpdatedTable(req[r])
Switches(r) ==
  /\ req[r].op = "activate"
  /\ cat' = [cat EXCEPT ![req[r].id].active = ~@]
Gone(row) == [row EXCEPT !.deleted = TRUE, !.position = -1, !.slug = None, !.name = None]
Deletes(r) ==
  LET matched == MatchedByDelete(req[r].id) IN
  /\ req[r].op = "delete" /\ req[r].pc = "write" /\ ~(Cardinality(matched) > 1)
  /\ cat' = [c \in CategoryIds |-> IF c \notin matched THEN cat[c] ELSE Gone(cat[c])]

Writes(r) == (\E c \in CategoryIds : Creates(r, c)) \/ Updates(r) \/ Switches(r) \/ Deletes(r)

LEMMA HandlerWrites ==
  ASSUME NEW r \in Requests, HandlerStep(r)
  PROVE  UNCHANGED cat \/ Writes(r)
  <1>1. ASSUME NEW c \in CategoryIds, WriteCreate(r, c) PROVE UNCHANGED cat \/ Creates(r, c)
    BY <1>1 DEF WriteCreate, Commit, Creates
  <1>2. WriteUpdate(r) => UNCHANGED cat \/ Updates(r)
    BY DEF WriteUpdate, Commit, Updates
  <1>3. WriteActive(r) => UNCHANGED cat \/ Switches(r)
    BY DEF WriteActive, Commit, Switches
  <1>4. WriteDelete(r) => UNCHANGED cat \/ Deletes(r)
    BY DEF WriteDelete, Commit, Deletes, Gone
  <1>5. CreatePosition(r) \/ CheckRange(r) \/ DelTree(r) \/ DelSelect(r) \/ Abort(r)
          => UNCHANGED cat
    BY DEF CreatePosition, CheckRange, DelTree, DelSelect, Abort
  <1> QED BY <1>1, <1>2, <1>3, <1>4, <1>5 DEF HandlerStep, Writes

LEMMA ArriveWrites ==
  ASSUME NEW r \in Requests, Arrive(r)
  PROVE  UNCHANGED cat
  BY DEF Arrive, CreateFind, UpdateFind, ReorderFind, SetActiveFind, DeleteFind, Start

LEMMA StepWrites ==
  ASSUME [Next]_vars
  PROVE  UNCHANGED cat \/ \E r \in Requests : HandlerStep(r) /\ Writes(r)
  BY HandlerWrites, ArriveWrites DEF Next, vars

-----------------------------------------------------------------------------
(* What each write does to parents, positions and deletion. *)

LEMMA RowTyped ==
  ASSUME TypeOK, NEW c \in CategoryIds, Exists(c)
  PROVE  /\ cat[c] \in Row /\ cat[c].position \in Int
         /\ cat[c].deleted \in BOOLEAN /\ cat[c].active \in BOOLEAN
         /\ cat[c].parent \in CategoryIds \cup {None}
  BY DEF TypeOK, Exists, Row

LEMMA CreatedRows ==
  ASSUME IInv, NEW r \in Requests, NEW c \in CategoryIds, Creates(r, c)
  PROVE  LET q == req[r] IN
         /\ Exists(c)' /\ IsLive(c)' /\ q \in Handler /\ q.name \in Names
         /\ cat'[c].parent = q.parent /\ cat'[c].position = q.position
         /\ q.parent # None => q.parent \in CategoryIds /\ Exists(q.parent)
         /\ \A d \in CategoryIds : d # c => cat'[d] = cat[d]
  <1>1. /\ req[r] \in Handler /\ req[r].name \in Names
        /\ req[r].parent # None => req[r].parent \in CategoryIds /\ Exists(req[r].parent)
    BY DEF IInv, TypeOK, HandlerNamed, Creates, Handler
  <1>2. NewRow(req[r]) \in Row
    BY <1>1, NewRowTyped
  <1>3. cat'[c] = NewRow(req[r]) /\ \A d \in CategoryIds : d # c => cat'[d] = cat[d]
    BY DEF Creates, IInv, TypeOK
  <1>4. cat'[c] # None
    BY <1>2, <1>3
  <1> QED BY <1>1, <1>3, <1>4 DEF NewRow, Exists, IsLive

\* Where an update or reorder puts c.
Moves(q, c) == q.position # 0 /\ cat[c].parent = q.parent
Place(q, c) == IF c = q.id THEN IF q.position = 0 THEN cat[c].position ELSE q.position
               ELSE IF Moves(q, c) THEN Shifted(q, cat[c].position) ELSE cat[c].position

LEMMA UpdatedRows ==
  ASSUME IInv, NEW r \in Requests, Updates(r), NEW c \in CategoryIds
  PROVE  /\ ~Exists(c) => cat'[c] = None
         /\ Exists(c) => /\ Exists(c)' /\ cat'[c].deleted = cat[c].deleted
                         /\ cat'[c].parent = cat[c].parent /\ cat'[c].position = Place(req[r], c)
  <1> DEFINE q == req[r]
  <1>1. q \in Handler /\ cat'[c] = UpdatedTable(q)[c]
    BY DEF IInv, TypeOK, Updates
  <1> HIDE DEF q
  <1>2. ASSUME ~Exists(c) PROVE cat'[c] = None
    BY <1>1, <1>2 DEF UpdatedTable
  <1>3. ASSUME Exists(c)
        PROVE  /\ Exists(c)' /\ cat'[c].deleted = cat[c].deleted
               /\ cat'[c].parent = cat[c].parent /\ cat'[c].position = Place(q, c)
    <2>1. cat[c] \in Row /\ cat[c].position \in Int
      BY <1>3, RowTyped DEF IInv
    <2>2. CASE c = q.id
      <3>1. cat'[c] = Updated(q, cat[c]) /\ Updated(q, cat[c]) \in Row
        BY <1>1, <1>3, <2>1, <2>2, UpdatedTyped DEF UpdatedTable
      <3>2. /\ Updated(q, cat[c]).deleted = cat[c].deleted
            /\ Updated(q, cat[c]).parent = cat[c].parent
            /\ Updated(q, cat[c]).position = IF q.position = 0 THEN cat[c].position ELSE q.position
        BY <2>1 DEF Updated, Row
      <3> QED BY <2>2, <3>1, <3>2 DEF Place, Exists
    <2>3. CASE c # q.id /\ Moves(q, c)
      <3> DEFINE row == [cat[c] EXCEPT !.position = Shifted(q, @)]
      <3>1. cat'[c] = row
        BY <1>1, <1>3, <2>3 DEF UpdatedTable, Moves
      <3>2. row \in Row
        BY <1>1, <2>1, ShiftedTyped, PlacedTyped
      <3>3. /\ row.deleted = cat[c].deleted /\ row.parent = cat[c].parent
            /\ row.position = Shifted(q, cat[c].position)
        BY <2>1 DEF Row
      <3> HIDE DEF row
      <3> QED BY <2>3, <3>1, <3>2, <3>3 DEF Place, Exists
    <2>4. CASE c # q.id /\ ~Moves(q, c)
      <3>1. cat'[c] = cat[c]
        BY <1>1, <1>3, <2>4 DEF UpdatedTable, Moves
      <3> QED BY <1>3, <2>4, <3>1 DEF Place, Exists
    <2> QED BY <2>2, <2>3, <2>4
  <1> QED BY <1>2, <1>3 DEF q

LEMMA SwitchedRows ==
  ASSUME IInv, NEW r \in Requests, Switches(r), NEW c \in CategoryIds
  PROVE  /\ ~Exists(c) => cat'[c] = None
         /\ Exists(c) => /\ Exists(c)' /\ cat'[c].deleted = cat[c].deleted
                         /\ cat'[c].parent = cat[c].parent /\ cat'[c].position = cat[c].position
  <1> DEFINE i == req[r].id
             row == [cat[i] EXCEPT !.active = ~@]
  <1>1. i \in CategoryIds /\ Exists(i)
    BY DEF IInv, HandlerNamed, Switches
  <1>2. cat[i] \in Row
    BY <1>1, RowTyped DEF IInv
  <1>3. /\ row \in Row /\ row.deleted = cat[i].deleted /\ row.parent = cat[i].parent
        /\ row.position = cat[i].position
    BY <1>2, SwitchedTyped DEF Row
  <1>4. cat'[c] = IF c = i THEN row ELSE cat[c]
    BY <1>1 DEF Switches, IInv, TypeOK
  <1> HIDE DEF i, row
  <1> QED BY <1>1, <1>3, <1>4 DEF Exists

LEMMA DeletedRows ==
  ASSUME IInv, NEW r \in Requests, Deletes(r), NEW c \in CategoryIds
  PROVE  /\ c \notin MatchedByDelete(req[r].id) => cat'[c] = cat[c]
         /\ c \in MatchedByDelete(req[r].id) =>
              /\ IsLive(c) /\ Exists(c)' /\ cat'[c].deleted
              /\ cat'[c].parent = cat[c].parent /\ cat'[c].position = -1
  <1>1. cat'[c] = IF c \notin MatchedByDelete(req[r].id) THEN cat[c] ELSE Gone(cat[c])
    BY DEF Deletes
  <1>2. ASSUME c \in MatchedByDelete(req[r].id)
        PROVE  IsLive(c) /\ cat[c] \in Row
    BY <1>2 DEF MatchedByDelete, IsLive, IInv, TypeOK
  <1>3. ASSUME cat[c] \in Row
        PROVE  /\ Gone(cat[c]) \in Row /\ Gone(cat[c]).deleted
               /\ Gone(cat[c]).parent = cat[c].parent /\ Gone(cat[c]).position = -1
    <2>1. Gone(cat[c]) \in Row /\ Gone(cat[c]).deleted
      BY <1>3, DeletedTyped DEF Gone
    <2> QED BY <1>3, <2>1 DEF Gone, Row
  <1> QED BY <1>1, <1>2, <1>3 DEF Exists

-----------------------------------------------------------------------------
(* Positions are bounded below, with any number of requests. *)

Lowest == IF EditDeleted THEN -1 ELSE 1

\* What a handler found and what it is to write are no lower.
PlacesKnown(q) ==
  /\ q.pc = "range" => q.op \in {"update", "reorder"}
  /\ q.pc = "position" => q.op = "create"
  /\ q.op = "create" /\ q.pc = "write" => q.position >= Lowest
  /\ q.op \in {"update", "reorder"} /\ q.pc \in {"range", "write"} =>
       q.from >= Lowest /\ q.position >= 0

Bounded == IInv /\ PositionsBounded /\ \A r \in Requests : PlacesKnown(req[r])

LEMMA BoundedRow ==
  ASSUME IInv, PositionsBounded, NEW c \in CategoryIds, Exists(c)
  PROVE  /\ cat[c].position \in Int /\ cat[c].position >= -1
         /\ IsLive(c) \/ EditDeleted => cat[c].position >= Lowest
  BY RowTyped DEF IInv, PositionsBounded, IsLive, Lowest

LEMMA TopBounded ==
  ASSUME IInv, PositionsBounded, NEW p
  PROVE  TopPosition(p) \in Int /\ TopPosition(p) + 1 >= Lowest
  <1>1. /\ TopPosition(p) \in Int
        /\ LiveSiblings(p) = {} => TopPosition(p) = 0
        /\ LiveSiblings(p) # {} => \E c \in LiveSiblings(p) : cat[c].position = TopPosition(p)
    BY TopPositionIsTop DEF IInv
  <1>2. \A c \in LiveSiblings(p) : cat[c].position \in Int /\ cat[c].position >= Lowest
    BY BoundedRow DEF LiveSiblings, IsLive, Exists
  <1> QED BY <1>1, <1>2 DEF Lowest

LEMMA ShiftBounded ==
  ASSUME NEW q, q.position \in Int, q.from \in Int, NEW x \in Int, NEW low \in Int,
         x >= low, q.from >= low
  PROVE  Shifted(q, x) >= low
  BY DEF Shifted

LEMMA PlaceBounded ==
  ASSUME Bounded, NEW r \in Requests, Updates(r), NEW c \in CategoryIds, Exists(c)
  PROVE  /\ Place(req[r], c) >= -1
         /\ IsLive(c) \/ EditDeleted => Place(req[r], c) >= Lowest
  <1> DEFINE q == req[r]
  <1>1. q.position \in Int /\ q.from \in Int
    BY DEF Bounded, IInv, TypeOK, Handler
  <1>2. q.from >= Lowest /\ q.position >= 0
    BY DEF Bounded, PlacesKnown, Updates
  <1>3. /\ cat[c].position \in Int /\ cat[c].position >= -1
        /\ IsLive(c) \/ EditDeleted => cat[c].position >= Lowest
    BY BoundedRow DEF Bounded
  <1>4. Lowest \in Int /\ Lowest >= -1 /\ Lowest <= 1
    BY DEF Lowest
  <1> HIDE DEF q
  <1>5. Shifted(q, cat[c].position) >= -1
    BY <1>1, <1>2, <1>3, <1>4, ShiftBounded
  <1>6. IsLive(c) \/ EditDeleted => Shifted(q, cat[c].position) >= Lowest
    BY <1>1, <1>2, <1>3, <1>4, ShiftBounded
  <1>7. /\ Place(q, c) >= -1
        /\ IsLive(c) \/ EditDeleted => Place(q, c) >= Lowest
    BY <1>1, <1>2, <1>3, <1>4, <1>5, <1>6 DEF Place
  <1> QED BY <1>7 DEF q

LEMMA WritesBounded ==
  ASSUME Bounded, NEW r \in Requests, Writes(r)
  PROVE  PositionsBounded'
  <1> USE DEF Bounded
  <1> SUFFICES ASSUME NEW c \in CategoryIds, Exists(c)'
               PROVE  cat'[c].position >= IF EditDeleted \/ cat'[c].deleted THEN -1 ELSE 1
    BY DEF PositionsBounded
  <1>1. ASSUME cat'[c] = cat[c]
        PROVE  cat'[c].position >= IF EditDeleted \/ cat'[c].deleted THEN -1 ELSE 1
    BY <1>1 DEF PositionsBounded, Exists
  <1>2. ASSUME NEW d \in CategoryIds, Creates(r, d)
        PROVE  cat'[c].position >= IF EditDeleted \/ cat'[c].deleted THEN -1 ELSE 1
    <2>1. CASE c # d
      BY <1>1, <1>2, <2>1, CreatedRows
    <2>2. CASE c = d
      <3>1. cat'[c].position = req[r].position /\ req[r].position >= Lowest
        BY <1>2, <2>2, CreatedRows DEF Creates, PlacesKnown
      <3>2. req[r].position \in Int
        BY DEF IInv, TypeOK, Handler
      <3> QED BY <3>1, <3>2 DEF Lowest
    <2> QED BY <2>1, <2>2
  <1>3. CASE Updates(r)
    <2>1. /\ Exists(c) /\ cat'[c].deleted = cat[c].deleted
          /\ cat'[c].position = Place(req[r], c)
      BY <1>3, UpdatedRows DEF Exists
    <2> QED BY <1>3, <2>1, PlaceBounded DEF IsLive, Exists, Lowest
  <1>4. CASE Switches(r)
    <2>1. /\ Exists(c) /\ cat'[c].deleted = cat[c].deleted
          /\ cat'[c].position = cat[c].position
      BY <1>4, SwitchedRows DEF Exists
    <2> QED BY <2>1 DEF PositionsBounded
  <1>5. CASE Deletes(r)
    BY <1>1, <1>5, DeletedRows
  <1> QED BY <1>2, <1>3, <1>4, <1>5 DEF Writes

LEMMA PlacesStayKnown ==
  ASSUME Bounded, NEW r \in Requests, Arrive(r) \/ HandlerStep(r)
  PROVE  \A s \in Requests : PlacesKnown(req[s])'
  <1>0. req[r] \in Handler /\ PlacesKnown(req[r]) /\ TypeOK /\ IInv /\ PositionsBounded
    BY DEF Bounded, IInv, TypeOK
  <1>1. ASSUME NEW q, req' = [req EXCEPT ![r] = q], PlacesKnown(q)
        PROVE  \A s \in Requests : PlacesKnown(req[s])'
    BY <1>1 DEF Bounded, IInv, TypeOK, PlacesKnown
  <1>2. PlacesKnown(Idle)
    BY DEF Idle, PlacesKnown
  <1>3. Finish(r) \/ Wrote(r) => \A s \in Requests : PlacesKnown(req[s])'
    <2>1. PlacesKnown([Idle EXCEPT !.pc = "delTree"])
      BY DEF Idle, PlacesKnown
    <2> QED BY <1>1, <1>2, <2>1 DEF Finish, Wrote
  <1>4. ASSUME NEW pc, Goto(r, pc), pc = "delSelect" \/ (pc = "write" /\ req[r].pc = "range")
        PROVE  \A s \in Requests : PlacesKnown(req[s])'
    <2> DEFINE q == [req[r] EXCEPT !.pc = pc]
    <2>1. /\ q.pc = pc /\ q.op = req[r].op /\ q.from = req[r].from /\ q.position = req[r].position
      BY <1>0 DEF Handler
    <2>2. req' = [req EXCEPT ![r] = q]
      BY <1>4 DEF Goto
    <2> HIDE DEF q
    <2>3. PlacesKnown(q)
      BY <1>0, <1>4, <2>1 DEF PlacesKnown
    <2> QED BY <1>1, <2>2, <2>3
  <1>5. CASE CreatePosition(r)
    <2> DEFINE q == [req[r] EXCEPT !.pc = "write", !.position = TopPosition(req[r].parent) + 1]
    <2>1. q.pc = "write" /\ q.op = req[r].op /\ q.position = TopPosition(req[r].parent) + 1
      BY <1>0 DEF Handler
    <2>2. req' = [req EXCEPT ![r] = q] /\ req[r].op = "create"
      BY <1>0, <1>5 DEF CreatePosition, PlacesKnown
    <2> HIDE DEF q
    <2>3. PlacesKnown(q)
      BY <1>0, <2>1, <2>2, TopBounded DEF PlacesKnown
    <2> QED BY <1>1, <2>2, <2>3
  <1>6. CASE HandlerStep(r) /\ ~CreatePosition(r)
    BY <1>3, <1>4, <1>6
       DEF HandlerStep, WriteCreate, CheckRange, WriteUpdate, WriteActive, WriteDelete,
           DelTree, DelSelect, Abort
  <1>7. ASSUME NEW q, Start(r, q), PlacesKnown(q)
        PROVE  \A s \in Requests : PlacesKnown(req[s])'
    BY <1>1, <1>7 DEF Start
  <1>8. ASSUME NEW n \in Names, NEW p \in CategoryIds \cup {None}, NEW act \in {"on", "off"},
               CreateFind(r, n, p, act)
        PROVE  \A s \in Requests : PlacesKnown(req[s])'
    <2> DEFINE q == [Idle EXCEPT !.op = "create", !.pc = "position", !.name = n,
                                 !.parent = p, !.active = act]
    <2>1. q.op = "create" /\ q.pc = "position"
      BY IdleTyped DEF Handler
    <2>2. Start(r, q)
      BY <1>8 DEF CreateFind
    <2> HIDE DEF q
    <2> QED BY <1>7, <2>1, <2>2 DEF PlacesKnown
  <1>9. ASSUME NEW c \in CategoryIds, Exists(c), IsLive(c) \/ EditDeleted
        PROVE  cat[c].position >= Lowest
    BY <1>0, <1>9, BoundedRow
  <1>10. ASSUME NEW c \in CategoryIds, NEW n \in Names \cup {None},
                NEW act \in {"on", "off", "keep"}, NEW pos \in 0 .. MaxPosition,
                UpdateFind(r, c, n, act, pos)
         PROVE  \A s \in Requests : PlacesKnown(req[s])'
    <2> DEFINE q == [Idle EXCEPT !.op = "update", !.id = c, !.name = n, !.active = act,
                       !.position = pos, !.parent = cat[c].parent, !.from = cat[c].position,
                       !.pc = IF pos = 0 THEN "write" ELSE "range"]
    <2>1. /\ q.op = "update" /\ q.position = pos /\ q.from = cat[c].position
          /\ q.pc \in {"write", "range"}
      BY IdleTyped DEF Handler
    <2>2. Start(r, q) /\ Exists(c) /\ (IsLive(c) \/ EditDeleted)
      BY <1>10 DEF UpdateFind, Named, IsLive, Exists
    <2> HIDE DEF q
    <2> QED BY <1>7, <1>9, <2>1, <2>2 DEF PlacesKnown
  <1>11. ASSUME NEW c \in CategoryIds, NEW pos \in 1 .. MaxPosition, ReorderFind(r, c, pos)
         PROVE  \A s \in Requests : PlacesKnown(req[s])'
    <2> DEFINE q == [Idle EXCEPT !.op = "reorder", !.pc = "range", !.id = c, !.position = pos,
                       !.parent = cat[c].parent, !.from = cat[c].position]
    <2>1. q.op = "reorder" /\ q.pc = "range" /\ q.position = pos /\ q.from = cat[c].position
      BY IdleTyped DEF Handler
    <2>2. Start(r, q) /\ Exists(c) /\ IsLive(c)
      BY <1>11 DEF ReorderFind, IsLive, Exists
    <2> HIDE DEF q
    <2> QED BY <1>7, <1>9, <2>1, <2>2 DEF PlacesKnown
  <1>12. ASSUME NEW c \in CategoryIds, NEW act \in {"on", "off"}, SetActiveFind(r, c, act)
         PROVE  \A s \in Requests : PlacesKnown(req[s])'
    <2> DEFINE q == [Idle EXCEPT !.op = "activate", !.pc = "write", !.id = c, !.active = act]
    <2>1. q.op = "activate" /\ q.pc = "write"
      BY IdleTyped DEF Handler
    <2>2. Start(r, q)
      BY <1>12 DEF SetActiveFind
    <2> HIDE DEF q
    <2> QED BY <1>7, <2>1, <2>2 DEF PlacesKnown
  <1>13. ASSUME NEW c \in CategoryIds, DeleteFind(r, c)
         PROVE  \A s \in Requests : PlacesKnown(req[s])'
    <2> DEFINE q == [Idle EXCEPT !.op = "delete", !.pc = "write", !.id = c]
    <2>1. q.op = "delete" /\ q.pc = "write"
      BY IdleTyped DEF Handler
    <2>2. Start(r, q)
      BY <1>13 DEF DeleteFind
    <2> HIDE DEF q
    <2> QED BY <1>7, <2>1, <2>2 DEF PlacesKnown
  <1> QED BY <1>5, <1>6, <1>8, <1>10, <1>11, <1>12, <1>13 DEF Arrive

\* However moves race, and wherever their handlers die, positions of live
\* categories stay positive; moving a deleted category pushes none below -1.
THEOREM PlacesBounded == Spec => []PositionsBounded
  <1>1. Init => Bounded
    BY InitIInv DEF Init, Bounded, PositionsBounded, Exists, PlacesKnown, Idle
  <1>2. ASSUME Bounded, [Next]_vars PROVE Bounded'
    <2>1. IInv'
      BY <1>2, IInvPreserved DEF Bounded
    <2>2. PositionsBounded'
      <3>1. UNCHANGED cat => PositionsBounded'
        BY <1>2 DEF Bounded, PositionsBounded, Exists
      <3> QED BY <1>2, <3>1, StepWrites, WritesBounded
    <2>3. \A s \in Requests : PlacesKnown(req[s])'
      <3>1. UNCHANGED req => \A s \in Requests : PlacesKnown(req[s])'
        BY <1>2 DEF Bounded, PlacesKnown
      <3> QED BY <1>2, <3>1, PlacesStayKnown DEF Next, vars
    <2> QED BY <2>1, <2>2, <2>3 DEF Bounded
  <1>3. Bounded => PositionsBounded
    BY DEF Bounded
  <1> QED BY <1>1, <1>2, <1>3, PTL DEF Spec

-----------------------------------------------------------------------------
(* Inductions up the branches of the tree. *)

\* Every row is further down than its parent, which exists.
Below(c) == Exists(c) /\ cat[c].parent # None
Ranks(rank) == \A c \in CategoryIds :
                 Below(c) => Exists(cat[c].parent) /\ rank[cat[c].parent] < rank[c]
Ranked == \E n \in Nat : \E rank \in [CategoryIds -> 0 .. n] : Ranks(rank)

LEMMA ParentTyped ==
  ASSUME TypeOK, NEW c \in CategoryIds, Below(c)
  PROVE  cat[c].parent \in CategoryIds
  BY RowTyped DEF Below

\* What holds below the roots and is handed down holds everywhere.
LEMMA DownTheTree ==
  ASSUME TypeOK, Ranked, NEW S \in SUBSET CategoryIds,
         \A c \in CategoryIds : (Below(c) => cat[c].parent \in S) => c \in S
  PROVE  S = CategoryIds
  <1>0. PICK n \in Nat : \E rank \in [CategoryIds -> 0 .. n] : Ranks(rank)
    BY DEF Ranked
  <1>1. PICK rank \in [CategoryIds -> 0 .. n] : Ranks(rank)
    BY <1>0
  <1> DEFINE T == {rank[c] : c \in CategoryIds \ S}
  <1>2. T \subseteq Nat
    OBVIOUS
  <1>3. SUFFICES ASSUME T # {} PROVE FALSE
    OBVIOUS
  <1>4. PICK m \in T : \A k \in T : m <= k
    <2> HIDE DEF T
    <2> QED BY <1>2, <1>3, LeastExists
  <1>5. PICK c \in CategoryIds \ S : rank[c] = m
    BY <1>4
  <1>6. Below(c) /\ cat[c].parent \notin S
    BY <1>5
  <1>7. cat[c].parent \in CategoryIds \ S /\ rank[cat[c].parent] < m
    BY <1>1, <1>5, <1>6, ParentTyped DEF Ranks
  <1>8. rank[cat[c].parent] \in T
    BY <1>7
  <1>9. rank[cat[c].parent] \in Nat /\ m \in Nat
    BY <1>2, <1>4, <1>8
  <1> HIDE DEF T
  <1> QED BY <1>4, <1>7, <1>8, <1>9

LEMMA RankedStays ==
  ASSUME IInv, Ranked, NEW r \in Requests, Writes(r)
  PROVE  Ranked'
  <1>0. PICK n \in Nat : \E rank \in [CategoryIds -> 0 .. n] : Ranks(rank)
    BY DEF Ranked
  <1>1. PICK rank \in [CategoryIds -> 0 .. n] : Ranks(rank)
    BY <1>0
  <1>2. ASSUME NEW c \in CategoryIds, Creates(r, c) PROVE Ranked'
    <2> DEFINE deeper == [rank EXCEPT ![c] = n + 1]
    <2>1. /\ n + 1 \in Nat /\ deeper \in [CategoryIds -> 0 .. n + 1]
          /\ \A d \in CategoryIds : deeper[d] = IF d = c THEN n + 1 ELSE rank[d]
      OBVIOUS
    <2>2. /\ ~Exists(c) /\ Exists(c)'
          /\ cat'[c].parent # None =>
               cat'[c].parent \in CategoryIds /\ cat[cat'[c].parent] # None
          /\ \A d \in CategoryIds : d # c => cat'[d] = cat[d]
      <3>1. /\ Exists(c)' /\ cat'[c].parent = req[r].parent
            /\ req[r].parent # None => req[r].parent \in CategoryIds /\ Exists(req[r].parent)
            /\ \A d \in CategoryIds : d # c => cat'[d] = cat[d]
        BY <1>2, CreatedRows
      <3>2. ~Exists(c)
        BY <1>2 DEF Creates
      <3> QED BY <3>1, <3>2 DEF Exists
    <2> HIDE DEF deeper
    <2>3. ASSUME NEW d \in CategoryIds, Below(d)'
          PROVE  Exists(cat[d].parent)' /\ deeper[cat'[d].parent] < deeper[d]
      <3>1. CASE d = c
        <4>1. cat'[c].parent \in CategoryIds /\ cat[cat'[c].parent] # None
          BY <2>2, <2>3, <3>1 DEF Below
        <4>2. cat'[c].parent # c /\ cat'[cat'[c].parent] = cat[cat'[c].parent]
          BY <2>2, <4>1 DEF Exists
        <4>3. deeper[cat'[c].parent] = rank[cat'[c].parent] /\ rank[cat'[c].parent] \in 0 .. n
          BY <2>1, <4>1, <4>2
        <4> QED BY <2>1, <3>1, <4>1, <4>2, <4>3 DEF Exists
      <3>2. CASE d # c
        <4>1. Below(d) /\ cat'[d].parent = cat[d].parent
          BY <2>2, <2>3, <3>2 DEF Below, Exists
        <4>2. /\ cat[d].parent \in CategoryIds /\ Exists(cat[d].parent)
              /\ rank[cat[d].parent] < rank[d]
          BY <1>1, <4>1, ParentTyped DEF IInv, Ranks
        <4>3. cat[d].parent # c /\ cat'[cat[d].parent] = cat[cat[d].parent]
          BY <2>2, <4>2
        <4> QED BY <2>1, <3>2, <4>1, <4>2, <4>3 DEF Exists
      <3> QED BY <3>1, <3>2
    <2>4. Ranks(deeper)'
      BY <2>3 DEF Ranks
    <2> QED BY <2>1, <2>4 DEF Ranked
  <1>3. ASSUME \A c \in CategoryIds :
                 Exists(c)' = Exists(c) /\ (Exists(c) => cat'[c].parent = cat[c].parent)
        PROVE  Ranked'
    <2>1. ASSUME NEW d \in CategoryIds, Below(d)'
          PROVE  Exists(cat[d].parent)' /\ rank[cat'[d].parent] < rank[d]
      <3>1. Below(d) /\ cat'[d].parent = cat[d].parent
        BY <1>3, <2>1 DEF Below
      <3> QED BY <1>1, <1>3, <3>1, ParentTyped DEF IInv, Ranks
    <2>2. Ranks(rank)'
      BY <2>1 DEF Ranks
    <2> QED BY <2>2 DEF Ranked
  <1>4. Updates(r) => Ranked'
    BY <1>3, UpdatedRows DEF Exists
  <1>5. Switches(r) => Ranked'
    BY <1>3, SwitchedRows DEF Exists
  <1>6. Deletes(r) => Ranked'
    BY <1>3, DeletedRows DEF Exists, IsLive
  <1> QED BY <1>2, <1>4, <1>5, <1>6 DEF Writes

LEMMA RankedAlways == Spec => [](TypeOK /\ Ranked)
  <1>1. Init => Ranked
    <2> SUFFICES ASSUME Init PROVE Ranked
      OBVIOUS
    <2>1. Ranks([c \in CategoryIds |-> 0])
      BY DEF Init, Ranks, Below, Exists
    <2>2. 0 \in Nat /\ [c \in CategoryIds |-> 0] \in [CategoryIds -> 0 .. 0]
      OBVIOUS
    <2> QED BY <2>1, <2>2 DEF Ranked
  <1>2. ASSUME IInv, Ranked, [Next]_vars PROVE IInv' /\ Ranked'
    <2>1. UNCHANGED cat => Ranked'
      BY <1>2 DEF Ranked, Ranks, Below, Exists
    <2> QED BY <1>2, <2>1, IInvPreserved, StepWrites, RankedStays
  <1>3. IInv => TypeOK
    BY DEF IInv
  <1> QED BY InitIInv, <1>1, <1>2, <1>3, PTL DEF Spec

-----------------------------------------------------------------------------
(* The recursive functions Above and TreeLevels satisfy their equations. *)

AboveFrom(f, c) ==
  IF cat[c] = None \/ cat[c].parent = None THEN {} ELSE {cat[c].parent} \cup f[cat[c].parent]

LEMMA AboveExists ==
  ASSUME TypeOK, Ranked
  PROVE  \E f : f = [c \in CategoryIds |-> AboveFrom(f, c)]
  <1>0. PICK n \in Nat : \E rank \in [CategoryIds -> 0 .. n] : Ranks(rank)
    BY DEF Ranked
  <1>1. PICK rank \in [CategoryIds -> 0 .. n] : Ranks(rank)
    BY <1>0
  <1> DEFINE S == {m \in Nat : \E f : \A c \in CategoryIds : rank[c] < m => f[c] = AboveFrom(f, c)}
  <1>2. 0 \in S
    <2>1. \A c \in CategoryIds : ~(rank[c] < 0)
      BY <1>1
    <2> QED BY <2>1
  <1>3. ASSUME NEW m \in Nat, m \in S PROVE m + 1 \in S
    <2>1. PICK f : \A c \in CategoryIds : rank[c] < m => f[c] = AboveFrom(f, c)
      BY <1>3
    <2> DEFINE g == [c \in CategoryIds |-> AboveFrom(f, c)]
    <2>2. ASSUME NEW c \in CategoryIds, rank[c] < m + 1 PROVE g[c] = AboveFrom(g, c)
      <3>1. CASE ~Below(c)
        BY <3>1 DEF AboveFrom, Below, Exists
      <3>2. CASE Below(c)
        <4> DEFINE p == cat[c].parent
        <4>1. p \in CategoryIds /\ rank[p] < rank[c]
          BY <1>1, <3>2, ParentTyped DEF Ranks
        <4>2. rank[p] < m
          BY <1>1, <2>2, <4>1
        <4>3. g[p] = f[p]
          BY <2>1, <4>1, <4>2
        <4> HIDE DEF g
        <4>4. AboveFrom(g, c) = AboveFrom(f, c)
          BY <4>3 DEF AboveFrom
        <4> QED BY <4>4 DEF g
      <3> QED BY <3>1, <3>2
    <2> HIDE DEF g
    <2> QED BY <2>2
  <1> HIDE DEF S
  <1>4. n + 1 \in S
    BY <1>2, <1>3, CountUp
  <1>5. PICK f : \A c \in CategoryIds : f[c] = AboveFrom(f, c)
    <2>1. PICK f : \A c \in CategoryIds : rank[c] < n + 1 => f[c] = AboveFrom(f, c)
      BY <1>4 DEF S
    <2>2. \A c \in CategoryIds : rank[c] < n + 1
      BY <1>1
    <2> QED BY <2>1, <2>2
  <1> DEFINE g == [c \in CategoryIds |-> f[c]]
  <1>6. ASSUME NEW c \in CategoryIds PROVE g[c] = AboveFrom(g, c)
    <2>1. Below(c) => g[cat[c].parent] = f[cat[c].parent]
      BY ParentTyped
    <2> HIDE DEF g
    <2>2. AboveFrom(g, c) = AboveFrom(f, c)
      BY <2>1 DEF AboveFrom, Below, Exists
    <2> QED BY <1>5, <2>2 DEF g
  <1>7. g = [c \in CategoryIds |-> AboveFrom(g, c)]
    <2>1. g = [c \in CategoryIds |-> g[c]]
      OBVIOUS
    <2> HIDE DEF g
    <2> QED BY <1>6, <2>1
  <1> QED BY <1>7

LEMMA AboveIs ==
  ASSUME TypeOK, Ranked, NEW c \in CategoryIds
  PROVE  /\ ~Below(c) => Above[c] = {}
         /\ Below(c) => Above[c] = {cat[c].parent} \cup Above[cat[c].parent]
  <1> DEFINE F(f) == [d \in CategoryIds |-> AboveFrom(f, d)]
  <1>1. Above = CHOOSE f : f = F(f)
    BY DEF Above, AboveFrom
  <1>2. \E f : f = F(f)
    BY AboveExists
  <1> HIDE DEF F
  <1>3. Above = F(Above)
    BY <1>1, <1>2
  <1> USE DEF F
  <1>4. Above[c] = AboveFrom(Above, c)
    BY <1>3
  <1> QED BY <1>4 DEF AboveFrom, Below, Exists

Deepest == Cardinality(CategoryIds)
LevelFrom(f, n) == IF n = 0 THEN Roots ELSE UNION {Children(c) : c \in f[n - 1]}

LEMMA LevelsExist == \E f : f = [n \in 0 .. Deepest |-> LevelFrom(f, n)]
  <1>1. Deepest \in Nat
    BY FS_CardinalityType DEF Deepest
  <1> DEFINE S == {m \in Nat : \E f : \A n \in 0 .. Deepest : n < m => f[n] = LevelFrom(f, n)}
  <1>2. 0 \in S
    <2>1. \A n \in 0 .. Deepest : ~(n < 0)
      BY <1>1
    <2> QED BY <2>1
  <1>3. ASSUME NEW m \in Nat, m \in S PROVE m + 1 \in S
    <2>1. PICK f : \A n \in 0 .. Deepest : n < m => f[n] = LevelFrom(f, n)
      BY <1>3
    <2> DEFINE g == [n \in 0 .. Deepest |-> LevelFrom(f, n)]
    <2>2. ASSUME NEW n \in 0 .. Deepest, n < m + 1 PROVE g[n] = LevelFrom(g, n)
      <3>1. CASE n = 0
        BY <3>1 DEF LevelFrom
      <3>2. CASE n # 0
        <4>1. n - 1 \in 0 .. Deepest /\ n - 1 < m
          BY <1>1, <2>2, <3>2
        <4>2. g[n - 1] = f[n - 1]
          BY <2>1, <4>1
        <4> HIDE DEF g
        <4>3. LevelFrom(g, n) = LevelFrom(f, n)
          BY <4>2 DEF LevelFrom
        <4> QED BY <4>3 DEF g
      <3> QED BY <3>1, <3>2
    <2> HIDE DEF g
    <2> QED BY <2>2
  <1> HIDE DEF S
  <1>4. Deepest + 1 \in S
    BY <1>1, <1>2, <1>3, CountUp
  <1>5. PICK f : \A n \in 0 .. Deepest : f[n] = LevelFrom(f, n)
    <2>1. PICK f : \A n \in 0 .. Deepest : n < Deepest + 1 => f[n] = LevelFrom(f, n)
      BY <1>4 DEF S
    <2> QED BY <1>1, <2>1
  <1> DEFINE g == [n \in 0 .. Deepest |-> f[n]]
  <1>6. ASSUME NEW n \in 0 .. Deepest PROVE g[n] = LevelFrom(g, n)
    <2>1. n # 0 => n - 1 \in 0 .. Deepest
      BY <1>1
    <2>2. n # 0 => g[n - 1] = f[n - 1]
      BY <2>1
    <2> HIDE DEF g
    <2>3. LevelFrom(g, n) = LevelFrom(f, n)
      BY <2>2 DEF LevelFrom
    <2> QED BY <1>5, <2>3 DEF g
  <1>7. g = [n \in 0 .. Deepest |-> LevelFrom(g, n)]
    <2>1. g = [n \in 0 .. Deepest |-> g[n]]
      OBVIOUS
    <2> HIDE DEF g
    <2> QED BY <1>6, <2>1
  <1> QED BY <1>7

LEMMA LevelsAre ==
  /\ DOMAIN TreeLevels = 0 .. Deepest
  /\ \A n \in 0 .. Deepest : TreeLevels[n] = LevelFrom(TreeLevels, n)
  <1> DEFINE F(f) == [n \in 0 .. Deepest |-> LevelFrom(f, n)]
  <1>1. TreeLevels = CHOOSE f : f = F(f)
    BY DEF TreeLevels, LevelFrom, Deepest
  <1>2. \E f : f = F(f)
    BY LevelsExist
  <1> HIDE DEF F
  <1>3. TreeLevels = F(TreeLevels)
    BY <1>1, <1>2
  <1> QED BY <1>3 DEF F

-----------------------------------------------------------------------------
(* What the tree shows. *)

LEMMA AboveTyped ==
  ASSUME TypeOK, Ranked, NEW c \in CategoryIds
  PROVE  Above[c] \subseteq CategoryIds /\ IsFiniteSet(Above[c])
  <1> DEFINE S == {d \in CategoryIds : Above[d] \subseteq CategoryIds}
  <1>1. ASSUME NEW d \in CategoryIds, Below(d) => cat[d].parent \in S PROVE d \in S
    BY <1>1, AboveIs, ParentTyped
  <1>2. S = CategoryIds
    <2>1. S \in SUBSET CategoryIds
      OBVIOUS
    <2> HIDE DEF S
    <2> QED BY <1>1, <2>1, DownTheTree
  <1> QED BY <1>2, FS_Subset

\* What is above a row is ranked before it: no row is above itself.
LEMMA AboveRanked ==
  ASSUME TypeOK, Ranked, NEW n \in Nat, NEW rank \in [CategoryIds -> 0 .. n], Ranks(rank),
         NEW c \in CategoryIds
  PROVE  \A a \in Above[c] : rank[a] < rank[c]
  <1> DEFINE S == {d \in CategoryIds : \A a \in Above[d] : rank[a] < rank[d]}
  <1>1. ASSUME NEW d \in CategoryIds, Below(d) => cat[d].parent \in S PROVE d \in S
    <2>1. CASE ~Below(d)
      BY <2>1, AboveIs
    <2>2. CASE Below(d)
      <3> DEFINE p == cat[d].parent
      <3>1. p \in CategoryIds /\ Above[d] = {p} \cup Above[p] /\ rank[p] < rank[d]
        BY <2>2, AboveIs, ParentTyped DEF Ranks
      <3>2. Above[p] \subseteq CategoryIds /\ \A a \in Above[p] : rank[a] < rank[p]
        BY <1>1, <2>2, <3>1, AboveTyped
      <3>3. ASSUME NEW a \in Above[d] PROVE rank[a] < rank[d]
        <4>1. rank[d] \in Int /\ rank[p] \in Int /\ (a \in CategoryIds => rank[a] \in Int)
          BY <3>1
        <4> HIDE DEF p
        <4> QED BY <3>1, <3>2, <4>1
      <3> QED BY <3>3
    <2> QED BY <2>1, <2>2
  <1>2. S = CategoryIds
    <2>1. S \in SUBSET CategoryIds
      OBVIOUS
    <2> HIDE DEF S
    <2> QED BY <1>1, <2>1, DownTheTree
  <1> QED BY <1>2

Depth(c) == Cardinality(Above[c])

LEMMA DepthIs ==
  ASSUME TypeOK, Ranked, NEW c \in CategoryIds
  PROVE  /\ Depth(c) \in 0 .. Deepest
         /\ Below(c) <=> Depth(c) # 0
         /\ Below(c) => Depth(c) = Depth(cat[c].parent) + 1
  <1>1. Deepest \in Nat /\ Depth(c) \in Nat /\ Depth(c) <= Deepest
    BY AboveTyped, FS_CardinalityType, FS_Subset DEF Depth, Deepest
  <1>2. ~Below(c) => Depth(c) = 0
    BY AboveIs, FS_EmptySet DEF Depth
  <1>3. ASSUME Below(c) PROVE Depth(c) = Depth(cat[c].parent) + 1
    <2>0. PICK n \in Nat : \E rank \in [CategoryIds -> 0 .. n] : Ranks(rank)
      BY DEF Ranked
    <2>1. PICK rank \in [CategoryIds -> 0 .. n] : Ranks(rank)
      BY <2>0
    <2> DEFINE p == cat[c].parent
    <2>2. p \in CategoryIds /\ Above[c] = Above[p] \cup {p}
      BY <1>3, AboveIs, ParentTyped
    <2> HIDE DEF p
    <2>3. p \notin Above[p]
      <3>1. rank[p] \in Int
        BY <2>1, <2>2
      <3> QED BY <2>1, <2>2, <3>1, AboveRanked
    <2>4. IsFiniteSet(Above[p])
      BY <2>2, AboveTyped
    <2>5. Cardinality(Above[c]) = Cardinality(Above[p]) + 1
      BY <2>2, <2>3, <2>4, FS_AddElement
    <2> QED BY <2>5 DEF Depth, p
  <1>4. Below(c) => Depth(cat[c].parent) \in Nat
    BY ParentTyped, AboveTyped, FS_CardinalityType DEF Depth
  <1> QED BY <1>1, <1>2, <1>3, <1>4

Shown(c) == IsLive(c) /\ cat[c].active
Open(c) == \A a \in {c} \cup Above[c] : Shown(a)

LEMMA PublicIdsAre == \A c : c \in PublicIds <=> c \in CategoryIds /\ Shown(c)
  <1>1. \A c \in CategoryIds : Shown(c) =>
          <<c, cat[c].name, cat[c].parent, cat[c].position>> \in PublicRows(cat)
    BY DEF PublicRows, Shown, IsLive
  <1>2. \A row \in PublicRows(cat) : row[1] \in CategoryIds /\ Shown(row[1])
    BY DEF PublicRows, Shown, IsLive
  <1>3. ASSUME NEW c \in CategoryIds, Shown(c) PROVE c \in PublicIds
    <2> DEFINE row == <<c, cat[c].name, cat[c].parent, cat[c].position>>
    <2>1. row \in PublicRows(cat) /\ row[1] = c
      BY <1>1, <1>3
    <2> HIDE DEF row
    <2> QED BY <2>1 DEF PublicIds
  <1>4. ASSUME NEW c, c \in PublicIds PROVE c \in CategoryIds /\ Shown(c)
    <2>1. PICK row \in PublicRows(cat) : c = row[1]
      BY <1>4 DEF PublicIds
    <2> QED BY <1>2, <2>1
  <1> QED BY <1>3, <1>4

LEMMA OpenIs ==
  ASSUME TypeOK, Ranked, NEW c \in CategoryIds
  PROVE  Open(c) <=> Shown(c) /\ (Below(c) => Open(cat[c].parent))
  BY AboveIs DEF Open

\* A level of the tree holds the categories of its depth with nothing hidden above.
LEMMA LevelHolds ==
  ASSUME TypeOK, Ranked
  PROVE  \A n \in 0 .. Deepest : \A c :
           c \in TreeLevels[n] <=> c \in CategoryIds /\ Open(c) /\ Depth(c) = n
  <1> DEFINE Holds(n) == \A c : c \in TreeLevels[n] <=> c \in CategoryIds /\ Open(c) /\ Depth(c) = n
             S == {n \in Nat : n <= Deepest => Holds(n)}
  <1>1. Deepest \in Nat
    BY FS_CardinalityType DEF Deepest
  <1>2. Holds(0)
    <2>1. TreeLevels[0] = Roots
      BY <1>1, LevelsAre DEF LevelFrom
    <2>2. \A c : c \in Roots <=> c \in CategoryIds /\ Shown(c) /\ cat[c].parent = None
      BY PublicIdsAre DEF Roots
    <2>3. \A c \in CategoryIds : Shown(c) => (cat[c].parent = None <=> ~Below(c))
      BY DEF Shown, IsLive, Below, Exists
    <2> QED BY <2>1, <2>2, <2>3, OpenIs, DepthIs
  <1>3. ASSUME NEW n \in Nat, n + 1 <= Deepest, Holds(n) PROVE Holds(n + 1)
    <2>1. TreeLevels[n + 1] = UNION {Children(d) : d \in TreeLevels[n]}
      <3>1. n + 1 \in 0 .. Deepest /\ n + 1 # 0 /\ (n + 1) - 1 = n
        BY <1>1, <1>3
      <3> QED BY <3>1, LevelsAre DEF LevelFrom
    <2>2. \A c : c \in TreeLevels[n + 1] <=>
            c \in CategoryIds /\ Shown(c) /\ cat[c].parent \in TreeLevels[n]
      BY <2>1, PublicIdsAre DEF Children
    <2>3. \A c : c \in TreeLevels[n + 1] <=>
            /\ c \in CategoryIds /\ Shown(c)
            /\ cat[c].parent \in CategoryIds /\ Open(cat[c].parent) /\ Depth(cat[c].parent) = n
      BY <1>3, <2>2
    <2>4. \A c \in CategoryIds : Shown(c) => (cat[c].parent \in CategoryIds <=> Below(c))
      BY ParentTyped DEF Shown, IsLive, Below, Exists
    <2>5. \A c \in CategoryIds : Below(c) => (Depth(cat[c].parent) = n <=> Depth(c) = n + 1)
      <3>1. \A c \in CategoryIds : Below(c) =>
              Depth(c) = Depth(cat[c].parent) + 1 /\ Depth(cat[c].parent) \in Int
        BY <1>1, DepthIs, ParentTyped
      <3> QED BY <3>1
    <2>6. \A c \in CategoryIds : Depth(c) = n + 1 => Below(c)
      BY DepthIs
    <2> HIDE DEF Holds
    <2> QED BY <2>3, <2>4, <2>5, <2>6, OpenIs DEF Holds
  <1> HIDE DEF Holds
  <1>4. 0 \in S /\ \A k \in Nat : k \in S => k + 1 \in S
    BY <1>1, <1>2, <1>3
  <1> HIDE DEF S
  <1>5. \A n \in Nat : n \in S
    BY <1>4, CountUp
  <1>6. ASSUME NEW n \in 0 .. Deepest PROVE Holds(n)
    <2>1. n \in S /\ n <= Deepest
      BY <1>1, <1>5
    <2> QED BY <2>1 DEF S
  <1> QED BY <1>6 DEF Holds

\* Under every interleaving the public tree shows what is open up to its root,
\* once, however deep: parents exist before their children and are never
\* changed, so a branch is never closed to a circle, and the recursion ends.
THEOREM TreeIsOpenBranches == Spec => []TreeShowsOpenBranches
  <1>1. ASSUME TypeOK, Ranked PROVE TreeShowsOpenBranches
    <2>1. \A c \in CategoryIds : c \in InTree <=> Open(c)
      <3>1. \A c : c \in InTree <=> \E n \in 0 .. Deepest : c \in TreeLevels[n]
        BY LevelsAre DEF InTree
      <3> QED BY <1>1, <3>1, LevelHolds, DepthIs
    <2>2. \A m, n \in DOMAIN TreeLevels : m # n => TreeLevels[m] \cap TreeLevels[n] = {}
      BY <1>1, LevelsAre, LevelHolds
    <2> QED BY <2>1, <2>2 DEF TreeShowsOpenBranches, Open, Shown
  <1> QED BY RankedAlways, <1>1, PTL

-----------------------------------------------------------------------------
(* The order of siblings, one request at a time: the list of their rows. *)

Table == [CategoryIds -> Row \cup {None}]
SiblingsIn(t, p) == {c \in CategoryIds : LiveIn(t, c) /\ t[c].parent = p}
OrderIn(t, p) == InOrderOf(SiblingsIn(t, p), t)
Parents == CategoryIds \cup {None}

LEMMA InOrderIs ==
  /\ \A p : InOrder(p) = OrderIn(cat, p)
  /\ \A p : InOrder(p)' = OrderIn(cat', p)
  BY DEF InOrder, OrderIn, InOrderOf, SiblingsIn, LiveSiblings, IsLive, LiveIn

LEMMA SiblingPlaces ==
  ASSUME NEW t \in Table, Orderly(t), NEW p
  PROVE  IsFiniteSet(SiblingsIn(t, p)) /\ Places(SiblingsIn(t, p), t)
  <1>1. IsFiniteSet(SiblingsIn(t, p))
    BY FS_Subset DEF SiblingsIn
  <1>2. \A c \in SiblingsIn(t, p) : t[c].position \in Int
    BY DEF SiblingsIn, LiveIn, Table, Row
  <1>3. \A c, d \in SiblingsIn(t, p) : t[c].position = t[d].position => c = d
    BY DEF SiblingsIn, Orderly
  <1> QED BY <1>1, <1>2, <1>3 DEF Places

LEMMA OrderLists ==
  ASSUME NEW t \in Table, Orderly(t), NEW p
  PROVE  Lists(OrderIn(t, p), SiblingsIn(t, p), t)
  BY SiblingPlaces, OrderIsList DEF OrderIn

LEMMA OrderIs ==
  ASSUME NEW t \in Table, Orderly(t), NEW p, NEW s, Lists(s, SiblingsIn(t, p), t)
  PROVE  OrderIn(t, p) = s
  BY SiblingPlaces, OrderLists, OneList

LEMMA OrderStays ==
  ASSUME NEW t \in Table, Orderly(t), NEW u \in Table, Orderly(u), NEW p,
         SiblingsIn(u, p) = SiblingsIn(t, p),
         \A c, d \in SiblingsIn(t, p) :
           t[c].position < t[d].position => u[c].position < u[d].position
  PROVE  OrderIn(u, p) = OrderIn(t, p)
  BY OrderLists, SameList, OrderIs

\* What the list of p has, and is after a row leaves or moves.
LEMMA OrderHas ==
  ASSUME NEW t \in Table, Orderly(t), NEW p
  PROVE  /\ Len(OrderIn(t, p)) \in Nat /\ DOMAIN OrderIn(t, p) = 1 .. Len(OrderIn(t, p))
         /\ \A i \in DOMAIN OrderIn(t, p) : OrderIn(t, p)[i] \in SiblingsIn(t, p)
         /\ \A c \in SiblingsIn(t, p) : \E i \in DOMAIN OrderIn(t, p) : OrderIn(t, p)[i] = c
  <1> DEFINE s == OrderIn(t, p)
  <1>1. Lists(s, SiblingsIn(t, p), t) /\ Places(SiblingsIn(t, p), t)
    BY OrderLists, SiblingPlaces
  <1> HIDE DEF s
  <1>2. /\ Len(s) \in Nat /\ DOMAIN s = 1 .. Len(s)
        /\ \A i \in 1 .. Len(s) : s[i] \in SiblingsIn(t, p)
    BY <1>1, ListIs
  <1>3. \A c \in SiblingsIn(t, p) : \E i \in 1 .. Len(s) : s[i] = c
    BY <1>1 DEF Lists
  <1>4. /\ \A i \in DOMAIN s : s[i] \in SiblingsIn(t, p)
        /\ \A c \in SiblingsIn(t, p) : \E i \in DOMAIN s : s[i] = c
    BY <1>2, <1>3
  <1> QED BY <1>2, <1>4 DEF s

LEMMA OrderShrinks ==
  ASSUME NEW t \in Table, Orderly(t), NEW u \in Table, Orderly(u), NEW p,
         NEW i \in DOMAIN OrderIn(t, p),
         SiblingsIn(u, p) = SiblingsIn(t, p) \ {OrderIn(t, p)[i]},
         \A d \in SiblingsIn(u, p) : u[d].position = t[d].position
  PROVE  OrderIn(u, p) = RemoveAt(OrderIn(t, p), i)
  <1>1. i \in 1 .. Len(OrderIn(t, p))
    BY OrderHas
  <1>2. Lists(RemoveAt(OrderIn(t, p), i), SiblingsIn(u, p), t)
    BY <1>1, OrderLists, SiblingPlaces, RemoveLists
  <1>3. Lists(RemoveAt(OrderIn(t, p), i), SiblingsIn(u, p), u)
    BY <1>2, SameList
  <1> QED BY <1>3, OrderIs

LEMMA OrderMoves ==
  ASSUME NEW t \in Table, Orderly(t), NEW u \in Table, Orderly(u), NEW p,
         NEW i \in DOMAIN OrderIn(t, p),
         SiblingsIn(u, p) = SiblingsIn(t, p),
         \A c, d \in SiblingsIn(t, p) \ {OrderIn(t, p)[i]} :
           t[c].position < t[d].position => u[c].position < u[d].position
  PROVE  \E k \in DOMAIN OrderIn(t, p) :
           OrderIn(u, p) = InsertAt(RemoveAt(OrderIn(t, p), i), k, OrderIn(t, p)[i])
  <1> DEFINE s == OrderIn(t, p)
             c == s[i]
             rest == RemoveAt(s, i)
             S == SiblingsIn(t, p)
  <1>1. /\ Len(s) \in Nat /\ DOMAIN s = 1 .. Len(s) /\ i \in 1 .. Len(s) /\ c \in S
    BY OrderHas
  <1>2. /\ Lists(s, S, t) /\ Places(S, t) /\ Places(S, u)
    BY OrderLists, SiblingPlaces
  <1> HIDE DEF s, S
  <1>3. Lists(rest, S \ {c}, t)
    BY <1>1, <1>2, RemoveLists
  <1>4. Len(rest) + 1 = Len(s)
    <2>1. s \in Seq(S)
      BY <1>2, ListIs
    <2>2. Len(rest) = Len(s) - 1
      BY <1>1, <2>1, RemoveAtIs
    <2> QED BY <1>1, <2>2
  <1> HIDE DEF rest, c
  <1>5. Lists(rest, S \ {c}, u)
    BY <1>3, SameList DEF c, s, S
  <1>6. /\ Places(S \ {c}, u) /\ u[c].position \in Int
        /\ \A d \in S \ {c} : u[d].position # u[c].position
    BY <1>1, <1>2 DEF Places
  <1>7. PICK k \in 1 .. Len(rest) + 1 : Lists(InsertAt(rest, k, c), (S \ {c}) \cup {c}, u)
    BY <1>5, <1>6, InsertLists
  <1>8. (S \ {c}) \cup {c} = SiblingsIn(u, p)
    BY <1>1 DEF S
  <1>9. OrderIn(u, p) = InsertAt(rest, k, c)
    <2>1. Lists(InsertAt(rest, k, c), SiblingsIn(u, p), u)
      BY <1>7, <1>8
    <2> QED BY <2>1, OrderIs
  <1>10. k \in DOMAIN s
    BY <1>1, <1>4
  <1> QED BY <1>9, <1>10 DEF rest, c, s

\* The lists of all parents, the order that Category shows.
Orders == [p \in Parents |-> InOrder(p)]

LEMMA OneListChanges ==
  ASSUME NEW p \in Parents, NEW s, InOrder(p)' = s,
         \A o \in Parents \ {p} : InOrder(o)' = InOrder(o)
  PROVE  Orders' = [Orders EXCEPT ![p] = s]
  BY DEF Orders

LEMMA NoListChanges ==
  ASSUME \A o \in Parents : InOrder(o)' = InOrder(o)
  PROVE  Orders' = Orders
  BY DEF Orders

LEMMA AloneTables ==
  ASSUME Alone, Alone'
  PROVE  /\ cat \in Table /\ Orderly(cat) /\ cat' \in Table /\ Orderly(cat')
         /\ TypeOK /\ IInv
  BY DEF Alone, IInv, TypeOK, Table

\* A step after which p has the same live children in the same places.
LEMMA ListKept ==
  ASSUME Alone, Alone', NEW p,
         \A c \in CategoryIds :
           \/ /\ LiveIn(cat', c) <=> LiveIn(cat, c)
              /\ cat'[c].parent = cat[c].parent /\ cat'[c].position = cat[c].position
           \/ /\ LiveIn(cat, c) => cat[c].parent # p
              /\ LiveIn(cat', c) => cat'[c].parent # p
  PROVE  InOrder(p)' = InOrder(p)
  <1>1. SiblingsIn(cat', p) = SiblingsIn(cat, p)
    BY DEF SiblingsIn
  <1>2. \A c \in SiblingsIn(cat, p) : cat'[c].position = cat[c].position
    BY DEF SiblingsIn
  <1> QED BY <1>1, <1>2, AloneTables, OrderStays, InOrderIs

LEMMA CreateAddsLast ==
  ASSUME Alone, Alone', NEW r \in Requests, NEW c \in CategoryIds, Creates(r, c)
  PROVE  Siblings!Next
  <1>0. PICK p : p = req[r].parent
    OBVIOUS
  <1>1. /\ p \in Parents /\ ~LiveIn(cat, c) /\ LiveIn(cat', c)
        /\ cat'[c].parent = p /\ cat'[c].position = TopPosition(p) + 1
        /\ \A d \in CategoryIds : d # c => cat'[d] = cat[d]
    <2>1. /\ Exists(c)' /\ IsLive(c)' /\ req[r] \in Handler
          /\ cat'[c].parent = p /\ cat'[c].position = req[r].position
          /\ \A d \in CategoryIds : d # c => cat'[d] = cat[d]
      BY <1>0, AloneTables, CreatedRows
    <2>2. req[r].position = TopPosition(p) + 1
      BY <1>0 DEF Alone, SlotCurrent, Creates
    <2> QED BY <1>0, <2>1, <2>2 DEF Creates, Exists, LiveIn, IsLive, Handler, Parents
  <1>2. SiblingsIn(cat', p) = SiblingsIn(cat, p) \cup {c} /\ c \notin SiblingsIn(cat, p)
    BY <1>1 DEF SiblingsIn, LiveIn
  <1>3. ASSUME NEW d \in SiblingsIn(cat, p)
        PROVE  cat'[d].position = cat[d].position /\ cat'[d].position < cat'[c].position
    <2>1. d \in LiveSiblings(p)
      BY DEF SiblingsIn, LiveSiblings, LiveIn, IsLive
    <2>2. TopPosition(p) \in Int /\ cat[d].position <= TopPosition(p) /\ cat[d].position \in Int
      BY <2>1, AloneTables, TopPositionIsTop, SiblingPlaces DEF Places
    <2>3. cat'[d].position = cat[d].position
      BY <1>1, <1>2 DEF SiblingsIn
    <2> QED BY <1>1, <2>2, <2>3
  <1>4. InOrder(p)' = Append(InOrder(p), c)
    <2>1. cat \in Table /\ Orderly(cat) /\ cat' \in Table /\ Orderly(cat')
      BY AloneTables
    <2>2. /\ SiblingsIn(cat', p) = SiblingsIn(cat, p) \cup {c}
          /\ \A d \in SiblingsIn(cat, p) : cat'[d].position = cat[d].position
          /\ \A d \in SiblingsIn(cat, p) : cat'[d].position < cat'[c].position
      BY <1>2, <1>3
    <2>3. Lists(OrderIn(cat, p), SiblingsIn(cat, p), cat')
      BY <2>1, <2>2, OrderLists, SameList
    <2>4. Lists(Append(OrderIn(cat, p), c), SiblingsIn(cat, p) \cup {c}, cat')
      BY <2>2, <2>3, AppendLists
    <2>5. PICK s : s = Append(OrderIn(cat, p), c)
      OBVIOUS
    <2>6. Lists(s, SiblingsIn(cat', p), cat')
      BY <2>2, <2>4, <2>5
    <2>7. OrderIn(cat', p) = s
      BY <2>1, <2>6, OrderIs
    <2> QED BY <2>5, <2>7, InOrderIs
  <1>5. ASSUME NEW o \in Parents \ {p} PROVE InOrder(o)' = InOrder(o)
    <2>1. \A d \in CategoryIds :
            \/ /\ LiveIn(cat', d) <=> LiveIn(cat, d)
               /\ cat'[d].parent = cat[d].parent /\ cat'[d].position = cat[d].position
            \/ /\ LiveIn(cat, d) => cat[d].parent # o
               /\ LiveIn(cat', d) => cat'[d].parent # o
      BY <1>1 DEF LiveIn
    <2> QED BY <2>1, ListKept
  <1>6. Orders' = [Orders EXCEPT ![p] = Append(@, c)]
    <2>1. Orders[p] = InOrder(p)
      BY <1>1 DEF Orders
    <2> QED BY <1>1, <1>4, <1>5, <2>1, OneListChanges
  <1>7. c \notin Siblings!Listed
    <2>1. ASSUME NEW o \in Parents PROVE c \notin Siblings!ToSet(Orders[o])
      <3>1. Orders[o] = OrderIn(cat, o)
        BY InOrderIs DEF Orders
      <3>2. \A i \in DOMAIN OrderIn(cat, o) : OrderIn(cat, o)[i] \in SiblingsIn(cat, o)
        BY AloneTables, OrderHas
      <3>3. c \notin SiblingsIn(cat, o)
        BY <1>1 DEF SiblingsIn
      <3> QED BY <3>1, <3>2, <3>3 DEF Siblings!ToSet
    <2> QED BY <2>1 DEF Siblings!Listed, Orders, Parents
  <1>8. Siblings!AddLast(p, c)
    BY <1>6, <1>7 DEF Siblings!AddLast, Orders, Parents
  <1> QED BY <1>1, <1>8 DEF Siblings!Next, Parents

LEMMA DeleteTakesOut ==
  ASSUME Alone, Alone', NEW r \in Requests, Deletes(r)
  PROVE  Siblings!Next
  <1>0. PICK c : c = req[r].id
    OBVIOUS
  <1>1. /\ c \in CategoryIds /\ IsLive(c) /\ MatchedByDelete(c) = {c}
    <2>1. c \in CategoryIds /\ IsLive(c)
      BY <1>0 DEF Alone, IInv, HandlerNamed, SlotCurrent, Deletes
    <2> QED BY <1>0, <2>1, OneMatched DEF Deletes
  <1>2. /\ LiveIn(cat, c) /\ ~LiveIn(cat', c)
        /\ \A d \in CategoryIds : d # c => cat'[d] = cat[d]
    BY <1>0, <1>1, AloneTables, DeletedRows DEF LiveIn, IsLive
  <1>3. PICK p : p = cat[c].parent
    OBVIOUS
  <1>4. p \in Parents /\ c \in SiblingsIn(cat, p) /\ SiblingsIn(cat', p) = SiblingsIn(cat, p) \ {c}
    <2>1. p \in Parents
      BY <1>1, <1>3, AloneTables, RowTyped DEF IsLive, Exists, Parents
    <2>2. SiblingsIn(cat', p) = SiblingsIn(cat, p) \ {c}
      BY <1>2 DEF SiblingsIn, LiveIn
    <2> QED BY <1>1, <1>2, <1>3, <2>1, <2>2 DEF SiblingsIn
  <1>5. cat \in Table /\ Orderly(cat) /\ cat' \in Table /\ Orderly(cat')
    BY AloneTables
  <1>6. PICK i \in DOMAIN OrderIn(cat, p) : OrderIn(cat, p)[i] = c
    BY <1>4, <1>5, OrderHas
  <1>7. InOrder(p)' = RemoveAt(InOrder(p), i)
    <2>1. \A d \in SiblingsIn(cat', p) : cat'[d].position = cat[d].position
      BY <1>2, <1>4 DEF SiblingsIn
    <2>2. OrderIn(cat', p) = RemoveAt(OrderIn(cat, p), i)
      BY <1>4, <1>5, <1>6, <2>1, OrderShrinks
    <2> QED BY <2>2, InOrderIs
  <1>8. ASSUME NEW o \in Parents \ {p} PROVE InOrder(o)' = InOrder(o)
    <2>1. \A d \in CategoryIds :
            \/ /\ LiveIn(cat', d) <=> LiveIn(cat, d)
               /\ cat'[d].parent = cat[d].parent /\ cat'[d].position = cat[d].position
            \/ /\ LiveIn(cat, d) => cat[d].parent # o
               /\ LiveIn(cat', d) => cat'[d].parent # o
      BY <1>2, <1>3 DEF LiveIn
    <2> QED BY <2>1, ListKept
  <1>9. Orders[p] = InOrder(p) /\ i \in DOMAIN Orders[p]
    BY <1>4, <1>6, InOrderIs DEF Orders
  <1>10. Orders' = [Orders EXCEPT ![p] = RemoveAt(@, i)]
    BY <1>4, <1>7, <1>8, <1>9, OneListChanges
  <1>11. Siblings!TakeOut(p, i)
    BY <1>10 DEF Siblings!TakeOut, Siblings!RemoveAt, RemoveAt, Orders, Parents
  <1> QED BY <1>4, <1>9, <1>11 DEF Siblings!Next, Orders, Parents

\* A shift leaves the order of the rows it passes by as it was.
LEMMA ShiftKeepsOrder ==
  ASSUME NEW q, q.position \in Int, q.from \in Int, NEW x \in Int, NEW y \in Int,
         x # q.from, y # q.from, x < y
  PROVE  Shifted(q, x) < Shifted(q, y)
  BY DEF Shifted

LEMMA UpdateMoves ==
  ASSUME Alone, Alone', NEW r \in Requests, Updates(r)
  PROVE  Siblings!Next \/ UNCHANGED Orders
  <1>0. PICK q : q = req[r]
    OBVIOUS
  <1>1. /\ q.id \in CategoryIds /\ IsLive(q.id) /\ q.from = cat[q.id].position
        /\ q.parent = cat[q.id].parent /\ q.position \in Int /\ q.from \in Int
    BY <1>0 DEF Alone, IInv, TypeOK, Handler, HandlerNamed, SlotCurrent, Updates
  <1>2. \A d \in CategoryIds :
          /\ LiveIn(cat', d) <=> LiveIn(cat, d)
          /\ LiveIn(cat, d) => cat'[d].parent = cat[d].parent /\ cat'[d].position = Place(q, d)
    BY <1>0, AloneTables, UpdatedRows DEF LiveIn, Exists
  <1>3. PICK p : p = q.parent
    OBVIOUS
  <1>4. ASSUME NEW o \in Parents, o # p \/ q.position = 0 PROVE InOrder(o)' = InOrder(o)
    <2>1. \A d \in CategoryIds :
            \/ /\ LiveIn(cat', d) <=> LiveIn(cat, d)
               /\ cat'[d].parent = cat[d].parent /\ cat'[d].position = cat[d].position
            \/ /\ LiveIn(cat, d) => cat[d].parent # o
               /\ LiveIn(cat', d) => cat'[d].parent # o
      BY <1>1, <1>2, <1>3, <1>4 DEF Place, Moves
    <2> QED BY <2>1, ListKept
  <1>5. CASE q.position = 0
    BY <1>4, <1>5, NoListChanges
  <1>6. CASE q.position # 0
    <2>1. /\ p \in Parents /\ q.id \in SiblingsIn(cat, p)
          /\ SiblingsIn(cat', p) = SiblingsIn(cat, p)
      <3>1. p \in Parents
        BY <1>1, <1>3, AloneTables, RowTyped DEF IsLive, Exists, Parents
      <3>2. SiblingsIn(cat', p) = SiblingsIn(cat, p)
        BY <1>2 DEF SiblingsIn
      <3> QED BY <1>1, <1>3, <3>1, <3>2 DEF SiblingsIn, LiveIn, IsLive
    <2>2. cat \in Table /\ Orderly(cat) /\ cat' \in Table /\ Orderly(cat')
      BY AloneTables
    <2>3. PICK i \in DOMAIN OrderIn(cat, p) : OrderIn(cat, p)[i] = q.id
      BY <2>1, <2>2, OrderHas
    <2>4. ASSUME NEW c \in SiblingsIn(cat, p) \ {q.id}, NEW d \in SiblingsIn(cat, p) \ {q.id},
                 cat[c].position < cat[d].position
          PROVE  cat'[c].position < cat'[d].position
      <3>1. /\ \A e \in SiblingsIn(cat, p) : cat[e].position \in Int
            /\ \A e \in SiblingsIn(cat, p) \ {q.id} : cat[e].position # q.from
        BY <1>1, <2>1, <2>2, SiblingPlaces DEF Places
      <3>2. \A e \in SiblingsIn(cat, p) \ {q.id} : cat'[e].position = Shifted(q, cat[e].position)
        BY <1>2, <1>3, <1>6 DEF SiblingsIn, Place, Moves
      <3>3. Shifted(q, cat[c].position) < Shifted(q, cat[d].position)
        BY <1>1, <2>4, <3>1, ShiftKeepsOrder
      <3> QED BY <3>2, <3>3
    <2>5. PICK k \in DOMAIN OrderIn(cat, p) :
            OrderIn(cat', p) = InsertAt(RemoveAt(OrderIn(cat, p), i), k, OrderIn(cat, p)[i])
      BY <2>1, <2>2, <2>3, <2>4, OrderMoves
    <2>6. /\ InOrder(p)' = InsertAt(RemoveAt(InOrder(p), i), k, InOrder(p)[i])
          /\ Orders[p] = InOrder(p) /\ i \in DOMAIN Orders[p] /\ k \in DOMAIN Orders[p]
      BY <2>1, <2>5, InOrderIs DEF Orders
    <2>7. Orders' = [Orders EXCEPT ![p] = InsertAt(RemoveAt(@, i), k, @[i])]
      BY <1>4, <2>1, <2>6, OneListChanges
    <2>8. Siblings!Move(p, i, k)
      BY <2>7 DEF Siblings!Move, Siblings!RemoveAt, Siblings!InsertAt, RemoveAt, InsertAt,
                  Orders, Parents
    <2> QED BY <2>1, <2>6, <2>8 DEF Siblings!Next, Orders, Parents
  <1> QED BY <1>5, <1>6

\* One request at a time, with requests that name live categories: every step
\* leaves the lists alone, adds one at an end, moves one or takes one out.
THEOREM SiblingsLookLikeLists ==
  ASSUME NEW r, Requests = {r}, ~EditDeleted
  PROVE  Spec => SiblingsAreOrdered
  <1>1. Init => Siblings!Init
    <2> SUFFICES ASSUME Init PROVE \A p : InOrder(p) = <<>>
      BY DEF Siblings!Init, Parents
    <2>1. \A p : SiblingsIn(cat, p) = {}
      BY DEF Init, SiblingsIn, LiveIn
    <2>2. Places({}, cat) /\ Lists(<<>>, {}, cat)
      BY DEF Places, Lists
    <2>3. InOrderOf({}, cat) = <<>>
      BY <2>2, FS_EmptySet, OrderIsList, OneList
    <2> QED BY <2>1, <2>3, InOrderIs DEF OrderIn
  <1>2. ASSUME Alone, Alone', [Next]_vars PROVE Siblings!Next \/ UNCHANGED Orders
    <2>1. ASSUME UNCHANGED cat PROVE UNCHANGED Orders
      <3>1. \A p : InOrder(p)' = InOrder(p)
        BY <2>1, InOrderIs
      <3> QED BY <3>1, NoListChanges
    <2>2. ASSUME Switches(r) PROVE UNCHANGED Orders
      <3>1. \A c \in CategoryIds :
              /\ ~Exists(c) => cat'[c] = None
              /\ Exists(c) => /\ Exists(c)' /\ cat'[c].deleted = cat[c].deleted
                              /\ cat'[c].parent = cat[c].parent
                              /\ cat'[c].position = cat[c].position
        BY <1>2, <2>2, AloneTables, SwitchedRows
      <3>2. ASSUME NEW p PROVE InOrder(p)' = InOrder(p)
        <4>1. \A c \in CategoryIds :
                \/ /\ LiveIn(cat', c) <=> LiveIn(cat, c)
                   /\ cat'[c].parent = cat[c].parent /\ cat'[c].position = cat[c].position
                \/ /\ LiveIn(cat, c) => cat[c].parent # p
                   /\ LiveIn(cat', c) => cat'[c].parent # p
          BY <3>1 DEF LiveIn, Exists
        <4> QED BY <1>2, <4>1, ListKept
      <3> QED BY <3>2, NoListChanges
    <2>3. UNCHANGED cat \/ Writes(r)
      BY <1>2, StepWrites
    <2> QED BY <1>2, <2>1, <2>2, <2>3, CreateAddsLast, UpdateMoves, DeleteTakesOut DEF Writes
  <1>3. Alone /\ Alone' /\ [Next]_vars => [Siblings!Next]_Orders
    BY <1>2
  <1> QED
    BY AloneInvariant, <1>1, <1>3, PTL
       DEF Spec, SiblingsAreOrdered, Siblings!Spec, Orders, Parents
=============================================================================
