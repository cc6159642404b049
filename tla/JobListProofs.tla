---------------------------- MODULE JobListProofs ----------------------------
(***************************************************************************)
(* Theorems about module JobList, for every number of processes: what the  *)
(* walk along a linked list finds, what linking a job to the list and      *)
(* cutting one out do to it, and what the list keeps up in the hands of a  *)
(* careful user.                                                           *)
(***************************************************************************)
EXTENDS JobListProperties, FiniteSetTheorems, SequenceTheorems, TLAPS

-----------------------------------------------------------------------------
(* A nonempty set of numbers has a least element.  The argument counts     *)
(* its lower bounds: there are as many as the least element plus one.      *)
LEMMA LeastElement ==
    ASSUME NEW S \in SUBSET Nat, S # {}
    PROVE  \E m \in S : \A k \in S : m <= k
<1>1. PICK n \in S : TRUE
  OBVIOUS
<1> DEFINE Below == {k \in 0..n : \A f \in S : k <= f}
           c == Cardinality(Below)
<1>2. IsFiniteSet(0..n) /\ Below \in SUBSET (0..n)
  BY FS_Interval
<1>3. IsFiniteSet(Below) /\ c \in Nat
  BY <1>2, FS_Subset, FS_CardinalityType
<1> HIDE DEF c
<1>4. ASSUME NEW k \in Below PROVE k + 1 <= c
  <2>1. 0..k \in SUBSET Below
    OBVIOUS
  <2>2. Cardinality(0..k) = k + 1
    BY FS_Interval
  <2> QED
    BY <1>3, <2>1, <2>2, FS_Subset DEF c
<1>5. Below = 0..c - 1
  <2>1. Below \in SUBSET (0..c - 1)
    <3>1. \A k \in Below : k \in Nat /\ k <= c - 1
      BY <1>3, <1>4
    <3> QED
      BY <1>3, <3>1
  <2>2. IsFiniteSet(0..c - 1) /\ Cardinality(0..c - 1) = c
    BY <1>3, FS_Interval
  <2> QED
    BY <2>1, <2>2, FS_Subset DEF c
<1>6. 0 \in Below
  OBVIOUS
<1>7. c - 1 \in Below /\ c \notin Below
  <2> HIDE DEF Below
  <2>1. 0 \in 0..c - 1
    BY <1>5, <1>6
  <2>2. c - 1 \in 0..c - 1 /\ c \notin 0..c - 1
    BY <1>3, <2>1
  <2> QED
    BY <1>5, <2>2
<1> QED
  BY <1>3, <1>7

(* Induction over the natural numbers, for a set: what is missing from it  *)
(* would have a least element.                                             *)
LEMMA SetInduction ==
    ASSUME NEW S \in SUBSET Nat, 0 \in S, \A n \in S : n + 1 \in S
    PROVE  S = Nat
<1> SUFFICES ASSUME S # Nat PROVE FALSE
  OBVIOUS
<1>1. PICK m \in Nat \ S : \A k \in Nat \ S : m <= k
  <2>1. Nat \ S \in SUBSET Nat /\ Nat \ S # {}
    OBVIOUS
  <2> QED
    BY <2>1, LeastElement
<1>2. m # 0 /\ m - 1 \in Nat
  BY <1>1
<1>3. m - 1 \in S
  BY <1>1, <1>2
<1>4. (m - 1) + 1 \in S
  BY <1>3
<1> QED
  BY <1>1, <1>4

(* Max and Min of a set of numbers between 1 and a bound.                  *)
LEMMA Extremes ==
    ASSUME NEW n \in Nat, NEW S \in SUBSET (1..n), S # {}
    PROVE  /\ Max(S) \in S /\ \A k \in S : k <= Max(S)
           /\ Min(S) \in S /\ \A k \in S : Min(S) <= k
<1>1. \E m \in S : \A k \in S : m <= k
  BY LeastElement
<1>2. Min(S) \in S /\ \A k \in S : Min(S) <= k
  BY <1>1 DEF Min
<1> DEFINE above == {m \in Nat : \A k \in S : k <= m}
<1>3. PICK m \in above : \A k \in above : m <= k
  <2>1. above \in SUBSET Nat /\ n \in above
    OBVIOUS
  <2> HIDE DEF above
  <2> QED
    BY <2>1, LeastElement
<1>4. m \in S
  <2>1. SUFFICES ASSUME m \notin S PROVE FALSE
    OBVIOUS
  <2>2. \A k \in S : k <= m - 1
    BY <2>1
  <2>3. m - 1 \in Nat
    <3>1. \E k \in S : k \in 1..n
      OBVIOUS
    <3> QED
      BY <2>2, <3>1
  <2>4. m - 1 \in above
    BY <2>2, <2>3
  <2> QED
    BY <1>3, <2>4
<1>5. \E x \in S : \A y \in S : x >= y
  BY <1>3, <1>4
<1>6. Max(S) \in S /\ \A k \in S : k <= Max(S)
  BY <1>5 DEF Max
<1> QED
  BY <1>2, <1>6

-----------------------------------------------------------------------------
(* The walk along the list that starts at first and goes on with next: the *)
(* function nth of the model, for any list.                                *)
Along(first, links) ==
    LET walk[i \in 1..MaxPid + 1] ==
            IF i = 1 THEN first
            ELSE IF walk[i - 1] = NULL THEN NULL ELSE links[walk[i - 1]]
    IN  walk
Onward(links, p) == IF p = NULL THEN NULL ELSE links[p]

(* The walk is what its recursive definition says: there is such a         *)
(* function.                                                               *)
LEMMA WalkExists ==
    ASSUME NEW h, NEW nx
    PROVE  Along(h, nx) = [i \in 1..MaxPid + 1 |->
                IF i = 1 THEN h ELSE Onward(nx, Along(h, nx)[i - 1])]
<1> DEFINE Recursive(g, n) ==
               g = [i \in 1..n |-> IF i = 1 THEN h ELSE Onward(nx, g[i - 1])]
           S == {n \in Nat : \E g : Recursive(g, n)}
<1>1. 0 \in S
  <2>1. Recursive([i \in 1..0 |-> h], 0)
    OBVIOUS
  <2> QED
    BY <2>1
<1>2. ASSUME NEW n \in S PROVE n + 1 \in S
  <2>1. PICK g : Recursive(g, n)
    OBVIOUS
  <2> DEFINE last == IF n = 0 THEN h ELSE Onward(nx, g[n])
             longer == [i \in 1..n + 1 |-> IF i = n + 1 THEN last ELSE g[i]]
  <2>2. \A i \in 1..n : longer[i] = g[i] /\ g[i] = IF i = 1 THEN h ELSE Onward(nx, g[i - 1])
    BY <2>1
  <2>3. \A i \in 1..n + 1 : longer[i] = IF i = 1 THEN h ELSE Onward(nx, longer[i - 1])
    <3> TAKE i \in 1..n + 1
    <3>1. CASE i = n + 1
      BY <2>2, <3>1
    <3>2. CASE i # n + 1
      BY <2>2, <3>2
    <3> QED
      BY <3>1, <3>2
  <2>4. Recursive(longer, n + 1)
    BY <2>3
  <2> HIDE DEF Recursive, longer
  <2> QED
    BY <2>4
<1>3. S = Nat
  <2> HIDE DEF S
  <2>1. S \in SUBSET Nat
    BY DEF S
  <2> QED
    BY <1>1, <1>2, <2>1, SetInduction
<1>4. \E g : Recursive(g, MaxPid + 1)
  <2>1. MaxPid + 1 \in Nat
    BY JobListAssumption
  <2>2. MaxPid + 1 \in S
    <3> HIDE DEF S
    <3> QED
      BY <1>3, <2>1
  <2> HIDE DEF Recursive
  <2> QED
    BY <2>2
<1> QED
  BY <1>4 DEF Along, Onward

-----------------------------------------------------------------------------
(* There are finitely many pids.                                           *)
LEMMA PidsFinite == IsFiniteSet(Pids) /\ Cardinality(Pids) = MaxPid
<1>1. MaxPid \in Nat /\ MaxPid >= 1
  BY JobListAssumption
<1>2. IsFiniteSet(1..MaxPid) /\ Cardinality(1..MaxPid) = MaxPid
  BY <1>1, FS_Interval
<1> QED
  BY <1>2 DEF Pids

(* The list that starts at h and is linked by nx holds the jobs s[1] to    *)
(* s[n], in the order of their numbers.                                    *)
Order(h, nx, jb, n, s) ==
    /\ n \in Nat /\ s \in [1..n -> Pids]
    /\ h = IF n = 0 THEN NULL ELSE s[1]
    /\ \A i \in 1..n : nx[s[i]] = IF i = n THEN NULL ELSE s[i + 1]
    /\ \A i, j \in 1..n : i < j => jb[s[i]].number < jb[s[j]].number
Among(n, s) == {s[i] : i \in 1..n}

(* The same without the order: the list holds the jobs L.                  *)
Holds(h, nx, jb, L) == \E n, s : Order(h, nx, jb, n, s) /\ Among(n, s) = L

(* What linking does: p becomes the first job before the one that was, h;  *)
(* p becomes the successor of the last one; the k-th job is bypassed.      *)
LinksFirst(h, nx, nx2, p) == nx2[p] = h /\ \A q \in Pids \ {p} : nx2[q] = nx[q]
LinksLast(last, nx, nx2, p) ==
    nx2[last] = p /\ nx2[p] = NULL /\ \A q \in Pids \ {p, last} : nx2[q] = nx[q]
Bypasses(h, nx, h2, nx2, s, k) ==
    /\ h2 = IF k = 1 THEN nx[h] ELSE h
    /\ \A q \in Pids : nx2[q] = IF k # 1 /\ q = s[k - 1] THEN nx[s[k]] ELSE nx[q]
Lowest(jb, jb2, L, p) == \A q \in L : jb2[q] = jb[q] /\ jb2[p].number < jb[q].number
Highest(jb, jb2, L, p) == \A q \in L : jb2[q] = jb[q] /\ jb[q].number < jb2[p].number
SameNumbers(jb, jb2, L) == \A q \in L : jb2[q].number = jb[q].number

(* The walk along such a list finds its jobs in this order, and there are  *)
(* no more of them than pids: a number is in the list once.                *)
LEMMA WalkIsOrder ==
    ASSUME NEW h, NEW nx, NEW jb, NEW n, NEW s, Order(h, nx, jb, n, s),
           \A p \in Pids : jb[p].number \in Nat
    PROVE  /\ n <= MaxPid
           /\ \A i, j \in 1..n : s[i] = s[j] => i = j
           /\ \A i \in 1..MaxPid + 1 : Along(h, nx)[i] = IF i <= n THEN s[i] ELSE NULL
<1>0. Along(h, nx) = [i \in 1..MaxPid + 1 |->
                        IF i = 1 THEN h ELSE Onward(nx, Along(h, nx)[i - 1])]
  BY WalkExists
<1> USE DEF Order
<1>1. \A i, j \in 1..n : s[i] = s[j] => i = j
  <2> SUFFICES ASSUME NEW i \in 1..n, NEW j \in 1..n, s[i] = s[j], i # j PROVE FALSE
    OBVIOUS
  <2>1. s[i] \in Pids /\ s[j] \in Pids
    OBVIOUS
  <2>2. jb[s[i]].number < jb[s[j]].number \/ jb[s[j]].number < jb[s[i]].number
    <3>1. i < j \/ j < i
      OBVIOUS
    <3> QED
      BY <3>1
  <2> QED
    BY <2>1, <2>2
<1>2. n <= MaxPid
  <2>1. s \in Injection(1..n, Pids)
    BY <1>1 DEF Injection, IsInjective
  <2>2. Cardinality(1..n) = n
    BY FS_Interval
  <2> QED
    BY <2>1, <2>2, PidsFinite, FS_Injection
<1> DEFINE w == Along(h, nx)
           val(i) == IF i <= n THEN s[i] ELSE NULL
           S == {k \in Nat : k + 1 \in 1..MaxPid + 1 => w[k + 1] = val(k + 1)}
<1>3. w = [i \in 1..MaxPid + 1 |-> IF i = 1 THEN h ELSE Onward(nx, w[i - 1])]
  BY <1>0
<1> HIDE DEF w
<1>4. 0 \in S
  BY <1>3, JobListAssumption
<1>5. ASSUME NEW k \in S PROVE k + 1 \in S
  <2>1. SUFFICES ASSUME k + 2 \in 1..MaxPid + 1 PROVE w[k + 2] = val(k + 2)
    OBVIOUS
  <2>2. k \in Nat /\ k + 1 \in 1..MaxPid + 1 /\ (k + 2) - 1 = k + 1 /\ k + 2 # 1
    BY <2>1, JobListAssumption
  <2>3. w[k + 1] = val(k + 1)
    BY <2>2
  <2>4. w[k + 2] = Onward(nx, w[k + 1])
    BY <1>3, <2>1, <2>2
  <2>5. Onward(nx, val(k + 1)) = val(k + 2)
    <3>1. CASE k + 1 <= n
      <4>1. k + 1 \in 1..n /\ s[k + 1] \in Pids /\ s[k + 1] # NULL
        BY <2>2, <3>1 DEF Pids, NULL
      <4>2. nx[s[k + 1]] = IF k + 1 = n THEN NULL ELSE s[k + 2]
        BY <4>1
      <4> QED
        BY <2>2, <3>1, <4>1, <4>2 DEF Onward
    <3>2. CASE ~(k + 1 <= n)
      BY <2>2, <3>2 DEF Onward
    <3> QED
      BY <3>1, <3>2
  <2> QED
    BY <2>3, <2>4, <2>5
<1>6. S = Nat
  <2> HIDE DEF S
  <2>1. S \in SUBSET Nat
    BY DEF S
  <2> QED
    BY <1>4, <1>5, <2>1, SetInduction
<1>7. ASSUME NEW i \in 1..MaxPid + 1 PROVE w[i] = val(i)
  <2>1. i - 1 \in Nat /\ (i - 1) + 1 = i
    BY JobListAssumption
  <2>2. i - 1 \in S
    <3> HIDE DEF S
    <3> QED
      BY <1>6, <2>1
  <2> QED
    BY <2>1, <2>2
<1> QED
  BY <1>1, <1>2, <1>7 DEF w

(* A job put before the others of a list, or into an empty one.            *)
LEMMA PutFirst ==
    ASSUME NEW h, NEW nx, NEW jb, NEW L, Holds(h, nx, jb, L),
           NEW p \in Pids, p \notin L, NEW nx2, NEW jb2,
           LinksFirst(h, nx, nx2, p), Lowest(jb, jb2, L, p)
    PROVE  Holds(p, nx2, jb2, L \cup {p})
<1>0. PICK n, s : Order(h, nx, jb, n, s) /\ L = Among(n, s)
  BY DEF Holds
<1>a. nx2[p] = h /\ \A q \in Pids \ {p} : nx2[q] = nx[q]
  BY DEF LinksFirst
<1>b. \A q \in Among(n, s) : jb2[q] = jb[q] /\ jb2[p].number < jb[q].number
  BY <1>0 DEF Lowest
<1> DEFINE s2 == [i \in 1..n + 1 |-> IF i = 1 THEN p ELSE s[i - 1]]
<1> USE DEF Order
<1>1. n \in Nat /\ s \in [1..n -> Pids] /\ n + 1 \in Nat
  BY <1>0
<1>2. /\ s2 \in [1..n + 1 -> Pids] /\ s2[1] = p
      /\ \A i \in 2..n + 1 : s2[i] = s[i - 1] /\ i - 1 \in 1..n
      /\ \A i \in 1..n : s2[i + 1] = s[i] /\ i + 1 \in 2..n + 1
  BY <1>1
<1> HIDE DEF s2
<1>3. \A i \in 1..n : s[i] \in Among(n, s) /\ s[i] # p /\ s[i] \in Pids
  BY <1>0, <1>1 DEF Among
<1>4. ASSUME NEW i \in 1..n + 1
      PROVE  nx2[s2[i]] = IF i = n + 1 THEN NULL ELSE s2[i + 1]
  <2>1. CASE i = 1
    BY <1>0, <1>a, <1>1, <1>2, <2>1
  <2>2. CASE i # 1
    <3>1. i - 1 \in 1..n /\ s2[i] = s[i - 1] /\ (i - 1) + 1 = i
      BY <1>1, <1>2, <2>2
    <3>2. nx2[s2[i]] = nx[s[i - 1]]
      BY <1>a, <1>3, <3>1
    <3>3. i # n + 1 => s2[i + 1] = s[i]
      BY <1>1, <1>2, <2>2
    <3> QED
      BY <1>0, <1>1, <3>1, <3>2, <3>3
  <2> QED
    BY <2>1, <2>2
<1>5. ASSUME NEW i \in 1..n + 1, NEW j \in 1..n + 1, i < j
      PROVE  jb2[s2[i]].number < jb2[s2[j]].number
  <2>1. j - 1 \in 1..n /\ s2[j] = s[j - 1]
    BY <1>1, <1>2, <1>5
  <2>2. CASE i = 1
    BY <1>b, <1>2, <1>3, <2>1, <2>2
  <2>3. CASE i # 1
    <3>1. i - 1 \in 1..n /\ s2[i] = s[i - 1] /\ i - 1 < j - 1
      BY <1>1, <1>2, <1>5, <2>3
    <3> QED
      BY <1>0, <1>b, <1>3, <2>1, <3>1
  <2> QED
    BY <2>2, <2>3
<1>6. Among(n + 1, s2) = Among(n, s) \cup {p}
  <2>1. ASSUME NEW i \in 1..n + 1 PROVE s2[i] \in Among(n, s) \cup {p}
    <3>1. CASE i = 1
      BY <1>2, <3>1
    <3>2. CASE i # 1
      <4>1. i \in 2..n + 1
        BY <1>1, <3>2
      <4> QED
        BY <1>2, <1>3, <4>1
    <3> QED
      BY <3>1, <3>2
  <2>2. \A i \in 1..n : i + 1 \in 1..n + 1 /\ s2[i + 1] = s[i]
    BY <1>1, <1>2
  <2>3. 1 \in 1..n + 1
    BY <1>1
  <2>4. p \in Among(n + 1, s2)
    BY <1>2, <2>3 DEF Among
  <2>5. Among(n, s) \subseteq Among(n + 1, s2)
    BY <2>2 DEF Among
  <2>6. Among(n + 1, s2) \subseteq Among(n, s) \cup {p}
    BY <2>1 DEF Among
  <2> QED
    BY <2>4, <2>5, <2>6
<1>7. Order(p, nx2, jb2, n + 1, s2)
  BY <1>1, <1>2, <1>4, <1>5
<1> QED
  BY <1>0, <1>6, <1>7 DEF Holds

(* The job that has no successor is the last one, and has the highest      *)
(* number.                                                                 *)
LEMMA LastHighest ==
    ASSUME NEW h, NEW nx, NEW jb, NEW n, NEW s, Order(h, nx, jb, n, s),
           \A q \in Pids : jb[q].number \in Nat,
           NEW last \in Among(n, s), nx[last] = NULL
    PROVE  /\ last = s[n] /\ n # 0
           /\ \A q \in Among(n, s) : jb[q].number <= jb[last].number
<1>1. n \in Nat /\ s \in [1..n -> Pids]
  BY DEF Order
<1>2. PICK k \in 1..n : s[k] = last
  BY DEF Among
<1>3. k = n
  <2>1. nx[s[k]] = IF k = n THEN NULL ELSE s[k + 1]
    BY DEF Order
  <2>2. k # n => s[k + 1] \in Pids
    BY <1>1
  <2> QED
    BY <1>2, <2>1, <2>2 DEF Pids, NULL
<1>4. \A i \in 1..n : jb[s[i]].number <= jb[s[n]].number
  <2>1. \A i \in 1..n : i # n => i < n
    BY <1>1
  <2>2. \A i \in 1..n : i # n => jb[s[i]].number < jb[s[n]].number
    BY <1>2, <1>3, <2>1 DEF Order
  <2>3. \A i \in 1..n : jb[s[i]].number \in Nat
    BY <1>1
  <2> QED
    BY <1>2, <1>3, <2>2, <2>3
<1>5. n # 0
  BY <1>1, <1>2
<1> QED
  BY <1>2, <1>3, <1>4, <1>5 DEF Among

(* A job put behind the others of a list.                                  *)
LEMMA PutLast ==
    ASSUME NEW h, NEW nx, NEW jb, NEW L, Holds(h, nx, jb, L),
           \A q \in Pids : jb[q].number \in Nat,
           NEW p \in Pids, p \notin L, NEW last \in L, nx[last] = NULL, NEW nx2, NEW jb2,
           LinksLast(last, nx, nx2, p), Highest(jb, jb2, L, p)
    PROVE  Holds(h, nx2, jb2, L \cup {p})
<1>0. PICK n, s : Order(h, nx, jb, n, s) /\ L = Among(n, s)
  BY DEF Holds
<1>a. last = s[n] /\ n # 0
  BY <1>0, LastHighest
<1>b. nx2[s[n]] = p /\ nx2[p] = NULL /\ \A q \in Pids \ {p, s[n]} : nx2[q] = nx[q]
  BY <1>a DEF LinksLast
<1>c. \A q \in Among(n, s) : jb2[q] = jb[q] /\ jb[q].number < jb2[p].number
  BY <1>0 DEF Highest
<1>d. \A i, j \in 1..n : s[i] = s[j] => i = j
  BY <1>0, WalkIsOrder
<1> DEFINE s2 == [i \in 1..n + 1 |-> IF i = n + 1 THEN p ELSE s[i]]
<1> USE DEF Order
<1>1. n \in Nat /\ s \in [1..n -> Pids] /\ n + 1 \in Nat /\ 1 \in 1..n /\ n \in 1..n
  BY <1>0, <1>a
<1>2. /\ s2 \in [1..n + 1 -> Pids] /\ s2[n + 1] = p
      /\ \A i \in 1..n : s2[i] = s[i] /\ i \in 1..n + 1
  BY <1>1
<1> HIDE DEF s2
<1>3. \A i \in 1..n : s[i] \in Among(n, s) /\ s[i] # p /\ s[i] \in Pids
  BY <1>0, <1>1 DEF Among
<1>4. ASSUME NEW i \in 1..n + 1
      PROVE  nx2[s2[i]] = IF i = n + 1 THEN NULL ELSE s2[i + 1]
  <2>1. CASE i = n + 1
    BY <1>b, <1>1, <1>2, <2>1
  <2>2. CASE i = n
    BY <1>b, <1>1, <1>2, <2>2
  <2>3. CASE i \in 1..n /\ i # n
    <3>1. i + 1 \in 1..n /\ s2[i + 1] = s[i + 1] /\ i # n + 1
      BY <1>1, <1>2, <2>3
    <3>2. s[i] # s[n] /\ s[i] # p /\ s[i] \in Pids
      BY <1>d, <1>1, <1>3, <2>3
    <3> QED
      BY <1>0, <1>b, <1>2, <2>3, <3>1, <3>2
  <2> QED
    BY <1>1, <2>1, <2>2, <2>3
<1>5. ASSUME NEW i \in 1..n + 1, NEW j \in 1..n + 1, i < j
      PROVE  jb2[s2[i]].number < jb2[s2[j]].number
  <2>1. i \in 1..n /\ s2[i] = s[i]
    BY <1>1, <1>2, <1>5
  <2>2. CASE j = n + 1
    BY <1>c, <1>2, <1>3, <2>1, <2>2
  <2>3. CASE j # n + 1
    <3>1. j \in 1..n /\ s2[j] = s[j]
      BY <1>1, <1>2, <2>3
    <3> QED
      BY <1>0, <1>c, <1>3, <1>5, <2>1, <3>1
  <2> QED
    BY <2>2, <2>3
<1>6. Among(n + 1, s2) = Among(n, s) \cup {p}
  <2>1. ASSUME NEW i \in 1..n + 1 PROVE s2[i] \in Among(n, s) \cup {p}
    <3>1. CASE i = n + 1
      BY <1>2, <3>1
    <3>2. CASE i # n + 1
      <4>1. i \in 1..n
        BY <1>1, <3>2
      <4> QED
        BY <1>2, <1>3, <4>1
    <3> QED
      BY <3>1, <3>2
  <2>2. n + 1 \in 1..n + 1
    BY <1>1
  <2> QED
    BY <1>2, <2>1, <2>2 DEF Among
<1>7. Order(h, nx2, jb2, n + 1, s2)
  BY <1>0, <1>a, <1>1, <1>2, <1>4, <1>5
<1> QED
  BY <1>0, <1>6, <1>7 DEF Holds

(* The k-th job cut out of a list.                                         *)
LEMMA CutOut ==
    ASSUME NEW h, NEW nx, NEW jb, NEW n, NEW s, Order(h, nx, jb, n, s),
           \A q \in Pids : jb[q].number \in Nat,
           NEW k \in 1..n, NEW h2, NEW nx2, NEW jb2, NEW p, p = s[k],
           Bypasses(h, nx, h2, nx2, s, k), SameNumbers(jb, jb2, Among(n, s) \ {p})
    PROVE  Holds(h2, nx2, jb2, Among(n, s) \ {p})
<1>a. \A i, j \in 1..n : s[i] = s[j] => i = j
  BY WalkIsOrder
<1>b. /\ h2 = IF k = 1 THEN nx[h] ELSE h
      /\ \A q \in Pids : nx2[q] = IF k # 1 /\ q = s[k - 1] THEN nx[s[k]] ELSE nx[q]
  BY DEF Bypasses
<1>c. \A q \in Among(n, s) \ {s[k]} : jb2[q].number = jb[q].number
  BY DEF SameNumbers
<1> DEFINE s2 == [i \in 1..n - 1 |-> IF i < k THEN s[i] ELSE s[i + 1]]
           old(i) == IF i < k THEN i ELSE i + 1
<1> USE DEF Order
<1>1. n \in Nat /\ s \in [1..n -> Pids] /\ n - 1 \in Nat /\ k \in Int /\ k >= 1 /\ k <= n
  OBVIOUS
<1>2. \A i \in 1..n - 1 : old(i) \in 1..n /\ s2[i] = s[old(i)] /\ old(i) # k /\ s[old(i)] \in Pids
  BY <1>1
<1>3. s2 \in [1..n - 1 -> Pids]
  BY <1>1
<1>4. \A i \in 1..n - 1 : s2[i] \in Among(n, s) \ {s[k]}
  BY <1>a, <1>1, <1>2 DEF Among
<1> HIDE DEF s2
<1>5. ASSUME NEW i \in 1..n - 1
      PROVE  nx2[s2[i]] = IF i = n - 1 THEN NULL ELSE s2[i + 1]
  <2>1. CASE i < k - 1
    <3>1. i + 1 \in 1..n - 1 /\ old(i) = i /\ old(i + 1) = i + 1 /\ i # n - 1 /\ k - 1 \in 1..n
      BY <1>1, <2>1
    <3>2. s[i] # s[k - 1]
      BY <1>a, <1>1, <2>1, <3>1
    <3> QED
      BY <1>b, <1>1, <1>2, <3>1, <3>2
  <2>2. CASE i = k - 1
    <3>1. old(i) = i /\ k # 1 /\ nx2[s2[i]] = nx[s[k]]
      BY <1>b, <1>1, <1>2, <2>2
    <3>2. i # n - 1 => i + 1 \in 1..n - 1 /\ s2[i + 1] = s[k + 1] /\ k # n
      BY <1>1, <1>2, <2>2
    <3> QED
      BY <1>1, <2>2, <3>1, <3>2
  <2>3. CASE i >= k
    <3>1. old(i) = i + 1 /\ s2[i] = s[i + 1] /\ i + 1 \in 1..n
      BY <1>1, <1>2, <2>3
    <3>2. k # 1 => s[i + 1] # s[k - 1]
      BY <1>a, <1>1, <2>3, <3>1
    <3>3. nx2[s2[i]] = nx[s[i + 1]]
      BY <1>b, <1>1, <3>1, <3>2
    <3>4. i # n - 1 => i + 1 \in 1..n - 1 /\ s2[i + 1] = s[i + 2] /\ i + 1 # n
      BY <1>1, <1>2, <2>3
    <3> QED
      BY <1>1, <3>1, <3>3, <3>4
  <2> QED
    BY <1>1, <2>1, <2>2, <2>3
<1>6. ASSUME NEW i \in 1..n - 1, NEW j \in 1..n - 1, i < j
      PROVE  jb2[s2[i]].number < jb2[s2[j]].number
  <2>1. old(i) < old(j)
    BY <1>1, <1>6
  <2>2. jb[s[old(i)]].number < jb[s[old(j)]].number
    BY <1>2, <2>1
  <2> QED
    BY <1>c, <1>2, <1>4, <2>2
<1>7. h2 = IF n - 1 = 0 THEN NULL ELSE s2[1]
  <2>1. CASE k = 1
    <3>1. h2 = nx[s[1]] /\ 1 \in 1..n
      BY <1>b, <1>1, <2>1
    <3>2. n - 1 # 0 => 1 \in 1..n - 1 /\ s2[1] = s[2]
      BY <1>1, <1>2, <2>1
    <3> QED
      BY <1>1, <3>1, <3>2
  <2>2. CASE k # 1
    <3>1. n - 1 # 0 /\ 1 \in 1..n - 1 /\ s2[1] = s[1]
      BY <1>1, <1>2, <2>2
    <3> QED
      BY <1>b, <1>1, <2>2, <3>1
  <2> QED
    BY <2>1, <2>2
<1>8. Among(n - 1, s2) = Among(n, s) \ {s[k]}
  <2>1. ASSUME NEW i \in 1..n, i # k PROVE s[i] \in Among(n - 1, s2)
    <3>1. CASE i < k
      <4>1. i \in 1..n - 1 /\ s2[i] = s[i]
        BY <1>1, <1>2, <3>1
      <4> QED
        BY <4>1 DEF Among
    <3>2. CASE i > k
      <4>1. i - 1 \in 1..n - 1 /\ s2[i - 1] = s[i]
        BY <1>1, <1>2, <3>2
      <4> QED
        BY <4>1 DEF Among
    <3> QED
      BY <1>1, <2>1, <3>1, <3>2
  <2> QED
    BY <1>4, <2>1 DEF Among
<1>9. Order(h2, nx2, jb2, n - 1, s2)
  BY <1>1, <1>3, <1>5, <1>6, <1>7
<1> QED
  BY <1>8, <1>9 DEF Holds
-----------------------------------------------------------------------------
(* What the walk along the list finds.                                     *)
LEMMA WalkFinds ==
    ASSUME NEW h, NEW nx, NEW jb, NEW n, NEW s, Order(h, nx, jb, n, s),
           \A p \in Pids : jb[p].number \in Nat
    PROVE  /\ Along(h, nx)[MaxPid + 1] = NULL
           /\ {i \in 1..MaxPid : Along(h, nx)[i] # NULL} = 1..n
           /\ \A i \in 1..n : Along(h, nx)[i] = s[i] /\ i \in 1..MaxPid /\ s[i] \in Pids
<1>1. /\ n <= MaxPid
      /\ \A i \in 1..MaxPid + 1 : Along(h, nx)[i] = IF i <= n THEN s[i] ELSE NULL
  BY WalkIsOrder
<1>2. n \in Nat /\ s \in [1..n -> Pids]
  BY DEF Order
<1>3. MaxPid \in Nat
  BY JobListAssumption
<1>4. \A i \in 1..n : s[i] \in Pids /\ s[i] # NULL /\ i \in 1..MaxPid /\ i \in 1..MaxPid + 1
  BY <1>1, <1>2, <1>3 DEF Pids, NULL
<1>5. \A i \in 1..MaxPid : i \in 1..MaxPid + 1 /\ (i \in 1..n <=> i <= n)
  BY <1>2, <1>3
<1>6. MaxPid + 1 \in 1..MaxPid + 1 /\ ~(MaxPid + 1 <= n)
  BY <1>1, <1>2, <1>3
<1>7. {i \in 1..MaxPid : Along(h, nx)[i] # NULL} = 1..n
  BY <1>1, <1>4, <1>5
<1> QED
  BY <1>1, <1>2, <1>4, <1>6, <1>7

(* The list as the model sees it, in this state.                           *)
LEMMA ListFacts ==
    ASSUME NEW n, NEW s, Order(head, next, job, n, s), TypeOK
    PROVE  /\ Positions = 1..n
           /\ \A i \in 1..n : nth[i] = s[i] /\ s[i] \in Pids
           /\ Listed = Among(n, s)
           /\ ~Cyclic
           /\ \A i, j \in 1..n : s[i] = s[j] => i = j
           /\ n \in 0..MaxPid /\ s \in [1..n -> Pids]
<1>1. nth = Along(head, next)
  BY DEF nth, Along
<1>2. \A p \in Pids : job[p].number \in Nat
  BY JobListAssumption DEF TypeOK
<1>3. /\ nth[MaxPid + 1] = NULL
      /\ {i \in 1..MaxPid : nth[i] # NULL} = 1..n
      /\ \A i \in 1..n : nth[i] = s[i] /\ i \in 1..MaxPid /\ s[i] \in Pids
  BY <1>1, <1>2, WalkFinds
<1>4. \A i, j \in 1..n : s[i] = s[j] => i = j
  BY <1>2, WalkIsOrder
<1>5. n <= MaxPid
  BY <1>2, WalkIsOrder
<1>6. n \in 0..MaxPid /\ s \in [1..n -> Pids]
  BY <1>5, JobListAssumption DEF Order
<1>7. Positions = 1..n
  BY <1>3 DEF Positions
<1>8. Listed = Among(n, s)
  BY <1>3, <1>7 DEF Listed, Among
<1> QED
  BY <1>3, <1>4, <1>6, <1>7, <1>8 DEF Cyclic

(* The list as the model sees it, in the next state.                       *)
LEMMA ListFactsNext ==
    ASSUME NEW n, NEW s, Order(head', next', job', n, s),
           \A p \in Pids : job'[p].number \in Nat
    PROVE  Listed' = Among(n, s) /\ n \in 0..MaxPid /\ s \in [1..n -> Pids]
<1>1. nth' = Along(head', next')
  BY DEF nth, Along
<1>3. /\ {i \in 1..MaxPid : nth'[i] # NULL} = 1..n
      /\ \A i \in 1..n : nth'[i] = s[i]
  BY <1>1, WalkFinds
<1>5. n <= MaxPid
  BY WalkIsOrder
<1>6. n \in 0..MaxPid /\ s \in [1..n -> Pids]
  BY <1>5, JobListAssumption DEF Order
<1>7. Positions' = 1..n
  BY <1>3 DEF Positions
<1>8. Listed' = Among(n, s)
  BY <1>3, <1>7 DEF Listed, Among
<1> QED
  BY <1>6, <1>8

-----------------------------------------------------------------------------
(* The invariant.  The list is finite and ordered; a job of the list is    *)
(* numbered no higher than its pid, so that the number after the last one  *)
(* is free and fits; a process that runs is in the list; what the news     *)
(* report has ended; and pids are used in turn, so that the job that is    *)
(* added last has a higher pid than all others and links to nothing.       *)
ListOrdered == \E n \in 0..MaxPid : \E s \in [1..n -> Pids] : Order(head, next, job, n, s)
JobsKnown == \A p \in Listed : number(p) \in 1..p /\ job[p].bg /\ proc[p] # "none"
RunningListed == \A p \in Pids : proc[p] = "RUNNING" => p \in Listed
NewsEnded == \A p \in Range(news) : proc[p] = "TERMINATED"
PidsInTurn ==
    \A p \in Pids : proc[p] = "none" =>
        next[p] = NULL /\ \A q \in p..MaxPid : proc[q] = "none"

JobInv ==
    /\ TypeOK
    /\ fault = "none"
    /\ ListOrdered
    /\ JobsKnown
    /\ RunningListed
    /\ NewsHasJob
    /\ NewsEnded
    /\ PidsInTurn

(* The list holds its jobs.                                                *)
LEMMA ListHolds ==
    ASSUME JobInv
    PROVE  /\ Holds(head, next, job, Listed) /\ TypeOK
           /\ \A q \in Listed : q \in Pids /\ number(q) \in 1..q
           /\ \A q \in Pids : job[q].number \in Nat
<1>1. PICK n, s : n \in 0..MaxPid /\ s \in [1..n -> Pids] /\ Order(head, next, job, n, s)
  BY DEF JobInv, ListOrdered
<1>2. TypeOK
  BY DEF JobInv
<1>3. Listed = Among(n, s)
  BY <1>1, <1>2, ListFacts
<1>4. \A q \in Listed : q \in Pids
  BY <1>1, <1>3 DEF Among
<1>5. \A q \in Pids : job[q].number \in Nat
  BY <1>2, JobListAssumption DEF TypeOK
<1>6. \A q \in Listed : number(q) \in 1..q
  BY DEF JobInv, JobsKnown
<1>7. Holds(head, next, job, Listed)
  BY <1>1, <1>3 DEF Holds
<1> QED
  BY <1>2, <1>4, <1>5, <1>6, <1>7

(* What the list holds in the next state, once its links are known.        *)
LEMMA ListHoldsNext ==
    ASSUME NEW L, Holds(head', next', job', L), \A p \in Pids : job'[p].number \in Nat
    PROVE  ListOrdered' /\ Listed' = L
<1>1. PICK n, s : Order(head', next', job', n, s) /\ Among(n, s) = L
  BY DEF Holds
<1>2. Listed' = Among(n, s) /\ n \in 0..MaxPid /\ s \in [1..n -> Pids]
  BY <1>1, ListFactsNext
<1> QED
  BY <1>1, <1>2 DEF ListOrdered

(* The process of a new job has a higher pid than all the jobs, and its    *)
(* job links to nothing.                                                   *)
LEMMA NewestPid ==
    ASSUME JobInv, NEW p \in Pids, Unused(p)
    PROVE  /\ \A q \in Listed : q < p
           /\ p \notin Listed /\ next[p] = NULL
           /\ \A q \in p..MaxPid : proc[q] = "none"
<1>1. next[p] = NULL /\ \A q \in p..MaxPid : proc[q] = "none"
  BY DEF JobInv, PidsInTurn, Unused
<1>2. ASSUME NEW q \in Listed PROVE q < p
  <2>1. q \in Pids
    BY ListHolds
  <2>2. q \notin p..MaxPid
    BY <1>1 DEF JobInv, JobsKnown
  <2> QED
    BY <2>1, <2>2, JobListAssumption DEF Pids
<1>3. p \notin Listed
  BY <1>2 DEF Pids
<1> QED
  BY <1>1, <1>2, <1>3

(* A careful user's addJob puts the new job p where its number belongs:    *)
(* the new state of the list, in terms of its jobs.                        *)
Added(p, m, new) ==
    /\ fault' = fault
    /\ job' = [job EXCEPT ![p] = [new EXCEPT !.number = m]]
    /\ m \in 1..p
    /\ \A q \in Listed : number(q) # m
    /\ head' \in Pids \cup {NULL} /\ next' \in [Pids -> Pids \cup {NULL}]
    /\ \A q \in Pids : q > p => next'[q] = next[q]
    /\ ListOrdered'
    /\ Listed' = Listed \cup {p}

NewJobs == [number : {0}, status : Statuses, bg : {TRUE}]

(* Where number 1 is free the job goes before the head.                    *)
LEMMA AddFirst ==
    ASSUME JobInv, NEW p \in Pids, Unused(p), NEW new \in NewJobs,
           head' = p, next' = [next EXCEPT ![p] = head], fault' = fault,
           job' = [job EXCEPT ![p] = [new EXCEPT !.number = 1]],
           \A q \in Listed : number(q) > 1
    PROVE  Added(p, 1, new)
<1>1. /\ \A q \in Listed : q < p
      /\ p \notin Listed /\ next[p] = NULL
  BY NewestPid
<1>2. /\ Holds(head, next, job, Listed) /\ TypeOK
      /\ \A q \in Listed : q \in Pids /\ number(q) \in 1..q
      /\ \A q \in Pids : job[q].number \in Nat
  BY ListHolds
<1>3. /\ head \in Pids \cup {NULL} /\ next \in [Pids -> Pids \cup {NULL}]
      /\ job \in [Pids -> [number : 0..MaxPid, status : Statuses, bg : BOOLEAN]]
  BY <1>2 DEF TypeOK
<1>4. next'[p] = head /\ \A q \in Pids \ {p} : next'[q] = next[q]
  BY <1>3
<1>5. job'[p].number = 1 /\ \A q \in Pids \ {p} : job'[q] = job[q]
  BY <1>3 DEF NewJobs
<1>6. LinksFirst(head, next, next', p) /\ Lowest(job, job', Listed, p)
  BY <1>1, <1>2, <1>4, <1>5 DEF LinksFirst, Lowest, number
<1>7. Holds(p, next', job', Listed \cup {p})
  BY <1>1, <1>2, <1>6, PutFirst
<1>8. \A q \in Pids : job'[q].number \in Nat
  BY <1>2, <1>5
<1>9. ListOrdered' /\ Listed' = Listed \cup {p}
  BY <1>7, <1>8, ListHoldsNext
<1>10. \A q \in Pids : q > p => next'[q] = next[q]
  BY <1>4 DEF Pids
<1>11. 1 \in 1..p /\ \A q \in Listed : number(q) # 1
  BY <1>2 DEF Pids
<1>12. next' \in [Pids -> Pids \cup {NULL}]
  BY <1>3
<1> QED
  BY <1>9, <1>10, <1>11, <1>12 DEF Added

(* Otherwise it goes behind the last job, and counts on from its number.   *)
LEMMA AddLast ==
    ASSUME JobInv, NEW p \in Pids, Unused(p), NEW new \in NewJobs,
           NEW last \in Listed, next[last] = NULL, NEW m, m = number(last) + 1,
           head' = head, next' = [next EXCEPT ![last] = p, ![p] = NULL], fault' = fault,
           job' = [job EXCEPT ![p] = [new EXCEPT !.number = m]]
    PROVE  Added(p, m, new)
<1>1. /\ \A q \in Listed : q < p
      /\ p \notin Listed /\ next[p] = NULL
  BY NewestPid
<1>2. /\ Holds(head, next, job, Listed) /\ TypeOK
      /\ \A q \in Listed : q \in Pids /\ number(q) \in 1..q
      /\ \A q \in Pids : job[q].number \in Nat
  BY ListHolds
<1>3. /\ head \in Pids \cup {NULL} /\ next \in [Pids -> Pids \cup {NULL}]
      /\ job \in [Pids -> [number : 0..MaxPid, status : Statuses, bg : BOOLEAN]]
  BY <1>2 DEF TypeOK
<1>4. \A q \in Listed : job[q].number <= job[last].number
  <2>1. PICK n, s : Order(head, next, job, n, s) /\ Among(n, s) = Listed
    BY <1>2 DEF Holds
  <2> QED
    BY <1>2, <2>1, LastHighest
<1>5. last \in Pids /\ last # p /\ m \in 1..p
  BY <1>1, <1>2 DEF Pids
<1>6. /\ next'[last] = p /\ next'[p] = NULL
      /\ \A q \in Pids \ {p, last} : next'[q] = next[q]
  BY <1>3, <1>5
<1>7. job'[p].number = m /\ \A q \in Pids \ {p} : job'[q] = job[q]
  BY <1>3 DEF NewJobs
<1>8. \A q \in Listed : job[q].number < m
  BY <1>2, <1>4, <1>5 DEF number
<1>9. LinksLast(last, next, next', p) /\ Highest(job, job', Listed, p)
  BY <1>1, <1>2, <1>6, <1>7, <1>8 DEF LinksLast, Highest
<1>10. Holds(head', next', job', Listed \cup {p})
  BY <1>1, <1>2, <1>9, PutLast
<1>11. \A q \in Pids : job'[q].number \in Nat
  BY <1>2, <1>5, <1>7 DEF Pids
<1>12. ListOrdered' /\ Listed' = Listed \cup {p}
  BY <1>10, <1>11, ListHoldsNext
<1>13. \A q \in Pids : q > p => next'[q] = next[q]
  <2>1. last \in Pids /\ last < p
    BY <1>1, <1>2
  <2>2. \A q \in Pids : q > p => q # p /\ q # last
    BY <2>1 DEF Pids
  <2> QED
    BY <1>6, <2>2
<1>14. \A q \in Listed : number(q) # m
  BY <1>2, <1>8 DEF number
<1>15. next' \in [Pids -> Pids \cup {NULL}]
  BY <1>3
<1> QED
  BY <1>3, <1>5, <1>12, <1>13, <1>14, <1>15 DEF Added
(* The cases of addJob come down to these two.                             *)
LEMMA AddJob ==
    ASSUME JobInv, CanAdd, NEW p \in Pids, Unused(p), NEW new \in NewJobs, addJob(p, new)
    PROVE  \E m : Added(p, m, new)
<1>1. PICK n, s : n \in 0..MaxPid /\ s \in [1..n -> Pids] /\ Order(head, next, job, n, s)
  BY DEF JobInv, ListOrdered
<1>2. /\ Positions = 1..n /\ Listed = Among(n, s) /\ ~Cyclic
      /\ \A i \in 1..n : nth[i] = s[i] /\ s[i] \in Pids
  BY <1>1, ListFacts DEF JobInv
<1>3. /\ head \in Pids \cup {NULL} /\ next \in [Pids -> Pids \cup {NULL}]
      /\ job \in [Pids -> [number : 0..MaxPid, status : Statuses, bg : BOOLEAN]]
  BY DEF JobInv, TypeOK
<1>4. /\ p \notin Listed /\ next[p] = NULL
      /\ \A q \in Listed : q \in Pids /\ number(q) \in 1..q
  BY NewestPid, ListHolds
<1>5. head = IF n = 0 THEN NULL ELSE s[1]
  BY <1>1 DEF Order
<1>6. \A q \in Listed : q # NULL
  BY <1>4 DEF Pids, NULL
<1>7. CASE n = 0
  <2>1. Listed = {} /\ head = NULL /\ Positions # {1}
    BY <1>2, <1>5, <1>7 DEF Among
  <2>2. head' = p /\ next' = next /\ fault' = fault
        /\ job' = [job EXCEPT ![p] = [new EXCEPT !.number = 1]]
    BY <1>2, <2>1 DEF addJob
  <2>3. next' = [next EXCEPT ![p] = head]
    BY <1>3, <1>4, <2>1, <2>2
  <2>4. Added(p, 1, new)
    BY <2>1, <2>2, <2>3, AddFirst
  <2> QED
    BY <2>4
<1>8. CASE n = 1
  <2>1. /\ Positions = {1} /\ head = s[1] /\ head \in Listed
        /\ next[head] = NULL
    BY <1>1, <1>2, <1>5, <1>8 DEF Among, Order
  <2>2. head # NULL /\ number(head) = 1
    BY <1>6, <2>1 DEF CanAdd
  <2>3. /\ head' = head /\ next' = [next EXCEPT ![head] = p] /\ fault' = fault
        /\ job' = [job EXCEPT ![p] = [new EXCEPT !.number = 2]]
    BY <1>2, <2>1, <2>2 DEF addJob
  <2>4. next' = [next EXCEPT ![head] = p, ![p] = NULL]
    BY <1>3, <1>4, <2>1, <2>3
  <2>5. Added(p, 2, new)
    <3>1. 2 = number(head) + 1
      BY <2>2
    <3> QED
      BY <2>1, <2>3, <2>4, <3>1, AddLast
  <2> QED
    BY <2>5
<1>9. CASE n >= 2
  <2>1. /\ 1 \in 1..n /\ n \in 1..n /\ n # 0 /\ n # 1 /\ n \in Nat
        /\ Positions # {1} /\ head = s[1] /\ head \in Listed
    BY <1>1, <1>2, <1>5, <1>9 DEF Among
  <2>2. head # NULL /\ number(head) \in Nat
    BY <1>4, <1>6, <2>1 DEF Pids
  <2>3. CASE number(head) > 1
    <3>1. /\ head' = p /\ next' = [next EXCEPT ![p] = head] /\ fault' = fault
          /\ job' = [job EXCEPT ![p] = [new EXCEPT !.number = 1]]
      BY <1>2, <2>1, <2>2, <2>3 DEF addJob
    <3>2. \A q \in Listed : number(q) > 1
      <4>1. \A i \in 2..n : i \in 1..n /\ 1 < i
        OBVIOUS
      <4>2. \A i \in 2..n : job[s[1]].number < job[s[i]].number
        BY <1>1, <2>1, <4>1 DEF Order
      <4>3. \A i \in 1..n : i = 1 \/ i \in 2..n
        BY <2>1
      <4>4. \A i \in 1..n : job[s[i]].number \in Nat
        BY <1>2, <1>3, JobListAssumption
      <4>5. ASSUME NEW i \in 1..n PROVE job[s[i]].number > 1
        <5>1. CASE i = 1
          BY <2>1, <2>3, <5>1 DEF number
        <5>2. CASE i \in 2..n
          BY <2>1, <2>3, <4>2, <4>4, <5>2 DEF number
        <5> QED
          BY <4>3, <5>1, <5>2
      <4> QED
        BY <1>2, <4>5 DEF Among, number
    <3>3. Added(p, 1, new)
      BY <3>1, <3>2, AddFirst
    <3> QED
      BY <3>3
  <2>4. CASE ~(number(head) > 1)
    <3>1. Gaps = {}
      BY <2>1, <2>2, <2>4 DEF CanAdd
    <3>2. BeforeNew = s[n] /\ s[n] \in Listed /\ next[s[n]] = NULL
      <4>1. Max(1..n) = n
        <5>1. Max(1..n) \in 1..n /\ n <= Max(1..n)
          BY <2>1, Extremes
        <5> QED
          BY <2>1, <5>1
      <4>2. BeforeNew = nth[n]
        BY <1>2, <3>1, <4>1 DEF BeforeNew
      <4>3. s[n] \in Listed
        BY <1>2, <2>1 DEF Among
      <4>4. next[s[n]] = NULL
        BY <1>1, <2>1 DEF Order
      <4> QED
        BY <1>2, <2>1, <4>2, <4>3, <4>4
    <3>3. /\ head' = head /\ next' = [next EXCEPT ![BeforeNew] = p, ![p] = NULL]
          /\ job' = [job EXCEPT ![p] = [new EXCEPT !.number = NumberAfter(BeforeNew)]]
          /\ fault' = fault
      BY <1>2, <2>1, <2>2, <2>4, <3>1 DEF addJob
    <3>4. Added(p, number(s[n]) + 1, new)
      BY <3>2, <3>3, AddLast DEF NumberAfter
    <3> QED
      BY <3>4
  <2> QED
    BY <2>3, <2>4
<1> QED
  BY <1>1, <1>7, <1>8, <1>9
-----------------------------------------------------------------------------
(* The number of a job behind the head is found at the job's own place.    *)
LEMMA OwnNumber ==
    ASSUME JobInv, NEW n, NEW s, Order(head, next, job, n, s), NEW k \in 1..n
    PROVE  /\ \A i \in 1..n : number(s[i]) = number(s[k]) => i = k
           /\ k # 1 => Behind(number(s[k])) = {k} /\ Min({k}) = k
<1>1. /\ Positions = 1..n
      /\ \A i \in 1..n : nth[i] = s[i] /\ s[i] \in Pids
      /\ n \in 0..MaxPid
  BY ListFacts DEF JobInv
<1>2. \A i \in 1..n : number(s[i]) \in Nat
  BY <1>1, JobListAssumption DEF JobInv, TypeOK, number
<1>3. ASSUME NEW i \in 1..n, i # k PROVE number(s[i]) # number(s[k])
  <2>1. i < k \/ k < i
    BY <1>3
  <2>2. number(s[i]) < number(s[k]) \/ number(s[k]) < number(s[i])
    BY <2>1 DEF Order, number
  <2> QED
    BY <1>2, <2>2
<1>4. ASSUME k # 1 PROVE Behind(number(s[k])) = {k} /\ Min({k}) = k
  <2>1. \A i \in Positions \ {1} : number(nth[i]) = number(s[k]) <=> i = k
    BY <1>1, <1>3
  <2>2. k \in Positions \ {1}
    BY <1>1, <1>4
  <2>3. Behind(number(s[k])) = {k}
    BY <2>1, <2>2 DEF Behind
  <2>4. Min({k}) \in {k}
    <3>1. {k} \in SUBSET (1..n) /\ {k} # {} /\ n \in Nat
      BY <1>1
    <3> QED
      BY <3>1, Extremes
  <2> QED
    BY <2>3, <2>4
<1> QED
  BY <1>3, <1>4

(* The state of the list without the job p.                                *)
Removed(p) ==
    /\ head' \in Pids \cup {NULL} /\ next' \in [Pids -> Pids \cup {NULL}]
    /\ \A q \in Pids : q \notin Listed => next'[q] = next[q]
    /\ ListOrdered'
    /\ Listed' = Listed \ {p}

(* The job a number belongs to is the one that removeJob finds.            *)
LEMMA RemoveJob ==
    ASSUME JobInv, NEW p \in Listed, removeJob(number(p)),
           \A q \in Listed : job'[q].number = job[q].number,
           \A q \in Pids : job'[q].number \in Nat
    PROVE  Removed(p)
<1>1. PICK n, s : n \in 0..MaxPid /\ s \in [1..n -> Pids] /\ Order(head, next, job, n, s)
  BY DEF JobInv, ListOrdered
<1>2. /\ Positions = 1..n /\ Listed = Among(n, s)
      /\ \A i \in 1..n : nth[i] = s[i] /\ s[i] \in Pids
  BY <1>1, ListFacts DEF JobInv
<1>3. /\ head \in Pids \cup {NULL} /\ next \in [Pids -> Pids \cup {NULL}]
      /\ \A q \in Pids : job[q].number \in Nat
  BY JobListAssumption DEF JobInv, TypeOK
<1>4. PICK k \in 1..n : s[k] = p
  BY <1>2 DEF Among
<1>5. /\ \A i \in 1..n : number(s[i]) = number(p) => i = k
      /\ k # 1 => Behind(number(p)) = {k} /\ Min({k}) = k
  BY <1>1, <1>4, OwnNumber
<1>6. 1 \in 1..n /\ head = s[1] /\ head \in Listed
  <2>1. 1 \in 1..n /\ n # 0
    BY <1>1
  <2> QED
    BY <1>1, <1>2, <2>1 DEF Order, Among
<1>7. SameNumbers(job, job', Among(n, s) \ {p})
  BY <1>2 DEF SameNumbers
<1>8. /\ Bypasses(head, next, head', next', s, k)
      /\ head' \in Pids \cup {NULL} /\ next' \in [Pids -> Pids \cup {NULL}]
      /\ \A q \in Pids : q \notin Listed => next'[q] = next[q]
  <2>1. CASE k = 1
    <3>1. number(head) = number(p)
      BY <1>4, <1>6, <2>1
    <3>2. head' = next[head] /\ next' = next
      BY <3>1 DEF removeJob, NextWithout
    <3>3. head \in Pids
      BY <1>2, <1>6
    <3> QED
      BY <1>3, <2>1, <3>2, <3>3 DEF Bypasses
  <2>2. CASE k # 1
    <3>1. number(head) # number(p)
      BY <1>5, <1>6, <2>2
    <3>2. k - 1 \in 1..n /\ s[k - 1] \in Pids /\ s[k - 1] \in Listed /\ nth[k - 1] = s[k - 1]
          /\ nth[k] = s[k] /\ s[k] \in Pids
      <4>1. k - 1 \in 1..n
        BY <1>1, <2>2
      <4> QED
        BY <1>2, <4>1 DEF Among
    <3>3. head' = head /\ next' = [next EXCEPT ![s[k - 1]] = next[s[k]]]
      BY <1>5, <2>2, <3>1, <3>2 DEF removeJob, NextWithout
    <3>4. next[s[k]] \in Pids \cup {NULL}
      BY <1>3, <3>2
    <3> QED
      BY <1>3, <2>2, <3>2, <3>3, <3>4 DEF Bypasses
  <2> QED
    BY <2>1, <2>2
<1>9. Holds(head', next', job', Among(n, s) \ {p})
  BY <1>1, <1>3, <1>4, <1>7, <1>8, CutOut
<1>10. ListOrdered' /\ Listed' = Listed \ {p}
  BY <1>2, <1>9, ListHoldsNext
<1> QED
  BY <1>8, <1>10 DEF Removed

(* The job that a careful user names is the one its number stands for, and *)
(* the only one that changeStatus and changeFGBG change.                   *)
LEMMA NamedJob ==
    ASSUME JobInv, NEW n, CanName(n)
    PROVE  \E p \in Listed : /\ p \in Pids /\ p # NULL /\ number(p) = n /\ getJob(n) = p
                             /\ Changed(n) = {p} /\ proc[p] # "TERMINATED"
<1>1. PICK p \in Listed : number(p) = n /\ getJob(n) = p
  BY DEF CanName
<1>2. proc[p] # "TERMINATED" /\ p \in Pids /\ p # NULL
  BY <1>1, ListHolds DEF CanName, Pids, NULL
<1>3. Changed(n) = {p}
  <2>1. CASE n = 1
    BY <1>1, <2>1 DEF getJob, Changed
  <2>2. CASE n # 1
    <3>1. PICK c, s : /\ c \in 0..MaxPid /\ s \in [1..c -> Pids]
                      /\ Order(head, next, job, c, s)
      BY DEF JobInv, ListOrdered
    <3>2. Positions = 1..c /\ \A i \in 1..c : nth[i] = s[i]
      BY <3>1, ListFacts DEF JobInv
    <3>3. Behind(n) # {}
      BY <1>1, <1>2, <2>2 DEF getJob
    <3>4. PICK k \in 1..c : k # 1 /\ number(s[k]) = n /\ k \in Behind(n)
      BY <3>2, <3>3 DEF Behind
    <3>5. Behind(n) = {k} /\ Min({k}) = k
      <4>1. k # 1 => Behind(number(s[k])) = {k} /\ Min({k}) = k
        BY <3>1, OwnNumber
      <4> QED
        BY <3>4, <4>1
    <3> QED
      BY <1>1, <2>2, <3>5 DEF getJob, Changed
  <2> QED
    BY <2>1, <2>2
<1> QED
  BY <1>1, <1>2, <1>3
-----------------------------------------------------------------------------
(* What a step does to the jobs of the list.                               *)
AddsJob == \E p \in Pids, m \in Nat, status \in Statuses :
    /\ p \notin Listed /\ Listed' = Listed \cup {p}
    /\ \A q \in Listed : number(q) # m /\ job'[q] = job[q]
    /\ job'[p].number = m /\ job'[p].status = status
DropsJob == \E p \in Listed :
    Listed' = Listed \ {p} /\ \A q \in Listed \ {p} : job'[q] = job[q]
SetsStatus == \E p \in Listed, status \in Statuses :
    /\ Listed' = Listed
    /\ \A q \in Listed : job'[q].number = job[q].number
    /\ \A q \in Listed : job'[q].status = IF q = p THEN status ELSE job[q].status
KeepsJobs == Listed' = Listed /\ \A q \in Listed : job'[q] = job[q]

(* The list is the same when the links and the numbers are.                *)
LEMMA SameList ==
    ASSUME JobInv, head' = head, next' = next,
           \A q \in Pids : job'[q].number = job[q].number
    PROVE  ListOrdered' /\ Listed' = Listed
<1>1. PICK n, s : n \in 0..MaxPid /\ s \in [1..n -> Pids] /\ Order(head, next, job, n, s)
  BY DEF JobInv, ListOrdered
<1>2. Listed = Among(n, s)
  BY <1>1, ListFacts DEF JobInv
<1>3. \A i \in 1..n : job'[s[i]].number = job[s[i]].number
  BY <1>1
<1>4. Order(head', next', job', n, s)
  BY <1>1, <1>3 DEF Order
<1>5. \A q \in Pids : job'[q].number \in Nat
  BY ListHolds
<1>6. Listed' = Among(n, s)
  BY <1>4, <1>5, ListFactsNext
<1> QED
  BY <1>1, <1>2, <1>4, <1>6 DEF ListOrdered

(* A step that changes nothing but where the shell is.                     *)
LEMMA OnlyAt ==
    ASSUME JobInv, UNCHANGED <<list, news, proc, fault>>, at' \in {"poll", "command"}
    PROVE  JobInv' /\ KeepsJobs
<1>1. /\ head' = head /\ next' = next /\ job' = job /\ news' = news /\ proc' = proc
      /\ fault' = fault
  BY DEF list
<1>2. ListOrdered' /\ Listed' = Listed
  BY <1>1, SameList
<1>3. TypeOK'
  BY <1>1 DEF JobInv, TypeOK
<1>4. JobsKnown' /\ RunningListed' /\ NewsEnded' /\ PidsInTurn'
  BY <1>1, <1>2 DEF JobInv, JobsKnown, RunningListed, NewsEnded, PidsInTurn, number
<1>5. NewsHasJob'
  BY <1>1, <1>2 DEF JobInv, NewsHasJob
<1>6. KeepsJobs
  BY <1>1, <1>2 DEF KeepsJobs
<1> QED
  BY <1>1, <1>2, <1>3, <1>4, <1>5, <1>6 DEF JobInv

(* A job of the status that its process has is added.                      *)
LEMMA AddStep ==
    ASSUME JobInv, Careful = TRUE, NEW p \in Pids, NEW status \in Statuses,
           Command, Unused(p), Careful => CanAdd,
           proc' = [proc EXCEPT ![p] = status],
           addJob(p, [number |-> 0, status |-> status, bg |-> TRUE]), news' = news
    PROVE  JobInv' /\ AddsJob
<1> DEFINE new == [number |-> 0, status |-> status, bg |-> TRUE]
<1>1. new \in NewJobs
  BY DEF NewJobs
<1> HIDE DEF new
<1>2. PICK m : Added(p, m, new)
  <2>1. addJob(p, new)
    BY DEF new
  <2> QED
    BY <1>1, <2>1, AddJob
<1>3. /\ fault' = fault /\ m \in 1..p
      /\ job' = [job EXCEPT ![p] = [new EXCEPT !.number = m]]
      /\ \A q \in Listed : number(q) # m
      /\ head' \in Pids \cup {NULL} /\ next' \in [Pids -> Pids \cup {NULL}]
      /\ \A q \in Pids : q > p => next'[q] = next[q]
      /\ ListOrdered' /\ Listed' = Listed \cup {p}
  BY <1>2 DEF Added
<1>4. /\ \A q \in Listed : q < p
      /\ p \notin Listed
      /\ \A q \in p..MaxPid : proc[q] = "none"
  BY NewestPid
<1>5. TypeOK /\ NewsHasJob /\ \A q \in Listed : q \in Pids
  BY ListHolds DEF JobInv
<1>6. /\ job \in [Pids -> [number : 0..MaxPid, status : Statuses, bg : BOOLEAN]]
      /\ proc \in [Pids -> {"none", "RUNNING", "STOPPED", "TERMINATED"}]
      /\ news \in Seq(Pids) /\ fault = "none"
  BY <1>5 DEF TypeOK, JobInv
<1>7. m \in 0..MaxPid
  BY <1>3, JobListAssumption DEF Pids
<1>8. /\ job'[p] = [number |-> m, status |-> status, bg |-> TRUE]
      /\ \A q \in Pids \ {p} : job'[q] = job[q]
      /\ job' \in [Pids -> [number : 0..MaxPid, status : Statuses, bg : BOOLEAN]]
  <2>1. [new EXCEPT !.number = m] = [number |-> m, status |-> status, bg |-> TRUE]
    <3>1. new.status = status /\ new.bg = TRUE
      BY DEF new
    <3>2. [new EXCEPT !.number = m] = [number |-> m, status |-> new.status, bg |-> new.bg]
      BY <1>1 DEF NewJobs
    <3> QED
      BY <3>1, <3>2
  <2>2. [number |-> m, status |-> status, bg |-> TRUE]
           \in [number : 0..MaxPid, status : Statuses, bg : BOOLEAN]
    BY <1>7
  <2> QED
    BY <1>3, <1>6, <2>1, <2>2
<1>9. /\ proc'[p] = status /\ \A q \in Pids \ {p} : proc'[q] = proc[q]
      /\ status \in {"RUNNING", "STOPPED"}
      /\ proc' \in [Pids -> {"none", "RUNNING", "STOPPED", "TERMINATED"}]
  BY <1>6 DEF Statuses
<1>10. \A q \in Listed : q # p /\ job'[q] = job[q] /\ proc'[q] = proc[q]
  BY <1>4, <1>5, <1>8, <1>9
<1>11. TypeOK'
  BY <1>3, <1>6, <1>8, <1>9 DEF TypeOK, Command
<1>12. JobsKnown'
  <2>1. ASSUME NEW q \in Listed' PROVE number(q)' \in 1..q /\ job'[q].bg /\ proc'[q] # "none"
    <3>1. CASE q = p
      BY <1>3, <1>8, <1>9, <3>1 DEF number
    <3>2. CASE q \in Listed
      BY <1>10, <3>2 DEF JobInv, JobsKnown, number
    <3> QED
      BY <1>3, <3>1, <3>2
  <2> QED
    BY <2>1 DEF JobsKnown
<1>13. RunningListed'
  BY <1>3, <1>9 DEF JobInv, RunningListed
<1>14. p \notin Range(news)
  BY <1>4, <1>5 DEF NewsHasJob
<1>15. NewsHasJob'
  <2>1. \A i, j \in DOMAIN news' : news'[i] = news'[j] => i = j
    BY <1>5 DEF NewsHasJob
  <2>2. \A q \in Range(news') : q \in Listed' /\ job'[q].status = "RUNNING"
    BY <1>3, <1>5, <1>10 DEF NewsHasJob
  <2>3. ASSUME NEW q \in Listed' \ Range(news')
        PROVE  job'[q].status = "STOPPED" <=> proc'[q] \in {"STOPPED", "TERMINATED"}
    <3>1. CASE q = p
      BY <1>8, <1>9, <3>1
    <3>2. CASE q \in Listed
      BY <1>5, <1>10, <2>3, <3>2 DEF NewsHasJob
    <3> QED
      BY <1>3, <3>1, <3>2
  <2> QED
    BY <2>1, <2>2, <2>3 DEF NewsHasJob
<1>16. NewsEnded'
  BY <1>5, <1>10 DEF JobInv, NewsEnded, NewsHasJob
<1>17. PidsInTurn'
  <2>1. SUFFICES ASSUME NEW q \in Pids, proc'[q] = "none"
                 PROVE  next'[q] = NULL /\ \A r \in q..MaxPid : proc'[r] = "none"
    BY DEF PidsInTurn
  <2>2. q # p /\ proc[q] = "none"
    BY <1>9, <2>1
  <2>3. q > p
    BY <2>2 DEF Unused, Pids
  <2>4. next[q] = NULL /\ \A r \in q..MaxPid : proc[r] = "none"
    BY <2>2 DEF JobInv, PidsInTurn
  <2>5. \A r \in q..MaxPid : r \in Pids /\ r # p
    BY <2>3, JobListAssumption DEF Pids
  <2> QED
    BY <1>3, <1>9, <2>3, <2>4, <2>5
<1>18. JobInv'
  BY <1>3, <1>6, <1>11, <1>12, <1>13, <1>15, <1>16, <1>17 DEF JobInv
<1>19. AddsJob
  <2>1. m \in Nat
    BY <1>7, JobListAssumption
  <2>2. job'[p].number = m /\ job'[p].status = status
    BY <1>8
  <2> QED
    BY <1>3, <1>4, <1>10, <2>1, <2>2 DEF AddsJob
<1> QED
  BY <1>18, <1>19
(* The news with the first of them taken off.                              *)
LEMMA NewsTail ==
    ASSUME JobInv, news # <<>>, news' = Tail(news)
    PROVE  /\ Head(news) \in Range(news) /\ Head(news) \in Pids
           /\ news' \in Seq(Pids)
           /\ Range(news') = Range(news) \ {Head(news)}
           /\ \A i, j \in DOMAIN news' : news'[i] = news'[j] => i = j
<1>1. news \in Seq(Pids) /\ \A i, j \in DOMAIN news : news[i] = news[j] => i = j
  BY DEF JobInv, TypeOK, NewsHasJob
<1>2. /\ Len(news) \in Nat /\ DOMAIN news = 1..Len(news) /\ 1 \in DOMAIN news
      /\ Head(news) = news[1] /\ news[1] \in Pids
  BY <1>1
<1>3. /\ news' \in Seq(Pids) /\ Len(news') = Len(news) - 1
      /\ DOMAIN news' = 1..Len(news) - 1
      /\ \A i \in 1..Len(news) - 1 : news'[i] = news[i + 1] /\ i + 1 \in DOMAIN news
  <2>1. /\ Tail(news) \in Seq(Pids) /\ Len(Tail(news)) = Len(news) - 1
        /\ \A i \in 1..Len(Tail(news)) : Tail(news)[i] = news[i + 1]
    BY <1>1, HeadTailProperties
  <2>2. DOMAIN Tail(news) = 1..Len(news) - 1
    BY <2>1
  <2> QED
    BY <1>2, <2>1, <2>2
<1>4. \A i, j \in DOMAIN news' : news'[i] = news'[j] => i = j
  <2> SUFFICES ASSUME NEW i \in DOMAIN news', NEW j \in DOMAIN news', news'[i] = news'[j]
               PROVE  i = j
    OBVIOUS
  <2>1. i + 1 \in DOMAIN news /\ j + 1 \in DOMAIN news /\ news[i + 1] = news[j + 1]
    BY <1>3
  <2>2. i + 1 = j + 1
    BY <1>1, <2>1
  <2> QED
    BY <1>2, <1>3, <2>2
<1>5. ASSUME NEW p \in Range(news) \ {Head(news)} PROVE p \in Range(news')
  <2>1. PICK i \in DOMAIN news : news[i] = p
    BY DEF Range
  <2>2. i - 1 \in DOMAIN news' /\ (i - 1) + 1 = i
    BY <1>2, <1>3, <1>5, <2>1
  <2>3. news'[i - 1] = p
    BY <1>3, <2>1, <2>2
  <2> QED
    BY <2>2, <2>3 DEF Range
<1>6. ASSUME NEW p \in Range(news') PROVE p \in Range(news) \ {Head(news)}
  <2>1. PICK i \in DOMAIN news' : news'[i] = p
    BY DEF Range
  <2>2. i + 1 \in DOMAIN news /\ news[i + 1] = p /\ i + 1 # 1
    BY <1>2, <1>3, <2>1
  <2>3. news[i + 1] # news[1]
    BY <1>1, <1>2, <2>2
  <2> QED
    BY <1>2, <2>2, <2>3 DEF Range
<1>7. Head(news) \in Range(news)
  BY <1>2 DEF Range
<1> QED
  BY <1>2, <1>3, <1>4, <1>5, <1>6, <1>7

(* A change that polling hears of is the end of a job that the shell       *)
(* thinks is running: the job leaves the list.                             *)
LEMMA PollStep ==
    ASSUME JobInv, Poll
    PROVE  JobInv' /\ (DropsJob \/ KeepsJobs)
<1>1. /\ proc' = proc /\ at \in {"poll", "command"} /\ fault = "none"
      /\ TypeOK /\ NewsHasJob /\ \A q \in Listed : q \in Pids
  BY ListHolds DEF Poll, JobInv, TypeOK
<1>2. CASE head = NULL \/ news = <<>>
  <2>1. UNCHANGED <<list, news, proc, fault>> /\ at' = "command"
    BY <1>1, <1>2 DEF Poll
  <2> QED
    BY <2>1, OnlyAt
<1>3. CASE ~(head = NULL \/ news = <<>>)
  <2> DEFINE p == Head(news)
  <2>1. news' = Tail(news) /\ news # <<>> /\ at' = at
    BY <1>3 DEF Poll
  <2>2. /\ p \in Range(news) /\ p \in Pids
        /\ news' \in Seq(Pids) /\ Range(news') = Range(news) \ {p}
        /\ \A i, j \in DOMAIN news' : news'[i] = news'[j] => i = j
    BY <2>1, NewsTail
  <2>3. p \in Listed /\ job[p].status = "RUNNING" /\ proc[p] = "TERMINATED"
    BY <1>1, <2>2 DEF JobInv, NewsHasJob, NewsEnded
  <2>4. removeJob(number(p)) /\ job' = job /\ fault' = fault
    BY <1>3, <2>3 DEF Poll
  <2> HIDE DEF p
  <2>5. Removed(p)
    <3>1. \A q \in Pids : job'[q].number \in Nat
      BY <2>4, ListHolds
    <3> QED
      BY <2>3, <2>4, <3>1, RemoveJob
  <2>6. /\ head' \in Pids \cup {NULL} /\ next' \in [Pids -> Pids \cup {NULL}]
        /\ \A q \in Pids : q \notin Listed => next'[q] = next[q]
        /\ ListOrdered' /\ Listed' = Listed \ {p}
    BY <2>5 DEF Removed
  <2>7. TypeOK'
    BY <1>1, <2>1, <2>2, <2>4, <2>6 DEF TypeOK
  <2>8. JobsKnown' /\ RunningListed' /\ NewsEnded'
    BY <1>1, <2>2, <2>3, <2>4, <2>6 DEF JobInv, JobsKnown, RunningListed, NewsEnded, number
  <2>9. PidsInTurn'
    <3>1. \A q \in Pids : proc[q] = "none" => q \notin Listed
      BY DEF JobInv, JobsKnown
    <3> QED
      BY <1>1, <2>6, <3>1 DEF JobInv, PidsInTurn
  <2>10. NewsHasJob'
    <3>1. \A q \in Range(news') : q \in Listed' /\ job'[q].status = "RUNNING"
      BY <1>1, <2>2, <2>4, <2>6 DEF NewsHasJob
    <3>2. \A q \in Listed' \ Range(news') : q \in Listed \ Range(news)
      BY <2>2, <2>6
    <3> QED
      BY <1>1, <2>2, <2>4, <3>1, <3>2 DEF NewsHasJob
  <2>11. DropsJob
    BY <2>3, <2>4, <2>6 DEF DropsJob
  <2> QED
    BY <1>1, <2>4, <2>6, <2>7, <2>8, <2>9, <2>10, <2>11 DEF JobInv
<1> QED
  BY <1>2, <1>3
(* changeStatus and changeFGBG, for the one job they are about.            *)
LEMMA ChangeOne ==
    ASSUME JobInv, NEW n, NEW p \in Pids, Changed(n) = {p},
           NEW status \in Statuses, NEW bg \in BOOLEAN, Change(n, status, bg)
    PROVE  /\ job' \in [Pids -> [number : 0..MaxPid, status : Statuses, bg : BOOLEAN]]
           /\ \A q \in Pids \ {p} : job'[q] = job[q]
           /\ job'[p].number = job[p].number /\ job'[p].status = status /\ job'[p].bg = bg
           /\ \A q \in Pids : job'[q].number = job[q].number /\ job'[q].number \in Nat
<1>1. job \in [Pids -> [number : 0..MaxPid, status : Statuses, bg : BOOLEAN]]
  BY DEF JobInv, TypeOK
<1>2. job[p] \in [number : 0..MaxPid, status : Statuses, bg : BOOLEAN]
  BY <1>1
<1> DEFINE changed == [job[p] EXCEPT !.status = status, !.bg = bg]
<1>3. /\ changed \in [number : 0..MaxPid, status : Statuses, bg : BOOLEAN]
      /\ changed.number = job[p].number /\ changed.status = status /\ changed.bg = bg
  BY <1>2
<1>4. job' = [q \in Pids |-> IF q = p THEN changed ELSE job[q]]
  BY DEF Change
<1> HIDE DEF changed
<1>6. /\ job' \in [Pids -> [number : 0..MaxPid, status : Statuses, bg : BOOLEAN]]
      /\ \A q \in Pids \ {p} : job'[q] = job[q]
      /\ job'[p].number = job[p].number /\ job'[p].status = status /\ job'[p].bg = bg
  BY <1>1, <1>3, <1>4
<1>7. \A q \in Pids : job[q].number \in Nat
  BY ListHolds
<1>8. \A q \in Pids : job'[q].number = job[q].number /\ job'[q].number \in Nat
  BY <1>6, <1>7
<1> QED
  BY <1>6, <1>8

(* bg lets a stopped job of the list go on.                                *)
LEMMA BgStep ==
    ASSUME JobInv, Careful = TRUE, NEW arg \in Arguments, Bg(arg)
    PROVE  JobInv' /\ (SetsStatus \/ KeepsJobs)
<1> DEFINE n == Number(arg)
<1>1. CanName(n) /\ at' = "poll"
  BY DEF Bg, Command
<1>2. PICK p \in Listed : /\ p \in Pids /\ p # NULL /\ number(p) = n /\ getJob(n) = p
                          /\ Changed(n) = {p} /\ proc[p] # "TERMINATED"
  BY <1>1, NamedJob
<1>3. ~Cyclic
  <2>1. PICK c, s : c \in 0..MaxPid /\ s \in [1..c -> Pids] /\ Order(head, next, job, c, s)
    BY DEF JobInv, ListOrdered
  <2> QED
    BY <2>1, ListFacts DEF JobInv
<1>4. /\ fault = "none" /\ TypeOK /\ NewsHasJob /\ \A q \in Listed : q \in Pids
      /\ \A q \in Range(news) : q \in Listed /\ proc[q] = "TERMINATED"
  BY ListHolds DEF JobInv, NewsHasJob, NewsEnded
<1>5. CASE job[p].status = "STOPPED"
  <2>1. /\ Change(n, "RUNNING", TRUE)
        /\ proc' = [proc EXCEPT ![p] = IF @ = "STOPPED" THEN "RUNNING" ELSE @]
        /\ head' = head /\ next' = next /\ news' = news /\ fault' = fault
    BY <1>2, <1>3, <1>5 DEF Bg, SearchHangs
  <2>2. proc[p] = "STOPPED" /\ p \notin Range(news)
    BY <1>2, <1>4, <1>5 DEF NewsHasJob
  <2>3. /\ proc'[p] = "RUNNING" /\ \A q \in Pids \ {p} : proc'[q] = proc[q]
        /\ proc' \in [Pids -> {"none", "RUNNING", "STOPPED", "TERMINATED"}]
    BY <1>2, <1>4, <2>1, <2>2 DEF TypeOK
  <2> HIDE DEF n
  <2>4. /\ job' \in [Pids -> [number : 0..MaxPid, status : Statuses, bg : BOOLEAN]]
        /\ \A q \in Pids \ {p} : job'[q] = job[q]
        /\ job'[p].number = job[p].number /\ job'[p].status = "RUNNING" /\ job'[p].bg = TRUE
        /\ \A q \in Pids : job'[q].number = job[q].number /\ job'[q].number \in Nat
    <3>1. "RUNNING" \in Statuses
      BY DEF Statuses
    <3> QED
      BY <1>2, <2>1, <3>1, ChangeOne
  <2>5. ListOrdered' /\ Listed' = Listed
    BY <2>1, <2>4, SameList
  <2>6. TypeOK'
    BY <1>1, <1>4, <2>1, <2>3, <2>4 DEF TypeOK
  <2>7. JobsKnown'
    <3>1. ASSUME NEW q \in Listed PROVE number(q)' \in 1..q /\ job'[q].bg /\ proc'[q] # "none"
      <4>1. number(q) \in 1..q /\ job[q].bg /\ proc[q] # "none" /\ q \in Pids
        BY <1>4 DEF JobInv, JobsKnown
      <4>2. number(q)' = number(q)
        BY <2>4, <4>1 DEF number
      <4> QED
        BY <2>3, <2>4, <4>1, <4>2
    <3> QED
      BY <2>5, <3>1 DEF JobsKnown
  <2>8. RunningListed' /\ PidsInTurn'
    <3>1. RunningListed'
      BY <1>2, <2>3, <2>5 DEF JobInv, RunningListed
    <3>2. \A q \in Pids : proc'[q] = "none" <=> proc[q] = "none"
      BY <2>2, <2>3
    <3>3. \A q \in Pids : \A r \in q..MaxPid : r \in Pids
      BY JobListAssumption DEF Pids
    <3>4. PidsInTurn'
      BY <2>1, <3>2, <3>3 DEF JobInv, PidsInTurn
    <3> QED
      BY <3>1, <3>4
  <2>9. NewsHasJob' /\ NewsEnded'
    <3>1. \A q \in Range(news) : q # p /\ q \in Pids
      BY <1>4, <2>2
    <3>2. \A q \in Listed \ Range(news) :
             job'[q].status = "STOPPED" <=> proc'[q] \in {"STOPPED", "TERMINATED"}
      BY <1>4, <2>3, <2>4 DEF NewsHasJob
    <3>3. NewsHasJob'
      BY <1>4, <2>1, <2>4, <2>5, <3>1, <3>2 DEF NewsHasJob
    <3> QED
      BY <1>4, <2>1, <2>3, <3>1, <3>3 DEF NewsEnded
  <2>10. SetsStatus
    <3>1. \A q \in Listed : job'[q].number = job[q].number
      BY <1>4, <2>4
    <3>2. \A q \in Listed : job'[q].status = IF q = p THEN "RUNNING" ELSE job[q].status
      BY <1>4, <2>4
    <3>3. "RUNNING" \in Statuses
      BY DEF Statuses
    <3> QED
      BY <2>5, <3>1, <3>2, <3>3 DEF SetsStatus
  <2> QED
    BY <1>4, <2>1, <2>5, <2>6, <2>7, <2>8, <2>9, <2>10 DEF JobInv
<1>6. CASE job[p].status # "STOPPED"
  <2>1. /\ head' = head /\ next' = next /\ job' = job /\ news' = news /\ proc' = proc
        /\ fault' = fault
    BY <1>2, <1>3, <1>6 DEF Bg, SearchHangs, list
  <2>2. JobInv' /\ KeepsJobs
    BY <1>1, <2>1, OnlyAt DEF list
  <2> QED
    BY <2>2
<1> QED
  BY <1>5, <1>6
(* fg takes the job off the list, and its process ends or stops.           *)
LEMMA FgStep ==
    ASSUME JobInv, Careful = TRUE, NEW arg \in Arguments, Fg(arg)
    PROVE  JobInv' /\ DropsJob
<1> DEFINE n == Number(arg)
<1>1. CanName(n) /\ at' = "poll"
  BY DEF Fg, Command
<1>2. PICK p \in Listed : /\ p \in Pids /\ p # NULL /\ number(p) = n /\ getJob(n) = p
                          /\ Changed(n) = {p} /\ proc[p] # "TERMINATED"
  BY <1>1, NamedJob
<1>3. ~Cyclic
  <2>1. PICK c, s : c \in 0..MaxPid /\ s \in [1..c -> Pids] /\ Order(head, next, job, c, s)
    BY DEF JobInv, ListOrdered
  <2> QED
    BY <2>1, ListFacts DEF JobInv
<1>4. /\ fault = "none" /\ TypeOK /\ NewsHasJob /\ \A q \in Listed : q \in Pids
      /\ \A q \in Range(news) : q \in Listed /\ proc[q] = "TERMINATED"
  BY ListHolds DEF JobInv, NewsHasJob, NewsEnded
<1>5. PICK outcome \in {"STOPPED", "TERMINATED"} :
          /\ proc' = [proc EXCEPT ![p] = outcome]
          /\ Change(n, IF outcome = "STOPPED" THEN outcome ELSE "RUNNING", FALSE)
  BY <1>2, <1>3 DEF Fg, SearchHangs, Vanished
<1>6. removeJob(number(p)) /\ news' = news /\ fault' = fault
  BY <1>2, <1>3 DEF Fg, SearchHangs, Vanished
<1> DEFINE status == IF outcome = "STOPPED" THEN outcome ELSE "RUNNING"
<1>7. status \in Statuses
  BY DEF Statuses
<1> HIDE DEF n, status
<1>8. /\ job' \in [Pids -> [number : 0..MaxPid, status : Statuses, bg : BOOLEAN]]
      /\ \A q \in Pids \ {p} : job'[q] = job[q]
      /\ \A q \in Pids : job'[q].number = job[q].number /\ job'[q].number \in Nat
  <2>1. Change(n, status, FALSE)
    BY <1>5 DEF status
  <2> QED
    BY <1>2, <1>7, <2>1, ChangeOne
<1>9. Removed(p)
  BY <1>2, <1>4, <1>6, <1>8, RemoveJob
<1>10. /\ head' \in Pids \cup {NULL} /\ next' \in [Pids -> Pids \cup {NULL}]
       /\ \A q \in Pids : q \notin Listed => next'[q] = next[q]
       /\ ListOrdered' /\ Listed' = Listed \ {p}
  BY <1>9 DEF Removed
<1>11. /\ proc'[p] \in {"STOPPED", "TERMINATED"} /\ \A q \in Pids \ {p} : proc'[q] = proc[q]
       /\ proc' \in [Pids -> {"none", "RUNNING", "STOPPED", "TERMINATED"}]
  BY <1>2, <1>4, <1>5 DEF TypeOK
<1>12. proc[p] # "none" /\ p \notin Range(news)
  BY <1>2, <1>4 DEF JobInv, JobsKnown
<1>13. TypeOK'
  BY <1>1, <1>4, <1>6, <1>8, <1>10, <1>11 DEF TypeOK
<1>14. JobsKnown'
  <2>1. ASSUME NEW q \in Listed \ {p} PROVE number(q)' \in 1..q /\ job'[q].bg /\ proc'[q] # "none"
    <3>1. number(q) \in 1..q /\ job[q].bg /\ proc[q] # "none" /\ q \in Pids
      BY <1>4 DEF JobInv, JobsKnown
    <3>2. number(q)' = number(q)
      BY <1>8, <3>1 DEF number
    <3> QED
      BY <1>8, <1>11, <2>1, <3>1, <3>2
  <2> QED
    BY <1>10, <2>1 DEF JobsKnown
<1>15. RunningListed'
  BY <1>10, <1>11 DEF JobInv, RunningListed
<1>16. PidsInTurn'
  <2>1. \A q \in Pids : proc'[q] = "none" <=> proc[q] = "none"
    BY <1>11, <1>12
  <2>2. \A q \in Pids : proc[q] = "none" => next'[q] = next[q]
    BY <1>10 DEF JobInv, JobsKnown
  <2>3. \A q \in Pids : \A r \in q..MaxPid : r \in Pids
    BY JobListAssumption DEF Pids
  <2> QED
    BY <2>1, <2>2, <2>3 DEF JobInv, PidsInTurn
<1>17. NewsHasJob'
  <2>1. \A q \in Range(news) : q # p /\ q \in Pids
    BY <1>4, <1>12
  <2>2. \A q \in Listed' \ Range(news) :
           job'[q].status = "STOPPED" <=> proc'[q] \in {"STOPPED", "TERMINATED"}
    BY <1>4, <1>8, <1>10, <1>11 DEF NewsHasJob
  <2> QED
    BY <1>4, <1>6, <1>8, <1>10, <2>1, <2>2 DEF NewsHasJob
<1>18. NewsEnded'
  BY <1>4, <1>6, <1>11, <1>12 DEF NewsEnded
<1>19. DropsJob
  BY <1>2, <1>4, <1>8, <1>10 DEF DropsJob
<1> QED
  BY <1>4, <1>6, <1>10, <1>13, <1>14, <1>15, <1>16, <1>17, <1>18, <1>19 DEF JobInv

(* jobs, or any other command that leaves the list alone.                  *)
LEMMA OtherCommandStep ==
    ASSUME JobInv, OtherCommand
    PROVE  JobInv' /\ KeepsJobs
<1>1. ~Cyclic
  <2>1. PICK c, s : c \in 0..MaxPid /\ s \in [1..c -> Pids] /\ Order(head, next, job, c, s)
    BY DEF JobInv, ListOrdered
  <2> QED
    BY <2>1, ListFacts DEF JobInv
<1>2. UNCHANGED <<list, news, proc, fault>> /\ at' = "poll"
  BY <1>1 DEF OtherCommand, Command
<1> QED
  BY <1>2, OnlyAt

(* A process ends: the shell will hear of it if it was running.            *)
LEMMA EndsStep ==
    ASSUME JobInv, NEW p \in Pids, Ends(p)
    PROVE  JobInv' /\ KeepsJobs
<1>1. /\ head' = head /\ next' = next /\ job' = job /\ at' = at /\ fault' = fault
      /\ proc[p] \in {"RUNNING", "STOPPED"} /\ proc' = [proc EXCEPT ![p] = "TERMINATED"]
      /\ news' = IF proc[p] = "RUNNING" THEN Append(news, p) ELSE news
  BY DEF Ends, list
<1>2. /\ fault = "none" /\ TypeOK /\ NewsHasJob /\ \A q \in Listed : q \in Pids
      /\ \A q \in Range(news) : q \in Listed /\ q \in Pids /\ proc[q] = "TERMINATED"
      /\ \A i, j \in DOMAIN news : news[i] = news[j] => i = j
  BY ListHolds DEF JobInv, NewsHasJob, NewsEnded
<1>3. ListOrdered' /\ Listed' = Listed
  BY <1>1, SameList
<1>4. /\ proc'[p] = "TERMINATED" /\ \A q \in Pids \ {p} : proc'[q] = proc[q]
      /\ proc' \in [Pids -> {"none", "RUNNING", "STOPPED", "TERMINATED"}]
      /\ p \notin Range(news)
  BY <1>1, <1>2 DEF TypeOK
<1>5. JobsKnown'
  BY <1>1, <1>2, <1>3, <1>4 DEF JobInv, JobsKnown, number
<1>6. RunningListed'
  BY <1>3, <1>4 DEF JobInv, RunningListed
<1>7. PidsInTurn'
  <2>1. \A q \in Pids : proc'[q] = "none" <=> proc[q] = "none"
    BY <1>1, <1>4
  <2>2. \A q \in Pids : \A r \in q..MaxPid : r \in Pids
    BY JobListAssumption DEF Pids
  <2> QED
    BY <1>1, <2>1, <2>2 DEF JobInv, PidsInTurn
<1>8. KeepsJobs
  BY <1>1, <1>3 DEF KeepsJobs
<1>9. CASE proc[p] = "STOPPED"
  <2>1. news' = news
    BY <1>1, <1>9
  <2>2. TypeOK'
    BY <1>1, <1>2, <1>4, <2>1 DEF TypeOK
  <2>3. \A q \in Listed \ Range(news) :
           job[q].status = "STOPPED" <=> proc'[q] \in {"STOPPED", "TERMINATED"}
    BY <1>2, <1>4, <1>9 DEF NewsHasJob
  <2>4. NewsHasJob'
    BY <1>1, <1>2, <1>3, <2>1, <2>3 DEF NewsHasJob
  <2>5. NewsEnded'
    BY <1>2, <1>4, <2>1 DEF NewsEnded
  <2> QED
    BY <1>1, <1>2, <1>3, <1>5, <1>6, <1>7, <1>8, <2>2, <2>4, <2>5 DEF JobInv
<1>10. CASE proc[p] = "RUNNING"
  <2>1. news' = Append(news, p) /\ news \in Seq(Pids)
    BY <1>1, <1>2, <1>10 DEF TypeOK
  <2>2. p \in Listed /\ job[p].status = "RUNNING"
    <3>1. p \in Listed
      BY <1>10 DEF JobInv, RunningListed
    <3>2. job[p].status # "STOPPED"
      BY <1>2, <1>4, <1>10, <3>1 DEF NewsHasJob
    <3> QED
      BY <1>2, <3>1, <3>2 DEF TypeOK, Statuses
  <2>3. /\ news' \in Seq(Pids)
        /\ DOMAIN news' = 1..Len(news) + 1 /\ DOMAIN news = 1..Len(news)
        /\ news'[Len(news) + 1] = p /\ \A i \in 1..Len(news) : news'[i] = news[i]
        /\ Len(news) \in Nat
    <3>1. /\ news' \in Seq(Pids) /\ Len(news') = Len(news) + 1
          /\ \A i \in 1..Len(news) : news'[i] = news[i]
          /\ news'[Len(news) + 1] = p
      BY <2>1, AppendProperties
    <3> QED
      BY <2>1, <3>1
  <2>4. Range(news') = Range(news) \cup {p}
    <3>1. \A i \in 1..Len(news) + 1 : i \in 1..Len(news) \/ i = Len(news) + 1
      BY <2>3
    <3>2. Len(news) + 1 \in 1..Len(news) + 1 /\ \A i \in 1..Len(news) : i \in 1..Len(news) + 1
      BY <2>3
    <3>3. Range(news') \subseteq Range(news) \cup {p}
      BY <2>3, <3>1 DEF Range
    <3>4. Range(news) \subseteq Range(news')
      BY <2>3, <3>2 DEF Range
    <3>5. p \in Range(news')
      BY <2>3, <3>2 DEF Range
    <3> QED
      BY <3>3, <3>4, <3>5
  <2>5. \A i, j \in DOMAIN news' : news'[i] = news'[j] => i = j
    <3>1. \A i \in 1..Len(news) : news[i] # p
      BY <1>4, <2>3 DEF Range
    <3>2. \A i \in 1..Len(news) + 1 : i \in 1..Len(news) \/ i = Len(news) + 1
      BY <2>3
    <3> QED
      BY <1>2, <2>3, <3>1, <3>2
  <2>6. TypeOK'
    BY <1>1, <1>2, <1>4, <2>3 DEF TypeOK
  <2>7. \A q \in Listed \ Range(news') :
           job[q].status = "STOPPED" <=> proc'[q] \in {"STOPPED", "TERMINATED"}
    BY <1>2, <1>4, <2>4 DEF NewsHasJob
  <2>8. \A q \in Range(news') : q \in Listed /\ job[q].status = "RUNNING"
    BY <1>2, <2>2, <2>4 DEF NewsHasJob
  <2>9. NewsHasJob'
    BY <1>1, <1>3, <2>5, <2>7, <2>8 DEF NewsHasJob
  <2>10. NewsEnded'
    BY <1>2, <1>4, <2>4 DEF NewsEnded
  <2> QED
    BY <1>1, <1>2, <1>3, <1>5, <1>6, <1>7, <1>8, <2>6, <2>9, <2>10 DEF JobInv
<1> QED
  BY <1>1, <1>9, <1>10
-----------------------------------------------------------------------------
(* The user avoids what the list cannot do: module JobList says what that  *)
(* is.  A user who does not can make the list endless.                     *)
CarefulUser == Careful = TRUE

(* The shell starts with no job.                                           *)
LEMMA InitJobs == Init => JobInv /\ Listed = {}
<1> SUFFICES ASSUME Init PROVE JobInv /\ Listed = {}
  OBVIOUS
<1>1. MaxPid \in Nat /\ \A p \in Pids : p # NULL
  BY JobListAssumption DEF Pids, NULL
<1>2. TypeOK
  <2>1. NoJob \in [number : 0..MaxPid, status : Statuses, bg : BOOLEAN]
    BY <1>1 DEF NoJob, Statuses
  <2>2. job \in [Pids -> [number : 0..MaxPid, status : Statuses, bg : BOOLEAN]]
    BY <2>1 DEF Init
  <2>3. news \in Seq(Pids)
    BY DEF Init
  <2> QED
    BY <2>2, <2>3 DEF Init, TypeOK
<1> DEFINE s == [i \in 1..0 |-> 1]
<1>3. s \in [1..0 -> Pids] /\ Order(head, next, job, 0, s) /\ Among(0, s) = {}
  BY DEF Init, Order, Among
<1> HIDE DEF s
<1>4. Listed = {}
  BY <1>2, <1>3, ListFacts
<1>5. ListOrdered
  <2>1. 0 \in 0..MaxPid
    BY <1>1
  <2> QED
    BY <1>3, <2>1 DEF ListOrdered
<1>6. JobsKnown /\ RunningListed
  BY <1>4 DEF JobsKnown, RunningListed, Init
<1>7. Range(news) = {} /\ DOMAIN news = {}
  BY DEF Init, Range
<1>8. NewsHasJob /\ NewsEnded
  BY <1>4, <1>7 DEF NewsHasJob, NewsEnded
<1>9. PidsInTurn
  BY <1>1 DEF PidsInTurn, Init, Pids
<1> QED
  BY <1>2, <1>4, <1>5, <1>6, <1>8, <1>9 DEF JobInv, Init

(* Every step keeps the invariant, and adds a job, drops one, changes the  *)
(* status of one, or leaves the jobs alone.                                *)
LEMMA NextJobs ==
    ASSUME CarefulUser, JobInv, [Next]_vars
    PROVE  JobInv' /\ (AddsJob \/ DropsJob \/ SetsStatus \/ KeepsJobs)
<1>1. Careful = TRUE
  BY DEF CarefulUser
<1>2. ASSUME NEW p \in Pids, RunInBackground(p) PROVE JobInv' /\ AddsJob
  BY <1>1, <1>2, AddStep DEF RunInBackground, Statuses
<1>3. ASSUME NEW p \in Pids, RunAndStop(p) PROVE JobInv' /\ AddsJob
  BY <1>1, <1>3, AddStep DEF RunAndStop, Statuses
<1>4. ASSUME NEW arg \in Arguments, Bg(arg) PROVE JobInv' /\ (SetsStatus \/ KeepsJobs)
  BY <1>1, <1>4, BgStep
<1>5. ASSUME NEW arg \in Arguments, Fg(arg) PROVE JobInv' /\ DropsJob
  BY <1>1, <1>5, FgStep
<1>6. ASSUME OtherCommand PROVE JobInv' /\ KeepsJobs
  BY <1>6, OtherCommandStep
<1>7. ASSUME Poll PROVE JobInv' /\ (DropsJob \/ KeepsJobs)
  BY <1>7, PollStep
<1>8. ASSUME NEW p \in Pids, Ends(p) PROVE JobInv' /\ KeepsJobs
  BY <1>8, EndsStep
<1>9. ASSUME UNCHANGED vars PROVE JobInv' /\ KeepsJobs
  <2>1. at \in {"poll", "command"}
    BY DEF JobInv, TypeOK
  <2> QED
    BY <1>9, <2>1, OnlyAt DEF vars
<1> QED
  BY <1>2, <1>3, <1>4, <1>5, <1>6, <1>7, <1>8, <1>9 DEF Next

(* The invariant holds in every reachable state.                           *)
THEOREM JobsInvariance == CarefulUser => (Spec => []JobInv)
<1> SUFFICES ASSUME CarefulUser PROVE Spec => []JobInv
  OBVIOUS
<1>1. JobInv /\ [Next]_vars => JobInv'
  BY NextJobs
<1>2. Init => JobInv
  BY InitJobs
<1> QED
  BY <1>1, <1>2, PTL DEF Spec

(* The types of the job list.                                              *)
THEOREM JobTypes == CarefulUser => (Spec => []TypeOK)
<1> SUFFICES ASSUME CarefulUser PROVE Spec => []TypeOK
  OBVIOUS
<1>1. JobInv => TypeOK
  BY DEF JobInv
<1>2. Spec => []JobInv
  BY JobsInvariance
<1> QED
  BY <1>1, <1>2, PTL

(* The list ends, its numbers grow along it, and no command of a careful   *)
(* user ends the shell.                                                    *)
THEOREM ListStaysIntact == CarefulUser => (Spec => []ListIntact)
<1> SUFFICES ASSUME CarefulUser PROVE Spec => []ListIntact
  OBVIOUS
<1>1. JobInv => ListIntact
  <2> SUFFICES ASSUME JobInv PROVE ListIntact
    OBVIOUS
  <2>1. PICK n, s : Order(head, next, job, n, s)
    BY DEF JobInv, ListOrdered
  <2>2. Positions = 1..n /\ ~Cyclic /\ \A i \in 1..n : nth[i] = s[i]
    BY <2>1, ListFacts DEF JobInv
  <2>3. \A i, j \in Positions : i < j => number(nth[i]) < number(nth[j])
    BY <2>1, <2>2 DEF Order, number
  <2> QED
    BY <2>2, <2>3 DEF ListIntact, JobInv
<1>2. Spec => []JobInv
  BY JobsInvariance
<1> QED
  BY <1>1, <1>2, PTL

(* What polling is going to report is a job that the shell thinks runs,    *)
(* and of the other jobs the shell knows whether they run.                 *)
THEOREM NewsIsOfJobs == CarefulUser => (Spec => []NewsHasJob)
<1> SUFFICES ASSUME CarefulUser PROVE Spec => []NewsHasJob
  OBVIOUS
<1>1. JobInv => NewsHasJob
  BY DEF JobInv
<1>2. Spec => []JobInv
  BY JobsInvariance
<1> QED
  BY <1>1, <1>2, PTL

-----------------------------------------------------------------------------
(* The highest of some numbers.                                            *)
LEMMA MaxIs ==
    ASSUME NEW T \in SUBSET Nat, NEW x \in T, \A y \in T : y <= x
    PROVE  Max(T) = x
<1>1. \A z \in T : (\A y \in T : z >= y) => z = x
  OBVIOUS
<1>2. \A y \in T : x >= y
  OBVIOUS
<1> QED
  BY <1>1, <1>2 DEF Max

HighestOf(L) == Max({number(p) : p \in L})
JobsAt(s, S) == {s[i] : i \in S}

(* The last of some jobs has the highest number.                           *)
LEMMA LastOfSome ==
    ASSUME NEW n, NEW s, Order(head, next, job, n, s), TypeOK,
           NEW S \in SUBSET (1..n), S # {}
    PROVE  number(LastOf(S)) = HighestOf(JobsAt(s, S))
<1>1. /\ n \in 0..MaxPid /\ s \in [1..n -> Pids]
      /\ \A i \in 1..n : nth[i] = s[i] /\ s[i] \in Pids
  BY ListFacts
<1> DEFINE m == Max(S)
<1>2. m \in S /\ \A i \in S : i <= m
  <2>1. n \in Nat
    BY <1>1
  <2> QED
    BY <2>1, Extremes
<1> HIDE DEF m
<1>3. \A i \in S : number(s[i]) \in Nat /\ i \in 1..n
  BY <1>1, JobListAssumption DEF TypeOK, number
<1>4. \A i \in S : number(s[i]) <= number(s[m])
  <2>1. \A i \in S : i = m \/ i < m
    BY <1>2, <1>3
  <2>2. \A i \in S : i < m => number(s[i]) < number(s[m])
    BY <1>2, <1>3 DEF Order, number
  <2> QED
    BY <1>2, <1>3, <2>1, <2>2
<1> DEFINE T == {number(p) : p \in JobsAt(s, S)}
<1>5. T \in SUBSET Nat /\ number(s[m]) \in T /\ \A y \in T : y <= number(s[m])
  BY <1>2, <1>3, <1>4 DEF JobsAt
<1> HIDE DEF T
<1>6. Max(T) = number(s[m])
  BY <1>5, MaxIs
<1>7. LastOf(S) = s[m]
  BY <1>1, <1>2, <1>3 DEF LastOf, m
<1> QED
  BY <1>6, <1>7 DEF T, HighestOf

(* Without a number, bg and fg are about the job stopped last, or the last *)
(* one when none is stopped.                                               *)
THEOREM CurrentJobIsLast == CarefulUser => (Spec => []CurrentIsLast)
<1> SUFFICES ASSUME CarefulUser PROVE Spec => []CurrentIsLast
  OBVIOUS
<1>1. JobInv => CurrentIsLast
  <2> SUFFICES ASSUME JobInv, head # NULL, next[head] # NULL PROVE CurrentIsLast
    BY DEF CurrentIsLast
  <2>1. PICK n, s : Order(head, next, job, n, s)
    BY DEF JobInv, ListOrdered
  <2>2. /\ Positions = 1..n /\ TypeOK /\ Listed = Among(n, s)
        /\ \A i \in 1..n : nth[i] = s[i] /\ s[i] \in Listed
        /\ n \in Nat
    BY <2>1, ListFacts DEF JobInv, Among
  <2>3. n # 0 /\ n # 1 /\ 2 \in 1..n /\ Positions # {1}
    <3>1. n # 0 /\ head = s[1]
      BY <2>1 DEF Order
    <3>2. 1 \in 1..n
      BY <2>2, <3>1
    <3>3. n # 1
      BY <2>1, <3>1, <3>2 DEF Order
    <3> QED
      BY <2>2, <3>1, <3>3
  <2> DEFINE stopped == {i \in 1..n : job[s[i]].status = "STOPPED"}
             Stopped == {p \in Listed : job[p].status = "STOPPED"}
  <2>4. Stopped = JobsAt(s, stopped)
    BY <2>2 DEF Among, JobsAt
  <2>5. stopped = {i \in Positions : job[nth[i]].status = "STOPPED"}
    BY <2>2
  <2>6. {i \in Positions : job[nth[i]].bg} = 1..n
    BY <2>2 DEF JobInv, JobsKnown
  <2>7. stopped \in SUBSET (1..n)
    OBVIOUS
  <2>8. stopped = {} <=> Stopped = {}
    BY <2>4 DEF JobsAt
  <2> HIDE DEF stopped
  <2>9. CASE stopped # {}
    <3>1. getCurrentJob = number(LastOf(stopped))
      BY <2>3, <2>5, <2>9 DEF getCurrentJob
    <3> HIDE DEF Stopped
    <3>2. number(LastOf(stopped)) = HighestOf(Stopped)
      BY <2>1, <2>2, <2>4, <2>7, <2>9, LastOfSome
    <3> QED
      BY <2>8, <2>9, <3>1, <3>2 DEF CurrentIsLast, HighestOf, Stopped
  <2>10. CASE stopped = {}
    <3>1. 1..n # {} /\ 1..n \in SUBSET (1..n) /\ Listed = JobsAt(s, 1..n)
      BY <2>2, <2>3 DEF Among, JobsAt
    <3>2. getCurrentJob = number(LastOf(1..n))
      BY <2>3, <2>5, <2>6, <2>10, <3>1 DEF getCurrentJob
    <3>3. number(LastOf(1..n)) = HighestOf(Listed)
      BY <2>1, <2>2, <3>1, LastOfSome
    <3> QED
      BY <2>8, <2>10, <3>2, <3>3 DEF CurrentIsLast, HighestOf
  <2> QED
    BY <2>9, <2>10
<1>2. Spec => []JobInv
  BY JobsInvariance
<1> QED
  BY <1>1, <1>2, PTL
-----------------------------------------------------------------------------
(* The table of the jobs L, for any list of jobs jb.                       *)
TableOf(L, jb) ==
    [n \in {jb[p].number : p \in L} |->
        [pid |-> CHOOSE p \in L : jb[p].number = n,
         status |-> jb[CHOOSE p \in L : jb[p].number = n].status]]
OneNumberEach(L, jb) == \A p, q \in L : jb[p].number = jb[q].number => p = q
NumbersOf(L, jb) == {jb[p].number : p \in L}
EntryOf(p, jb) == [pid |-> p, status |-> jb[p].status]

(* Its entries, when the numbers of the jobs are different.                *)
LEMMA TableEntries ==
    ASSUME NEW L, NEW jb, OneNumberEach(L, jb)
    PROVE  /\ DOMAIN TableOf(L, jb) = NumbersOf(L, jb)
           /\ TableOf(L, jb) = [n \in NumbersOf(L, jb) |-> TableOf(L, jb)[n]]
           /\ \A p \in L : TableOf(L, jb)[jb[p].number] = EntryOf(p, jb)
<1>1. ASSUME NEW p \in L PROVE (CHOOSE q \in L : jb[q].number = jb[p].number) = p
  BY DEF OneNumberEach
<1> QED
  BY <1>1 DEF TableOf, NumbersOf, EntryOf

(* A function is known by its domain and its values.                       *)
LEMMA SameTable ==
    ASSUME NEW f, NEW g, NEW D, f = [n \in D |-> f[n]], g = [n \in D |-> g[n]],
           \A n \in D : f[n] = g[n]
    PROVE  f = g
<1>1. [n \in D |-> f[n]] = [n \in D |-> g[n]]
  OBVIOUS
<1> QED
  BY <1>1

(* The jobs of the list, as a table, in this state and in the next.        *)
LEMMA JobsAreTable ==
    Jobs = TableOf(Listed, job) /\ Jobs' = TableOf(Listed', job')
BY DEF Jobs, TableOf, ByNumber, number

(* Two jobs of the list have different numbers.                            *)
LEMMA NumbersDiffer ==
    ASSUME JobInv
    PROVE  OneNumberEach(Listed, job)
<1>1. PICK n, s : Order(head, next, job, n, s)
  BY DEF JobInv, ListOrdered
<1>2. Listed = Among(n, s)
  BY <1>1, ListFacts DEF JobInv
<1>3. \A k \in 1..n : \A i \in 1..n : number(s[i]) = number(s[k]) => i = k
  BY <1>1, OwnNumber
<1> QED
  BY <1>2, <1>3 DEF OneNumberEach, Among, number

(* In the table, a job that is added is a new row, with a number of its    *)
(* own.                                                                    *)
LEMMA AddsRow ==
    ASSUME JobInv, AddsJob
    PROVE  \E p \in Pids, status \in Statuses : Table!Add(p, status)
<1>1. PICK p \in Pids, m \in Nat, status \in Statuses :
          /\ p \notin Listed /\ Listed' = Listed \cup {p}
          /\ \A q \in Listed : number(q) # m /\ job'[q] = job[q]
          /\ job'[p].number = m /\ job'[p].status = status
  BY DEF AddsJob
<1>2. OneNumberEach(Listed, job)
  BY NumbersDiffer
<1>3. OneNumberEach(Listed', job')
  BY <1>1, <1>2 DEF OneNumberEach, number
<1> DEFINE old == TableOf(Listed, job)
           new == TableOf(Listed', job')
           row == [pid |-> p, status |-> status]
<1>4. /\ DOMAIN old = NumbersOf(Listed, job)
      /\ \A q \in Listed : old[job[q].number] = EntryOf(q, job)
  BY <1>2, TableEntries
<1>5. /\ DOMAIN new = NumbersOf(Listed', job')
      /\ new = [n \in NumbersOf(Listed', job') |-> new[n]]
      /\ \A q \in Listed' : new[job'[q].number] = EntryOf(q, job')
  BY <1>3, TableEntries
<1> HIDE DEF old, new
<1>6. NumbersOf(Listed', job') = DOMAIN old \cup {m}
  BY <1>1, <1>4 DEF NumbersOf
<1>7. m \notin DOMAIN old
  BY <1>1, <1>4 DEF NumbersOf, number
<1>8. \A n \in DOMAIN old \cup {m} : new[n] = IF n = m THEN row ELSE old[n]
  <2>1. new[m] = row
    BY <1>1, <1>5 DEF EntryOf
  <2>2. ASSUME NEW n \in DOMAIN old PROVE new[n] = old[n]
    <3>1. PICK q \in Listed : n = job[q].number
      BY <1>4 DEF NumbersOf
    <3>2. q \in Listed' /\ job'[q] = job[q]
      BY <1>1
    <3>3. new[n] = EntryOf(q, job')
      BY <1>5, <3>1, <3>2
    <3>4. old[n] = EntryOf(q, job)
      BY <1>4, <3>1
    <3> QED
      BY <3>2, <3>3, <3>4 DEF EntryOf
  <2> QED
    BY <1>7, <2>1, <2>2
<1>9. new = [n \in DOMAIN old \cup {m} |-> IF n = m THEN row ELSE old[n]]
  BY <1>5, <1>6, <1>8
<1>10. \A n \in DOMAIN old : old[n].pid # p
  <2> TAKE n \in DOMAIN old
  <2>1. PICK q \in Listed : n = job[q].number
    BY <1>4 DEF NumbersOf
  <2>2. old[n] = [pid |-> q, status |-> job[q].status]
    BY <1>4, <2>1 DEF EntryOf
  <2> QED
    BY <1>1, <2>2
<1>11. Jobs = old /\ Jobs' = new
  BY JobsAreTable DEF old, new
<1>12. m \in DOMAIN new \ DOMAIN old
  BY <1>5, <1>6, <1>7
<1>13. Table!Add(p, status)
  BY <1>9, <1>10, <1>11, <1>12 DEF Table!Add, Table!Listed, Table!Numbers
<1> QED
  BY <1>13

(* A job that is dropped is a row removed, and no other row changes.       *)
LEMMA DropsRow ==
    ASSUME JobInv, DropsJob
    PROVE  \E n \in Table!Numbers : Table!Remove(n)
<1>1. PICK p \in Listed :
          Listed' = Listed \ {p} /\ \A q \in Listed \ {p} : job'[q] = job[q]
  BY DEF DropsJob
<1>2. OneNumberEach(Listed, job)
  BY NumbersDiffer
<1>3. OneNumberEach(Listed', job')
  BY <1>1, <1>2 DEF OneNumberEach
<1> DEFINE old == TableOf(Listed, job)
           new == TableOf(Listed', job')
           m == job[p].number
<1>4. /\ DOMAIN old = NumbersOf(Listed, job)
      /\ \A q \in Listed : old[job[q].number] = EntryOf(q, job)
  BY <1>2, TableEntries
<1>5. /\ DOMAIN new = NumbersOf(Listed', job')
      /\ new = [n \in NumbersOf(Listed', job') |-> new[n]]
      /\ \A q \in Listed' : new[job'[q].number] = EntryOf(q, job')
  BY <1>3, TableEntries
<1> HIDE DEF old, new
<1>6. NumbersOf(Listed', job') = DOMAIN old \ {m}
  BY <1>1, <1>2, <1>4 DEF NumbersOf, OneNumberEach
<1>7. ASSUME NEW n \in DOMAIN old \ {m} PROVE new[n] = old[n]
  <2>1. PICK q \in Listed : n = job[q].number
    BY <1>4 DEF NumbersOf
  <2>2. q \in Listed' /\ job'[q] = job[q]
    BY <1>1, <1>7, <2>1
  <2>3. old[n] = EntryOf(q, job)
    BY <1>4, <2>1
  <2>4. new[n] = EntryOf(q, job')
    BY <1>5, <2>1, <2>2
  <2> QED
    BY <2>2, <2>3, <2>4 DEF EntryOf
<1>8. new = [n \in DOMAIN old \ {m} |-> old[n]]
  BY <1>5, <1>6, <1>7
<1>9. Jobs = old /\ Jobs' = new
  BY JobsAreTable DEF old, new
<1>10. m \in DOMAIN old
  BY <1>4 DEF NumbersOf
<1> QED
  BY <1>8, <1>9, <1>10 DEF Table!Remove, Table!Numbers

(* A change of status is a change of one row.                              *)
LEMMA SetsRow ==
    ASSUME JobInv, SetsStatus
    PROVE  \E n \in Table!Numbers, status \in Statuses : Table!SetStatus(n, status)
<1>1. PICK p \in Listed, status \in Statuses :
          /\ Listed' = Listed
          /\ \A q \in Listed : job'[q].number = job[q].number
          /\ \A q \in Listed : job'[q].status = IF q = p THEN status ELSE job[q].status
  BY DEF SetsStatus
<1>2. OneNumberEach(Listed, job)
  BY NumbersDiffer
<1>3. OneNumberEach(Listed', job')
  BY <1>1, <1>2 DEF OneNumberEach
<1> DEFINE old == TableOf(Listed, job)
           new == TableOf(Listed', job')
           m == job[p].number
<1>4. /\ DOMAIN old = NumbersOf(Listed, job)
      /\ old = [n \in NumbersOf(Listed, job) |-> old[n]]
      /\ \A q \in Listed : old[job[q].number] = EntryOf(q, job)
  BY <1>2, TableEntries
<1>5. /\ DOMAIN new = NumbersOf(Listed', job')
      /\ new = [n \in NumbersOf(Listed', job') |-> new[n]]
      /\ \A q \in Listed' : new[job'[q].number] = EntryOf(q, job')
  BY <1>3, TableEntries
<1> HIDE DEF old, new
<1>6. NumbersOf(Listed', job') = DOMAIN old
  BY <1>1, <1>4 DEF NumbersOf
<1>7. ASSUME NEW n \in DOMAIN old
      PROVE  new[n] = IF n = m THEN [old[m] EXCEPT !.status = status] ELSE old[n]
  <2>1. PICK q \in Listed : n = job[q].number
    BY <1>4 DEF NumbersOf
  <2>2. new[n] = [pid |-> q, status |-> job'[q].status]
    BY <1>1, <1>5, <2>1 DEF EntryOf
  <2>3. old[n] = [pid |-> q, status |-> job[q].status]
    BY <1>4, <2>1 DEF EntryOf
  <2>4. CASE n = m
    <3>1. q = p /\ new[n] = [pid |-> p, status |-> status]
      BY <1>1, <1>2, <2>1, <2>2, <2>4 DEF OneNumberEach
    <3>2. [old[m] EXCEPT !.status = status] = [pid |-> p, status |-> status]
      BY <2>3, <2>4, <3>1
    <3> QED
      BY <2>4, <3>1, <3>2
  <2>5. CASE n # m
    BY <1>1, <2>1, <2>2, <2>3, <2>5
  <2> QED
    BY <2>4, <2>5
<1>8. new = [n \in DOMAIN old |-> IF n = m THEN [old[m] EXCEPT !.status = status] ELSE old[n]]
  BY <1>5, <1>6, <1>7
<1>9. m \in DOMAIN old /\ old = [n \in DOMAIN old |-> old[n]]
  BY <1>4 DEF NumbersOf
<1>10. new = [old EXCEPT ![m].status = status]
  BY <1>8, <1>9
<1>11. Jobs = old /\ Jobs' = new
  BY JobsAreTable DEF old, new
<1> QED
  BY <1>9, <1>10, <1>11 DEF Table!SetStatus, Table!Numbers

(* A step that leaves the jobs alone leaves the table alone.               *)
LEMMA KeepsRows ==
    ASSUME JobInv, KeepsJobs
    PROVE  Jobs' = Jobs
<1>1. Listed' = Listed /\ \A q \in Listed : job'[q] = job[q]
  BY DEF KeepsJobs
<1>2. OneNumberEach(Listed, job)
  BY NumbersDiffer
<1>3. OneNumberEach(Listed', job')
  BY <1>1, <1>2 DEF OneNumberEach
<1> DEFINE old == TableOf(Listed, job)
           new == TableOf(Listed', job')
<1>4. /\ old = [n \in NumbersOf(Listed, job) |-> old[n]]
      /\ \A q \in Listed : old[job[q].number] = EntryOf(q, job)
  BY <1>2, TableEntries
<1>5. /\ new = [n \in NumbersOf(Listed', job') |-> new[n]]
      /\ \A q \in Listed' : new[job'[q].number] = EntryOf(q, job')
  BY <1>3, TableEntries
<1> HIDE DEF old, new
<1>6. NumbersOf(Listed', job') = NumbersOf(Listed, job)
  BY <1>1 DEF NumbersOf
<1>7. ASSUME NEW n \in NumbersOf(Listed, job) PROVE new[n] = old[n]
  <2>1. PICK q \in Listed : n = job[q].number
    BY DEF NumbersOf
  <2>2. old[n] = EntryOf(q, job)
    BY <1>4, <2>1
  <2>3. q \in Listed' /\ job'[q] = job[q]
    BY <1>1
  <2>4. new[n] = EntryOf(q, job')
    BY <1>5, <2>1, <2>3
  <2> QED
    BY <2>2, <2>3, <2>4 DEF EntryOf
<1>8. new = old
  BY <1>4, <1>5, <1>6, <1>7, SameTable
<1> QED
  BY <1>8, JobsAreTable DEF old, new

(* The linked list implements the table of jobs: adding a job takes no     *)
(* other job's number and loses no job, and fg, bg and polling change or   *)
(* remove the one job they are about.                                      *)
THEOREM ListIsTable == CarefulUser => (Spec => ImplementsJobTable)
<1> SUFFICES ASSUME CarefulUser PROVE Spec => ImplementsJobTable
  OBVIOUS
<1>1. Init => Table!Init
  <2> SUFFICES ASSUME Init PROVE Table!Init
    OBVIOUS
  <2>1. Listed = {}
    BY InitJobs
  <2>2. {number(p) : p \in Listed} = {}
    BY <2>1
  <2>3. Jobs = [n \in {} |-> 0]
    BY <2>2 DEF Jobs
  <2> QED
    BY <2>3 DEF Table!Init
<1>2. JobInv /\ [Next]_vars => [Table!Next]_Jobs
  <2> SUFFICES ASSUME JobInv, [Next]_vars PROVE [Table!Next]_Jobs
    OBVIOUS
  <2>1. AddsJob \/ DropsJob \/ SetsStatus \/ KeepsJobs
    BY NextJobs
  <2>2. ASSUME AddsJob PROVE Table!Next
    BY <2>2, AddsRow DEF Table!Next
  <2>3. ASSUME DropsJob PROVE Table!Next
    BY <2>3, DropsRow DEF Table!Next
  <2>4. ASSUME SetsStatus PROVE Table!Next
    BY <2>4, SetsRow DEF Table!Next
  <2>5. ASSUME KeepsJobs PROVE Jobs' = Jobs
    BY <2>5, KeepsRows
  <2> QED
    BY <2>1, <2>2, <2>3, <2>4, <2>5
<1>3. Spec => []JobInv
  BY JobsInvariance
<1> QED
  BY <1>1, <1>2, <1>3, PTL DEF Spec, ImplementsJobTable, Table!Spec
=============================================================================
