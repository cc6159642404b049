---------------------------- MODULE KernelProofs ----------------------------
(***************************************************************************)
(* Theorems about module Kernel, for any number of processes and any       *)
(* length of the session: in a session of plain commands no timer and no   *)
(* order of sleeping, waiting, ending and being reaped breaks the queues,  *)
(* loses a process or ends the kernel.                                     *)
(***************************************************************************)
EXTENDS KernelProperties, FiniteSetTheorems, SequenceTheorems, TLAPS

(* A plain session: programs that compute or sleep, in the foreground and  *)
(* the background, and blank lines; no keys; and the timer comes neither   *)
(* between a spawn and the shell's wait, nor half way into blocking.  The  *)
(* shell has as many entries for its children as it may start.             *)
Plain == {"echo", "busy", "sleep"}
Critical == {"nice", "wait", "waitBlock", "sleepBlock"}
PlainCommand(c) ==
    /\ c.op = "run" /\ c.bg \in BOOLEAN /\ c.niced = FALSE
    /\ c.program \in Programs /\ c.program.kind \in Plain
PlainSession ==
    /\ \A c \in Menu : c.op = "blank" \/ PlainCommand(c)
    /\ PreemptPoints \cap Critical = {}
    /\ KeyPoints = {}
    /\ MaxPid <= ChildPidSlots + 1

-----------------------------------------------------------------------------
(* A nonempty set of numbers has a least element.  The argument counts     *)
(* its lower bounds: there are as many as the least element plus one.      *)
LEMMA LeastElement ==
    ASSUME NEW S \in SUBSET Nat, S # {}
    PROVE  \E m \in S : \A k \in S : m <= k
<1>1. PICK n \in S : TRUE
  OBVIOUS
<1> DEFINE Below == {k \in 0..n : \A f \in S : k <= f}
           c == Cardinality(Below)
<1>2. IsFiniteSet(0..n) /\ Below \in SUBSET (0..n)
  BY FS_Interval
<1>3. IsFiniteSet(Below) /\ c \in Nat
  BY <1>2, FS_Subset, FS_CardinalityType
<1> HIDE DEF c
<1>4. ASSUME NEW k \in Below PROVE k + 1 <= c
  <2>1. 0..k \in SUBSET Below
    OBVIOUS
  <2>2. Cardinality(0..k) = k + 1
    BY FS_Interval
  <2> QED
    BY <1>3, <2>1, <2>2, FS_Subset DEF c
<1>5. Below = 0..c - 1
  <2>1. Below \in SUBSET (0..c - 1)
    <3>1. \A k \in Below : k \in Nat /\ k <= c - 1
      BY <1>3, <1>4
    <3> QED
      BY <1>3, <3>1
  <2>2. IsFiniteSet(0..c - 1) /\ Cardinality(0..c - 1) = c
    BY <1>3, FS_Interval
  <2> QED
    BY <2>1, <2>2, FS_Subset DEF c
<1>6. 0 \in Below
  OBVIOUS
<1>7. c - 1 \in Below /\ c \notin Below
  <2> HIDE DEF Below
  <2>1. 0 \in 0..c - 1
    BY <1>5, <1>6
  <2>2. c - 1 \in 0..c - 1 /\ c \notin 0..c - 1
    BY <1>3, <2>1
  <2> QED
    BY <1>5, <2>2
<1> QED
  BY <1>3, <1>7

(* Induction over the natural numbers, for a set: what is missing from it  *)
(* would have a least element.                                             *)
LEMMA SetInduction ==
    ASSUME NEW S \in SUBSET Nat, 0 \in S, \A n \in S : n + 1 \in S
    PROVE  S = Nat
<1> SUFFICES ASSUME S # Nat PROVE FALSE
  OBVIOUS
<1>1. PICK m \in Nat \ S : \A k \in Nat \ S : m <= k
  <2>1. Nat \ S \in SUBSET Nat /\ Nat \ S # {}
    OBVIOUS
  <2> QED
    BY <2>1, LeastElement
<1>2. m # 0 /\ m - 1 \in Nat
  BY <1>1
<1>3. m - 1 \in S
  BY <1>1, <1>2
<1>4. (m - 1) + 1 \in S
  BY <1>3
<1> QED
  BY <1>1, <1>4

(* The walk along the list that starts at first and goes on with next: the *)
(* walk of a queue, for any head and any links.                            *)
Along(first, links) ==
    LET walk[i \in 1..MaxPid + 1] ==
            IF i = 1 THEN first
            ELSE IF walk[i - 1] = NULL THEN NULL ELSE links[walk[i - 1]]
    IN  walk
Onward(links, p) == IF p = NULL THEN NULL ELSE links[p]

(* The walk is what its recursive definition says: there is such a         *)
(* function.                                                               *)
LEMMA WalkExists ==
    ASSUME NEW h, NEW nx
    PROVE  Along(h, nx) = [i \in 1..MaxPid + 1 |->
                IF i = 1 THEN h ELSE Onward(nx, Along(h, nx)[i - 1])]
<1> DEFINE Recursive(g, n) ==
               g = [i \in 1..n |-> IF i = 1 THEN h ELSE Onward(nx, g[i - 1])]
           S == {n \in Nat : \E g : Recursive(g, n)}
<1>1. 0 \in S
  <2>1. Recursive([i \in 1..0 |-> h], 0)
    OBVIOUS
  <2> QED
    BY <2>1
<1>2. ASSUME NEW n \in S PROVE n + 1 \in S
  <2>1. PICK g : Recursive(g, n)
    OBVIOUS
  <2> DEFINE last == IF n = 0 THEN h ELSE Onward(nx, g[n])
             longer == [i \in 1..n + 1 |-> IF i = n + 1 THEN last ELSE g[i]]
  <2>2. \A i \in 1..n : longer[i] = g[i] /\ g[i] = IF i = 1 THEN h ELSE Onward(nx, g[i - 1])
    BY <2>1
  <2>3. \A i \in 1..n + 1 : longer[i] = IF i = 1 THEN h ELSE Onward(nx, longer[i - 1])
    <3> TAKE i \in 1..n + 1
    <3>1. CASE i = n + 1
      BY <2>2, <3>1
    <3>2. CASE i # n + 1
      BY <2>2, <3>2
    <3> QED
      BY <3>1, <3>2
  <2>4. Recursive(longer, n + 1)
    BY <2>3
  <2> HIDE DEF Recursive, longer
  <2> QED
    BY <2>4
<1>3. S = Nat
  <2> HIDE DEF S
  <2>1. S \in SUBSET Nat
    BY DEF S
  <2> QED
    BY <1>1, <1>2, <2>1, SetInduction
<1>4. \E g : Recursive(g, MaxPid + 1)
  <2>1. MaxPid + 1 \in Nat
    BY PidsAssumption
  <2>2. MaxPid + 1 \in S
    <3> HIDE DEF S
    <3> QED
      BY <1>3, <2>1
  <2> HIDE DEF Recursive
  <2> QED
    BY <2>2
<1> QED
  BY <1>4 DEF Along, Onward

(* There are finitely many pids.                                           *)
LEMMA PidsFinite == IsFiniteSet(Pids) /\ Cardinality(Pids) = MaxPid
<1>1. MaxPid \in Nat /\ MaxPid >= 1
  BY PidsAssumption
<1>2. IsFiniteSet(1..MaxPid) /\ Cardinality(1..MaxPid) = MaxPid
  BY <1>1, FS_Interval
<1> QED
  BY <1>2 DEF Pids

-----------------------------------------------------------------------------
(* The list from h to t, linked by nx, is s[1] to s[n]; it holds L.        *)
IsList(h, t, nx, n, s) ==
    /\ n \in Nat /\ s \in [1..n -> Pids]
    /\ \A i, j \in 1..n : s[i] = s[j] => i = j
    /\ h = IF n = 0 THEN NULL ELSE s[1]
    /\ n # 0 => t = s[n]
    /\ \A i \in 1..n : nx[s[i]] = IF i = n THEN NULL ELSE s[i + 1]
Among(n, s) == {s[i] : i \in 1..n}
Lists(h, t, nx, L) ==
    \E n \in 0..MaxPid : \E s \in [1..n -> Pids] :
        IsList(h, t, nx, n, s) /\ Among(n, s) = L

(* The walk along such a list finds its members in this order, and there   *)
(* are no more of them than pids.                                          *)
LEMMA WalkIsList ==
    ASSUME NEW h, NEW t, NEW nx, NEW n, NEW s, IsList(h, t, nx, n, s)
    PROVE  /\ n \in 0..MaxPid
           /\ \A i \in 1..MaxPid + 1 : Along(h, nx)[i] = IF i <= n THEN s[i] ELSE NULL
<1>0. Along(h, nx) = [i \in 1..MaxPid + 1 |->
                        IF i = 1 THEN h ELSE Onward(nx, Along(h, nx)[i - 1])]
  BY WalkExists
<1> USE DEF IsList
<1>1. n \in 0..MaxPid
  <2>1. s \in Injection(1..n, Pids)
    BY DEF Injection, IsInjective
  <2>2. Cardinality(1..n) = n
    BY FS_Interval
  <2>3. n <= MaxPid
    BY <2>1, <2>2, PidsFinite, FS_Injection
  <2> QED
    BY <2>3, PidsAssumption
<1> DEFINE w == Along(h, nx)
           val(i) == IF i <= n THEN s[i] ELSE NULL
           S == {k \in Nat : k + 1 \in 1..MaxPid + 1 => w[k + 1] = val(k + 1)}
<1>2. w = [i \in 1..MaxPid + 1 |-> IF i = 1 THEN h ELSE Onward(nx, w[i - 1])]
  BY <1>0
<1> HIDE DEF w
<1>3. 0 \in S
  BY <1>2, PidsAssumption
<1>4. ASSUME NEW k \in S PROVE k + 1 \in S
  <2>1. SUFFICES ASSUME k + 2 \in 1..MaxPid + 1 PROVE w[k + 2] = val(k + 2)
    OBVIOUS
  <2>2. k \in Nat /\ k + 1 \in 1..MaxPid + 1 /\ (k + 2) - 1 = k + 1 /\ k + 2 # 1
    BY <2>1, PidsAssumption
  <2>3. w[k + 1] = val(k + 1)
    BY <2>2
  <2>4. w[k + 2] = Onward(nx, w[k + 1])
    BY <1>2, <2>1, <2>2
  <2>5. Onward(nx, val(k + 1)) = val(k + 2)
    <3>1. CASE k + 1 <= n
      <4>1. k + 1 \in 1..n /\ s[k + 1] \in Pids /\ s[k + 1] # NULL
        BY <2>2, <3>1 DEF Pids, NULL
      <4>2. nx[s[k + 1]] = IF k + 1 = n THEN NULL ELSE s[k + 2]
        BY <4>1
      <4> QED
        BY <2>2, <3>1, <4>1, <4>2 DEF Onward
    <3>2. CASE ~(k + 1 <= n)
      BY <2>2, <3>2 DEF Onward
    <3> QED
      BY <3>1, <3>2
  <2> QED
    BY <2>3, <2>4, <2>5
<1>5. S = Nat
  <2> HIDE DEF S
  <2>1. S \in SUBSET Nat
    BY DEF S
  <2> QED
    BY <1>3, <1>4, <2>1, SetInduction
<1>6. ASSUME NEW i \in 1..MaxPid + 1 PROVE w[i] = val(i)
  <2>1. i - 1 \in Nat /\ (i - 1) + 1 = i
    BY PidsAssumption
  <2>2. i - 1 \in S
    <3> HIDE DEF S
    <3> QED
      BY <1>5, <2>1
  <2> QED
    BY <2>1, <2>2
<1> QED
  BY <1>1, <1>6 DEF w

(* A list is not longer than there are pids.                               *)
LEMMA ListsIs ==
    ASSUME NEW h, NEW t, NEW nx, NEW n, NEW s, IsList(h, t, nx, n, s)
    PROVE  Lists(h, t, nx, Among(n, s))
<1>1. n \in 0..MaxPid
  BY WalkIsList
<1>2. s \in [1..n -> Pids]
  BY DEF IsList
<1> QED
  BY <1>1, <1>2 DEF Lists

(* The ends of a list, and the empty list.                                 *)
LEMMA ListEnds ==
    ASSUME NEW h, NEW t, NEW nx, NEW L, Lists(h, t, nx, L)
    PROVE  /\ L \in SUBSET Pids /\ (h = NULL <=> L = {})
           /\ h # NULL => h \in L /\ t \in L /\ nx[t] = NULL
           /\ \A p \in L : p # t => nx[p] \in L
           /\ h # NULL /\ nx[h] = NULL => h = t /\ L = {h}
           /\ h # NULL /\ h = t => L = {h}
<1>1. PICK n, s : IsList(h, t, nx, n, s) /\ L = Among(n, s)
  BY DEF Lists
<1> USE DEF IsList, Among
<1>2. n = 0 => h = NULL /\ L = {}
  BY <1>1
<1>3. ASSUME n # 0
      PROVE  /\ 1 \in 1..n /\ n \in 1..n /\ h = s[1] /\ t = s[n]
             /\ h \in L /\ t \in L /\ h # NULL
  <2>1. 1 \in 1..n /\ n \in 1..n
    BY <1>1, <1>3
  <2>2. s[1] \in Pids /\ s[n] \in Pids
    BY <1>1, <2>1
  <2> QED
    BY <1>1, <1>3, <2>1, <2>2 DEF Pids, NULL
<1>4. ASSUME NEW p \in L, p # t PROVE nx[p] \in L
  <2>1. PICK i \in 1..n : p = s[i]
    BY <1>1
  <2>2. i # n
    BY <1>1, <1>4, <2>1
  <2>3. i + 1 \in 1..n /\ nx[p] = s[i + 1]
    BY <1>1, <2>1, <2>2
  <2> QED
    BY <1>1, <2>3
<1>5. ASSUME h # NULL PROVE nx[t] = NULL
  BY <1>1, <1>2, <1>3, <1>5
<1>6. NULL \notin L /\ L \in SUBSET Pids
  BY <1>1 DEF Pids, NULL
<1>7. ASSUME h # NULL, h = t PROVE L = {h}
  <2>1. n # 0 /\ 1 \in 1..n /\ n \in 1..n /\ s[1] = s[n]
    BY <1>2, <1>3, <1>7
  <2>2. n = 1
    BY <1>1, <2>1
  <2> QED
    BY <1>1, <2>2
<1> QED
  BY <1>2, <1>3, <1>4, <1>5, <1>6, <1>7

(* Links outside of a list do not matter to it.                            *)
LEMMA SameLinks ==
    ASSUME NEW h, NEW t, NEW nx, NEW L, Lists(h, t, nx, L),
           NEW nx2, \A p \in L : nx2[p] = nx[p]
    PROVE  Lists(h, t, nx2, L)
<1>1. PICK n, s : IsList(h, t, nx, n, s) /\ L = Among(n, s)
  BY DEF Lists
<1>2. \A i \in 1..n : nx2[s[i]] = nx[s[i]]
  BY <1>1 DEF Among
<1>3. IsList(h, t, nx2, n, s)
  BY <1>1, <1>2 DEF IsList
<1> QED
  BY <1>1, <1>3, ListsIs

(* One process on its own, and none.                                       *)
LEMMA ShortLists ==
    ASSUME NEW p \in Pids, NEW t, NEW nx
    PROVE  /\ nx[p] = NULL => Lists(p, p, nx, {p})
           /\ Lists(NULL, t, nx, {})
<1>1. ASSUME nx[p] = NULL PROVE Lists(p, p, nx, {p})
  <2> DEFINE s == [i \in 1..1 |-> p]
  <2>1. IsList(p, p, nx, 1, s) /\ Among(1, s) = {p}
    BY <1>1 DEF IsList, Among
  <2> HIDE DEF s
  <2> QED
    BY <2>1, ListsIs
<1>2. Lists(NULL, t, nx, {})
  <2> DEFINE s == [i \in 1..0 |-> p]
  <2>1. IsList(NULL, t, nx, 0, s) /\ Among(0, s) = {}
    BY DEF IsList, Among
  <2> HIDE DEF s
  <2> QED
    BY <2>1, ListsIs
<1> QED
  BY <1>1, <1>2

(* A process appended behind the tail.                                     *)
LEMMA PutBehind ==
    ASSUME NEW h, NEW t, NEW nx, NEW L, Lists(h, t, nx, L), h # NULL,
           NEW p \in Pids, p \notin L, NEW nx2, nx2[t] = p, nx2[p] = NULL,
           \A r \in L \ {t} : nx2[r] = nx[r]
    PROVE  Lists(h, p, nx2, L \cup {p})
<1>1. PICK n, s : IsList(h, t, nx, n, s) /\ L = Among(n, s)
  BY DEF Lists
<1> DEFINE s2 == [i \in 1..n + 1 |-> IF i = n + 1 THEN p ELSE s[i]]
<1> USE DEF IsList, Among
<1>2. n \in Nat /\ n # 0 /\ n \in 1..n /\ 1 \in 1..n /\ t = s[n] /\ h = s[1]
  <2>1. n \in Nat /\ n # 0
    BY <1>1
  <2> QED
    BY <1>1, <2>1
<1>3. /\ s2 \in [1..n + 1 -> Pids] /\ s2[n + 1] = p
      /\ \A i \in 1..n : s2[i] = s[i] /\ s[i] \in L /\ s[i] # p
  BY <1>1, <1>2
<1> HIDE DEF s2
<1>4. \A i, j \in 1..n + 1 : s2[i] = s2[j] => i = j
  <2>1. \A i \in 1..n + 1 : i \in 1..n \/ i = n + 1
    BY <1>2
  <2> QED
    BY <1>1, <1>3, <2>1
<1>5. ASSUME NEW i \in 1..n + 1
      PROVE  nx2[s2[i]] = IF i = n + 1 THEN NULL ELSE s2[i + 1]
  <2>1. CASE i = n + 1
    BY <1>3, <2>1
  <2>2. CASE i = n
    BY <1>2, <1>3, <2>2
  <2>3. CASE i # n + 1 /\ i # n
    <3>1. i \in 1..n /\ i + 1 \in 1..n /\ i + 1 # n + 1
      BY <1>2, <2>3
    <3>2. s[i] # t
      BY <1>1, <1>2, <2>3, <3>1
    <3> QED
      BY <1>1, <1>3, <2>3, <3>1, <3>2
  <2> QED
    BY <2>1, <2>2, <2>3
<1>6. IsList(h, p, nx2, n + 1, s2)
  BY <1>1, <1>2, <1>3, <1>4, <1>5
<1>7. Among(n + 1, s2) = L \cup {p}
  <2>1. \A i \in 1..n + 1 : i \in 1..n \/ i = n + 1
    BY <1>2
  <2>2. n + 1 \in 1..n + 1 /\ \A i \in 1..n : i \in 1..n + 1
    BY <1>2
  <2> QED
    BY <1>1, <1>3, <2>1, <2>2
<1> HIDE DEF s2, IsList, Among
<1> QED
  BY <1>6, <1>7, ListsIs

(* The head taken off.                                                     *)
LEMMA TakeHead ==
    ASSUME NEW h, NEW t, NEW nx, NEW L, Lists(h, t, nx, L), h # NULL
    PROVE  Lists(nx[h], t, nx, L \ {h})
<1>1. PICK n, s : IsList(h, t, nx, n, s) /\ L = Among(n, s)
  BY DEF Lists
<1> DEFINE s2 == [i \in 1..n - 1 |-> s[i + 1]]
<1> USE DEF IsList, Among
<1>2. n \in Nat /\ n # 0 /\ n \in 1..n /\ 1 \in 1..n /\ t = s[n] /\ h = s[1] /\ n - 1 \in Nat
  <2>1. n \in Nat /\ n # 0
    BY <1>1
  <2> QED
    BY <1>1, <2>1
<1>3. s2 \in [1..n - 1 -> Pids] /\ \A i \in 1..n - 1 : s2[i] = s[i + 1] /\ i + 1 \in 1..n
  BY <1>1, <1>2
<1> HIDE DEF s2
<1>4. \A i, j \in 1..n - 1 : s2[i] = s2[j] => i = j
  BY <1>1, <1>2, <1>3
<1>5. ASSUME NEW i \in 1..n - 1
      PROVE  nx[s2[i]] = IF i = n - 1 THEN NULL ELSE s2[i + 1]
  <2>1. i + 1 \in 1..n /\ s2[i] = s[i + 1] /\ (i + 1 = n <=> i = n - 1)
    BY <1>2, <1>3
  <2>2. i # n - 1 => i + 1 \in 1..n - 1 /\ s2[i + 1] = s[i + 2]
    BY <1>2, <1>3
  <2> QED
    BY <1>1, <2>1, <2>2
<1>6. nx[h] = IF n - 1 = 0 THEN NULL ELSE s2[1]
  <2>1. n - 1 # 0 => 1 \in 1..n - 1 /\ s2[1] = s[2]
    BY <1>2, <1>3
  <2> QED
    BY <1>1, <1>2, <2>1
<1>7. n - 1 # 0 => t = s2[n - 1]
  BY <1>1, <1>2, <1>3
<1>8. IsList(nx[h], t, nx, n - 1, s2)
  BY <1>2, <1>3, <1>4, <1>5, <1>6, <1>7
<1>9. Among(n - 1, s2) = L \ {h}
  <2>1. ASSUME NEW i \in 1..n - 1 PROVE s2[i] \in L \ {h}
    <3>1. i + 1 \in 1..n /\ i + 1 # 1 /\ s2[i] = s[i + 1]
      BY <1>2, <1>3
    <3> QED
      BY <1>1, <1>2, <3>1
  <2>2. ASSUME NEW q \in L \ {h} PROVE \E i \in 1..n - 1 : q = s2[i]
    <3>1. PICK i \in 1..n : q = s[i]
      BY <1>1
    <3>2. i - 1 \in 1..n - 1 /\ (i - 1) + 1 = i
      BY <1>2, <3>1
    <3> QED
      BY <1>3, <3>1, <3>2
  <2> QED
    BY <2>1, <2>2
<1> HIDE DEF IsList, Among
<1> QED
  BY <1>8, <1>9, ListsIs

(* The places where the walk along a list meets p behind the head.         *)
Places(h, nx, p) == {i \in 2..MaxPid : Along(h, nx)[i] = p}
Before(h, nx, p) == Along(h, nx)[Min(Places(h, nx, p)) - 1]

(* The walk meets the members of the list and nobody else, and ends.       *)
LEMMA WalkMeets ==
    ASSUME NEW h, NEW t, NEW nx, NEW L, Lists(h, t, nx, L)
    PROVE  /\ {Along(h, nx)[i] : i \in 1..MaxPid} \ {NULL} = L
           /\ Along(h, nx)[MaxPid + 1] = NULL
           /\ \A p \in Pids : Places(h, nx, p) # {} <=> p \in L /\ p # h
<1>1. PICK n, s : IsList(h, t, nx, n, s) /\ L = Among(n, s)
  BY DEF Lists
<1>2. /\ n \in 0..MaxPid
      /\ \A i \in 1..MaxPid + 1 : Along(h, nx)[i] = IF i <= n THEN s[i] ELSE NULL
  BY <1>1, WalkIsList
<1> DEFINE w == Along(h, nx)
<1> HIDE DEF w
<1>3. \A i \in 1..MaxPid + 1 : w[i] = IF i <= n THEN s[i] ELSE NULL
  BY <1>2 DEF w
<1>4. MaxPid \in Nat /\ MaxPid + 1 \in 1..MaxPid + 1 /\ ~(MaxPid + 1 <= n)
  BY <1>2, PidsAssumption
<1>5. \A i \in 1..n : w[i] = s[i] /\ i \in 1..MaxPid /\ s[i] \in Pids /\ s[i] # NULL
  BY <1>1, <1>2, <1>3, <1>4 DEF IsList, Pids, NULL
<1>6. \A i \in 1..MaxPid : w[i] # NULL => i \in 1..n
  BY <1>2, <1>3, <1>4
<1>7. {w[i] : i \in 1..MaxPid} \ {NULL} = L
  BY <1>1, <1>5, <1>6 DEF Among
<1>8. ASSUME NEW p \in Pids
      PROVE  {i \in 2..MaxPid : w[i] = p} # {} <=> p \in L /\ p # h
  <2>0. p # NULL
    BY DEF Pids, NULL
  <2>1. ASSUME NEW i \in 2..MaxPid, w[i] = p PROVE p \in L /\ p # h
    <3>1. i \in 1..MaxPid /\ i # 1
      BY <1>4
    <3>2. i \in 1..n /\ s[i] = p
      BY <1>5, <1>6, <2>0, <2>1, <3>1
    <3>3. 1 \in 1..n /\ h = s[1]
      BY <1>1, <3>2 DEF IsList
    <3> QED
      BY <1>1, <3>1, <3>2, <3>3 DEF IsList, Among
  <2>2. ASSUME p \in L, p # h PROVE \E i \in 2..MaxPid : w[i] = p
    <3>1. PICK i \in 1..n : p = s[i]
      BY <1>1, <2>2 DEF Among
    <3>2. i # 1
      BY <1>1, <2>2, <3>1 DEF IsList
    <3>3. i \in 2..MaxPid
      BY <1>4, <1>5, <3>1, <3>2
    <3> QED
      BY <1>5, <3>1, <3>3
  <2> QED
    BY <2>1, <2>2
<1> QED
  BY <1>3, <1>4, <1>7, <1>8 DEF w, Places

(* A process cut out behind the head: the process before it takes over its *)
(* successor, and the place of the tail if it was that.                    *)
LEMMA TakeOut ==
    ASSUME NEW h, NEW t, NEW nx, NEW L, Lists(h, t, nx, L),
           NEW p \in L, p # h, NEW nx2, nx2[Before(h, nx, p)] = nx[p],
           \A r \in L \ {Before(h, nx, p), p} : nx2[r] = nx[r]
    PROVE  /\ Before(h, nx, p) \in L /\ Before(h, nx, p) # p
           /\ Lists(h, IF nx[p] = NULL THEN Before(h, nx, p) ELSE t, nx2, L \ {p})
<1>1. PICK n, s : IsList(h, t, nx, n, s) /\ L = Among(n, s)
  BY DEF Lists
<1>2. /\ n \in 0..MaxPid
      /\ \A i \in 1..MaxPid + 1 : Along(h, nx)[i] = IF i <= n THEN s[i] ELSE NULL
  BY <1>1, WalkIsList
<1> DEFINE w == Along(h, nx)
           before == Before(h, nx, p)
<1> HIDE DEF w, before
<1>3. \A i \in 1..MaxPid + 1 : w[i] = IF i <= n THEN s[i] ELSE NULL
  BY <1>2 DEF w
<1>4. PICK j \in 1..n : p = s[j]
  BY <1>1 DEF Among
<1>5. n \in Nat /\ n <= MaxPid /\ MaxPid \in Nat /\ j \in 2..n /\ j - 1 \in 1..n /\ j \in 1..MaxPid
  <2>1. j # 1
    BY <1>1, <1>4 DEF IsList
  <2> QED
    BY <1>2, <1>4, <2>1, PidsAssumption
<1>6. p \in Pids /\ p # NULL
  BY <1>1, <1>4 DEF IsList, Pids, NULL
<1>7. Places(h, nx, p) = {j}
  <2>1. j \in 2..MaxPid /\ w[j] = p
    BY <1>3, <1>4, <1>5
  <2>2. ASSUME NEW i \in 2..MaxPid, w[i] = p PROVE i = j
    <3>1. i \in 1..MaxPid + 1 /\ i <= n /\ w[i] = s[i]
      BY <1>3, <1>5, <1>6, <2>2
    <3>2. i \in 1..n /\ s[i] = s[j]
      BY <1>4, <1>5, <2>2, <3>1
    <3> QED
      BY <1>1, <1>4, <3>2 DEF IsList
  <2> QED
    BY <2>1, <2>2 DEF Places, w
<1>8. Min({j}) = j
  BY <1>5 DEF Min
<1>9. before = s[j - 1]
  BY <1>3, <1>5, <1>7, <1>8 DEF w, before, Before
<1>10. before \in L /\ before # p /\ nx[before] = p
  BY <1>1, <1>4, <1>5, <1>9 DEF IsList, Among
<1>11. nx[p] = NULL <=> p = t
  <2>1. ASSUME j = n PROVE nx[p] = NULL /\ p = t
    BY <1>1, <1>4, <1>5, <2>1 DEF IsList
  <2>2. ASSUME j # n PROVE nx[p] # NULL /\ p # t
    <3>1. j + 1 \in 1..n /\ n \in 1..n /\ nx[p] = s[j + 1] /\ t = s[n]
      BY <1>1, <1>4, <1>5, <2>2 DEF IsList
    <3> QED
      BY <1>1, <1>4, <2>2, <3>1 DEF IsList, Pids, NULL
  <2> QED
    BY <2>1, <2>2
<1> DEFINE s2 == [i \in 1..n - 1 |-> IF i < j THEN s[i] ELSE s[i + 1]]
           t2 == IF nx[p] = NULL THEN before ELSE t
<1> USE DEF IsList, Among
<1>12. /\ s2 \in [1..n - 1 -> Pids]
       /\ \A i \in 1..n - 1 : i < j => s2[i] = s[i] /\ i \in 1..n
       /\ \A i \in 1..n - 1 : i >= j => s2[i] = s[i + 1] /\ i + 1 \in 1..n
  BY <1>1, <1>5
<1> HIDE DEF s2
<1>13. \A i, k \in 1..n - 1 : s2[i] = s2[k] => i = k
  <2> SUFFICES ASSUME NEW i \in 1..n - 1, NEW k \in 1..n - 1, s2[i] = s2[k] PROVE i = k
    OBVIOUS
  <2>1. CASE i < j /\ k < j
    BY <1>1, <1>12, <2>1
  <2>2. CASE i < j /\ k >= j
    <3>1. i \in 1..n /\ k + 1 \in 1..n /\ i # k + 1 /\ s[i] = s[k + 1]
      BY <1>5, <1>12, <2>2
    <3> QED
      BY <1>1, <3>1
  <2>3. CASE i >= j /\ k < j
    <3>1. k \in 1..n /\ i + 1 \in 1..n /\ k # i + 1 /\ s[k] = s[i + 1]
      BY <1>5, <1>12, <2>3
    <3> QED
      BY <1>1, <3>1
  <2>4. CASE i >= j /\ k >= j
    <3>1. i + 1 = k + 1
      BY <1>1, <1>12, <2>4
    <3> QED
      BY <1>5, <3>1
  <2> QED
    BY <1>5, <2>1, <2>2, <2>3, <2>4
<1>14. h = s2[1] /\ n - 1 \in Nat /\ n - 1 # 0
  <2>1. n - 1 \in Nat /\ n - 1 # 0 /\ 1 \in 1..n - 1 /\ 1 < j
    BY <1>5
  <2> QED
    BY <1>1, <1>5, <1>12, <2>1
<1>15. t2 = s2[n - 1]
  <2>1. n - 1 \in 1..n - 1 /\ t = s[n]
    BY <1>1, <1>5
  <2>2. CASE j = n
    BY <1>1, <1>4, <1>5, <1>9, <1>11, <1>12, <2>1, <2>2
  <2>3. CASE j # n
    <3>1. n - 1 >= j /\ (n - 1) + 1 = n /\ n \in 1..n
      BY <1>5, <2>3
    <3>2. p # t
      BY <1>1, <1>4, <2>1, <2>3, <3>1
    <3> QED
      BY <1>11, <1>12, <2>1, <3>1, <3>2
  <2> QED
    BY <2>2, <2>3
<1>16. ASSUME NEW i \in 1..n - 1
       PROVE  nx2[s2[i]] = IF i = n - 1 THEN NULL ELSE s2[i + 1]
  <2>1. CASE i < j - 1
    <3>1. i \in 1..n /\ i + 1 \in 1..n - 1 /\ i + 1 < j /\ i # n /\ i # n - 1 /\ i # j /\ i # j - 1
      BY <1>5, <2>1
    <3>2. s2[i] = s[i] /\ s2[i + 1] = s[i + 1] /\ s[i] \in L \ {before, p}
      BY <1>1, <1>4, <1>5, <1>9, <1>12, <3>1
    <3> QED
      BY <1>1, <3>1, <3>2 DEF before
  <2>2. CASE i = j - 1
    <3>1. s2[i] = before /\ nx2[before] = nx[p]
      BY <1>5, <1>9, <1>12, <2>2 DEF before
    <3>2. nx[p] = IF j = n THEN NULL ELSE s[j + 1]
      BY <1>1, <1>4
    <3>3. j # n => j \in 1..n - 1 /\ s2[j] = s[j + 1] /\ i + 1 = j /\ i # n - 1
      BY <1>5, <1>12, <2>2
    <3>4. j = n => i = n - 1
      BY <2>2
    <3> QED
      BY <3>1, <3>2, <3>3, <3>4
  <2>3. CASE i >= j
    <3>1. i + 1 \in 1..n /\ i + 1 # j /\ i + 1 # j - 1 /\ s2[i] = s[i + 1]
      BY <1>5, <1>12, <2>3
    <3>2. s[i + 1] \in L \ {before, p}
      BY <1>1, <1>4, <1>5, <1>9, <3>1
    <3>3. nx[s[i + 1]] = IF i + 1 = n THEN NULL ELSE s[i + 2]
      BY <1>1, <3>1
    <3>4. ASSUME i # n - 1
          PROVE  i + 1 \in 1..n - 1 /\ s2[i + 1] = s[i + 2] /\ i + 1 # n
      <4>1. i + 1 \in 1..n - 1 /\ i + 1 >= j /\ (i + 1) + 1 = i + 2 /\ i + 1 # n
        BY <1>5, <2>3, <3>4
      <4> QED
        BY <1>12, <4>1
    <3>5. i = n - 1 => i + 1 = n
      BY <1>5
    <3> QED
      BY <3>1, <3>2, <3>3, <3>4, <3>5 DEF before
  <2> QED
    BY <1>5, <2>1, <2>2, <2>3
<1>17. IsList(h, t2, nx2, n - 1, s2)
  BY <1>12, <1>13, <1>14, <1>15, <1>16
<1>18. Among(n - 1, s2) = L \ {p}
  <2>1. ASSUME NEW i \in 1..n - 1 PROVE s2[i] \in L \ {p}
    <3>1. CASE i < j
      BY <1>1, <1>4, <1>12, <3>1
    <3>2. CASE i >= j
      <4>1. i + 1 \in 1..n /\ i + 1 # j /\ s2[i] = s[i + 1]
        BY <1>5, <1>12, <3>2
      <4> QED
        BY <1>1, <1>4, <4>1
    <3> QED
      BY <1>5, <3>1, <3>2
  <2>2. ASSUME NEW q \in L \ {p} PROVE \E i \in 1..n - 1 : q = s2[i]
    <3>1. PICK i \in 1..n : q = s[i]
      BY <1>1
    <3>2. CASE i < j
      <4>1. i \in 1..n - 1
        BY <1>5, <3>2
      <4> QED
        BY <1>12, <3>1, <3>2, <4>1
    <3>3. CASE i > j
      <4>1. i - 1 \in 1..n - 1 /\ i - 1 >= j /\ (i - 1) + 1 = i
        BY <1>5, <3>3
      <4> QED
        BY <1>12, <3>1, <4>1
    <3>4. i # j
      BY <1>4, <3>1
    <3> QED
      BY <1>5, <3>2, <3>3, <3>4
  <2> QED
    BY <2>1, <2>2
<1> HIDE DEF IsList, Among
<1>19. Lists(h, t2, nx2, L \ {p})
  BY <1>17, <1>18, ListsIs
<1> QED
  BY <1>10, <1>19 DEF before

-----------------------------------------------------------------------------
(* The queues of k are lists that hold M, apart from one another, and a    *)
(* process in none of them has no successor.                               *)
Queued(k, M) ==
    /\ k \in KernType /\ k.fault = "none"
    /\ M \in [Queues -> SUBSET Pids]
    /\ \A q \in Queues : Lists(k.head[q], k.tail[q], k.next, M[q])
    /\ \A q, r \in Queues : q # r => M[q] \cap M[r] = {}
    /\ \A p \in Pids : (\A q \in Queues : p \notin M[q]) => k.next[p] = NULL

(* Where a process belongs: the shell has the high queue for itself.  A    *)
(* process on its way to the blocked queue is in none.                     *)
Blocking == {"waitBlock", "sleepBlock"}
OwnQueue(p) == IF p = Shell THEN "high" ELSE "med"
IsReady(b, at, n, p) == p < n /\ b[p].status = "RUNNING" /\ at[p] \notin Blocking
Placed(b, M, at, n, p) ==
    /\ p \in M["high"] <=> IsReady(b, at, n, p) /\ p = Shell
    /\ p \in M["med"] <=> IsReady(b, at, n, p) /\ p # Shell
    /\ p \in M["blocked"] <=> p < n /\ b[p].status = "BLOCKED"
    /\ p \in M["zombie"] => p < n /\ b[p].status = "TERMINATED" /\ b[p].bgFlag
    /\ p \notin M["low"] /\ p \notin M["stopped"]

(* A program of the session, at each of its labels.                        *)
ProgramFacts(b, at, p) ==
    /\ b[p].ppid = Shell /\ b[p].priority = 0 /\ b[p].childPids = <<>>
    /\ b[p].status \in {"RUNNING", "BLOCKED", "TERMINATED"}
    /\ at[p] \in {"user", "spin", "exit", "sleepBlock", "sleepYield", "sleepResume", "dead"}
    /\ b[p].status = "TERMINATED" <=> at[p] = "dead"
    /\ b[p].status = "BLOCKED" => at[p] \in {"sleepYield", "sleepResume"}
    /\ at[p] \in {"sleepBlock", "sleepYield", "sleepResume"} => b[p].sleep >= 0
    /\ at[p] \in {"sleepYield", "sleepResume"} /\ b[p].status = "RUNNING" => b[p].sleep = 0

(* The shell, and the child c it has started last and may wait for.        *)
ShellFacts(b, at, n, c) ==
    /\ b[Shell].priority = -1 /\ b[Shell].sleep = -1 /\ ~b[Shell].bgFlag
    /\ Len(b[Shell].childPids) = n - 2
    /\ at[Shell] \in ShellLabels
    /\ b[Shell].status \in {"RUNNING", "BLOCKED"}
    /\ b[Shell].status = "BLOCKED" => at[Shell] \in {"waitYield", "waitResume"}
    /\ at[Shell] \notin {"read", "poll", "exec"} => c \in 2..n - 1
    /\ at[Shell] \in {"nice", "wait"} => b[c].status = "RUNNING" /\ ~b[c].changedStatus
    /\ at[Shell] = "wait" => ~b[c].bgFlag
    /\ at[Shell] = "waitBlock" \/ b[Shell].status = "BLOCKED" =>
           /\ b[Shell].waitChild = c /\ ~b[c].bgFlag
           /\ b[c].status \in {"RUNNING", "BLOCKED"}

(* A process that has not been reaped, and runs in the background.         *)
IsJob(b, M, p) == b[p].bgFlag /\ (b[p].status # "TERMINATED" \/ p \in M["zombie"])

(* These are the jobs, but for the one the shell is just about to enter.   *)
JobFacts(b, M, at, n, c, D) ==
    /\ \A p \in 2..n - 1 : IsJob(b, M, p) /\ ~(at[Shell] = "nice" /\ p = c) => p \in D
    /\ \A p \in D : p \in 2..n - 1 /\ IsJob(b, M, p)

(* What holds whoever has the thread: of the queues and control blocks k,  *)
(* the labels at, the next pid n, the last child c and the jobs D.         *)
Steady(k, M, at, n, c, D) ==
    /\ Queued(k, M) /\ \A p \in Pids : Placed(k.pcb, M, at, n, p)
    /\ n \in 2..MaxPid + 1 /\ at \in [Pids -> Labels] /\ c \in Pids \cup {NULL}
    /\ \A p \in Pids : p >= n => at[p] = "none"
    /\ \A p \in 2..n - 1 : ProgramFacts(k.pcb, at, p)
    /\ ShellFacts(k.pcb, at, n, c)
    /\ JobFacts(k.pcb, M, at, n, c, D)

(* Who has the thread: a ready process, the last of its queue, or one that *)
(* has just blocked; and only it is at a critical label.  Nobody has it    *)
(* only when no process is ready.                                          *)
Turn(k, at, n, ac, ap) ==
    /\ \A p \in Pids : at[p] \in Critical => p = ac
    /\ ac \in Pids =>
           /\ ac < n /\ ap = ac
           /\ k.pcb[ac].status \in {"RUNNING", "BLOCKED"}
           /\ k.pcb[ac].status = "BLOCKED" => at[ac] \in {"waitYield", "sleepYield"}
           /\ k.pcb[ac].status = "RUNNING" /\ at[ac] \notin Blocking =>
                  k.tail[OwnQueue(ac)] = ac
    /\ ac \notin Pids => \A p \in Pids : ~IsReady(k.pcb, at, n, p)

(* The globals of the shell.                                               *)
Globals ==
    /\ activeProcess \in Pids /\ activeContext \in Contexts
    /\ listPointer \in 0..17 /\ fgpid \in Pids
    /\ IS_BG \in BOOLEAN /\ retFlag = FALSE /\ flag_spaces \in BOOLEAN
    /\ DOMAIN jobs \subseteq 2..pidCounter - 1 /\ \A j \in DOMAIN jobs : jobs[j] = "RUNNING"
    /\ cmd \in Menu \cup {NoCommand}
    /\ prog \in [Pids -> Programs] /\ \A p \in Pids : prog[p].kind \in Plain
    /\ \A p \in Pids : pc[p] = "user" => prog[p].kind = "sleep"
    /\ pc[Shell] = "nice" =>
           cmd.op = "run" /\ (kern.pcb[curr_pid].bgFlag <=> IS_BG)

(* The inductive invariant.                                                *)
Contents(k) == [q \in Queues |-> Members(k, q)]
KernelInv ==
    /\ Steady(kern, Contents(kern), pc, pidCounter, curr_pid, DOMAIN jobs)
    /\ Turn(kern, pc, pidCounter, activeContext, activeProcess)
    /\ Globals
-----------------------------------------------------------------------------
(* What a head, a tail and a next field hold.                              *)
Pointers == Pids \cup {NULL}

(* A process enters a queue, or leaves it; a process in no queue.          *)
Joins(M, q, p) == [M EXCEPT ![q] = M[q] \cup {p}]
Leaves(M, q, p) == [M EXCEPT ![q] = M[q] \ {p}]
Apart(M, p) == \A q \in Queues : p \notin M[q]

(* k2 is k but for the list of q: the others' heads and tails are the same *)
(* and so are the control blocks.                                          *)
OnlyQueue(k, k2, q) ==
    /\ k2.pcb = k.pcb
    /\ \A r \in Queues \ {q} : k2.head[r] = k.head[r] /\ k2.tail[r] = k.tail[r]

(* The parts of a kernel state, and a kernel state with parts replaced.    *)
LEMMA KernParts ==
    ASSUME NEW k \in KernType
    PROVE  /\ k.head \in [Queues -> Pointers]
           /\ k.tail \in [Queues -> Pointers]
           /\ k.next \in [Pids -> Pointers]
           /\ k.pcb \in [Pids -> PcbType]
BY DEF KernType, Pointers

(* A queue's list relinked: new head, tail and links.                      *)
Relinked(k, q, h, t, nx) ==
    [k EXCEPT !.head = [k.head EXCEPT ![q] = h],
              !.tail = [k.tail EXCEPT ![q] = t], !.next = nx]

(* It is a kernel state in which only this queue differs.                  *)
LEMMA RelinkedIs ==
    ASSUME NEW k \in KernType, NEW q \in Queues, NEW h \in Pointers,
           NEW t \in Pointers, NEW nx \in [Pids -> Pointers]
    PROVE  LET k2 == Relinked(k, q, h, t, nx) IN
           /\ k2 \in KernType /\ OnlyQueue(k, k2, q) /\ k2.fault = k.fault
           /\ k2.head[q] = h /\ k2.tail[q] = t /\ k2.next = nx
BY DEF KernType, Relinked, OnlyQueue, Pointers

(* The other queues' lists stay, so only the new list is to be looked at.  *)
LEMMA RelinkedQueued ==
    ASSUME NEW k, NEW M, Queued(k, M), NEW q \in Queues,
           NEW h \in Pointers, NEW t \in Pointers,
           NEW nx \in [Pids -> Pointers], NEW L \in SUBSET Pids,
           Lists(h, t, nx, L),
           \A r \in Queues \ {q} : M[r] \cap L = {},
           \A r \in Queues \ {q} : \A p \in M[r] : nx[p] = k.next[p],
           \A p \in Pids : p \notin L /\ (\A r \in Queues \ {q} : p \notin M[r])
               => nx[p] = NULL
    PROVE  Queued(Relinked(k, q, h, t, nx), [M EXCEPT ![q] = L])
<1> DEFINE k2 == Relinked(k, q, h, t, nx)
           M2 == [M EXCEPT ![q] = L]
<1>1. k \in KernType /\ M \in [Queues -> SUBSET Pids] /\ k.fault = "none"
  BY DEF Queued
<1>2. /\ k2 \in KernType /\ k2.fault = "none"
      /\ k2.head[q] = h /\ k2.tail[q] = t /\ k2.next = nx
      /\ \A r \in Queues \ {q} : k2.head[r] = k.head[r] /\ k2.tail[r] = k.tail[r]
  <2>1. /\ k2 \in KernType /\ k2.fault = k.fault /\ OnlyQueue(k, k2, q)
        /\ k2.head[q] = h /\ k2.tail[q] = t /\ k2.next = nx
    BY <1>1, RelinkedIs
  <2> HIDE DEF k2
  <2> QED
    BY <1>1, <2>1 DEF OnlyQueue
<1>3. /\ M2 \in [Queues -> SUBSET Pids] /\ M2[q] = L
      /\ \A r \in Queues \ {q} : M2[r] = M[r]
  BY <1>1
<1> HIDE DEF k2, M2
<1>4. ASSUME NEW r \in Queues PROVE Lists(k2.head[r], k2.tail[r], k2.next, M2[r])
  <2>1. CASE r = q
    BY <1>2, <1>3, <2>1
  <2>2. CASE r # q
    <3>1. Lists(k.head[r], k.tail[r], k.next, M[r])
      BY DEF Queued
    <3>2. Lists(k.head[r], k.tail[r], nx, M[r])
      BY <2>2, <3>1, SameLinks
    <3> QED
      BY <1>2, <1>3, <2>2, <3>2
  <2> QED
    BY <2>1, <2>2
<1>5. \A r, s \in Queues : r # s => M2[r] \cap M2[s] = {}
  <2>1. \A r, s \in Queues : r # s => M[r] \cap M[s] = {}
    BY DEF Queued
  <2> QED
    BY <1>3, <2>1
<1>6. \A p \in Pids : (\A r \in Queues : p \notin M2[r]) => k2.next[p] = NULL
  BY <1>2, <1>3
<1> QED
  BY <1>2, <1>3, <1>4, <1>5, <1>6 DEF Queued, k2, M2

(* Linking a process that is in no queue.                                  *)
LEMMA LinkQueued ==
    ASSUME NEW k, NEW M, Queued(k, M), NEW q \in Queues, NEW p \in Pids, Apart(M, p)
    PROVE  LET k2 == Link(k, q, p) IN
           /\ Queued(k2, Joins(M, q, p)) /\ OnlyQueue(k, k2, q)
           /\ k2.tail[q] = p
<1> DEFINE h == k.head[q]
           t == k.tail[q]
           L == M[q]
<1>1. /\ k \in KernType /\ M \in [Queues -> SUBSET Pids]
      /\ h \in Pointers /\ t \in Pointers
      /\ k.next \in [Pids -> Pointers]
  BY KernParts DEF Queued
<1>2. Lists(h, t, k.next, L) /\ p \notin L /\ L \in SUBSET Pids
  BY <1>1 DEF Queued, Apart
<1>3. k.next[p] = NULL
  BY DEF Queued, Apart
<1>4. /\ \A r \in Queues \ {q} : M[r] \cap (L \cup {p}) = {}
      /\ \A r \in Queues \ {q} : \A x \in M[r] : x # t \/ h = NULL
  <2>1. h # NULL => t \in L
    BY <1>2, ListEnds
  <2>2. \A r \in Queues \ {q} : M[r] \cap L = {}
    BY DEF Queued
  <2> QED
    BY <2>1, <2>2 DEF Apart
<1>5. ASSUME NEW nx \in [Pids -> Pointers], NEW h2 \in Pids,
             Lists(h2, p, nx, L \cup {p}),
             \A x \in Pids : x \notin L => nx[x] = k.next[x],
             Link(k, q, p) = Relinked(k, q, h2, p, nx)
      PROVE  LET k2 == Link(k, q, p) IN
             /\ Queued(k2, Joins(M, q, p)) /\ OnlyQueue(k, k2, q)
             /\ k2.tail[q] = p
  <2>1. \A r \in Queues \ {q} : \A x \in M[r] : nx[x] = k.next[x]
    BY <1>1, <1>4, <1>5
  <2>2. \A x \in Pids : x \notin L \cup {p} /\ (\A r \in Queues \ {q} : x \notin M[r])
               => nx[x] = NULL
    BY <1>5 DEF Queued
  <2>0. h2 \in Pointers /\ p \in Pointers /\ L \cup {p} \in SUBSET Pids
    BY <1>2, <1>5 DEF Pointers
  <2>3. Queued(Relinked(k, q, h2, p, nx), [M EXCEPT ![q] = L \cup {p}])
    BY <1>1, <1>2, <1>4, <1>5, <2>0, <2>1, <2>2, RelinkedQueued
  <2>4. OnlyQueue(k, Relinked(k, q, h2, p, nx), q) /\ Relinked(k, q, h2, p, nx).tail[q] = p
    BY <1>1, <2>0, RelinkedIs
  <2> QED
    BY <1>5, <2>3, <2>4 DEF Joins
<1>6. CASE h = NULL
  <2>1. L = {} /\ Lists(p, p, k.next, L \cup {p})
    <3>1. L = {}
      BY <1>2, <1>6, ListEnds
    <3>2. Lists(p, p, k.next, {p})
      BY <1>3, ShortLists
    <3> QED
      BY <3>1, <3>2
  <2>2. Link(k, q, p) = Relinked(k, q, p, p, k.next)
    BY <1>1, <1>6 DEF Link, Relinked, KernType
  <2> QED
    BY <1>1, <1>5, <2>1, <2>2
<1>7. CASE h # NULL
  <2> DEFINE nx == [k.next EXCEPT ![t] = p]
  <2>1. h \in L /\ t \in L /\ t \in Pids /\ h \in Pids /\ t # p
    BY <1>1, <1>2, <1>7, ListEnds
  <2>2. /\ nx \in [Pids -> Pointers] /\ nx[t] = p /\ nx[p] = NULL
        /\ \A x \in Pids \ {t} : nx[x] = k.next[x]
    BY <1>1, <1>3, <2>1 DEF Pointers
  <2>3. Lists(h, p, nx, L \cup {p})
    BY <1>2, <1>7, <2>2, PutBehind
  <2>4. Link(k, q, p) = Relinked(k, q, h, p, nx)
    BY <1>1, <1>7 DEF Link, Relinked, KernType
  <2> HIDE DEF nx
  <2> QED
    BY <1>5, <2>1, <2>2, <2>3, <2>4
<1> QED
  BY <1>6, <1>7

(* The control blocks replaced.                                            *)
Recorded(k, b) == [k EXCEPT !.pcb = b]

(* The queues do not depend on the control blocks.                         *)
LEMMA RecordedIs ==
    ASSUME NEW k, NEW M, Queued(k, M), NEW b \in [Pids -> PcbType]
    PROVE  LET k2 == Recorded(k, b) IN
           /\ Queued(k2, M) /\ k2.pcb = b /\ k2.head = k.head /\ k2.tail = k.tail
           /\ k2.next = k.next /\ k2.fault = k.fault
<1> DEFINE k2 == Recorded(k, b)
<1>1. k \in KernType
  BY DEF Queued
<1>2. /\ k2 \in KernType /\ k2.pcb = b /\ k2.head = k.head /\ k2.tail = k.tail
      /\ k2.next = k.next /\ k2.fault = k.fault
  BY <1>1 DEF KernType, Recorded
<1> HIDE DEF k2
<1>3. Queued(k2, M)
  BY <1>2 DEF Queued
<1> QED
  BY <1>2, <1>3 DEF k2

(* What the calls write into the control block of a process.               *)
Running(b, p) == [b EXCEPT ![p].status = "RUNNING"]
Blocked(b, p) == [b EXCEPT ![p].status = "BLOCKED", ![p].changedStatus = TRUE]
Changed(b, p) == [b EXCEPT ![p].changedStatus = TRUE]
Told(b, p) == [b EXCEPT ![p].changedStatus = FALSE]
Over(b, p) == [b EXCEPT ![p].status = "TERMINATED", ![p].changedStatus = TRUE]

(* The fields of control blocks have the types they had.                   *)
LEMMA BlockTypes ==
    ASSUME NEW b \in [Pids -> PcbType], NEW p \in Pids
    PROVE  /\ Running(b, p) \in [Pids -> PcbType] /\ Blocked(b, p) \in [Pids -> PcbType]
           /\ Changed(b, p) \in [Pids -> PcbType] /\ Told(b, p) \in [Pids -> PcbType]
           /\ Over(b, p) \in [Pids -> PcbType]
<1>1. b[p] \in PcbType
  OBVIOUS
<1>2. /\ [b[p] EXCEPT !.status = "RUNNING"] \in PcbType
      /\ [b[p] EXCEPT !.status = "BLOCKED", !.changedStatus = TRUE] \in PcbType
      /\ [b[p] EXCEPT !.status = "TERMINATED", !.changedStatus = TRUE] \in PcbType
      /\ [b[p] EXCEPT !.changedStatus = TRUE] \in PcbType
      /\ [b[p] EXCEPT !.changedStatus = FALSE] \in PcbType
  BY <1>1 DEF PcbType, Statuses
<1> QED
  BY <1>2 DEF Running, Blocked, Changed, Told, Over

(* The queues and tails after a call that touches the queue q only.        *)
SameTails(k, k2, q) == \A r \in Queues \ {q} : k2.tail[r] = k.tail[r]

(* What a call leaves of k: the queues hold M, the control blocks are b,   *)
(* and only the tail of q may be another one.                              *)
After(k, k2, M, b, q) == Queued(k2, M) /\ k2.pcb = b /\ SameTails(k, k2, q)

(* A process is a process.                                                 *)
LEMMA OnProcessIs ==
    ASSUME NEW k, k.fault = "none", NEW p \in Pids, NEW k2
    PROVE  OnProcess(k, p, k2) = k2
BY DEF OnProcess, Faulty, Pids, NULL

(* Recording and then linking.                                             *)
LEMMA RecordAndLink ==
    ASSUME NEW k, NEW M, Queued(k, M), NEW q \in Queues, NEW p \in Pids, Apart(M, p),
           NEW b \in [Pids -> PcbType]
    PROVE  LET k2 == Link(Recorded(k, b), q, p) IN
           After(k, k2, Joins(M, q, p), b, q) /\ k2.tail[q] = p
<1> DEFINE k1 == Recorded(k, b)
           k2 == Link(k1, q, p)
<1>1. Queued(k1, M) /\ k1.pcb = b /\ k1.tail = k.tail
  BY RecordedIs
<1> HIDE DEF k1
<1>2. Queued(k2, Joins(M, q, p)) /\ OnlyQueue(k1, k2, q) /\ k2.tail[q] = p
  BY <1>1, LinkQueued
<1> HIDE DEF k2
<1> QED
  BY <1>1, <1>2 DEF After, SameTails, OnlyQueue, k1, k2

(* enqueue, for a process of high or medium priority.                      *)
LEMMA EnqueueCall ==
    ASSUME NEW k, NEW M, Queued(k, M), NEW p \in Pids, Apart(M, p), NEW q \in {"high", "med"},
           ReadyQueue(k.pcb[p].priority) = q
    PROVE  LET k2 == enqueue(k, p) IN
           After(k, k2, Joins(M, q, p), Running(k.pcb, p), q) /\ k2.tail[q] = p
<1>1. k \in KernType /\ k.fault = "none" /\ k.pcb \in [Pids -> PcbType]
  BY KernParts DEF Queued
<1>2. enqueue(k, p) = Link([k EXCEPT !.pcb[p].status = "RUNNING"], q, p)
  BY <1>1, OnProcessIs DEF enqueue
<1>3. [k EXCEPT !.pcb[p].status = "RUNNING"] = Recorded(k, Running(k.pcb, p))
  BY <1>1 DEF KernType, Recorded, Running
<1>4. Running(k.pcb, p) \in [Pids -> PcbType] /\ q \in Queues
  BY <1>1, BlockTypes DEF Queues
<1> QED
  BY <1>2, <1>3, <1>4, RecordAndLink

(* enqueueBlocked.                                                         *)
LEMMA EnqueueBlockedCall ==
    ASSUME NEW k, NEW M, Queued(k, M), NEW p \in Pids, Apart(M, p)
    PROVE  After(k, enqueueBlocked(k, p), Joins(M, "blocked", p), Blocked(k.pcb, p), "blocked")
<1>1. k \in KernType /\ k.fault = "none" /\ k.pcb \in [Pids -> PcbType]
  BY KernParts DEF Queued
<1>2. enqueueBlocked(k, p)
        = Link([k EXCEPT !.pcb[p].status = "BLOCKED", !.pcb[p].changedStatus = TRUE], "blocked", p)
  BY <1>1, OnProcessIs DEF enqueueBlocked
<1>3. [k EXCEPT !.pcb[p].status = "BLOCKED", !.pcb[p].changedStatus = TRUE]
        = Recorded(k, Blocked(k.pcb, p))
  BY <1>1 DEF KernType, Recorded, Blocked
<1>4. Blocked(k.pcb, p) \in [Pids -> PcbType] /\ "blocked" \in Queues
  BY <1>1, BlockTypes DEF Queues
<1> QED
  BY <1>2, <1>3, <1>4, RecordAndLink

(* enqueueZombie.                                                          *)
LEMMA EnqueueZombieCall ==
    ASSUME NEW k, NEW M, Queued(k, M), NEW p \in Pids, Apart(M, p)
    PROVE  After(k, enqueueZombie(k, p), Joins(M, "zombie", p), Changed(k.pcb, p), "zombie")
<1>1. k \in KernType /\ k.fault = "none" /\ k.pcb \in [Pids -> PcbType]
  BY KernParts DEF Queued
<1>2. enqueueZombie(k, p) = Link([k EXCEPT !.pcb[p].changedStatus = TRUE], "zombie", p)
  BY <1>1, OnProcessIs DEF enqueueZombie
<1>3. [k EXCEPT !.pcb[p].changedStatus = TRUE] = Recorded(k, Changed(k.pcb, p))
  BY <1>1 DEF KernType, Recorded, Changed
<1>4. Changed(k.pcb, p) \in [Pids -> PcbType] /\ "zombie" \in Queues
  BY <1>1, BlockTypes DEF Queues
<1> QED
  BY <1>2, <1>3, <1>4, RecordAndLink

(* What the walk over a queue of k finds.                                  *)
LEMMA QueueWalk ==
    ASSUME NEW k, NEW M, Queued(k, M), NEW q \in Queues
    PROVE  /\ Members(k, q) = M[q] /\ ~Cyclic(k, q)
           /\ Walk(k, q) = Along(k.head[q], k.next)
<1>1. Lists(k.head[q], k.tail[q], k.next, M[q])
  BY DEF Queued
<1>2. Walk(k, q) = Along(k.head[q], k.next)
  BY DEF Walk, Along
<1> QED
  BY <1>1, <1>2, WalkMeets DEF Members, Cyclic

(* A process that leaves its queue is in none, for it was in no other.     *)
LEMMA LeavesIs ==
    ASSUME NEW k, NEW M, Queued(k, M), NEW q \in Queues, NEW p \in M[q]
    PROVE  /\ Apart(Leaves(M, q, p), p) /\ Leaves(M, q, p) \in [Queues -> SUBSET Pids]
           /\ p \in Pids
BY DEF Queued, Leaves, Apart

(* p cut out of its queue's list, whose head, tail and links are now h, t  *)
(* and nx.                                                                 *)
LEMMA CutOut ==
    ASSUME NEW k, NEW M, Queued(k, M), NEW q \in Queues, NEW p \in M[q],
           NEW h \in Pointers, NEW t \in Pointers, NEW nx \in [Pids -> Pointers],
           Lists(h, t, nx, M[q] \ {p}),
           nx[p] = NULL, \A x \in Pids : x \notin M[q] => nx[x] = k.next[x]
    PROVE  After(k, Relinked(k, q, h, t, nx), Leaves(M, q, p), k.pcb, q)
<1> DEFINE L == M[q] \ {p}
<1>1. k \in KernType /\ M \in [Queues -> SUBSET Pids]
  BY DEF Queued
<1>2. L \in SUBSET Pids
  BY <1>1
<1>3. \A r \in Queues \ {q} : M[r] \cap M[q] = {}
  BY DEF Queued
<1>4. \A r \in Queues \ {q} : \A x \in M[r] : x \in Pids /\ x \notin M[q]
  BY <1>1, <1>3
<1>5. \A r \in Queues \ {q} : \A x \in M[r] : nx[x] = k.next[x]
  BY <1>4
<1>6. \A r \in Queues \ {q} : M[r] \cap L = {}
  BY <1>3
<1>7. \A x \in Pids : x \notin L /\ (\A r \in Queues \ {q} : x \notin M[r]) => nx[x] = NULL
  BY DEF Queued
<1> HIDE DEF L
<1>8. Lists(h, t, nx, L)
  BY DEF L
<1>9. Queued(Relinked(k, q, h, t, nx), [M EXCEPT ![q] = L])
  BY <1>1, <1>2, <1>5, <1>6, <1>7, <1>8, RelinkedQueued
<1>10. OnlyQueue(k, Relinked(k, q, h, t, nx), q)
  BY <1>1, RelinkedIs
<1> QED
  BY <1>9, <1>10 DEF After, SameTails, OnlyQueue, Leaves, L

(* The loop of the dequeue functions, for a process that is not the head.  *)
LEMMA UnlinkAfterHeadIs ==
    ASSUME NEW k, NEW M, Queued(k, M), NEW q \in Queues, NEW p \in M[q], p # k.head[q]
    PROVE  After(k, UnlinkAfterHead(k, q, p), Leaves(M, q, p), k.pcb, q)
<1> DEFINE h == k.head[q]
           t == k.tail[q]
           before == Before(h, k.next, p)
           t2 == IF k.next[p] = NULL THEN before ELSE t
           nx2 == [k.next EXCEPT ![before] = k.next[p], ![p] = NULL]
<1>1. /\ k \in KernType /\ M \in [Queues -> SUBSET Pids]
      /\ h \in Pointers /\ t \in Pointers /\ k.next \in [Pids -> Pointers]
  BY KernParts DEF Queued
<1>2. Lists(h, t, k.next, M[q]) /\ p \in Pids
  BY <1>1 DEF Queued
<1>3. Walk(k, q) = Along(h, k.next)
  BY QueueWalk
<1>4. Places(h, k.next, p) # {}
  BY <1>2, WalkMeets
<1>5. UnlinkAfterHead(k, q, p)
        = [k EXCEPT !.tail[q] = t2, !.next = [k.next EXCEPT ![before] = k.next[p], ![p] = NULL]]
  <2>1. {i \in 2..MaxPid : Walk(k, q)[i] = p} = Places(h, k.next, p)
    BY <1>3 DEF Places
  <2> QED
    BY <1>1, <1>3, <1>4, <2>1, Zenon DEF UnlinkAfterHead, Before
<1>6. UnlinkAfterHead(k, q, p) = Relinked(k, q, h, t2, nx2)
  <2> HIDE DEF before, t2
  <2> QED
    BY <1>1, <1>5 DEF Relinked, KernType
<1> HIDE DEF before
<1>7. before \in M[q] /\ before # p
  <2> DEFINE nx0 == [x \in M[q] \cup {before} |-> IF x = before THEN k.next[p] ELSE k.next[x]]
  <2>1. nx0[before] = k.next[p] /\ \A x \in M[q] \ {before, p} : nx0[x] = k.next[x]
    OBVIOUS
  <2> HIDE DEF nx0
  <2>2. /\ before \in M[q] /\ before # p
        /\ Lists(h, IF k.next[p] = NULL THEN before ELSE t, nx0, M[q] \ {p})
    BY <1>2, <2>1, TakeOut DEF before
  <2> QED
    BY <2>2
<1>8. before \in Pids /\ k.next[p] \in Pointers
  BY <1>1, <1>2, <1>7
<1>9. /\ nx2 \in [Pids -> Pointers] /\ nx2[before] = k.next[p] /\ nx2[p] = NULL
      /\ \A x \in Pids \ {before, p} : nx2[x] = k.next[x]
  BY <1>1, <1>2, <1>7, <1>8 DEF Pointers
<1>10. t2 \in Pointers
  BY <1>1, <1>8 DEF Pointers
<1> HIDE DEF nx2
<1>11. Lists(h, t2, nx2, M[q] \ {p})
  <2>1. \A x \in M[q] \ {before, p} : nx2[x] = k.next[x]
    BY <1>1, <1>9
  <2> QED
    BY <1>2, <1>9, <2>1, TakeOut DEF before
<1>12. \A x \in Pids : x \notin M[q] => nx2[x] = k.next[x]
  BY <1>7, <1>9
<1> HIDE DEF t2
<1> QED
  BY <1>1, <1>6, <1>9, <1>10, <1>11, <1>12, CutOut

(* The head cut out: its successor becomes the head.                       *)
WithoutHead(k, q, p) == [k EXCEPT !.head[q] = k.next[p], !.next[p] = NULL]

(* The others stay in the list.                                            *)
LEMMA UnlinkHeadIs ==
    ASSUME NEW k, NEW M, Queued(k, M), NEW q \in Queues, NEW p \in M[q], p = k.head[q]
    PROVE  After(k, WithoutHead(k, q, p), Leaves(M, q, p), k.pcb, q)
<1> DEFINE t == k.tail[q]
           h2 == k.next[p]
           nx2 == [k.next EXCEPT ![p] = NULL]
           k2 == WithoutHead(k, q, p)
<1>1. /\ k \in KernType /\ M \in [Queues -> SUBSET Pids]
      /\ t \in Pointers /\ k.next \in [Pids -> Pointers]
  BY KernParts DEF Queued
<1>2. Lists(p, t, k.next, M[q]) /\ p \in Pids /\ p # NULL
  BY <1>1 DEF Queued, Pids, NULL
<1>3. Lists(h2, t, k.next, M[q] \ {p})
  BY <1>2, TakeHead
<1>4. /\ nx2 \in [Pids -> Pointers] /\ nx2[p] = NULL /\ h2 \in Pointers
      /\ \A x \in Pids \ {p} : nx2[x] = k.next[x]
  BY <1>1, <1>2 DEF Pointers
<1>5. k2 = Relinked(k, q, h2, t, nx2)
  BY <1>1 DEF Relinked, KernType, WithoutHead
<1> HIDE DEF nx2, h2, k2
<1>6. Lists(h2, t, nx2, M[q] \ {p})
  BY <1>1, <1>3, <1>4, SameLinks
<1>7. \A x \in Pids : x \notin M[q] => nx2[x] = k.next[x]
  BY <1>4
<1>8. After(k, Relinked(k, q, h2, t, nx2), Leaves(M, q, p), k.pcb, q)
  BY <1>1, <1>4, <1>6, <1>7, CutOut
<1> QED
  BY <1>5, <1>8 DEF k2

(* dequeueBlocked and dequeueZombie.                                       *)
LEMMA UnlinkKeepingRestIs ==
    ASSUME NEW k, NEW M, Queued(k, M), NEW q \in Queues, NEW p \in M[q]
    PROVE  After(k, UnlinkKeepingRest(k, q, p), Leaves(M, q, p), k.pcb, q)
<1>1. k.fault = "none" /\ p \in Pids /\ Lists(k.head[q], k.tail[q], k.next, M[q])
  BY DEF Queued
<1>2. k.head[q] # NULL
  BY <1>1, ListEnds
<1>3. CASE p = k.head[q]
  <2>1. UnlinkKeepingRest(k, q, p) = WithoutHead(k, q, p)
    BY <1>1, <1>2, <1>3, OnProcessIs DEF UnlinkKeepingRest, WithoutHead
  <2> QED
    BY <1>3, <2>1, UnlinkHeadIs
<1>4. CASE p # k.head[q]
  <2>1. UnlinkKeepingRest(k, q, p) = UnlinkAfterHead(k, q, p)
    BY <1>1, <1>2, <1>4, OnProcessIs DEF UnlinkKeepingRest
  <2> QED
    BY <1>4, <2>1, UnlinkAfterHeadIs
<1> QED
  BY <1>3, <1>4

(* dequeue and dequeueStopped, for the last process of the queue: only     *)
(* then is the head that they remove the whole queue.                      *)
LEMMA UnlinkHeadLastIs ==
    ASSUME NEW k, NEW M, Queued(k, M), NEW q \in Queues, NEW p \in M[q], p = k.tail[q]
    PROVE  After(k, UnlinkHeadLast(k, q, p), Leaves(M, q, p), k.pcb, q)
<1>1. /\ k \in KernType /\ k.fault = "none" /\ p \in Pids
      /\ Lists(k.head[q], k.tail[q], k.next, M[q])
  BY DEF Queued
<1>2. k.head[q] # NULL /\ k.next[p] = NULL
  BY <1>1, ListEnds
<1>3. CASE p = k.head[q]
  <2>1. UnlinkHeadLast(k, q, p) = WithoutHead(k, q, p)
    BY <1>1, <1>2, <1>3, OnProcessIs DEF UnlinkHeadLast, WithoutHead
  <2> QED
    BY <1>2, <1>3, <2>1, UnlinkHeadIs
<1>4. CASE p # k.head[q]
  <2>1. UnlinkHeadLast(k, q, p) = UnlinkAfterHead(k, q, p)
    BY <1>1, <1>2, <1>4, OnProcessIs DEF UnlinkHeadLast
  <2> QED
    BY <1>4, <2>1, UnlinkAfterHeadIs
<1> QED
  BY <1>3, <1>4

(* dequeue.                                                                *)
LEMMA DequeueCall ==
    ASSUME NEW k, NEW M, Queued(k, M), NEW q \in {"high", "med"}, NEW p \in M[q],
           ReadyQueue(k.pcb[p].priority) = q, p = k.tail[q]
    PROVE  After(k, dequeue(k, p), Leaves(M, q, p), k.pcb, q)
<1>1. k.fault = "none" /\ q \in Queues /\ p \in Pids
  BY DEF Queued, Queues
<1>2. dequeue(k, p) = UnlinkHeadLast(k, q, p)
  BY <1>1, OnProcessIs DEF dequeue
<1> QED
  BY <1>1, <1>2, UnlinkHeadLastIs

(* Wake, for a process of high or medium priority.                         *)
LEMMA WakeCall ==
    ASSUME NEW k, NEW M, Queued(k, M), NEW p \in M["blocked"], NEW q \in {"high", "med"},
           ReadyQueue(k.pcb[p].priority) = q
    PROVE  LET k2 == Wake(k, p) IN
           /\ Queued(k2, Joins(Leaves(M, "blocked", p), q, p))
           /\ k2.pcb = Running(k.pcb, p)
           /\ \A r \in ReadyQueues \ {q} : k2.tail[r] = k.tail[r]
<1> DEFINE k1 == dequeueBlocked(k, p)
           M1 == Leaves(M, "blocked", p)
<1>1. "blocked" \in Queues
  BY DEF Queues
<1>2. After(k, k1, M1, k.pcb, "blocked")
  BY <1>1, UnlinkKeepingRestIs DEF dequeueBlocked
<1>3. Apart(M1, p) /\ p \in Pids
  BY <1>1, LeavesIs
<1> HIDE DEF k1, M1
<1>4. After(k1, enqueue(k1, p), Joins(M1, q, p), Running(k.pcb, p), q)
  BY <1>2, <1>3, EnqueueCall DEF After
<1>5. \A r \in ReadyQueues : r \in Queues \ {"blocked"}
  BY DEF ReadyQueues, Queues
<1> QED
  BY <1>2, <1>4, <1>5 DEF After, SameTails, Wake, k1, M1

(* A search for a pid ends, and finds the process if some queue holds it.  *)
LEMMA SearchCall ==
    ASSUME NEW k, NEW M, Queued(k, M), NEW p \in Pids
    PROVE  /\ Search(k, p) = k
           /\ findProcessByPid(k, p) = IF \E q \in Queues : p \in M[q] THEN p ELSE NULL
<1>1. \A q \in Queues : Members(k, q) = M[q] /\ ~Cyclic(k, q)
  BY QueueWalk
<1>2. \A i \in DOMAIN SearchOrder : SearchOrder[i] \in Queues
  BY DEF SearchOrder, Queues
<1>3. ~SearchHangs(k, p)
  BY <1>1, <1>2 DEF SearchHangs
<1> QED
  BY <1>1, <1>3 DEF Search, findProcessByPid

(* The scheduler's rotation.                                               *)
LEMMA RotateIs ==
    ASSUME NEW k, NEW M, Queued(k, M), NEW q \in Queues, k.head[q] # NULL
    PROVE  /\ After(k, Rotate(k, q), M, k.pcb, q) /\ Rotate(k, q).tail[q] = k.head[q]
           /\ k.head[q] \in M[q]
<1> DEFINE h == k.head[q]
           t == k.tail[q]
           nx2 == [[k.next EXCEPT ![t] = h] EXCEPT ![h] = NULL]
           h2 == k.next[h]
<1>1. /\ k \in KernType /\ M \in [Queues -> SUBSET Pids]
      /\ h \in Pointers /\ t \in Pointers /\ k.next \in [Pids -> Pointers]
  BY KernParts DEF Queued
<1>2. Lists(h, t, k.next, M[q]) /\ h # NULL
  BY DEF Queued
<1>3. /\ h \in M[q] /\ t \in M[q] /\ h \in Pids /\ t \in Pids
      /\ k.next[h] = NULL => h = t
  BY <1>1, <1>2, ListEnds
<1>4. CASE h = t
  <2>1. Rotate(k, q) = k
    BY <1>4 DEF Rotate
  <2> QED
    BY <1>3, <1>4, <2>1 DEF After, SameTails
<1>5. CASE h # t
  <2>1. Rotate(k, q) = [k EXCEPT !.head[q] = [k.next EXCEPT ![t] = h][h], !.tail[q] = h, !.next = nx2]
    BY <1>5, Zenon DEF Rotate
  <2>2. [k.next EXCEPT ![t] = h][h] = h2
    BY <1>1, <1>3, <1>5
  <2>3. Rotate(k, q) = Relinked(k, q, h2, h, nx2)
    <3> HIDE DEF nx2, h2
    <3> QED
      BY <1>1, <2>1, <2>2 DEF Relinked, KernType
  <2>4. /\ nx2 \in [Pids -> Pointers] /\ nx2[t] = h /\ nx2[h] = NULL
        /\ \A x \in Pids \ {h, t} : nx2[x] = k.next[x]
        /\ h2 \in Pointers /\ h2 # NULL
    BY <1>1, <1>3, <1>5 DEF Pointers
  <2>5. Lists(h2, t, k.next, M[q] \ {h})
    BY <1>2, TakeHead
  <2> HIDE DEF nx2, h2
  <2>6. Lists(h2, h, nx2, (M[q] \ {h}) \cup {h})
    <3>1. \A x \in (M[q] \ {h}) \ {t} : nx2[x] = k.next[x]
      BY <1>1, <2>4
    <3>2. h \notin M[q] \ {h}
      OBVIOUS
    <3> QED
      BY <1>3, <2>4, <2>5, <3>1, <3>2, PutBehind
  <2>7. Lists(h2, h, nx2, M[q])
    <3>1. (M[q] \ {h}) \cup {h} = M[q]
      BY <1>3
    <3> QED
      BY <2>6, <3>1
  <2>8. \A r \in Queues \ {q} : M[r] \cap M[q] = {} /\ M[r] \in SUBSET Pids
    BY <1>1 DEF Queued
  <2>9. \A r \in Queues \ {q} : \A x \in M[r] : nx2[x] = k.next[x]
    BY <1>3, <2>4, <2>8
  <2>10. \A x \in Pids : x \notin M[q] /\ (\A r \in Queues \ {q} : x \notin M[r]) => nx2[x] = NULL
    <3>1. \A x \in Pids : x \notin M[q] /\ (\A r \in Queues \ {q} : x \notin M[r]) => k.next[x] = NULL
      BY DEF Queued
    <3> QED
      BY <1>3, <2>4, <3>1
  <2>11. M[q] \in SUBSET Pids /\ [M EXCEPT ![q] = M[q]] = M
    BY <1>1
  <2>12. Queued(Relinked(k, q, h2, h, nx2), [M EXCEPT ![q] = M[q]])
    BY <1>1, <2>4, <2>7, <2>8, <2>9, <2>10, <2>11, RelinkedQueued
  <2>13. OnlyQueue(k, Relinked(k, q, h2, h, nx2), q) /\ Relinked(k, q, h2, h, nx2).tail[q] = h
    BY SMTT(20), <1>1, <2>4, RelinkedIs
  <2> QED
    BY <1>3, <2>3, <2>11, <2>12, <2>13 DEF After, SameTails, OnlyQueue
<1> QED
  BY <1>4, <1>5

(* Wherever the scheduler stands in its list, both the high and the medium *)
(* queue come up in the next 18 entries: if one of them has work, an entry *)
(* with work is found, and it is theirs.                                   *)
LEMMA SlotFound ==
    ASSUME NEW k, NEW lp \in 0..17, k.head["low"] = NULL, ~NothingReady(k)
    PROVE  LET n == SkippedSlots(k, lp)
               q == SlotQueue(lp, n)
           IN  /\ n \in 0..17 /\ q \in {"high", "med"} /\ k.head[q] # NULL
               /\ NextPosition(lp, n) \in 0..17
<1> DEFINE Works(n) == k.head[SlotQueue(lp, n)] # NULL
           S == {n \in 0..17 : Works(n)}
<1>1. PICK r \in {"high", "med"} : k.head[r] # NULL
  BY DEF NothingReady, ReadyQueues
<1>2. \E n \in 0..17 : SlotQueue(lp, n) = r
  <2>1. \A i \in 0..17 : \E n \in 0..17 : (lp + n) % 18 = i
    <3> SUFFICES ASSUME NEW i \in 0..17 PROVE \E n \in 0..17 : (lp + n) % 18 = i
      OBVIOUS
    <3>1. CASE lp <= i
      <4>1. i - lp \in 0..17 /\ (lp + (i - lp)) % 18 = i
        BY <3>1
      <4> QED
        BY <4>1
    <3>2. CASE ~(lp <= i)
      <4>1. 18 + i - lp \in 0..17 /\ (lp + (18 + i - lp)) % 18 = i
        BY <3>2
      <4> QED
        BY <4>1
    <3> QED
      BY <3>1, <3>2
  <2>2. schedulerList[1] = -1 /\ schedulerList[2] = 0
    BY DEF schedulerList
  <2>3. PICK n \in 0..17 : (lp + n) % 18 = IF r = "high" THEN 0 ELSE 1
    BY <2>1
  <2>4. SlotQueue(lp, n) = r
    BY <1>1, <2>2, <2>3 DEF SlotQueue, ReadyQueue
  <2> QED
    BY <2>4
<1>3. S \in SUBSET Nat /\ S # {}
  BY <1>1, <1>2
<1>4. PICK n \in S : \A m \in S : n <= m
  BY <1>3, LeastElement
<1>5. n \in 0..17 /\ Works(n) /\ \A m \in 0..n - 1 : ~Works(m)
  <2>1. \A m \in 0..n - 1 : m \in 0..17 /\ ~(n <= m)
    BY <1>4
  <2> QED
    BY <1>4, <2>1
<1> DEFINE c == SkippedSlots(k, lp)
<1>6. c \in 0..17 /\ k.head[SlotQueue(lp, c)] # NULL
  BY <1>5 DEF SkippedSlots
<1> HIDE DEF c
<1>7. SlotQueue(lp, c) \in {"high", "med"}
  BY <1>6 DEF SlotQueue, ReadyQueue
<1>8. NextPosition(lp, c) \in 0..17
  BY <1>6 DEF NextPosition
<1> QED
  BY <1>6, <1>7, <1>8 DEF c

(* The scheduler gives the thread to a process of the high or the medium   *)
(* queue, which becomes its tail, or to none.                              *)
LEMMA DispatchCall ==
    ASSUME NEW k, NEW M, Queued(k, M), M["low"] = {}, listPointer \in 0..17,
           \A p \in M["high"] \cup M["med"] : k.pcb[p].status = "RUNNING",
           Dispatch(k)
    PROVE  /\ Queued(kern', M) /\ kern'.pcb = k.pcb /\ listPointer' \in 0..17
           /\ \/ /\ activeContext' \in {Idle, Halted} /\ activeProcess' = activeProcess
                 /\ M["high"] = {} /\ M["med"] = {}
              \/ \E q \in {"high", "med"} :
                    /\ activeContext' \in M[q] /\ activeProcess' = activeContext'
                    /\ kern'.tail[q] = activeContext'
<1>1. /\ k \in KernType /\ k.fault = "none" /\ ~Faulty(k) /\ k.pcb \in [Pids -> PcbType]
      /\ M \in [Queues -> SUBSET Pids]
  BY KernParts DEF Queued, Faulty
<1>2. CASE NothingReady(k)
  <2>1. /\ kern' = k /\ activeContext' \in {Idle, Halted} /\ activeProcess' = activeProcess
        /\ listPointer' = listPointer
    BY <1>1, <1>2 DEF Dispatch
  <2>2. M["high"] = {} /\ M["med"] = {}
    <3>1. /\ Lists(k.head["high"], k.tail["high"], k.next, M["high"])
          /\ Lists(k.head["med"], k.tail["med"], k.next, M["med"])
      BY DEF Queued, Queues
    <3>2. k.head["high"] = NULL /\ k.head["med"] = NULL
      BY <1>2 DEF NothingReady, ReadyQueues
    <3> QED
      BY <3>1, <3>2, ListEnds
  <2> QED
    BY <2>1, <2>2
<1>3. CASE ~NothingReady(k)
  <2> DEFINE n == SkippedSlots(k, listPointer)
             q == SlotQueue(listPointer, n)
             p == k.head[q]
             k1 == [k EXCEPT !.pcb[p].status = "RUNNING"]
  <2>1. /\ kern' = Rotate(k1, q) /\ activeProcess' = p /\ activeContext' = p
        /\ listPointer' = NextPosition(listPointer, n)
    BY <1>1, <1>3 DEF Dispatch
  <2>2. k.head["low"] = NULL
    <3>1. Lists(k.head["low"], k.tail["low"], k.next, M["low"])
      BY DEF Queued, Queues
    <3> QED
      BY <3>1, ListEnds
  <2>3. n \in 0..17 /\ q \in {"high", "med"} /\ p # NULL /\ NextPosition(listPointer, n) \in 0..17
    BY <1>3, <2>2, SlotFound
  <2> HIDE DEF n, q
  <2>4. q \in Queues
    BY <2>3 DEF Queues
  <2>5. p \in M[q] /\ p \in Pids
    <3>1. Lists(k.head[q], k.tail[q], k.next, M[q])
      BY <2>4 DEF Queued
    <3> QED
      BY <1>1, <2>3, <2>4, <3>1, ListEnds
  <2>6. k.pcb[p].status = "RUNNING" /\ k.pcb[p] \in PcbType
    <3>1. M[q] \in {M["high"], M["med"]}
      BY <2>3
    <3> QED
      BY <1>1, <2>5, <3>1
  <2>7. k1 = k
    <3>1. [k.pcb[p] EXCEPT !.status = "RUNNING"] = k.pcb[p]
      BY <2>6 DEF PcbType
    <3>2. [k.pcb EXCEPT ![p] = [k.pcb[p] EXCEPT !.status = "RUNNING"]] = k.pcb
      BY <1>1, <2>5, <3>1
    <3>3. k1 = [k EXCEPT !.pcb = [k.pcb EXCEPT ![p] = [k.pcb[p] EXCEPT !.status = "RUNNING"]]]
      OBVIOUS
    <3>4. [k EXCEPT !.pcb = k.pcb] = k
      BY <1>1 DEF KernType
    <3> QED
      BY <3>2, <3>3, <3>4
  <2> HIDE DEF k1
  <2>8. /\ After(k, Rotate(k, q), M, k.pcb, q) /\ Rotate(k, q).tail[q] = p
    BY <2>3, <2>4, RotateIs
  <2>9. kern' = Rotate(k, q)
    BY <2>1, <2>7
  <2> QED
    BY <2>1, <2>3, <2>5, <2>8, <2>9 DEF After
<1> QED
  BY <1>2, <1>3

(* A process without children has nobody to terminate.                     *)
LEMMA NoChildren ==
    ASSUME NEW k, NEW p, k.pcb[p].childPids = <<>>
    PROVE  SignalChildren(k, p) = k
<1> DEFINE g == [s \in SUBSET (DOMAIN <<>>) |-> k]
<1>1. DOMAIN <<>> = {} /\ SUBSET (DOMAIN <<>>) = {{}}
  OBVIOUS
<1> QED
  BY <1>1 DEF SignalChildren, FoldLeft, MapThenFoldSet

(* A program that has the thread and is running, the last of the medium    *)
(* queue, with the shell as its parent.                                    *)
Leaf(k, M, p) ==
    /\ p \in M["med"] /\ p = k.tail["med"] /\ p # Shell
    /\ k.pcb[p].status = "RUNNING" /\ k.pcb[p].priority = 0
    /\ k.pcb[p].ppid = Shell /\ k.pcb[p].childPids = <<>>
    /\ k.pcb[Shell].priority = -1

(* Its end: in the background it becomes a zombie; in the foreground it    *)
(* wakes the shell if that is blocked in a wait for it.                    *)
LEMMA CleanupCall ==
    ASSUME NEW k, NEW M, Queued(k, M), NEW p, Leaf(k, M, p)
    PROVE  LET k2 == k_process_cleanup(k, p)
               M1 == Leaves(M, "med", p)
               waits == Shell \in M["blocked"] /\ k.pcb[Shell].waitChild = p
           IN  /\ k.pcb[p].bgFlag =>
                    /\ Queued(k2, Joins(M1, "zombie", p)) /\ k2.pcb = Over(k.pcb, p)
               /\ ~k.pcb[p].bgFlag /\ waits =>
                    /\ Queued(k2, Joins(Leaves(M1, "blocked", Shell), "high", Shell))
                    /\ k2.pcb = Running(Over(k.pcb, p), Shell)
               /\ ~k.pcb[p].bgFlag /\ ~waits =>
                    /\ Queued(k2, M1) /\ k2.pcb = Over(k.pcb, p)
<1> DEFINE ended == [k EXCEPT !.pcb[p].status = "TERMINATED", !.pcb[p].changedStatus = TRUE]
           k1 == dequeue(ended, p)
           k2 == k_process_cleanup(k, p)
           b == Over(k.pcb, p)
           M1 == Leaves(M, "med", p)
           waits == Shell \in M["blocked"] /\ k.pcb[Shell].waitChild = p
<1>1. /\ k \in KernType /\ k.fault = "none" /\ k.pcb \in [Pids -> PcbType]
      /\ M \in [Queues -> SUBSET Pids] /\ "med" \in Queues /\ "blocked" \in Queues
      /\ Shell \in Pids
  BY KernParts, PidsAssumption DEF Queued, Queues, Shell, Pids
<1>2. p \in M["med"] /\ p \in Pids /\ p # Shell
  BY <1>1 DEF Leaf
<1>3. ended = Recorded(k, b)
  BY <1>1 DEF KernType, Recorded, Over
<1>4. b \in [Pids -> PcbType]
  BY <1>1, <1>2, BlockTypes
<1>5. Queued(ended, M) /\ ended.pcb = b /\ ended.tail = k.tail
  <2>1. LET k3 == Recorded(k, b) IN Queued(k3, M) /\ k3.pcb = b /\ k3.tail = k.tail
    BY <1>4, RecordedIs
  <2> QED
    BY <1>3, <2>1
<1>6. /\ b[p].priority = 0 /\ b[p].childPids = <<>> /\ b[p].changedStatus
      /\ b[p].ppid = Shell /\ b[p].bgFlag = k.pcb[p].bgFlag
      /\ b[Shell] = k.pcb[Shell]
  <2>1. k.pcb[p] \in PcbType
    BY <1>1, <1>2
  <2> QED
    BY <1>1, <1>2, <2>1 DEF Leaf, Over, PcbType
<1> HIDE DEF ended, b
<1>7. After(ended, k1, M1, b, "med")
  <2>1. ReadyQueue(ended.pcb[p].priority) = "med" /\ p = ended.tail["med"]
    BY <1>5, <1>6 DEF ReadyQueue, Leaf
  <2> QED
    BY <1>2, <1>5, <2>1, DequeueCall
<1>8. Apart(M1, p) /\ M1["blocked"] = M["blocked"] /\ M1 \in [Queues -> SUBSET Pids]
  <2>1. Apart(M1, p) /\ M1 \in [Queues -> SUBSET Pids]
    BY <1>1, <1>2, LeavesIs
  <2> QED
    BY <1>1, <2>1 DEF Leaves
<1> HIDE DEF M1, k1
<1>9. Queued(k1, M1) /\ k1.pcb = b /\ k1.fault = "none" /\ ~Faulty(k1)
  BY <1>7 DEF After, Queued, Faulty
<1>10. Members(k1, "blocked") = M["blocked"] /\ ~Cyclic(k1, "blocked")
  BY <1>1, <1>8, <1>9, QueueWalk
<1>11. WaitsFor(k1, Shell, p) <=> waits
  BY <1>6, <1>9, <1>10 DEF WaitsFor
<1> HIDE DEF waits
<1>12. k2 = IF k.pcb[p].bgFlag THEN enqueueZombie(k1, p)
            ELSE SignalChildren(IF waits THEN Wake(k1, Shell) ELSE k1, p)
  <2>1. k.pcb[p].status = "RUNNING" /\ k.pcb[p].ppid = Shell
    BY DEF Leaf
  <2> QED
    BY <1>9, <1>10, <1>11, <2>1 DEF k_process_cleanup, k1, ended
<1> HIDE DEF k2
<1>13. ASSUME k.pcb[p].bgFlag
       PROVE  Queued(k2, Joins(M1, "zombie", p)) /\ k2.pcb = b
  <2>1. /\ Queued(enqueueZombie(k1, p), Joins(M1, "zombie", p))
        /\ enqueueZombie(k1, p).pcb = Changed(b, p)
    BY <1>2, <1>8, <1>9, EnqueueZombieCall DEF After
  <2>2. Changed(b, p) = b
    <3>1. b[p] \in PcbType
      BY <1>2, <1>4
    <3>2. [b[p] EXCEPT !.changedStatus = TRUE] = b[p]
      BY <1>6, <3>1 DEF PcbType
    <3> QED
      BY <1>4, <3>2 DEF Changed
  <2> QED
    BY <1>12, <1>13, <2>1, <2>2
<1>14. ASSUME ~k.pcb[p].bgFlag, waits
       PROVE  /\ Queued(k2, Joins(Leaves(M1, "blocked", Shell), "high", Shell))
              /\ k2.pcb = Running(b, Shell)
  <2> DEFINE k3 == Wake(k1, Shell)
  <2>1. Shell \in M1["blocked"] /\ ReadyQueue(k1.pcb[Shell].priority) = "high"
    BY <1>6, <1>8, <1>9, <1>14 DEF waits, Leaf, ReadyQueue
  <2>2. /\ Queued(k3, Joins(Leaves(M1, "blocked", Shell), "high", Shell))
        /\ k3.pcb = Running(b, Shell)
    BY <1>9, <2>1, WakeCall
  <2> HIDE DEF k3
  <2>3. k3.pcb[p].childPids = <<>>
    BY <1>2, <1>4, <1>6, <2>2 DEF Running
  <2>4. SignalChildren(k3, p) = k3
    BY <2>3, NoChildren
  <2>5. k2 = k3
    BY <1>12, <1>14, <2>4 DEF k3
  <2> QED
    BY <2>2, <2>5
<1>15. ASSUME ~k.pcb[p].bgFlag, ~waits
       PROVE  Queued(k2, M1) /\ k2.pcb = b
  <2>1. SignalChildren(k1, p) = k1
    BY <1>6, <1>9, NoChildren
  <2> QED
    BY <1>9, <1>12, <1>15, <2>1
<1> QED
  BY <1>13, <1>14, <1>15 DEF k2, b, M1, waits

(* The walk meets a process once.                                          *)
LEMMA WalkOnce ==
    ASSUME NEW k, NEW M, Queued(k, M), NEW q \in Queues
    PROVE  /\ \A i \in 1..MaxPid : Walk(k, q)[i] = NULL \/ Walk(k, q)[i] \in M[q]
           /\ \A p \in M[q] : \E i \in 1..MaxPid : Walk(k, q)[i] = p
           /\ \A i, j \in 1..MaxPid :
                 Walk(k, q)[i] = Walk(k, q)[j] /\ Walk(k, q)[i] # NULL => i = j
<1> DEFINE w == Walk(k, q)
<1>1. PICK n, s : IsList(k.head[q], k.tail[q], k.next, n, s)
  BY DEF Queued, Lists
<1>2. /\ n \in 0..MaxPid /\ w = Along(k.head[q], k.next)
      /\ \A i \in 1..MaxPid + 1 : Along(k.head[q], k.next)[i] = IF i <= n THEN s[i] ELSE NULL
  BY <1>1, WalkIsList, QueueWalk
<1>3. {w[i] : i \in 1..MaxPid} \ {NULL} = M[q]
  BY QueueWalk DEF Members
<1> HIDE DEF w
<1>4. \A i \in 1..MaxPid : w[i] # NULL => i \in 1..n /\ w[i] = s[i]
  BY <1>2, PidsAssumption
<1>5. \A i, j \in 1..MaxPid : w[i] = w[j] /\ w[i] # NULL => i = j
  BY <1>1, <1>4 DEF IsList
<1>6. M[q] \in SUBSET Pids /\ NULL \notin M[q]
  BY DEF Queued, Pids, NULL
<1> QED
  BY <1>3, <1>5, <1>6 DEF w

(* The sleepers that are due; the blocked queue without some of them; the  *)
(* control blocks after a tick, when these have been woken.                *)
DueSleepers(k, B) == {p \in B : Ticked(k, p) = 0}
WithoutSleepers(M, W) == [M EXCEPT !["blocked"] = M["blocked"] \ W, !["med"] = M["med"] \cup W]
Woken(k, B, W) ==
    [p \in Pids |->
        IF p \in W THEN [k.pcb[p] EXCEPT !.sleep = Ticked(k, p), !.status = "RUNNING"]
        ELSE IF p \in B THEN [k.pcb[p] EXCEPT !.sleep = Ticked(k, p)] ELSE k.pcb[p]]

(* One more woken.                                                         *)
LEMMA WakeOneMore ==
    ASSUME NEW k, k \in KernType, NEW M \in [Queues -> SUBSET Pids],
           NEW W \in SUBSET M["blocked"], NEW p \in M["blocked"], p \notin W,
           ReadyQueue(k.pcb[p].priority) = "med", p \in Pids,
           NEW k1, Queued(k1, WithoutSleepers(M, W)), k1.pcb = Woken(k, M["blocked"], W)
    PROVE  /\ Queued(Wake(k1, p), WithoutSleepers(M, W \cup {p}))
           /\ Wake(k1, p).pcb = Woken(k, M["blocked"], W \cup {p})
<1> DEFINE M1 == WithoutSleepers(M, W)
           b == Woken(k, M["blocked"], W)
<1>1. k.pcb[p] \in PcbType
  BY KernParts
<1>2. "blocked" \in Queues /\ "med" \in Queues
  BY DEF Queues
<1>3. M1["blocked"] = M["blocked"] \ W /\ M1["med"] = M["med"] \cup W
  BY <1>2 DEF WithoutSleepers
<1>4. b[p] = [k.pcb[p] EXCEPT !.sleep = Ticked(k, p)] /\ DOMAIN b = Pids
  BY DEF Woken
<1>5. b[p].priority = k.pcb[p].priority
  BY <1>1, <1>4 DEF PcbType
<1>6. p \in M1["blocked"] /\ ReadyQueue(k1.pcb[p].priority) = "med"
  BY <1>3, <1>5
<1>7. /\ Queued(Wake(k1, p), Joins(Leaves(M1, "blocked", p), "med", p))
      /\ Wake(k1, p).pcb = Running(b, p)
  BY <1>6, WakeCall
<1>8. Joins(Leaves(M1, "blocked", p), "med", p) = WithoutSleepers(M, W \cup {p})
  BY <1>2 DEF Joins, Leaves, WithoutSleepers
<1>9. Running(b, p) = Woken(k, M["blocked"], W \cup {p})
  <2>1. [b[p] EXCEPT !.status = "RUNNING"]
          = [k.pcb[p] EXCEPT !.sleep = Ticked(k, p), !.status = "RUNNING"]
    BY <1>4
  <2> DEFINE b2 == Woken(k, M["blocked"], W \cup {p})
  <2>2. b2[p] = [b[p] EXCEPT !.status = "RUNNING"] /\ \A x \in Pids \ {p} : b2[x] = b[x]
    BY <2>1 DEF Woken
  <2>3. DOMAIN b2 = Pids /\ b2 = [x \in Pids |-> b2[x]] /\ b = [x \in Pids |-> b[x]]
    BY DEF Woken
  <2> HIDE DEF b, b2
  <2>4. Running(b, p) = b2
    BY <2>2, <2>3 DEF Running
  <2> QED
    BY <2>4 DEF b, b2
<1> QED
  BY <1>7, <1>8, <1>9

(* The states of the handler's loop, one for each process it has passed.   *)
Stepwise(k, ticked, at) ==
    LET woken[i \in 0..MaxPid] ==
            IF i = 0 THEN ticked ELSE WakeIfDue(k, woken[i - 1], at[i])
    IN  woken

(* They are what their recursive definition says.                          *)
LEMMA StepwiseExists ==
    ASSUME NEW k, NEW ticked, NEW at
    PROVE  Stepwise(k, ticked, at) = [i \in 0..MaxPid |->
                IF i = 0 THEN ticked
                ELSE WakeIfDue(k, Stepwise(k, ticked, at)[i - 1], at[i])]
<1> DEFINE Recursive(g, n) == g = [i \in 0..n |-> IF i = 0 THEN ticked ELSE WakeIfDue(k, g[i - 1], at[i])]
           S == {n \in Nat : \E g : Recursive(g, n)}
<1>1. 0 \in S
  <2> DEFINE g == [i \in 0..0 |-> ticked]
  <2>1. Recursive(g, 0)
    OBVIOUS
  <2> HIDE DEF g, Recursive
  <2> QED
    BY <2>1
<1>2. ASSUME NEW n \in S PROVE n + 1 \in S
  <2>1. PICK g : Recursive(g, n)
    OBVIOUS
  <2> DEFINE last == WakeIfDue(k, g[n], at[n + 1])
             longer == [i \in 0..n + 1 |-> IF i = n + 1 THEN last ELSE g[i]]
  <2>2. n \in Nat /\ n + 1 \in Nat
    OBVIOUS
  <2>3. Recursive(longer, n + 1)
    <3>1. \A i \in 0..n : longer[i] = g[i] /\ g[i] = IF i = 0 THEN ticked ELSE WakeIfDue(k, g[i - 1], at[i])
      BY <2>1
    <3>2. \A i \in 0..n + 1 : longer[i] = IF i = 0 THEN ticked ELSE WakeIfDue(k, longer[i - 1], at[i])
      <4> TAKE i \in 0..n + 1
      <4>1. CASE i = n + 1
        BY <2>2, <3>1, <4>1
      <4>2. CASE i # n + 1
        <5>1. i \in 0..n /\ i \in 0..n + 1 /\ (i # 0 => i - 1 \in 0..n /\ i - 1 # n + 1)
          BY <2>2, <4>2
        <5>2. i # 0 => i - 1 \in 0..n + 1
          BY <2>2, <5>1
        <5> QED
          BY <2>2, <3>1, <5>1, <5>2
      <4> QED
        BY <4>1, <4>2
    <3> QED
      BY <3>2
  <2> HIDE DEF Recursive, longer
  <2> QED
    BY <2>2, <2>3
<1>3. \E g : Recursive(g, MaxPid)
  <2> HIDE DEF S
  <2>1. S \in SUBSET Nat
    BY DEF S
  <2>2. MaxPid \in S
    BY <1>1, <1>2, <2>1, SetInduction, PidsAssumption
  <2> HIDE DEF Recursive
  <2> QED
    BY <2>2 DEF S
<1> QED
  BY <1>3 DEF Stepwise

(* The alarm handler makes exactly the sleepers ready that are due.        *)
LEMMA WakeSleepersCall ==
    ASSUME NEW k, NEW M, Queued(k, M),
           \A p \in M["blocked"] : p # Shell => k.pcb[p].priority = 0,
           Shell \in M["blocked"] => k.pcb[Shell].sleep = -1
    PROVE  LET B == M["blocked"]
               W == DueSleepers(k, B)
           IN  /\ Queued(WakeSleepers(k), WithoutSleepers(M, W))
               /\ WakeSleepers(k).pcb = Woken(k, B, W)
<1> DEFINE B == M["blocked"]
           W == DueSleepers(k, B)
           at == Walk(k, "blocked")
           ticked == Recorded(k, Woken(k, B, {}))
           w == Stepwise(k, ticked, at)
           Met(i) == {p \in W : \E j \in 1..i : at[j] = p}
           S == {n \in Nat : n <= MaxPid => /\ Queued(w[n], WithoutSleepers(M, Met(n)))
                                          /\ w[n].pcb = Woken(k, B, Met(n))}
<1>1. /\ k \in KernType /\ M \in [Queues -> SUBSET Pids] /\ "blocked" \in Queues
      /\ "med" \in Queues /\ k.pcb \in [Pids -> PcbType] /\ B \in SUBSET Pids
      /\ Shell \in Pids
  BY KernParts, PidsAssumption DEF Queued, Queues, Shell, Pids
<1>2. /\ Members(k, "blocked") = B /\ ~Cyclic(k, "blocked")
      /\ \A i \in 1..MaxPid : at[i] = NULL \/ at[i] \in B
      /\ \A p \in B : \E i \in 1..MaxPid : at[i] = p
      /\ \A i, j \in 1..MaxPid : at[i] = at[j] /\ at[i] # NULL => i = j
  BY <1>1, QueueWalk, WalkOnce
<1>3. \A p \in Pids : Ticked(k, p) \in Int
  <2>1. \A p \in Pids : k.pcb[p].sleep \in Int
    BY <1>1 DEF PcbType
  <2> QED
    BY <2>1 DEF Ticked
<1>4. Woken(k, B, {}) \in [Pids -> PcbType]
  <2>1. ASSUME NEW p \in Pids PROVE [k.pcb[p] EXCEPT !.sleep = Ticked(k, p)] \in PcbType
    BY <1>1, <1>3 DEF PcbType
  <2> QED
    BY <1>1, <2>1 DEF Woken
<1>5. Queued(ticked, M) /\ ticked.pcb = Woken(k, B, {})
  BY <1>4, RecordedIs
<1>6. ASSUME NEW p \in W PROVE ReadyQueue(k.pcb[p].priority) = "med" /\ p \in B /\ p \in Pids
  <2>1. p \in B /\ Ticked(k, p) = 0
    BY DEF DueSleepers
  <2>2. p # Shell
    BY <2>1 DEF Ticked
  <2> QED
    BY <1>1, <2>1, <2>2 DEF ReadyQueue
<1> HIDE DEF at, W, ticked, B
<1>7. w = [i \in 0..MaxPid |-> IF i = 0 THEN ticked ELSE WakeIfDue(k, w[i - 1], at[i])]
  BY StepwiseExists
<1> HIDE DEF w
<1>8. 0 \in S
  <2>1. w[0] = ticked
    BY <1>7, PidsAssumption
  <2>2. Met(0) = {}
    OBVIOUS
  <2>3. WithoutSleepers(M, {}) = M
    BY <1>1 DEF WithoutSleepers
  <2> HIDE DEF Met
  <2> QED
    BY <1>5, <2>1, <2>2, <2>3
<1>9. ASSUME NEW n \in S PROVE n + 1 \in S
  <2> DEFINE p == at[n + 1]
             last == w[n + 1]
  <2> SUFFICES ASSUME n + 1 <= MaxPid
               PROVE  /\ Queued(last, WithoutSleepers(M, Met(n + 1)))
                      /\ last.pcb = Woken(k, B, Met(n + 1))
    OBVIOUS
  <2>1. /\ n \in Nat /\ n <= MaxPid /\ n + 1 \in 1..MaxPid /\ n + 1 # 0 /\ n + 1 \in 0..MaxPid
        /\ (n + 1) - 1 = n /\ 1..n + 1 = 1..n \cup {n + 1}
    BY PidsAssumption
  <2>2. Queued(w[n], WithoutSleepers(M, Met(n))) /\ w[n].pcb = Woken(k, B, Met(n))
    BY <2>1
  <2>3. last = WakeIfDue(k, w[n], p)
    BY <1>7, <2>1
  <2>4. CASE p # NULL /\ Ticked(k, p) = 0
    <3>1. p \in W
      BY <1>2, <2>1, <2>4 DEF W, DueSleepers
    <3>2. Met(n + 1) = Met(n) \cup {p} /\ Met(n) \in SUBSET B
      BY <1>6, <2>1, <3>1
    <3>3. p \notin Met(n)
      <4>1. \A j \in 1..n : j \in 1..MaxPid /\ j # n + 1
        BY <2>1, PidsAssumption
      <4> QED
        BY <1>2, <2>1, <2>4, <4>1
    <3>4. p \in B /\ p \in Pids /\ ReadyQueue(k.pcb[p].priority) = "med"
      BY <1>6, <3>1
    <3> HIDE DEF Met, p, last
    <3>5. Search(w[n], p) = w[n]
      BY <2>2, <3>4, SearchCall
    <3>6. last = Wake(w[n], p)
      BY <2>3, <2>4, <3>5 DEF WakeIfDue
    <3>7. /\ Queued(Wake(w[n], p), WithoutSleepers(M, Met(n) \cup {p}))
          /\ Wake(w[n], p).pcb = Woken(k, B, Met(n) \cup {p})
      BY SMTT(20), <1>1, <2>2, <3>2, <3>3, <3>4, WakeOneMore DEF B
    <3> QED
      BY <3>2, <3>6, <3>7
  <2>5. CASE ~(p # NULL /\ Ticked(k, p) = 0)
    <3>1. p \notin W
      BY <2>5, <1>1 DEF W, DueSleepers, B, Pids, NULL
    <3>2. Met(n + 1) = Met(n)
      BY <2>1, <3>1
    <3>3. last = w[n]
      BY <2>3, <2>5 DEF WakeIfDue
    <3> HIDE DEF Met, last
    <3> QED
      BY <2>2, <3>2, <3>3
  <2> QED
    BY <2>4, <2>5
<1>10. Queued(w[MaxPid], WithoutSleepers(M, W)) /\ w[MaxPid].pcb = Woken(k, B, W)
  <2>1. Met(MaxPid) = W
    BY <1>2, <1>6
  <2>2. MaxPid \in S
    <3> HIDE DEF S
    <3>1. S \in SUBSET Nat
      BY DEF S
    <3> QED
      BY <1>8, <1>9, <3>1, SetInduction, PidsAssumption
  <2> HIDE DEF Met
  <2> QED
    BY <2>1, <2>2, PidsAssumption
<1>11. WakeSleepers(k) = w[MaxPid]
  <2> DEFINE first == [k EXCEPT !.pcb = [p \in Pids |->
                          IF p \in Members(k, "blocked")
                          THEN [k.pcb[p] EXCEPT !.sleep = Ticked(k, p)] ELSE k.pcb[p]]]
  <2>1. first = ticked
    BY <1>2 DEF ticked, Recorded, Woken
  <2>2. WakeSleepers(k) = Stepwise(k, first, Walk(k, "blocked"))[MaxPid]
    BY <1>2 DEF WakeSleepers, Stepwise
  <2> QED
    BY <2>1, <2>2 DEF w, at
<1> QED
  BY <1>10, <1>11 DEF B, W

-----------------------------------------------------------------------------
(* A process that a step leaves alone; the pids in use; labels changed.    *)
Alone(k, M, at, k2, M2, at2, p) ==
    /\ k2.pcb[p] = k.pcb[p] /\ at2[p] = at[p]
    /\ \A q \in Queues : p \in M2[q] <=> p \in M[q]
Started(n) == 1..n - 1
OnlyIn(A, k, M, at, k2, M2, at2, n) ==
    A \subseteq Started(n) /\ \A p \in Pids \ A : Alone(k, M, at, k2, M2, at2, p)
Moved(at, p, l) == [at EXCEPT ![p] = l]
Prompt == {"read", "poll", "exec"}

(* What holds of the processes that a step leaves alone goes on to hold,   *)
(* so what remains are those in A, the shell and the jobs.                 *)
LEMMA SteadyStep ==
    ASSUME NEW k, NEW M, NEW at, NEW n, NEW c, NEW D, Steady(k, M, at, n, c, D),
           NEW k2, NEW M2, Queued(k2, M2), NEW at2 \in [Pids -> Labels], NEW D2,
           NEW A, OnlyIn(A, k, M, at, k2, M2, at2, n),
           \A p \in A : Placed(k2.pcb, M2, at2, n, p),
           \A p \in A \ {Shell} : ProgramFacts(k2.pcb, at2, p),
           ShellFacts(k2.pcb, at2, n, c), JobFacts(k2.pcb, M2, at2, n, c, D2)
    PROVE  Steady(k2, M2, at2, n, c, D2)
<1>1. n \in 2..MaxPid + 1 /\ c \in Pids \cup {NULL}
  BY DEF Steady
<1>2. 2..n - 1 \subseteq Pids /\ 1..n - 1 \subseteq Pids
  BY <1>1, PidsAssumption DEF Pids
<1>3. ASSUME NEW p \in Pids PROVE Placed(k2.pcb, M2, at2, n, p)
  <2>1. CASE p \in A
    BY <2>1
  <2>2. CASE p \notin A
    <3>1. Placed(k.pcb, M, at, n, p)
      BY DEF Steady
    <3>2. Alone(k, M, at, k2, M2, at2, p)
      BY <2>2 DEF OnlyIn
    <3> QED
      BY <3>1, <3>2 DEF Placed, Alone, IsReady, Queues
  <2> QED
    BY <2>1, <2>2
<1>4. ASSUME NEW p \in 2..n - 1 PROVE ProgramFacts(k2.pcb, at2, p)
  <2>1. p \in Pids /\ p # Shell
    BY <1>1, <1>2 DEF Shell
  <2>2. CASE p \in A
    BY <2>1, <2>2
  <2>3. CASE p \notin A
    <3>1. ProgramFacts(k.pcb, at, p)
      BY DEF Steady
    <3>2. Alone(k, M, at, k2, M2, at2, p)
      BY <2>1, <2>3 DEF OnlyIn
    <3> QED
      BY <3>1, <3>2 DEF ProgramFacts, Alone
  <2> QED
    BY <2>2, <2>3
<1>5. ASSUME NEW p \in Pids, p >= n PROVE at2[p] = "none"
  <2>1. p \notin A
    <3>1. p \notin Started(n)
      BY <1>1, <1>5 DEF Pids, Started, OnlyIn
    <3> QED
      BY <3>1 DEF OnlyIn
  <2>2. Alone(k, M, at, k2, M2, at2, p) /\ at[p] = "none"
    BY <1>5, <2>1 DEF Steady, OnlyIn
  <2> QED
    BY <2>2 DEF Alone
<1> QED
  BY <1>1, <1>3, <1>4, <1>5 DEF Steady

(* The processes of a steady session.                                      *)
LEMMA SteadyFacts ==
    ASSUME NEW k, NEW M, NEW at, NEW n, NEW c, NEW D, Steady(k, M, at, n, c, D)
    PROVE  /\ Queued(k, M) /\ k \in KernType /\ k.fault = "none" /\ k.pcb \in [Pids -> PcbType]
           /\ M \in [Queues -> SUBSET Pids] /\ at \in [Pids -> Labels]
           /\ n \in 2..MaxPid + 1 /\ c \in Pids \cup {NULL}
           /\ Shell \in Pids /\ Shell \in 1..n - 1 /\ 2..n - 1 \subseteq Pids
           /\ \A p \in Pids : Placed(k.pcb, M, at, n, p)
           /\ \A p \in Pids : p < n /\ p # Shell => p \in 2..n - 1
           /\ \A p \in 2..n - 1 : p # Shell /\ p < n /\ ProgramFacts(k.pcb, at, p)
           /\ M["low"] = {} /\ M["stopped"] = {}
           /\ ShellFacts(k.pcb, at, n, c) /\ JobFacts(k.pcb, M, at, n, c, D)
<1>1. /\ Queued(k, M) /\ n \in 2..MaxPid + 1 /\ at \in [Pids -> Labels] /\ c \in Pids \cup {NULL}
      /\ \A p \in Pids : Placed(k.pcb, M, at, n, p)
      /\ \A p \in 2..n - 1 : ProgramFacts(k.pcb, at, p)
      /\ ShellFacts(k.pcb, at, n, c) /\ JobFacts(k.pcb, M, at, n, c, D)
  BY DEF Steady
<1>2. k \in KernType /\ k.fault = "none" /\ k.pcb \in [Pids -> PcbType] /\ M \in [Queues -> SUBSET Pids]
  BY <1>1, KernParts DEF Queued
<1>3. /\ Shell \in Pids /\ Shell \in 1..n - 1 /\ 2..n - 1 \subseteq Pids
      /\ \A p \in Pids : p < n /\ p # Shell => p \in 2..n - 1
      /\ \A p \in 2..n - 1 : p # Shell /\ p < n
  BY <1>1, PidsAssumption DEF Pids, Shell
<1>4. M["low"] = {} /\ M["stopped"] = {}
  BY <1>1, <1>2 DEF Placed, Queues
<1> QED
  BY <1>1, <1>2, <1>3, <1>4

(* The scheduler gives the thread to one whose turn it is then.            *)
LEMMA SteadyDispatch ==
    ASSUME NEW k, NEW M, NEW at, NEW n, NEW c, NEW D, Steady(k, M, at, n, c, D),
           \A p \in Pids : at[p] \notin Critical,
           listPointer \in 0..17, activeProcess \in Pids, Dispatch(k)
    PROVE  /\ Steady(kern', M, at, n, c, D) /\ kern'.pcb = k.pcb
           /\ Turn(kern', at, n, activeContext', activeProcess')
           /\ activeContext' \in Pids => kern'.pcb[activeContext'].status = "RUNNING"
           /\ activeContext' \in Contexts /\ activeProcess' \in Pids /\ listPointer' \in 0..17
<1>1. /\ Queued(k, M) /\ M["low"] = {} /\ M \in [Queues -> SUBSET Pids]
      /\ \A p \in Pids : Placed(k.pcb, M, at, n, p)
  BY SteadyFacts
<1>2. \A p \in M["high"] \cup M["med"] :
         /\ p \in Pids /\ k.pcb[p].status = "RUNNING" /\ p < n
  BY <1>1 DEF Placed, IsReady, Queues
<1>3. /\ Queued(kern', M) /\ kern'.pcb = k.pcb /\ listPointer' \in 0..17
      /\ \/ /\ activeContext' \in {Idle, Halted} /\ activeProcess' = activeProcess
            /\ M["high"] = {} /\ M["med"] = {}
         \/ \E q \in {"high", "med"} :
               /\ activeContext' \in M[q] /\ activeProcess' = activeContext'
               /\ kern'.tail[q] = activeContext'
  BY <1>1, <1>2, DispatchCall
<1>4. Steady(kern', M, at, n, c, D)
  BY <1>3 DEF Steady
<1>5. CASE /\ activeContext' \in {Idle, Halted} /\ activeProcess' = activeProcess
           /\ M["high"] = {} /\ M["med"] = {}
  <2>1. activeContext' \notin Pids /\ activeContext' \in Contexts
    BY <1>5 DEF Idle, Halted, Pids, Contexts
  <2>2. \A p \in Pids : ~IsReady(k.pcb, at, n, p)
    BY <1>1, <1>5 DEF Placed
  <2> QED
    BY <1>3, <1>4, <1>5, <2>1, <2>2 DEF Turn
<1>6. ASSUME NEW q \in {"high", "med"}, activeContext' \in M[q],
             activeProcess' = activeContext', kern'.tail[q] = activeContext'
      PROVE  /\ Turn(kern', at, n, activeContext', activeProcess')
             /\ kern'.pcb[activeContext'].status = "RUNNING"
             /\ activeContext' \in Contexts /\ activeProcess' \in Pids
  <2>1. /\ activeContext' \in Pids /\ k.pcb[activeContext'].status = "RUNNING"
        /\ activeContext' < n
    BY <1>2, <1>6
  <2>2. q = OwnQueue(activeContext')
    BY <1>1, <1>6, <2>1 DEF Placed, OwnQueue
  <2> QED
    BY <1>3, <1>6, <2>1, <2>2 DEF Turn, Contexts
<1> QED
  BY <1>3, <1>4, <1>5, <1>6

(* The contents of the queues are what they hold, so any M will do.        *)
LEMMA ContentsIs == ASSUME NEW k, NEW M, Queued(k, M) PROVE Contents(k) = M
<1>1. M \in [Queues -> SUBSET Pids]
  BY DEF Queued
<1>2. \A q \in Queues : Members(k, q) = M[q]
  BY QueueWalk
<1> QED
  BY <1>1, <1>2 DEF Contents

(* What is to be shown of a step.                                          *)
LEMMA InvNext ==
    ASSUME NEW M, Steady(kern', M, pc', pidCounter', curr_pid', DOMAIN jobs'),
           Turn(kern', pc', pidCounter', activeContext', activeProcess'), Globals'
    PROVE  KernelInv'
<1>1. Contents(kern') = M
  BY ContentsIs DEF Steady
<1> QED
  BY <1>1 DEF KernelInv

(* The process that has the thread, unless it is about to give it up, is   *)
(* running: the last of its queue, or in none on its way to blocking.      *)
LEMMA HasThread ==
    ASSUME NEW k, NEW M, NEW at, NEW n, NEW c, NEW D, Steady(k, M, at, n, c, D),
           NEW p \in Pids, NEW ap, Turn(k, at, n, p, ap),
           at[p] \notin {"waitYield", "sleepYield"}
    PROVE  /\ k.pcb[p].status = "RUNNING" /\ p < n /\ ap = p
           /\ at[p] \notin Blocking => p \in M[OwnQueue(p)] /\ k.tail[OwnQueue(p)] = p
           /\ at[p] \in Blocking => Apart(M, p)
<1>1. k.pcb[p].status = "RUNNING" /\ p < n /\ ap = p
  BY DEF Turn
<1>2. Placed(k.pcb, M, at, n, p)
  BY SteadyFacts
<1>3. ASSUME at[p] \notin Blocking PROVE p \in M[OwnQueue(p)] /\ k.tail[OwnQueue(p)] = p
  BY <1>1, <1>2, <1>3 DEF Turn, Placed, OwnQueue, IsReady
<1>4. ASSUME at[p] \in Blocking PROVE Apart(M, p)
  BY <1>1, <1>2, <1>4 DEF Placed, IsReady, Apart, Queues
<1> QED
  BY <1>1, <1>3, <1>4

(* A step that makes no process a job, or ceases to.                       *)
LEMMA JobsKeep ==
    ASSUME NEW b, NEW M, NEW at, NEW n, NEW c, NEW D, JobFacts(b, M, at, n, c, D),
           at[Shell] # "nice", NEW b2, NEW M2, NEW at2,
           \A p \in 2..n - 1 : IsJob(b2, M2, p) <=> IsJob(b, M, p)
    PROVE  JobFacts(b2, M2, at2, n, c, D)
BY DEF JobFacts

(* The jobs D2 of the shell are D and the process it is about to enter.    *)
JobsStay(k, at, c, D, D2) ==
    D2 = IF at[Shell] = "nice" /\ k.pcb[c].bgFlag THEN D \cup {c} ELSE D

(* The shell at a label where nothing is expected of its last child.       *)
LEMMA ShellMoves ==
    ASSUME NEW k, NEW M, NEW at, NEW n, NEW c, NEW D, Steady(k, M, at, n, c, D),
           k.pcb[Shell].status = "RUNNING", at[Shell] \notin Blocking,
           NEW l, l \in Prompt, NEW D2, JobsStay(k, at, c, D, D2)
    PROVE  Steady(k, M, Moved(at, Shell, l), n, c, D2)
<1> DEFINE at2 == Moved(at, Shell, l)
<1>1. /\ Queued(k, M) /\ at \in [Pids -> Labels] /\ n \in 2..MaxPid + 1
      /\ Shell \in Pids /\ Shell \in 1..n - 1 /\ 2..n - 1 \subseteq Pids
      /\ Placed(k.pcb, M, at, n, Shell)
      /\ \A p \in 2..n - 1 : p # Shell
      /\ ShellFacts(k.pcb, at, n, c) /\ JobFacts(k.pcb, M, at, n, c, D)
  BY SteadyFacts
<1>2. /\ at2 \in [Pids -> Labels] /\ at2[Shell] = l
      /\ \A p \in Pids \ {Shell} : at2[p] = at[p]
  BY <1>1 DEF Labels, ShellLabels, Moved, Prompt
<1> HIDE DEF at2
<1>3. Placed(k.pcb, M, at2, n, Shell)
  BY <1>1, <1>2 DEF Placed, IsReady, Blocking, Prompt
<1>4. ShellFacts(k.pcb, at2, n, c)
  BY <1>1, <1>2 DEF ShellFacts, ShellLabels, Prompt
<1>5. JobFacts(k.pcb, M, at2, n, c, D2)
  <2>1. at2[Shell] # "nice"
    BY <1>2 DEF Prompt
  <2>2. CASE at[Shell] = "nice" /\ k.pcb[c].bgFlag
    <3>1. c \in 2..n - 1 /\ IsJob(k.pcb, M, c)
      BY <1>1, <2>2 DEF ShellFacts, IsJob
    <3> QED
      BY <1>1, <2>1, <2>2, <3>1 DEF JobFacts, JobsStay
  <2>3. CASE ~(at[Shell] = "nice" /\ k.pcb[c].bgFlag)
    BY <1>1, <2>1, <2>3 DEF JobFacts, JobsStay, IsJob
  <2> QED
    BY <2>2, <2>3
<1>6. OnlyIn({Shell}, k, M, at, k, M, at2, n)
  BY <1>1, <1>2 DEF OnlyIn, Alone, Started
<1>7. Steady(k, M, at2, n, c, D2)
  BY <1>1, <1>2, <1>3, <1>4, <1>5, <1>6, SteadyStep
<1> QED
  BY <1>7 DEF at2

(* The shell keeps its turn when it moves on from a label that is none of  *)
(* the critical ones.                                                      *)
LEMMA ShellKeepsTurn ==
    ASSUME NEW k, NEW at, NEW n, NEW ap, Turn(k, at, n, Shell, ap), Shell \in Pids,
           at \in [Pids -> Labels], NEW l \in Prompt \cup {"nice", "wait"},
           NEW k2, k2.pcb[Shell].status = "RUNNING", k2.tail["high"] = Shell,
           NEW n2, n <= n2, n \in Int, n2 \in Int
    PROVE  Turn(k2, Moved(at, Shell, l), n2, Shell, ap)
<1>1. \A p \in Pids \ {Shell} : at[p] \notin Critical
  BY DEF Turn
<1>2. Shell < n2 /\ ap = Shell
  BY DEF Turn, Shell
<1> QED
  BY <1>1, <1>2 DEF Turn, OwnQueue, Moved, Prompt

(* What a step of the shell finds.                                         *)
LEMMA ShellActs ==
    ASSUME KernelInv, NEW l, At(Shell, l), l # "waitYield", l \in ShellLabels
    PROVE  LET M == Contents(kern) IN
           /\ Steady(kern, M, pc, pidCounter, curr_pid, DOMAIN jobs)
           /\ Turn(kern, pc, pidCounter, Shell, Shell) /\ Globals
           /\ pc[Shell] = l /\ activeContext = Shell /\ activeProcess = Shell
           /\ kern.pcb[Shell].status = "RUNNING"
           /\ l # "waitBlock" => Shell \in M["high"] /\ kern.tail["high"] = Shell
                                /\ pc[Shell] \notin Blocking
           /\ l = "waitBlock" => Apart(M, Shell)
<1> DEFINE M == Contents(kern)
<1>1. /\ Steady(kern, M, pc, pidCounter, curr_pid, DOMAIN jobs)
      /\ Turn(kern, pc, pidCounter, Shell, activeProcess) /\ Globals
      /\ activeContext = Shell /\ pc[Shell] = l
  BY DEF KernelInv, At
<1>2. Shell \in Pids
  BY <1>1, SteadyFacts
<1>3. l \notin {"waitYield", "sleepYield"} /\ (l \in Blocking <=> l = "waitBlock")
  BY DEF ShellLabels, Blocking
<1>4. OwnQueue(Shell) = "high"
  BY DEF OwnQueue
<1> HIDE DEF M
<1>5. /\ kern.pcb[Shell].status = "RUNNING" /\ activeProcess = Shell
      /\ pc[Shell] \notin Blocking => Shell \in M[OwnQueue(Shell)] /\ kern.tail[OwnQueue(Shell)] = Shell
      /\ pc[Shell] \in Blocking => Apart(M, Shell)
  BY <1>1, <1>2, <1>3, HasThread
<1> QED
  BY <1>1, <1>3, <1>4, <1>5 DEF M

-----------------------------------------------------------------------------
(* Where a process is in its life, as its control block and label tell.    *)
Stage(p) == IF p >= pidCounter THEN "unborn"
            ELSE IF kern.pcb[p].status = "TERMINATED" THEN "ended"
            ELSE IF IsReady(kern.pcb, pc, pidCounter, p) THEN "ready" ELSE "blocked"

(* What a step may do to the lives of the processes: nothing ...           *)
KeepsLives == activeContext' = activeContext /\ \A p \in Pids : Stage(p)' = Stage(p)

(* ... block the process that has the thread ...                           *)
BlocksLife ==
    \E p \in Pids :
        /\ activeContext = p /\ activeContext' = p
        /\ Stage(p) = "ready" /\ Stage(p)' = "blocked"
        /\ \A r \in Pids \ {p} : Stage(r)' = Stage(r)

(* ... start one ...                                                       *)
StartsLife ==
    \E p \in Pids :
        /\ activeContext \in Pids /\ activeContext' = activeContext
        /\ Stage(activeContext) # "ended"
        /\ Stage(p) = "unborn" /\ Stage(p)' = "ready"
        /\ \A r \in Pids \ {p} : Stage(r)' = Stage(r)

(* ... or wake and end some and give the thread to a ready one.            *)
PassesThread ==
    /\ \A p \in Pids :
          \/ Stage(p)' = Stage(p)
          \/ Stage(p) = "blocked" /\ Stage(p)' = "ready"
          \/ Stage(p) = "ready" /\ Stage(p)' = "ended"
    /\ \A p \in Pids : activeContext' = p => Stage(p)' = "ready"
    /\ activeContext' \notin Pids => \A p \in Pids : Stage(p)' # "ready"
Lives == KeepsLives \/ BlocksLife \/ StartsLife \/ PassesThread

(* Only p changes status or label, and it neither ends nor becomes, or     *)
(* ceases to be, ready.                                                    *)
LEMMA LivesStay ==
    ASSUME NEW p \in Pids, pidCounter' = pidCounter, KeepsThread,
           \A x \in Pids \ {p} : kern'.pcb[x].status = kern.pcb[x].status /\ pc'[x] = pc[x],
           kern.pcb[p].status # "TERMINATED", kern'.pcb[p].status # "TERMINATED",
           IsReady(kern'.pcb, pc', pidCounter, p) <=> IsReady(kern.pcb, pc, pidCounter, p)
    PROVE  KeepsLives
<1>1. Stage(p)' = Stage(p)
  BY DEF Stage
<1>2. ASSUME NEW x \in Pids \ {p} PROVE Stage(x)' = Stage(x)
  BY <1>2 DEF Stage, IsReady
<1> QED
  BY <1>1, <1>2 DEF KeepsLives, KeepsThread

(* A running process goes to a label between two queues.                   *)
LEMMA LifeBlocks ==
    ASSUME NEW p \in Pids, activeContext = p, pidCounter' = pidCounter, KeepsThread,
           p < pidCounter, pidCounter \in Int,
           kern.pcb[p].status = "RUNNING", kern'.pcb[p].status = "RUNNING",
           pc[p] \notin Blocking, pc'[p] \in Blocking,
           \A x \in Pids \ {p} : kern'.pcb[x].status = kern.pcb[x].status /\ pc'[x] = pc[x]
    PROVE  BlocksLife
<1>1. ~(p >= pidCounter)
  BY DEF Pids
<1>2. Stage(p) = "ready" /\ Stage(p)' = "blocked"
  BY <1>1 DEF Stage, IsReady
<1>3. ASSUME NEW r \in Pids \ {p} PROVE Stage(r)' = Stage(r)
  BY <1>3 DEF Stage, IsReady
<1> QED
  BY <1>2, <1>3 DEF BlocksLife, KeepsThread

(* Control blocks before and after some have been woken or have ended.     *)
WakesOrEnds(b, b2) ==
    \A x \in Pids :
        \/ b2[x].status = b[x].status
        \/ b[x].status = "BLOCKED" /\ b2[x].status = "RUNNING"
        \/ b[x].status = "RUNNING" /\ b2[x].status = "TERMINATED"

(* A step that enters the scheduler.                                       *)
LEMMA ThreadPasses ==
    ASSUME pidCounter' = pidCounter, pidCounter \in Int,
           \A x \in Pids : pc[x] \notin Blocking /\ pc'[x] \notin Blocking,
           WakesOrEnds(kern.pcb, kern'.pcb),
           Turn(kern', pc', pidCounter', activeContext', activeProcess'),
           activeContext' \in Pids => kern'.pcb[activeContext'].status = "RUNNING"
    PROVE  PassesThread
<1>0. \A p \in Pids : p >= pidCounter <=> ~(p < pidCounter)
  BY DEF Pids
<1>1. ASSUME NEW p \in Pids
      PROVE  \/ Stage(p)' = Stage(p)
             \/ Stage(p) = "blocked" /\ Stage(p)' = "ready"
             \/ Stage(p) = "ready" /\ Stage(p)' = "ended"
  <2>1. CASE p >= pidCounter
    BY <2>1 DEF Stage
  <2>2. CASE ~(p >= pidCounter)
    <3>1. /\ p < pidCounter
          /\ IsReady(kern.pcb, pc, pidCounter, p) <=> kern.pcb[p].status = "RUNNING"
          /\ IsReady(kern'.pcb, pc', pidCounter', p) <=> kern'.pcb[p].status = "RUNNING"
      BY <1>0, <2>2 DEF IsReady
    <3>2. \/ kern'.pcb[p].status = kern.pcb[p].status
          \/ kern.pcb[p].status = "BLOCKED" /\ kern'.pcb[p].status = "RUNNING"
          \/ kern.pcb[p].status = "RUNNING" /\ kern'.pcb[p].status = "TERMINATED"
      BY DEF WakesOrEnds
    <3> QED
      BY <2>2, <3>1, <3>2 DEF Stage
  <2> QED
    BY <2>1, <2>2
<1>2. ASSUME NEW p \in Pids, activeContext' = p PROVE Stage(p)' = "ready"
  <2>1. p < pidCounter /\ kern'.pcb[p].status = "RUNNING"
    BY <1>2 DEF Turn
  <2> QED
    BY <1>0, <2>1 DEF Stage, IsReady
<1>3. ASSUME NEW p \in Pids, activeContext' \notin Pids PROVE Stage(p)' # "ready"
  BY <1>3 DEF Stage, Turn
<1> QED
  BY <1>1, <1>2, <1>3 DEF PassesThread
-----------------------------------------------------------------------------
(* A step that only takes the shell to another label of its prompt, and    *)
(* the job list along.                                                     *)
LEMMA PromptStep ==
    ASSUME KernelInv, NEW l, At(Shell, l), l \in ShellLabels \ {"waitYield", "waitBlock"},
           NEW l2, l2 \in Prompt, pc' = Moved(pc, Shell, l2), kern' = kern,
           KeepsThread, pidCounter' = pidCounter, curr_pid' = curr_pid,
           JobsStay(kern, pc, curr_pid, DOMAIN jobs, DOMAIN jobs'),
           Globals'
    PROVE  KernelInv' /\ KeepsLives
<1> DEFINE M == Contents(kern)
<1>1. /\ Steady(kern, M, pc, pidCounter, curr_pid, DOMAIN jobs)
      /\ Turn(kern, pc, pidCounter, Shell, Shell) /\ activeContext = Shell /\ activeProcess = Shell
      /\ kern.pcb[Shell].status = "RUNNING" /\ kern.tail["high"] = Shell /\ pc[Shell] \notin Blocking
  BY ShellActs
<1>2. Shell \in Pids /\ pc \in [Pids -> Labels] /\ pidCounter \in Int
  BY <1>1, SteadyFacts
<1>3. Steady(kern, M, Moved(pc, Shell, l2), pidCounter, curr_pid, DOMAIN jobs')
  BY <1>1, ShellMoves
<1>4. Turn(kern, Moved(pc, Shell, l2), pidCounter, Shell, Shell)
  BY <1>1, <1>2, ShellKeepsTurn
<1>5. activeContext' = Shell /\ activeProcess' = Shell
  BY <1>1 DEF KeepsThread
<1>6. KeepsLives
  <2>1. pc'[Shell] \notin Blocking /\ \A x \in Pids \ {Shell} : pc'[x] = pc[x]
    BY <1>2 DEF Moved, Prompt, Blocking
  <2>2. IsReady(kern'.pcb, pc', pidCounter, Shell) <=> IsReady(kern.pcb, pc, pidCounter, Shell)
    BY <1>1, <2>1 DEF IsReady
  <2> QED
    BY <1>1, <1>2, <2>1, <2>2, LivesStay
<1> QED
  BY <1>3, <1>4, <1>5, <1>6, InvNext

(* The user types a command.                                               *)
LEMMA TypeStep ==
    ASSUME KernelInv, NEW cc \in Menu, Type(cc)
    PROVE  KernelInv' /\ KeepsLives
<1>1. /\ Steady(kern, Contents(kern), pc, pidCounter, curr_pid, DOMAIN jobs)
      /\ At(Shell, "read") /\ pc[Shell] = "read" /\ Globals
      /\ "read" \in ShellLabels \ {"waitYield", "waitBlock"}
  BY DEF KernelInv, Type, At, ShellLabels
<1>2. /\ kern' = kern /\ pidCounter' = pidCounter /\ curr_pid' = curr_pid /\ jobs' = jobs
      /\ pc' = Moved(pc, Shell, "poll") /\ "poll" \in Prompt /\ KeepsThread
  BY DEF Type, Goto, Moved, Prompt
<1>3. Shell \in Pids /\ pc \in [Pids -> Labels]
  BY <1>1, SteadyFacts
<1>4. JobsStay(kern, pc, curr_pid, DOMAIN jobs, DOMAIN jobs')
  BY <1>1, <1>2 DEF JobsStay
<1>5. Globals'
  BY <1>1, <1>2, <1>3 DEF Globals, Type, KeepsThread, Moved
<1> QED
  BY <1>1, <1>2, <1>4, <1>5, PromptStep

(* A blank line, or one taken for it.                                      *)
LEMMA BlankLineStep ==
    ASSUME KernelInv, BlankLine
    PROVE  KernelInv' /\ KeepsLives
<1>1. /\ Steady(kern, Contents(kern), pc, pidCounter, curr_pid, DOMAIN jobs)
      /\ At(Shell, "exec") /\ pc[Shell] = "exec" /\ Globals
      /\ "exec" \in ShellLabels \ {"waitYield", "waitBlock"}
  BY DEF KernelInv, BlankLine, At, ShellLabels
<1>2. /\ kern' = kern /\ pidCounter' = pidCounter /\ curr_pid' = curr_pid /\ jobs' = jobs
      /\ pc' = Moved(pc, Shell, "read") /\ "read" \in Prompt /\ KeepsThread
  BY DEF BlankLine, Goto, Moved, Prompt
<1>3. Shell \in Pids /\ pc \in [Pids -> Labels]
  BY <1>1, SteadyFacts
<1>4. JobsStay(kern, pc, curr_pid, DOMAIN jobs, DOMAIN jobs')
  BY <1>1, <1>2 DEF JobsStay
<1>5. Globals'
  BY <1>1, <1>2, <1>3 DEF Globals, BlankLine, KeepsThread, Moved
<1> QED
  BY <1>1, <1>2, <1>4, <1>5, PromptStep

(* The background job a command line has started is entered; a foreground  *)
(* one is going to be waited for.                                          *)
LEMMA LaunchStep ==
    ASSUME PlainSession, KernelInv, Launch
    PROVE  KernelInv' /\ KeepsLives
<1> DEFINE M == Contents(kern)
<1>0. At(Shell, "nice") /\ "nice" \in ShellLabels \ {"waitYield", "waitBlock"} /\ KeepsThread
  BY DEF Launch, ShellLabels
<1>1. /\ Steady(kern, M, pc, pidCounter, curr_pid, DOMAIN jobs)
      /\ Turn(kern, pc, pidCounter, Shell, Shell) /\ Globals
      /\ pc[Shell] = "nice" /\ activeContext = Shell /\ activeProcess = Shell
      /\ kern.pcb[Shell].status = "RUNNING" /\ kern.tail["high"] = Shell
  BY <1>0, ShellActs
<1>2. cmd.niced = FALSE /\ (kern.pcb[curr_pid].bgFlag <=> IS_BG) /\ IS_BG \in BOOLEAN
  BY <1>1 DEF Globals, PlainSession, PlainCommand, NoCommand
<1>3. kern' = kern /\ pidCounter' = pidCounter /\ curr_pid' = curr_pid /\ retFlag = FALSE
  BY <1>1, <1>2 DEF Launch, Globals
<1>4. /\ Shell \in Pids /\ pc \in [Pids -> Labels] /\ pidCounter \in Int /\ pidCounter \in 2..MaxPid + 1
      /\ ShellFacts(kern.pcb, pc, pidCounter, curr_pid) /\ curr_pid \in 2..pidCounter - 1
      /\ curr_pid \in Pids
  BY <1>1, SteadyFacts DEF ShellFacts
<1>5. CASE IS_BG
  <2>1. /\ jobs' = Filed(curr_pid, "RUNNING") /\ pc' = Moved(pc, Shell, "read")
        /\ fgpid' = fgpid /\ "read" \in Prompt
    BY <1>3, <1>5 DEF Launch, Goto, Moved, Prompt
  <2>2. DOMAIN jobs' = DOMAIN jobs \cup {curr_pid} /\ \A j \in DOMAIN jobs' : jobs'[j] = "RUNNING"
    BY <1>1, <2>1 DEF Globals, Filed
  <2>3. JobsStay(kern, pc, curr_pid, DOMAIN jobs, DOMAIN jobs')
    BY <1>1, <1>2, <1>5, <2>2 DEF JobsStay
  <2>4. Globals'
    BY <1>0, <1>1, <1>3, <1>4, <2>1, <2>2 DEF Globals, Launch, KeepsThread, Moved
  <2> QED
    BY <1>0, <1>3, <2>1, <2>3, <2>4, PromptStep
<1>6. CASE ~IS_BG
  <2>1. /\ jobs' = jobs /\ pc' = Moved(pc, Shell, "wait") /\ fgpid' = curr_pid
    BY <1>3, <1>6 DEF Launch, Goto, Moved
  <2> DEFINE at2 == Moved(pc, Shell, "wait")
  <2>2. /\ at2 \in [Pids -> Labels] /\ at2[Shell] = "wait"
        /\ \A p \in Pids \ {Shell} : at2[p] = pc[p]
    BY <1>4 DEF Labels, ShellLabels, Moved
  <2> HIDE DEF at2, M
  <2>3. /\ Queued(kern, M) /\ Placed(kern.pcb, M, pc, pidCounter, Shell)
        /\ JobFacts(kern.pcb, M, pc, pidCounter, curr_pid, DOMAIN jobs)
        /\ Shell \in Started(pidCounter)
    BY <1>1, SteadyFacts DEF Started
  <2>4. Placed(kern.pcb, M, at2, pidCounter, Shell)
    BY <1>1, <2>2, <2>3 DEF Placed, IsReady, Blocking
  <2>5. ShellFacts(kern.pcb, at2, pidCounter, curr_pid)
    BY <1>1, <1>2, <1>4, <1>6, <2>2 DEF ShellFacts, ShellLabels
  <2>6. JobFacts(kern.pcb, M, at2, pidCounter, curr_pid, DOMAIN jobs)
    BY <1>2, <1>6, <2>2, <2>3 DEF JobFacts, IsJob
  <2>7. OnlyIn({Shell}, kern, M, pc, kern, M, at2, pidCounter)
    BY <2>2, <2>3 DEF OnlyIn, Alone
  <2>8. Steady(kern, M, at2, pidCounter, curr_pid, DOMAIN jobs)
    BY <1>1, <2>2, <2>3, <2>4, <2>5, <2>6, <2>7, SteadyStep
  <2>9. Turn(kern, at2, pidCounter, Shell, Shell)
    BY <1>1, <1>4, ShellKeepsTurn DEF at2
  <2>10. Globals'
    BY <1>0, <1>1, <1>3, <1>4, <2>1 DEF Globals, Launch, KeepsThread, Moved
  <2>11. activeContext' = Shell /\ activeProcess' = Shell
    BY <1>0, <1>1 DEF KeepsThread
  <2>12. KeepsLives
    <3>1. /\ pc'[Shell] \notin Blocking /\ pc[Shell] \notin Blocking
          /\ \A x \in Pids \ {Shell} : pc'[x] = pc[x]
      BY <1>1, <2>1, <2>2 DEF at2, Blocking
    <3>2. IsReady(kern'.pcb, pc', pidCounter, Shell) <=> IsReady(kern.pcb, pc, pidCounter, Shell)
      BY <1>3, <3>1 DEF IsReady
    <3> QED
      BY <1>0, <1>1, <1>3, <1>4, <3>1, <3>2, LivesStay
  <2> QED
    BY <1>3, <2>1, <2>8, <2>9, <2>10, <2>11, <2>12, InvNext DEF at2
<1> QED
  BY <1>2, <1>5, <1>6

(* What a step of a program finds.                                         *)
LEMMA ProgramActs ==
    ASSUME KernelInv, NEW p \in Pids, NEW l \in ProgramLabels \cup {"exit"}, At(p, l)
    PROVE  LET M == Contents(kern) IN
           /\ Steady(kern, M, pc, pidCounter, curr_pid, DOMAIN jobs)
           /\ Turn(kern, pc, pidCounter, p, activeProcess) /\ Globals
           /\ pc[p] = l /\ activeContext = p /\ activeProcess = p
           /\ p \in 2..pidCounter - 1 /\ p # Shell /\ pc[Shell] \notin Critical
           /\ ProgramFacts(kern.pcb, pc, p)
           /\ l # "sleepYield" => kern.pcb[p].status = "RUNNING"
           /\ l \notin {"sleepYield", "sleepBlock"} => p \in M["med"] /\ kern.tail["med"] = p
           /\ l = "sleepBlock" => Apart(M, p)
<1> DEFINE M == Contents(kern)
<1>1. /\ Steady(kern, M, pc, pidCounter, curr_pid, DOMAIN jobs)
      /\ Turn(kern, pc, pidCounter, p, activeProcess) /\ Globals
      /\ activeContext = p /\ pc[p] = l
  BY DEF KernelInv, At
<1> HIDE DEF M
<1>2. /\ Shell \in Pids /\ pc[Shell] \in ShellLabels
      /\ \A x \in Pids : x < pidCounter /\ x # Shell => x \in 2..pidCounter - 1
      /\ \A x \in 2..pidCounter - 1 : ProgramFacts(kern.pcb, pc, x)
  BY <1>1, SteadyFacts DEF ShellFacts
<1>3. p # Shell
  BY <1>1, <1>2 DEF ShellLabels, ProgramLabels
<1>4. p < pidCounter /\ activeProcess = p /\ pc[Shell] \notin Critical
  BY <1>1, <1>2, <1>3 DEF Turn
<1>5. p \in 2..pidCounter - 1 /\ ProgramFacts(kern.pcb, pc, p)
  BY <1>2, <1>3, <1>4
<1>6. /\ l # "waitYield" /\ (l \in Blocking <=> l = "sleepBlock") /\ OwnQueue(p) = "med"
  BY <1>3 DEF Blocking, ProgramLabels, OwnQueue
<1>7. l # "sleepYield" =>
         /\ kern.pcb[p].status = "RUNNING"
         /\ pc[p] \notin Blocking => p \in M[OwnQueue(p)] /\ kern.tail[OwnQueue(p)] = p
         /\ pc[p] \in Blocking => Apart(M, p)
  BY <1>1, <1>6, HasThread
<1> QED
  BY <1>1, <1>3, <1>4, <1>5, <1>6, <1>7 DEF M

(* A program that neither starts, ends nor disturbs another process.       *)
LEMMA ProgramMoves ==
    ASSUME NEW k, NEW M, NEW at, NEW n, NEW c, NEW D, Steady(k, M, at, n, c, D),
           NEW p \in 2..n - 1, at[Shell] \notin Critical,
           NEW k2, NEW M2, Queued(k2, M2), NEW at2 \in [Pids -> Labels],
           OnlyIn({p}, k, M, at, k2, M2, at2, n),
           Placed(k2.pcb, M2, at2, n, p), ProgramFacts(k2.pcb, at2, p),
           k.pcb[p].status # "TERMINATED", k2.pcb[p].status # "TERMINATED",
           k2.pcb[p].bgFlag = k.pcb[p].bgFlag
    PROVE  Steady(k2, M2, at2, n, c, D)
<1>1. /\ Shell \in Pids /\ p # Shell /\ 2..n - 1 \subseteq Pids
      /\ ShellFacts(k.pcb, at, n, c) /\ JobFacts(k.pcb, M, at, n, c, D)
      /\ \A x \in 2..n - 1 : ProgramFacts(k.pcb, at, x)
      /\ n \in Int /\ c \in Pids \cup {NULL}
  BY SteadyFacts
<1>2. \A x \in Pids \ {p} : Alone(k, M, at, k2, M2, at2, x)
  BY DEF OnlyIn
<1>3. k2.pcb[Shell] = k.pcb[Shell] /\ at2[Shell] = at[Shell]
  BY <1>1, <1>2 DEF Alone
<1>4. ShellFacts(k2.pcb, at2, n, c)
  <2>1. /\ at[Shell] \notin {"nice", "wait", "waitBlock"}
    BY DEF Critical
  <2>2. k.pcb[Shell].status = "BLOCKED" =>
            /\ k.pcb[Shell].waitChild = c /\ ~k2.pcb[c].bgFlag
            /\ k2.pcb[c].status \in {"RUNNING", "BLOCKED"}
    <3> SUFFICES ASSUME k.pcb[Shell].status = "BLOCKED"
                 PROVE  /\ k.pcb[Shell].waitChild = c /\ ~k2.pcb[c].bgFlag
                        /\ k2.pcb[c].status \in {"RUNNING", "BLOCKED"}
      OBVIOUS
    <3>1. /\ k.pcb[Shell].waitChild = c /\ ~k.pcb[c].bgFlag
          /\ k.pcb[c].status \in {"RUNNING", "BLOCKED"} /\ c \in 2..n - 1
      BY <1>1 DEF ShellFacts
    <3>2. CASE c = p
      BY <3>1, <3>2 DEF ProgramFacts
    <3>3. CASE c # p
      BY <1>1, <1>2, <3>1, <3>3 DEF Alone
    <3> QED
      BY <3>2, <3>3
  <2> QED
    BY <1>1, <1>3, <2>1, <2>2 DEF ShellFacts
<1>5. JobFacts(k2.pcb, M2, at2, n, c, D)
  <2>1. at[Shell] # "nice"
    BY DEF Critical
  <2>2. ASSUME NEW x \in 2..n - 1 PROVE IsJob(k2.pcb, M2, x) <=> IsJob(k.pcb, M, x)
    <3>1. CASE x = p
      BY <3>1 DEF IsJob
    <3>2. CASE x # p
      <4>1. Alone(k, M, at, k2, M2, at2, x) /\ "zombie" \in Queues
        BY <1>1, <1>2, <3>2 DEF Queues
      <4> QED
        BY <4>1 DEF Alone, IsJob
    <3> QED
      BY <3>1, <3>2
  <2> QED
    BY <1>1, <2>1, <2>2, JobsKeep
<1> QED
  BY <1>4, <1>5, SteadyStep

(* The globals of the shell do not change when a program moves on.         *)
LEMMA ProgramKeepsGlobals ==
    ASSUME Globals, UNCHANGED <<pidCounter, globals, prog>>,
           activeProcess' \in Pids, activeContext' \in Contexts, listPointer' \in 0..17,
           pc'[Shell] = pc[Shell], \A p \in Pids : pc'[p] = "user" => pc[p] = "user",
           pc[Shell] # "nice"
    PROVE  Globals'
BY DEF Globals, globals

(* A sleeper's ticks to come.                                              *)
Asleep(b, p, t) == [b EXCEPT ![p].sleep = t]

(* sleep takes its process off the ready queue.                            *)
LEMMA SleepStep ==
    ASSUME KernelInv, NEW p \in Pids, Sleep(p)
    PROVE  KernelInv' /\ BlocksLife
<1> DEFINE M == Contents(kern)
           n == pidCounter
           t == prog[p].ticks
           b2 == Asleep(kern.pcb, p, t)
           k1 == dequeue(kern, p)
           M2 == Leaves(M, "med", p)
           at2 == Moved(pc, p, "sleepBlock")
<1>0. At(p, "user") /\ "user" \in ProgramLabels \cup {"exit"}
  BY DEF Sleep, User, ProgramLabels
<1>1. /\ Steady(kern, M, pc, n, curr_pid, DOMAIN jobs)
      /\ Turn(kern, pc, n, p, activeProcess) /\ Globals
      /\ pc[p] = "user" /\ activeContext = p /\ activeProcess = p
      /\ p \in 2..n - 1 /\ p # Shell /\ pc[Shell] \notin Critical
      /\ ProgramFacts(kern.pcb, pc, p)
      /\ kern.pcb[p].status = "RUNNING" /\ p \in M["med"] /\ kern.tail["med"] = p
  BY <1>0, ProgramActs
<1> HIDE DEF M
<1>2. /\ Queued(kern, M) /\ kern.pcb \in [Pids -> PcbType] /\ M \in [Queues -> SUBSET Pids]
      /\ pc \in [Pids -> Labels] /\ Shell \in Pids /\ n \in 2..MaxPid + 1
      /\ Placed(kern.pcb, M, pc, n, p)
  BY <1>1, SteadyFacts
<1>3. t \in Nat
  BY <1>1 DEF Globals, Programs
<1>4. kern.pcb[p] \in PcbType /\ b2[p] = [kern.pcb[p] EXCEPT !.sleep = t]
      /\ b2 \in [Pids -> PcbType] /\ \A x \in Pids \ {p} : b2[x] = kern.pcb[x]
  <2>1. kern.pcb[p] \in PcbType
    BY <1>2
  <2>2. [kern.pcb[p] EXCEPT !.sleep = t] \in PcbType
    BY <1>3, <2>1 DEF PcbType
  <2> QED
    BY <1>2, <2>1, <2>2 DEF Asleep
<1>5. Queued(k1, M2) /\ k1.pcb = kern.pcb
  <2>1. ReadyQueue(kern.pcb[p].priority) = "med"
    BY <1>1 DEF ProgramFacts, ReadyQueue
  <2> QED
    BY <1>1, <1>2, <2>1, DequeueCall DEF After
<1> HIDE DEF k1
<1>6. kern' = Recorded(k1, b2)
  <2>1. k1 \in KernType /\ k1.fault = "none"
    BY <1>5 DEF Queued
  <2>2. kern' = OnProcess(k1, p, [k1 EXCEPT !.pcb[p].sleep = t])
    BY DEF Sleep, k1
  <2>3. kern' = [k1 EXCEPT !.pcb[p].sleep = t]
    BY <2>1, <2>2, OnProcessIs
  <2> QED
    BY <1>5, <2>1, <2>3 DEF Recorded, Asleep, KernType
<1> HIDE DEF b2
<1>7. Queued(kern', M2) /\ kern'.pcb = b2
  BY <1>4, <1>5, <1>6, RecordedIs
<1>8. pc' = at2 /\ at2 \in [Pids -> Labels] /\ at2[p] = "sleepBlock"
      /\ \A x \in Pids \ {p} : at2[x] = pc[x]
  BY <1>2 DEF Sleep, Goto, Moved, Labels, ProgramLabels
<1>9. /\ \A q \in Queues : p \notin M2[q] /\ \A x \in Pids \ {p} : x \in M2[q] <=> x \in M[q]
  <2>1. \A q \in Queues : p \notin M2[q]
    BY <1>1, <1>2, LeavesIs DEF Apart, Queues
  <2> QED
    BY <1>2, <2>1 DEF Leaves
<1> HIDE DEF M2, at2, t
<1>10. b2[p].status = "RUNNING" /\ b2[p].bgFlag = kern.pcb[p].bgFlag
       /\ ProgramFacts(b2, at2, p)
  BY <1>1, <1>3, <1>4, <1>8 DEF ProgramFacts, PcbType
<1>11. Placed(b2, M2, at2, n, p)
  BY <1>8, <1>9, <1>10 DEF Placed, IsReady, Blocking, Queues
<1>12. OnlyIn({p}, kern, M, pc, kern', M2, at2, n)
  BY <1>1, <1>4, <1>7, <1>8, <1>9 DEF OnlyIn, Alone, Started
<1>13. Steady(kern', M2, at2, n, curr_pid, DOMAIN jobs)
  BY <1>1, <1>7, <1>8, <1>10, <1>11, <1>12, ProgramMoves
<1>14. UNCHANGED <<pidCounter, globals, prog>> /\ KeepsThread
  BY DEF Sleep
<1>15. Turn(kern', at2, n, p, p)
  BY <1>1, <1>7, <1>8, <1>10 DEF Turn, Blocking
<1>16. Globals'
  <2>1. pc'[Shell] = pc[Shell] /\ \A x \in Pids : pc'[x] = "user" => pc[x] = "user"
    BY <1>1, <1>2, <1>8
  <2>2. pc[Shell] # "nice"
    BY <1>1 DEF Critical
  <2> QED
    BY <1>1, <1>14, <2>1, <2>2, ProgramKeepsGlobals DEF KeepsThread, Globals
<1>17. BlocksLife
  <2>1. p < n /\ n \in Int /\ pidCounter' = pidCounter
    BY <1>1, <1>2, <1>14
  <2>2. pc[p] \notin Blocking /\ pc'[p] \in Blocking
    BY <1>1, <1>8 DEF Blocking
  <2>3. \A x \in Pids \ {p} : kern'.pcb[x].status = kern.pcb[x].status /\ pc'[x] = pc[x]
    BY <1>4, <1>7, <1>8
  <2> QED
    BY <1>1, <1>7, <1>10, <1>14, <2>1, <2>2, <2>3, LifeBlocks
<1> QED
  BY <1>1, <1>8, <1>13, <1>14, <1>15, <1>16, <1>17, InvNext DEF KeepsThread, globals

(* It then enters the blocked queue.                                       *)
LEMMA SleepBlockStep ==
    ASSUME KernelInv, NEW p \in Pids, SleepBlock(p)
    PROVE  KernelInv' /\ KeepsLives
<1> DEFINE M == Contents(kern)
           n == pidCounter
           b2 == Blocked(kern.pcb, p)
           M2 == Joins(M, "blocked", p)
           at2 == Moved(pc, p, "sleepYield")
<1>0. At(p, "sleepBlock") /\ "sleepBlock" \in ProgramLabels \cup {"exit"}
  BY DEF SleepBlock, ProgramLabels
<1>1. /\ Steady(kern, M, pc, n, curr_pid, DOMAIN jobs)
      /\ Turn(kern, pc, n, p, activeProcess) /\ Globals
      /\ pc[p] = "sleepBlock" /\ activeContext = p /\ activeProcess = p
      /\ p \in 2..n - 1 /\ p # Shell /\ pc[Shell] \notin Critical
      /\ ProgramFacts(kern.pcb, pc, p)
      /\ kern.pcb[p].status = "RUNNING" /\ Apart(M, p)
  BY <1>0, ProgramActs
<1> HIDE DEF M
<1>2. /\ Queued(kern, M) /\ kern.pcb \in [Pids -> PcbType] /\ M \in [Queues -> SUBSET Pids]
      /\ pc \in [Pids -> Labels] /\ Shell \in Pids /\ n \in 2..MaxPid + 1
      /\ Placed(kern.pcb, M, pc, n, p) /\ p < n
  BY <1>1, SteadyFacts
<1>3. kern.pcb[p] \in PcbType
      /\ b2[p] = [kern.pcb[p] EXCEPT !.status = "BLOCKED", !.changedStatus = TRUE]
      /\ \A x \in Pids \ {p} : b2[x] = kern.pcb[x]
  BY <1>2 DEF Blocked
<1>4. Queued(kern', M2) /\ kern'.pcb = b2
  BY <1>1, <1>2, EnqueueBlockedCall DEF SleepBlock, After
<1> HIDE DEF b2
<1>5. pc' = at2 /\ at2 \in [Pids -> Labels] /\ at2[p] = "sleepYield"
      /\ \A x \in Pids \ {p} : at2[x] = pc[x]
  BY <1>2 DEF SleepBlock, Goto, Moved, Labels, ProgramLabels
<1>6. /\ \A q \in Queues : p \in M2[q] <=> q = "blocked"
      /\ \A q \in Queues : \A x \in Pids \ {p} : x \in M2[q] <=> x \in M[q]
  BY <1>1, <1>2 DEF Joins, Apart
<1> HIDE DEF M2, at2
<1>7. b2[p].status = "BLOCKED" /\ b2[p].bgFlag = kern.pcb[p].bgFlag
       /\ ProgramFacts(b2, at2, p)
  BY <1>1, <1>3, <1>5 DEF ProgramFacts, PcbType
<1>8. Placed(b2, M2, at2, n, p)
  BY <1>2, <1>5, <1>6, <1>7 DEF Placed, IsReady, Queues
<1>9. OnlyIn({p}, kern, M, pc, kern', M2, at2, n)
  BY <1>1, <1>3, <1>4, <1>5, <1>6 DEF OnlyIn, Alone, Started
<1>10. Steady(kern', M2, at2, n, curr_pid, DOMAIN jobs)
  BY <1>1, <1>4, <1>5, <1>7, <1>8, <1>9, ProgramMoves
<1>11. UNCHANGED <<pidCounter, globals, prog>> /\ KeepsThread
  BY DEF SleepBlock
<1>12. Turn(kern', at2, n, p, p)
  <2>1. \A x \in Pids : at2[x] \notin Critical
    BY <1>1, <1>5 DEF Turn, Critical
  <2> QED
    BY <1>2, <1>4, <1>5, <1>7, <2>1 DEF Turn
<1>13. Globals'
  <2>1. pc'[Shell] = pc[Shell] /\ \A x \in Pids : pc'[x] = "user" => pc[x] = "user"
    BY <1>1, <1>2, <1>5
  <2>2. pc[Shell] # "nice"
    BY <1>1 DEF Critical
  <2> QED
    BY <1>1, <1>11, <2>1, <2>2, ProgramKeepsGlobals DEF KeepsThread, Globals
<1>14. KeepsLives
  <2>1. \A x \in Pids \ {p} : kern'.pcb[x].status = kern.pcb[x].status /\ pc'[x] = pc[x]
    BY <1>3, <1>4, <1>5
  <2>2. /\ ~IsReady(kern'.pcb, pc', n, p) /\ ~IsReady(kern.pcb, pc, n, p)
        /\ kern'.pcb[p].status # "TERMINATED"
    BY <1>1, <1>4, <1>7 DEF IsReady, Blocking
  <2> QED
    BY <1>1, <1>11, <2>1, <2>2, LivesStay
<1> QED
  BY <1>1, <1>5, <1>10, <1>11, <1>12, <1>13, <1>14, InvNext DEF KeepsThread, globals

(* Blocked, it gives the thread up.                                        *)
LEMMA SleepYieldStep ==
    ASSUME KernelInv, NEW p \in Pids, SleepYield(p)
    PROVE  KernelInv' /\ PassesThread
<1> DEFINE M == Contents(kern)
           n == pidCounter
           at2 == Moved(pc, p, "sleepResume")
<1>0. At(p, "sleepYield") /\ "sleepYield" \in ProgramLabels \cup {"exit"}
  BY DEF SleepYield, ProgramLabels
<1>1. /\ Steady(kern, M, pc, n, curr_pid, DOMAIN jobs)
      /\ Turn(kern, pc, n, p, activeProcess) /\ Globals
      /\ pc[p] = "sleepYield" /\ activeContext = p /\ activeProcess = p
      /\ p \in 2..n - 1 /\ p # Shell /\ pc[Shell] \notin Critical
      /\ ProgramFacts(kern.pcb, pc, p)
  BY <1>0, ProgramActs
<1> HIDE DEF M
<1>2. /\ Queued(kern, M) /\ M \in [Queues -> SUBSET Pids]
      /\ pc \in [Pids -> Labels] /\ Shell \in Pids /\ n \in 2..MaxPid + 1
      /\ Placed(kern.pcb, M, pc, n, p)
  BY <1>1, SteadyFacts
<1>3. pc' = at2 /\ at2 \in [Pids -> Labels] /\ at2[p] = "sleepResume"
      /\ \A x \in Pids \ {p} : at2[x] = pc[x]
  BY <1>2 DEF SleepYield, Goto, Moved, Labels, ProgramLabels
<1> HIDE DEF at2
<1>4. ProgramFacts(kern.pcb, at2, p) /\ Placed(kern.pcb, M, at2, n, p)
      /\ kern.pcb[p].status # "TERMINATED"
  BY <1>1, <1>2, <1>3 DEF ProgramFacts, Placed, IsReady, Blocking
<1>5. OnlyIn({p}, kern, M, pc, kern, M, at2, n)
  BY <1>1, <1>3 DEF OnlyIn, Alone, Started
<1>6. Steady(kern, M, at2, n, curr_pid, DOMAIN jobs)
  BY <1>1, <1>2, <1>3, <1>4, <1>5, ProgramMoves
<1>7. \A x \in Pids : at2[x] \notin Critical
  BY <1>1, <1>3 DEF Turn, Critical
<1>8. /\ Steady(kern', M, at2, n, curr_pid, DOMAIN jobs)
      /\ Turn(kern', at2, n, activeContext', activeProcess')
      /\ activeContext' \in Contexts /\ activeProcess' \in Pids /\ listPointer' \in 0..17
      /\ kern'.pcb = kern.pcb
      /\ activeContext' \in Pids => kern'.pcb[activeContext'].status = "RUNNING"
  BY <1>1, <1>6, <1>7, SteadyDispatch DEF Globals, SleepYield
<1>9. UNCHANGED <<pidCounter, globals, prog>>
  BY DEF SleepYield
<1>10. Globals'
  <2>1. pc'[Shell] = pc[Shell] /\ \A x \in Pids : pc'[x] = "user" => pc[x] = "user"
    BY <1>1, <1>2, <1>3
  <2>2. pc[Shell] # "nice"
    BY <1>1 DEF Critical
  <2> QED
    BY <1>1, <1>8, <1>9, <2>1, <2>2, ProgramKeepsGlobals
<1>11. PassesThread
  <2>1. \A x \in Pids : pc[x] \notin Blocking /\ pc'[x] \notin Blocking
    BY <1>1, <1>3, <1>7 DEF Critical, Blocking
  <2> QED
    BY <1>2, <1>3, <1>8, <1>9, <2>1, ThreadPasses DEF WakesOrEnds
<1> QED
  BY <1>3, <1>8, <1>9, <1>10, <1>11, InvNext DEF globals

(* Woken, it has no ticks to come, and goes to its end.                    *)
LEMMA SleepResumeStep ==
    ASSUME KernelInv, NEW p \in Pids, SleepResume(p)
    PROVE  KernelInv' /\ KeepsLives
<1> DEFINE M == Contents(kern)
           n == pidCounter
           at2 == Moved(pc, p, "exit")
<1>0. At(p, "sleepResume") /\ "sleepResume" \in ProgramLabels \cup {"exit"}
  BY DEF SleepResume, ProgramLabels
<1>1. /\ Steady(kern, M, pc, n, curr_pid, DOMAIN jobs)
      /\ Turn(kern, pc, n, p, activeProcess) /\ Globals
      /\ pc[p] = "sleepResume" /\ activeContext = p /\ activeProcess = p
      /\ p \in 2..n - 1 /\ p # Shell /\ pc[Shell] \notin Critical
      /\ ProgramFacts(kern.pcb, pc, p)
      /\ kern.pcb[p].status = "RUNNING" /\ kern.tail["med"] = p
  BY <1>0, ProgramActs
<1> HIDE DEF M
<1>2. /\ Queued(kern, M) /\ M \in [Queues -> SUBSET Pids]
      /\ pc \in [Pids -> Labels] /\ Shell \in Pids /\ n \in 2..MaxPid + 1
      /\ Placed(kern.pcb, M, pc, n, p) /\ p < n
  BY <1>1, SteadyFacts
<1>3. pc' = at2 /\ at2 \in [Pids -> Labels] /\ at2[p] = "exit"
      /\ \A x \in Pids \ {p} : at2[x] = pc[x]
  BY <1>2 DEF SleepResume, Goto, Moved, Labels
<1> HIDE DEF at2
<1>4. kern.pcb[p].sleep = 0 /\ kern' = kern
  BY <1>1 DEF ProgramFacts, SleepResume
<1>5. ProgramFacts(kern.pcb, at2, p) /\ Placed(kern.pcb, M, at2, n, p)
  BY <1>1, <1>2, <1>3 DEF ProgramFacts, Placed, IsReady, Blocking
<1>6. OnlyIn({p}, kern, M, pc, kern, M, at2, n)
  BY <1>1, <1>2, <1>3 DEF OnlyIn, Alone, Started
<1>7. Steady(kern, M, at2, n, curr_pid, DOMAIN jobs)
  BY <1>1, <1>2, <1>3, <1>5, <1>6, ProgramMoves
<1>8. Turn(kern, at2, n, p, p)
  <2>1. \A x \in Pids : at2[x] \notin Critical
    BY <1>1, <1>3 DEF Turn, Critical
  <2> QED
    BY <1>1, <1>2, <1>3, <2>1 DEF Turn, OwnQueue
<1>9. UNCHANGED <<pidCounter, globals, prog>> /\ KeepsThread
  BY DEF SleepResume
<1>10. Globals'
  <2>1. pc'[Shell] = pc[Shell] /\ \A x \in Pids : pc'[x] = "user" => pc[x] = "user"
    BY <1>1, <1>2, <1>3
  <2>2. pc[Shell] # "nice"
    BY <1>1 DEF Critical
  <2> QED
    BY <1>1, <1>9, <2>1, <2>2, ProgramKeepsGlobals DEF KeepsThread, Globals
<1>11. KeepsLives
  <2>1. pc[p] \notin Blocking /\ pc'[p] \notin Blocking
    BY <1>1, <1>3 DEF Blocking
  <2>2. IsReady(kern'.pcb, pc', n, p) <=> IsReady(kern.pcb, pc, n, p)
    BY <1>4, <2>1 DEF IsReady
  <2>3. \A x \in Pids \ {p} : kern'.pcb[x].status = kern.pcb[x].status /\ pc'[x] = pc[x]
    BY <1>3, <1>4
  <2> QED
    BY <1>1, <1>4, <1>9, <2>2, <2>3, LivesStay
<1> QED
  BY <1>1, <1>3, <1>4, <1>7, <1>8, <1>9, <1>10, <1>11, InvNext DEF KeepsThread, globals

(* A program that has the thread ends.                                     *)
LEMMA ProgramEnds ==
    ASSUME NEW k, NEW M, NEW at, NEW n, NEW c, NEW D, Steady(k, M, at, n, c, D),
           NEW p \in 2..n - 1, at[Shell] \notin Critical, k.pcb[p].status = "RUNNING",
           p \in M["med"], k.tail["med"] = p
    PROVE  /\ \E M2 : Steady(k_process_cleanup(k, p), M2, Moved(at, p, "dead"), n, c, D)
           /\ WakesOrEnds(k.pcb, k_process_cleanup(k, p).pcb)
<1> DEFINE k2 == k_process_cleanup(k, p)
           at2 == Moved(at, p, "dead")
           M1 == Leaves(M, "med", p)
           b == Over(k.pcb, p)
           waits == Shell \in M["blocked"] /\ k.pcb[Shell].waitChild = p
<1>1. /\ Queued(k, M) /\ k.pcb \in [Pids -> PcbType] /\ M \in [Queues -> SUBSET Pids]
      /\ at \in [Pids -> Labels] /\ n \in 2..MaxPid + 1
      /\ Shell \in Pids /\ p # Shell /\ p \in Pids /\ p < n /\ Shell < n
      /\ Placed(k.pcb, M, at, n, p) /\ Placed(k.pcb, M, at, n, Shell)
      /\ ProgramFacts(k.pcb, at, p)
      /\ ShellFacts(k.pcb, at, n, c) /\ JobFacts(k.pcb, M, at, n, c, D)
      /\ 2..n - 1 \subseteq Pids
  BY SteadyFacts
<1>2. /\ at2 \in [Pids -> Labels] /\ at2[p] = "dead"
      /\ \A x \in Pids \ {p} : at2[x] = at[x]
  BY <1>1 DEF Moved, Labels
<1>3. /\ b[p] = [k.pcb[p] EXCEPT !.status = "TERMINATED", !.changedStatus = TRUE]
      /\ b \in [Pids -> PcbType] /\ \A x \in Pids \ {p} : b[x] = k.pcb[x]
  BY <1>1, BlockTypes DEF Over
<1>4. k.pcb[p] \in PcbType /\ k.pcb[Shell] \in PcbType
  BY <1>1
<1>5. b[p].status = "TERMINATED" /\ b[p].bgFlag = k.pcb[p].bgFlag
      /\ ProgramFacts(b, at2, p)
  BY <1>1, <1>2, <1>3, <1>4 DEF ProgramFacts, PcbType
<1>6. /\ \A q \in Queues : p \notin M1[q] /\ \A x \in Pids \ {p} : x \in M1[q] <=> x \in M[q]
      /\ M1 \in [Queues -> SUBSET Pids]
  <2>1. (\A q \in Queues : p \notin M1[q]) /\ M1 \in [Queues -> SUBSET Pids]
    BY <1>1, LeavesIs DEF Apart, Queues
  <2> QED
    BY <1>1, <2>1 DEF Leaves
<1>7. Leaf(k, M, p)
  BY <1>1 DEF Leaf, ProgramFacts, ShellFacts
<1>8. Queues = {"high", "med", "low", "blocked", "stopped", "zombie"}
  BY DEF Queues
<1> HIDE DEF at2, b, M1, k2, waits
<1>9. /\ k.pcb[p].bgFlag =>
           Queued(k2, Joins(M1, "zombie", p)) /\ k2.pcb = b
      /\ ~k.pcb[p].bgFlag /\ waits =>
           /\ Queued(k2, Joins(Leaves(M1, "blocked", Shell), "high", Shell))
           /\ k2.pcb = Running(b, Shell)
      /\ ~k.pcb[p].bgFlag /\ ~waits => Queued(k2, M1) /\ k2.pcb = b
  BY <1>1, <1>7, CleanupCall DEF k2, b, M1, waits
<1>10. /\ at2[Shell] = at[Shell] /\ b[Shell] = k.pcb[Shell]
       /\ at[Shell] \notin {"nice", "wait", "waitBlock", "sleepBlock"}
  BY <1>1, <1>2, <1>3 DEF Critical
<1>11. IsJob(k.pcb, M, p) <=> k.pcb[p].bgFlag
  BY DEF IsJob
<1>12. ASSUME k.pcb[Shell].status = "BLOCKED" => c # p
       PROVE  ShellFacts(b, at2, n, c)
  <2>1. c \in 2..n - 1 /\ c # p => b[c] = k.pcb[c]
    BY <1>1, <1>3
  <2> QED
    BY <1>1, <1>10, <1>12, <2>1 DEF ShellFacts
<1>13. k.pcb[Shell].status = "BLOCKED" => Shell \in M["blocked"] /\ k.pcb[Shell].waitChild = c
                                          /\ ~k.pcb[c].bgFlag
  BY <1>1 DEF Placed, ShellFacts
<1>17. ASSUME k2.pcb = b PROVE WakesOrEnds(k.pcb, k2.pcb)
  BY <1>3, <1>5, <1>17 DEF WakesOrEnds
<1>14. CASE k.pcb[p].bgFlag
  <2> DEFINE M2 == Joins(M1, "zombie", p)
  <2>1. /\ \A q \in Queues : p \in M2[q] <=> q = "zombie"
        /\ \A q \in Queues : \A x \in Pids \ {p} : x \in M2[q] <=> x \in M[q]
    BY <1>6, <1>8 DEF Joins
  <2>2. Queued(k2, M2) /\ k2.pcb = b
    BY <1>9, <1>14
  <2> HIDE DEF M2
  <2>3. Placed(b, M2, at2, n, p)
    BY <1>1, <1>2, <1>5, <1>8, <1>14, <2>1 DEF Placed, IsReady
  <2>4. ShellFacts(b, at2, n, c)
    BY <1>12, <1>13, <1>14
  <2>5. JobFacts(b, M2, at2, n, c, D)
    <3>1. ASSUME NEW x \in 2..n - 1 PROVE IsJob(b, M2, x) <=> IsJob(k.pcb, M, x)
      <4>1. CASE x = p
        BY <1>1, <1>5, <1>8, <1>11, <1>14, <2>1, <4>1 DEF IsJob
      <4>2. CASE x # p
        BY <1>1, <1>3, <1>8, <2>1, <4>2 DEF IsJob
      <4> QED
        BY <4>1, <4>2
    <3> QED
      BY <1>1, <1>10, <3>1, JobsKeep
  <2>6. OnlyIn({p}, k, M, at, k2, M2, at2, n)
    BY <1>1, <1>2, <1>3, <2>1, <2>2 DEF OnlyIn, Alone, Started
  <2>7. Steady(k2, M2, at2, n, c, D)
    BY <1>2, <1>5, <2>2, <2>3, <2>4, <2>5, <2>6, SteadyStep
  <2> QED
    BY <1>17, <2>2, <2>7 DEF k2, at2
<1>15. CASE ~k.pcb[p].bgFlag /\ ~waits
  <2>1. Queued(k2, M1) /\ k2.pcb = b
    BY <1>9, <1>15
  <2>2. Placed(b, M1, at2, n, p)
    BY <1>1, <1>2, <1>5, <1>6, <1>8 DEF Placed, IsReady
  <2>3. ShellFacts(b, at2, n, c)
    BY <1>12, <1>13, <1>15 DEF waits
  <2>4. JobFacts(b, M1, at2, n, c, D)
    <3>1. ASSUME NEW x \in 2..n - 1 PROVE IsJob(b, M1, x) <=> IsJob(k.pcb, M, x)
      <4>1. CASE x = p
        BY <1>5, <1>11, <1>15, <1>6, <1>8, <4>1 DEF IsJob
      <4>2. CASE x # p
        BY <1>1, <1>3, <1>6, <1>8, <4>2 DEF IsJob
      <4> QED
        BY <4>1, <4>2
    <3> QED
      BY <1>1, <1>10, <3>1, JobsKeep
  <2>5. OnlyIn({p}, k, M, at, k2, M1, at2, n)
    BY <1>1, <1>2, <1>3, <1>6, <2>1 DEF OnlyIn, Alone, Started
  <2>6. Steady(k2, M1, at2, n, c, D)
    BY <1>2, <1>5, <2>1, <2>2, <2>3, <2>4, <2>5, SteadyStep
  <2> QED
    BY <1>17, <2>1, <2>6 DEF k2, at2
<1>16. CASE ~k.pcb[p].bgFlag /\ waits
  <2> DEFINE M2 == Joins(Leaves(M1, "blocked", Shell), "high", Shell)
             b2 == Running(b, Shell)
  <2>1. /\ k.pcb[Shell].status = "BLOCKED" /\ k.pcb[Shell].waitChild = p
    BY <1>1, <1>16 DEF waits, Placed
  <2>2. /\ b2[Shell] = [k.pcb[Shell] EXCEPT !.status = "RUNNING"]
        /\ \A x \in Pids \ {Shell} : b2[x] = b[x]
    BY <1>1, <1>3, <1>10 DEF Running
  <2>3. /\ \A q \in Queues : p \notin M2[q] /\ \A x \in Pids \ {p, Shell} : x \in M2[q] <=> x \in M[q]
        /\ \A q \in Queues \ {"blocked", "high"} : Shell \in M2[q] <=> Shell \in M[q]
        /\ Shell \in M2["high"] /\ Shell \notin M2["blocked"]
    BY <1>1, <1>6, <1>8 DEF Joins, Leaves
  <2>4. Queued(k2, M2) /\ k2.pcb = b2
    BY <1>9, <1>16
  <2> HIDE DEF M2, b2
  <2>5. Placed(b2, M2, at2, n, p) /\ ProgramFacts(b2, at2, p)
    BY <1>1, <1>2, <1>5, <1>8, <2>2, <2>3 DEF Placed, IsReady, ProgramFacts
  <2>6. Placed(b2, M2, at2, n, Shell)
    BY <1>1, <1>4, <1>8, <1>10, <2>1, <2>2, <2>3 DEF Placed, IsReady, PcbType, Blocking
  <2>7. ShellFacts(b2, at2, n, c)
    BY <1>1, <1>4, <1>10, <2>2 DEF ShellFacts, PcbType
  <2>8. JobFacts(b2, M2, at2, n, c, D)
    <3>1. ASSUME NEW x \in 2..n - 1, x # p
          PROVE  b2[x] = k.pcb[x] /\ (x \in M2["zombie"] <=> x \in M["zombie"])
      BY <1>1, <1>3, <1>8, <2>2, <2>3, <3>1 DEF Shell
    <3>2. ~b2[p].bgFlag
      BY <1>1, <1>5, <1>16, <2>2
    <3>3. \A x \in 2..n - 1 : IsJob(b2, M2, x) <=> IsJob(k.pcb, M, x)
      BY <1>11, <1>16, <3>1, <3>2 DEF IsJob
    <3> QED
      BY <1>1, <1>10, <3>3, JobsKeep
  <2>9. OnlyIn({p, Shell}, k, M, at, k2, M2, at2, n)
    <3>1. {p, Shell} \subseteq Started(n)
      BY <1>1 DEF Started, Pids
    <3>2. ASSUME NEW x \in Pids \ {p, Shell} PROVE Alone(k, M, at, k2, M2, at2, x)
      BY <1>2, <1>3, <2>2, <2>3, <2>4 DEF Alone
    <3> QED
      BY <3>1, <3>2 DEF OnlyIn
  <2>10. Steady(k2, M2, at2, n, c, D)
    BY <1>2, <2>4, <2>5, <2>6, <2>7, <2>8, <2>9, SteadyStep
  <2>11. WakesOrEnds(k.pcb, k2.pcb)
    <3>1. b2[p].status = "TERMINATED"
      BY <1>1, <1>5, <2>2
    <3>2. b2[Shell].status = "RUNNING"
      BY <1>4, <2>2 DEF PcbType
    <3>3. \A x \in Pids \ {p, Shell} : b2[x] = k.pcb[x]
      BY <1>3, <2>2
    <3> QED
      BY <2>1, <2>4, <3>1, <3>2, <3>3 DEF WakesOrEnds
  <2> QED
    BY <2>10, <2>11 DEF k2, at2
<1> QED
  BY <1>14, <1>15, <1>16 DEF k2, at2

(* A function that returns ends its process.                               *)
LEMMA TerminateStep ==
    ASSUME KernelInv, NEW p \in Pids, TerminateProcess(p)
    PROVE  KernelInv' /\ PassesThread
<1> DEFINE M == Contents(kern)
           n == pidCounter
           k2 == k_process_cleanup(kern, p)
           at2 == Moved(pc, p, "dead")
<1>0. At(p, "exit")
  BY DEF TerminateProcess
<1>1. /\ Steady(kern, M, pc, n, curr_pid, DOMAIN jobs)
      /\ Turn(kern, pc, n, p, activeProcess) /\ Globals
      /\ pc[p] = "exit" /\ activeContext = p /\ activeProcess = p
      /\ p \in 2..n - 1 /\ p # Shell /\ pc[Shell] \notin Critical
      /\ kern.pcb[p].status = "RUNNING" /\ p \in M["med"] /\ kern.tail["med"] = p
  BY <1>0, ProgramActs
<1> HIDE DEF M
<1>2. /\ pc \in [Pids -> Labels] /\ Shell \in Pids
      /\ kern.pcb \in [Pids -> PcbType]
  BY <1>1, SteadyFacts
<1>3. pc' = at2 /\ at2[p] = "dead" /\ \A x \in Pids \ {p} : at2[x] = pc[x]
  BY <1>2 DEF TerminateProcess, Goto, Moved
<1>4. /\ \E M2 : Steady(k2, M2, at2, n, curr_pid, DOMAIN jobs)
      /\ WakesOrEnds(kern.pcb, k2.pcb)
  BY <1>1, ProgramEnds
<1>9. PICK M2 : Steady(k2, M2, at2, n, curr_pid, DOMAIN jobs)
  BY <1>4
<1>5. Dispatch(k2) /\ UNCHANGED <<pidCounter, globals, prog>>
  BY <1>1 DEF TerminateProcess
<1> HIDE DEF k2, at2
<1>6. \A x \in Pids : at2[x] \notin Critical
  BY <1>1, <1>3 DEF Turn, Critical
<1>7. /\ Steady(kern', M2, at2, n, curr_pid, DOMAIN jobs)
      /\ Turn(kern', at2, n, activeContext', activeProcess')
      /\ activeContext' \in Contexts /\ activeProcess' \in Pids /\ listPointer' \in 0..17
      /\ kern'.pcb = k2.pcb
      /\ activeContext' \in Pids => kern'.pcb[activeContext'].status = "RUNNING"
  BY <1>1, <1>5, <1>6, <1>9, SteadyDispatch DEF Globals
<1>8. Globals'
  <2>1. pc'[Shell] = pc[Shell] /\ \A x \in Pids : pc'[x] = "user" => pc[x] = "user"
    BY <1>1, <1>2, <1>3
  <2>2. pc[Shell] # "nice"
    BY <1>1 DEF Critical
  <2> QED
    BY <1>1, <1>5, <1>7, <2>1, <2>2, ProgramKeepsGlobals
<1>10. PassesThread
  <2>1. \A x \in Pids : pc[x] \notin Blocking /\ pc'[x] \notin Blocking
    BY <1>1, <1>3, <1>6 DEF Critical, Blocking
  <2>2. pidCounter \in Int /\ pidCounter' = pidCounter
    BY <1>1, <1>5, SteadyFacts
  <2> QED
    BY <1>3, <1>4, <1>7, <2>1, <2>2, ThreadPasses
<1> QED
  BY <1>3, <1>5, <1>7, <1>8, <1>10, InvNext DEF globals

(* Sleepers made ready.                                                    *)
LEMMA SteadyWake ==
    ASSUME NEW k, NEW M, NEW at, NEW n, NEW c, NEW D, Steady(k, M, at, n, c, D),
           at[Shell] \notin Critical, \A p \in Pids : at[p] \notin Blocking
    PROVE  /\ \E M2 : Steady(WakeSleepers(k), M2, at, n, c, D)
           /\ WakesOrEnds(k.pcb, WakeSleepers(k).pcb)
<1> DEFINE k2 == WakeSleepers(k)
           B == M["blocked"]
           W == DueSleepers(k, B)
           M2 == WithoutSleepers(M, W)
           b2 == Woken(k, B, W)
<1>1. /\ Queued(k, M) /\ k.pcb \in [Pids -> PcbType] /\ M \in [Queues -> SUBSET Pids]
      /\ at \in [Pids -> Labels] /\ n \in 2..MaxPid + 1
      /\ Shell \in Pids /\ Shell \in 1..n - 1
      /\ \A p \in Pids : Placed(k.pcb, M, at, n, p)
      /\ \A p \in Pids : p < n /\ p # Shell => p \in 2..n - 1
      /\ \A p \in 2..n - 1 : p # Shell /\ p < n /\ ProgramFacts(k.pcb, at, p)
      /\ ShellFacts(k.pcb, at, n, c) /\ JobFacts(k.pcb, M, at, n, c, D)
      /\ 2..n - 1 \subseteq Pids
  BY SteadyFacts
<1>2. Queues = {"high", "med", "low", "blocked", "stopped", "zombie"} /\ B \in SUBSET Pids
  BY <1>1 DEF Queues
<1>3. ASSUME NEW p \in B PROVE p \in Pids /\ p < n /\ k.pcb[p].status = "BLOCKED"
  BY <1>1, <1>2 DEF Placed
<1>4. \A p \in B \ {Shell} : p \in 2..n - 1 /\ k.pcb[p].priority = 0
  BY <1>1, <1>3 DEF ProgramFacts
<1>5. k.pcb[Shell].sleep = -1 /\ Shell \notin W
  BY <1>1 DEF ShellFacts, DueSleepers, Ticked
<1>6. Queued(k2, M2) /\ k2.pcb = b2
  BY <1>1, <1>4, <1>5, WakeSleepersCall
<1>7. W \in SUBSET B /\ B = M["blocked"]
  BY DEF DueSleepers
<1>8. /\ M2["blocked"] = M["blocked"] \ W /\ M2["med"] = M["med"] \cup W
       /\ \A q \in Queues \ {"blocked", "med"} : M2[q] = M[q]
  <2> HIDE DEF W
  <2> QED
    BY <1>1, <1>2 DEF WithoutSleepers
<1> HIDE DEF W, M2, k2, B
<1>9. ASSUME NEW p \in Pids
      PROVE  /\ b2[p].ppid = k.pcb[p].ppid /\ b2[p].priority = k.pcb[p].priority
             /\ b2[p].childPids = k.pcb[p].childPids /\ b2[p].bgFlag = k.pcb[p].bgFlag
             /\ b2[p].changedStatus = k.pcb[p].changedStatus
             /\ b2[p].waitChild = k.pcb[p].waitChild
             /\ p \in W => b2[p].status = "RUNNING" /\ b2[p].sleep = Ticked(k, p)
             /\ p \in B \ W => b2[p].status = "BLOCKED" /\ b2[p].sleep = Ticked(k, p)
             /\ p \notin W => b2[p].status = k.pcb[p].status
             /\ p \notin B => b2[p] = k.pcb[p]
  <2> DEFINE t == Ticked(k, p)
             x == k.pcb[p]
  <2>1. /\ p \in W => b2[p] = [x EXCEPT !.sleep = t, !.status = "RUNNING"]
        /\ p \in B \ W => b2[p] = [x EXCEPT !.sleep = t]
        /\ p \notin B => b2[p] = x
    BY <1>7 DEF Woken
  <2>2. x \in PcbType /\ (p \in B => x.status = "BLOCKED")
    BY <1>1, <1>3
  <2> HIDE DEF t, x, b2
  <2>3. CASE p \in W
    BY <1>7, <2>1, <2>2, <2>3 DEF PcbType, t, x
  <2>4. CASE p \in B \ W
    BY <2>1, <2>2, <2>4 DEF PcbType, t, x
  <2>5. CASE p \notin B
    BY <1>7, <2>1, <2>5 DEF x
  <2> QED
    BY <2>3, <2>4, <2>5
<1>10. b2[Shell] = k.pcb[Shell]
  <2> DEFINE x == k.pcb[Shell]
  <2>1. x \in PcbType /\ x.sleep = -1 /\ Ticked(k, Shell) = -1
    BY <1>1, <1>5 DEF Ticked
  <2>2. /\ Shell \in B => b2[Shell] = [x EXCEPT !.sleep = -1]
        /\ Shell \notin B => b2[Shell] = x
    BY <1>1, <1>5, <1>7, <2>1 DEF Woken
  <2>3. [x EXCEPT !.sleep = -1] = x
    BY <2>1 DEF PcbType
  <2> QED
    BY <2>2, <2>3
<1> HIDE DEF b2
<1>11. ASSUME NEW p \in Pids PROVE Placed(b2, M2, at, n, p)
  <2>1. CASE p \in W
    <3>1. p \in B /\ p # Shell /\ p < n /\ at[p] \notin Blocking /\ b2[p].status = "RUNNING"
      BY <1>3, <1>5, <1>7, <1>8, <1>9, <2>1
    <3>2. k.pcb[p].status = "BLOCKED" /\ Placed(k.pcb, M, at, n, p)
      BY <1>1, <1>3, <3>1
    <3> QED
      BY <1>2, <1>7, <1>8, <2>1, <3>1, <3>2 DEF Placed, IsReady
  <2>2. CASE p \notin W
    <3>1. \A q \in Queues : p \in M2[q] <=> p \in M[q]
      BY <1>2, <1>8, <2>2
    <3>2. b2[p].status = k.pcb[p].status /\ b2[p].bgFlag = k.pcb[p].bgFlag
      BY <1>9, <2>2
    <3> QED
      BY <1>1, <1>2, <3>1, <3>2 DEF Placed, IsReady
  <2> QED
    BY <2>1, <2>2
<1>12. ASSUME NEW p \in 2..n - 1 PROVE ProgramFacts(b2, at, p)
  <2>0. p \in Pids /\ ProgramFacts(k.pcb, at, p) /\ k.pcb[p] \in PcbType
    BY <1>1
  <2>1. CASE p \in B
    <3>1. k.pcb[p].status = "BLOCKED" /\ at[p] \in {"sleepYield", "sleepResume"}
      BY <1>3, <2>0, <2>1 DEF ProgramFacts
    <3>2. k.pcb[p].sleep >= 0 /\ k.pcb[p].sleep \in Int
      BY <2>0, <3>1 DEF ProgramFacts, PcbType
    <3>3. Ticked(k, p) \in Int /\ Ticked(k, p) >= 0 /\ (p \in W <=> Ticked(k, p) = 0)
      BY <2>1, <3>1, <3>2 DEF Ticked, W, DueSleepers
    <3>4. /\ b2[p].ppid = Shell /\ b2[p].priority = 0 /\ b2[p].childPids = <<>>
          /\ b2[p].status \in {"RUNNING", "BLOCKED"} /\ b2[p].sleep = Ticked(k, p)
          /\ b2[p].status = "RUNNING" => Ticked(k, p) = 0
      BY <1>9, <2>0, <2>1, <3>3 DEF ProgramFacts
    <3>5. b2[p].sleep \in Int /\ b2[p].sleep >= 0 /\ (b2[p].status = "RUNNING" => b2[p].sleep = 0)
      BY <3>3, <3>4
    <3> QED
      BY <3>1, <3>4, <3>5 DEF ProgramFacts
  <2>2. CASE p \notin B
    BY <1>9, <2>0, <2>2 DEF ProgramFacts
  <2> QED
    BY <2>1, <2>2
<1>13. ShellFacts(b2, at, n, c)
  <2>1. at[Shell] \notin {"nice", "wait", "waitBlock"}
    BY DEF Critical
  <2>2. ASSUME c \in 2..n - 1, ~k.pcb[c].bgFlag, k.pcb[c].status \in {"RUNNING", "BLOCKED"}
        PROVE  ~b2[c].bgFlag /\ b2[c].status \in {"RUNNING", "BLOCKED"}
    BY <1>1, <1>9, <2>2
  <2> QED
    BY <1>1, <1>10, <2>1, <2>2 DEF ShellFacts
<1>14. JobFacts(b2, M2, at, n, c, D)
  <2>1. M2["zombie"] = M["zombie"] /\ at[Shell] # "nice"
    BY <1>2, <1>8 DEF Critical
  <2>2. ASSUME NEW p \in 2..n - 1 PROVE IsJob(b2, M2, p) <=> IsJob(k.pcb, M, p)
    BY <1>1, <1>3, <1>7, <1>9, <2>1 DEF IsJob
  <2> QED
    BY <1>1, <2>1, <2>2, JobsKeep
<1>15. Steady(k2, M2, at, n, c, D)
  <2>1. \A p \in Pids : p >= n => at[p] = "none"
    BY DEF Steady
  <2>2. c \in Pids \cup {NULL}
    BY DEF Steady
  <2> QED
    BY <1>1, <1>6, <1>11, <1>12, <1>13, <1>14, <2>1, <2>2 DEF Steady
<1>16. WakesOrEnds(k.pcb, k2.pcb)
  <2>1. ASSUME NEW p \in Pids
        PROVE  \/ b2[p].status = k.pcb[p].status
               \/ k.pcb[p].status = "BLOCKED" /\ b2[p].status = "RUNNING"
    BY <1>3, <1>7, <1>9
  <2> QED
    BY <1>6, <2>1 DEF WakesOrEnds
<1> QED
  BY <1>15, <1>16 DEF k2

(* SIGALRM.                                                                *)
LEMMA AlarmStep ==
    ASSUME PlainSession, KernelInv, Alarm
    PROVE  KernelInv' /\ PassesThread
<1> DEFINE M == Contents(kern)
           n == pidCounter
           k2 == WakeSleepers(kern)
<1>1. /\ Steady(kern, M, pc, n, curr_pid, DOMAIN jobs)
      /\ Turn(kern, pc, n, activeContext, activeProcess) /\ Globals
  BY DEF KernelInv
<1>2. pc \in [Pids -> Labels] /\ Shell \in Pids
  BY <1>1, SteadyFacts
<1>3. \A p \in Pids : pc[p] \notin Critical
  BY <1>1 DEF Turn, Alarm, InterruptibleAt, PlainSession, Idle, Pids
<1>4. /\ \E M2 : Steady(k2, M2, pc, n, curr_pid, DOMAIN jobs)
      /\ WakesOrEnds(kern.pcb, k2.pcb)
  <2>1. pc[Shell] \notin Critical /\ \A p \in Pids : pc[p] \notin Blocking
    BY <1>2, <1>3 DEF Critical, Blocking
  <2> QED
    BY <1>1, <2>1, SteadyWake
<1>8. PICK M2 : Steady(k2, M2, pc, n, curr_pid, DOMAIN jobs)
  BY <1>4
<1>5. Dispatch(k2) /\ UNCHANGED <<pidCounter, globals, prog, pc>>
  BY DEF Alarm
<1> HIDE DEF k2, M
<1>6. /\ Steady(kern', M2, pc, n, curr_pid, DOMAIN jobs)
      /\ Turn(kern', pc, n, activeContext', activeProcess')
      /\ activeContext' \in Contexts /\ activeProcess' \in Pids /\ listPointer' \in 0..17
      /\ kern'.pcb = k2.pcb
      /\ activeContext' \in Pids => kern'.pcb[activeContext'].status = "RUNNING"
  BY <1>1, <1>3, <1>5, <1>8, SteadyDispatch DEF Globals
<1>7. Globals'
  <2>1. pc[Shell] # "nice"
    BY <1>2, <1>3 DEF Critical
  <2> QED
    BY <1>1, <1>5, <1>6, <2>1, ProgramKeepsGlobals
<1>9. PassesThread
  <2>1. \A x \in Pids : pc[x] \notin Blocking /\ pc'[x] \notin Blocking
    BY <1>3, <1>5 DEF Critical, Blocking
  <2>2. pidCounter \in Int /\ pidCounter' = pidCounter /\ pc' = pc
    BY <1>1, <1>5, SteadyFacts
  <2> QED
    BY <1>4, <1>6, <2>1, <2>2, ThreadPasses
<1> QED
  BY <1>5, <1>6, <1>7, <1>9, InvNext DEF globals

(* A step of the shell alone.                                              *)
LEMMA ShellStepsOn ==
    ASSUME NEW k, NEW M, NEW at, NEW n, NEW c, NEW D, Steady(k, M, at, n, c, D),
           at[Shell] # "nice",
           NEW k2, NEW M2, Queued(k2, M2), NEW at2 \in [Pids -> Labels],
           OnlyIn({Shell}, k, M, at, k2, M2, at2, n),
           Placed(k2.pcb, M2, at2, n, Shell), ShellFacts(k2.pcb, at2, n, c)
    PROVE  Steady(k2, M2, at2, n, c, D)
<1>1. /\ JobFacts(k.pcb, M, at, n, c, D) /\ 2..n - 1 \subseteq Pids
      /\ \A p \in 2..n - 1 : p # Shell
  BY SteadyFacts
<1>2. JobFacts(k2.pcb, M2, at2, n, c, D)
  <2>1. ASSUME NEW p \in 2..n - 1 PROVE IsJob(k2.pcb, M2, p) <=> IsJob(k.pcb, M, p)
    <3>1. Alone(k, M, at, k2, M2, at2, p) /\ "zombie" \in Queues
      BY <1>1 DEF OnlyIn, Queues
    <3> QED
      BY <3>1 DEF Alone, IsJob
  <2> QED
    BY <1>1, <2>1, JobsKeep
<1> QED
  BY <1>2, SteadyStep

(* p_waitpid finds the child, which has not changed status, and takes the  *)
(* shell off its ready queue.                                              *)
LEMMA WaitStep ==
    ASSUME KernelInv, Wait
    PROVE  KernelInv' /\ BlocksLife
<1> DEFINE M == Contents(kern)
           n == pidCounter
           c == curr_pid
           b2 == [kern.pcb EXCEPT ![Shell].waitChild = c]
           k1 == Recorded(kern, b2)
           M2 == Leaves(M, "high", Shell)
           at2 == Moved(pc, Shell, "waitBlock")
<1>0. At(Shell, "wait") /\ "wait" \in ShellLabels
  BY DEF Wait, ShellLabels
<1>1. /\ Steady(kern, M, pc, n, c, DOMAIN jobs)
      /\ Turn(kern, pc, n, Shell, Shell) /\ Globals
      /\ pc[Shell] = "wait" /\ activeContext = Shell /\ activeProcess = Shell
      /\ kern.pcb[Shell].status = "RUNNING"
      /\ Shell \in M["high"] /\ kern.tail["high"] = Shell
  BY <1>0, ShellActs
<1> HIDE DEF M
<1>2. /\ Queued(kern, M) /\ kern.pcb \in [Pids -> PcbType] /\ M \in [Queues -> SUBSET Pids]
      /\ pc \in [Pids -> Labels] /\ Shell \in Pids /\ n \in 2..MaxPid + 1
      /\ ShellFacts(kern.pcb, pc, n, c) /\ \A p \in Pids : Placed(kern.pcb, M, pc, n, p)
      /\ \A p \in 2..n - 1 : p # Shell /\ p < n
      /\ 2..n - 1 \subseteq Pids /\ Shell \in 1..n - 1 /\ kern.fault = "none"
  BY <1>1, SteadyFacts
<1>3. /\ c \in 2..n - 1 /\ c \in Pids /\ c # Shell /\ kern.pcb[c].status = "RUNNING"
      /\ ~kern.pcb[c].changedStatus /\ ~kern.pcb[c].bgFlag
  BY <1>1, <1>2 DEF ShellFacts
<1>4. c \in M["med"] /\ "med" \in Queues
  <2>1. pc[c] \notin Blocking
    BY <1>1, <1>3 DEF Turn, Critical, Blocking
  <2> QED
    BY <1>2, <1>3, <2>1 DEF Placed, IsReady, Queues
<1>5. findProcessByPid(kern, c) = c /\ Search(kern, c) = kern
  BY <1>2, <1>3, <1>4, SearchCall
<1>6. /\ kern' = dequeue([kern EXCEPT !.pcb[Shell].waitChild = c], Shell)
      /\ pc' = at2 /\ UNCHANGED <<jobs, fgpid>> /\ KeepsThread /\ WaitUnchanged
  <2>1. OnProcess(kern, c, kern) = kern /\ ~Faulty(kern)
    BY <1>2, <1>3, OnProcessIs DEF Faulty
  <2> QED
    BY <1>3, <1>5, <2>1 DEF Wait, Goto, Moved
<1>7. /\ b2[Shell] = [kern.pcb[Shell] EXCEPT !.waitChild = c]
      /\ \A p \in Pids \ {Shell} : b2[p] = kern.pcb[p]
      /\ b2 \in [Pids -> PcbType] /\ kern.pcb[Shell] \in PcbType
  <2>1. kern.pcb[Shell] \in PcbType
    BY <1>2
  <2>2. [kern.pcb[Shell] EXCEPT !.waitChild = c] \in PcbType
    BY <1>3, <2>1 DEF PcbType
  <2> QED
    BY <1>2, <2>1, <2>2
<1>8. [kern EXCEPT !.pcb[Shell].waitChild = c] = k1
  BY <1>2 DEF Recorded, Queued, KernType
<1> HIDE DEF b2
<1>9. Queued(k1, M) /\ k1.pcb = b2 /\ k1.tail = kern.tail
  BY <1>2, <1>7, RecordedIs
<1> HIDE DEF k1
<1>10. Queued(kern', M2) /\ kern'.pcb = b2
  <2>1. ReadyQueue(b2[Shell].priority) = "high"
    BY <1>2, <1>7 DEF ShellFacts, ReadyQueue, PcbType
  <2> QED
    BY <1>1, <1>6, <1>8, <1>9, <2>1, DequeueCall DEF After
<1>11. at2 \in [Pids -> Labels] /\ at2[Shell] = "waitBlock"
       /\ \A p \in Pids \ {Shell} : at2[p] = pc[p]
  BY <1>2 DEF Moved, Labels, ShellLabels
<1>12. /\ \A q \in Queues : Shell \notin M2[q]
       /\ \A q \in Queues : \A x \in Pids \ {Shell} : x \in M2[q] <=> x \in M[q]
  <2>1. \A q \in Queues : Shell \notin M2[q]
    BY <1>1, <1>2, LeavesIs DEF Apart, Queues
  <2> QED
    BY <1>2, <2>1 DEF Leaves
<1> HIDE DEF M2, at2
<1>13. /\ b2[Shell].status = "RUNNING" /\ b2[Shell].waitChild = c
       /\ b2[c] = kern.pcb[c]
  BY <1>1, <1>3, <1>7 DEF PcbType
<1>14. ShellFacts(b2, at2, n, c)
  <2>1. /\ b2[Shell].priority = kern.pcb[Shell].priority /\ b2[Shell].sleep = kern.pcb[Shell].sleep
        /\ b2[Shell].bgFlag = kern.pcb[Shell].bgFlag
        /\ b2[Shell].childPids = kern.pcb[Shell].childPids
    BY <1>7 DEF PcbType
  <2> QED
    BY <1>2, <1>3, <1>11, <1>13, <2>1 DEF ShellFacts, ShellLabels
<1>15. Placed(b2, M2, at2, n, Shell)
  BY <1>11, <1>12, <1>13 DEF Placed, IsReady, Blocking, Queues
<1>16. OnlyIn({Shell}, kern, M, pc, kern', M2, at2, n)
  BY <1>2, <1>7, <1>10, <1>11, <1>12 DEF OnlyIn, Alone, Started
<1>17. Steady(kern', M2, at2, n, c, DOMAIN jobs)
  BY <1>1, <1>10, <1>11, <1>14, <1>15, <1>16, ShellStepsOn
<1>18. Turn(kern', at2, n, Shell, Shell)
  BY <1>1, <1>2, <1>10, <1>11, <1>13 DEF Turn, Blocking
<1>19. Globals'
  <2>1. \A p \in Pids : pc'[p] = "user" => pc[p] = "user"
    BY <1>1, <1>6, <1>11
  <2>2. pc'[Shell] # "nice"
    BY <1>6, <1>11
  <2> QED
    BY <1>1, <1>6, <2>1, <2>2 DEF Globals, KeepsThread, WaitUnchanged
<1>20. BlocksLife
  <2>1. Shell < n /\ n \in Int /\ pidCounter' = pidCounter
    BY <1>2, <1>6 DEF WaitUnchanged
  <2>2. pc[Shell] \notin Blocking /\ pc'[Shell] \in Blocking
    BY <1>1, <1>6, <1>11 DEF Blocking
  <2>3. \A x \in Pids \ {Shell} : kern'.pcb[x].status = kern.pcb[x].status /\ pc'[x] = pc[x]
    BY <1>6, <1>7, <1>10, <1>11
  <2> QED
    BY <1>1, <1>2, <1>6, <1>10, <1>13, <2>1, <2>2, <2>3, LifeBlocks
<1> QED
  BY <1>1, <1>6, <1>17, <1>18, <1>19, <1>20, InvNext DEF KeepsThread, WaitUnchanged

(* It enters the blocked queue.                                            *)
LEMMA WaitBlockStep ==
    ASSUME KernelInv, WaitBlock
    PROVE  KernelInv' /\ KeepsLives
<1> DEFINE M == Contents(kern)
           n == pidCounter
           c == curr_pid
           b2 == Blocked(kern.pcb, Shell)
           M2 == Joins(M, "blocked", Shell)
           at2 == Moved(pc, Shell, "waitYield")
<1>0. At(Shell, "waitBlock") /\ "waitBlock" \in ShellLabels
  BY DEF WaitBlock, ShellLabels
<1>1. /\ Steady(kern, M, pc, n, c, DOMAIN jobs)
      /\ Turn(kern, pc, n, Shell, Shell) /\ Globals
      /\ pc[Shell] = "waitBlock" /\ activeContext = Shell /\ activeProcess = Shell
      /\ kern.pcb[Shell].status = "RUNNING" /\ Apart(M, Shell)
  BY <1>0, ShellActs
<1> HIDE DEF M
<1>2. /\ Queued(kern, M) /\ kern.pcb \in [Pids -> PcbType] /\ M \in [Queues -> SUBSET Pids]
      /\ pc \in [Pids -> Labels] /\ Shell \in Pids /\ n \in 2..MaxPid + 1
      /\ ShellFacts(kern.pcb, pc, n, c) /\ Shell \in 1..n - 1 /\ Shell < n
      /\ c \in 2..n - 1 => c # Shell /\ c \in Pids
  BY <1>1, SteadyFacts
<1>3. /\ kern.pcb[Shell] \in PcbType
      /\ b2[Shell] = [kern.pcb[Shell] EXCEPT !.status = "BLOCKED", !.changedStatus = TRUE]
      /\ \A p \in Pids \ {Shell} : b2[p] = kern.pcb[p]
  BY <1>2 DEF Blocked
<1>4. Queued(kern', M2) /\ kern'.pcb = b2
  BY <1>1, <1>2, EnqueueBlockedCall DEF WaitBlock, After
<1>5. pc' = at2 /\ at2 \in [Pids -> Labels] /\ at2[Shell] = "waitYield"
      /\ \A p \in Pids \ {Shell} : at2[p] = pc[p]
  BY <1>2 DEF WaitBlock, Goto, Moved, Labels, ShellLabels
<1>6. /\ \A q \in Queues : Shell \in M2[q] <=> q = "blocked"
      /\ \A q \in Queues : \A p \in Pids \ {Shell} : p \in M2[q] <=> p \in M[q]
  BY <1>1, <1>2 DEF Joins, Apart
<1> HIDE DEF M2, at2, b2
<1>7. /\ b2[Shell].status = "BLOCKED" /\ b2[Shell].waitChild = kern.pcb[Shell].waitChild
      /\ b2[Shell].priority = kern.pcb[Shell].priority /\ b2[Shell].sleep = kern.pcb[Shell].sleep
      /\ b2[Shell].bgFlag = kern.pcb[Shell].bgFlag
      /\ b2[Shell].childPids = kern.pcb[Shell].childPids
  BY <1>3 DEF PcbType
<1>8. ShellFacts(b2, at2, n, c)
  BY <1>1, <1>2, <1>3, <1>5, <1>7 DEF ShellFacts, ShellLabels
<1>9. Placed(b2, M2, at2, n, Shell)
  BY <1>2, <1>5, <1>6, <1>7 DEF Placed, IsReady, Queues
<1>10. OnlyIn({Shell}, kern, M, pc, kern', M2, at2, n)
  BY <1>2, <1>3, <1>4, <1>5, <1>6 DEF OnlyIn, Alone, Started
<1>11. Steady(kern', M2, at2, n, c, DOMAIN jobs)
  BY <1>1, <1>4, <1>5, <1>8, <1>9, <1>10, ShellStepsOn
<1>12. Turn(kern', at2, n, Shell, Shell)
  <2>1. \A p \in Pids : at2[p] \notin Critical
    BY <1>1, <1>5 DEF Turn, Critical
  <2> QED
    BY <1>2, <1>4, <1>5, <1>7, <2>1 DEF Turn
<1>13. UNCHANGED <<jobs, fgpid>> /\ KeepsThread /\ WaitUnchanged
  BY DEF WaitBlock
<1>14. Globals'
  <2>1. \A p \in Pids : pc'[p] = "user" => pc[p] = "user"
    BY <1>5
  <2>2. pc'[Shell] # "nice"
    BY <1>5
  <2> QED
    BY <1>1, <1>13, <2>1, <2>2 DEF Globals, KeepsThread, WaitUnchanged
<1>15. KeepsLives
  <2>1. \A x \in Pids \ {Shell} : kern'.pcb[x].status = kern.pcb[x].status /\ pc'[x] = pc[x]
    BY <1>3, <1>4, <1>5 DEF b2
  <2>2. /\ ~IsReady(kern'.pcb, pc', n, Shell) /\ ~IsReady(kern.pcb, pc, n, Shell)
        /\ kern'.pcb[Shell].status # "TERMINATED"
    BY <1>1, <1>4, <1>7 DEF IsReady, Blocking
  <2> QED
    BY <1>1, <1>2, <1>13, <2>1, <2>2, LivesStay DEF WaitUnchanged
<1> QED
  BY <1>1, <1>5, <1>11, <1>12, <1>13, <1>14, <1>15, InvNext DEF KeepsThread, WaitUnchanged

(* It gives the thread up.                                                 *)
LEMMA WaitYieldStep ==
    ASSUME KernelInv, WaitYield
    PROVE  KernelInv' /\ PassesThread
<1> DEFINE M == Contents(kern)
           n == pidCounter
           c == curr_pid
           at2 == Moved(pc, Shell, "waitResume")
<1>1. /\ Steady(kern, M, pc, n, c, DOMAIN jobs)
      /\ Turn(kern, pc, n, Shell, activeProcess) /\ Globals
      /\ pc[Shell] = "waitYield" /\ activeContext = Shell
  BY DEF WaitYield, At, KernelInv
<1> HIDE DEF M
<1>2. /\ Queued(kern, M) /\ pc \in [Pids -> Labels] /\ Shell \in Pids /\ n \in 2..MaxPid + 1
      /\ ShellFacts(kern.pcb, pc, n, c) /\ Placed(kern.pcb, M, pc, n, Shell)
      /\ Shell \in 1..n - 1
  BY <1>1, SteadyFacts
<1>3. pc' = at2 /\ at2 \in [Pids -> Labels] /\ at2[Shell] = "waitResume"
      /\ \A p \in Pids \ {Shell} : at2[p] = pc[p]
  BY <1>2 DEF WaitYield, Goto, Moved, Labels, ShellLabels
<1> HIDE DEF at2
<1>4. ShellFacts(kern.pcb, at2, n, c) /\ Placed(kern.pcb, M, at2, n, Shell)
  BY <1>1, <1>2, <1>3 DEF ShellFacts, ShellLabels, Placed, IsReady, Blocking
<1>5. OnlyIn({Shell}, kern, M, pc, kern, M, at2, n)
  BY <1>2, <1>3 DEF OnlyIn, Alone, Started
<1>6. Steady(kern, M, at2, n, c, DOMAIN jobs)
  BY <1>1, <1>2, <1>3, <1>4, <1>5, ShellStepsOn
<1>7. \A p \in Pids : at2[p] \notin Critical
  BY <1>1, <1>3 DEF Turn, Critical
<1>8. Dispatch(kern) /\ UNCHANGED <<jobs, fgpid>> /\ WaitUnchanged
  BY DEF WaitYield
<1>9. /\ Steady(kern', M, at2, n, c, DOMAIN jobs)
      /\ Turn(kern', at2, n, activeContext', activeProcess')
      /\ activeContext' \in Contexts /\ activeProcess' \in Pids /\ listPointer' \in 0..17
      /\ kern'.pcb = kern.pcb
      /\ activeContext' \in Pids => kern'.pcb[activeContext'].status = "RUNNING"
  BY <1>1, <1>6, <1>7, <1>8, SteadyDispatch DEF Globals
<1>10. Globals'
  <2>1. \A p \in Pids : pc'[p] = "user" => pc[p] = "user"
    BY <1>3
  <2>2. pc'[Shell] # "nice"
    BY <1>3
  <2> QED
    BY <1>1, <1>8, <1>9, <2>1, <2>2 DEF Globals, WaitUnchanged
<1>11. PassesThread
  <2>1. \A x \in Pids : pc[x] \notin Blocking /\ pc'[x] \notin Blocking
    BY <1>1, <1>3, <1>7 DEF Critical, Blocking
  <2> QED
    BY <1>2, <1>3, <1>8, <1>9, <2>1, ThreadPasses DEF WakesOrEnds, WaitUnchanged
<1> QED
  BY <1>3, <1>8, <1>9, <1>10, <1>11, InvNext DEF WaitUnchanged

(* Control blocks alike but for whether a change of status has been asked  *)
(* about and which children have been waited for.                          *)
Alike(x, y) ==
    /\ x \in PcbType /\ y \in PcbType
    /\ y.ppid = x.ppid /\ y.status = x.status /\ y.bgFlag = x.bgFlag
    /\ y.priority = x.priority /\ y.sleep = x.sleep /\ y.waitChild = x.waitChild
    /\ Len(y.childPids) = Len(x.childPids)

(* The zombies Z gone.                                                     *)
WithoutZombies(M, Z) == [M EXCEPT !["zombie"] = M["zombie"] \ Z]

(* The shell asks about a child; zombies may be reaped.                    *)
LEMMA SteadyTold ==
    ASSUME NEW k, NEW M, NEW at, NEW n, NEW c, NEW D, Steady(k, M, at, n, c, D),
           at[Shell] \notin {"nice", "wait"}, NEW Z \in SUBSET M["zombie"],
           NEW k2, Queued(k2, WithoutZombies(M, Z)),
           \A p \in Pids : Alike(k.pcb[p], k2.pcb[p])
    PROVE  Steady(k2, WithoutZombies(M, Z), at, n, c, D \ Z)
<1> DEFINE M2 == WithoutZombies(M, Z)
           b2 == k2.pcb
<1>1. /\ M \in [Queues -> SUBSET Pids]
      /\ at \in [Pids -> Labels] /\ n \in 2..MaxPid + 1 /\ c \in Pids \cup {NULL}
      /\ Shell \in Pids
      /\ \A p \in Pids : Placed(k.pcb, M, at, n, p)
      /\ \A p \in 2..n - 1 : ProgramFacts(k.pcb, at, p)
      /\ ShellFacts(k.pcb, at, n, c) /\ JobFacts(k.pcb, M, at, n, c, D)
      /\ 2..n - 1 \subseteq Pids
  BY SteadyFacts
<1>2. /\ Queues = {"high", "med", "low", "blocked", "stopped", "zombie"}
      /\ M2["zombie"] = M["zombie"] \ Z
      /\ \A q \in Queues \ {"zombie"} : M2[q] = M[q]
  BY <1>1 DEF WithoutZombies, Queues
<1> HIDE DEF M2, b2
<1>3. \A p \in Pids : Alike(k.pcb[p], b2[p])
  BY DEF b2
<1>4. ASSUME NEW p \in Pids PROVE Placed(b2, M2, at, n, p)
  <2>1. Placed(k.pcb, M, at, n, p) /\ Alike(k.pcb[p], b2[p])
    BY <1>1, <1>3
  <2> QED
    BY <1>2, <2>1 DEF Placed, IsReady, Alike
<1>5. ASSUME NEW p \in 2..n - 1 PROVE ProgramFacts(b2, at, p)
  <2>1. ProgramFacts(k.pcb, at, p) /\ Alike(k.pcb[p], b2[p])
    BY <1>1, <1>3
  <2>2. b2[p].childPids = <<>>
    <3>1. Len(b2[p].childPids) = 0 /\ b2[p].childPids \in Seq(Pids \cup {Reaped})
      BY <2>1 DEF ProgramFacts, Alike, PcbType
    <3> QED
      BY <3>1, EmptySeq
  <2> QED
    BY <2>1, <2>2 DEF ProgramFacts, Alike
<1>6. ShellFacts(b2, at, n, c)
  <2>1. Alike(k.pcb[Shell], b2[Shell]) /\ (c \in 2..n - 1 => Alike(k.pcb[c], b2[c]))
    BY <1>1, <1>3
  <2> QED
    BY <1>1, <2>1 DEF ShellFacts, Alike
<1>7. JobFacts(b2, M2, at, n, c, D \ Z)
  <2>1. ASSUME NEW p \in 2..n - 1
        PROVE  IsJob(b2, M2, p) <=> IsJob(k.pcb, M, p) /\ p \notin Z
    <3>1. Alike(k.pcb[p], b2[p]) /\ Placed(k.pcb, M, at, n, p)
      BY <1>1, <1>3
    <3> QED
      BY <1>2, <3>1 DEF Alike, Placed, IsJob
  <2> QED
    BY <1>1, <2>1 DEF JobFacts
<1>8. \A p \in Pids : p >= n => at[p] = "none"
  BY DEF Steady
<1> QED
  BY <1>1, <1>4, <1>5, <1>6, <1>7, <1>8 DEF Steady, M2, b2

(* A child that has been waited for is crossed out.                        *)
LEMMA ForgetIs ==
    ASSUME NEW k, k \in KernType, NEW p \in Pids, NEW z
    PROVE  \E b2 \in [Pids -> PcbType] :
               /\ Forget(k, p, z) = Recorded(k, b2)
               /\ \A x \in Pids : Alike(k.pcb[x], b2[x])
<1> DEFINE kids == k.pcb[p].childPids
           mine == {i \in DOMAIN kids : kids[i] = z}
<1>1. k.pcb \in [Pids -> PcbType] /\ k.pcb[p] \in PcbType /\ kids \in Seq(Pids \cup {Reaped})
  BY KernParts DEF PcbType
<1>2. CASE mine = {}
  <2>1. Forget(k, p, z) = k
    BY <1>2 DEF Forget
  <2>2. k = Recorded(k, k.pcb)
    BY DEF Recorded, KernType
  <2>3. \A x \in Pids : Alike(k.pcb[x], k.pcb[x])
    BY <1>1 DEF Alike
  <2> QED
    BY <1>1, <2>1, <2>2, <2>3
<1>3. CASE mine # {}
  <2> DEFINE i == Min(mine)
             kids2 == [kids EXCEPT ![i] = Reaped]
             b2 == [k.pcb EXCEPT ![p].childPids = kids2]
  <2>1. DOMAIN kids = 1..Len(kids) /\ Len(kids) \in Nat
    BY <1>1
  <2>2. kids2 \in Seq(Pids \cup {Reaped}) /\ Len(kids2) = Len(kids)
    <3> HIDE DEF i, kids
    <3>1. DOMAIN kids2 = DOMAIN kids /\ \A j \in 1..Len(kids) : kids2[j] \in Pids \cup {Reaped}
      BY <1>1, <2>1
    <3>2. kids2 = [j \in 1..Len(kids) |-> kids2[j]]
      BY <2>1
    <3> HIDE DEF kids2
    <3>3. kids2 \in [1..Len(kids) -> Pids \cup {Reaped}]
      BY <2>1, <3>1, <3>2
    <3> QED
      BY <2>1, <3>3
  <2>3. Forget(k, p, z) = [k EXCEPT !.pcb[p].childPids[i] = Reaped]
    BY <1>3 DEF Forget
  <2>4. /\ b2[p] = [k.pcb[p] EXCEPT !.childPids = kids2] /\ \A x \in Pids \ {p} : b2[x] = k.pcb[x]
        /\ b2 = [x \in Pids |-> b2[x]]
    BY <1>1
  <2>5. Forget(k, p, z) = Recorded(k, b2)
    BY <1>1, <2>3 DEF Recorded, KernType
  <2> HIDE DEF kids2, b2
  <2>6. b2[p] \in PcbType /\ Alike(k.pcb[p], b2[p])
    BY <1>1, <2>2, <2>4 DEF PcbType, Alike
  <2>7. b2 \in [Pids -> PcbType] /\ \A x \in Pids : Alike(k.pcb[x], b2[x])
    <3>2. ASSUME NEW x \in Pids PROVE b2[x] \in PcbType /\ Alike(k.pcb[x], b2[x])
      BY <1>1, <2>4, <2>6 DEF Alike
    <3> QED
      BY <2>4, <3>2
  <2> QED
    BY <2>5, <2>7
<1> QED
  BY <1>2, <1>3

(* A child that is asked about has been told of.                           *)
LEMMA ToldIs ==
    ASSUME NEW k, k \in KernType, NEW p \in Pids
    PROVE  /\ [k EXCEPT !.pcb[p].changedStatus = FALSE] = Recorded(k, Told(k.pcb, p))
           /\ Told(k.pcb, p) \in [Pids -> PcbType]
           /\ \A x \in Pids : Alike(k.pcb[x], Told(k.pcb, p)[x])
<1> DEFINE b2 == Told(k.pcb, p)
<1>1. k.pcb \in [Pids -> PcbType] /\ k.pcb[p] \in PcbType
  BY KernParts
<1>2. [k EXCEPT !.pcb[p].changedStatus = FALSE] = Recorded(k, b2)
  BY <1>1 DEF Recorded, Told, KernType
<1>3. b2 \in [Pids -> PcbType]
  BY <1>1, BlockTypes
<1>4. b2[p] = [k.pcb[p] EXCEPT !.changedStatus = FALSE] /\ \A x \in Pids \ {p} : b2[x] = k.pcb[x]
  BY <1>1 DEF Told
<1> HIDE DEF b2
<1>5. Alike(k.pcb[p], b2[p])
  BY <1>1, <1>3, <1>4 DEF Alike, PcbType
<1>6. \A x \in Pids : Alike(k.pcb[x], b2[x])
  BY <1>1, <1>3, <1>4, <1>5 DEF Alike
<1> QED
  BY <1>2, <1>3, <1>6 DEF b2

(* Scheduled again, the shell asks about the child and prompts.            *)
LEMMA WaitResumeStep ==
    ASSUME KernelInv, WaitResume
    PROVE  KernelInv' /\ KeepsLives
<1> DEFINE M == Contents(kern)
           n == pidCounter
           c == curr_pid
           D == DOMAIN jobs
<1>0. At(Shell, "waitResume") /\ "waitResume" \in ShellLabels
  BY DEF WaitResume, ShellLabels
<1>1. /\ Steady(kern, M, pc, n, c, D)
      /\ Turn(kern, pc, n, Shell, Shell) /\ Globals
      /\ pc[Shell] = "waitResume" /\ activeContext = Shell /\ activeProcess = Shell
      /\ kern.pcb[Shell].status = "RUNNING" /\ kern.tail["high"] = Shell
  BY <1>0, ShellActs
<1> HIDE DEF M
<1>2. /\ Queued(kern, M) /\ kern \in KernType /\ kern.pcb \in [Pids -> PcbType]
      /\ M \in [Queues -> SUBSET Pids]
      /\ pc \in [Pids -> Labels] /\ Shell \in Pids /\ n \in 2..MaxPid + 1
      /\ ShellFacts(kern.pcb, pc, n, c)
      /\ \A p \in 2..n - 1 : ProgramFacts(kern.pcb, pc, p)
      /\ 2..n - 1 \subseteq Pids
  BY <1>1, SteadyFacts
<1>3. c \in 2..n - 1 /\ c \in Pids /\ kern.pcb[c].status \in {"RUNNING", "BLOCKED", "TERMINATED"}
  BY <1>1, <1>2 DEF ShellFacts, ProgramFacts
<1>4. /\ jobs' = jobs /\ fgpid' = 1 /\ pc' = Moved(pc, Shell, "read") /\ "read" \in Prompt
      /\ KeepsThread /\ WaitUnchanged
  BY <1>3 DEF WaitResume, AfterWait, Goto, Moved, Prompt
<1>5. \E b2 \in [Pids -> PcbType] : /\ kern' = Recorded(kern, b2)
                                    /\ \A x \in Pids : Alike(kern.pcb[x], b2[x])
  <2>1. CASE kern.pcb[c].changedStatus
    <3> DEFINE b1 == Told(kern.pcb, c)
               k1 == Recorded(kern, b1)
    <3>1. /\ [kern EXCEPT !.pcb[c].changedStatus = FALSE] = k1
          /\ b1 \in [Pids -> PcbType] /\ \A x \in Pids : Alike(kern.pcb[x], b1[x])
      BY <1>2, <1>3, ToldIs
    <3>2. kern' = Forget(k1, Shell, c)
      BY <1>3, <2>1, <3>1 DEF WaitResume, Collect
    <3> HIDE DEF b1
    <3>3. k1 \in KernType /\ k1.pcb = b1
      BY <1>2, <3>1, RecordedIs DEF Queued
    <3> HIDE DEF k1
    <3>4. PICK b2 \in [Pids -> PcbType] : /\ kern' = Recorded(k1, b2)
                                          /\ \A x \in Pids : Alike(b1[x], b2[x])
      BY <1>2, <3>2, <3>3, ForgetIs
    <3>5. Recorded(k1, b2) = Recorded(kern, b2)
      BY <1>2 DEF k1, Recorded, KernType
    <3>6. \A x \in Pids : Alike(kern.pcb[x], b2[x])
      BY <3>1, <3>4 DEF Alike
    <3> QED
      BY <3>4, <3>5, <3>6
  <2>2. CASE ~kern.pcb[c].changedStatus
    <3>1. kern' = kern
      BY <2>2 DEF WaitResume
    <3>2. kern = Recorded(kern, kern.pcb)
      BY <1>2 DEF Recorded, KernType
    <3>3. \A x \in Pids : Alike(kern.pcb[x], kern.pcb[x])
      BY <1>2 DEF Alike
    <3> QED
      BY <1>2, <3>1, <3>2, <3>3
  <2> QED
    BY <2>1, <2>2
<1>6. PICK b2 \in [Pids -> PcbType] : /\ kern' = Recorded(kern, b2)
                                      /\ \A x \in Pids : Alike(kern.pcb[x], b2[x])
  BY <1>5
<1>7. /\ Queued(kern', M) /\ kern'.pcb = b2 /\ kern'.tail = kern.tail
      /\ kern'.pcb[Shell].status = "RUNNING"
  BY <1>1, <1>2, <1>6, RecordedIs DEF Alike
<1>8. Steady(kern', M, pc, n, c, D)
  <2>1. WithoutZombies(M, {}) = M /\ D \ {} = D
    BY <1>2 DEF WithoutZombies, Queues
  <2>2. {} \in SUBSET M["zombie"] /\ \A x \in Pids : Alike(kern.pcb[x], kern'.pcb[x])
    BY <1>6, <1>7
  <2> HIDE DEF D
  <2>3. Steady(kern', WithoutZombies(M, {}), pc, n, c, D \ {})
    BY <1>1, <1>7, <2>1, <2>2, SteadyTold
  <2> QED
    BY <2>1, <2>3
<1>9. Steady(kern', M, Moved(pc, Shell, "read"), n, c, D)
  <2>1. JobsStay(kern', pc, c, D, D) /\ pc[Shell] \notin Blocking
    BY <1>1 DEF JobsStay, Blocking
  <2> QED
    BY <1>4, <1>7, <1>8, <2>1, ShellMoves
<1>10. Turn(kern', Moved(pc, Shell, "read"), n, Shell, Shell)
  BY <1>1, <1>2, <1>4, <1>7, ShellKeepsTurn
<1>11. Globals'
  <2>1. pc'[Shell] = "read" /\ \A p \in Pids : pc'[p] = "user" => pc[p] = "user"
    BY <1>2, <1>4 DEF Moved
  <2>2. fgpid' \in Pids
    BY <1>2, <1>4 DEF Shell
  <2> QED
    BY <1>1, <1>4, <2>1, <2>2 DEF Globals, KeepsThread, WaitUnchanged
<1>12. KeepsLives
  <2>1. \A x \in Pids \ {Shell} : kern'.pcb[x].status = kern.pcb[x].status /\ pc'[x] = pc[x]
    BY <1>2, <1>4, <1>6, <1>7 DEF Alike, Moved
  <2>2. pc[Shell] \notin Blocking /\ pc'[Shell] \notin Blocking
    BY <1>1, <1>2, <1>4 DEF Blocking, Moved
  <2>3. IsReady(kern'.pcb, pc', n, Shell) <=> IsReady(kern.pcb, pc, n, Shell)
    BY <1>1, <1>7, <2>2 DEF IsReady
  <2> QED
    BY <1>1, <1>2, <1>4, <1>7, <2>1, <2>3, LivesStay DEF WaitUnchanged
<1> QED
  BY <1>1, <1>4, <1>9, <1>10, <1>11, <1>12, InvNext DEF KeepsThread, WaitUnchanged

(* The shell's poll reaps a zombie, which is a job.                        *)
LEMMA PollStep ==
    ASSUME KernelInv, Poll
    PROVE  KernelInv' /\ KeepsLives
<1> DEFINE M == Contents(kern)
           n == pidCounter
           c == curr_pid
           D == DOMAIN jobs
<1>0. At(Shell, "poll") /\ "poll" \in ShellLabels \ {"waitYield", "waitBlock"}
  BY DEF Poll, ShellLabels
<1>1. /\ Steady(kern, M, pc, n, c, D)
      /\ Turn(kern, pc, n, Shell, Shell) /\ Globals
      /\ pc[Shell] = "poll" /\ activeContext = Shell /\ activeProcess = Shell
      /\ kern.pcb[Shell].status = "RUNNING" /\ kern.tail["high"] = Shell
  BY <1>0, ShellActs
<1>2. /\ Queued(kern, M) /\ kern \in KernType /\ kern.pcb \in [Pids -> PcbType]
      /\ M \in [Queues -> SUBSET Pids]
      /\ pc \in [Pids -> Labels] /\ Shell \in Pids /\ n \in 2..MaxPid + 1
      /\ \A p \in Pids : Placed(kern.pcb, M, pc, n, p)
      /\ \A p \in Pids : p < n /\ p # Shell => p \in 2..n - 1
      /\ ShellFacts(kern.pcb, pc, n, c) /\ JobFacts(kern.pcb, M, pc, n, c, D)
  BY <1>1, SteadyFacts
<1>3. /\ KeepsThread /\ pidCounter' = pidCounter /\ curr_pid' = curr_pid
      /\ UNCHANGED <<fgpid, IS_BG, retFlag, flag_spaces, cmd, prog>>
  BY DEF Poll
<1>4. CASE D = {} \/ kern.head["zombie"] = NULL
  <2>1. kern' = kern /\ jobs' = jobs /\ pc' = Moved(pc, Shell, "exec") /\ "exec" \in Prompt
    BY <1>4 DEF Poll, Goto, Moved, Prompt
  <2>2. JobsStay(kern, pc, c, D, DOMAIN jobs')
    BY <1>1, <2>1 DEF JobsStay
  <2>3. Globals'
    <3>1. pc'[Shell] = "exec" /\ \A p \in Pids : pc'[p] = "user" => pc[p] = "user"
      BY <1>2, <2>1 DEF Moved
    <3> QED
      BY <1>1, <1>3, <2>1, <3>1 DEF Globals, KeepsThread
  <2> QED
    BY <1>0, <1>3, <2>1, <2>2, <2>3, PromptStep
<1>5. CASE ~(D = {} \/ kern.head["zombie"] = NULL)
  <2> DEFINE z == kern.head["zombie"]
             b1 == Told(kern.pcb, z)
             k1 == Recorded(kern, b1)
             k2 == dequeueZombie(k1, z)
             M2 == WithoutZombies(M, {z})
  <2> HIDE DEF M
  <2>1. "zombie" \in Queues /\ z \in M["zombie"] /\ z \in Pids
    <3>1. "zombie" \in Queues
      BY DEF Queues
    <3>2. Lists(kern.head["zombie"], kern.tail["zombie"], kern.next, M["zombie"])
      BY <1>2, <3>1 DEF Queued
    <3>3. z \in M["zombie"]
      BY <1>2, <1>5, <3>1, <3>2, ListEnds
    <3> QED
      BY <1>2, <3>1, <3>3
  <2> HIDE DEF z
  <2>2. /\ kern.pcb[z].status = "TERMINATED" /\ kern.pcb[z].bgFlag /\ z < n
    BY <1>2, <2>1 DEF Placed
  <2>3. z \in 2..n - 1
    BY <1>2, <2>1, <2>2 DEF ShellFacts
  <2>4. z \in D
    BY <1>1, <1>2, <2>1, <2>2, <2>3 DEF JobFacts, IsJob
  <2>5. jobs[z] = "RUNNING"
    BY <1>1, <2>4 DEF Globals
  <2>6. /\ [kern EXCEPT !.pcb[z].changedStatus = FALSE] = k1
        /\ b1 \in [Pids -> PcbType] /\ \A x \in Pids : Alike(kern.pcb[x], b1[x])
    BY <1>2, <2>1, ToldIs
  <2>7. /\ kern' = Forget(k2, Shell, z) /\ pc' = pc
        /\ jobs' = [p \in D \ {z} |-> jobs[p]]
    BY <1>5, <2>2, <2>4, <2>5, <2>6 DEF Poll, ReapZombie, Ended, z
  <2> HIDE DEF b1
  <2>8. Queued(k1, M) /\ k1.pcb = b1 /\ k1.tail = kern.tail
    BY <1>2, <2>6, RecordedIs
  <2> HIDE DEF k1
  <2>9. Queued(k2, M2) /\ k2.pcb = b1 /\ k2.tail["high"] = Shell
    <3>1. After(k1, k2, Leaves(M, "zombie", z), b1, "zombie")
      BY <2>1, <2>8, UnlinkKeepingRestIs DEF dequeueZombie
    <3>2. Leaves(M, "zombie", z) = M2 /\ "high" \in Queues \ {"zombie"}
      BY DEF Leaves, WithoutZombies, Queues
    <3> QED
      BY <1>1, <2>8, <3>1, <3>2 DEF After, SameTails
  <2> HIDE DEF k2
  <2>10. PICK b2 \in [Pids -> PcbType] : /\ kern' = Recorded(k2, b2)
                                         /\ \A x \in Pids : Alike(b1[x], b2[x])
    BY <1>2, <2>7, <2>9, ForgetIs DEF Queued
  <2>11. /\ Queued(kern', M2) /\ kern'.pcb = b2 /\ kern'.tail["high"] = Shell
    BY <2>9, <2>10, RecordedIs
  <2>12. \A x \in Pids : Alike(kern.pcb[x], kern'.pcb[x])
    BY <2>6, <2>10, <2>11 DEF Alike
  <2>13. Steady(kern', M2, pc, n, c, D \ {z})
    <3>1. {z} \in SUBSET M["zombie"]
      BY <2>1
    <3> HIDE DEF D
    <3> QED
      BY <1>1, <2>11, <2>12, <3>1, SteadyTold
  <2>14. DOMAIN jobs' = D \ {z} /\ \A j \in DOMAIN jobs' : jobs'[j] = jobs[j]
    BY <2>7
  <2>15. Turn(kern', pc, n, Shell, Shell)
    <3>1. kern'.pcb[Shell].status = "RUNNING" /\ OwnQueue(Shell) = "high"
      BY <1>1, <1>2, <2>12 DEF Alike, OwnQueue
    <3> QED
      BY <1>1, <1>2, <2>11, <3>1 DEF Turn
  <2>16. Globals'
    BY <1>1, <1>3, <2>7, <2>14 DEF Globals, KeepsThread
  <2>17. KeepsLives
    <3>1. \A x \in Pids : kern'.pcb[x].status = kern.pcb[x].status /\ pc'[x] = pc[x]
      BY <2>7, <2>12 DEF Alike
    <3>2. IsReady(kern'.pcb, pc', n, Shell) <=> IsReady(kern.pcb, pc, n, Shell)
      BY <1>2, <3>1 DEF IsReady
    <3>3. kern.pcb[Shell].status # "TERMINATED" /\ kern'.pcb[Shell].status # "TERMINATED"
      BY <1>1, <1>2, <3>1
    <3> QED
      BY <1>2, <1>3, <3>1, <3>2, <3>3, LivesStay
  <2> QED
    BY <1>1, <1>3, <2>7, <2>13, <2>14, <2>15, <2>16, <2>17, InvNext DEF KeepsThread
<1> QED
  BY <1>4, <1>5

(* What a spawn by the shell leaves of k: the new process n is ready, and  *)
(* one more child of the shell.                                            *)
Spawns(k, k2, M, n, bg) ==
    /\ Queued(k2, Joins(M, "med", n)) /\ Apart(M, n)
    /\ k2.tail["high"] = k.tail["high"]
    /\ k2.pcb[n] = createPcb(Shell, 0, bg)
    /\ k2.pcb[Shell] = [k.pcb[Shell] EXCEPT !.childPids = Append(k.pcb[Shell].childPids, n)]
    /\ \A p \in Pids \ {n, Shell} : k2.pcb[p] = k.pcb[p]

(* p_spawn by the shell.                                                   *)
LEMMA SpawnCall ==
    ASSUME NEW k, NEW M, NEW at, NEW n, NEW c, NEW D, Steady(k, M, at, n, c, D),
           n \in Pids, MaxPid <= ChildPidSlots + 1, NEW bg \in BOOLEAN
    PROVE  Spawns(k, p_spawn(k, Shell, n, bg), M, n, bg)
<1> DEFINE kids == Append(k.pcb[Shell].childPids, n)
           new == createPcb(Shell, 0, bg)
           parent == [k.pcb[Shell] EXCEPT !.childPids = kids]
           b1 == [k.pcb EXCEPT ![n] = new, ![Shell] = parent]
           k1 == Recorded(k, b1)
           k2 == p_spawn(k, Shell, n, bg)
<1>1. /\ Queued(k, M) /\ k \in KernType /\ k.pcb \in [Pids -> PcbType]
      /\ M \in [Queues -> SUBSET Pids] /\ n \in 2..MaxPid + 1
      /\ Shell \in Pids /\ ShellFacts(k.pcb, at, n, c) /\ Placed(k.pcb, M, at, n, n)
      /\ M["stopped"] = {} /\ n \in Int /\ n # Shell
  BY SteadyFacts DEF Shell
<1>2. Apart(M, n)
  <2>1. ~(n < n)
    BY <1>1
  <2> QED
    BY <1>1, <2>1 DEF Placed, IsReady, Apart, Queues
<1>3. k.pcb[Shell] \in PcbType /\ ~(Len(k.pcb[Shell].childPids) >= ChildPidSlots)
  <2>1. Len(k.pcb[Shell].childPids) = n - 2 /\ n <= MaxPid
    BY <1>1 DEF ShellFacts, Pids
  <2> QED
    BY <1>1, <2>1, PidsAssumption
<1>4. new \in PcbType /\ parent \in PcbType
  <2>1. kids \in Seq(Pids \cup {Reaped})
    BY <1>3 DEF PcbType
  <2>2. parent \in PcbType
    <3> HIDE DEF kids
    <3> QED
      BY <1>3, <2>1 DEF PcbType
  <2>3. new \in PcbType
    <3>1. <<>> \in Seq(Pids \cup {Reaped})
      OBVIOUS
    <3> QED
      BY <1>1, <3>1 DEF createPcb, PcbType, Statuses, Priorities
  <2> QED
    BY <2>2, <2>3
<1>5. /\ b1 \in [Pids -> PcbType] /\ b1[n] = new /\ b1[Shell] = parent
      /\ \A p \in Pids \ {n, Shell} : b1[p] = k.pcb[p]
  <2> HIDE DEF new, parent
  <2> QED
    BY <1>1, <1>4
<1>6. k2 = enqueue(k1, n)
  <2>1. k2 = enqueue([k EXCEPT !.pcb[n] = new, !.pcb[Shell].childPids = Append(@, n)], n)
    <3> HIDE DEF new
    <3> QED
      BY <1>3 DEF p_spawn, new
  <2>2. [k EXCEPT !.pcb[n] = new, !.pcb[Shell].childPids = Append(@, n)] = k1
    <3> HIDE DEF new
    <3> QED
      BY <1>1 DEF Recorded, KernType
  <2> QED
    BY <2>1, <2>2
<1>7. Queued(k1, M) /\ k1.pcb = b1 /\ k1.tail = k.tail
  <2> HIDE DEF b1
  <2> QED
    BY <1>1, <1>5, RecordedIs
<1>8. ReadyQueue(new.priority) = "med" /\ [new EXCEPT !.status = "RUNNING"] = new
  <2>1. new.priority = 0 /\ new.status = "RUNNING"
    BY DEF createPcb
  <2> HIDE DEF new
  <2>2. [new EXCEPT !.status = "RUNNING"] = new
    BY <1>4, <2>1 DEF PcbType
  <2> QED
    BY <2>1, <2>2 DEF ReadyQueue
<1>9. Running(b1, n) = b1
  <2> HIDE DEF b1, new
  <2> QED
    BY <1>5, <1>8 DEF Running
<1> HIDE DEF b1, k1, new, parent, k2
<1>10. After(k1, k2, Joins(M, "med", n), b1, "med")
  BY <1>2, <1>5, <1>6, <1>7, <1>8, <1>9, EnqueueCall
<1>11. Queued(k2, Joins(M, "med", n)) /\ k2.pcb = b1 /\ k2.tail["high"] = k.tail["high"]
  <2>1. "high" \in Queues \ {"med"}
    BY DEF Queues
  <2> QED
    BY <1>7, <1>10, <2>1 DEF After, SameTails
<1> QED
  BY <1>2, <1>5, <1>11 DEF Spawns, k2, new, parent

(* A command line that starts a program.                                   *)
LEMMA RunProgramStep ==
    ASSUME PlainSession, KernelInv, RunProgram
    PROVE  KernelInv' /\ StartsLife
<1> DEFINE M == Contents(kern)
           n == pidCounter
           c == curr_pid
           D == DOMAIN jobs
           M2 == Joins(M, "med", n)
           b2 == kern'.pcb
           at2 == pc'
<1>0. At(Shell, "exec") /\ "exec" \in ShellLabels \ {"waitYield", "waitBlock"} /\ cmd.op = "run"
  BY DEF RunProgram, Shred, ShellLabels
<1>1. /\ Steady(kern, M, pc, n, c, D)
      /\ Turn(kern, pc, n, Shell, Shell) /\ Globals
      /\ pc[Shell] = "exec" /\ activeContext = Shell /\ activeProcess = Shell
      /\ kern.pcb[Shell].status = "RUNNING" /\ kern.tail["high"] = Shell
  BY <1>0, ShellActs
<1> HIDE DEF M
<1>2. /\ Queued(kern, M) /\ kern \in KernType /\ kern.pcb \in [Pids -> PcbType]
      /\ M \in [Queues -> SUBSET Pids]
      /\ pc \in [Pids -> Labels] /\ Shell \in Pids /\ n \in 2..MaxPid + 1 /\ n # Shell /\ Shell < n
      /\ \A p \in Pids : Placed(kern.pcb, M, pc, n, p)
      /\ \A p \in 2..n - 1 : p # Shell /\ p < n /\ ProgramFacts(kern.pcb, pc, p)
      /\ ShellFacts(kern.pcb, pc, n, c) /\ JobFacts(kern.pcb, M, pc, n, c, D)
      /\ 2..n - 1 \subseteq Pids /\ kern.pcb[Shell] \in PcbType
  BY <1>1, SteadyFacts DEF Shell
<1>3. /\ cmd.bg \in BOOLEAN /\ cmd.program \in Programs /\ cmd.program.kind \in Plain
  BY <1>0, <1>1 DEF Globals, PlainSession, PlainCommand, NoCommand
<1>4. /\ n \in Pids /\ kern' = p_spawn(kern, Shell, n, cmd.bg)
      /\ prog' = [prog EXCEPT ![n] = cmd.program] /\ pidCounter' = n + 1
      /\ curr_pid' = n /\ (IS_BG' <=> cmd.bg) /\ IS_BG' \in BOOLEAN
      /\ pc' = [pc EXCEPT ![Shell] = "nice", ![n] = EntryLabel(cmd.program)]
      /\ UNCHANGED <<fgpid, retFlag, jobs, cmd, flag_spaces>> /\ KeepsThread
  BY <1>0, <1>3 DEF RunProgram, Shred, Spawn
<1>5. /\ Queued(kern', M2) /\ Apart(M, n)
      /\ kern'.tail["high"] = Shell
      /\ b2[n] = createPcb(Shell, 0, cmd.bg)
      /\ b2[Shell] = [kern.pcb[Shell] EXCEPT !.childPids = Append(kern.pcb[Shell].childPids, n)]
      /\ \A p \in Pids \ {n, Shell} : b2[p] = kern.pcb[p]
  <2>1. MaxPid <= ChildPidSlots + 1
    BY DEF PlainSession
  <2>2. Spawns(kern, p_spawn(kern, Shell, n, cmd.bg), M, n, cmd.bg)
    BY <1>1, <1>3, <1>4, <2>1, SpawnCall
  <2> QED
    BY <1>1, <1>4, <2>2 DEF Spawns
<1>6. /\ EntryLabel(cmd.program) \in {"user", "spin", "exit"}
      /\ EntryLabel(cmd.program) = "user" => cmd.program.kind = "sleep"
  BY <1>3 DEF EntryLabel, Plain
<1>7. /\ at2 \in [Pids -> Labels] /\ at2[Shell] = "nice" /\ at2[n] = EntryLabel(cmd.program)
      /\ \A p \in Pids \ {n, Shell} : at2[p] = pc[p]
  BY <1>2, <1>4, <1>6 DEF Labels, ShellLabels, ProgramLabels
<1>8. /\ \A q \in Queues : n \in M2[q] <=> q = "med"
      /\ \A q \in Queues : \A p \in Pids \ {n} : p \in M2[q] <=> p \in M[q]
  BY <1>2, <1>5 DEF Joins, Apart
<1>9. Queues = {"high", "med", "low", "blocked", "stopped", "zombie"}
  BY DEF Queues
<1> HIDE DEF M2, at2, b2
<1>10. /\ b2[n].status = "RUNNING" /\ ~b2[n].changedStatus /\ (b2[n].bgFlag <=> cmd.bg)
       /\ b2[n].ppid = Shell /\ b2[n].priority = 0 /\ b2[n].childPids = <<>>
       /\ b2[n].sleep = -1
  BY <1>5 DEF createPcb
<1>11. /\ b2[Shell].status = "RUNNING" /\ b2[Shell].priority = -1 /\ b2[Shell].sleep = -1
       /\ ~b2[Shell].bgFlag /\ Len(b2[Shell].childPids) = n - 1
  <2>1. kern.pcb[Shell].childPids \in Seq(Pids \cup {Reaped}) /\ Len(kern.pcb[Shell].childPids) = n - 2
    BY <1>2 DEF PcbType, ShellFacts
  <2>2. Len(Append(kern.pcb[Shell].childPids, n)) = n - 1
    BY <1>2, <1>4, <2>1
  <2> QED
    BY <1>1, <1>2, <1>5, <2>2 DEF PcbType, ShellFacts
<1>12. \A p \in Pids : p < n + 1 /\ p # n => p < n
  BY <1>2 DEF Pids
<1>13. n < n + 1 /\ n + 1 \in 2..MaxPid + 1 /\ n \in 2..(n + 1) - 1 /\ (n + 1) - 2 = n - 1
  BY <1>2, <1>4, PidsAssumption DEF Pids
<1>14. ASSUME NEW p \in Pids PROVE Placed(b2, M2, at2, n + 1, p)
  <2>1. CASE p = n
    BY <1>2, <1>6, <1>7, <1>8, <1>9, <1>10, <1>13, <2>1 DEF Placed, IsReady, Blocking
  <2>2. CASE p = Shell
    <3>1. Placed(kern.pcb, M, pc, n, Shell) /\ Shell < n /\ Shell < n + 1 /\ p # n
      BY <1>2, <2>2 DEF Shell
    <3>2. \A q \in Queues : Shell \in M2[q] <=> Shell \in M[q]
      BY <1>2, <1>8, <2>2
    <3> QED
      BY <1>1, <1>7, <1>9, <1>11, <2>2, <3>1, <3>2 DEF Placed, IsReady, Blocking
  <2>3. CASE p \notin {n, Shell}
    <3>1. Placed(kern.pcb, M, pc, n, p) /\ (p < n + 1 <=> p < n)
      BY <1>2, <1>12, <1>13, <2>3 DEF Pids
    <3>2. \A q \in Queues : p \in M2[q] <=> p \in M[q]
      BY <1>8, <2>3
    <3>3. b2[p] = kern.pcb[p] /\ at2[p] = pc[p]
      BY <1>5, <1>7, <2>3 DEF b2
    <3> QED
      BY <1>9, <3>1, <3>2, <3>3 DEF Placed, IsReady
  <2> QED
    BY <2>1, <2>2, <2>3
<1>15. ASSUME NEW p \in 2..(n + 1) - 1 PROVE ProgramFacts(b2, at2, p)
  <2>1. CASE p = n
    BY <1>6, <1>7, <1>10, <2>1 DEF ProgramFacts
  <2>2. CASE p # n
    <3>1. p \in 2..n - 1 /\ p \in Pids \ {n, Shell}
      BY <1>2, <2>2
    <3>2. b2[p] = kern.pcb[p] /\ at2[p] = pc[p] /\ ProgramFacts(kern.pcb, pc, p)
      BY <1>2, <1>5, <1>7, <3>1 DEF b2
    <3> QED
      BY <3>2 DEF ProgramFacts
  <2> QED
    BY <2>1, <2>2
<1>16. ShellFacts(b2, at2, n + 1, n)
  BY <1>7, <1>10, <1>11, <1>13 DEF ShellFacts, ShellLabels
<1>17. JobFacts(b2, M2, at2, n + 1, n, D)
  <2>1. \A p \in 2..(n + 1) - 1 : p # n <=> p \in 2..n - 1
    BY <1>2, <1>4 DEF Pids
  <2>2. ASSUME NEW p \in 2..n - 1 PROVE IsJob(b2, M2, p) <=> IsJob(kern.pcb, M, p)
    <3>1. p \in Pids \ {n, Shell}
      BY <1>2
    <3>2. b2[p] = kern.pcb[p] /\ (p \in M2["zombie"] <=> p \in M["zombie"])
      BY <1>5, <1>8, <1>9, <3>1 DEF b2
    <3> QED
      BY <3>2 DEF IsJob
  <2>3. 2..n - 1 \subseteq 2..(n + 1) - 1
    BY <1>2
  <2>4. pc[Shell] # "nice" /\ at2[Shell] = "nice"
    BY <1>1, <1>7
  <2> QED
    BY <1>2, <2>1, <2>2, <2>3, <2>4 DEF JobFacts
<1>18. \A p \in Pids : p >= n + 1 => at2[p] = "none"
  <2>1. \A p \in Pids : p >= n => pc[p] = "none"
    BY <1>1 DEF Steady
  <2> QED
    BY <1>2, <1>7, <2>1 DEF Pids
<1>19. Steady(kern', M2, at2, n + 1, n, D)
  BY <1>4, <1>5, <1>7, <1>13, <1>14, <1>15, <1>16, <1>17, <1>18 DEF Steady, b2
<1>20. Turn(kern', at2, n + 1, Shell, Shell)
  <2>1. \A p \in Pids : at2[p] \in Critical => p = Shell
    BY <1>1, <1>6, <1>7 DEF Turn, Critical
  <2>2. Shell < n + 1
    BY <1>1, <1>2 DEF Turn, Shell
  <2> QED
    BY <1>2, <1>5, <1>7, <1>11, <2>1, <2>2 DEF Turn, OwnQueue, b2
<1>21. Globals'
  <2>1. prog' \in [Pids -> Programs] /\ \A p \in Pids : prog'[p].kind \in Plain
    BY <1>1, <1>3, <1>4 DEF Globals
  <2>2. \A p \in Pids : pc'[p] = "user" => prog'[p].kind = "sleep"
    BY <1>1, <1>2, <1>4, <1>6, <1>7 DEF Globals, at2
  <2>3. DOMAIN jobs' \subseteq 2..pidCounter' - 1 /\ \A j \in DOMAIN jobs' : jobs'[j] = "RUNNING"
    BY <1>1, <1>2, <1>4 DEF Globals
  <2>4. cmd'.op = "run" /\ (kern'.pcb[curr_pid'].bgFlag <=> IS_BG')
    BY <1>0, <1>4, <1>10 DEF b2
  <2> QED
    BY <1>1, <1>4, <2>1, <2>2, <2>3, <2>4 DEF Globals, KeepsThread
<1>22. StartsLife
  <2>1. /\ n \in Int /\ ~(n >= n + 1) /\ n < n + 1 /\ n >= n /\ ~(Shell >= n)
        /\ \A x \in Pids \ {n} : (x < n + 1 <=> x < n) /\ (x >= n + 1 <=> x >= n)
    BY <1>2, <1>4 DEF Pids, Shell
  <2>2. at2[n] \notin Blocking /\ at2[Shell] \notin Blocking /\ pc[Shell] \notin Blocking
    BY <1>1, <1>6, <1>7 DEF Blocking
  <2>3. PICK m \in Pids : m = n
    BY <1>4
  <2>4. Stage(m) = "unborn" /\ Stage(Shell) # "ended"
    BY <1>1, <2>1, <2>3 DEF Stage
  <2>5. Stage(m)' = "ready"
    <3>1. m < pidCounter' /\ ~(m >= pidCounter')
      BY <1>4, <2>1, <2>3
    <3>2. kern'.pcb[m].status = "RUNNING" /\ pc'[m] \notin Blocking
      BY <1>10, <2>2, <2>3 DEF b2, at2
    <3> QED
      BY <3>1, <3>2 DEF Stage, IsReady
  <2>6. ASSUME NEW x \in Pids \ {m} PROVE Stage(x)' = Stage(x)
    <3>1. kern'.pcb[x].status = kern.pcb[x].status
      BY <1>1, <1>5, <1>11, <2>3, <2>6 DEF b2
    <3>2. pc'[x] \in Blocking <=> pc[x] \in Blocking
      BY <1>7, <2>2, <2>3, <2>6 DEF at2
    <3> QED
      BY <1>4, <2>1, <2>3, <2>6, <3>1, <3>2 DEF Stage, IsReady
  <2> QED
    BY <1>1, <1>2, <1>4, <2>4, <2>5, <2>6 DEF StartsLife, KeepsThread
<1> QED
  BY <1>1, <1>4, <1>19, <1>20, <1>21, <1>22, InvNext DEF KeepsThread, at2

(* What a plain session never does.                                        *)
LEMMA NeverDone ==
    ASSUME PlainSession, KernelInv
    PROVE  /\ ~EndOfInput /\ ~BgBuiltin /\ ~FgBuiltin /\ ~NicePid /\ ~LogoutOrMan
           /\ ~CtrlC /\ ~CtrlZ
           /\ \A p \in Pids : ~Kill(p) /\ ~Zombify(p) /\ ~Orphanify(p)
<1>1. cmd.op \in {"none", "blank", "run"}
  BY DEF KernelInv, Globals, PlainSession, PlainCommand, NoCommand
<1>2. ~EndOfInput /\ ~BgBuiltin /\ ~FgBuiltin /\ ~NicePid /\ ~LogoutOrMan
  BY <1>1 DEF EndOfInput, BgBuiltin, FgBuiltin, NicePid, LogoutOrMan, Shred
<1>3. ~CtrlC /\ ~CtrlZ
  BY DEF CtrlC, CtrlZ, KeyPressed, InterruptibleAt, PlainSession
<1>4. \A p \in Pids : prog[p].kind \notin {"kill", "zombify", "orphanify"}
  BY DEF KernelInv, Globals, Plain
<1>5. \A p \in Pids : ~Kill(p) /\ ~Zombify(p) /\ ~Orphanify(p)
  BY <1>4 DEF Kill, Zombify, Orphanify, SpawnChild, User
<1> QED
  BY <1>2, <1>3, <1>5

(* The session starts with the shell alone.                                *)
LEMMA InitInv == ASSUME Init PROVE KernelInv
<1> DEFINE M == [q \in Queues |-> IF q = "high" THEN {Shell} ELSE {}]
           ends == [q \in Queues |-> IF q = "high" THEN Shell ELSE NULL]
           nx == [p \in Pids |-> NULL]
           new == createPcb(Shell, -1, FALSE)
           b == [p \in Pids |-> new]
<1>1. /\ Shell \in Pids /\ NULL \notin Pids /\ MaxPid \in Nat \ {0}
      /\ Queues = {"high", "med", "low", "blocked", "stopped", "zombie"}
  BY PidsAssumption DEF Pids, Shell, NULL, Queues
<1>2. kern = [head |-> ends, tail |-> ends, next |-> nx, pcb |-> b, fault |-> "none"]
  BY DEF Init
<1>3. new \in PcbType
  <2>1. <<>> \in Seq(Pids \cup {Reaped})
    OBVIOUS
  <2> QED
    BY <1>1, <2>1 DEF createPcb, PcbType, Statuses, Priorities
<1>4. /\ new.status = "RUNNING" /\ new.priority = -1 /\ new.sleep = -1 /\ ~new.bgFlag
      /\ new.childPids = <<>> /\ new.changedStatus = FALSE
  BY DEF createPcb
<1> HIDE DEF new
<1>5. kern \in KernType /\ kern.fault = "none" /\ kern.pcb = b
      /\ kern.head = ends /\ kern.tail = ends /\ kern.next = nx
  BY <1>1, <1>2, <1>3 DEF KernType
<1>6. M \in [Queues -> SUBSET Pids]
  BY <1>1
<1>7. Queued(kern, M)
  <2>1. Lists(Shell, Shell, nx, {Shell}) /\ Lists(NULL, NULL, nx, {})
    <3>1. nx[Shell] = NULL
      BY <1>1
    <3> QED
      BY <1>1, <3>1, ShortLists
  <2>2. \A q \in Queues : Lists(ends[q], ends[q], nx, M[q])
    BY <2>1
  <2>3. \A q, r \in Queues : q # r => M[q] \cap M[r] = {}
    OBVIOUS
  <2>4. \A p \in Pids : nx[p] = NULL
    OBVIOUS
  <2> HIDE DEF M, ends, nx
  <2> QED
    BY <1>5, <1>6, <2>2, <2>3, <2>4 DEF Queued
<1>8. Contents(kern) = M
  BY <1>7, ContentsIs
<1>9. /\ pidCounter = 2 /\ activeProcess = Shell /\ activeContext = Shell /\ listPointer = 1
      /\ fgpid = Shell /\ curr_pid = NULL /\ IS_BG = FALSE /\ retFlag = FALSE /\ flag_spaces = FALSE
      /\ DOMAIN jobs = {} /\ cmd = NoCommand
      /\ prog = [p \in Pids |-> NoProgram] /\ pc[Shell] = "read"
      /\ pc \in [Pids -> Labels] /\ \A p \in Pids \ {Shell} : pc[p] = "none"
  BY <1>1 DEF Init, Shell, NULL, Labels, ShellLabels
<1>10. \A p \in Pids : (p < 2 <=> p = Shell) /\ (p >= 2 <=> p # Shell)
  BY DEF Pids, Shell
<1>11. \A p \in Pids : b[p] = new
  OBVIOUS
<1>12. \A p \in Pids : Placed(b, M, pc, 2, p)
  <2>1. M["high"] = {Shell} /\ \A q \in Queues \ {"high"} : M[q] = {}
    BY <1>1
  <2> HIDE DEF M, b
  <2> QED
    BY <1>1, <1>4, <1>9, <1>10, <1>11, <2>1 DEF Placed, IsReady, Blocking
<1>13. ShellFacts(b, pc, 2, NULL)
  BY <1>1, <1>4, <1>9, <1>11 DEF ShellFacts, ShellLabels
<1>14. JobFacts(b, M, pc, 2, NULL, {})
  BY DEF JobFacts
<1> HIDE DEF M, b, ends
<1>15. Steady(kern, M, pc, 2, NULL, {})
  <2>1. 2 \in 2..MaxPid + 1 /\ \A p \in 2..2 - 1 : ProgramFacts(b, pc, p)
    BY <1>1
  <2> QED
    BY <1>5, <1>7, <1>9, <1>10, <1>12, <1>13, <1>14, <2>1 DEF Steady
<1>16. Turn(kern, pc, 2, Shell, Shell)
  <2>1. \A p \in Pids : pc[p] \notin Critical
    BY <1>9 DEF Critical
  <2>2. kern.tail["high"] = Shell
    BY <1>1, <1>5 DEF ends
  <2> QED
    BY <1>1, <1>4, <1>5, <1>9, <1>10, <1>11, <2>1, <2>2 DEF Turn, OwnQueue
<1>17. Globals
  <2>1. NoProgram \in Programs /\ NoProgram.kind = "echo"
    BY <1>1 DEF NoProgram, Programs, Shell
  <2>2. prog \in [Pids -> Programs] /\ \A p \in Pids : prog[p].kind \in Plain
    BY <1>9, <2>1 DEF Plain
  <2>3. \A p \in Pids : pc[p] # "user" /\ pc[p] # "nice"
    BY <1>9
  <2>4. DOMAIN jobs \subseteq 2..pidCounter - 1 /\ \A j \in DOMAIN jobs : jobs[j] = "RUNNING"
    BY <1>9
  <2>5. Shell \in Contexts /\ 1 \in 0..17
    BY <1>1 DEF Contexts
  <2> QED
    BY <1>1, <1>9, <2>2, <2>3, <2>4, <2>5 DEF Globals
<1> QED
  BY <1>8, <1>9, <1>15, <1>16, <1>17 DEF KernelInv

(* Each step of a plain session keeps the invariant.                       *)
LEMMA NextInv ==
    ASSUME PlainSession, KernelInv, [Next]_vars
    PROVE  KernelInv' /\ Lives
<1>1. CASE UNCHANGED vars
  <2>1. /\ kern' = kern /\ pidCounter' = pidCounter /\ activeProcess' = activeProcess
        /\ activeContext' = activeContext /\ listPointer' = listPointer /\ fgpid' = fgpid
        /\ curr_pid' = curr_pid /\ IS_BG' = IS_BG /\ retFlag' = retFlag
        /\ flag_spaces' = flag_spaces /\ jobs' = jobs /\ cmd' = cmd /\ prog' = prog /\ pc' = pc
    BY <1>1 DEF vars, globals
  <2>2. /\ Steady(kern', Contents(kern), pc', pidCounter', curr_pid', DOMAIN jobs')
        /\ Turn(kern', pc', pidCounter', activeContext', activeProcess')
    BY <2>1 DEF KernelInv
  <2>3. Globals'
    BY <2>1 DEF KernelInv, Globals
  <2>4. KeepsLives
    BY <2>1 DEF KeepsLives, Stage
  <2> QED
    BY <2>2, <2>3, <2>4, InvNext DEF Lives
<1>2. ASSUME NEW c \in Menu, Type(c) PROVE KernelInv' /\ Lives
  BY <1>2, TypeStep DEF Lives
<1>3. CASE ShellStep
  BY <1>3, NeverDone, PollStep, BlankLineStep, RunProgramStep, LaunchStep, WaitStep,
     WaitBlockStep, WaitYieldStep, WaitResumeStep DEF ShellStep, Lives
<1>4. ASSUME NEW p \in Pids, ProgramStep(p) PROVE KernelInv' /\ Lives
  BY <1>4, NeverDone, SleepStep, SleepBlockStep, SleepYieldStep, SleepResumeStep, TerminateStep
     DEF ProgramStep, Lives
<1>5. CASE Alarm
  BY <1>5, AlarmStep DEF Lives
<1>6. CASE CtrlC \/ CtrlZ
  BY <1>6, NeverDone
<1> QED
  BY <1>1, <1>2, <1>3, <1>4, <1>5, <1>6 DEF Next

(* The types of the variables.                                             *)
LEMMA InvTypes == ASSUME PlainSession, KernelInv PROVE TypeOK
<1>1. /\ kern \in KernType /\ pidCounter \in 2..MaxPid + 1 /\ pc \in [Pids -> Labels]
      /\ curr_pid \in Pids \cup {NULL} /\ 2..pidCounter - 1 \subseteq Pids
  BY SteadyFacts DEF KernelInv
<1>2. /\ activeProcess \in Pids /\ activeContext \in Contexts /\ listPointer \in 0..17
      /\ fgpid \in Pids /\ IS_BG \in BOOLEAN /\ retFlag \in BOOLEAN /\ flag_spaces \in BOOLEAN
      /\ cmd \in Menu \cup {NoCommand} /\ prog \in [Pids -> Programs]
      /\ DOMAIN jobs \subseteq Pids /\ \A j \in DOMAIN jobs : jobs[j] \in Statuses
  BY <1>1 DEF KernelInv, Globals, Statuses
<1> QED
  BY <1>1, <1>2 DEF TypeOK

(* What the invariant says of the queues of a state.                       *)
LEMMA InvFacts ==
    ASSUME KernelInv
    PROVE  LET M == Contents(kern) IN
           /\ Queued(kern, M) /\ \A q \in Queues : Members(kern, q) = M[q]
           /\ \A p \in Pids : Placed(kern.pcb, M, pc, pidCounter, p)
           /\ ShellFacts(kern.pcb, pc, pidCounter, curr_pid)
           /\ \A p \in Spawned \ {Shell} : p \in 2..pidCounter - 1 /\ ProgramFacts(kern.pcb, pc, p)
           /\ Turn(kern, pc, pidCounter, activeContext, activeProcess)
           /\ 2..pidCounter - 1 \subseteq Pids /\ kern.pcb \in [Pids -> PcbType]
<1> DEFINE M == Contents(kern)
<1>1. /\ Steady(kern, M, pc, pidCounter, curr_pid, DOMAIN jobs)
      /\ Turn(kern, pc, pidCounter, activeContext, activeProcess)
  BY DEF KernelInv
<1> HIDE DEF M
<1>2. \A q \in Queues : Members(kern, q) = M[q]
  BY <1>1, SteadyFacts, QueueWalk
<1>3. \A p \in Spawned \ {Shell} : p \in 2..pidCounter - 1 /\ ProgramFacts(kern.pcb, pc, p)
  BY <1>1, SteadyFacts DEF Spawned
<1> QED
  BY <1>1, <1>2, <1>3, SteadyFacts DEF M

(* The queues are intact.                                                  *)
LEMMA InvQueues == ASSUME KernelInv PROVE QueuesIntact
<1> DEFINE M == Contents(kern)
<1>1. Queued(kern, M) /\ \A q \in Queues : Members(kern, q) = M[q]
  BY InvFacts
<1> HIDE DEF M
<1>2. ASSUME NEW q \in Queues PROVE QueueWellFormed(kern, q)
  <2>1. ~Cyclic(kern, q) /\ Members(kern, q) = M[q]
    BY <1>1, QueueWalk
  <2>2. Lists(kern.head[q], kern.tail[q], kern.next, M[q])
    BY <1>1 DEF Queued
  <2>3. kern.head[q] # NULL => kern.tail[q] \in M[q] /\ kern.next[kern.tail[q]] = NULL
    BY <2>2, ListEnds
  <2> QED
    BY <2>1, <2>3 DEF QueueWellFormed
<1>3. \A q, r \in Queues : q # r => M[q] \cap M[r] = {}
  BY <1>1 DEF Queued
<1> QED
  BY <1>1, <1>2, <1>3 DEF QueuesIntact

(* Where a process of the session belongs.                                 *)
LEMMA HomeIs ==
    ASSUME NEW p, ReadyQueue(kern.pcb[p].priority) = OwnQueue(p)
    PROVE  /\ kern.pcb[p].status = "RUNNING" => Home(p) = OwnQueue(p)
           /\ kern.pcb[p].status = "BLOCKED" => Home(p) = "blocked"
           /\ kern.pcb[p].status = "TERMINATED" => Home(p) = "none"
<1> DEFINE status == kern.pcb[p].status
           ready == ReadyQueue(kern.pcb[p].priority)
<1>1. Home(p) = CASE status = "RUNNING" -> ready
                  [] status = "BLOCKED" -> "blocked"
                  [] status = "STOPPED" -> "stopped"
                  [] status \in {"TERMINATED", "SIG_TERMINATED"} -> "none"
  BY DEF Home, Ended
<1>2. ready = OwnQueue(p)
  OBVIOUS
<1> HIDE DEF ready
<1>3. CASE status = "RUNNING"
  BY <1>1, <1>2, <1>3
<1>4. CASE status = "BLOCKED"
  BY <1>1, <1>4
<1>5. CASE status = "TERMINATED"
  BY <1>1, <1>5
<1> QED
  BY <1>3, <1>4, <1>5

(* A process is in the queue of its status.                                *)
LEMMA InvPlaced == ASSUME KernelInv PROVE PlacedByStatus
<1> DEFINE M == Contents(kern)
<1>1. /\ \A q \in Queues : Members(kern, q) = M[q]
      /\ \A p \in Pids : Placed(kern.pcb, M, pc, pidCounter, p)
      /\ ShellFacts(kern.pcb, pc, pidCounter, curr_pid)
      /\ \A p \in Spawned \ {Shell} : ProgramFacts(kern.pcb, pc, p)
  BY InvFacts
<1> HIDE DEF M
<1>2. ASSUME NEW p \in Spawned, pc[p] \notin Blocking, NEW q \in Queues \ {"zombie"}
      PROVE  p \in M[q] <=> q = Home(p)
  <2>1. p \in Pids /\ p < pidCounter /\ Placed(kern.pcb, M, pc, pidCounter, p)
    BY <1>1 DEF Spawned
  <2>2. q \in {"high", "med", "low", "blocked", "stopped"}
    BY DEF Queues
  <2>3. /\ kern.pcb[p].status \in {"RUNNING", "BLOCKED", "TERMINATED"}
        /\ ReadyQueue(kern.pcb[p].priority) = OwnQueue(p)
    <3>1. CASE p = Shell
      BY <1>1, <3>1 DEF ShellFacts, ReadyQueue, OwnQueue
    <3>2. CASE p # Shell
      BY <1>1, <3>2 DEF ProgramFacts, ReadyQueue, OwnQueue
    <3> QED
      BY <3>1, <3>2
  <2>4. CASE kern.pcb[p].status = "RUNNING"
    <3>1. Home(p) = OwnQueue(p)
      BY <2>3, <2>4, HomeIs
    <3> QED
      BY <1>2, <2>1, <2>2, <2>4, <3>1 DEF Placed, IsReady, OwnQueue
  <2>5. CASE kern.pcb[p].status = "BLOCKED"
    <3>1. Home(p) = "blocked"
      BY <2>3, <2>5, HomeIs
    <3> QED
      BY <2>1, <2>2, <2>5, <3>1 DEF Placed, IsReady
  <2>6. CASE kern.pcb[p].status = "TERMINATED"
    <3>1. Home(p) = "none"
      BY <2>3, <2>6, HomeIs
    <3> QED
      BY <2>1, <2>2, <2>6, <3>1 DEF Placed, IsReady
  <2> QED
    BY <2>3, <2>4, <2>5, <2>6
<1> QED
  BY <1>1, <1>2 DEF PlacedByStatus, In, Blocking

(* Whoever has the thread is the last of its ready queue.                  *)
LEMMA InvLast == ASSUME KernelInv PROVE ActiveIsLast
<1> DEFINE M == Contents(kern)
<1>1. /\ \A q \in Queues : Members(kern, q) = M[q]
      /\ \A p \in Pids : Placed(kern.pcb, M, pc, pidCounter, p)
      /\ ShellFacts(kern.pcb, pc, pidCounter, curr_pid)
      /\ \A p \in Spawned \ {Shell} : ProgramFacts(kern.pcb, pc, p)
      /\ Turn(kern, pc, pidCounter, activeContext, activeProcess)
  BY InvFacts
<1> HIDE DEF M
<1>2. ASSUME NEW p \in Spawned, activeContext = p, kern.pcb[p].status = "RUNNING", In(p, Home(p))
      PROVE  kern.tail[Home(p)] = p
  <2>1. p \in Pids /\ Placed(kern.pcb, M, pc, pidCounter, p)
    BY <1>1 DEF Spawned
  <2>2. Home(p) = OwnQueue(p)
    <3> SUFFICES ReadyQueue(kern.pcb[p].priority) = OwnQueue(p)
      BY <1>2, HomeIs
    <3>1. CASE p = Shell
      BY <1>1, <3>1 DEF ShellFacts, ReadyQueue, OwnQueue
    <3>2. CASE p # Shell
      BY <1>1, <3>2 DEF ProgramFacts, ReadyQueue, OwnQueue
    <3> QED
      BY <3>1, <3>2
  <2>3. p \in M[OwnQueue(p)]
    BY <1>1, <1>2, <2>2 DEF In, OwnQueue, Queues
  <2>4. pc[p] \notin Blocking
    BY <2>1, <2>3 DEF Placed, IsReady, OwnQueue
  <2> QED
    BY <1>1, <1>2, <2>1, <2>2, <2>4 DEF Turn
<1> QED
  BY <1>2 DEF ActiveIsLast

(* Whoever is blocked will be woken.                                       *)
LEMMA InvWaker == ASSUME KernelInv PROVE BlockedHasWaker
<1> DEFINE M == Contents(kern)
<1>1. /\ \A q \in Queues : Members(kern, q) = M[q]
      /\ \A p \in Pids : Placed(kern.pcb, M, pc, pidCounter, p)
      /\ ShellFacts(kern.pcb, pc, pidCounter, curr_pid)
      /\ \A p \in Spawned \ {Shell} : ProgramFacts(kern.pcb, pc, p)
      /\ 2..pidCounter - 1 \subseteq Pids
  BY InvFacts
<1> HIDE DEF M
<1>2. ASSUME NEW p \in Spawned, In(p, "blocked")
      PROVE  \/ kern.pcb[p].sleep >= 0
             \/ LET child == kern.pcb[p].waitChild IN
                /\ child # NULL
                /\ kern.pcb[child].status \in {"RUNNING", "BLOCKED"}
                /\ ~kern.pcb[child].bgFlag
  <2>1. kern.pcb[p].status = "BLOCKED"
    BY <1>1, <1>2 DEF In, Spawned, Placed, Queues
  <2>2. CASE p = Shell
    <3>1. /\ kern.pcb[Shell].waitChild = curr_pid /\ ~kern.pcb[curr_pid].bgFlag
          /\ kern.pcb[curr_pid].status \in {"RUNNING", "BLOCKED"}
          /\ curr_pid \in 2..pidCounter - 1
      BY <1>1, <2>1, <2>2 DEF ShellFacts
    <3>2. curr_pid # NULL
      BY <1>1, <3>1 DEF Pids, NULL
    <3> QED
      BY <2>2, <3>1, <3>2
  <2>3. CASE p # Shell
    BY <1>1, <2>1, <2>3 DEF ProgramFacts
  <2> QED
    BY <2>2, <2>3
<1> QED
  BY <1>2 DEF BlockedHasWaker

(* What the invariant says of the jobs of the shell.                       *)
LEMMA InvJobs == ASSUME KernelInv PROVE JobsMatchProcesses
<1> DEFINE M == Contents(kern)
           D == DOMAIN jobs
<1>1. /\ \A q \in Queues : Members(kern, q) = M[q]
      /\ \A p \in Pids : Placed(kern.pcb, M, pc, pidCounter, p)
      /\ ShellFacts(kern.pcb, pc, pidCounter, curr_pid)
      /\ \A p \in Spawned \ {Shell} : p \in 2..pidCounter - 1 /\ ProgramFacts(kern.pcb, pc, p)
  BY InvFacts
<1>2. /\ JobFacts(kern.pcb, M, pc, pidCounter, curr_pid, D)
      /\ M \in [Queues -> SUBSET Pids]
      /\ \A p \in 2..pidCounter - 1 : p \in Pids /\ p # Shell /\ p < pidCounter
  BY SteadyFacts DEF KernelInv
<1>3. \A j \in D : jobs[j] = "RUNNING"
  BY DEF KernelInv, Globals
<1> HIDE DEF M, D
<1>4. ASSUME NEW j \in D
      PROVE  /\ jobs[j] = "STOPPED" <=> kern.pcb[j].status = "STOPPED"
             /\ pc[j] # "sleepBlock" => \E q \in Queues : j \in M[q]
  <2>1. /\ j \in Pids /\ j # Shell /\ j < pidCounter /\ j \in Spawned \ {Shell}
        /\ IsJob(kern.pcb, M, j)
    BY <1>2 DEF JobFacts, Spawned
  <2>2. /\ kern.pcb[j].status \in {"RUNNING", "BLOCKED", "TERMINATED"}
        /\ pc[j] # "waitBlock"
    BY <1>1, <2>1 DEF ProgramFacts
  <2>3. ASSUME pc[j] # "sleepBlock"
        PROVE  j \in M["med"] \/ j \in M["blocked"] \/ j \in M["zombie"]
    BY <1>1, <2>1, <2>2, <2>3 DEF Placed, IsReady, Blocking, IsJob
  <2> QED
    BY <1>3, <2>2, <2>3 DEF Queues
<1>5. ASSUME NEW z \in Pids, z \in M["zombie"]
      PROVE  z \in D /\ kern.pcb[z].status \in Ended
  <2>1. z < pidCounter /\ kern.pcb[z].status = "TERMINATED" /\ kern.pcb[z].bgFlag
    BY <1>1, <1>5 DEF Placed
  <2>2. z # Shell
    BY <1>1, <2>1 DEF ShellFacts
  <2>3. z \in 2..pidCounter - 1
    BY <1>1, <2>1, <2>2 DEF Spawned
  <2>4. ~(pc[Shell] = "nice" /\ z = curr_pid)
    BY <1>1, <2>1 DEF ShellFacts
  <2> QED
    BY <1>2, <1>5, <2>1, <2>3, <2>4 DEF JobFacts, IsJob, Ended
<1>6. "zombie" \in Queues /\ M["zombie"] \subseteq Pids
  BY <1>2 DEF Queues
<1> QED
  BY <1>1, <1>4, <1>5, <1>6 DEF JobsMatchProcesses, In, D

(* The stage of a process is its life.                                     *)
LEMMA LifeIs == ASSUME KernelInv PROVE \A p \in Pids : LifeOf(p) = Stage(p)
<1> DEFINE M == Contents(kern)
<1>1. /\ \A q \in Queues : Members(kern, q) = M[q]
      /\ \A p \in Pids : Placed(kern.pcb, M, pc, pidCounter, p)
      /\ ShellFacts(kern.pcb, pc, pidCounter, curr_pid)
      /\ \A p \in Spawned \ {Shell} : ProgramFacts(kern.pcb, pc, p)
  BY InvFacts
<1>2. pidCounter \in Int
  BY SteadyFacts DEF KernelInv
<1> HIDE DEF M
<1> SUFFICES ASSUME NEW p \in Pids PROVE LifeOf(p) = Stage(p)
  OBVIOUS
<1> DEFINE over == kern.pcb[p].status \in Ended
           queued == \E q \in ReadyQueues : In(p, q)
           waits == In(p, "blocked") \/ pc[p] \in {"waitBlock", "sleepBlock"}
           rest == CASE queued -> "ready" [] waits -> "blocked" [] In(p, "stopped") -> "stopped"
                     [] OTHER -> "lost"
<1>3. LifeOf(p) = CASE p \notin Spawned -> "unborn"
                    [] p \in Spawned /\ over -> "ended"
                    [] p \in Spawned /\ ~over -> rest
  BY DEF LifeOf
<1>4. p \in Spawned <=> ~(p >= pidCounter)
  BY <1>2 DEF Spawned, Pids
<1>5. Placed(kern.pcb, M, pc, pidCounter, p)
  BY <1>1
<1>6. /\ queued <=> p \in M["high"] \/ p \in M["med"]
      /\ waits <=> p \in M["blocked"] \/ pc[p] \in Blocking
  BY <1>1, <1>5 DEF ReadyQueues, In, Queues, Blocking, Placed
<1>7. p \in Spawned => p < pidCounter /\ kern.pcb[p].status \in {"RUNNING", "BLOCKED", "TERMINATED"}
  <2>1. CASE p = Shell
    BY <1>1, <2>1 DEF ShellFacts, Spawned
  <2>2. CASE p # Shell
    BY <1>1, <2>2 DEF ProgramFacts, Spawned
  <2> QED
    BY <2>1, <2>2
<1>8. over <=> kern.pcb[p].status \in {"TERMINATED", "SIG_TERMINATED"}
  BY DEF Ended
<1>9. CASE p \notin Spawned
  BY <1>3, <1>4, <1>9 DEF Stage
<1>10. CASE p \in Spawned /\ kern.pcb[p].status = "TERMINATED"
  BY <1>3, <1>4, <1>8, <1>10 DEF Stage
<1>11. CASE p \in Spawned /\ IsReady(kern.pcb, pc, pidCounter, p)
  <2>1. queued /\ ~waits /\ ~over /\ kern.pcb[p].status # "TERMINATED" /\ ~In(p, "stopped")
    BY <1>1, <1>5, <1>6, <1>8, <1>11 DEF Placed, IsReady, In, Queues
  <2>2. rest = "ready"
    BY <2>1
  <2> QED
    BY <1>3, <1>4, <1>11, <2>1, <2>2 DEF Stage
<1>12. CASE p \in Spawned /\ ~IsReady(kern.pcb, pc, pidCounter, p) /\ kern.pcb[p].status # "TERMINATED"
  <2>1. ~queued /\ waits /\ ~over /\ ~In(p, "stopped")
    BY <1>1, <1>5, <1>6, <1>7, <1>8, <1>12 DEF Placed, IsReady, In, Queues
  <2>2. rest = "blocked"
    BY <2>1
  <2> QED
    BY <1>3, <1>4, <1>12, <2>1, <2>2 DEF Stage
<1> QED
  BY <1>9, <1>10, <1>11, <1>12

(* The lives of the processes in the specification of a life.              *)
LivesOf == [p \in Pids |-> LifeOf(p)]

(* A step of the system is a step of the lives.                            *)
LEMMA LivesNext ==
    ASSUME KernelInv, KernelInv', Lives
    PROVE  [Process!Next]_<<LivesOf, activeContext>>
<1>1. \A p \in Pids : LifeOf(p) = Stage(p)
  BY LifeIs
<1>2. (\A p \in Pids : LifeOf(p) = Stage(p))'
  BY LifeIs, PTL
<1> DEFINE life == LivesOf
           life2 == LivesOf'
<1>3. /\ life = [p \in Pids |-> Stage(p)] /\ life2 = [p \in Pids |-> Stage(p)']
      /\ \A p \in Pids : life[p] = Stage(p) /\ life2[p] = Stage(p)'
  BY <1>1, <1>2 DEF LivesOf
<1>4. /\ LivesOf = life /\ LivesOf' = life2
      /\ Process!Ready = {p \in Pids : life[p] = "ready"}
      /\ Process!Ready' = {p \in Pids : life2[p] = "ready"}
  BY DEF Process!Ready, LivesOf
<1> HIDE DEF life, life2
<1>5. CASE KeepsLives
  <2>1. life2 = life
    BY <1>3, <1>5 DEF KeepsLives
  <2> QED
    BY <1>4, <1>5, <2>1 DEF KeepsLives
<1>6. CASE BlocksLife
  <2>1. PICK p \in Pids :
           /\ activeContext = p /\ activeContext' = p
           /\ Stage(p) = "ready" /\ Stage(p)' = "blocked"
           /\ \A r \in Pids \ {p} : Stage(r)' = Stage(r)
    BY <1>6 DEF BlocksLife
  <2>2. life2 = [life EXCEPT ![p] = "blocked"]
    BY <1>3, <2>1
  <2>3. p \in Process!Ready
    BY <1>3, <1>4, <2>1
  <2>4. Process!Block
    BY <1>4, <2>1, <2>2, <2>3 DEF Process!Block, LivesOf
  <2> QED
    BY <2>4 DEF Process!Next
<1>7. CASE StartsLife
  <2>1. PICK p \in Pids :
           /\ activeContext \in Pids /\ activeContext' = activeContext
           /\ Stage(activeContext) # "ended"
           /\ Stage(p) = "unborn" /\ Stage(p)' = "ready"
           /\ \A r \in Pids \ {p} : Stage(r)' = Stage(r)
    BY <1>7 DEF StartsLife
  <2>2. life2 = [life EXCEPT ![p] = "ready"]
    BY <1>3, <2>1
  <2>3. life[activeContext] # "ended" /\ life[p] = "unborn"
    BY <1>3, <2>1
  <2>4. Process!Spawn(p)
    BY <1>4, <2>1, <2>2, <2>3 DEF Process!Spawn, LivesOf
  <2> QED
    BY <2>4 DEF Process!Next
<1>8. CASE PassesThread
  <2>1. \A p \in Pids : life2[p] # life[p] => <<life[p], life2[p]>> \in Process!Turns
    BY <1>3, <1>8 DEF PassesThread, Process!Turns
  <2>2. Process!Turn
    BY <1>4, <2>1 DEF Process!Turn, LivesOf
  <2>3. Process!Switch
    BY <1>3, <1>4, <1>8 DEF PassesThread, Process!Switch
  <2> QED
    BY <2>2, <2>3 DEF Process!Next
<1> QED
  BY <1>5, <1>6, <1>7, <1>8 DEF Lives

(* The shell alone is alive when the session starts.                       *)
LEMMA LivesInit == ASSUME Init PROVE Process!Init
<1>1. KernelInv
  BY InitInv
<1>2. \A p \in Pids : LifeOf(p) = Stage(p)
  BY <1>1, LifeIs
<1>3. /\ pidCounter = 2 /\ activeContext = Shell /\ Shell = 1 /\ Shell \in Pids
      /\ \A p \in Pids : p \in Int /\ (p # Shell => p >= 2)
      /\ kern.pcb[Shell].status = "RUNNING" /\ pc[Shell] \notin Blocking
  BY PidsAssumption DEF Init, Pids, Shell, createPcb, Blocking
<1>4. Stage(Shell) = "ready"
  BY <1>3 DEF Stage, IsReady
<1>5. \A p \in Pids \ {Shell} : Stage(p) = "unborn"
  BY <1>3 DEF Stage
<1> QED
  BY <1>2, <1>3, <1>4, <1>5 DEF Process!Init

(* What the invariant says of faults.                                      *)
LEMMA InvNoFault == ASSUME KernelInv PROVE NoFault
BY InvFacts DEF Queued, NoFault

-----------------------------------------------------------------------------
(* Whatever the user types in a plain session, and wherever the timer      *)
(* comes, the queues, the control blocks, the program counters and the     *)
(* jobs of the shell fit together.                                         *)
THEOREM KernelStaysSound == ASSUME PlainSession PROVE Spec => []KernelInv
<1>1. Init => KernelInv
  BY InitInv
<1>2. KernelInv /\ [Next]_vars => KernelInv'
  BY NextInv
<1> QED
  BY <1>1, <1>2, PTL DEF Spec

(* The variables keep their types: in particular pids, array positions and *)
(* the children a control block names stay in range.                       *)
THEOREM KernelTypes == ASSUME PlainSession PROVE Spec => []TypeOK
<1>1. KernelInv => TypeOK
  BY InvTypes
<1> QED
  BY <1>1, KernelStaysSound, PTL

(* The kernel never dereferences NULL and never walks round a list for     *)
(* ever: every look-up of a pid, and every unlinking of a process that the *)
(* scheduler and the wait make, finds what the calls before it left there. *)
THEOREM KernelDoesNotFault == ASSUME PlainSession PROVE Spec => []NoFault
<1>1. KernelInv => NoFault
  BY InvNoFault
<1> QED
  BY <1>1, KernelStaysSound, PTL

(* The six lists that share one next field stay lists, apart from each     *)
(* other, although a dequeue of the head empties its queue.                *)
THEOREM QueuesStayIntact == ASSUME PlainSession PROVE Spec => []QueuesIntact
<1>1. KernelInv => QueuesIntact
  BY InvQueues
<1> QED
  BY <1>1, KernelStaysSound, PTL

(* No process is lost or left behind: each is in the queue of its status.  *)
THEOREM ProcessesStayPlaced == ASSUME PlainSession PROVE Spec => []PlacedByStatus
<1>1. KernelInv => PlacedByStatus
  BY InvPlaced
<1> QED
  BY <1>1, KernelStaysSound, PTL

(* Whoever has the thread is the last of its queue, which is why taking it *)
(* off the queue when it blocks or ends drops nobody else.                 *)
THEOREM ActiveStaysLast == ASSUME PlainSession PROVE Spec => []ActiveIsLast
<1>1. KernelInv => ActiveIsLast
  BY InvLast
<1> QED
  BY <1>1, KernelStaysSound, PTL

(* No wakeup is lost: whoever is blocked has ticks to come, or a child     *)
(* that will still end and tell it.                                        *)
THEOREM BlockedAreWoken == ASSUME PlainSession PROVE Spec => []BlockedHasWaker
<1>1. KernelInv => BlockedHasWaker
  BY InvWaker
<1> QED
  BY <1>1, KernelStaysSound, PTL

(* The shell's jobs and the kernel agree although processes end at any     *)
(* time: a zombie the poll finds is a job, so looking it up finds it; each *)
(* job can be found by pid; and none is stopped for one and not the other. *)
THEOREM JobsStayMatched == ASSUME PlainSession PROVE Spec => []JobsMatchProcesses
<1>1. KernelInv => JobsMatchProcesses
  BY InvJobs
<1> QED
  BY <1>1, KernelStaysSound, PTL

(* Under the queues, the contexts and the clock each process leads the life *)
(* the kernel promises: it is born once, is never lost, ends for ever, and  *)
(* the thread idles only when nobody is ready.                              *)
THEOREM SessionIsLifecycle == ASSUME PlainSession PROVE Spec => ImplementsLifecycle
<1>1. Init => Process!Init
  BY LivesInit
<1>2. KernelInv /\ KernelInv' /\ [Next]_vars => [Process!Next]_<<LivesOf, activeContext>>
  BY NextInv, LivesNext
<1>3. [Process!Next]_<<LivesOf, activeContext>> => [Process!Next]_(Process!vars)
  BY DEF LivesOf, Process!vars
<1> QED
  BY <1>1, <1>2, <1>3, KernelStaysSound, PTL DEF Spec, ImplementsLifecycle, Process!Spec
=============================================================================
