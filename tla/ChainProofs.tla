----------------------------- MODULE ChainProofs -----------------------------
(***************************************************************************)
(* The chains of the directory and of the files, for every size of disk    *)
(* and any number of names and handles: they end, they share no block, no  *)
(* block is lost, and a reader's blocks stay its own.                      *)
(*                                                                         *)
(* First what the chains of the allocation table are, and what freeing,    *)
(* linking and extending do to them, for every table that fits             *)
(* FatAssumption; then the calls of module Fat.                            *)
(***************************************************************************)
EXTENDS FatProofs

(* Induction over the natural numbers, for a set: what is missing from it  *)
(* would have a first element.                                             *)
LEMMA SetInduction ==
    ASSUME NEW S \in SUBSET Nat, 0 \in S, \A n \in S : n + 1 \in S
    PROVE  S = Nat
<1> SUFFICES ASSUME S # Nat PROVE FALSE
  OBVIOUS
<1> DEFINE missing == Nat \ S
           m == First(missing)
<1>1. missing \in SUBSET Nat /\ missing # {}
  OBVIOUS
<1>2. m \in missing /\ \A f \in missing : m <= f
  <2> HIDE DEF missing
  <2> QED
    BY <1>1, FirstElement
<1> HIDE DEF m
<1>3. m # 0 /\ m - 1 \in Nat
  BY <1>2
<1>4. m - 1 \in S
  BY <1>2, <1>3
<1>5. (m - 1) + 1 \in S
  BY <1>4
<1> QED
  BY <1>2, <1>5

(* Induction up to a bound.                                                *)
LEMMA IntervalInduction ==
    ASSUME NEW n \in Nat, NEW S, 1 \in S, \A i \in 1..n - 1 : i \in S => i + 1 \in S
    PROVE  1..n \subseteq S
<1> DEFINE T == {i \in Nat : i + 1 <= n => i + 1 \in S}
<1>1. 0 \in T
  OBVIOUS
<1>2. \A i \in T : i + 1 \in T
  OBVIOUS
<1>3. T = Nat
  <2> HIDE DEF T
  <2>1. T \in SUBSET Nat
    BY DEF T
  <2> QED
    BY <1>1, <1>2, <2>1, SetInduction
<1>4. ASSUME NEW i \in 1..n PROVE i - 1 \in T
  <2> HIDE DEF T
  <2> QED
    BY <1>3
<1> QED
  BY <1>4

-----------------------------------------------------------------------------
(* One step along a chain.                                                 *)
Onward(table, at) == IF at \in Blocks THEN table[at] ELSE at

(* Walk is what its recursive definition says: such a function exists.     *)
LEMMA WalkExists ==
    ASSUME NEW table, NEW b
    PROVE  Walk(table, b) = [i \in 1..NEntries |->
                IF i = 1 THEN b ELSE Onward(table, Walk(table, b)[i - 1])]
<1> DEFINE Recursive(g, n) ==
               g = [i \in 1..n |-> IF i = 1 THEN b ELSE Onward(table, g[i - 1])]
           S == {n \in Nat : \E g : Recursive(g, n)}
<1>1. 0 \in S
  <2>1. Recursive([i \in 1..0 |-> b], 0)
    OBVIOUS
  <2> QED
    BY <2>1
<1>2. ASSUME NEW n \in S PROVE n + 1 \in S
  <2>1. PICK g : Recursive(g, n)
    OBVIOUS
  <2> DEFINE last == IF n = 0 THEN b ELSE Onward(table, g[n])
             longer == [i \in 1..n + 1 |-> IF i = n + 1 THEN last ELSE g[i]]
  <2>2. \A i \in 1..n : longer[i] = g[i] /\ g[i] = IF i = 1 THEN b ELSE Onward(table, g[i - 1])
    BY <2>1
  <2>3. \A i \in 1..n + 1 : longer[i] = IF i = 1 THEN b ELSE Onward(table, longer[i - 1])
    <3> TAKE i \in 1..n + 1
    <3>1. CASE i = n + 1
      BY <2>2, <3>1
    <3>2. CASE i # n + 1
      BY <2>2, <3>2
    <3> QED
      BY <3>1, <3>2
  <2>4. Recursive(longer, n + 1)
    BY <2>3
  <2> HIDE DEF Recursive, longer
  <2> QED
    BY <2>4
<1>3. S = Nat
  <2> HIDE DEF S
  <2>1. S \in SUBSET Nat
    BY DEF S
  <2> QED
    BY <1>1, <1>2, <2>1, SetInduction
<1>4. \E g : Recursive(g, NEntries)
  BY <1>3, FatAssumption
<1> QED
  BY <1>4 DEF Walk, Onward

(* Walk, step by step.                                                     *)
LEMMA WalkSteps ==
    ASSUME NEW table, NEW b
    PROVE  /\ 1 \in 1..NEntries /\ NEntries \in 1..NEntries
           /\ Walk(table, b)[1] = b
           /\ \A i \in 1..NEntries - 1 :
                 Walk(table, b)[i + 1] = Onward(table, Walk(table, b)[i])
<1> DEFINE w == Walk(table, b)
<1>1. w = [i \in 1..NEntries |-> IF i = 1 THEN b ELSE Onward(table, w[i - 1])]
  BY WalkExists
<1> HIDE DEF w
<1>2. 1 \in 1..NEntries /\ NEntries \in 1..NEntries
  BY FatAssumption
<1>3. w[1] = b
  BY <1>1, <1>2
<1>4. ASSUME NEW i \in 1..NEntries - 1 PROVE w[i + 1] = Onward(table, w[i])
  <2>1. i + 1 \in 1..NEntries /\ i + 1 # 1 /\ (i + 1) - 1 = i
    BY FatAssumption
  <2> QED
    BY <1>1, <2>1
<1> QED
  BY <1>2, <1>3, <1>4 DEF w

(* A walk that has left the blocks stays where it is.                      *)
LEMMA WalkStays ==
    ASSUME NEW table, NEW b, NEW i \in 1..NEntries, Walk(table, b)[i] \notin Blocks,
           NEW j \in i..NEntries
    PROVE  Walk(table, b)[j] = Walk(table, b)[i]
<1> DEFINE w == Walk(table, b)
           S == {k \in Nat : k < i \/ w[k] = w[i]}
<1>1. \A k \in 1..NEntries - 1 : w[k + 1] = Onward(table, w[k])
  BY WalkSteps
<1> HIDE DEF w
<1>2. 1 \in S
  BY FatAssumption
<1>3. ASSUME NEW k \in 1..NEntries - 1, k \in S PROVE k + 1 \in S
  <2>1. CASE k < i
    BY <2>1
  <2>2. CASE w[k] = w[i]
    BY <1>1, <2>2 DEF Onward, w
  <2> QED
    BY <1>3, <2>1, <2>2
<1>4. 1..NEntries \subseteq S
  <2> HIDE DEF S
  <2> QED
    BY <1>2, <1>3, FatAssumption, IntervalInduction
<1>5. j \in S
  <2> HIDE DEF S
  <2> QED
    BY <1>4
<1> QED
  BY <1>5 DEF w

(* A chain depends only on the links of its own blocks.                    *)
LEMMA ChainSame ==
    ASSUME NEW t, NEW u, NEW b, \A c \in Chain(t, b) : u[c] = t[c]
    PROVE  Chain(u, b) = Chain(t, b) /\ EndsInEOF(u, b) = EndsInEOF(t, b)
<1> DEFINE v == Walk(t, b)
           w == Walk(u, b)
           S == {i \in Nat : v[i] = w[i]}
<1>1. /\ v[1] = b /\ w[1] = b
      /\ \A i \in 1..NEntries - 1 : /\ v[i + 1] = Onward(t, v[i])
                                    /\ w[i + 1] = Onward(u, w[i])
      /\ NEntries \in 1..NEntries
  BY WalkSteps
<1>2. \A i \in 1..NEntries : v[i] \in Blocks => v[i] \in Chain(t, b)
  BY DEF Chain
<1> HIDE DEF v, w
<1>3. \A i \in 1..NEntries - 1 : i \in S => i + 1 \in S
  BY <1>1, <1>2 DEF Onward
<1>4. 1..NEntries \subseteq S
  <2>1. 1 \in S
    BY <1>1
  <2> HIDE DEF S
  <2> QED
    BY <1>3, <2>1, FatAssumption, IntervalInduction
<1>5. \A i \in 1..NEntries : v[i] = w[i]
  BY <1>4
<1> QED
  BY <1>1, <1>5 DEF Chain, EndsInEOF, v, w

(* A walk through n blocks that then meets the end mark is a chain.        *)
LEMMA WalkToEnd ==
    ASSUME NEW table, NEW b, NEW n \in 1..NEntries - 1,
           \A i \in 1..n : Walk(table, b)[i] \in Blocks,
           Walk(table, b)[n + 1] = FAT_EOF
    PROVE  /\ EndsInEOF(table, b)
           /\ Chain(table, b) = {Walk(table, b)[i] : i \in 1..n}
<1> DEFINE w == Walk(table, b)
<1>1. n + 1 \in 1..NEntries /\ NEntries \in n + 1..NEntries
  BY FatAssumption
<1>2. FAT_EOF \notin Blocks
  BY FatAssumption DEF Blocks
<1>3. \A j \in n + 1..NEntries : w[j] = FAT_EOF
  BY <1>1, <1>2, WalkStays
<1>4. \A j \in 1..NEntries : j \in 1..n \/ j \in n + 1..NEntries
  OBVIOUS
<1>5. \A j \in 1..n : j \in 1..NEntries
  BY FatAssumption
<1> QED
  BY <1>1, <1>2, <1>3, <1>4, <1>5 DEF EndsInEOF, Chain

(* A walk through n different blocks, the last of which has the end mark.  *)
IsWalk(table, b, n) ==
    LET w == Walk(table, b) IN
    /\ n \in 1..NEntries - 1
    /\ \A i \in 1..n : w[i] \in Blocks
    /\ w[n + 1] = FAT_EOF
    /\ \A i, j \in 1..n : w[i] = w[j] => i = j
    /\ \A i \in 1..n : table[w[i]] = w[i + 1]

(* A chain that ends is such a walk.                                       *)
LEMMA ChainIsWalk ==
    ASSUME NEW table, NEW b \in Blocks, EndsInEOF(table, b)
    PROVE  \E n : IsWalk(table, b, n)
<1> DEFINE w == Walk(table, b)
           ends == {i \in 1..NEntries : w[i] \notin Blocks}
           f == First(ends)
           n == f - 1
<1>1. /\ NEntries \in 1..NEntries /\ w[1] = b
      /\ \A i \in 1..NEntries - 1 : w[i + 1] = Onward(table, w[i])
  BY WalkSteps
<1>2. FAT_EOF \notin Blocks
  BY FatAssumption DEF Blocks
<1>3. w[NEntries] = FAT_EOF
  BY DEF EndsInEOF
<1>4. \A i \in 1..NEntries : \A j \in i..NEntries : w[i] \notin Blocks => w[j] = w[i]
  BY WalkStays
<1> HIDE DEF w
<1>5. ends \in SUBSET Nat /\ ends # {}
  BY <1>1, <1>2, <1>3, FatAssumption
<1>6. f \in ends /\ \A i \in ends : f <= i
  <2> HIDE DEF ends
  <2> QED
    BY <1>5, FirstElement
<1>7. f \in 1..NEntries /\ w[f] = FAT_EOF /\ f # 1
  <2>1. f \in 1..NEntries /\ w[f] \notin Blocks
    BY <1>6
  <2> HIDE DEF f
  <2>2. NEntries \in f..NEntries
    BY <2>1, FatAssumption
  <2> QED
    BY <1>1, <1>3, <1>4, <2>1, <2>2
<1>8. \A i \in 1..NEntries : i < f => w[i] \in Blocks
  <2>1. \A i \in 1..NEntries : w[i] \notin Blocks => f <= i
    BY <1>6
  <2> HIDE DEF f
  <2> QED
    BY <1>7, <2>1
<1> HIDE DEF f
<1>9. n \in 1..NEntries - 1 /\ \A i \in 1..n : i \in 1..NEntries - 1 /\ i < f
  BY <1>7, FatAssumption
<1>10. \A i \in 1..n : w[i] \in Blocks /\ table[w[i]] = w[i + 1]
  BY <1>1, <1>8, <1>9 DEF Onward
<1>11. ASSUME NEW i \in 1..n, NEW j \in 1..n, w[i] = w[j], i < j PROVE FALSE
  <2> DEFINE S == {k \in Nat : j + k - 1 <= f => w[i + k - 1] = w[j + k - 1]}
  <2>1. 1 \in S
    BY <1>11
  <2>2. ASSUME NEW k \in 1..NEntries - 1, k \in S PROVE k + 1 \in S
    <3>1. CASE j + k <= f
      <4>1. j + k - 1 \in 1..n /\ i + k - 1 \in 1..n
        BY <1>11, <2>2, <3>1, <1>7
      <4>2. w[i + k - 1] = w[j + k - 1]
        BY <2>2, <3>1, <1>7
      <4>3. table[w[i + k - 1]] = w[(i + k - 1) + 1] /\ table[w[j + k - 1]] = w[(j + k - 1) + 1]
        BY <1>10, <4>1
      <4>4. (i + k - 1) + 1 = i + (k + 1) - 1 /\ (j + k - 1) + 1 = j + (k + 1) - 1
        OBVIOUS
      <4> QED
        BY <4>2, <4>3, <4>4
    <3>2. CASE ~(j + k <= f)
      BY <1>7, <3>2
    <3> QED
      BY <3>1, <3>2
  <2>3. 1..NEntries \subseteq S
    <3> HIDE DEF S
    <3> QED
      BY <2>1, <2>2, FatAssumption, IntervalInduction
  <2>4. f - j + 1 \in S
    <3>1. f - j + 1 \in 1..NEntries
      BY <1>7, <1>11, FatAssumption
    <3> HIDE DEF S
    <3> QED
      BY <2>3, <3>1
  <2>5. w[i + f - j] = w[f]
    <3>1. j + (f - j + 1) - 1 = f /\ i + (f - j + 1) - 1 = i + f - j
      BY <1>7
    <3> QED
      BY <2>4, <3>1, <1>7
  <2>6. i + f - j \in 1..n
    BY <1>7, <1>11
  <2> QED
    BY <1>2, <1>7, <1>10, <2>5, <2>6
<1>12. \A i, j \in 1..n : w[i] = w[j] => i = j
  <2> SUFFICES ASSUME NEW i \in 1..n, NEW j \in 1..n, w[i] = w[j] PROVE i = j
    OBVIOUS
  <2>1. i < j \/ j < i \/ i = j
    OBVIOUS
  <2> QED
    BY <1>11, <2>1
<1>13. w[n + 1] = FAT_EOF
  BY <1>7
<1> QED
  BY <1>9, <1>10, <1>12, <1>13 DEF IsWalk, w

(* What the blocks of such a walk are, and how many.                       *)
LEMMA WalkChain ==
    ASSUME NEW table \in Tables, NEW b, NEW n, IsWalk(table, b, n)
    PROVE  /\ EndsInEOF(table, b)
           /\ Chain(table, b) = {Walk(table, b)[i] : i \in 1..n}
           /\ IsFiniteSet(Chain(table, b)) /\ Cardinality(Chain(table, b)) = n
           /\ b \in Blocks /\ b \in Chain(table, b)
           /\ \A i \in 1..n : table[Walk(table, b)[i]] = FAT_EOF <=> i = n
<1> DEFINE w == Walk(table, b)
           C == Chain(table, b)
<1>1. /\ n \in 1..NEntries - 1
      /\ \A i \in 1..n : w[i] \in Blocks /\ table[w[i]] = w[i + 1]
      /\ w[n + 1] = FAT_EOF
      /\ \A i, j \in 1..n : w[i] = w[j] => i = j
  BY DEF IsWalk
<1>2. EndsInEOF(table, b) /\ C = {w[i] : i \in 1..n}
  BY <1>1, WalkToEnd
<1>3. w[1] = b
  BY WalkSteps
<1>4. n \in Nat /\ 1 \in 1..n /\ n \in 1..n
  BY <1>1, FatAssumption
<1> HIDE DEF w, C
<1>5. b \in Blocks /\ b \in C
  BY <1>1, <1>2, <1>3, <1>4
<1>6. IsFiniteSet(C) /\ Cardinality(C) = n
  <2> DEFINE g == [i \in 1..n |-> w[i]]
  <2>1. g \in Surjection(1..n, C) /\ g \in Injection(1..n, C)
    BY <1>1, <1>2 DEF Surjection, Injection, IsInjective
  <2>2. IsFiniteSet(1..n) /\ Cardinality(1..n) = n
    BY <1>4, FS_Interval
  <2> HIDE DEF g
  <2> QED
    BY <2>1, <2>2, FS_Surjection
<1>7. \A i \in 1..n : table[w[i]] = FAT_EOF <=> i = n
  <2> TAKE i \in 1..n
  <2>1. CASE i = n
    BY <1>1, <2>1
  <2>2. CASE i # n
    <3>1. i + 1 \in 1..n
      BY <1>4, <2>2
    <3>2. w[i + 1] \in Blocks
      BY <1>1, <3>1
    <3> QED
      BY <1>1, <2>2, <3>2, FatAssumption DEF Blocks
  <2> QED
    BY <2>1, <2>2
<1> QED
  BY <1>2, <1>5, <1>6, <1>7 DEF w, C

(* A chain that ends has one last block; the others lead to its blocks, and *)
(* none of them is free.                                                   *)
LEMMA ChainLinks ==
    ASSUME NEW table \in Tables, NEW b \in Blocks, EndsInEOF(table, b)
    PROVE  /\ Chain(table, b) \subseteq Blocks /\ b \in Chain(table, b)
           /\ IsFiniteSet(Chain(table, b)) /\ Cardinality(Chain(table, b)) \in Nat \ {0}
           /\ \E last \in Chain(table, b) : table[last] = FAT_EOF
           /\ \A c, d \in Chain(table, b) : table[c] = FAT_EOF /\ table[d] = FAT_EOF => c = d
           /\ Chain(table, b) \cap Free(table) = {}
<1> DEFINE w == Walk(table, b)
<1>1. PICK n : IsWalk(table, b, n)
  BY ChainIsWalk
<1>2. /\ Chain(table, b) = {w[i] : i \in 1..n}
      /\ IsFiniteSet(Chain(table, b)) /\ Cardinality(Chain(table, b)) = n
      /\ b \in Chain(table, b)
      /\ \A i \in 1..n : table[w[i]] = FAT_EOF <=> i = n
  BY <1>1, WalkChain
<1>3. n \in 1..NEntries - 1 /\ n \in 1..n /\ n \in Nat \ {0}
  BY <1>1, FatAssumption DEF IsWalk
<1>4. \A i \in 1..n : w[i] \in Blocks /\ table[w[i]] = w[i + 1] /\ w[n + 1] = FAT_EOF
  BY <1>1 DEF IsWalk
<1> HIDE DEF w
<1>5. ASSUME NEW i \in 1..n PROVE table[w[i]] # FAT_FREE
  <2>1. CASE i = n
    BY <1>4, <2>1, FatAssumption DEF FAT_FREE
  <2>2. CASE i # n
    <3>1. i + 1 \in 1..n
      BY <1>3, <2>2
    <3> QED
      BY <1>4, <3>1 DEF Blocks, FAT_FREE
  <2> QED
    BY <2>1, <2>2
<1> QED
  BY <1>2, <1>3, <1>4, <1>5 DEF Chain, Free

-----------------------------------------------------------------------------
(* One more block behind the last block of a chain.                        *)
AppendBlock(table, last, f) == [table EXCEPT ![last] = f, ![f] = FAT_EOF]

(* A block that is in nobody's chain, put behind the last one, is added to *)
(* the chain, and no other chain changes.                                  *)
LEMMA AppendOne ==
    ASSUME NEW table \in Tables, NEW b \in Blocks, EndsInEOF(table, b),
           NEW last \in Chain(table, b), table[last] = FAT_EOF,
           NEW f \in Free(table)
    PROVE  /\ AppendBlock(table, last, f) \in Tables
           /\ EndsInEOF(AppendBlock(table, last, f), b)
           /\ Chain(AppendBlock(table, last, f), b) = Chain(table, b) \cup {f}
<1> DEFINE u == AppendBlock(table, last, f)
           v == Walk(table, b)
           w == Walk(u, b)
<1>1. PICK n : IsWalk(table, b, n)
  BY ChainIsWalk
<1>2. /\ n \in 1..NEntries - 1
      /\ \A i \in 1..n : v[i] \in Blocks /\ table[v[i]] = v[i + 1]
      /\ \A i, j \in 1..n : v[i] = v[j] => i = j
  BY <1>1 DEF IsWalk
<1>3. /\ Chain(table, b) = {v[i] : i \in 1..n}
      /\ IsFiniteSet(Chain(table, b)) /\ Cardinality(Chain(table, b)) = n
      /\ \A i \in 1..n : table[v[i]] = FAT_EOF <=> i = n
  BY <1>1, WalkChain
<1>4. f \in Blocks /\ f \notin Chain(table, b) /\ f # last
  BY ChainLinks DEF Free
<1>5. last \in Blocks /\ u \in Tables
  BY <1>4 DEF Tables, Chain, AppendBlock
<1>6. n + 1 \in 1..NEntries - 1
  <2>1. Chain(table, b) \in SUBSET (Blocks \ {f})
    BY <1>4 DEF Chain
  <2>2. IsFiniteSet(Blocks) /\ Cardinality(Blocks) = NEntries - 1
    BY FatAssumption, FS_Interval DEF Blocks
  <2>3. IsFiniteSet(Blocks \ {f}) /\ Cardinality(Blocks \ {f}) = NEntries - 2
    BY <1>4, <2>2, FS_RemoveElement, FatAssumption
  <2>4. n <= NEntries - 2
    BY <1>3, <2>1, <2>3, FS_Subset
  <2> QED
    BY <1>2, <2>4, FatAssumption
<1>7. \A i \in 1..NEntries - 1 : w[i + 1] = Onward(u, w[i])
  BY WalkSteps
<1>8. v[1] = b /\ w[1] = b
  BY WalkSteps
<1>9. v[n] = last
  BY <1>3
<1> HIDE DEF v, w
<1>10. /\ u[last] = f /\ u[f] = FAT_EOF
       /\ \A c \in Blocks \ {last, f} : u[c] = table[c]
  BY <1>4, <1>5 DEF Tables, AppendBlock
<1> HIDE DEF u
<1>11. \A i \in 1..n : w[i] = v[i]
  <2> DEFINE S == {i \in Nat : w[i] = v[i]}
  <2>1. 1 \in S
    BY <1>8
  <2>2. ASSUME NEW i \in 1..n - 1, i \in S PROVE i + 1 \in S
    <3>1. i \in 1..n /\ i # n /\ i \in 1..NEntries - 1
      BY <1>2, FatAssumption
    <3>2. v[i] \in Blocks /\ v[i] # last /\ v[i] # f
      BY <1>2, <1>3, <1>4, <1>9, <3>1
    <3>3. w[i] = v[i]
      BY <2>2
    <3>4. w[i + 1] = v[i + 1]
      BY <1>2, <1>7, <1>10, <3>1, <3>2, <3>3 DEF Onward
    <3> QED
      BY <3>4
  <2>3. 1..n \subseteq S
    <3> HIDE DEF S
    <3> QED
      BY <1>2, <2>1, <2>2, FatAssumption, IntervalInduction
  <2> QED
    BY <2>3
<1>12. n \in 1..n /\ n \in 1..NEntries - 1 /\ (n + 1) + 1 = n + 2
  BY <1>2, FatAssumption
<1>13. w[n + 1] = f
  BY <1>5, <1>7, <1>9, <1>10, <1>11, <1>12 DEF Onward
<1>14. w[(n + 1) + 1] = FAT_EOF
  BY <1>4, <1>6, <1>7, <1>10, <1>13 DEF Onward
<1>15. \A i \in 1..n + 1 : i \in 1..n \/ i = n + 1
  BY <1>12
<1>16. \A i \in 1..n + 1 : w[i] \in Blocks
  BY <1>2, <1>4, <1>11, <1>13, <1>15
<1>17. EndsInEOF(u, b) /\ Chain(u, b) = {w[i] : i \in 1..n + 1}
  BY <1>6, <1>14, <1>16, WalkToEnd DEF w
<1>18. {w[i] : i \in 1..n + 1} = {v[i] : i \in 1..n} \cup {f}
  <2>1. \A i \in 1..n : i \in 1..n + 1
    BY <1>12
  <2>2. n + 1 \in 1..n + 1
    BY <1>12
  <2> QED
    BY <1>11, <1>13, <1>15, <2>1, <2>2
<1> QED
  BY <1>3, <1>5, <1>17, <1>18 DEF u

(* The blocks of a set behind block b.                                     *)
Above(S, b) == {c \in S : c > b}

(* The links LinkAfter leaves behind.                                      *)
LEMMA LinkValues ==
    ASSUME NEW table, NEW last, NEW new, NEW b \in Blocks
    PROVE  /\ b \notin new /\ b # last => LinkAfter(table, last, new)[b] = table[b]
           /\ b = last /\ new # {} => LinkAfter(table, last, new)[b] = First(new)
           /\ b = last /\ new = {} => LinkAfter(table, last, new)[b] = FAT_EOF
           /\ b \in new /\ b # last =>
                  LinkAfter(table, last, new)[b] =
                      IF Above(new, b) # {} THEN First(Above(new, b)) ELSE FAT_EOF
<1> DEFINE later == {c \in new : b = last \/ c > b}
           value == CASE b \notin new \cup {last} -> table[b]
                      [] b \in new \cup {last} /\ later # {} -> First(later)
                      [] OTHER -> FAT_EOF
<1>1. LinkAfter(table, last, new)[b] = value
  BY DEF LinkAfter
<1>2. b = last => later = new
  OBVIOUS
<1>3. b # last => later = Above(new, b)
  BY DEF Above
<1> QED
  BY <1>1, <1>2, <1>3

(* Linking the blocks of a set is linking its first one, then the others   *)
(* behind that.                                                            *)
LEMMA LinkFirst ==
    ASSUME NEW table \in Tables, NEW last \in Blocks \ Free(table),
           NEW new \in SUBSET Free(table), new # {}
    PROVE  LinkAfter(table, last, new) =
               LinkAfter(AppendBlock(table, last, First(new)), First(new), new \ {First(new)})
<1> DEFINE f == First(new)
           u == AppendBlock(table, last, f)
           left == LinkAfter(table, last, new)
           right == LinkAfter(u, f, new \ {f})
<1>1. new \in SUBSET Nat /\ new \in SUBSET Blocks /\ last \notin new
  BY BlocksFinite DEF Free
<1>2. f \in new /\ \A c \in new : f <= c
  BY <1>1, FirstElement
<1>3. f # last /\ f \in Blocks
  BY <1>1, <1>2
<1>4. u[last] = f /\ \A c \in Blocks \ {last, f} : u[c] = table[c]
  BY <1>3 DEF Tables, AppendBlock
<1> SUFFICES ASSUME NEW c \in Blocks PROVE left[c] = right[c]
  BY DEF LinkAfter
<1> HIDE DEF u
<1>5. CASE c \notin new \cup {last}
  <2>1. left[c] = table[c]
    BY <1>5, LinkValues
  <2>2. c \notin new \ {f} /\ c # f
    BY <1>2, <1>5
  <2> HIDE DEF f
  <2>3. right[c] = u[c]
    BY <2>2, LinkValues
  <2> QED
    BY <1>4, <1>5, <2>1, <2>2, <2>3
<1>6. CASE c = last
  <2>1. left[c] = f
    BY <1>6, LinkValues
  <2>2. c \notin new \ {f} /\ c # f
    BY <1>1, <1>2, <1>6
  <2> HIDE DEF f
  <2>3. right[c] = u[c]
    BY <2>2, LinkValues
  <2> QED
    BY <1>4, <1>6, <2>1, <2>3
<1>7. CASE c \in new
  <2>1. c # last
    BY <1>1, <1>7
  <2>2. left[c] = IF Above(new, c) # {} THEN First(Above(new, c)) ELSE FAT_EOF
    BY <1>7, <2>1, LinkValues
  <2> HIDE DEF f
  <2>3. CASE c = f
    <3>1. Above(new, c) = new \ {f}
      <4>1. \A d \in new : d > c <=> d # f
        BY <1>1, <1>2, <2>3
      <4> QED
        BY <4>1 DEF Above
    <3>2. right[c] = IF new \ {f} # {} THEN First(new \ {f}) ELSE FAT_EOF
      BY <2>3, LinkValues
    <3> QED
      BY <2>2, <3>1, <3>2
  <2>4. CASE c # f
    <3> DEFINE rest == new \ {f}
    <3>1. c \in rest
      BY <1>7, <2>4
    <3>2. Above(new, c) = Above(rest, c)
      BY <1>1, <1>2, <1>7 DEF Above
    <3> HIDE DEF rest
    <3>3. LinkAfter(u, f, rest)[c] = IF Above(rest, c) # {} THEN First(Above(rest, c)) ELSE FAT_EOF
      BY <2>4, <3>1, LinkValues
    <3> USE DEF rest
    <3> QED
      BY <2>2, <3>2, <3>3
  <2> QED
    BY <2>3, <2>4
<1> QED
  BY <1>5, <1>6, <1>7

(* Linking a set of free blocks behind the last block of a chain: the      *)
(* chain has them all, still ends, and no other block is touched.          *)
LEMMA LinkChain ==
    ASSUME NEW table \in Tables, NEW b \in Blocks, EndsInEOF(table, b),
           NEW last \in Chain(table, b), table[last] = FAT_EOF,
           NEW new \in SUBSET Free(table)
    PROVE  LET u == LinkAfter(table, last, new) IN
           /\ EndsInEOF(u, b)
           /\ Chain(u, b) = Chain(table, b) \cup new
<1> DEFINE Linked(t, l, S) ==
               /\ EndsInEOF(LinkAfter(t, l, S), b)
               /\ Chain(LinkAfter(t, l, S), b) = Chain(t, b) \cup S
           Works(k) == \A t \in Tables : \A l \in Chain(t, b) : \A S \in SUBSET Free(t) :
               EndsInEOF(t, b) /\ t[l] = FAT_EOF /\ IsFiniteSet(S) /\ Cardinality(S) = k
                   => Linked(t, l, S)
           N == {k \in Nat : Works(k)}
<1>1. 0 \in N
  <2> SUFFICES ASSUME NEW t \in Tables, NEW l \in Chain(t, b), NEW S \in SUBSET Free(t),
                      EndsInEOF(t, b), t[l] = FAT_EOF, IsFiniteSet(S), Cardinality(S) = 0
               PROVE  Linked(t, l, S)
    OBVIOUS
  <2>1. S = {}
    BY FS_EmptySet
  <2>2. l \in Blocks
    BY DEF Chain
  <2>3. \A c \in Blocks : LinkAfter(t, l, S)[c] = t[c]
    BY <2>1, LinkValues
  <2>4. LinkAfter(t, l, S) = t
    BY <2>3 DEF LinkAfter, Tables
  <2> QED
    BY <2>1, <2>4
<1>2. ASSUME NEW k \in N PROVE k + 1 \in N
  <2> SUFFICES ASSUME NEW t \in Tables, NEW l \in Chain(t, b), NEW S \in SUBSET Free(t),
                      EndsInEOF(t, b), t[l] = FAT_EOF, IsFiniteSet(S), Cardinality(S) = k + 1
               PROVE  Linked(t, l, S)
    OBVIOUS
  <2> DEFINE f == First(S)
             u == AppendBlock(t, l, f)
  <2>1. S # {} /\ k \in Nat
    BY FS_EmptySet
  <2>0. Works(k)
    OBVIOUS
  <2> HIDE DEF Linked, Works, N
  <2>2. S \in SUBSET Nat
    BY BlocksFinite DEF Free
  <2>3. f \in S /\ f \in Free(t)
    BY <2>1, <2>2, FirstElement
  <2>4. l \in Blocks \ Free(t)
    BY ChainLinks DEF Chain
  <2>5. LinkAfter(t, l, S) = LinkAfter(u, f, S \ {f})
    BY <2>1, <2>4, LinkFirst
  <2> HIDE DEF f
  <2>6. u \in Tables /\ EndsInEOF(u, b) /\ Chain(u, b) = Chain(t, b) \cup {f}
    BY <2>3, AppendOne
  <2>7. IsFiniteSet(S \ {f}) /\ Cardinality(S \ {f}) = k
    <3>1. IsFiniteSet(S \ {f}) /\ Cardinality(S \ {f}) = Cardinality(S) - 1
      <4> HIDE DEF u
      <4> QED
        BY <2>3, FS_RemoveElement
    <3> QED
      BY <2>1, <3>1
  <2>8. f \in Chain(u, b) /\ u[f] = FAT_EOF
    BY <2>3, <2>4, <2>6 DEF Free, Tables, AppendBlock
  <2>9. S \ {f} \in SUBSET Free(u)
    <3>1. \A c \in Blocks \ {l, f} : u[c] = t[c]
      BY <2>3, <2>4 DEF Tables, Free, AppendBlock
    <3> QED
      BY <2>4, <3>1 DEF Free
  <2> HIDE DEF u
  <2>10. Linked(u, f, S \ {f})
    BY <2>0, <2>1, <2>6, <2>7, <2>8, <2>9 DEF Works
  <2> QED
    BY <2>3, <2>5, <2>6, <2>10 DEF Linked
<1>3. N = Nat
  <2> HIDE DEF Works
  <2>1. N \in SUBSET Nat
    OBVIOUS
  <2> HIDE DEF N
  <2> QED
    BY <1>1, <1>2, <2>1, SetInduction
<1>4. IsFiniteSet(new) /\ Cardinality(new) \in Nat
  BY BlocksFinite, FS_Subset, FS_CardinalityType DEF Free
<1>5. Works(Cardinality(new))
  <2> HIDE DEF Works
  <2> QED
    BY <1>3, <1>4
<1> QED
  BY <1>4, <1>5

(* The blocks that are linked are not free any more, no other block gets a *)
(* new link.                                                               *)
LEMMA LinkFrame ==
    ASSUME NEW table \in Tables, NEW last \in Blocks, NEW new \in SUBSET Free(table),
           table[last] = FAT_EOF
    PROVE  LET u == LinkAfter(table, last, new) IN
           /\ u \in Tables
           /\ \A c \in Blocks : c \notin new /\ c # last => u[c] = table[c]
           /\ Free(u) = Free(table) \ new
<1> DEFINE u == LinkAfter(table, last, new)
<1>1. new \in SUBSET Nat /\ new \in SUBSET Blocks
  BY BlocksFinite DEF Free
<1>2. 0 \notin Blocks /\ FAT_EOF \notin Blocks /\ FAT_EOF # 0 /\ FAT_FREE = 0
  BY FatAssumption DEF Blocks, FAT_FREE
<1>3. \A c \in Blocks : c \notin new /\ c # last => u[c] = table[c]
  BY LinkValues
<1>4. ASSUME NEW S \in SUBSET new, S # {} PROVE First(S) \in Blocks
  BY <1>1, <1>4, FirstElement
<1>5. ASSUME NEW c \in Blocks, c \in new \/ c = last PROVE u[c] \in Blocks \cup {FAT_EOF}
  <2>1. CASE c = last
    BY <1>4, <2>1, LinkValues
  <2>2. CASE c \in new /\ c # last
    <3>1. Above(new, c) \in SUBSET new
      BY DEF Above
    <3> QED
      BY <1>4, <2>2, <3>1, LinkValues
  <2> QED
    BY <1>5, <2>1, <2>2
<1>6. DOMAIN u = Blocks /\ u = [c \in Blocks |-> u[c]]
  BY DEF LinkAfter
<1> HIDE DEF u
<1>7. u \in Tables
  <2>1. \A c \in Blocks : u[c] \in Blocks \cup {FAT_FREE, FAT_EOF}
    BY <1>3, <1>5 DEF Tables
  <2> QED
    BY <1>6, <2>1 DEF Tables
<1>8. \A c \in Blocks : u[c] = FAT_FREE <=> table[c] = FAT_FREE /\ c \notin new
  BY <1>1, <1>2, <1>3, <1>5
<1> QED
  BY <1>3, <1>7, <1>8 DEF Free, u

(* What fs_extendblk does to the chain it is asked to extend, whether or   *)
(* not the disk has enough free blocks: some of them, the directory's one  *)
(* block if there is one, go to that chain; nothing else changes.          *)
LEMMA ExtendedChain ==
    ASSUME NEW table \in Tables, NEW b \in Blocks, EndsInEOF(table, b), NEW n \in Int
    PROVE  LET u == fs_extendblk(table, b, n)
               new == IF n <= Cardinality(Chain(table, b)) THEN {}
                      ELSE LowestFree(table, n - Cardinality(Chain(table, b)))
           IN  /\ u \in Tables
               /\ EndsInEOF(u, b)
               /\ Chain(u, b) = Chain(table, b) \cup new
               /\ Free(u) = Free(table) \ new
               /\ new \in SUBSET Free(table)
               /\ \A c \in Blocks : c \notin Chain(table, b) /\ c \notin new
                      => u[c] = table[c]
<1> DEFINE size == Cardinality(Chain(table, b))
           new == IF n <= size THEN {} ELSE LowestFree(table, n - size)
           last == CHOOSE c \in Chain(table, b) : table[c] = FAT_EOF
<1>1. size \in Nat
  BY ChainLinks
<1>2. last \in Chain(table, b) /\ table[last] = FAT_EOF /\ last \in Blocks
  BY ChainLinks
<1>3. new \in SUBSET Free(table)
  BY DEF LowestFree
<1>4. CASE n <= size
  <2>1. n - size <= 0
    BY <1>1, <1>4
  <2>2. fs_extendblk(table, b, n) = table
    BY <2>1 DEF fs_extendblk
  <2> QED
    BY <1>4, <2>2
<1>5. CASE ~(n <= size)
  <2>1. ~(n - size <= 0)
    BY <1>1, <1>5
  <2>2. fs_extendblk(table, b, n) = LinkAfter(table, last, new)
    BY <1>5, <2>1 DEF fs_extendblk
  <2> HIDE DEF last, new
  <2>3. /\ EndsInEOF(LinkAfter(table, last, new), b)
        /\ Chain(LinkAfter(table, last, new), b) = Chain(table, b) \cup new
    BY <1>2, <1>3, LinkChain
  <2>4. /\ LinkAfter(table, last, new) \in Tables
        /\ \A c \in Blocks : c \notin new /\ c # last => LinkAfter(table, last, new)[c] = table[c]
        /\ Free(LinkAfter(table, last, new)) = Free(table) \ new
    BY <1>2, <1>3, LinkFrame
  <2> QED
    BY <1>2, <1>3, <2>2, <2>3, <2>4 DEF new
<1> QED
  BY <1>4, <1>5

(* The lowest free block is one block.                                     *)
LEMMA LowestOne ==
    ASSUME NEW table, Free(table) # {}
    PROVE  LowestFree(table, 1) = {First(Free(table))}
<1> DEFINE F == Free(table)
           f == First(F)
           Below(b) == {c \in F : c < b}
<1>1. F \in SUBSET Nat /\ IsFiniteSet(F)
  BY BlocksFinite, FS_Subset DEF Free
<1>2. f \in F /\ \A c \in F : f <= c
  BY <1>1, FirstElement
<1>3. LowestFree(table, 1) = {b \in F : Cardinality(Below(b)) < 1}
  BY DEF LowestFree
<1> HIDE DEF F, f
<1>4. ASSUME NEW b \in F PROVE Cardinality(Below(b)) < 1 <=> b = f
  <2>1. IsFiniteSet(Below(b)) /\ Cardinality(Below(b)) \in Nat
    BY <1>1, FS_Subset, FS_CardinalityType
  <2>2. Cardinality(Below(b)) < 1 <=> Cardinality(Below(b)) = 0
    BY <2>1
  <2>3. Cardinality(Below(b)) = 0 <=> Below(b) = {}
    BY <2>1, FS_EmptySet
  <2>4. Below(b) = {} <=> b = f
    <3>1. f < b \/ b = f
      BY <1>1, <1>2
    <3>2. f < b => f \in Below(b)
      BY <1>2
    <3>3. b = f => Below(b) = {}
      <4>1. \A c \in F : ~(c < f)
        BY <1>1, <1>2
      <4> QED
        BY <4>1
    <3>4. f < b => b # f
      BY <1>1, <1>2
    <3> QED
      BY <3>1, <3>2, <3>3, <3>4
  <2> QED
    BY <2>2, <2>3, <2>4
<1> HIDE DEF Below
<1> QED
  BY <1>2, <1>3, <1>4 DEF F, f

-----------------------------------------------------------------------------
(* A table laid out for the chains that start at the blocks of B: each of  *)
(* them ends, no two meet, and together they are all blocks in use.        *)
Layout(table, B) ==
    /\ table \in Tables /\ B \in SUBSET Blocks
    /\ \A b \in B : EndsInEOF(table, b)
    /\ \A b, c \in B : b # c => Chain(table, b) \cap Chain(table, c) = {}
    /\ \A d \in Blocks : d \in Free(table) <=> \A b \in B : d \notin Chain(table, b)

(* A file without blocks has no chain, and freeing it changes nothing.     *)
LEMMA NoChain ==
    ASSUME NEW table \in Tables
    PROVE  Chain(table, 0) = {} /\ fs_freeblk(table, 0) = table
<1> DEFINE w == Walk(table, 0)
<1>1. w[1] = 0 /\ 1 \in 1..NEntries
  BY WalkSteps
<1>2. 0 \notin Blocks
  BY DEF Blocks
<1>3. \A j \in 1..NEntries : w[j] = 0
  BY <1>1, <1>2, WalkStays
<1>4. Chain(table, 0) = {}
  BY <1>2, <1>3 DEF Chain
<1>5. fs_freeblk(table, 0) = [c \in Blocks |-> table[c]]
  BY <1>4 DEF fs_freeblk
<1> QED
  BY <1>4, <1>5 DEF Tables

(* Freeing one of the chains leaves the others laid out, as they were.     *)
LEMMA LayoutFree ==
    ASSUME NEW table, NEW B, Layout(table, B), NEW b \in B
    PROVE  LET u == fs_freeblk(table, b) IN
           /\ Layout(u, B \ {b})
           /\ \A c \in B \ {b} : Chain(u, c) = Chain(table, c)
           /\ \A c \in Blocks \ Chain(table, b) : u[c] = table[c]
<1> DEFINE u == fs_freeblk(table, b)
<1>0. /\ table \in Tables /\ B \in SUBSET Blocks
      /\ \A c \in B : EndsInEOF(table, c)
      /\ \A c, d \in B : c # d => Chain(table, c) \cap Chain(table, d) = {}
      /\ \A d \in Blocks : d \in Free(table) <=> \A c \in B : d \notin Chain(table, c)
  BY DEF Layout
<1>1. /\ u \in Tables
      /\ \A c \in Blocks \ Chain(table, b) : u[c] = table[c]
      /\ \A c \in Chain(table, b) : u[c] = FAT_FREE
  BY <1>0, FreedTable DEF fs_freeblk, Chain
<1> HIDE DEF u
<1>2. ASSUME NEW c \in B \ {b}
      PROVE  Chain(u, c) = Chain(table, c) /\ EndsInEOF(u, c)
  <2>1. \A d \in Chain(table, c) : d \in Blocks \ Chain(table, b)
    BY <1>0 DEF Chain
  <2>2. \A d \in Chain(table, c) : u[d] = table[d]
    BY <1>1, <2>1
  <2> QED
    BY <1>0, <2>2, ChainSame
<1>3. Free(u) = Free(table) \cup Chain(table, b)
  BY <1>1 DEF Free, Chain
<1>4. \A d \in Blocks : d \in Free(u) <=> \A c \in B \ {b} : d \notin Chain(table, c)
  BY <1>0, <1>3
<1>5. Layout(u, B \ {b})
  BY <1>0, <1>1, <1>2, <1>4 DEF Layout
<1> QED
  BY <1>1, <1>2, <1>5 DEF u

(* Block f marked as the end of a chain.                                   *)
MarkEnd(table, f) == [table EXCEPT ![f] = FAT_EOF]

(* A free block marked so is a chain of its own.                           *)
LEMMA LayoutNew ==
    ASSUME NEW table, NEW B, Layout(table, B), NEW f \in Free(table)
    PROVE  LET u == MarkEnd(table, f) IN
           /\ Layout(u, B \cup {f})
           /\ f \notin B /\ Chain(u, f) = {f} /\ f \in Blocks
           /\ \A c \in B : Chain(u, c) = Chain(table, c)
           /\ \A c \in Blocks \ {f} : u[c] = table[c]
           /\ Free(u) = Free(table) \ {f}
<1> DEFINE u == MarkEnd(table, f)
           w == Walk(u, f)
<1>0. /\ table \in Tables /\ B \in SUBSET Blocks
      /\ \A c \in B : EndsInEOF(table, c)
      /\ \A c, d \in B : c # d => Chain(table, c) \cap Chain(table, d) = {}
      /\ \A d \in Blocks : d \in Free(table) <=> \A c \in B : d \notin Chain(table, c)
  BY DEF Layout
<1>1. f \in Blocks /\ FAT_EOF # FAT_FREE
  BY FatAssumption DEF Free, FAT_FREE
<1>2. u \in Tables /\ u[f] = FAT_EOF /\ \A c \in Blocks \ {f} : u[c] = table[c]
  BY <1>0, <1>1 DEF Tables, MarkEnd
<1>3. w[1] = f /\ \A i \in 1..NEntries - 1 : w[i + 1] = Onward(u, w[i])
  BY WalkSteps
<1> HIDE DEF u, w
<1>4. EndsInEOF(u, f) /\ Chain(u, f) = {f}
  <2>1. 1 \in 1..NEntries - 1
    BY FatAssumption
  <2>2. w[1 + 1] = FAT_EOF
    BY <1>1, <1>2, <1>3, <2>1 DEF Onward
  <2>3. \A i \in 1..1 : w[i] \in Blocks
    BY <1>1, <1>3
  <2>4. EndsInEOF(u, f) /\ Chain(u, f) = {w[i] : i \in 1..1}
    BY <2>1, <2>2, <2>3, WalkToEnd DEF w
  <2> QED
    BY <1>3, <2>4
<1>5. \A c \in B : f \notin Chain(table, c)
  BY <1>0, <1>1
<1>6. ASSUME NEW c \in B
      PROVE  Chain(u, c) = Chain(table, c) /\ EndsInEOF(u, c) /\ f # c
  <2>1. \A d \in Chain(table, c) : u[d] = table[d]
    BY <1>2, <1>5 DEF Chain
  <2>2. c \in Chain(table, c)
    BY <1>0, ChainLinks
  <2> QED
    BY <1>0, <1>5, <2>1, <2>2, ChainSame
<1>7. Free(u) = Free(table) \ {f}
  BY <1>1, <1>2 DEF Free
<1>8. \A d \in Blocks : d \in Free(u) <=> \A c \in B \cup {f} : d \notin Chain(u, c)
  BY <1>0, <1>4, <1>6, <1>7
<1>9. \A c, d \in B \cup {f} : c # d => Chain(u, c) \cap Chain(u, d) = {}
  BY <1>0, <1>4, <1>5, <1>6
<1>10. Layout(u, B \cup {f})
  BY <1>0, <1>1, <1>2, <1>4, <1>6, <1>8, <1>9 DEF Layout
<1> QED
  BY <1>1, <1>2, <1>4, <1>6, <1>7, <1>10 DEF u

(* Extending one of the chains takes free blocks only.                     *)
LEMMA LayoutExtend ==
    ASSUME NEW table, NEW B, Layout(table, B), NEW b \in B, NEW n \in Int
    PROVE  LET u == fs_extendblk(table, b, n) IN
           /\ Layout(u, B)
           /\ \A c \in B \ {b} : Chain(u, c) = Chain(table, c)
           /\ Chain(table, b) \subseteq Chain(u, b)
           /\ \A c \in Blocks : c \notin Free(table) /\ c \notin Chain(table, b)
                  => u[c] = table[c]
<1> DEFINE u == fs_extendblk(table, b, n)
<1>0. /\ table \in Tables /\ B \in SUBSET Blocks
      /\ \A c \in B : EndsInEOF(table, c)
      /\ \A c, d \in B : c # d => Chain(table, c) \cap Chain(table, d) = {}
      /\ \A d \in Blocks : d \in Free(table) <=> \A c \in B : d \notin Chain(table, c)
  BY DEF Layout
<1>1. PICK new \in SUBSET Free(table) :
          /\ u \in Tables /\ EndsInEOF(u, b)
          /\ Chain(u, b) = Chain(table, b) \cup new
          /\ Free(u) = Free(table) \ new
          /\ \A c \in Blocks : c \notin Chain(table, b) /\ c \notin new => u[c] = table[c]
  <2> DEFINE new == IF n <= Cardinality(Chain(table, b)) THEN {}
                    ELSE LowestFree(table, n - Cardinality(Chain(table, b)))
  <2>1. /\ u \in Tables /\ EndsInEOF(u, b)
        /\ Chain(u, b) = Chain(table, b) \cup new
        /\ Free(u) = Free(table) \ new
        /\ new \in SUBSET Free(table)
        /\ \A c \in Blocks : c \notin Chain(table, b) /\ c \notin new => u[c] = table[c]
    BY <1>0, ExtendedChain
  <2> HIDE DEF new, u
  <2> QED
    BY <2>1
<1> HIDE DEF u
<1>2. ASSUME NEW c \in B \ {b}
      PROVE  Chain(u, c) = Chain(table, c) /\ EndsInEOF(u, c)
  <2>1. \A d \in Chain(table, c) : d \in Blocks /\ d \notin Chain(table, b) /\ d \notin new
    BY <1>0 DEF Chain
  <2>2. \A d \in Chain(table, c) : u[d] = table[d]
    BY <1>1, <2>1
  <2> QED
    BY <1>0, <2>2, ChainSame
<1>3. \A c \in B \ {b} : Chain(u, c) \cap Chain(u, b) = {}
  <2>1. \A c \in B \ {b} : Chain(table, c) \cap new = {}
    BY <1>0 DEF Free
  <2> QED
    BY <1>0, <1>1, <1>2, <2>1
<1>4. \A c, d \in B : c # d => Chain(u, c) \cap Chain(u, d) = {}
  BY <1>0, <1>2, <1>3
<1>5. \A d \in Blocks : d \in Free(u) <=> \A c \in B : d \notin Chain(u, c)
  BY <1>0, <1>1, <1>2
<1>6. Layout(u, B)
  BY <1>0, <1>1, <1>2, <1>4, <1>5 DEF Layout
<1> QED
  BY <1>1, <1>2, <1>6 DEF u

(* Block last linked to block f.                                           *)
LinkTo(table, last, f) == [table EXCEPT ![last] = f]

(* A block that is a chain of its own, put behind the last block of        *)
(* another chain, is added to that one.                                    *)
LEMMA LayoutJoin ==
    ASSUME NEW table, NEW B, Layout(table, B), NEW b \in B, NEW f \in B \ {b},
           Chain(table, f) = {f}, NEW last \in Chain(table, b), table[last] = FAT_EOF
    PROVE  /\ Layout(LinkTo(table, last, f), B \ {f})
           /\ \A c \in B \ {b, f} : Chain(LinkTo(table, last, f), c) = Chain(table, c)
           /\ Chain(LinkTo(table, last, f), b) = Chain(table, b) \cup {f}
<1> DEFINE u == LinkTo(table, last, f)
           t == fs_freeblk(table, f)
<1>0. /\ table \in Tables /\ B \in SUBSET Blocks
      /\ \A c \in B : EndsInEOF(table, c)
      /\ \A c, d \in B : c # d => Chain(table, c) \cap Chain(table, d) = {}
      /\ \A d \in Blocks : d \in Free(table) <=> \A c \in B : d \notin Chain(table, c)
  BY DEF Layout
<1>1. /\ Layout(t, B \ {f})
      /\ \A c \in B \ {f} : Chain(t, c) = Chain(table, c)
      /\ \A c \in Blocks \ {f} : t[c] = table[c]
  BY LayoutFree
<1>2. last # f /\ last \in Blocks /\ f \in Blocks
  BY <1>0 DEF Chain
<1>3. t[f] = FAT_FREE /\ f \in Free(t)
  BY <1>2 DEF fs_freeblk, Free
<1>4. t \in Tables /\ b \in B \ {f} /\ EndsInEOF(t, b) /\ last \in Chain(t, b)
      /\ t[last] = FAT_EOF /\ b \in Blocks
  BY <1>0, <1>1, <1>2 DEF Layout
<1> HIDE DEF t
<1>5. /\ AppendBlock(t, last, f) \in Tables
      /\ EndsInEOF(AppendBlock(t, last, f), b)
      /\ Chain(AppendBlock(t, last, f), b) = Chain(t, b) \cup {f}
  BY <1>3, <1>4, AppendOne
<1>6. table[f] = FAT_EOF
  <2>1. \E c \in Chain(table, f) : table[c] = FAT_EOF
    BY <1>0, ChainLinks
  <2> QED
    BY <2>1
<1>7. AppendBlock(t, last, f) = u
  BY <1>0, <1>1, <1>2, <1>4, <1>6 DEF AppendBlock, Tables, LinkTo
<1>8. /\ u \in Tables /\ EndsInEOF(u, b) /\ Chain(u, b) = Chain(table, b) \cup {f}
      /\ \A c \in Blocks \ {last} : u[c] = table[c]
  BY <1>0, <1>1, <1>5, <1>7 DEF Tables, LinkTo
<1>9. u[last] = f
  BY <1>0, <1>2 DEF Tables, LinkTo
<1> HIDE DEF u
<1>10. ASSUME NEW c \in B \ {b, f}
       PROVE  Chain(u, c) = Chain(table, c) /\ EndsInEOF(u, c)
  <2>1. \A d \in Chain(table, c) : d \in Blocks \ {last}
    BY <1>0 DEF Chain
  <2> QED
    BY <1>0, <1>8, <2>1, ChainSame
<1>11. \A c, d \in B \ {f} : c # d => Chain(u, c) \cap Chain(u, d) = {}
  <2>1. \A c \in B \ {b, f} : Chain(table, c) \cap (Chain(table, b) \cup {f}) = {}
    BY <1>0
  <2> QED
    BY <1>0, <1>8, <1>10, <2>1
<1>12. ASSUME NEW d \in Blocks
       PROVE  d \in Free(u) <=> \A c \in B \ {f} : d \notin Chain(u, c)
  <2>1. d \in Free(u) <=> d \in Free(table)
    <3>1. CASE d = last
      BY <1>0, <1>4, <1>8, <1>9, <3>1, ChainLinks DEF Free, FAT_FREE, Blocks
    <3>2. CASE d # last
      BY <1>8, <3>2 DEF Free
    <3> QED
      BY <3>1, <3>2
  <2>2. (\A c \in B : d \notin Chain(table, c)) <=> \A c \in B \ {f} : d \notin Chain(u, c)
    BY <1>8, <1>10
  <2> QED
    BY <1>0, <2>1, <2>2
<1>13. Layout(u, B \ {f})
  BY <1>0, <1>8, <1>10, <1>11, <1>12 DEF Layout
<1> QED
  BY <1>8, <1>10, <1>13 DEF u

-----------------------------------------------------------------------------

(* The first block of what an entry of a directory holds; 0 when the entry *)
(* is not in use, or the file has no block yet.                            *)
HeadOf(d, e) ==
    IF e \in DOMAIN d /\ d[e].state \in {"live", "unlinked"} THEN d[e].blockno ELSE 0
HeadSet(d) == ({HeadOf(d, e) : e \in Nat} \ {0}) \cup {1}

(* Table t is laid out for directory d: the root directory and every file  *)
(* have a chain of their own.  The chains that start at the blocks of      *)
(* extra belong to no file; between two calls there are none.              *)
Owns(t, d, extra) ==
    /\ \A e \in Nat : HeadOf(d, e) # 1
    /\ \A e, f \in Nat : e # f /\ HeadOf(d, e) = HeadOf(d, f) => HeadOf(d, e) = 0
    /\ extra \cap HeadSet(d) = {}
    /\ Layout(t, HeadSet(d) \cup extra)

(* The links of what entry e holds are the same in both tables.            *)
SameLinks(t, u, d, e) ==
    /\ Chain(u, HeadOf(d, e)) = Chain(t, HeadOf(d, e))
    /\ \A c \in Chain(t, HeadOf(d, e)) : u[c] = t[c]

SameExtra(t, u, extra) == \A c \in extra : Chain(u, c) = Chain(t, c)

(* The two directories hold the same, but for entry e.                     *)
SameBut(d, d2, e) == \A f \in Nat : f # e => HeadOf(d2, f) = HeadOf(d, f)

(* What Owns says of one entry, and of the root directory.                 *)
LEMMA OwnedHead ==
    ASSUME NEW t, NEW d, NEW extra, Owns(t, d, extra), NEW e \in Nat
    PROVE  /\ t \in Tables
           /\ 1 \in Blocks /\ EndsInEOF(t, 1) /\ 1 \in HeadSet(d)
           /\ HeadOf(d, e) # 1
           /\ HeadOf(d, e) # 0 => /\ HeadOf(d, e) \in HeadSet(d)
                                  /\ HeadOf(d, e) \in Blocks
                                  /\ EndsInEOF(t, HeadOf(d, e))
           /\ \A n : ~RunsOff(t, HeadOf(d, e), n) /\ ~RunsOff(t, 1, n)
BY DEF Owns, Layout, HeadSet, RunsOff

(* Two directories that hold the same are laid out by the same tables.     *)
LEMMA SameHeads ==
    ASSUME NEW t, NEW d, NEW extra, NEW d2, Owns(t, d, extra), \A f \in Nat : HeadOf(d2, f) = HeadOf(d, f)
    PROVE  Owns(t, d2, extra)
<1>1. HeadSet(d2) = HeadSet(d)
  BY DEF HeadSet
<1> QED
  BY <1>1 DEF Owns

(* An entry gives up its chain, if it has one.                             *)
LEMMA FreedHead ==
    ASSUME NEW t, NEW d, NEW extra, NEW d2, NEW e \in Nat,
           Owns(t, d, extra), SameBut(d, d2, e), HeadOf(d2, e) = 0
    PROVE  LET u == fs_freeblk(t, HeadOf(d, e)) IN
           /\ Owns(u, d2, extra)
           /\ Chain(u, 1) = Chain(t, 1)
           /\ \A f \in Nat \ {e} : SameLinks(t, u, d, f)
           /\ SameExtra(t, u, extra)
           /\ ~FreeRunsOff(t, HeadOf(d, e))
<1> DEFINE b == HeadOf(d, e)
           u == fs_freeblk(t, b)
<1>1. ~FreeRunsOff(t, b)
  BY OwnedHead DEF FreeRunsOff
<1>2. CASE b = 0
  <2>1. u = t
    BY <1>2, NoChain, OwnedHead
  <2>2. Owns(t, d2, extra)
    BY <1>2, SameHeads DEF SameBut
  <2> QED
    BY <1>1, <2>1, <2>2 DEF SameLinks, SameExtra
<1>3. CASE b # 0
  <2>1. /\ Layout(t, HeadSet(d) \cup extra) /\ b \in HeadSet(d) /\ b # 1
        /\ HeadSet(d) \in SUBSET Blocks
    BY <1>3, OwnedHead DEF Owns, Layout
  <2>2. /\ Layout(u, (HeadSet(d) \cup extra) \ {b})
        /\ \A c \in (HeadSet(d) \cup extra) \ {b} : Chain(u, c) = Chain(t, c)
        /\ \A c \in Blocks \ Chain(t, b) : u[c] = t[c]
    BY <2>1, LayoutFree
  <2>3. \A f \in Nat \ {e} : HeadOf(d, f) # b
    BY <1>3 DEF Owns
  <2>4. HeadSet(d2) = HeadSet(d) \ {b}
    <3>1. {HeadOf(d2, f) : f \in Nat} \ {0} = ({HeadOf(d, f) : f \in Nat} \ {0}) \ {b}
      BY <2>3 DEF SameBut
    <3> HIDE DEF b
    <3> QED
      BY <2>1, <3>1 DEF HeadSet
  <2>5. Owns(u, d2, extra)
    <3>1. \A f \in Nat : HeadOf(d2, f) = HeadOf(d, f) \/ HeadOf(d2, f) = 0
      BY DEF SameBut
    <3>2. \A f, g \in Nat : f # g /\ HeadOf(d2, f) = HeadOf(d2, g) => HeadOf(d2, f) = 0
      BY <3>1 DEF Owns
    <3>3. \A f \in Nat : HeadOf(d2, f) # 1
      BY <3>1 DEF Owns
    <3>4. extra \cap HeadSet(d2) = {} /\ b \notin extra
      BY <2>1, <2>4 DEF Owns
    <3>5. HeadSet(d2) \cup extra = (HeadSet(d) \cup extra) \ {b}
      BY <2>4, <3>4
    <3> QED
      BY <2>2, <3>2, <3>3, <3>4, <3>5 DEF Owns
  <2>6. ASSUME NEW f \in Nat \ {e} PROVE SameLinks(t, u, d, f)
    <3>1. CASE HeadOf(d, f) = 0
      <4>1. Chain(t, 0) = {} /\ Chain(u, 0) = {}
        BY <2>1, <2>2, NoChain DEF Layout
      <4> QED
        BY <3>1, <4>1 DEF SameLinks
    <3>2. CASE HeadOf(d, f) # 0
      <4>1. HeadOf(d, f) \in HeadSet(d) \ {b}
        BY <2>3, <3>2, OwnedHead
      <4>2. \A c \in Chain(t, HeadOf(d, f)) : c \in Blocks \ Chain(t, b)
        BY <2>1, <4>1 DEF Layout, Chain
      <4> QED
        BY <2>2, <4>1, <4>2 DEF SameLinks
    <3> QED
      BY <3>1, <3>2
  <2>7. SameExtra(t, u, extra)
    <3>1. b \notin extra
      BY <2>1 DEF Owns
    <3> QED
      BY <2>2, <3>1 DEF SameExtra
  <2> QED
    BY <1>1, <2>1, <2>2, <2>5, <2>6, <2>7 DEF HeadSet
<1> QED
  BY <1>2, <1>3

(* An entry without a block gets a free one.                               *)
LEMMA NewHead ==
    ASSUME NEW t, NEW d, NEW extra, NEW d2, NEW e \in Nat, NEW b \in Free(t),
           Owns(t, d, extra), SameBut(d, d2, e), HeadOf(d, e) = 0, HeadOf(d2, e) = b
    PROVE  LET u == MarkEnd(t, b) IN
           /\ Owns(u, d2, extra)
           /\ Chain(u, 1) = Chain(t, 1)
           /\ \A f \in Nat \ {e} : SameLinks(t, u, d, f)
           /\ SameExtra(t, u, extra)
           /\ b # 1 /\ b \in Blocks
<1> DEFINE u == MarkEnd(t, b)
<1>1. Layout(t, HeadSet(d) \cup extra) /\ 1 \in HeadSet(d) /\ HeadSet(d) \in SUBSET Blocks
  BY DEF Owns, HeadSet, Layout
<1>2. /\ Layout(u, (HeadSet(d) \cup extra) \cup {b})
      /\ b \notin HeadSet(d) \cup extra /\ b \in Blocks
      /\ \A c \in HeadSet(d) \cup extra : Chain(u, c) = Chain(t, c)
      /\ \A c \in Blocks \ {b} : u[c] = t[c]
  BY <1>1, LayoutNew
<1>3. b # 0 /\ b # 1
  BY <1>1, <1>2 DEF Blocks
<1> HIDE DEF u
<1>4. HeadSet(d2) = HeadSet(d) \cup {b}
  <2>1. {HeadOf(d2, f) : f \in Nat} \ {0} = ({HeadOf(d, f) : f \in Nat} \ {0}) \cup {b}
    BY <1>3 DEF SameBut
  <2> QED
    BY <2>1 DEF HeadSet
<1>5. \A f \in Nat : HeadOf(d, f) # b
  BY <1>2, <1>3 DEF HeadSet
<1>6. Owns(u, d2, extra)
  <2>1. \A f \in Nat : HeadOf(d2, f) = HeadOf(d, f) \/ (f = e /\ HeadOf(d2, f) = b)
    BY DEF SameBut
  <2>2. \A f, g \in Nat : f # g /\ HeadOf(d2, f) = HeadOf(d2, g) => HeadOf(d2, f) = 0
    BY <1>5, <2>1 DEF Owns, SameBut
  <2>3. \A f \in Nat : HeadOf(d2, f) # 1
    BY <1>3, <2>1 DEF Owns
  <2>4. extra \cap HeadSet(d2) = {}
    BY <1>2, <1>4 DEF Owns
  <2>5. HeadSet(d2) \cup extra = (HeadSet(d) \cup extra) \cup {b}
    BY <1>4
  <2> QED
    BY <1>2, <2>2, <2>3, <2>4, <2>5 DEF Owns
<1>7. ASSUME NEW f \in Nat \ {e} PROVE SameLinks(t, u, d, f)
  <2>1. CASE HeadOf(d, f) = 0
    <3>1. Chain(t, 0) = {} /\ Chain(u, 0) = {}
      BY <1>1, <1>2, NoChain DEF Layout
    <3> QED
      BY <2>1, <3>1 DEF SameLinks
  <2>2. CASE HeadOf(d, f) # 0
    <3>1. HeadOf(d, f) \in HeadSet(d)
      BY <2>2, OwnedHead
    <3>2. \A c \in Chain(t, HeadOf(d, f)) : c \in Blocks \ {b}
      BY <1>1, <3>1 DEF Layout, Chain
    <3> QED
      BY <1>2, <3>1, <3>2 DEF SameLinks
  <2> QED
    BY <2>1, <2>2
<1> QED
  BY <1>1, <1>2, <1>3, <1>6, <1>7 DEF u, SameExtra

(* The chain of the root directory, or the one that starts at b, is        *)
(* extended.                                                               *)
LEMMA ExtendedHead ==
    ASSUME NEW t, NEW d, NEW extra, Owns(t, d, extra), NEW b \in HeadSet(d), NEW n \in Int
    PROVE  LET u == fs_extendblk(t, b, n) IN
           /\ Owns(u, d, extra)
           /\ b # 1 => Chain(u, 1) = Chain(t, 1)
           /\ \A f \in Nat : HeadOf(d, f) # b => SameLinks(t, u, d, f)
           /\ SameExtra(t, u, extra)
           /\ \A f \in Nat : \A c \in Chain(t, HeadOf(d, f)) : c \in Chain(u, HeadOf(d, f))
<1> DEFINE u == fs_extendblk(t, b, n)
<1>1. Layout(t, HeadSet(d) \cup extra) /\ 1 \in HeadSet(d) /\ HeadSet(d) \in SUBSET Blocks
  BY DEF Owns, HeadSet, Layout
<1>2. /\ Layout(u, HeadSet(d) \cup extra)
      /\ \A c \in (HeadSet(d) \cup extra) \ {b} : Chain(u, c) = Chain(t, c)
      /\ Chain(t, b) \subseteq Chain(u, b)
      /\ \A c \in Blocks : c \notin Free(t) /\ c \notin Chain(t, b) => u[c] = t[c]
  BY <1>1, LayoutExtend
<1> HIDE DEF u
<1>3. Owns(u, d, extra)
  BY <1>2 DEF Owns
<1>4. Chain(t, 0) = {} /\ Chain(u, 0) = {}
  BY <1>1, <1>2, NoChain DEF Layout
<1>5. ASSUME NEW f \in Nat, HeadOf(d, f) # b PROVE SameLinks(t, u, d, f)
  <2>1. CASE HeadOf(d, f) = 0
    BY <1>4, <2>1 DEF SameLinks
  <2>2. CASE HeadOf(d, f) # 0
    <3>1. HeadOf(d, f) \in HeadSet(d) \ {b}
      BY <1>5, <2>2, OwnedHead
    <3>2. \A c \in Chain(t, HeadOf(d, f)) :
              c \in Blocks /\ c \notin Free(t) /\ c \notin Chain(t, b)
      BY <1>1, <3>1 DEF Layout, Chain
    <3> QED
      BY <1>2, <3>1, <3>2 DEF SameLinks
  <2> QED
    BY <2>1, <2>2
<1>6. ASSUME NEW f \in Nat, NEW c \in Chain(t, HeadOf(d, f))
      PROVE  c \in Chain(u, HeadOf(d, f))
  <2>1. HeadOf(d, f) # b => Chain(u, HeadOf(d, f)) = Chain(t, HeadOf(d, f))
    BY <1>5 DEF SameLinks
  <2> QED
    BY <1>2, <1>6, <2>1
<1>7. SameExtra(t, u, extra)
  BY <1>2 DEF SameExtra, Owns
<1> QED
  BY <1>1, <1>2, <1>3, <1>5, <1>6, <1>7 DEF u

(* Asked for one block more, fs_extendblk adds one.                        *)
LEMMA OneMore ==
    ASSUME NEW t \in Tables, NEW b \in Blocks, EndsInEOF(t, b), Free(t) # {}
    PROVE  Cardinality(Chain(fs_extendblk(t, b, Cardinality(Chain(t, b)) + 1), b)) =
               Cardinality(Chain(t, b)) + 1
<1> DEFINE k == Cardinality(Chain(t, b))
           f == First(Free(t))
<1>1. IsFiniteSet(Chain(t, b)) /\ k \in Nat /\ Chain(t, b) \cap Free(t) = {}
  BY ChainLinks
<1>2. f \in Free(t)
  BY BlocksFinite, FirstElement DEF Free
<1>3. ~(k + 1 <= k) /\ (k + 1) - k = 1 /\ k + 1 \in Int
  BY <1>1
<1>4. LowestFree(t, (k + 1) - k) = {f}
  BY <1>3, LowestOne
<1>5. Chain(fs_extendblk(t, b, k + 1), b) = Chain(t, b) \cup {f}
  BY <1>3, <1>4, ExtendedChain
<1> HIDE DEF k, f
<1>6. f \notin Chain(t, b)
  BY <1>1, <1>2
<1>7. Cardinality(Chain(t, b) \cup {f}) = k + 1
  BY <1>1, <1>6, FS_AddElement DEF k
<1> QED
  BY <1>5, <1>7 DEF k

-----------------------------------------------------------------------------
(* The inductive invariant of the chains: module FatProofs's, and a table  *)
(* laid out for the directory, which has the entries of the blocks of its  *)
(* chain; so no call ever follows a chain into a free block.               *)
LaidOver(extra) ==
    /\ Owns(fat, dir, extra)
    /\ Len(dir) = EntriesPerBlock * Cardinality(Chain(fat, 1))
    /\ fault # "corrupt"
Laid == LaidOver({})
ChainInv == Inv /\ Laid

(* What it becomes.                                                        *)
LaidAfter(extra) ==
    /\ Owns(fat', dir', extra)
    /\ Len(dir') = EntriesPerBlock * Cardinality(Chain(fat', 1))
    /\ fault' # "corrupt"
    /\ SameExtra(fat, fat', extra)

(* A call that keeps what entry e holds as it is.                          *)
KeepsBlocks(e) == \A c \in Chain(fat, HeadOf(dir, e)) : fat'[c] = fat[c]

(* What a step does that is at most about what entry e holds.              *)
Touches(e, extra) == LaidAfter(extra) /\ \A f \in Nat \ {e} : KeepsBlocks(f)
TouchesNothing(extra) == LaidAfter(extra) /\ \A f \in Nat : KeepsBlocks(f)

(* A freshly made filesystem: the root directory has block 1, every other  *)
(* block is free.                                                          *)
FreshTable == [b \in Blocks |-> IF b = 1 THEN FAT_EOF ELSE FAT_FREE]
LEMMA FreshLaid ==
    /\ Owns(FreshTable, EmptyBlock, {})
    /\ Len(EmptyBlock) = EntriesPerBlock * Cardinality(Chain(FreshTable, 1))
<1> DEFINE empty == [b \in Blocks |-> FAT_FREE]
<1>1. Layout(empty, {}) /\ Free(empty) = Blocks
  BY DEF Layout, Tables, Free
<1>2. 1 \in Blocks
  BY FatAssumption DEF Blocks
<1>3. FreshTable = MarkEnd(empty, 1)
  BY <1>2 DEF FreshTable, MarkEnd
<1> HIDE DEF empty
<1>4. Layout(FreshTable, {} \cup {1}) /\ Chain(FreshTable, 1) = {1}
  BY <1>1, <1>2, <1>3, LayoutNew
<1>5. \A e \in Nat : HeadOf(EmptyBlock, e) = 0
  BY DEF EmptyBlock, EmptyEntry, HeadOf
<1>6. HeadSet(EmptyBlock) = {} \cup {1}
  BY <1>5 DEF HeadSet
<1>7. Owns(FreshTable, EmptyBlock, {})
  BY <1>4, <1>5, <1>6 DEF Owns
<1>8. Len(EmptyBlock) = EntriesPerBlock
  BY FatAssumption DEF EmptyBlock
<1>9. Cardinality(Chain(FreshTable, 1)) = 1
  BY <1>4, FS_Singleton
<1> QED
  BY <1>7, <1>8, <1>9, FatAssumption

(* It is laid out.                                                         *)
LEMMA InitLaid == Init => Laid
BY FreshLaid DEF Init, FreshTable, Laid, LaidOver

-----------------------------------------------------------------------------
(* A call that leaves the table alone, and what the entries hold.          *)
LEMMA SameTable ==
    ASSUME NEW extra, Inv, LaidOver(extra), fat' = fat, Len(dir') = Len(dir), fault' # "corrupt",
           \A f \in Nat : HeadOf(dir', f) = HeadOf(dir, f)
    PROVE  TouchesNothing(extra)
<1>1. Owns(fat, dir', extra)
  BY SameHeads DEF LaidOver, LaidAfter
<1> QED
  BY <1>1 DEF LaidOver, LaidAfter, TouchesNothing, KeepsBlocks, SameExtra

(* What an open handle's entry holds is what the entry says.               *)
LEMMA HandlesHead ==
    ASSUME Inv, NEW h \in Handles, IsOpen(h)
    PROVE  /\ HeadOf(dir, file[h].entry) = dir[file[h].entry].blockno
           /\ file[h].entry \in Nat /\ file[h].entry \in OpenEntries
<1>1. file[h].entry \in OpenEntries /\ file[h].entry \in 1..Len(dir)
  BY ReadersEntry, OpenHandle
<1> QED
  BY <1>1, OpenEntriesAlive DEF HeadOf

(* fs_lseek does nothing to the table.                                     *)
LEMMA SeekTouches ==
    ASSUME NEW extra, Inv, LaidOver(extra), NEW h, NEW offset, NEW whence, Lseek(h, offset, whence)
    PROVE  TouchesNothing(extra)
BY SameTable DEF Lseek, LaidOver, LaidAfter

(* f_chmod changes a permission, and nothing of what an entry holds.       *)
LEMMA ChmodTouches ==
    ASSUME NEW extra, Inv, LaidOver(extra), NEW h \in Handles, Chmod(h)
    PROVE  TouchesNothing(extra)
<1> DEFINE e == file[h].entry
<1>1. e \in 1..Len(dir) /\ dir[e] \in Entry /\ DOMAIN dir = 1..Len(dir)
  BY OpenHandle DEF Chmod
<1>2. dir' = [dir EXCEPT ![e] = [dir[e] EXCEPT !.writable = ~dir[e].writable]]
  BY DEF Chmod
<1>3. \A f \in DOMAIN dir : dir'[f].state = dir[f].state /\ dir'[f].blockno = dir[f].blockno
  BY <1>1, <1>2 DEF Entry
<1>4. DOMAIN dir' = DOMAIN dir
  BY <1>2
<1>5. \A f \in Nat : HeadOf(dir', f) = HeadOf(dir, f)
  BY <1>3, <1>4 DEF HeadOf
<1>6. Len(dir') = Len(dir)
  BY <1>1, <1>2, <1>4 DEF Inv, TypeOK
<1> QED
  BY <1>5, <1>6, SameTable DEF Chmod, LaidOver, LaidAfter

(* fs_read only follows the chain, which is long enough.                   *)
LEMMA ReadTouches ==
    ASSUME NEW extra, Inv, LaidOver(extra), NEW h \in Handles, NEW len \in Nat, Read(h, len)
    PROVE  TouchesNothing(extra)
<1> DEFINE entry == dir[file[h].entry]
           wanted == First({len, entry.size - file[h].offset})
           runsOff == RunsOff(fat, entry.blockno, BlocksFor(file[h].offset + wanted))
<1>1. ~runsOff
  BY HandlesHead, OwnedHead DEF Read, LaidOver, LaidAfter
<1>2. runsOff \/ fault' = fault
  BY DEF Read
<1> HIDE DEF runsOff
<1> QED
  BY <1>1, <1>2, SameTable DEF Read, LaidOver, LaidAfter

(* fs_write: the file's own chain grows, by free blocks only.              *)
LEMMA WriteTouches ==
    ASSUME NEW extra, Inv, LaidOver(extra), NEW h \in Handles, NEW len \in Nat, Write(h, len)
    PROVE  Touches(file[h].entry, extra)
<1> DEFINE e == file[h].entry
           entry == dir[e]
           at == IF file[h].mode = "F_APPEND" THEN entry.size ELSE file[h].offset
           needsFirst == entry.blockno = 0
           base == IF needsFirst THEN First(Free(fat)) ELSE entry.blockno
           table == IF needsFirst THEN [fat EXCEPT ![base] = FAT_EOF] ELSE fat
           full == needsFirst /\ Free(fat) = {}
           holeBeyondChain ==
               at > entry.size /\ at > BlockSize * Cardinality(Chain(table, base))
           n == BlocksFor(at + len)
           runsOff == RunsOff(table, base, n)
           based == [dir EXCEPT ![e].blockno = base]
<1>1. /\ Inv /\ Owns(fat, dir, extra) /\ IsOpen(h)
      /\ file[h] \in File /\ entry \in Entry /\ DOMAIN dir = 1..Len(dir)
      /\ e \in DOMAIN dir /\ e \in Nat /\ HeadOf(dir, e) = entry.blockno
      /\ entry.state \in {"live", "unlinked"}
  BY OpenHandle, HandlesHead, OpenEntriesAlive DEF Write, LaidOver, LaidAfter
<1>2. n \in Int
  <2>1. at \in Int /\ len \in Int
    BY <1>1, FatAssumption DEF File, Entry, Offsets
  <2> HIDE DEF at
  <2> QED
    BY <2>1, FatAssumption DEF BlocksFor
<1>3. CASE full
  <2>1. UNCHANGED <<fat, dir, fault, open_files>>
    BY <1>3 DEF Write
  <2> QED
    BY <2>1, SameTable DEF Touches, TouchesNothing, LaidOver, LaidAfter, SameExtra
<1>4. CASE ~full
  <2>1. /\ HeadOf(based, e) = base /\ SameBut(dir, based, e)
        /\ Len(based) = Len(dir)
    BY <1>1 DEF HeadOf, SameBut, Entry, Inv, TypeOK
  <2>2. /\ Owns(table, based, extra) /\ base \in HeadSet(based) /\ base # 1
        /\ Chain(table, 1) = Chain(fat, 1)
        /\ \A f \in Nat \ {e} : SameLinks(fat, table, dir, f)
        /\ SameExtra(fat, table, extra)
    <3>1. CASE needsFirst
      <4>1. base \in Free(fat) /\ HeadOf(dir, e) = 0
        BY <1>1, <1>4, <3>1, BlocksFinite, FirstElement DEF Free
      <4>2. table = MarkEnd(fat, base)
        BY <3>1 DEF MarkEnd
      <4> HIDE DEF base, table, based, e, entry, n, at, needsFirst, full, runsOff, holeBeyondChain
      <4>3. /\ Owns(table, based, extra) /\ Chain(table, 1) = Chain(fat, 1)
            /\ \A f \in Nat \ {e} : SameLinks(fat, table, dir, f)
            /\ SameExtra(fat, table, extra)
            /\ base # 1 /\ base \in Blocks
        BY <1>1, <2>1, <4>1, <4>2, NewHead
      <4>4. base # 0
        BY <4>3 DEF Blocks
      <4> QED
        BY <1>1, <2>1, <4>3, <4>4 DEF HeadSet
    <3>2. CASE ~needsFirst
      <4>1. table = fat /\ base = HeadOf(dir, e) /\ base # 0
        BY <1>1, <3>2
      <4> HIDE DEF base, table, based, e, entry, n, at, needsFirst, full, runsOff, holeBeyondChain
      <4>2. \A f \in Nat : HeadOf(based, f) = HeadOf(dir, f)
        BY <2>1, <4>1 DEF SameBut
      <4> QED
        BY <1>1, <2>1, <4>1, <4>2, SameHeads, OwnedHead DEF SameLinks, SameExtra
    <3> QED
      BY <3>1, <3>2
  <2>3. ~runsOff
    <3> HIDE DEF base, table, based
    <3>1. EndsInEOF(table, base)
      BY <2>2 DEF Owns, Layout
    <3> QED
      BY <3>1 DEF RunsOff
  <2>4. CASE holeBeyondChain
    <3>1. UNCHANGED <<fat, dir>> /\ fault' = "segv"
      BY <1>4, <2>3, <2>4 DEF Write
    <3> QED
      BY <3>1, SameTable DEF Touches, TouchesNothing, LaidOver, LaidAfter, SameExtra
  <2>5. CASE ~holeBeyondChain
    <3>1. WriteTo(h, at, base, table, len) /\ fault' = fault
      BY <1>4, <2>3, <2>5 DEF Write
    <3>2. fat' = fs_extendblk(table, base, n)
      BY <3>1 DEF WriteTo
    <3>3. \E size : dir' = [dir EXCEPT ![e].blockno = base, ![e].size = size]
      BY <3>1 DEF WriteTo
    <3>4. /\ \A f \in Nat : HeadOf(dir', f) = HeadOf(based, f)
          /\ Len(dir') = Len(based)
      BY <1>1, <3>3 DEF HeadOf, Entry, Inv, TypeOK
    <3> HIDE DEF base, table, based, n
    <3>5. /\ Owns(fat', based, extra)
          /\ Chain(fat', 1) = Chain(table, 1)
          /\ \A f \in Nat : HeadOf(based, f) # base => SameLinks(table, fat', based, f)
          /\ SameExtra(table, fat', extra)
      BY <1>2, <2>2, <3>2, ExtendedHead
    <3>6. Owns(fat', dir', extra)
      BY <3>4, <3>5, SameHeads
    <3>7. LaidAfter(extra)
      BY <2>1, <2>2, <3>1, <3>4, <3>5, <3>6 DEF LaidOver, LaidAfter, SameExtra
    <3>8. ASSUME NEW f \in Nat \ {e} PROVE KeepsBlocks(f)
      <4>1. HeadOf(based, f) = HeadOf(dir, f) /\ SameLinks(fat, table, dir, f)
        BY <2>1, <2>2 DEF SameBut
      <4>2. CASE HeadOf(based, f) = base
        <5>1. base = 0
          BY <1>1, <2>1, <2>2, <4>2 DEF Owns
        <5> QED
          BY <2>2, <5>1 DEF Owns, Layout, Blocks
      <4>3. CASE HeadOf(based, f) # base
        BY <3>5, <4>1, <4>3 DEF SameLinks, KeepsBlocks
      <4> QED
        BY <4>2, <4>3
    <3> QED
      BY <3>7, <3>8 DEF Touches
  <2> QED
    BY <2>4, <2>5
<1> QED
  BY <1>3, <1>4

-----------------------------------------------------------------------------
(* fs_open frees the chain of the file it truncates.                       *)
LEMMA OpenTouches ==
    ASSUME NEW extra, Inv, LaidOver(extra), NEW h \in Handles, NEW name \in Names, NEW mode \in Modes,
           OpenExisting(h, name, mode)
    PROVE  /\ Touches(First(Found(name)), extra)
           /\ mode # "F_WRITE" => TouchesNothing(extra)
<1> DEFINE e == First(Found(name))
           emptied == [dir[e] EXCEPT !.blockno = 0, !.size = 0]
<1>1. /\ e \in 1..Len(dir) /\ e \in Nat /\ dir[e] \in Entry /\ dir[e].state = "live"
      /\ DOMAIN dir = 1..Len(dir) /\ Owns(fat, dir, extra) /\ dir \in Seq(Entry)
  BY FoundEntry DEF Inv, TypeOK, OpenExisting, LaidOver, LaidAfter
<1>2. CASE UNCHANGED <<fat, dir, fault>>
  <2>1. TouchesNothing(extra)
    BY <1>2, SameTable DEF LaidOver, LaidAfter
  <2> QED
    BY <2>1 DEF Touches, TouchesNothing
<1>3. CASE mode = "F_WRITE" /\ ~UNCHANGED <<fat, dir, fault>>
  <2>1. /\ fat' = fs_freeblk(fat, dir[e].blockno)
        /\ dir' = [dir EXCEPT ![e] = emptied]
        /\ fault' = IF FreeRunsOff(fat, dir[e].blockno) THEN "corrupt" ELSE fault
    BY <1>1, <1>3 DEF OpenExisting, Entry
  <2>2. HeadOf(dir, e) = dir[e].blockno /\ emptied.blockno = 0
    BY <1>1 DEF HeadOf, Entry
  <2> HIDE DEF e, emptied
  <2>3. HeadOf(dir', e) = 0 /\ SameBut(dir, dir', e) /\ Len(dir') = Len(dir)
    BY <1>1, <2>1, <2>2 DEF HeadOf, SameBut
  <2>4. /\ Owns(fat', dir', extra) /\ Chain(fat', 1) = Chain(fat, 1)
        /\ \A f \in Nat \ {e} : SameLinks(fat, fat', dir, f)
        /\ SameExtra(fat, fat', extra)
        /\ ~FreeRunsOff(fat, HeadOf(dir, e))
    BY <1>1, <2>1, <2>2, <2>3, FreedHead
  <2> QED
    BY <1>3, <2>1, <2>2, <2>3, <2>4 DEF Touches, KeepsBlocks, SameLinks, LaidOver, LaidAfter, e
<1>4. mode = "F_WRITE" \/ UNCHANGED <<fat, dir, fault>>
  BY DEF OpenExisting
<1> QED
  BY <1>2, <1>3, <1>4 DEF TouchesNothing, Touches

(* fs_makefile takes an entry that holds nothing, and for a new directory  *)
(* block a block that nobody has.                                          *)
LEMMA MakeFileTouches ==
    ASSUME NEW extra, Inv, LaidOver(extra), NEW h \in Handles, NEW name \in Names, NEW mode \in Modes,
           MakeFile(h, name, mode)
    PROVE  TouchesNothing(extra)
<1> DEFINE grows == FreeEntries = {}
           e == IF grows THEN Len(dir) + 1 ELSE First(FreeEntries)
           entries == IF grows THEN dir \o EmptyBlock ELSE dir
           new == [EmptyEntry EXCEPT !.state = "live", !.name = name]
           k == Cardinality(Chain(fat, 1))
<1>1. /\ DOMAIN dir = 1..Len(dir) /\ Len(dir) \in Nat /\ dir \in Seq(Entry)
      /\ Inv /\ Owns(fat, dir, extra) /\ Len(dir) = EntriesPerBlock * k /\ fault # "corrupt"
  BY DEF Inv, TypeOK, LaidOver, LaidAfter
<1>2. /\ dir' = [entries EXCEPT ![e] = new]
      /\ fat' = IF grows THEN fs_extendblk(fat, 1, k + 1) ELSE fat
      /\ grows => Free(fat) # {}
      /\ fault' = fault
  BY DEF MakeFile
<1>3. /\ entries \in Seq(Entry)
      /\ \A g \in DOMAIN dir : entries[g] = dir[g]
      /\ \A g \in DOMAIN entries \ DOMAIN dir : entries[g].state = "end"
  <2>1. entries \in {dir, dir \o EmptyBlock}
    OBVIOUS
  <2> HIDE DEF entries
  <2> QED
    BY <1>1, <2>1, GrownDirectory
<1>4. Len(entries) = IF grows THEN Len(dir) + EntriesPerBlock ELSE Len(dir)
  <2>1. EmptyBlock \in Seq(Entry) /\ Len(EmptyBlock) = EntriesPerBlock
    BY EntryTypes, FatAssumption DEF EmptyBlock
  <2> HIDE DEF EmptyBlock
  <2> QED
    BY <1>1, <2>1
<1>5. new.blockno = 0
  BY DEF EmptyEntry
<1>6. HeadOf(dir, e) = 0
  <2>1. CASE grows
    BY <1>1, <2>1 DEF HeadOf
  <2>2. CASE ~grows
    <3>1. FreeEntries \in SUBSET Nat
      BY <1>1 DEF FreeEntries
    <3>2. First(FreeEntries) \in FreeEntries
      BY <2>2, <3>1, FirstElement
    <3> QED
      BY <2>2, <3>2 DEF FreeEntries, Reusable, HeadOf
  <2> QED
    BY <2>1, <2>2
<1>7. k \in Nat /\ 1 \in Blocks /\ EndsInEOF(fat, 1) /\ fat \in Tables
  <2>1. 1 \in Blocks /\ EndsInEOF(fat, 1) /\ fat \in Tables
    BY <1>1, OwnedHead
  <2> QED
    BY <2>1, ChainLinks
<1> HIDE DEF entries, e, new, grows, k
<1>8. ASSUME NEW f \in Nat PROVE HeadOf(dir', f) = HeadOf(dir, f)
  <2>1. DOMAIN dir' = DOMAIN entries /\ Len(dir') = Len(entries)
    BY <1>2, <1>3
  <2>2. CASE f = e
    <3>1. HeadOf(dir', e) = 0
      BY <1>2, <1>5, <2>1 DEF HeadOf
    <3> QED
      BY <1>6, <2>2, <3>1
  <2>3. CASE f # e /\ f \in DOMAIN dir
    <3>1. f \in DOMAIN entries
      BY <1>1, <1>3, <1>4, <2>3, FatAssumption
    <3>2. dir'[f] = dir[f]
      BY <1>2, <1>3, <2>3, <3>1
    <3> QED
      BY <2>1, <2>3, <3>1, <3>2 DEF HeadOf
  <2>4. CASE f # e /\ f \notin DOMAIN dir
    <3>1. f \in DOMAIN dir' => dir'[f].state = "end"
      BY <1>2, <1>3, <2>1, <2>4
    <3> QED
      BY <2>4, <3>1 DEF HeadOf
  <2> QED
    BY <2>2, <2>3, <2>4
<1>9. Len(dir') = Len(entries)
  BY <1>2, <1>3
<1>10. CASE ~grows
  BY <1>2, <1>4, <1>8, <1>9, <1>10, <1>1, SameTable
<1>11. CASE grows
  <2>1. fat' = fs_extendblk(fat, 1, k + 1) /\ k + 1 \in Int
    BY <1>2, <1>7, <1>11
  <2>2. /\ Owns(fat', dir, extra)
        /\ \A f \in Nat : HeadOf(dir, f) # 1 => SameLinks(fat, fat', dir, f)
        /\ SameExtra(fat, fat', extra)
    BY <1>1, <2>1, OwnedHead, ExtendedHead
  <2>3. Owns(fat', dir', extra)
    BY <1>8, <2>2, SameHeads
  <2>4. Cardinality(Chain(fat', 1)) = k + 1
    BY <1>2, <1>7, <1>11, OneMore DEF k
  <2>5. Len(dir') = EntriesPerBlock * (k + 1)
    BY <1>1, <1>4, <1>7, <1>9, <1>11, FatAssumption
  <2>6. \A f \in Nat : KeepsBlocks(f)
    BY <1>1, <2>2, OwnedHead DEF SameLinks, KeepsBlocks
  <2> QED
    BY <1>1, <1>2, <2>2, <2>3, <2>4, <2>5, <2>6 DEF TouchesNothing, LaidOver, LaidAfter
<1> QED
  BY <1>10, <1>11

-----------------------------------------------------------------------------
(* fs_unlink frees the chain of a file that is not open, and leaves that   *)
(* of an open one where it is.                                             *)
LEMMA UnlinkedOwns ==
    ASSUME NEW extra, Inv, LaidOver(extra), NEW e \in DOMAIN dir, dir[e].state = "live"
    PROVE  /\ Owns(UnlinkedFat(e), UnlinkedEntries(e), extra)
           /\ Chain(UnlinkedFat(e), 1) = Chain(fat, 1)
           /\ Len(UnlinkedEntries(e)) = Len(dir)
           /\ UnlinkedFault(e) = fault
           /\ \A f \in Nat : f # e \/ f \in OpenEntries => SameLinks(fat, UnlinkedFat(e), dir, f)
           /\ SameExtra(fat, UnlinkedFat(e), extra)
<1>1. /\ e \in Nat /\ dir[e] \in Entry /\ DOMAIN dir = 1..Len(dir)
      /\ Owns(fat, dir, extra) /\ dir \in Seq(Entry) /\ Inv
      /\ HeadOf(dir, e) = dir[e].blockno
  BY DEF Inv, TypeOK, LaidOver, LaidAfter, HeadOf
<1>2. CASE InUse(e)
  <2>1. /\ UnlinkedEntries(e) = [dir EXCEPT ![e] = [dir[e] EXCEPT !.state = "unlinked"]]
        /\ UnlinkedFat(e) = fat /\ UnlinkedFault(e) = fault
    BY <1>2 DEF UnlinkedEntries, UnlinkedFat, UnlinkedFault
  <2>2. /\ Len(UnlinkedEntries(e)) = Len(dir)
        /\ \A f \in Nat : HeadOf(UnlinkedEntries(e), f) = HeadOf(dir, f)
    BY <1>1, <2>1 DEF HeadOf, Entry
  <2> QED
    BY <1>1, <2>1, <2>2, SameHeads DEF SameLinks, SameExtra
<1>3. CASE ~InUse(e)
  <2>1. /\ UnlinkedEntries(e) = [dir EXCEPT ![e] = DeletedEntry]
        /\ UnlinkedFat(e) = fs_freeblk(fat, dir[e].blockno)
        /\ UnlinkedFault(e) = IF FreeRunsOff(fat, dir[e].blockno) THEN "corrupt" ELSE fault
    BY <1>3 DEF UnlinkedEntries, UnlinkedFat, UnlinkedFault
  <2>2. /\ Len(UnlinkedEntries(e)) = Len(dir)
        /\ SameBut(dir, UnlinkedEntries(e), e) /\ HeadOf(UnlinkedEntries(e), e) = 0
    BY <1>1, <2>1, EntryTypes DEF HeadOf, SameBut
  <2>3. /\ Owns(UnlinkedFat(e), UnlinkedEntries(e), extra)
        /\ Chain(UnlinkedFat(e), 1) = Chain(fat, 1)
        /\ \A f \in Nat \ {e} : SameLinks(fat, UnlinkedFat(e), dir, f)
        /\ SameExtra(fat, UnlinkedFat(e), extra)
        /\ ~FreeRunsOff(fat, HeadOf(dir, e))
    BY <1>1, <2>1, <2>2, FreedHead
  <2>4. e \notin OpenEntries
    BY <1>3 DEF InUse
  <2> QED
    BY <1>1, <2>1, <2>2, <2>3, <2>4
<1> QED
  BY <1>2, <1>3

(* fs_unlink changes no link of a file that is open.                       *)
LEMMA UnlinkTouches ==
    ASSUME NEW extra, Inv, LaidOver(extra), NEW name \in Names, Unlink(name)
    PROVE  LaidAfter(extra) /\ \A f \in OpenEntries : KeepsBlocks(f)
<1> DEFINE e == First(Found(name))
<1>1. e \in DOMAIN dir /\ dir[e].state = "live"
  BY FoundEntry DEF Inv, TypeOK, Unlink
<1>2. dir' = UnlinkedEntries(e) /\ fat' = UnlinkedFat(e) /\ fault' = UnlinkedFault(e)
  BY DEF Unlink
<1> HIDE DEF e
<1>3. /\ Owns(fat', dir', extra) /\ Chain(fat', 1) = Chain(fat, 1)
      /\ Len(dir') = Len(dir) /\ fault' = fault
      /\ \A f \in Nat : f # e \/ f \in OpenEntries => SameLinks(fat, fat', dir, f)
      /\ SameExtra(fat, fat', extra)
  BY <1>1, <1>2, UnlinkedOwns
<1>4. OpenEntries \in SUBSET Nat
  BY OpenEntriesAlive DEF Inv, TypeOK
<1> QED
  BY <1>3, <1>4 DEF LaidOver, LaidAfter, KeepsBlocks, SameLinks

(* fs_rename replaces another file as fs_unlink would, and gives the new   *)
(* name to an entry that keeps its chain.                                  *)
LEMMA RenameTouches ==
    ASSUME NEW extra, Inv, LaidOver(extra), NEW old \in Names, NEW new \in Names, old # new, Rename(old, new)
    PROVE  LaidAfter(extra) /\ \A f \in OpenEntries : KeepsBlocks(f)
<1> DEFINE e == First(Found(old))
           t == First(Found(new))
           entries == IF Found(new) = {} THEN dir ELSE UnlinkedEntries(t)
           table == IF Found(new) = {} THEN fat ELSE UnlinkedFat(t)
           renamed == [dir[e] EXCEPT !.name = new]
<1>1. /\ e \in DOMAIN dir /\ dir[e] \in Entry /\ dir[e].state = "live" /\ dir[e].name = old
      /\ Found(new) # {} => /\ t \in DOMAIN dir /\ dir[t].state = "live"
                            /\ dir[t].name = new
      /\ DOMAIN dir = 1..Len(dir) /\ dir \in Seq(Entry)
      /\ Inv /\ Owns(fat, dir, extra)
  BY FoundEntry DEF Inv, TypeOK, Rename, LaidOver, LaidAfter
<1>2. /\ dir' = [entries EXCEPT ![e] = renamed]
      /\ fat' = table
      /\ fault' = IF Found(new) = {} THEN fault ELSE UnlinkedFault(t)
  BY DEF Rename, Replaced
<1>3. Found(new) # {} => e # t
  BY <1>1
<1>4. renamed.blockno = dir[e].blockno /\ renamed.state = "live" /\ renamed \in Entry
  BY <1>1 DEF Entry
<1> HIDE DEF e, t, renamed
<1>5. /\ Owns(table, entries, extra) /\ Chain(table, 1) = Chain(fat, 1)
      /\ Len(entries) = Len(dir) /\ fault' = fault
      /\ \A f \in OpenEntries \cap Nat : SameLinks(fat, table, dir, f)
      /\ SameExtra(fat, table, extra)
      /\ entries \in Seq(Entry) /\ entries[e] = dir[e]
  <2>1. CASE Found(new) = {}
    BY <1>1, <1>2, <2>1 DEF SameLinks, SameExtra
  <2>2. CASE Found(new) # {}
    <3>1. entries = UnlinkedEntries(t) /\ table = UnlinkedFat(t) /\ fault' = UnlinkedFault(t)
      BY <1>2, <2>2
    <3>2. entries \in Seq(Entry) /\ entries[e] = dir[e]
      BY <1>1, <1>3, <2>2, <3>1, UnlinkedDirectory
    <3> HIDE DEF entries, table
    <3> QED
      BY <1>1, <2>2, <3>1, <3>2, UnlinkedOwns
  <2> QED
    BY <2>1, <2>2
<1> HIDE DEF entries, table
<1>6. /\ \A f \in Nat : HeadOf(dir', f) = HeadOf(entries, f)
      /\ Len(dir') = Len(entries)
  <2>1. e \in 1..Len(entries) /\ DOMAIN entries = 1..Len(entries)
    BY <1>1, <1>5
  <2> QED
    BY <1>1, <1>2, <1>4, <1>5, <2>1 DEF HeadOf
<1>7. Owns(fat', dir', extra)
  BY <1>2, <1>5, <1>6, SameHeads
<1>8. OpenEntries \in SUBSET Nat
  BY OpenEntriesAlive DEF Inv, TypeOK
<1> QED
  BY <1>2, <1>5, <1>6, <1>7, <1>8 DEF LaidOver, LaidAfter, KeepsBlocks, SameLinks

(* fs_close frees the chain of a file without a name when its last handle  *)
(* goes.                                                                   *)
LEMMA CloseTouches ==
    ASSUME NEW extra, Inv, LaidOver(extra), NEW h \in Handles, Close(h)
    PROVE  /\ LaidAfter(extra)
           /\ \A r \in OpenEntries' : KeepsBlocks(r)
<1> DEFINE i == CHOOSE j \in OpenIndices : open_files[j] = h
           e == EntryOf(i)
           deletes == StillCounted(i) = {} /\ dir[e].state = "unlinked"
<1>1. /\ i \in OpenIndices /\ Inv /\ Owns(fat, dir, extra) /\ fault # "corrupt"
      /\ Len(dir) = EntriesPerBlock * Cardinality(Chain(fat, 1))
  BY DEF Close, IsOpen, LaidOver, LaidAfter
<1>2. /\ dir' = IF deletes THEN [dir EXCEPT ![e] = DeletedEntry] ELSE dir
      /\ fat' = IF deletes THEN fs_freeblk(fat, dir[e].blockno) ELSE fat
      /\ fault' = IF deletes /\ FreeRunsOff(fat, dir[e].blockno) THEN "corrupt" ELSE fault
  BY DEF Close
<1>3. e \in DOMAIN dir /\ DOMAIN dir = 1..Len(dir) /\ e \in Nat /\ dir \in Seq(Entry)
  <2>1. e \in OpenEntries
    BY <1>1 DEF OpenEntries
  <2> QED
    BY <1>1, <2>1, OpenEntriesAlive DEF Inv, TypeOK
<1>4. \A r \in OpenEntries' : /\ r \in DOMAIN dir' /\ r \in Nat
                               /\ dir'[r].state \in {"live", "unlinked"}
  <2>1. Inv'
    BY <1>1, CloseStep
  <2> QED
    BY <2>1 DEF Inv, TypeOK, HandlesAlive, OpenEntries
<1> HIDE DEF i, e
<1>5. CASE ~deletes
  <2>1. TouchesNothing(extra)
    BY <1>1, <1>2, <1>5, SameTable
  <2> QED
    BY <1>4, <2>1 DEF TouchesNothing
<1>6. CASE deletes
  <2>1. HeadOf(dir, e) = dir[e].blockno
    BY <1>3, <1>6 DEF HeadOf
  <2>2. /\ dir' = [dir EXCEPT ![e] = DeletedEntry]
        /\ fat' = fs_freeblk(fat, HeadOf(dir, e))
        /\ fault' = IF FreeRunsOff(fat, HeadOf(dir, e)) THEN "corrupt" ELSE fault
    BY <1>2, <1>6, <2>1
  <2> HIDE DEF deletes
  <2>3. /\ dir'[e].state = "deleted" /\ Len(dir') = Len(dir)
        /\ SameBut(dir, dir', e) /\ HeadOf(dir', e) = 0
    BY <1>3, <2>2, EntryTypes DEF HeadOf, SameBut
  <2>4. /\ Owns(fat', dir', extra) /\ Chain(fat', 1) = Chain(fat, 1)
        /\ \A f \in Nat \ {e} : SameLinks(fat, fat', dir, f)
        /\ SameExtra(fat, fat', extra)
        /\ ~FreeRunsOff(fat, HeadOf(dir, e))
    BY <1>1, <1>3, <2>2, <2>3, FreedHead
  <2>5. LaidAfter(extra)
    BY <1>1, <2>2, <2>3, <2>4 DEF LaidOver, LaidAfter
  <2>6. \A r \in OpenEntries' : r \in Nat \ {e}
    BY <1>4, <2>3
  <2> QED
    BY <2>4, <2>5, <2>6 DEF SameLinks, KeepsBlocks
<1> QED
  BY <1>5, <1>6

-----------------------------------------------------------------------------
(* The code renames a file to its own name by deleting it; module Fat      *)
(* leaves that to the constant Renames, and here nobody asks for it.       *)
NoSelfRename == \A pair \in Renames : pair[1] # pair[2]

(* Every call leaves the table laid out, and a call that changes a link of *)
(* a file's chain is one through a handle that may write, or finds no      *)
(* handle on the file.                                                     *)
LEMMA NextLaid ==
    ASSUME NoSelfRename, ChainInv, [Next]_vars
    PROVE  ChainInv'
<1> USE DEF ChainInv, Laid
<1>1. ASSUME NEW h \in Handles, OpenFile(h) PROVE LaidAfter({})
  BY <1>1, OpenTouches, MakeFileTouches DEF OpenFile, Touches, TouchesNothing
<1>2. ASSUME NEW h \in Handles, UseFile(h) PROVE LaidAfter({})
  <2>1. ASSUME NEW len \in Lengths, Write(h, len) \/ Read(h, len) PROVE LaidAfter({})
    BY <2>1, WriteTouches, ReadTouches, FatAssumption DEF Touches, TouchesNothing
  <2>2. ASSUME NEW seek \in Seeks, Lseek(h, seek[1], seek[2]) PROVE LaidAfter({})
    BY <2>2, SeekTouches DEF TouchesNothing
  <2>3. CASE Chmod(h)
    BY <2>3, ChmodTouches DEF TouchesNothing
  <2> QED
    BY <1>2, <2>1, <2>2, <2>3 DEF UseFile
<1>3. ASSUME NEW h \in Handles, Close(h) PROVE LaidAfter({})
  BY <1>3, CloseTouches
<1>4. ASSUME NEW name \in Names, Unlink(name) PROVE LaidAfter({})
  BY <1>4, UnlinkTouches
<1>5. ASSUME NEW pair \in Renames, Rename(pair[1], pair[2]) PROVE LaidAfter({})
  <2>1. pair[1] \in Names /\ pair[2] \in Names /\ pair[1] # pair[2]
    BY FatAssumption DEF NoSelfRename
  <2> QED
    BY <1>5, <2>1, RenameTouches
<1>6. ASSUME Remount \/ UNCHANGED vars PROVE LaidAfter({})
  BY <1>6 DEF Remount, vars, LaidOver, LaidAfter, SameExtra
<1>7. LaidAfter({})
  BY <1>1, <1>2, <1>3, <1>4, <1>5, <1>6 DEF Next
<1>8. Inv'
  BY NextInv
<1> QED
  BY <1>7, <1>8 DEF LaidOver, LaidAfter

(* The inductive invariant holds in every reachable state.                 *)
THEOREM ChainInvariance == NoSelfRename => (Spec => []ChainInv)
<1> SUFFICES ASSUME NoSelfRename PROVE Spec => []ChainInv
  OBVIOUS
<1>1. Init => ChainInv
  BY InitInv, InitLaid DEF ChainInv
<1>2. ChainInv /\ [Next]_vars => ChainInv'
  BY NextLaid
<1> QED
  BY <1>1, <1>2, PTL DEF Spec

(* What the inductive invariant says of the first blocks of the files.     *)
LEMMA HeldHeads ==
    ASSUME Inv
    PROVE  /\ \A e \in Holding : /\ e \in Nat /\ dir[e].blockno = HeadOf(dir, e)
                                 /\ HeadOf(dir, e) # 0
           /\ Heads = HeadSet(dir)
<1>1. DOMAIN dir \in SUBSET Nat
  BY DEF Inv, TypeOK
<1>2. \A e \in Holding : /\ e \in Nat /\ dir[e].blockno = HeadOf(dir, e)
                         /\ HeadOf(dir, e) # 0
  BY <1>1 DEF Holding, HeadOf
<1>3. \A e \in Nat : HeadOf(dir, e) # 0 => e \in Holding
  BY DEF Holding, HeadOf
<1>4. {dir[e].blockno : e \in Holding} = {HeadOf(dir, e) : e \in Nat} \ {0}
  BY <1>2, <1>3
<1> QED
  BY <1>2, <1>4 DEF Heads, HeadSet

(* A table laid out for the directory keeps the files' chains apart.       *)
LEMMA OwnedIntact ==
    ASSUME NEW extra, Inv, LaidOver(extra)
    PROVE  ChainsIntact
<1>1. Layout(fat, HeadSet(dir) \cup extra) /\ 1 \in HeadSet(dir)
  BY DEF LaidOver, Owns, HeadSet
<1>2. ASSUME NEW e \in Holding
      PROVE  dir[e].blockno \in HeadSet(dir) /\ dir[e].blockno # 1
  BY HeldHeads, OwnedHead DEF LaidOver
<1>3. ASSUME NEW e \in Holding, NEW f \in Holding \ {e}
      PROVE  dir[e].blockno # dir[f].blockno
  BY HeldHeads DEF LaidOver, Owns
<1>4. \A e \in Holding : Chain(fat, dir[e].blockno) \cap Chain(fat, 1) = {}
  BY <1>1, <1>2 DEF Layout
<1>5. \A e \in Holding : \A f \in Holding \ {e} :
          Chain(fat, dir[e].blockno) \cap Chain(fat, dir[f].blockno) = {}
  BY <1>1, <1>2, <1>3 DEF Layout
<1>6. \A b \in Heads : EndsInEOF(fat, b)
  BY <1>1, HeldHeads DEF Layout
<1> QED
  BY <1>4, <1>5, <1>6 DEF ChainsIntact, LaidOver

(* No sequence of calls makes two files share a block, or lets a chain run *)
(* into the free ones.                                                     *)
THEOREM ChainsStayIntact == NoSelfRename => (Spec => []ChainsIntact)
<1> SUFFICES ASSUME NoSelfRename PROVE Spec => []ChainsIntact
  OBVIOUS
<1>1. ChainInv => ChainsIntact
  BY OwnedIntact DEF ChainInv, Laid
<1>2. Spec => []ChainInv
  BY ChainInvariance
<1> QED
  BY <1>1, <1>2, PTL

(* Every block in use belongs to the root directory or to a file.          *)
THEOREM BlocksAreNotLost == NoSelfRename => (Spec => []NoLostBlocks)
<1> SUFFICES ASSUME NoSelfRename PROVE Spec => []NoLostBlocks
  OBVIOUS
<1>1. ChainInv => NoLostBlocks
  <2> SUFFICES ASSUME ChainInv PROVE NoLostBlocks
    OBVIOUS
  <2>1. Layout(fat, HeadSet(dir) \cup {})
    BY DEF ChainInv, Laid, LaidOver, Owns
  <2>2. \A b \in HeadSet(dir) : Chain(fat, b) \subseteq Blocks
    BY DEF Chain
  <2>3. Blocks \ Free(fat) = UNION {Chain(fat, b) : b \in HeadSet(dir)}
    BY <2>1, <2>2 DEF Layout
  <2> QED
    BY <2>3, HeldHeads DEF NoLostBlocks, ChainInv
<1>2. Spec => []ChainInv
  BY ChainInvariance
<1> QED
  BY <1>1, <1>2, PTL

(* No two files begin with the same block, as the comment on blockno says. *)
THEOREM FirstBlocksDiffer == NoSelfRename => (Spec => []BlockNoUnique)
<1> SUFFICES ASSUME NoSelfRename PROVE Spec => []BlockNoUnique
  OBVIOUS
<1>1. ChainInv => BlockNoUnique
  <2> SUFFICES ASSUME ChainInv PROVE BlockNoUnique
    OBVIOUS
  <2> QED
    BY HeldHeads DEF BlockNoUnique, ChainInv, Laid, LaidOver, Owns
<1>2. Spec => []ChainInv
  BY ChainInvariance
<1> QED
  BY <1>1, <1>2, PTL

-----------------------------------------------------------------------------
(* No call changes a link of a file that somebody goes on reading.         *)
LEMMA NextKeepsBlocks ==
    ASSUME NoSelfRename, ChainInv, Next, NEW h \in Handles,
           IsOpen(h), IsOpen(h)', file[h].mode = "F_READ"
    PROVE  KeepsBlocks(file[h].entry)
<1> DEFINE r == file[h].entry
<1>1. r \in OpenEntries /\ r \in Nat /\ Inv
  BY HandlesHead DEF ChainInv
<1>2. ASSUME NEW g \in Handles, NEW name \in Names, NEW mode \in Modes,
             OpenExisting(g, name, mode)
      PROVE  KeepsBlocks(r)
  <2>1. CASE mode = "F_WRITE"
    <3>1. First(Found(name)) # r
      BY <1>1, <1>2, <2>1, ReadersEntry DEF OpenExisting, Locked
    <3> QED
      BY <1>1, <1>2, <3>1, OpenTouches DEF Touches, ChainInv, Laid
  <2>2. CASE mode # "F_WRITE"
    BY <1>1, <1>2, <2>2, OpenTouches DEF Touches, TouchesNothing, ChainInv, Laid
  <2> QED
    BY <2>1, <2>2
<1>3. ASSUME NEW g \in Handles, NEW name \in Names, NEW mode \in Modes,
             MakeFile(g, name, mode)
      PROVE  KeepsBlocks(r)
  BY <1>1, <1>3, MakeFileTouches DEF Touches, TouchesNothing, ChainInv, Laid
<1>4. ASSUME NEW g \in Handles, UseFile(g) PROVE KeepsBlocks(r)
  <2>1. ASSUME NEW len \in Lengths, Write(g, len) PROVE KeepsBlocks(r)
    <3>1. r # file[g].entry
      BY <1>1, <2>1, WritersExclude DEF Write
    <3> QED
      BY <1>1, <2>1, <3>1, WriteTouches, FatAssumption DEF Touches, ChainInv, Laid
  <2>2. ASSUME NEW len \in Lengths, Read(g, len) PROVE KeepsBlocks(r)
    BY <1>1, <2>2, ReadTouches, FatAssumption DEF Touches, TouchesNothing, ChainInv, Laid
  <2>3. ASSUME NEW seek \in Seeks, Lseek(g, seek[1], seek[2]) PROVE KeepsBlocks(r)
    BY <1>1, <2>3, SeekTouches DEF Touches, TouchesNothing, ChainInv, Laid
  <2>4. ASSUME Chmod(g) PROVE KeepsBlocks(r)
    BY <1>1, <2>4, ChmodTouches DEF Touches, TouchesNothing, ChainInv, Laid
  <2> QED
    BY <1>4, <2>1, <2>2, <2>3, <2>4 DEF UseFile
<1>5. ASSUME NEW g \in Handles, Close(g) PROVE KeepsBlocks(r)
  <2>1. r = file'[h].entry
    BY <1>1, NextKeepsReaders
  <2>2. r \in OpenEntries'
    BY <2>1 DEF IsOpen, OpenEntries, EntryOf
  <2> QED
    BY <1>5, <2>2, CloseTouches DEF ChainInv, Laid
<1>6. ASSUME NEW name \in Names, Unlink(name) PROVE KeepsBlocks(r)
  BY <1>1, <1>6, UnlinkTouches DEF ChainInv, Laid
<1>7. ASSUME NEW pair \in Renames, Rename(pair[1], pair[2]) PROVE KeepsBlocks(r)
  <2>1. pair[1] \in Names /\ pair[2] \in Names /\ pair[1] # pair[2]
    BY FatAssumption DEF NoSelfRename
  <2> QED
    BY <1>1, <1>7, <2>1, RenameTouches DEF ChainInv, Laid
<1>8. CASE Remount
  BY <1>8 DEF Remount, KeepsBlocks
<1> QED
  BY <1>2, <1>3, <1>4, <1>5, <1>6, <1>7, <1>8 DEF Next, OpenFile

(* While a reader has a file open, no call links, frees or reuses a block  *)
(* of it.                                                                  *)
THEOREM ReadersBlocksAreKept == NoSelfRename => (Spec => ReadersKeepBlocks)
<1> DEFINE Kept(h) == IsOpen(h) /\ IsOpen(h)' /\ file[h].mode = "F_READ" =>
                          \A b \in Chain(fat, dir[file[h].entry].blockno) : fat'[b] = fat[b]
<1> SUFFICES ASSUME NoSelfRename PROVE Spec => ReadersKeepBlocks
  OBVIOUS
<1>1. ChainInv /\ [Next]_vars => [\A h \in Handles : Kept(h)]_vars
  <2> SUFFICES ASSUME ChainInv, Next, NEW h \in Handles,
                      IsOpen(h), IsOpen(h)', file[h].mode = "F_READ"
               PROVE  \A b \in Chain(fat, dir[file[h].entry].blockno) : fat'[b] = fat[b]
    OBVIOUS
  <2>1. KeepsBlocks(file[h].entry)
    BY NextKeepsBlocks
  <2>2. HeadOf(dir, file[h].entry) = dir[file[h].entry].blockno
    BY HandlesHead DEF ChainInv
  <2> QED
    BY <2>1, <2>2 DEF KeepsBlocks
<1>2. Spec => []ChainInv
  BY ChainInvariance
<1> QED
  BY <1>1, <1>2, PTL DEF Spec, ReadersKeepBlocks
=============================================================================
