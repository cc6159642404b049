---------------------------- MODULE ParserProofs ----------------------------
(***************************************************************************)
(* Theorems about parse_command, for lines of every length: its error is   *)
(* that of the line as a whole, what it stores is what the line means, and *)
(* it fits the buffer.  Both passes go from token to token.                *)
(***************************************************************************)
EXTENDS ParserProperties, FiniteSetTheorems, SequenceTheorems, TLAPS

-----------------------------------------------------------------------------
(* Where a token begins that the loops meet: an operator, or a word that   *)
(* does not name a file.                                                   *)
Tokens == Operators \cup Arguments

(* What is left of the line when its ends have been cut off.               *)
Trimmed ==
    /\ start \in 1..end /\ end <= Len(cmd_line) + 1
    /\ Text = {p \in start..end - 1 : cmd_line[p] # "space"}
    /\ \A p \in start..end - 1 : cmd_line[p] # "hash"
    /\ start < end => start \in Text
    /\ Kept # {} /\ pcmd.is_background = Background

(* What the first pass knows in front of position p.                       *)
ReadTo(p, flags, total, result) ==
    /\ flags.file_input <=> Before(p, Places("less")) # {}
    /\ flags.file_output <=> Before(p, Places("greater")) # {}
    /\ flags.token_last <=> ArgumentBefore(p)
    /\ total = Cardinality(Before(p, Arguments))
    /\ result.num_commands = Cardinality(Before(p, Pipes))
    /\ result.is_file_append <=> \E q \in Before(p, Text) : SecondOfAppend(q)
    /\ Before(p, Offending) = {}

(* Nothing has been stored.                                                *)
Fresh == /\ argv = <<>> /\ commands = <<>>
         /\ pcmd.stdin_file = None /\ pcmd.stdout_file = None

(* The line is in order, and its tokens are counted.                       *)
Counted ==
    /\ Offending = {} /\ Arguments # {} /\ ArgumentBefore(end)
    /\ total_strings = Cardinality(Arguments)
    /\ pcmd.num_commands = Cardinality(Pipes) + 1
    /\ pcmd.is_file_append <=> \E q \in Text : SecondOfAppend(q)

(* What the second pass has stored in front of position p.                 *)
StoredTo(p, args, lists, result) ==
    /\ Len(args) = Cardinality(Before(p, Slots))
    /\ \A s \in Before(p, Arguments) : args[Place(s)] = Word(s)
    /\ \A s \in Before(p, Pipes) : args[Place(s)] = None
    /\ Len(lists) = Cardinality(Before(p, Pipes)) + 1 /\ lists[1] = 1
    /\ \A s \in Before(p, Pipes) : lists[Cardinality(Before(s, Pipes)) + 2] = Place(s) + 1
    /\ result.stdin_file = IF Before(p, Places("less")) = {} THEN None ELSE FileName("less")
    /\ result.stdout_file = IF Before(p, Places("greater")) = {} THEN None ELSE FileName("greater")

(* The types of the variables.                                             *)
Stretch == (Nat \X Nat) \cup {None}
Flags == [token_last : BOOLEAN, file_input : BOOLEAN, file_output : BOOLEAN]
Results == [is_background : BOOLEAN, is_file_append : BOOLEAN, stdin_file : Stretch,
            stdout_file : Stretch, num_commands : Nat]
Typed ==
    /\ cmd_line \in Lines /\ start \in Nat /\ end \in Nat /\ cur \in Nat
    /\ pass \in {"trim", "first", "second", "done"}
    /\ seen \in Flags /\ total_strings \in Nat /\ pcmd \in Results
    /\ argv \in Seq(Stretch) /\ commands \in Seq(Nat)

(* The inductive invariant.                                                *)
Untouched ==
    /\ start = 1 /\ end = Len(cmd_line) + 1 /\ Fresh /\ ret_code = "success"
    /\ seen = [token_last |-> FALSE, file_input |-> FALSE, file_output |-> FALSE]
    /\ total_strings = 0 /\ pcmd.num_commands = 0 /\ ~pcmd.is_file_append
InFirst ==
    /\ Trimmed /\ Fresh /\ cur \in Tokens \cup {end} /\ ReadTo(cur, seen, total_strings, pcmd)
    /\ ret_code = "success"
InSecond ==
    /\ Trimmed /\ Counted /\ cur \in Tokens \cup {end}
    /\ StoredTo(cur, argv, commands, pcmd)
    /\ ret_code = "success"
IsDone ==
    \/ Kept = {} /\ ret_code = "success" /\ Fresh
    \/ Kept # {} /\ ret_code = Verdict /\ ret_code # "success" /\ Fresh
    \/ Trimmed /\ Counted /\ ret_code = "success"
       /\ \E args \in Seq(Stretch) : argv = Append(args, None) /\ StoredTo(end, args, commands, pcmd)
ParserInv ==
    /\ Typed
    /\ pass = "trim" => Untouched
    /\ pass = "first" => InFirst
    /\ pass = "second" => InSecond
    /\ pass = "done" => IsDone

-----------------------------------------------------------------------------
(* A nonempty set of numbers has a least element.  The argument counts     *)
(* its lower bounds: there are as many as the least element plus one.      *)
LEMMA LeastElement ==
    ASSUME NEW S \in SUBSET Nat, S # {}
    PROVE  \E m \in S : \A k \in S : m <= k
<1>1. PICK n \in S : TRUE
  OBVIOUS
<1> DEFINE Below == {k \in 0..n : \A f \in S : k <= f}
           c == Cardinality(Below)
<1>2. IsFiniteSet(0..n) /\ Below \in SUBSET (0..n)
  BY FS_Interval
<1>3. IsFiniteSet(Below) /\ c \in Nat
  BY <1>2, FS_Subset, FS_CardinalityType
<1> HIDE DEF c
<1>4. ASSUME NEW k \in Below PROVE k + 1 <= c
  <2>1. 0..k \in SUBSET Below
    OBVIOUS
  <2>2. Cardinality(0..k) = k + 1
    BY FS_Interval
  <2> QED
    BY <1>3, <2>1, <2>2, FS_Subset DEF c
<1>5. Below = 0..c - 1
  <2>1. Below \in SUBSET (0..c - 1)
    <3>1. \A k \in Below : k \in Nat /\ k <= c - 1
      BY <1>3, <1>4
    <3> QED
      BY <1>3, <3>1
  <2>2. IsFiniteSet(0..c - 1) /\ Cardinality(0..c - 1) = c
    BY <1>3, FS_Interval
  <2> QED
    BY <2>1, <2>2, FS_Subset DEF c
<1>6. 0 \in Below
  OBVIOUS
<1>7. c - 1 \in Below /\ c \notin Below
  <2> HIDE DEF Below
  <2>1. 0 \in 0..c - 1
    BY <1>5, <1>6
  <2>2. c - 1 \in 0..c - 1 /\ c \notin 0..c - 1
    BY <1>3, <2>1
  <2> QED
    BY <1>5, <2>2
<1> QED
  BY <1>3, <1>7

(* What Min and Max are, when there is a least or a greatest element.      *)
LEMMA MinIs ==
    ASSUME NEW S \in SUBSET Int, NEW m \in S, \A k \in S : m <= k
    PROVE  Min(S) = m
<1>1. /\ Min(S) \in S /\ \A k \in S : Min(S) <= k
  BY DEF Min
<1>2. m \in Int /\ Min(S) \in Int
  BY <1>1
<1>3. m <= Min(S) /\ Min(S) <= m
  BY <1>1
<1> QED
  BY <1>2, <1>3

(* The same of Max.                                                        *)
LEMMA MaxIs ==
    ASSUME NEW S \in SUBSET Int, NEW m \in S, \A k \in S : m >= k
    PROVE  Max(S) = m
<1>1. /\ Max(S) \in S /\ \A k \in S : Max(S) >= k
  BY DEF Max
<1>2. m \in Int /\ Max(S) \in Int
  BY <1>1
<1>3. m >= Max(S) /\ Max(S) >= m
  BY <1>1
<1> QED
  BY <1>2, <1>3

(* A nonempty set of numbers has a Min, and if it is bounded a Max.        *)
LEMMA MinOf ==
    ASSUME NEW S \in SUBSET Nat, S # {}
    PROVE  Min(S) \in S /\ \A k \in S : Min(S) <= k
BY LeastElement DEF Min

(* The distance to the bound is a set of numbers.                          *)
LEMMA MaxOf ==
    ASSUME NEW n \in Nat, NEW S \in SUBSET (0..n), S # {}
    PROVE  Max(S) \in S /\ \A k \in S : Max(S) >= k
<1> DEFINE D == {n - k : k \in S}
<1>1. D \in SUBSET Nat /\ D # {}
  <2>1. \A k \in S : n - k \in Nat
    OBVIOUS
  <2> QED
    BY <2>1
<1>2. PICK d \in D : \A e \in D : d <= e
  <2> HIDE DEF D
  <2> QED
    BY <1>1, LeastElement
<1>3. PICK m \in S : d = n - m
  OBVIOUS
<1>4. ASSUME NEW k \in S PROVE m >= k
  <2>1. n - k \in D
    OBVIOUS
  <2>2. n - m <= n - k
    BY <1>2, <1>3, <2>1
  <2>3. k \in Int /\ m \in Int
    OBVIOUS
  <2> QED
    BY <2>2, <2>3
<1> QED
  BY <1>4 DEF Max

-----------------------------------------------------------------------------
(* A line is a sequence of characters.                                     *)
LEMMA LineIs ==
    ASSUME Typed
    PROVE  /\ Len(cmd_line) \in Nat /\ DOMAIN cmd_line = 1..Len(cmd_line)
           /\ \A p \in DOMAIN cmd_line : cmd_line[p] \in Characters
<1>1. PICK n \in 0..MaxLength : cmd_line \in [1..n -> Characters]
  BY DEF Typed, Lines
<1>2. n \in Nat
  BY LengthAssumption
<1>3. cmd_line \in Seq(Characters)
  BY <1>1, <1>2
<1> QED
  BY <1>3

(* Where skip_word stops.                                                  *)
LEMMA SkipWord ==
    ASSUME NEW p \in Nat, end \in Nat, p <= end
    PROVE  /\ skip_word(p) \in p..end
           /\ skip_word(p) = end \/ ~WordCharacter(cmd_line[skip_word(p)])
           /\ \A q \in p..skip_word(p) - 1 : WordCharacter(cmd_line[q])
<1> DEFINE S == {q \in p..end : q = end \/ ~WordCharacter(cmd_line[q])}
<1>1. S \in SUBSET Nat /\ end \in S
  <2>1. \A q \in p..end : q \in Nat
    OBVIOUS
  <2>2. end \in p..end
    OBVIOUS
  <2> QED
    BY <2>1, <2>2
<1>2. skip_word(p) = Min(S)
  BY DEF skip_word
<1>3. Min(S) \in S /\ \A k \in S : Min(S) <= k
  <2> HIDE DEF S
  <2> QED
    BY <1>1, MinOf
<1>4. ASSUME NEW q \in p..Min(S) - 1 PROVE WordCharacter(cmd_line[q])
  <2>0. Min(S) \in p..end /\ q \in Int
    BY <1>3
  <2>1. q \notin S
    <3>1. ~(Min(S) <= q)
      BY <2>0
    <3> QED
      BY <1>3, <3>1
  <2>2. q \in p..end
    BY <2>0
  <2> QED
    BY <2>1, <2>2
<1> QED
  BY <1>2, <1>3, <1>4

(* Where skip_space stops.                                                 *)
LEMMA SkipSpace ==
    ASSUME NEW p \in Nat, end \in Nat, p <= end
    PROVE  /\ skip_space(p) \in p..end
           /\ skip_space(p) = end \/ cmd_line[skip_space(p)] # "space"
           /\ \A q \in p..skip_space(p) - 1 : cmd_line[q] = "space"
<1> DEFINE S == {q \in p..end : q = end \/ cmd_line[q] # "space"}
<1>1. S \in SUBSET Nat /\ end \in S
  <2>1. \A q \in p..end : q \in Nat
    OBVIOUS
  <2>2. end \in p..end
    OBVIOUS
  <2> QED
    BY <2>1, <2>2
<1>2. skip_space(p) = Min(S)
  BY DEF skip_space
<1>3. Min(S) \in S /\ \A k \in S : Min(S) <= k
  <2> HIDE DEF S
  <2> QED
    BY <1>1, MinOf
<1>4. ASSUME NEW q \in p..Min(S) - 1 PROVE cmd_line[q] = "space"
  <2>0. Min(S) \in p..end /\ q \in Int
    BY <1>3
  <2>1. q \notin S
    <3>1. ~(Min(S) <= q)
      BY <2>0
    <3> QED
      BY <1>3, <3>1
  <2>2. q \in p..end
    BY <2>0
  <2> QED
    BY <2>1, <2>2
<1> QED
  BY <1>2, <1>3, <1>4

-----------------------------------------------------------------------------
(* The positions of the text, and what stands there.                       *)
LEMMA TextIs ==
    ASSUME Typed, Trimmed
    PROVE  /\ start \in Nat /\ end \in Nat /\ start >= 1 /\ start <= end
           /\ end <= Len(cmd_line) + 1 /\ Len(cmd_line) \in Nat
           /\ Text \in SUBSET (start..end - 1)
           /\ \A p \in start..end - 1 : p \in Text <=> cmd_line[p] # "space"
           /\ \A p \in start..end - 1 : cmd_line[p] \in {"word", "space", "less", "greater", "pipe", "ampersand"}
           /\ \A c, p : p \in Places(c) <=> p \in Text /\ cmd_line[p] = c
<1>1. Len(cmd_line) \in Nat /\ \A p \in 1..Len(cmd_line) : cmd_line[p] \in Characters
  BY LineIs
<1>2. start \in Nat /\ end \in Nat /\ start >= 1 /\ start <= end /\ end <= Len(cmd_line) + 1
  <2>1. start \in 1..end /\ end <= Len(cmd_line) + 1 /\ start \in Nat /\ end \in Nat
    BY DEF Typed, Trimmed
  <2> QED
    BY <2>1
<1>3. ASSUME NEW p \in start..end - 1 PROVE cmd_line[p] \in {"word", "space", "less", "greater", "pipe", "ampersand"}
  <2>1. p \in 1..Len(cmd_line)
    BY <1>1, <1>2
  <2>2. cmd_line[p] # "hash"
    BY DEF Trimmed
  <2> QED
    BY <1>1, <2>1, <2>2 DEF Characters
<1> QED
  BY <1>1, <1>2, <1>3 DEF Trimmed, Places

(* What stands before s is at q.                                           *)
LEMMA NameIs ==
    ASSUME Typed, Trimmed, NEW q \in Text, NEW s \in Int, q < s,
           \A x \in q + 1..s - 1 : x \notin Text
    PROVE  \A c : IsNameFor(s, c) <=> cmd_line[q] = c
<1>1. Text \in SUBSET Int
  <2>1. Text \in SUBSET (start..end - 1) /\ \A x \in start..end - 1 : x \in Int
    BY TextIs
  <2> QED
    BY <2>1
<1>2. q \in Before(s, Text) /\ \A k \in Before(s, Text) : q >= k
  BY <1>1 DEF Before
<1>3. Before(s, Text) \in SUBSET Int
  BY <1>1 DEF Before
<1>4. Max(Before(s, Text)) = q
  BY <1>2, <1>3, MaxIs
<1> QED
  BY <1>2, <1>4 DEF IsNameFor

(* The first word of the text names no file.                               *)
LEMMA NoName ==
    ASSUME NEW s, \A x \in Text : ~(x < s)
    PROVE  \A c : ~IsNameFor(s, c)
BY DEF IsNameFor, Before

(* Tokens are positions of the text.                                       *)
LEMMA TokensInText ==
    /\ Tokens \in SUBSET Text /\ Operators \in SUBSET Tokens /\ Arguments \in SUBSET Tokens
    /\ Offending \in SUBSET Operators /\ Arguments \in SUBSET WordStarts
    /\ WordStarts \in SUBSET Places("word") /\ \A c : Places(c) \in SUBSET Text
BY DEF Tokens, Operators, Arguments, Offending, WordStarts, Places

(* Behind an argument, a name or a pipe at q, the next character but white *)
(* space begins a token.                                                   *)
LEMMA NextToken ==
    ASSUME Typed, Trimmed, NEW q \in Text, NEW r \in q + 1..end,
           \A x \in q + 1..r - 1 : cmd_line[x] = "space", r = end \/ cmd_line[r] # "space",
           cmd_line[q] \notin {"less", "greater"},
           r # end /\ cmd_line[q] = "word" /\ r = q + 1 => cmd_line[r] # "word"
    PROVE  r \in Tokens \cup {end}
<1> SUFFICES ASSUME r # end PROVE r \in Tokens
  OBVIOUS
<1>1. /\ q \in start..end - 1 /\ r \in start..end - 1 /\ r \in Text /\ q \in Int /\ r \in Int
      /\ \A x \in q + 1..r - 1 : x \notin Text
  <2>1. /\ start \in Nat /\ end \in Nat /\ Text \in SUBSET (start..end - 1)
        /\ \A p \in start..end - 1 : p \in Text <=> cmd_line[p] # "space"
    BY TextIs
  <2>2. q \in start..end - 1
    BY <2>1
  <2>3. r \in start..end - 1 /\ q \in Int /\ r \in Int
    BY <2>1, <2>2
  <2>4. \A x \in q + 1..r - 1 : x \in start..end - 1
    BY <2>1, <2>2, <2>3
  <2> QED
    BY <2>1, <2>2, <2>3, <2>4
<1>2. \A c : IsNameFor(r, c) <=> cmd_line[q] = c
  <2>1. q < r
    BY <1>1
  <2> QED
    BY <1>1, <2>1, NameIs
<1>3. ~SecondOfAppend(r)
  <2>1. SUFFICES ASSUME r - 1 \in Places("greater") PROVE FALSE
    BY DEF SecondOfAppend, IsOutput
  <2>2. r - 1 \in Text /\ cmd_line[r - 1] = "greater"
    BY <2>1, TextIs
  <2>3. r - 1 = q \/ r - 1 \in q + 1..r - 1
    <3>1. q \in Int /\ r \in Int /\ r > q
      BY <1>1
    <3> QED
      BY <3>1
  <2> QED
    BY <1>1, <2>2, <2>3
<1>4. CASE cmd_line[r] # "word"
  BY <1>1, <1>3, <1>4 DEF Tokens, Operators
<1>5. CASE cmd_line[r] = "word"
  <2>1. r - 1 \notin Places("word")
    <3>1. CASE r - 1 = q
      <4>1. r = q + 1
        BY <1>1, <3>1
      <4> QED
        BY <1>1, <1>5, <3>1, <4>1, TextIs
    <3>2. CASE r - 1 # q
      <4>1. q \in Int /\ r \in Int /\ r > q
        BY <1>1
      <4>2. r - 1 \in q + 1..r - 1
        BY <3>2, <4>1
      <4> QED
        BY <1>1, <4>2, TextIs
    <3> QED
      BY <3>1, <3>2
  <2>2. r \in Places("word")
    BY <1>1, <1>5, TextIs
  <2> QED
    BY <1>2, <2>1, <2>2 DEF Tokens, Arguments, WordStarts
<1> QED
  BY <1>4, <1>5

(* What stands before a name that is one for c.                            *)
LEMMA NameFollows ==
    ASSUME Typed, Trimmed, NEW s \in Text, NEW c, IsNameFor(s, c)
    PROVE  \E q \in Text : q < s /\ cmd_line[q] = c /\ \A x \in Text : x < s => x <= q
<1> DEFINE q == Max(Before(s, Text))
<1>1. end \in Nat /\ Before(s, Text) \in SUBSET (0..end)
  <2>1. start \in Nat /\ end \in Nat /\ Text \in SUBSET (start..end - 1)
    BY TextIs
  <2>2. \A x \in start..end - 1 : x \in 0..end
    BY <2>1
  <2> QED
    BY <2>1, <2>2 DEF Before
<1>2. Before(s, Text) # {} /\ cmd_line[q] = c
  BY DEF IsNameFor
<1>3. q \in Before(s, Text) /\ \A x \in Before(s, Text) : q >= x
  BY <1>1, <1>2, MaxOf
<1>4. \A x \in Text : x \in Int
  <2>1. start \in Nat /\ end \in Nat /\ Text \in SUBSET (start..end - 1)
    BY TextIs
  <2> QED
    BY <2>1
<1> HIDE DEF q
<1>5. q \in Text /\ q < s
  BY <1>3 DEF Before
<1>6. ASSUME NEW x \in Text, x < s PROVE x <= q
  <2>1. q >= x /\ q \in Int /\ x \in Int
    BY <1>3, <1>4, <1>5, <1>6 DEF Before
  <2> QED
    BY <2>1
<1> QED
  BY <1>2, <1>5, <1>6

(* A word is read to its end.                                              *)
LEMMA WordEnds ==
    ASSUME Typed, Trimmed, NEW p \in Text, cmd_line[p] = "word"
    PROVE  LET e == skip_word(p) IN
           /\ p \in Nat /\ e \in p + 1..end /\ Word(p) = <<p, e>>
           /\ \A x \in p..e - 1 : x \in Places("word")
           /\ e # end => cmd_line[e] # "word"
<1> DEFINE e == skip_word(p)
<1>1. /\ start \in Nat /\ end \in Nat /\ p \in start..end - 1 /\ end <= Len(cmd_line) + 1
      /\ Len(cmd_line) \in Nat
      /\ \A x \in start..end - 1 : cmd_line[x] \in
             {"word", "space", "less", "greater", "pipe", "ampersand"}
      /\ \A x \in start..end - 1 : x \in Text <=> cmd_line[x] # "space"
      /\ \A c, x : x \in Places(c) <=> x \in Text /\ cmd_line[x] = c
      /\ Text \in SUBSET (start..end - 1)
  BY TextIs
<1>2. p \in Nat /\ p <= end /\ p < end
  BY <1>1
<1>3. /\ e \in p..end /\ (e = end \/ ~WordCharacter(cmd_line[e]))
      /\ \A q \in p..e - 1 : WordCharacter(cmd_line[q])
  BY <1>1, <1>2, SkipWord
<1> HIDE DEF e
<1>4. e # p
  BY <1>2, <1>3 DEF WordCharacter
<1>5. e \in p + 1..end
  <2>1. e \in p..end /\ p \in Nat /\ end \in Nat
    BY <1>1, <1>2, <1>3
  <2> QED
    BY <1>4, <2>1
<1>6. ASSUME NEW x \in p..e - 1 PROVE x \in Places("word")
  <2>1. x \in start..end - 1
    BY <1>1, <1>2, <1>5
  <2>2. cmd_line[x] = "word"
    BY <1>1, <1>3, <2>1 DEF WordCharacter
  <2> QED
    BY <1>1, <2>1, <2>2
<1>7. ASSUME e # end PROVE cmd_line[e] # "word"
  BY <1>3, <1>7 DEF WordCharacter
<1>8. WordEnd(p) = e
  <2> DEFINE S == {q \in p..Len(cmd_line) + 1 : q \notin Places("word")}
  <2>1. e \in S
    <3>1. e \in p..Len(cmd_line) + 1
      BY <1>1, <1>2, <1>5
    <3>2. e \notin Places("word")
      <4>1. CASE e = end
        <5>1. e \notin start..end - 1
          BY <1>1, <4>1
        <5> QED
          BY <1>1, <5>1
      <4>2. CASE e # end
        BY <1>1, <1>7, <4>2
      <4> QED
        BY <4>1, <4>2
    <3> QED
      BY <3>1, <3>2
  <2>2. \A k \in S : e <= k
    <3> SUFFICES ASSUME NEW k \in p..Len(cmd_line) + 1, k \notin Places("word") PROVE e <= k
      OBVIOUS
    <3>1. k \notin p..e - 1
      BY <1>6
    <3> QED
      BY <1>1, <1>2, <1>5, <3>1
  <2>3. S \in SUBSET Int
    <3>1. \A k \in p..Len(cmd_line) + 1 : k \in Int
      BY <1>1, <1>2
    <3> QED
      BY <3>1
  <2>4. WordEnd(p) = Min(S)
    BY DEF WordEnd
  <2> HIDE DEF S
  <2> QED
    BY <2>1, <2>2, <2>3, <2>4, MinIs
<1> QED
  BY <1>2, <1>5, <1>6, <1>7, <1>8 DEF Word, e

(* The next token after r is at most a stretch of white space away.        *)
LEMMA BlankEnds ==
    ASSUME Typed, Trimmed, NEW p \in start..end
    PROVE  LET r == skip_space(p) IN
           /\ r \in p..end /\ (r = end \/ r \in Text)
           /\ \A x \in p..r - 1 : x \notin Text /\ cmd_line[x] = "space"
<1> DEFINE r == skip_space(p)
<1>1. /\ start \in Nat /\ end \in Nat
      /\ \A x \in start..end - 1 : x \in Text <=> cmd_line[x] # "space"
  BY TextIs
<1>2. p \in Nat /\ p <= end /\ start <= p
  BY <1>1
<1>3. /\ r \in p..end /\ (r = end \/ cmd_line[r] # "space")
      /\ \A q \in p..r - 1 : cmd_line[q] = "space"
  BY <1>1, <1>2, SkipSpace
<1> HIDE DEF r
<1>4. (r # end => r \in start..end - 1) /\ \A x \in p..r - 1 : x \in start..end - 1
  <2>1. start \in Nat /\ end \in Nat /\ p \in Nat /\ start <= p /\ r \in p..end
    BY <1>1, <1>2, <1>3
  <2> QED
    BY <2>1
<1> QED
  BY <1>1, <1>3, <1>4 DEF r

-----------------------------------------------------------------------------
(* From the token at p the loop goes on to the next one, at r.             *)
Onto(p, r) ==
    /\ p \in Nat /\ r \in Nat /\ p < r /\ r \in Tokens \cup {end}
    /\ \A x \in Tokens : p <= x /\ x < r => x = p

(* A word, whether it names a file or not.                                 *)
LEMMA WordStep ==
    ASSUME Typed, Trimmed, NEW p \in WordStarts
    PROVE  /\ Onto(p, skip_space(skip_word(p))) /\ Word(p) = <<p, skip_word(p)>>
           /\ skip_word(p) \in Nat
<1> DEFINE e == skip_word(p)
           r == skip_space(e)
<1>1. /\ start \in Nat /\ end \in Nat /\ Text \in SUBSET (start..end - 1)
      /\ \A c, x : x \in Places(c) <=> x \in Text /\ cmd_line[x] = c
  BY TextIs
<1>2. p \in Text /\ cmd_line[p] = "word" /\ p \in start..end - 1
  BY <1>1, TokensInText
<1>3. /\ p \in Nat /\ e \in p + 1..end /\ Word(p) = <<p, e>>
      /\ \A x \in p..e - 1 : x \in Places("word")
      /\ e # end => cmd_line[e] # "word"
  BY <1>2, WordEnds
<1> HIDE DEF e
<1>4. e \in start..end /\ e \in Nat /\ p < e
  BY <1>1, <1>2, <1>3
<1>5. /\ r \in e..end /\ (r = end \/ r \in Text)
      /\ \A x \in e..r - 1 : x \notin Text /\ cmd_line[x] = "space"
  BY <1>4, BlankEnds
<1> HIDE DEF r
<1>6. r \in Nat /\ p < r /\ e <= r /\ r <= end
  <2>1. r \in e..end /\ e \in Nat /\ end \in Nat /\ p \in Nat /\ p < e
    BY <1>1, <1>3, <1>4, <1>5
  <2> QED
    BY <2>1
<1>7. ASSUME NEW x \in Tokens, p <= x, x < r PROVE x = p
  <2>1. x \in Text /\ x \in Int
    BY <1>1, TokensInText
  <2>2. CASE x >= e
    <3>1. x \in e..r - 1
      BY <1>4, <1>6, <1>7, <2>1, <2>2
    <3> QED
      BY <1>5, <2>1, <3>1
  <2>3. CASE x < e /\ x # p
    <3>1. x \in p..e - 1 /\ x - 1 \in p..e - 1
      BY <1>3, <1>4, <1>7, <2>1, <2>3
    <3>2. cmd_line[x] = "word" /\ x \notin WordStarts
      BY <1>1, <1>3, <3>1 DEF WordStarts
    <3> QED
      BY <3>2, TokensInText DEF Tokens, Operators
  <2> QED
    BY <1>4, <2>1, <2>2, <2>3
<1>8. r \in Tokens \cup {end}
  <2> DEFINE q == e - 1
  <2>1. q \in p..e - 1 /\ q \in Nat /\ r \in q + 1..end
    BY <1>1, <1>3, <1>4, <1>6
  <2>2. q \in Text /\ cmd_line[q] = "word"
    BY <1>1, <1>3, <2>1
  <2>3. \A x \in q + 1..r - 1 : cmd_line[x] = "space"
    <3>1. q + 1 = e
      BY <1>4
    <3> QED
      BY <1>5, <3>1
  <2>4. r = end \/ cmd_line[r] # "space"
    BY <1>1, <1>5, TextIs
  <2>5. r # end /\ r = q + 1 => cmd_line[r] # "word"
    <3>1. r = q + 1 => r = e
      BY <1>4
    <3> QED
      BY <1>3, <3>1
  <2> HIDE DEF q
  <2> QED
    BY <2>1, <2>2, <2>3, <2>4, <2>5, NextToken
<1> QED
  BY <1>3, <1>4, <1>6, <1>7, <1>8 DEF Onto, e, r

(* A pipe.                                                                 *)
LEMMA PipeStep ==
    ASSUME Typed, Trimmed, NEW p \in Pipes
    PROVE  Onto(p, skip_space(p + 1)) /\ p \in Operators
<1> DEFINE r == skip_space(p + 1)
<1>1. /\ start \in Nat /\ end \in Nat /\ Text \in SUBSET (start..end - 1)
      /\ \A c, x : x \in Places(c) <=> x \in Text /\ cmd_line[x] = c
  BY TextIs
<1>2. p \in Text /\ cmd_line[p] = "pipe" /\ p \in start..end - 1
  BY <1>1 DEF Pipes
<1>3. p \in Nat /\ p + 1 \in start..end
  BY <1>1, <1>2
<1>4. /\ r \in p + 1..end /\ (r = end \/ r \in Text)
      /\ \A x \in p + 1..r - 1 : x \notin Text /\ cmd_line[x] = "space"
  BY <1>3, BlankEnds
<1> HIDE DEF r
<1>5. r \in Nat /\ p < r
  BY <1>1, <1>3, <1>4
<1>6. ASSUME NEW x \in Tokens, p <= x, x < r PROVE x = p
  <2>1. x \in Text /\ x \in Int
    BY <1>1, TokensInText
  <2>2. x \notin p + 1..r - 1
    BY <1>4, <2>1
  <2> QED
    BY <1>3, <1>5, <1>6, <2>1, <2>2
<1>7. r \in Tokens \cup {end}
  <2>1. r = end \/ cmd_line[r] # "space"
    BY <1>1, <1>4, TextIs
  <2> QED
    BY <1>2, <1>4, <2>1, NextToken
<1>8. p \in Operators
  BY <1>1, <1>2 DEF Operators, SecondOfAppend
<1> QED
  BY <1>3, <1>5, <1>6, <1>7, <1>8 DEF Onto, r

(* Where an operator that takes a name ends, and where its name is to be.  *)
Redirects ==
    {p \in Operators : cmd_line[p] = "less" \/ (cmd_line[p] = "greater" /\ IsOutput(p))}
EndOf(p) == IF SecondOfAppend(p + 1) THEN p + 1 ELSE p
NameAt(p) == skip_space(EndOf(p) + 1)

(* There is a name behind it if and only if skip_word moves on.            *)
LEMMA NameBehind ==
    ASSUME Typed, Trimmed, NEW p \in Redirects
    PROVE  LET s == NameAt(p)  t == EndOf(p) IN
           /\ p \in Nat /\ t \in Nat /\ t \in Text /\ (t = p \/ t = p + 1)
           /\ cmd_line[t] = cmd_line[p] /\ (t # p => SecondOfAppend(t))
           /\ s \in t + 1..end /\ \A x \in t + 1..s - 1 : x \notin Text
           /\ HasName(p) <=> s \in WordStarts
           /\ HasName(p) <=> ~(skip_word(s) <= s)
<1> DEFINE t == EndOf(p)
           s == NameAt(p)
<1>1. /\ start \in Nat /\ end \in Nat /\ Text \in SUBSET (start..end - 1)
      /\ \A c, x : x \in Places(c) <=> x \in Text /\ cmd_line[x] = c
  BY TextIs
<1>2. p \in Text /\ p \in start..end - 1 /\ cmd_line[p] \in {"less", "greater"}
  BY <1>1 DEF Redirects, Operators
<1>3. p \in Nat
  BY <1>1, <1>2
<1>4. ASSUME SecondOfAppend(p + 1)
      PROVE  p + 1 \in Text /\ cmd_line[p + 1] = "greater" /\ cmd_line[p] = "greater"
  <2>1. (p + 1) - 1 = p
    BY <1>3
  <2>2. p + 1 \in Places("greater") /\ p \in Places("greater")
    BY <1>4, <2>1 DEF SecondOfAppend, IsOutput
  <2> QED
    BY <1>1, <2>2
<1>5. t \in Text /\ (t = p \/ t = p + 1) /\ cmd_line[t] = cmd_line[p] /\ (t # p => SecondOfAppend(t))
  BY <1>2, <1>4 DEF EndOf
<1> HIDE DEF t
<1>6. t \in Nat /\ t \in start..end - 1 /\ t + 1 \in start..end
  <2>1. t \in start..end - 1
    BY <1>1, <1>5
  <2> QED
    BY <1>1, <2>1
<1>7. s = skip_space(t + 1)
  BY DEF NameAt, t
<1>8. /\ s \in t + 1..end /\ (s = end \/ s \in Text)
      /\ \A x \in t + 1..s - 1 : x \notin Text /\ cmd_line[x] = "space"
  BY <1>6, <1>7, BlankEnds
<1> HIDE DEF s
<1>9. s \in Nat /\ s > t /\ s <= end
  BY <1>1, <1>6, <1>8
<1>10. ASSUME s # end, cmd_line[s] = "word" PROVE s \in WordStarts
  <2>1. s - 1 \notin Places("word")
    <3>1. CASE s - 1 = t
      BY <1>1, <1>2, <1>5, <3>1
    <3>2. CASE s - 1 # t
      <4>1. s - 1 \in t + 1..s - 1
        BY <1>6, <1>9, <3>2
      <4> QED
        BY <1>1, <1>8, <4>1
    <3> QED
      BY <3>1, <3>2
  <2> QED
    BY <1>1, <1>8, <1>10, <2>1 DEF WordStarts
<1>11. s \in WordStarts => s # end /\ cmd_line[s] = "word"
  <2> SUFFICES ASSUME s \in WordStarts PROVE s # end /\ cmd_line[s] = "word"
    OBVIOUS
  <2>1. s \in Text /\ cmd_line[s] = "word"
    BY <1>1, TokensInText
  <2>2. s \in start..end - 1
    BY <1>1, <2>1
  <2> QED
    BY <1>1, <2>1, <2>2
<1>12. HasName(p) <=> \E x \in WordStarts : x > t /\ Before(x, Text) \subseteq 1..t
  BY DEF HasName, t, EndOf
<1>13. ASSUME s \in WordStarts PROVE HasName(p)
  <2>1. Before(s, Text) \subseteq 1..t
    <3> SUFFICES ASSUME NEW x \in Text, x < s PROVE x \in 1..t
      BY DEF Before
    <3>1. x \in start..end - 1 /\ x \notin t + 1..s - 1
      BY <1>1, <1>8
    <3>2. x \in Int /\ x >= 1
      <4>1. start >= 1
        BY TextIs
      <4> QED
        BY <1>1, <3>1, <4>1
    <3> QED
      BY <1>6, <1>9, <3>1, <3>2
  <2> QED
    BY <1>9, <1>12, <1>13, <2>1
<1>14. ASSUME HasName(p) PROVE s \in WordStarts
  <2>1. PICK x \in WordStarts : x > t /\ Before(x, Text) \subseteq 1..t
    BY <1>12, <1>14
  <2>2. x \in Text /\ cmd_line[x] = "word"
    BY <1>1, TokensInText
  <2>3. x \in start..end - 1 /\ x \in Int
    BY <1>1, <2>2
  <2>4. x >= s
    <3>1. x \notin t + 1..s - 1
      BY <1>8, <2>2
    <3> QED
      BY <1>6, <1>9, <2>1, <2>3, <3>1
  <2>5. s # end
    BY <1>1, <1>9, <2>3, <2>4
  <2>6. ~(s < x)
    <3> SUFFICES ASSUME s < x PROVE FALSE
      OBVIOUS
    <3>1. s \in 1..t
      BY <1>8, <2>1, <2>5 DEF Before
    <3> QED
      BY <1>6, <1>9, <3>1
  <2> QED
    BY <1>9, <2>3, <2>4, <2>6
<1>15. HasName(p) <=> ~(skip_word(s) <= s)
  <2>1. skip_word(s) \in s..end /\ (skip_word(s) = end \/ ~WordCharacter(cmd_line[skip_word(s)]))
        /\ \A q \in s..skip_word(s) - 1 : WordCharacter(cmd_line[q])
    BY <1>1, <1>9, SkipWord
  <2>2. skip_word(s) \in Nat
    BY <1>9, <2>1
  <2>3. CASE s \in WordStarts
    <3>1. s \in Text /\ cmd_line[s] = "word"
      BY <1>1, TokensInText, <2>3
    <3>2. skip_word(s) \in s + 1..end
      BY <3>1, WordEnds
    <3> QED
      BY <1>9, <1>13, <2>3, <3>2
  <2>4. CASE s \notin WordStarts
    <3>1. s = end \/ cmd_line[s] # "word"
      BY <1>10, <2>4
    <3>2. CASE s = end
      BY <1>9, <1>14, <2>1, <2>4, <3>2
    <3>3. CASE s # end /\ skip_word(s) > s
      <4>1. s \in s..skip_word(s) - 1
        BY <1>9, <2>2, <3>3
      <4>2. WordCharacter(cmd_line[s])
        BY <2>1, <4>1
      <4>3. s \in Text /\ s \in start..end - 1
        BY <1>1, <1>8, <3>3
      <4>4. cmd_line[s] \in {"word", "space", "less", "greater", "pipe", "ampersand"}
        BY <4>3, TextIs
      <4>5. cmd_line[s] # "space"
        BY <4>3, TextIs
      <4> QED
        BY <3>1, <3>3, <4>2, <4>4, <4>5 DEF WordCharacter
    <3>4. CASE s # end /\ ~(skip_word(s) > s)
      BY <1>9, <1>14, <2>2, <2>4, <3>4
    <3> QED
      BY <3>2, <3>3, <3>4
  <2> QED
    BY <2>3, <2>4
<1> QED
  BY <1>3, <1>5, <1>6, <1>8, <1>13, <1>14, <1>15 DEF t, s

(* There is one output.                                                    *)
LEMMA OneOutput ==
    ASSUME Typed, Trimmed, NEW p, NEW q, IsOutput(p), IsOutput(q)
    PROVE  p = q
<1>1. p \in Text /\ q \in Text /\ ~(p < q) /\ ~(q < p)
  BY TextIs DEF IsOutput, Before
<1>2. p \in Int /\ q \in Int
  <2>1. start \in Nat /\ end \in Nat /\ Text \in SUBSET (start..end - 1)
    BY TextIs
  <2> QED
    BY <1>1, <2>1
<1> QED
  BY <1>1, <1>2

(* A < or > and the name behind it.                                        *)
LEMMA RedirectStep ==
    ASSUME Typed, Trimmed, NEW p \in Redirects, HasName(p)
    PROVE  LET s == NameAt(p)  r == skip_space(skip_word(s)) IN
           /\ Onto(p, r) /\ p \in Operators /\ Word(s) = <<s, skip_word(s)>>
           /\ s \in Nat /\ skip_word(s) \in Nat /\ s \in WordStarts /\ IsNameFor(s, cmd_line[p])
<1> DEFINE t == EndOf(p)
           s == NameAt(p)
           r == skip_space(skip_word(s))
<1>1. /\ p \in Nat /\ t \in Nat /\ t \in Text /\ (t = p \/ t = p + 1)
      /\ cmd_line[t] = cmd_line[p] /\ (t # p => SecondOfAppend(t))
      /\ s \in t + 1..end /\ \A x \in t + 1..s - 1 : x \notin Text
      /\ s \in WordStarts
  BY NameBehind
<1> HIDE DEF t, s
<1>2. s \in Nat /\ t < s
  <2>1. end \in Nat
    BY TextIs
  <2> QED
    BY <1>1, <2>1
<1>3. Onto(s, r) /\ Word(s) = <<s, skip_word(s)>> /\ skip_word(s) \in Nat
  BY <1>1, WordStep
<1> HIDE DEF r
<1>4. IsNameFor(s, cmd_line[p])
  BY <1>1, <1>2, NameIs
<1>5. p \in Operators /\ cmd_line[p] \in {"less", "greater"}
  BY DEF Redirects
<1>6. s \notin Tokens
  <2>1. s \notin Arguments
    BY <1>4, <1>5 DEF Arguments
  <2>2. cmd_line[s] = "word"
    BY <1>1, TokensInText, TextIs
  <2> QED
    BY <2>1, <2>2 DEF Tokens, Operators
<1>7. t # p => t \notin Tokens
  <2> SUFFICES ASSUME t # p PROVE t \notin Tokens
    OBVIOUS
  <2>1. SecondOfAppend(t) /\ cmd_line[t] # "word"
    BY <1>1, <1>5
  <2>2. t \notin Arguments
    BY <2>1, TokensInText, TextIs
  <2> QED
    BY <2>1, <2>2 DEF Tokens, Operators
<1>8. r \in Nat /\ s < r /\ r \in Tokens \cup {end}
  BY <1>3 DEF Onto
<1>9. ASSUME NEW x \in Tokens, p <= x, x < r PROVE x = p
  <2>1. x \in Text
    BY TokensInText
  <2>2. x \in Int
    <3>1. start \in Nat /\ end \in Nat /\ Text \in SUBSET (start..end - 1)
      BY TextIs
    <3> QED
      BY <2>1, <3>1
  <2>3. ~(s <= x)
    BY <1>3, <1>6, <1>9 DEF Onto
  <2>4. x \notin t + 1..s - 1
    BY <1>1, <2>1
  <2>5. x <= t
    BY <1>1, <1>2, <2>2, <2>3, <2>4
  <2>6. x = p \/ x = t
    BY <1>1, <1>9, <2>2, <2>5
  <2> QED
    BY <1>7, <2>6
<1>10. p < r
  BY <1>1, <1>2, <1>8
<1> QED
  BY <1>1, <1>2, <1>3, <1>4, <1>5, <1>8, <1>9, <1>10 DEF Onto, r, s

(* The names of a line that is in order.                                   *)
LEMMA FileNameIs ==
    ASSUME Typed, Trimmed, NEW p \in Redirects, HasName(p), Offending = {}
    PROVE  FileName(cmd_line[p]) = Word(NameAt(p))
<1> DEFINE t == EndOf(p)
           s == NameAt(p)
           c == cmd_line[p]
           S == {x \in WordStarts : IsNameFor(x, c)}
<1>1. /\ p \in Nat /\ t \in Nat /\ t \in Text /\ (t = p \/ t = p + 1)
      /\ cmd_line[t] = cmd_line[p] /\ (t # p => SecondOfAppend(t))
      /\ s \in t + 1..end /\ \A x \in t + 1..s - 1 : x \notin Text
  BY NameBehind
<1>2. s \in WordStarts /\ IsNameFor(s, c) /\ s \in Nat
  BY RedirectStep
<1>3. p \in Operators /\ (c = "less" \/ (c = "greater" /\ IsOutput(p)))
  BY DEF Redirects
<1>4. /\ start \in Nat /\ end \in Nat /\ Text \in SUBSET (start..end - 1)
      /\ \A x, y : x \in Places(y) <=> x \in Text /\ cmd_line[x] = y
  BY TextIs
<1>5. \A x \in Text : x \in Int
  BY <1>4
<1> HIDE DEF s, t
<1>6. ASSUME NEW x \in S PROVE x = s
  <2>1. x \in WordStarts /\ x \in Text /\ cmd_line[x] = "word" /\ IsNameFor(x, c)
    BY <1>4, TokensInText
  <2>2. PICK q \in Text : q < x /\ cmd_line[q] = c /\ \A y \in Text : y < x => y <= q
    <3> HIDE DEF c
    <3> QED
      BY <2>1, NameFollows
  <2>3. q \in Int /\ x \in Int /\ s \in Text
    BY <1>2, <1>5, <2>1, TokensInText
  <2>4. q = p \/ q = t
    <3>1. CASE c = "less"
      <4>1. q \in Places("less") /\ p \in Places("less") /\ p \in Text
        BY <1>3, <1>4, <2>2, <3>1, TokensInText
      <4>2. q \in Operators
        BY <1>4, <2>2, <3>1 DEF Operators, SecondOfAppend
      <4>3. ~(p < q)
        <5> SUFFICES ASSUME p < q PROVE FALSE
          OBVIOUS
        <5>1. Before(q, Places("less") \cup Pipes) # {}
          BY <4>1 DEF Before
        <5>2. Offence(q) # "success"
          BY <2>2, <3>1, <5>1 DEF Offence
        <5> QED
          BY <4>2, <5>2 DEF Offending
      <4>4. ~(q < p)
        <5> SUFFICES ASSUME q < p PROVE FALSE
          OBVIOUS
        <5>1. Before(p, Places("less") \cup Pipes) # {}
          BY <4>1 DEF Before
        <5>2. Offence(p) # "success"
          BY <3>1, <5>1 DEF Offence
        <5> QED
          BY <1>3, <5>2 DEF Offending
      <4> QED
        BY <1>1, <2>3, <4>3, <4>4
    <3>2. CASE c = "greater"
      <4>1. q \in Places("greater") /\ IsOutput(p)
        BY <1>3, <1>4, <2>2, <3>2
      <4>2. CASE SecondOfAppend(q)
        <5>1. IsOutput(q - 1)
          BY <4>2 DEF SecondOfAppend
        <5>2. q - 1 = p
          BY <4>1, <5>1, OneOutput
        <5>3. q = p + 1
          BY <1>1, <2>3, <5>2
        <5> QED
          BY <4>2, <5>3 DEF t, EndOf
      <4>3. CASE ~SecondOfAppend(q)
        <5>1. q \in Operators
          BY <2>2, <3>2, <4>3 DEF Operators
        <5>2. Before(q, Places("greater")) = {}
          <6> SUFFICES ASSUME Before(q, Places("greater")) # {} PROVE FALSE
            OBVIOUS
          <6>1. Offence(q) # "success"
            BY <2>2, <3>2 DEF Offence
          <6> QED
            BY <5>1, <6>1 DEF Offending
        <5>3. IsOutput(q)
          BY <4>1, <5>2 DEF IsOutput
        <5> QED
          BY <4>1, <5>3, OneOutput
      <4> QED
        BY <4>2, <4>3
    <3> QED
      BY <1>3, <3>1, <3>2
  <2>5. x > t
    <3>1. x # t
      BY <1>1, <1>3, <2>1
    <3> QED
      BY <1>1, <2>2, <2>3, <2>4, <3>1
  <2>6. q = t
    <3>1. t <= q
      BY <1>1, <2>2, <2>3, <2>5
    <3> QED
      BY <1>1, <2>3, <2>4, <3>1
  <2>7. ~(s < x)
    <3> SUFFICES ASSUME s < x PROVE FALSE
      OBVIOUS
    <3>1. s <= t
      BY <2>2, <2>3, <2>6
    <3> QED
      BY <1>1, <1>2, <1>4, <3>1
  <2>8. x \notin t + 1..s - 1
    BY <1>1, <2>1
  <2> QED
    BY <1>1, <1>2, <2>3, <2>5, <2>7, <2>8
<1>7. S = {s}
  BY <1>2, <1>6 DEF s
<1>8. Max(S) = s
  <2> HIDE DEF S
  <2>1. s \in Int
    BY <1>2
  <2> QED
    BY <1>7, <2>1, MaxIs
<1>9. FileName(c) = Word(Max(S))
  <2>1. S # {}
    BY <1>7
  <2> QED
    BY <2>1 DEF FileName
<1> QED
  BY <1>8, <1>9 DEF s, c

-----------------------------------------------------------------------------
(* The positions before a place, and their number.                         *)
LEMMA TextFinite ==
    ASSUME Typed, Trimmed, NEW S \in SUBSET Text, NEW p
    PROVE  /\ S \in SUBSET Nat /\ IsFiniteSet(S) /\ Cardinality(S) \in Nat
           /\ Before(p, S) \in SUBSET S /\ IsFiniteSet(Before(p, S))
           /\ Cardinality(Before(p, S)) \in Nat /\ Cardinality(Before(p, S)) <= Cardinality(S)
<1>1. start \in Nat /\ end \in Nat /\ Text \in SUBSET (start..end - 1)
  BY TextIs
<1>2. S \in SUBSET Nat /\ S \in SUBSET (start..end - 1)
  BY <1>1
<1>3. IsFiniteSet(start..end - 1)
  BY <1>1, FS_Interval
<1>4. IsFiniteSet(S)
  BY <1>2, <1>3, FS_Subset
<1>5. Before(p, S) \in SUBSET S
  BY DEF Before
<1> QED
  BY <1>2, <1>4, <1>5, FS_Subset, FS_CardinalityType

(* A place after another has more before it.                               *)
LEMMA RankGrows ==
    ASSUME Typed, Trimmed, NEW S \in SUBSET Text, NEW s \in S, NEW p \in Int, s < p
    PROVE  Cardinality(Before(s, S)) + 1 \in 1..Cardinality(Before(p, S))
<1> DEFINE A == Before(s, S)
           B == Before(p, S)
<1>1. S \in SUBSET Nat
  BY TextFinite
<1>2. IsFiniteSet(A) /\ Cardinality(A) \in Nat /\ IsFiniteSet(B) /\ Cardinality(B) \in Nat
  BY TextFinite
<1>3. s \notin A
  BY <1>1 DEF Before
<1>4. A \cup {s} \in SUBSET B
  <2>1. \A x \in A : x < p
    <3> SUFFICES ASSUME NEW x \in A PROVE x < p
      OBVIOUS
    <3>1. x < s /\ x \in Int /\ s \in Int
      BY <1>1 DEF Before
    <3> QED
      BY <3>1
  <2> QED
    BY <2>1 DEF Before
<1> HIDE DEF A, B
<1>5. Cardinality(A \cup {s}) = Cardinality(A) + 1
  BY <1>2, <1>3, FS_AddElement
<1>6. Cardinality(A \cup {s}) <= Cardinality(B)
  BY <1>2, <1>4, FS_Subset
<1> QED
  BY <1>2, <1>5, <1>6 DEF A, B

(* What the step from one token to the next adds.                          *)
LEMMA Passed ==
    ASSUME Typed, Trimmed, NEW p, NEW r, Onto(p, r), NEW S \in SUBSET Tokens
    PROVE  /\ Before(r, S) = Before(p, S) \cup (S \cap {p})
           /\ p \in S => Cardinality(Before(r, S)) = Cardinality(Before(p, S)) + 1
           /\ p \notin S => Before(r, S) = Before(p, S)
<1>1. S \in SUBSET Text
  BY TokensInText
<1>2. S \in SUBSET Nat /\ IsFiniteSet(Before(p, S))
  BY <1>1, TextFinite
<1>3. p \in Nat /\ r \in Nat /\ p < r /\ \A x \in Tokens : p <= x /\ x < r => x = p
  BY DEF Onto
<1>4. ASSUME NEW x \in S PROVE x < r <=> (x < p \/ x = p)
  <2>1. x \in Nat /\ (p <= x /\ x < r => x = p)
    BY <1>2, <1>3
  <2> QED
    BY <1>3, <2>1
<1>5. Before(r, S) = Before(p, S) \cup (S \cap {p})
  BY <1>4 DEF Before
<1>6. p \notin Before(p, S)
  BY <1>3 DEF Before
<1>7. ASSUME p \in S PROVE Cardinality(Before(r, S)) = Cardinality(Before(p, S)) + 1
  <2>1. Before(r, S) = Before(p, S) \cup {p}
    BY <1>5, <1>7
  <2> QED
    BY <1>2, <1>6, <2>1, FS_AddElement
<1> QED
  BY <1>5, <1>7

(* Nothing stands before the first token and nothing behind the end.       *)
LEMMA Ends ==
    ASSUME Typed, Trimmed, NEW S \in SUBSET Text
    PROVE  /\ Before(end, S) = S /\ Before(start, S) = {} /\ Before(Len(cmd_line) + 1, S) = S
           /\ end \notin Text /\ end \notin Tokens
<1>1. /\ start \in Nat /\ end \in Nat /\ end <= Len(cmd_line) + 1 /\ Len(cmd_line) \in Nat
      /\ Text \in SUBSET (start..end - 1)
  BY TextIs
<1>2. \A x \in S : x < end /\ x < Len(cmd_line) + 1 /\ ~(x < start)
  BY <1>1
<1>3. end \notin Text
  BY <1>1
<1> QED
  BY <1>2, <1>3, TokensInText DEF Before

(* Which tokens an operator is, and which a word.                          *)
LEMMA Kinds ==
    ASSUME Typed, Trimmed
    PROVE  /\ \A p \in Tokens : cmd_line[p] = "word" <=> p \in Arguments
           /\ \A p \in Tokens : cmd_line[p] = "pipe" <=> p \in Pipes
           /\ \A p \in Tokens : cmd_line[p] = "less" <=> p \in Places("less")
           /\ \A p \in Tokens : cmd_line[p] = "greater" <=> p \in Places("greater")
           /\ \A p \in Tokens : cmd_line[p] \in {"word", "less", "greater", "pipe", "ampersand"}
           /\ \A p \in Tokens : cmd_line[p] # "word" => p \in Operators
           /\ Places("less") \in SUBSET Operators /\ Pipes \in SUBSET Operators
           /\ Places("ampersand") \in SUBSET Operators
           /\ Pipes \in SUBSET Tokens /\ Places("less") \in SUBSET Tokens
           /\ Slots \in SUBSET Tokens /\ Offending \in SUBSET Tokens
<1>1. /\ Tokens \in SUBSET Text /\ Text \in SUBSET (start..end - 1)
      /\ \A c, x : x \in Places(c) <=> x \in Text /\ cmd_line[x] = c
      /\ \A x \in start..end - 1 : cmd_line[x] \in
             {"word", "space", "less", "greater", "pipe", "ampersand"}
      /\ \A x \in start..end - 1 : x \in Text <=> cmd_line[x] # "space"
  BY TextIs, TokensInText
<1>2. \A p \in Tokens : cmd_line[p] # "word" => p \in Operators
  BY <1>1, TokensInText DEF Tokens
<1>3. \A p \in Tokens : cmd_line[p] = "word" <=> p \in Arguments
  BY <1>1, TokensInText DEF Tokens, Operators
<1>4. \A c \in {"less", "pipe", "ampersand"} : Places(c) \in SUBSET Operators
  BY <1>1 DEF Operators, SecondOfAppend
<1>5. \A p \in Tokens : cmd_line[p] \in {"word", "less", "greater", "pipe", "ampersand"}
  BY <1>1
<1>6. Slots \in SUBSET Tokens
  BY <1>4 DEF Slots, Tokens, Pipes
<1> QED
  BY <1>1, <1>2, <1>3, <1>4, <1>5, <1>6, TokensInText DEF Pipes

(* The command that the next token belongs to has an argument.             *)
LEMMA ArgumentPassed ==
    ASSUME Typed, Trimmed, NEW p \in Tokens, NEW r, Onto(p, r)
    PROVE  ArgumentBefore(r) <=> p \in Arguments \/ (p \notin Pipes /\ ArgumentBefore(p))
<1>1. \A x \in Text : x \in Int
  <2>1. Text \in SUBSET Nat
    BY TextFinite
  <2> QED
    BY <2>1
<1>2. Pipes \in SUBSET Tokens /\ Arguments \in SUBSET Tokens /\ Tokens \in SUBSET Text
  BY Kinds, TokensInText
<1>3. /\ Before(r, Pipes) = Before(p, Pipes) \cup (Pipes \cap {p})
      /\ Before(r, Arguments) = Before(p, Arguments) \cup (Arguments \cap {p})
  BY <1>2, Passed
<1>4. p \in Int /\ (p \in Arguments => p \notin Pipes)
  <2>1. p \in Arguments => cmd_line[p] = "word"
    BY TokensInText, TextIs
  <2>2. p \in Pipes => cmd_line[p] = "pipe"
    BY TextIs DEF Pipes
  <2> QED
    BY <1>1, <1>2, <2>1, <2>2
<1>5. \A x : ArgumentBefore(x) <=>
             \E s \in Before(x, Arguments) : \A q \in Before(x, Pipes) : q < s
  BY DEF ArgumentBefore, Before
<1>6. CASE p \in Arguments
  <2>1. \A q \in Before(r, Pipes) : q < p
    BY <1>3, <1>4, <1>6 DEF Before
  <2>2. p \in Before(r, Arguments)
    BY <1>3, <1>6
  <2> QED
    BY <1>5, <1>6, <2>1, <2>2
<1>7. CASE p \in Pipes
  <2>1. ASSUME NEW s \in Before(r, Arguments) PROVE ~(p < s)
    <3>1. s < p /\ s \in Int
      BY <1>1, <1>2, <1>3, <1>4, <1>7 DEF Before
    <3> QED
      BY <1>4, <3>1
  <2>2. p \in Before(r, Pipes)
    BY <1>3, <1>7
  <2> QED
    BY <1>4, <1>5, <1>7, <2>1, <2>2
<1>8. CASE p \notin Arguments /\ p \notin Pipes
  <2>1. Before(r, Arguments) = Before(p, Arguments) /\ Before(r, Pipes) = Before(p, Pipes)
    BY <1>3, <1>8
  <2> QED
    BY <1>5, <1>8, <2>1
<1> QED
  BY <1>6, <1>7, <1>8

(* Before a > stands none, unless one stands before it that is a token.    *)
Outputs == {q \in Operators : cmd_line[q] = "greater"}
Appends == {q \in Operators : SecondOfAppend(q + 1)}

(* The first of them is the output, and the one behind it no token.        *)
LEMMA OutputsBefore ==
    ASSUME Typed, Trimmed, NEW r \in Int
    PROVE  Before(r, Places("greater")) # {} <=> Before(r, Outputs) # {}
<1>1. \A x, y : x \in Places(y) <=> x \in Text /\ cmd_line[x] = y
  BY TextIs
<1>2. Outputs \in SUBSET Places("greater")
  BY <1>1 DEF Outputs, Operators
<1>3. ASSUME NEW q \in Places("greater"), q < r PROVE Before(r, Outputs) # {}
  <2>1. CASE q \in Operators
    BY <1>1, <1>3, <2>1 DEF Outputs, Before
  <2>2. CASE q \notin Operators
    <3>1. SecondOfAppend(q)
      BY <1>1, <2>2 DEF Operators
    <3>2. IsOutput(q - 1) /\ q - 1 \in Places("greater")
      BY <3>1 DEF SecondOfAppend, IsOutput
    <3>3. q - 1 \in Nat /\ q \in Nat
      <4>1. Text \in SUBSET Nat
        BY TextFinite
      <4> QED
        BY <1>1, <3>2, <4>1
    <3>4. ~SecondOfAppend(q - 1)
      <4> SUFFICES ASSUME SecondOfAppend(q - 1) PROVE FALSE
        OBVIOUS
      <4>1. IsOutput((q - 1) - 1)
        BY DEF SecondOfAppend
      <4>2. (q - 1) - 1 = q - 1
        BY <3>2, <4>1, OneOutput
      <4> QED
        BY <3>3, <4>2
    <3>5. q - 1 \in Outputs
      BY <1>1, <3>2, <3>4 DEF Outputs, Operators
    <3>6. q - 1 < r
      BY <1>3, <3>3
    <3> QED
      BY <3>5, <3>6 DEF Before
  <2> QED
    BY <2>1, <2>2
<1> QED
  BY <1>2, <1>3 DEF Before

(* An append stands before a token with both its characters.               *)
LEMMA AppendsBefore ==
    ASSUME Typed, Trimmed, NEW r \in Tokens \cup {end}
    PROVE  (\E q \in Before(r, Text) : SecondOfAppend(q)) <=> Before(r, Appends) # {}
<1>1. \A x, y : x \in Places(y) <=> x \in Text /\ cmd_line[x] = y
  BY TextIs
<1>2. Text \in SUBSET Nat /\ r \in Nat
  <2>1. Text \in SUBSET Nat /\ end \in Nat
    BY TextFinite, TextIs
  <2> QED
    BY <2>1, TokensInText
<1>3. ASSUME NEW q \in Text, q < r, SecondOfAppend(q) PROVE Before(r, Appends) # {}
  <2>1. IsOutput(q - 1) /\ q - 1 \in Places("greater")
    BY <1>3 DEF SecondOfAppend, IsOutput
  <2>2. q - 1 \in Nat /\ q \in Nat /\ (q - 1) + 1 = q
    BY <1>1, <1>2, <2>1
  <2>3. ~SecondOfAppend(q - 1)
    <3> SUFFICES ASSUME SecondOfAppend(q - 1) PROVE FALSE
      OBVIOUS
    <3>1. IsOutput((q - 1) - 1)
      BY DEF SecondOfAppend
    <3>2. (q - 1) - 1 = q - 1
      BY <2>1, <3>1, OneOutput
    <3> QED
      BY <2>2, <3>2
  <2>4. q - 1 \in Operators
    BY <1>1, <2>1, <2>3 DEF Operators
  <2>5. q - 1 \in Appends
    BY <1>3, <2>2, <2>4 DEF Appends
  <2>6. q - 1 < r
    BY <1>2, <1>3, <2>2
  <2> QED
    BY <2>5, <2>6 DEF Before
<1>4. ASSUME NEW q \in Appends, q < r
      PROVE  \E x \in Before(r, Text) : SecondOfAppend(x)
  <2>1. SecondOfAppend(q + 1) /\ q \in Operators
    BY DEF Appends
  <2>2. q + 1 \in Places("greater") /\ q + 1 \in Text /\ q \in Text
    BY <1>1, <2>1, TokensInText DEF SecondOfAppend
  <2>3. q + 1 # r
    <3>1. q + 1 \notin Tokens
      BY <1>1, <2>1, <2>2, TokensInText DEF Tokens, Operators
    <3>2. end \notin Text
      BY Ends
    <3> QED
      BY <2>2, <3>1, <3>2
  <2>4. q + 1 < r
    <3>1. q \in Nat
      BY <1>2, <2>2
    <3> QED
      BY <1>2, <1>4, <2>3, <3>1
  <2> QED
    BY <2>1, <2>2, <2>4 DEF Before
<1> QED
  BY <1>3, <1>4 DEF Before

-----------------------------------------------------------------------------
(* The first pass.  The line is in order before the token at p; what the   *)
(* loop knows decides whether the token offends.                           *)
LEMMA OffenceAtInput ==
    ASSUME Typed, Trimmed, NEW p \in Tokens, cmd_line[p] = "less",
           NEW f, NEW n, NEW c, ReadTo(p, f, n, c)
    PROVE  /\ c.num_commands > 0 \/ f.file_input => Offence(p) = "UNEXPECTED_FILE_INPUT"
           /\ ~(c.num_commands > 0 \/ f.file_input) =>
                  /\ HasName(p) => Offence(p) = "success"
                  /\ ~HasName(p) => Offence(p) = "EXPECT_INPUT_FILENAME"
           /\ p \in Redirects /\ NameAt(p) = skip_space(p + 1)
<1>1. p \in Text /\ p \in Operators /\ Text \in SUBSET Nat
  BY Kinds, TokensInText, TextFinite
<1>2. p \in Nat /\ p \in Redirects
  BY <1>1 DEF Redirects
<1>3. NameAt(p) = skip_space(p + 1)
  <2>1. ~SecondOfAppend(p + 1)
    <3> SUFFICES ASSUME SecondOfAppend(p + 1) PROVE FALSE
      OBVIOUS
    <3>1. (p + 1) - 1 = p
      BY <1>2
    <3>2. p \in Places("greater")
      BY <3>1 DEF SecondOfAppend, IsOutput
    <3> QED
      BY <3>2, TextIs
  <2> QED
    BY <2>1 DEF NameAt, EndOf
<1>4. c.num_commands > 0 <=> Before(p, Pipes) # {}
  <2>1. Pipes \in SUBSET Text
    BY TokensInText DEF Pipes
  <2>2. IsFiniteSet(Before(p, Pipes)) /\ Cardinality(Before(p, Pipes)) \in Nat
    BY <2>1, TextFinite
  <2>3. Cardinality(Before(p, Pipes)) = 0 <=> Before(p, Pipes) = {}
    BY <2>2, FS_EmptySet
  <2>4. c.num_commands = Cardinality(Before(p, Pipes))
    BY DEF ReadTo
  <2> QED
    BY <2>2, <2>3, <2>4
<1>5. f.file_input <=> Before(p, Places("less")) # {}
  BY DEF ReadTo
<1>6. Before(p, Places("less") \cup Pipes) # {} <=> (c.num_commands > 0 \/ f.file_input)
  <2>1. Before(p, Places("less") \cup Pipes) = Before(p, Places("less")) \cup Before(p, Pipes)
    BY DEF Before
  <2> QED
    BY <1>4, <1>5, <2>1
<1> QED
  BY <1>2, <1>3, <1>6 DEF Offence

(* An output.                                                              *)
LEMMA OffenceAtOutput ==
    ASSUME Typed, Trimmed, NEW p \in Tokens, cmd_line[p] = "greater",
           NEW f, NEW n, NEW c, ReadTo(p, f, n, c)
    PROVE  /\ f.file_output => Offence(p) = "UNEXPECTED_FILE_OUTPUT"
           /\ ~f.file_output =>
                  /\ p \in Redirects /\ IsOutput(p) /\ ~c.is_file_append
                  /\ HasName(p) => Offence(p) = "success"
                  /\ ~HasName(p) => Offence(p) = "EXPECT_OUTPUT_FILENAME"
                  /\ IsAppend(p) <=> p \in Appends
                  /\ NameAt(p) = skip_space(IF IsAppend(p) THEN p + 2 ELSE p + 1)
<1>1. p \in Text /\ p \in Operators /\ Text \in SUBSET Nat /\ p \in Places("greater")
  BY Kinds, TokensInText, TextFinite
<1>2. p \in Nat
  BY <1>1
<1>3. f.file_output <=> Before(p, Places("greater")) # {}
  BY DEF ReadTo
<1>4. CASE f.file_output
  <2>1. Before(p, Places("greater")) # {}
    BY <1>3, <1>4
  <2>2. Offence(p) = "UNEXPECTED_FILE_OUTPUT"
    BY <2>1 DEF Offence, IsOutput
  <2> QED
    BY <1>4, <2>2
<1>5. CASE ~f.file_output
  <2>1. Before(p, Places("greater")) = {} /\ IsOutput(p) /\ p \in Redirects
    BY <1>1, <1>3, <1>5 DEF IsOutput, Redirects
  <2>2. ~c.is_file_append
    <3>1. c.is_file_append <=> \E q \in Before(p, Text) : SecondOfAppend(q)
      BY DEF ReadTo
    <3>2. ASSUME NEW q \in Before(p, Text), SecondOfAppend(q) PROVE FALSE
      BY <2>1, <3>2 DEF SecondOfAppend, Before
    <3> QED
      BY <3>1, <3>2
  <2>3. HasName(p) => Offence(p) = "success"
    BY <2>1 DEF Offence
  <2>4. ~HasName(p) => Offence(p) = "EXPECT_OUTPUT_FILENAME"
    BY <2>1 DEF Offence
  <2>5. IsAppend(p) <=> SecondOfAppend(p + 1)
    <3>1. (p + 1) - 1 = p
      BY <1>2
    <3>2. SecondOfAppend(p + 1) <=> p + 1 \in Places("greater")
      BY <2>1, <3>1 DEF SecondOfAppend
    <3>3. p + 1 \in Text /\ cmd_line[p + 1] = "greater" <=> p + 1 \in Places("greater")
      BY TextIs
    <3>4. /\ start \in Nat /\ end \in Nat /\ Text \in SUBSET (start..end - 1)
          /\ \A x \in start..end - 1 : x \in Text <=> cmd_line[x] # "space"
      BY TextIs
    <3>5. p + 1 < end => p + 1 \in start..end - 1
      <4>1. p \in start..end - 1
        BY <1>1, <3>4
      <4> QED
        BY <3>4, <4>1
    <3>6. p + 1 \in Text => p + 1 < end
      <4>1. p + 1 \in Text => p + 1 \in start..end - 1
        BY <3>4
      <4> QED
        BY <1>2, <3>4, <4>1
    <3> QED
      BY <3>2, <3>3, <3>4, <3>5, <3>6 DEF IsAppend
  <2>6. IsAppend(p) <=> p \in Appends
    BY <1>1, <2>5 DEF Appends
  <2>7. NameAt(p) = skip_space(IF IsAppend(p) THEN p + 2 ELSE p + 1)
    <3>1. (p + 1) + 1 = p + 2
      BY <1>2
    <3> QED
      BY <2>5, <3>1 DEF NameAt, EndOf
  <2> QED
    BY <1>5, <2>1, <2>2, <2>3, <2>4, <2>6, <2>7
<1> QED
  BY <1>4, <1>5

(* A pipe.                                                                 *)
LEMMA OffenceAtPipe ==
    ASSUME Typed, Trimmed, NEW p \in Tokens, cmd_line[p] = "pipe",
           NEW f, NEW n, NEW c, ReadTo(p, f, n, c)
    PROVE  /\ f.file_output => Offence(p) = "UNEXPECTED_FILE_OUTPUT"
           /\ ~f.file_output /\ ~f.token_last => Offence(p) = "UNEXPECTED_PIPELINE"
           /\ ~f.file_output /\ f.token_last => Offence(p) = "success"
<1>1. f.file_output <=> Before(p, Places("greater")) # {}
  BY DEF ReadTo
<1>2. f.token_last <=> ArgumentBefore(p)
  BY DEF ReadTo
<1>3. f.file_output => Offence(p) = "UNEXPECTED_FILE_OUTPUT"
  BY <1>1 DEF Offence
<1>4. ~f.file_output /\ ~f.token_last => Offence(p) = "UNEXPECTED_PIPELINE"
  BY <1>1, <1>2 DEF Offence
<1>5. ~f.file_output /\ f.token_last => Offence(p) = "success"
  BY <1>1, <1>2 DEF Offence
<1> QED
  BY <1>3, <1>4, <1>5

(* The first token that offends gives the verdict.                         *)
LEMMA FirstOffence ==
    ASSUME Typed, Trimmed, NEW p \in Tokens, Before(p, Offending) = {},
           cmd_line[p] # "word", Offence(p) # "success"
    PROVE  Verdict = Offence(p) /\ Kept # {}
<1>1. p \in Offending
  BY Kinds DEF Offending
<1>2. Offending \in SUBSET Text /\ Text \in SUBSET Nat
  BY TokensInText, TextFinite
<1>3. \A k \in Offending : p <= k
  <2> SUFFICES ASSUME NEW k \in Offending PROVE p <= k
    OBVIOUS
  <2>1. ~(k < p)
    BY DEF Before
  <2>2. k \in Int /\ p \in Int
    BY <1>1, <1>2
  <2> QED
    BY <2>1, <2>2
<1>4. Min(Offending) = p
  <2>1. Offending \in SUBSET Int
    BY <1>2
  <2> QED
    BY <1>1, <1>3, <2>1, MinIs
<1>5. Kept # {}
  BY DEF Trimmed
<1> QED
  BY <1>1, <1>4, <1>5 DEF Verdict

(* Whether a < or a > has been read.                                       *)
LEMMA RedirectsPassed ==
    ASSUME Typed, Trimmed, NEW p \in Tokens, NEW r, Onto(p, r)
    PROVE  /\ Before(r, Places("less")) # {} <=>
                  Before(p, Places("less")) # {} \/ p \in Places("less")
           /\ Before(r, Places("greater")) # {} <=>
                  Before(p, Places("greater")) # {} \/ p \in Places("greater")
<1>1. Places("less") \in SUBSET Tokens /\ Outputs \in SUBSET Tokens
  BY Kinds, TokensInText DEF Outputs
<1>2. p \in Int /\ r \in Int
  BY DEF Onto
<1>3. Before(r, Places("less")) = Before(p, Places("less")) \cup (Places("less") \cap {p})
  BY <1>1, Passed
<1>4. Before(r, Outputs) = Before(p, Outputs) \cup (Outputs \cap {p})
  BY <1>1, Passed
<1>5. /\ Before(p, Places("greater")) # {} <=> Before(p, Outputs) # {}
      /\ Before(r, Places("greater")) # {} <=> Before(r, Outputs) # {}
  BY <1>2, OutputsBefore
<1>6. p \in Places("greater") <=> p \in Outputs
  BY Kinds DEF Outputs
<1> QED
  BY <1>3, <1>4, <1>5, <1>6

(* A token that does not offend is passed.                                 *)
LEMMA ReadOn ==
    ASSUME Typed, Trimmed, NEW p \in Tokens, NEW r, Onto(p, r), p \notin Offending,
           NEW f, NEW n, NEW c, ReadTo(p, f, n, c),
           NEW f2, NEW n2, NEW c2,
           f2.file_input <=> f.file_input \/ p \in Places("less"),
           f2.file_output <=> f.file_output \/ p \in Places("greater"),
           f2.token_last <=> p \in Arguments \/ (p \notin Pipes /\ f.token_last),
           n2 = IF p \in Arguments THEN n + 1 ELSE n,
           c2.num_commands = IF p \in Pipes THEN c.num_commands + 1 ELSE c.num_commands,
           c2.is_file_append <=> c.is_file_append \/ p \in Appends
    PROVE  ReadTo(r, f2, n2, c2)
<1>1. /\ Pipes \in SUBSET Tokens /\ Arguments \in SUBSET Tokens /\ Offending \in SUBSET Tokens
      /\ Places("less") \in SUBSET Tokens /\ Operators \in SUBSET Tokens
  BY Kinds, TokensInText
<1>2. Appends \in SUBSET Tokens
  BY <1>1 DEF Appends
<1>3. f2.file_input <=> Before(r, Places("less")) # {}
  <2>1. f.file_input <=> Before(p, Places("less")) # {}
    BY DEF ReadTo
  <2> QED
    BY <2>1, RedirectsPassed
<1>4. p \in Int /\ r \in Int /\ r \in Tokens \cup {end}
  BY DEF Onto
<1>5. f2.file_output <=> Before(r, Places("greater")) # {}
  <2>1. f.file_output <=> Before(p, Places("greater")) # {}
    BY DEF ReadTo
  <2> QED
    BY <2>1, RedirectsPassed
<1>6. f2.token_last <=> ArgumentBefore(r)
  <2>1. f.token_last <=> ArgumentBefore(p)
    BY DEF ReadTo
  <2> QED
    BY <2>1, ArgumentPassed
<1>7. n2 = Cardinality(Before(r, Arguments))
  <2>1. n = Cardinality(Before(p, Arguments))
    BY DEF ReadTo
  <2> QED
    BY <1>1, <2>1, Passed
<1>8. c2.num_commands = Cardinality(Before(r, Pipes))
  <2>1. c.num_commands = Cardinality(Before(p, Pipes))
    BY DEF ReadTo
  <2> QED
    BY <1>1, <2>1, Passed
<1>9. c2.is_file_append <=> \E q \in Before(r, Text) : SecondOfAppend(q)
  <2>1. Before(r, Appends) = Before(p, Appends) \cup (Appends \cap {p})
    BY <1>2, Passed
  <2>2. c.is_file_append <=> \E q \in Before(p, Text) : SecondOfAppend(q)
    BY DEF ReadTo
  <2>3. /\ (\E q \in Before(p, Text) : SecondOfAppend(q)) <=> Before(p, Appends) # {}
        /\ (\E q \in Before(r, Text) : SecondOfAppend(q)) <=> Before(r, Appends) # {}
    BY <1>4, AppendsBefore
  <2> QED
    BY <2>1, <2>2, <2>3
<1>10. Before(r, Offending) = {}
  <2>1. Before(p, Offending) = {}
    BY DEF ReadTo
  <2> QED
    BY <1>1, <2>1, Passed
<1> QED
  BY <1>3, <1>5, <1>6, <1>7, <1>8, <1>9, <1>10 DEF ReadTo

-----------------------------------------------------------------------------
(* The second pass.  What is appended stands behind what was stored.       *)
LEMMA AppendAt ==
    ASSUME NEW X, NEW list \in Seq(X), NEW e \in X
    PROVE  /\ Append(list, e) \in Seq(X) /\ Len(list) \in Nat
           /\ Len(Append(list, e)) = Len(list) + 1
           /\ \A i \in 1..Len(list) : Append(list, e)[i] = list[i]
           /\ Append(list, e)[Len(list) + 1] = e
OBVIOUS

(* An argument is stored.                                                  *)
LEMMA ArgumentStored ==
    ASSUME Typed, Trimmed, NEW p \in Arguments, NEW r, Onto(p, r),
           NEW args \in Seq(Stretch), NEW lists, NEW c, StoredTo(p, args, lists, c)
    PROVE  StoredTo(r, Append(args, Word(p)), lists, c)
<1>1. Word(p) \in Stretch
  <2>1. p \in WordStarts
    BY TokensInText
  <2>2. Word(p) = <<p, skip_word(p)>> /\ skip_word(p) \in Nat
    BY <2>1, WordStep
  <2>3. p \in Nat
    BY DEF Onto
  <2> QED
    BY <2>2, <2>3 DEF Stretch
<1>2. /\ Len(args) \in Nat /\ Len(Append(args, Word(p))) = Len(args) + 1
      /\ \A i \in 1..Len(args) : Append(args, Word(p))[i] = args[i]
      /\ Append(args, Word(p))[Len(args) + 1] = Word(p)
  BY <1>1, AppendAt
<1>3. /\ p \in Tokens /\ Slots \in SUBSET Tokens /\ Pipes \in SUBSET Tokens /\ p \in Int
      /\ Arguments \in SUBSET Tokens /\ Slots \in SUBSET Text
      /\ p \notin Pipes /\ p \notin Places("less") /\ p \notin Places("greater")
  <2>1. cmd_line[p] = "word" /\ p \in Tokens
    BY Kinds, TokensInText
  <2>2. p \notin Pipes /\ p \notin Places("less") /\ p \notin Places("greater")
    BY <2>1, TextIs DEF Pipes
  <2>3. p \in Int
    BY DEF Onto
  <2>4. Slots \in SUBSET Tokens /\ Pipes \in SUBSET Tokens
    BY Kinds
  <2>5. Tokens \in SUBSET Text /\ Arguments \in SUBSET Tokens
    BY TokensInText
  <2> QED
    BY <2>1, <2>2, <2>3, <2>4, <2>5
<1>4. p \in Slots /\ Arguments \in SUBSET Slots /\ Pipes \in SUBSET Slots
  BY DEF Slots
<1>5. /\ Before(r, Arguments) = Before(p, Arguments) \cup {p}
      /\ Before(r, Pipes) = Before(p, Pipes)
      /\ Cardinality(Before(r, Slots)) = Cardinality(Before(p, Slots)) + 1
  <2>1. Before(r, Arguments) = Before(p, Arguments) \cup (Arguments \cap {p})
    BY <1>3, Passed
  <2>2. Before(r, Pipes) = Before(p, Pipes)
    BY <1>3, Passed
  <2>3. Cardinality(Before(r, Slots)) = Cardinality(Before(p, Slots)) + 1
    BY <1>3, <1>4, Passed
  <2> QED
    BY <2>1, <2>2, <2>3
<1>6. Len(args) = Cardinality(Before(p, Slots))
  BY DEF StoredTo
<1>7. Place(p) = Len(args) + 1
  BY <1>6 DEF Place
<1>8. ASSUME NEW s \in Slots, s < p
      PROVE  Append(args, Word(p))[Place(s)] = args[Place(s)]
  <2>1. Place(s) \in 1..Cardinality(Before(p, Slots))
    BY <1>3, <1>8, RankGrows DEF Place
  <2> QED
    BY <1>2, <1>6, <2>1
<1>9. ASSUME NEW s \in Before(r, Arguments) PROVE Append(args, Word(p))[Place(s)] = Word(s)
  <2>1. CASE s = p
    BY <1>2, <1>7, <2>1
  <2>2. CASE s \in Before(p, Arguments)
    <3>1. s \in Slots /\ s < p
      BY <1>4, <2>2 DEF Before
    <3>2. args[Place(s)] = Word(s)
      BY <2>2 DEF StoredTo
    <3> QED
      BY <1>8, <3>1, <3>2
  <2> QED
    BY <1>5, <2>1, <2>2
<1>10. ASSUME NEW s \in Before(r, Pipes) PROVE Append(args, Word(p))[Place(s)] = None
  <2>1. s \in Slots /\ s < p /\ s \in Before(p, Pipes)
    BY <1>4, <1>5 DEF Before
  <2>2. args[Place(s)] = None
    BY <2>1 DEF StoredTo
  <2> QED
    BY <1>8, <2>1, <2>2
<1>11. /\ Before(r, Places("less")) = {} <=> Before(p, Places("less")) = {}
       /\ Before(r, Places("greater")) = {} <=> Before(p, Places("greater")) = {}
  BY <1>3, RedirectsPassed
<1>12. Len(Append(args, Word(p))) = Cardinality(Before(r, Slots))
  BY <1>2, <1>5, <1>6
<1> QED
  BY <1>5, <1>9, <1>10, <1>11, <1>12 DEF StoredTo

(* A NULL is stored, and a command begins behind it.                       *)
LEMMA PipeStored ==
    ASSUME Typed, Trimmed, NEW p \in Pipes, NEW r, Onto(p, r),
           NEW args \in Seq(Stretch), NEW lists \in Seq(Nat), NEW c, StoredTo(p, args, lists, c)
    PROVE  StoredTo(r, Append(args, None), Append(lists, Len(args) + 2), c)
<1> DEFINE new == Append(lists, Len(args) + 2)
<1>1. /\ Len(args) \in Nat /\ Len(Append(args, None)) = Len(args) + 1
      /\ \A i \in 1..Len(args) : Append(args, None)[i] = args[i]
      /\ Append(args, None)[Len(args) + 1] = None
  <2>1. None \in Stretch
    BY DEF Stretch
  <2> QED
    BY <2>1, AppendAt
<1>2. /\ Len(lists) \in Nat /\ Len(new) = Len(lists) + 1
      /\ \A i \in 1..Len(lists) : new[i] = lists[i]
      /\ new[Len(lists) + 1] = Len(args) + 2
  <2>1. Len(args) + 2 \in Nat
    BY <1>1
  <2> QED
    BY <2>1, AppendAt
<1> HIDE DEF new
<1>3. /\ p \in Tokens /\ Slots \in SUBSET Tokens /\ Pipes \in SUBSET Tokens /\ p \in Int
      /\ Arguments \in SUBSET Tokens /\ Slots \in SUBSET Text /\ Pipes \in SUBSET Text
      /\ p \notin Arguments /\ p \notin Places("less") /\ p \notin Places("greater")
  <2>1. cmd_line[p] = "pipe" /\ p \in Tokens
    BY Kinds, TextIs DEF Pipes
  <2>2. p \notin Arguments /\ p \notin Places("less") /\ p \notin Places("greater")
    BY <2>1, TextIs, TokensInText
  <2>3. p \in Int
    BY DEF Onto
  <2>4. Slots \in SUBSET Tokens /\ Pipes \in SUBSET Tokens
    BY Kinds
  <2>5. Tokens \in SUBSET Text /\ Arguments \in SUBSET Tokens
    BY TokensInText
  <2> QED
    BY <2>1, <2>2, <2>3, <2>4, <2>5
<1>4. p \in Slots /\ Arguments \in SUBSET Slots /\ Pipes \in SUBSET Slots
  BY DEF Slots
<1>5. /\ Before(r, Arguments) = Before(p, Arguments)
      /\ Before(r, Pipes) = Before(p, Pipes) \cup {p}
      /\ Cardinality(Before(r, Pipes)) = Cardinality(Before(p, Pipes)) + 1
      /\ Cardinality(Before(r, Slots)) = Cardinality(Before(p, Slots)) + 1
  <2>1. Before(r, Arguments) = Before(p, Arguments)
    BY <1>3, Passed
  <2>2. Before(r, Pipes) = Before(p, Pipes) \cup (Pipes \cap {p})
    BY <1>3, Passed
  <2>3. Cardinality(Before(r, Pipes)) = Cardinality(Before(p, Pipes)) + 1
    BY <1>3, Passed
  <2>4. Cardinality(Before(r, Slots)) = Cardinality(Before(p, Slots)) + 1
    BY <1>3, <1>4, Passed
  <2> QED
    BY <2>1, <2>2, <2>3, <2>4
<1>6. /\ Len(args) = Cardinality(Before(p, Slots))
      /\ Len(lists) = Cardinality(Before(p, Pipes)) + 1 /\ lists[1] = 1
  BY DEF StoredTo
<1>7. Place(p) = Len(args) + 1
  BY <1>6 DEF Place
<1>8. ASSUME NEW s \in Slots, s < p
      PROVE  Append(args, None)[Place(s)] = args[Place(s)]
  <2>1. Place(s) \in 1..Cardinality(Before(p, Slots))
    BY <1>3, <1>8, RankGrows DEF Place
  <2> QED
    BY <1>1, <1>6, <2>1
<1>9. ASSUME NEW s \in Before(r, Arguments) PROVE Append(args, None)[Place(s)] = Word(s)
  <2>1. s \in Slots /\ s < p /\ s \in Before(p, Arguments)
    BY <1>4, <1>5 DEF Before
  <2>2. args[Place(s)] = Word(s)
    BY <2>1 DEF StoredTo
  <2> QED
    BY <1>8, <2>1, <2>2
<1>10. ASSUME NEW s \in Before(r, Pipes) PROVE Append(args, None)[Place(s)] = None
  <2>1. CASE s = p
    BY <1>1, <1>7, <2>1
  <2>2. CASE s \in Before(p, Pipes)
    <3>1. s \in Slots /\ s < p
      BY <1>4, <2>2 DEF Before
    <3>2. args[Place(s)] = None
      BY <2>2 DEF StoredTo
    <3> QED
      BY <1>8, <3>1, <3>2
  <2> QED
    BY <1>5, <2>1, <2>2
<1>11. ASSUME NEW s \in Before(r, Pipes)
       PROVE  new[Cardinality(Before(s, Pipes)) + 2] = Place(s) + 1
  <2>1. CASE s = p
    <3>1. Cardinality(Before(p, Pipes)) \in Nat
      BY <1>3, TextFinite
    <3>2. Cardinality(Before(p, Pipes)) + 2 = Len(lists) + 1
      BY <1>6, <3>1
    <3>3. Len(args) + 2 = Place(p) + 1
      BY <1>1, <1>7
    <3> QED
      BY <1>2, <2>1, <3>2, <3>3
  <2>2. CASE s \in Before(p, Pipes)
    <3>1. s \in Pipes /\ s < p
      BY <2>2 DEF Before
    <3>2. Cardinality(Before(s, Pipes)) + 1 \in 1..Cardinality(Before(p, Pipes))
      BY <1>3, <3>1, RankGrows
    <3>3. Cardinality(Before(s, Pipes)) \in Nat /\ Cardinality(Before(p, Pipes)) \in Nat
      BY <1>3, TextFinite
    <3>4. Cardinality(Before(s, Pipes)) + 2 \in 1..Len(lists)
      <4>1. Len(lists) = Cardinality(Before(p, Pipes)) + 1
        BY <1>6
      <4>2. Cardinality(Before(s, Pipes)) + 1 <= Cardinality(Before(p, Pipes))
        BY <3>2, <3>3
      <4>3. \A a, b \in Nat : a + 1 <= b => a + 2 \in 1..b + 1
        OBVIOUS
      <4> QED
        BY <3>3, <4>1, <4>2, <4>3
    <3>5. lists[Cardinality(Before(s, Pipes)) + 2] = Place(s) + 1
      BY <2>2 DEF StoredTo
    <3> QED
      BY <1>2, <3>4, <3>5
  <2> QED
    BY <1>5, <2>1, <2>2
<1>12. /\ Before(r, Places("less")) = {} <=> Before(p, Places("less")) = {}
       /\ Before(r, Places("greater")) = {} <=> Before(p, Places("greater")) = {}
  BY <1>3, RedirectsPassed
<1>13. /\ Len(Append(args, None)) = Cardinality(Before(r, Slots))
       /\ Len(new) = Cardinality(Before(r, Pipes)) + 1
  BY <1>1, <1>2, <1>5, <1>6
<1>14. new[1] = 1
  <2>1. Cardinality(Before(p, Pipes)) \in Nat
    BY <1>3, TextFinite
  <2>2. 1 \in 1..Len(lists)
    BY <1>6, <2>1
  <2> QED
    BY <1>2, <1>6, <2>2
<1> QED
  BY <1>5, <1>9, <1>10, <1>11, <1>12, <1>13, <1>14 DEF StoredTo, new

(* The name of a file is stored.                                           *)
LEMMA NameStored ==
    ASSUME Typed, Trimmed, NEW p \in Redirects, HasName(p), NEW r, Onto(p, r), Offending = {},
           NEW args, NEW lists, NEW c, StoredTo(p, args, lists, c), NEW c2,
           c2.stdin_file = IF cmd_line[p] = "less" THEN Word(NameAt(p)) ELSE c.stdin_file,
           c2.stdout_file = IF cmd_line[p] = "greater" THEN Word(NameAt(p)) ELSE c.stdout_file
    PROVE  StoredTo(r, args, lists, c2)
<1>1. /\ p \in Tokens /\ cmd_line[p] \in {"less", "greater"}
      /\ p \notin Arguments /\ p \notin Pipes /\ p \notin Slots
      /\ Pipes \in SUBSET Tokens /\ Arguments \in SUBSET Tokens /\ Slots \in SUBSET Tokens
  <2>1. p \in Tokens /\ cmd_line[p] \in {"less", "greater"}
    BY TokensInText DEF Redirects
  <2>2. p \notin Arguments /\ p \notin Pipes
    BY <2>1, Kinds
  <2> QED
    BY <2>1, <2>2, Kinds, TokensInText DEF Slots
<1>2. /\ Before(r, Arguments) = Before(p, Arguments)
      /\ Before(r, Pipes) = Before(p, Pipes)
      /\ Before(r, Slots) = Before(p, Slots)
  BY <1>1, Passed
<1>3. /\ Before(r, Places("less")) # {} <=>
             Before(p, Places("less")) # {} \/ cmd_line[p] = "less"
      /\ Before(r, Places("greater")) # {} <=>
             Before(p, Places("greater")) # {} \/ cmd_line[p] = "greater"
  BY <1>1, Kinds, RedirectsPassed
<1>4. FileName(cmd_line[p]) = Word(NameAt(p))
  BY FileNameIs
<1>5. c2.stdin_file = IF Before(r, Places("less")) = {} THEN None ELSE FileName("less")
  <2>1. c.stdin_file = IF Before(p, Places("less")) = {} THEN None ELSE FileName("less")
    BY DEF StoredTo
  <2> QED
    BY <1>3, <1>4, <2>1
<1>6. c2.stdout_file = IF Before(r, Places("greater")) = {} THEN None ELSE FileName("greater")
  <2>1. c.stdout_file = IF Before(p, Places("greater")) = {} THEN None ELSE FileName("greater")
    BY DEF StoredTo
  <2> QED
    BY <1>3, <1>4, <2>1
<1>7. /\ Len(args) = Cardinality(Before(p, Slots))
      /\ \A s \in Before(p, Arguments) : args[Place(s)] = Word(s)
      /\ \A s \in Before(p, Pipes) : args[Place(s)] = None
      /\ Len(lists) = Cardinality(Before(p, Pipes)) + 1 /\ lists[1] = 1
      /\ \A s \in Before(p, Pipes) : lists[Cardinality(Before(s, Pipes)) + 2] = Place(s) + 1
  BY DEF StoredTo
<1> QED
  BY <1>2, <1>5, <1>6, <1>7 DEF StoredTo

-----------------------------------------------------------------------------
(* What is said of the line holds as long as the line is the same.         *)
LEMMA SameText ==
    ASSUME cmd_line' = cmd_line
    PROVE  /\ Kept' = Kept /\ Background' = Background /\ Text' = Text
           /\ \A c : Places(c)' = Places(c)
<1>1. Kept' = Kept
  BY DEF Kept
<1>2. Background' = Background
  BY <1>1 DEF Background
<1>3. Text' = Text
  BY <1>1, <1>2 DEF Text
<1> QED
  BY <1>1, <1>2, <1>3 DEF Places

(* Its words, operators and tokens.                                        *)
LEMMA SameLine ==
    ASSUME cmd_line' = cmd_line
    PROVE  /\ Arguments' = Arguments /\ Pipes' = Pipes /\ Slots' = Slots
           /\ Operators' = Operators /\ Tokens' = Tokens /\ WordStarts' = WordStarts
           /\ \A p : SecondOfAppend(p)' = SecondOfAppend(p)
           /\ \A p : IsOutput(p)' = IsOutput(p)
           /\ \A p : ArgumentBefore(p)' = ArgumentBefore(p)
           /\ \A s, c : IsNameFor(s, c)' = IsNameFor(s, c)
           /\ \A s : Place(s)' = Place(s) /\ Word(s)' = Word(s)
           /\ \A c : FileName(c)' = FileName(c)
<1>1. \A p : IsOutput(p)' = IsOutput(p)
  BY SameText DEF IsOutput, Before
<1>2. \A p : SecondOfAppend(p)' = SecondOfAppend(p)
  BY <1>1, SameText DEF SecondOfAppend
<1>3. Operators' = Operators
  BY <1>2, SameText DEF Operators
<1>4. \A s, c : IsNameFor(s, c)' = IsNameFor(s, c)
  BY SameText DEF IsNameFor, Before
<1>5. WordStarts' = WordStarts
  BY SameText DEF WordStarts
<1>6. Arguments' = Arguments
  BY <1>4, <1>5 DEF Arguments
<1>7. Pipes' = Pipes /\ Slots' = Slots /\ Tokens' = Tokens
  BY <1>3, <1>6, SameText DEF Pipes, Slots, Tokens
<1>8. \A s : Place(s)' = Place(s)
  BY <1>7 DEF Place, Before
<1>9. \A s : Word(s)' = Word(s)
  <2> TAKE s
  <2>1. {q \in s..Len(cmd_line) + 1 : q \notin Places("word")}'
          = {q \in s..Len(cmd_line) + 1 : q \notin Places("word")}
    BY SameText
  <2>2. WordEnd(s)' = WordEnd(s)
    BY <2>1 DEF WordEnd
  <2> QED
    BY <2>2 DEF Word
<1>10. \A c : FileName(c)' = FileName(c)
  BY <1>4, <1>5, <1>9 DEF FileName
<1>11. \A p : ArgumentBefore(p)' = ArgumentBefore(p)
  BY <1>6, <1>7 DEF ArgumentBefore, Before
<1> QED
  BY <1>1, <1>2, <1>3, <1>4, <1>5, <1>6, <1>7, <1>8, <1>9, <1>10, <1>11

(* What offends, and the verdict.                                          *)
LEMMA SameVerdict ==
    ASSUME cmd_line' = cmd_line
    PROVE  Offending' = Offending /\ Verdict' = Verdict
<1>1. \A p : HasName(p)' = HasName(p)
  BY SameText, SameLine DEF HasName, Before
<1>2. \A p : Offence(p)' = Offence(p)
  BY <1>1, SameText, SameLine DEF Offence, Before
<1>3. Offending' = Offending
  BY <1>2, SameLine DEF Offending
<1> QED
  BY <1>2, <1>3, SameText, SameLine DEF Verdict

(* What the passes know.                                                   *)
LEMMA ReadStays ==
    ASSUME cmd_line' = cmd_line, ReadTo(cur', seen', total_strings', pcmd')
    PROVE  ReadTo(cur, seen, total_strings, pcmd)'
BY SameText, SameLine, SameVerdict DEF ReadTo, Before

(* What they store.                                                        *)
LEMMA StoredStays ==
    ASSUME cmd_line' = cmd_line, StoredTo(cur', argv', commands', pcmd')
    PROVE  StoredTo(cur, argv, commands, pcmd)'
<1>1. /\ Len(argv') = Cardinality(Before(cur', Slots'))
      /\ \A s \in Before(cur', Arguments') : argv'[Place(s)'] = Word(s)'
      /\ \A s \in Before(cur', Pipes') : argv'[Place(s)'] = None
  BY SameLine DEF StoredTo
<1>2. /\ Len(commands') = Cardinality(Before(cur', Pipes')) + 1 /\ commands'[1] = 1
      /\ \A s \in Before(cur', Pipes') : commands'[Cardinality(Before(s, Pipes')) + 2] = Place(s)' + 1
  BY SameLine DEF StoredTo
<1>3. /\ pcmd'.stdin_file = IF Before(cur', Places("less")') = {} THEN None ELSE FileName("less")'
      /\ pcmd'.stdout_file = IF Before(cur', Places("greater")') = {} THEN None
                             ELSE FileName("greater")'
  BY SameText, SameLine DEF StoredTo
<1> QED
  BY <1>1, <1>2, <1>3 DEF StoredTo, Before

(* What is parsed of the line.                                             *)
LEMMA TrimmedStays ==
    ASSUME Trimmed, cmd_line' = cmd_line, start' = start, end' = end,
           pcmd'.is_background = pcmd.is_background
    PROVE  Trimmed'
BY SameText DEF Trimmed

(* The counts.                                                             *)
LEMMA CountedStays ==
    ASSUME Counted, cmd_line' = cmd_line, end' = end, total_strings' = total_strings,
           pcmd'.num_commands = pcmd.num_commands, pcmd'.is_file_append = pcmd.is_file_append
    PROVE  Counted'
BY SameText, SameLine, SameVerdict DEF Counted

-----------------------------------------------------------------------------
(* The invariant is inductive.  Where a loop is before its end, there is a *)
(* token.                                                                  *)
LEMMA AtToken ==
    ASSUME Typed, cur \in Tokens \cup {end}
    PROVE  (cur < end => cur \in Tokens) /\ (cur >= end /\ Trimmed => cur = end)
<1>1. cur \in Nat /\ end \in Nat
  BY DEF Typed
<1>2. cur < end => cur \in Tokens
  BY <1>1
<1>3. ASSUME Trimmed, cur \in Tokens PROVE ~(cur >= end)
  <2>1. start \in Nat /\ Text \in SUBSET (start..end - 1) /\ cur \in Text
    BY <1>3, TextIs, TokensInText
  <2> QED
    BY <1>1, <2>1
<1> QED
  BY <1>2, <1>3

(* The line is rejected.                                                   *)
LEMMA RejectStep ==
    ASSUME Typed, InFirst, cur \in Tokens, cmd_line[cur] # "word",
           NEW code, Offence(cur) = code, code # "success", Rejects(code), Stays
    PROVE  ParserInv'
<1>1. /\ ret_code' = code /\ pass' = "done"
      /\ UNCHANGED <<cmd_line, start, end, cur, seen, total_strings, pcmd, argv, commands>>
  BY DEF Rejects, Return, Stays
<1>2. Before(cur, Offending) = {}
  BY DEF InFirst, ReadTo
<1>3. Verdict = code /\ Kept # {}
  BY <1>2, FirstOffence DEF InFirst
<1>4. Verdict' = code /\ Kept' # {}
  BY <1>1, <1>3, SameVerdict, SameText
<1>5. Fresh'
  BY <1>1 DEF InFirst, Fresh
<1>6. Typed'
  BY <1>1 DEF Typed
<1>7. IsDone'
  BY <1>1, <1>4, <1>5 DEF IsDone
<1> QED
  BY <1>1, <1>6, <1>7 DEF ParserInv

(* The first pass goes on to the next token.                               *)
LEMMA FirstGoes ==
    ASSUME Typed, InFirst, pass = "first", cur \in Tokens, cur \notin Offending,
           NEW r, Onto(cur, r), cur' = r, UNCHANGED <<pass, ret_code>>, Stays,
           seen' \in Flags, total_strings' \in Nat, pcmd' \in Results,
           seen'.file_input <=> seen.file_input \/ cur \in Places("less"),
           seen'.file_output <=> seen.file_output \/ cur \in Places("greater"),
           seen'.token_last <=> cur \in Arguments \/ (cur \notin Pipes /\ seen.token_last),
           total_strings' = IF cur \in Arguments THEN total_strings + 1 ELSE total_strings,
           pcmd'.num_commands = IF cur \in Pipes THEN pcmd.num_commands + 1 ELSE pcmd.num_commands,
           pcmd'.is_file_append <=> pcmd.is_file_append \/ cur \in Appends,
           pcmd'.is_background = pcmd.is_background,
           pcmd'.stdin_file = pcmd.stdin_file, pcmd'.stdout_file = pcmd.stdout_file
    PROVE  ParserInv'
<1>1. UNCHANGED <<cmd_line, start, end, argv, commands>> /\ pass' = "first"
  BY DEF Stays
<1>2. ReadTo(r, seen', total_strings', pcmd')
  <2>1. ReadTo(cur, seen, total_strings, pcmd) /\ Trimmed
    BY DEF InFirst
  <2> QED
    BY <2>1, ReadOn
<1>3. ReadTo(cur, seen, total_strings, pcmd)'
  BY <1>1, <1>2, ReadStays
<1>4. Trimmed'
  BY <1>1, TrimmedStays DEF InFirst
<1>5. cur' \in Tokens' \cup {end'} /\ cur' \in Nat
  BY <1>1, SameLine DEF Onto
<1>6. Fresh' /\ ret_code' = "success"
  BY <1>1 DEF InFirst, Fresh
<1>7. Typed'
  BY <1>1, <1>5 DEF Typed
<1> QED
  BY <1>1, <1>3, <1>4, <1>5, <1>6, <1>7 DEF ParserInv, InFirst

(* The second pass goes on to the next token.                              *)
LEMMA SecondGoes ==
    ASSUME Typed, InSecond, pass = "second",
           NEW r, r \in Tokens \cup {end}, r \in Nat, cur' = r, UNCHANGED <<pass, ret_code>>, Stored,
           argv' \in Seq(Stretch), commands' \in Seq(Nat), pcmd' \in Results,
           pcmd'.is_background = pcmd.is_background,
           pcmd'.is_file_append = pcmd.is_file_append,
           pcmd'.num_commands = pcmd.num_commands, StoredTo(r, argv', commands', pcmd')
    PROVE  ParserInv'
<1>1. UNCHANGED <<cmd_line, start, end, seen, total_strings>> /\ pass' = "second"
  BY DEF Stored
<1>2. StoredTo(cur, argv, commands, pcmd)'
  BY <1>1, StoredStays
<1>3. Trimmed' /\ Counted'
  BY <1>1, TrimmedStays, CountedStays DEF InSecond
<1>4. cur' \in Tokens' \cup {end'}
  BY <1>1, SameLine
<1>5. Typed'
  BY <1>1 DEF Typed
<1>6. ret_code' = "success"
  BY DEF InSecond
<1> QED
  BY <1>1, <1>2, <1>3, <1>4, <1>5, <1>6 DEF ParserInv, InSecond

(* A < in the first pass.                                                  *)
LEMMA FirstInputStep ==
    ASSUME Typed, InFirst, FirstInput
    PROVE  ParserInv'
<1> DEFINE name == skip_space(cur + 1)
           r == skip_space(skip_word(name))
<1>1. pass = "first" /\ cur < end /\ cmd_line[cur] = "less" /\ Stays
  BY DEF FirstInput, At
<1>2. cur \in Tokens /\ Trimmed /\ ReadTo(cur, seen, total_strings, pcmd)
  BY <1>1, AtToken DEF InFirst
<1>3. /\ pcmd.num_commands > 0 \/ seen.file_input => Offence(cur) = "UNEXPECTED_FILE_INPUT"
      /\ ~(pcmd.num_commands > 0 \/ seen.file_input) =>
             /\ HasName(cur) => Offence(cur) = "success"
             /\ ~HasName(cur) => Offence(cur) = "EXPECT_INPUT_FILENAME"
      /\ cur \in Redirects /\ NameAt(cur) = name
  BY <1>1, <1>2, OffenceAtInput
<1>4. HasName(cur) <=> ~(skip_word(name) <= name)
  BY <1>2, <1>3, NameBehind
<1>5. CASE pcmd.num_commands > 0 \/ seen.file_input
  <2>1. Rejects("UNEXPECTED_FILE_INPUT")
    BY <1>5 DEF FirstInput
  <2> QED
    BY <1>1, <1>2, <1>3, <1>5, <2>1, RejectStep
<1>6. CASE ~(pcmd.num_commands > 0 \/ seen.file_input) /\ ~HasName(cur)
  <2>1. Rejects("EXPECT_INPUT_FILENAME")
    BY <1>4, <1>6 DEF FirstInput
  <2> QED
    BY <1>1, <1>2, <1>3, <1>6, <2>1, RejectStep
<1>7. CASE ~(pcmd.num_commands > 0 \/ seen.file_input) /\ HasName(cur)
  <2>1. /\ seen' = [seen EXCEPT !.file_input = TRUE] /\ cur' = r
        /\ UNCHANGED <<pass, ret_code, total_strings, pcmd>>
    BY <1>4, <1>7 DEF FirstInput, Goes
  <2>2. Onto(cur, r)
    BY <1>2, <1>3, <1>7, RedirectStep
  <2>3. cur \notin Offending
    BY <1>3, <1>7 DEF Offending
  <2>4. /\ cur \in Places("less") /\ cur \notin Places("greater") /\ cur \notin Arguments
        /\ cur \notin Pipes
    BY <1>1, <1>2, Kinds
  <2>5. cur \notin Appends
    <3>1. cur \in Nat /\ (cur + 1) - 1 = cur
      BY DEF Typed
    <3> QED
      BY <2>4, <3>1 DEF Appends, SecondOfAppend, IsOutput
  <2>6. /\ seen' \in Flags /\ seen'.file_input = TRUE /\ seen'.file_output = seen.file_output
        /\ seen'.token_last = seen.token_last
    BY <2>1 DEF Typed, Flags
  <2>7. total_strings' \in Nat /\ pcmd' \in Results
    BY <2>1 DEF Typed
  <2> HIDE DEF r
  <2> QED
    BY <1>1, <1>2, <2>1, <2>2, <2>3, <2>4, <2>5, <2>6, <2>7, FirstGoes
<1> QED
  BY <1>5, <1>6, <1>7

(* A > in the first pass.                                                  *)
LEMMA FirstOutputStep ==
    ASSUME Typed, InFirst, FirstOutput
    PROVE  ParserInv'
<1> DEFINE name == skip_space(IF IsAppend(cur) THEN cur + 2 ELSE cur + 1)
           r == skip_space(skip_word(name))
<1>1. pass = "first" /\ cur < end /\ cmd_line[cur] = "greater" /\ Stays
  BY DEF FirstOutput, At
<1>2. cur \in Tokens /\ Trimmed /\ ReadTo(cur, seen, total_strings, pcmd)
  BY <1>1, AtToken DEF InFirst
<1>3. /\ seen.file_output => Offence(cur) = "UNEXPECTED_FILE_OUTPUT"
      /\ ~seen.file_output =>
             /\ cur \in Redirects /\ IsOutput(cur) /\ ~pcmd.is_file_append
             /\ HasName(cur) => Offence(cur) = "success"
             /\ ~HasName(cur) => Offence(cur) = "EXPECT_OUTPUT_FILENAME"
             /\ IsAppend(cur) <=> cur \in Appends
             /\ NameAt(cur) = name
  BY <1>1, <1>2, OffenceAtOutput
<1>4. CASE seen.file_output
  <2>1. Rejects("UNEXPECTED_FILE_OUTPUT")
    BY <1>4 DEF FirstOutput
  <2> QED
    BY <1>1, <1>2, <1>3, <1>4, <2>1, RejectStep
<1>5. CASE ~seen.file_output
  <2>1. HasName(cur) <=> ~(skip_word(name) <= name)
    BY <1>2, <1>3, <1>5, NameBehind
  <2>2. CASE ~HasName(cur)
    <3>1. Rejects("EXPECT_OUTPUT_FILENAME")
      BY <1>5, <2>1, <2>2 DEF FirstOutput
    <3> QED
      BY <1>1, <1>2, <1>3, <1>5, <2>2, <3>1, RejectStep
  <2>3. CASE HasName(cur)
    <3>1. /\ seen' = [seen EXCEPT !.file_output = TRUE] /\ cur' = r
          /\ pcmd' = [pcmd EXCEPT !.is_file_append = IsAppend(cur)]
          /\ UNCHANGED <<pass, ret_code, total_strings>>
      BY <1>5, <2>1, <2>3 DEF FirstOutput, Goes
    <3>2. Onto(cur, r)
      BY <1>2, <1>3, <1>5, <2>3, RedirectStep
    <3>3. cur \notin Offending
      BY <1>3, <1>5, <2>3 DEF Offending
    <3>4. /\ cur \in Places("greater") /\ cur \notin Places("less") /\ cur \notin Arguments
          /\ cur \notin Pipes
      BY <1>1, <1>2, Kinds
    <3>5. /\ seen' \in Flags /\ seen'.file_output = TRUE /\ seen'.file_input = seen.file_input
          /\ seen'.token_last = seen.token_last
      BY <3>1 DEF Typed, Flags
    <3>6. IsAppend(cur) \in BOOLEAN
      BY DEF IsAppend
    <3>7. /\ pcmd' \in Results /\ pcmd'.is_file_append = IsAppend(cur)
          /\ pcmd'.num_commands = pcmd.num_commands
          /\ pcmd'.is_background = pcmd.is_background
          /\ pcmd'.stdin_file = pcmd.stdin_file /\ pcmd'.stdout_file = pcmd.stdout_file
      BY <3>1, <3>6 DEF Typed, Results
    <3>8. pcmd'.is_file_append <=> pcmd.is_file_append \/ cur \in Appends
      BY <1>3, <1>5, <3>7
    <3>9. total_strings' \in Nat
      BY <3>1 DEF Typed
    <3> HIDE DEF r
    <3> QED
      BY <1>1, <1>2, <3>1, <3>2, <3>3, <3>4, <3>5, <3>7, <3>8, <3>9, FirstGoes
  <2> QED
    BY <2>2, <2>3
<1> QED
  BY <1>4, <1>5

(* A pipe in the first pass.                                               *)
LEMMA FirstPipeStep ==
    ASSUME Typed, InFirst, FirstPipe
    PROVE  ParserInv'
<1> DEFINE r == skip_space(cur + 1)
<1>1. pass = "first" /\ cur < end /\ cmd_line[cur] = "pipe" /\ Stays
  BY DEF FirstPipe, At
<1>2. cur \in Tokens /\ Trimmed /\ ReadTo(cur, seen, total_strings, pcmd)
  BY <1>1, AtToken DEF InFirst
<1>3. /\ seen.file_output => Offence(cur) = "UNEXPECTED_FILE_OUTPUT"
      /\ ~seen.file_output /\ ~seen.token_last => Offence(cur) = "UNEXPECTED_PIPELINE"
      /\ ~seen.file_output /\ seen.token_last => Offence(cur) = "success"
  BY <1>1, <1>2, OffenceAtPipe
<1>4. CASE seen.file_output
  <2>1. Rejects("UNEXPECTED_FILE_OUTPUT")
    BY <1>4 DEF FirstPipe
  <2> QED
    BY <1>1, <1>2, <1>3, <1>4, <2>1, RejectStep
<1>5. CASE ~seen.file_output /\ ~seen.token_last
  <2>1. Rejects("UNEXPECTED_PIPELINE")
    BY <1>5 DEF FirstPipe
  <2> QED
    BY <1>1, <1>2, <1>3, <1>5, <2>1, RejectStep
<1>6. CASE ~seen.file_output /\ seen.token_last
  <2>1. /\ seen' = AfterPipe(seen) /\ cur' = r
        /\ pcmd' = [pcmd EXCEPT !.num_commands = @ + 1]
        /\ UNCHANGED <<pass, ret_code, total_strings>>
    BY <1>6 DEF FirstPipe, Goes
  <2>2. /\ cur \in Pipes /\ cur \notin Places("less") /\ cur \notin Places("greater")
        /\ cur \notin Arguments
    BY <1>1, <1>2, Kinds
  <2>3. Onto(cur, r)
    BY <1>2, <2>2, PipeStep
  <2>4. cur \notin Offending
    BY <1>3, <1>6 DEF Offending
  <2>5. cur \notin Appends
    <3>1. cur \in Nat /\ (cur + 1) - 1 = cur
      BY DEF Typed
    <3> QED
      BY <2>2, <3>1 DEF Appends, SecondOfAppend, IsOutput
  <2>6. /\ seen' \in Flags /\ seen'.file_output = seen.file_output
        /\ seen'.file_input = seen.file_input /\ seen'.token_last = FALSE
    BY <2>1 DEF Typed, Flags, AfterPipe
  <2>7. /\ pcmd' \in Results /\ pcmd'.is_file_append = pcmd.is_file_append
        /\ pcmd'.num_commands = pcmd.num_commands + 1
        /\ pcmd'.is_background = pcmd.is_background
        /\ pcmd'.stdin_file = pcmd.stdin_file /\ pcmd'.stdout_file = pcmd.stdout_file
    <3>1. pcmd \in Results /\ pcmd.num_commands + 1 \in Nat
      BY DEF Typed, Results
    <3> QED
      BY <2>1, <3>1 DEF Results
  <2>8. total_strings' \in Nat
    BY <2>1 DEF Typed
  <2> HIDE DEF r
  <2> QED
    BY <1>1, <1>2, <2>1, <2>2, <2>3, <2>4, <2>5, <2>6, <2>7, <2>8, FirstGoes
<1> QED
  BY <1>4, <1>5, <1>6

(* A word in the first pass.                                               *)
LEMMA FirstWordStep ==
    ASSUME Typed, InFirst, FirstWord
    PROVE  ParserInv'
<1> DEFINE r == skip_space(skip_word(cur))
<1>1. /\ pass = "first" /\ cur < end /\ Stays
      /\ cmd_line[cur] \notin {"ampersand", "less", "greater", "pipe"}
      /\ seen' = [seen EXCEPT !.token_last = TRUE] /\ total_strings' = total_strings + 1
      /\ cur' = r /\ UNCHANGED <<pass, ret_code, pcmd>>
  BY DEF FirstWord, AtOtherThan, Goes
<1>2. cur \in Tokens /\ Trimmed /\ ReadTo(cur, seen, total_strings, pcmd)
  BY <1>1, AtToken DEF InFirst
<1>3. cmd_line[cur] = "word"
  BY <1>1, <1>2, Kinds
<1>4. /\ cur \in Arguments /\ cur \notin Places("less") /\ cur \notin Places("greater")
      /\ cur \notin Pipes
  BY <1>2, <1>3, Kinds
<1>5. Onto(cur, r)
  BY <1>2, <1>4, TokensInText, WordStep
<1>6. cur \notin Offending /\ cur \notin Appends
  BY <1>3 DEF Offending, Operators, Appends
<1>7. /\ seen' \in Flags /\ seen'.file_output = seen.file_output
      /\ seen'.file_input = seen.file_input /\ seen'.token_last = TRUE
  BY <1>1 DEF Typed, Flags
<1>8. total_strings' \in Nat /\ pcmd' \in Results
  BY <1>1 DEF Typed
<1> HIDE DEF r
<1> QED
  BY <1>1, <1>2, <1>4, <1>5, <1>6, <1>7, <1>8, FirstGoes

(* An ampersand in the first pass.                                         *)
LEMMA FirstAmpersandStep ==
    ASSUME Typed, InFirst, FirstAmpersand
    PROVE  ParserInv'
<1>1. /\ cur < end /\ Stays /\ cmd_line[cur] = "ampersand" /\ Rejects("UNEXPECTED_AMPERSAND")
  BY DEF FirstAmpersand, At
<1>2. cur \in Tokens
  BY <1>1, AtToken DEF InFirst
<1>3. Offence(cur) = "UNEXPECTED_AMPERSAND"
  BY <1>1 DEF Offence
<1> QED
  BY <1>1, <1>2, <1>3, RejectStep

(* The line begins with a token.                                           *)
LEMMA StartsAtToken ==
    ASSUME Typed, Trimmed
    PROVE  start \in Tokens \cup {end}
<1> SUFFICES ASSUME start # end PROVE start \in Tokens
  OBVIOUS
<1>1. /\ start \in Nat /\ end \in Nat /\ start <= end /\ Text \in SUBSET (start..end - 1)
      /\ \A x, y : x \in Places(y) <=> x \in Text /\ cmd_line[x] = y
  BY TextIs
<1>2. start \in Text
  <2>1. start < end
    BY <1>1
  <2> QED
    BY <2>1 DEF Trimmed
<1>3. start - 1 \notin Text /\ \A x \in Text : ~(x < start)
  BY <1>1
<1>4. CASE cmd_line[start] = "word"
  <2>1. start \in WordStarts
    BY <1>1, <1>2, <1>3, <1>4 DEF WordStarts
  <2>2. \A c : ~IsNameFor(start, c)
    BY <1>3, NoName
  <2> QED
    BY <2>1, <2>2 DEF Tokens, Arguments
<1>5. CASE cmd_line[start] # "word"
  <2>1. ~SecondOfAppend(start)
    BY <1>1, <1>3 DEF SecondOfAppend, IsOutput
  <2> QED
    BY <1>2, <1>5, <2>1 DEF Tokens, Operators
<1> QED
  BY <1>4, <1>5

(* A line without a command has an operator that offends, a file or an     *)
(* ampersand at its end.                                                   *)
LEMMA NotEmpty ==
    ASSUME Typed, Trimmed, Arguments = {}, Offending = {}, ~Background,
           Places("less") = {}, Places("greater") = {}
    PROVE  FALSE
<1>1. start # end
  <2>1. Text # {}
    BY DEF Trimmed, Text
  <2>2. start \in Nat /\ end \in Nat /\ Text \in SUBSET (start..end - 1)
    BY TextIs
  <2>3. start = end => start..end - 1 = {}
    BY <2>2
  <2> QED
    BY <2>1, <2>2, <2>3
<1>2. start \in Tokens
  BY <1>1, StartsAtToken
<1>3. cmd_line[start] \in {"pipe", "ampersand"} /\ start \in Operators
  BY <1>2, Kinds
<1>4. Before(start, Places("greater")) = {} /\ ~ArgumentBefore(start)
  BY DEF Before, ArgumentBefore
<1>5. CASE cmd_line[start] = "pipe"
  <2>1. Offence(start) = "UNEXPECTED_PIPELINE"
    BY <1>4, <1>5 DEF Offence
  <2> QED
    BY <1>3, <2>1 DEF Offending
<1>6. CASE cmd_line[start] = "ampersand"
  <2>1. Offence(start) = "UNEXPECTED_AMPERSAND"
    BY <1>6 DEF Offence
  <2> QED
    BY <1>3, <2>1 DEF Offending
<1> QED
  BY <1>3, <1>5, <1>6

(* What the first pass has learnt at the end of the line.                  *)
LEMMA ReadAll ==
    ASSUME Typed, Trimmed, ReadTo(end, seen, total_strings, pcmd)
    PROVE  /\ seen.file_input <=> Places("less") # {}
           /\ seen.file_output <=> Places("greater") # {}
           /\ seen.token_last <=> ArgumentBefore(end)
           /\ ArgumentBefore(end) <=> ArgumentBefore(Len(cmd_line) + 1)
           /\ total_strings = Cardinality(Arguments) /\ pcmd.num_commands = Cardinality(Pipes)
           /\ total_strings = 0 <=> Arguments = {}
           /\ pcmd.is_file_append <=> \E q \in Text : SecondOfAppend(q)
           /\ Offending = {}
<1>1. /\ Arguments \in SUBSET Text /\ Pipes \in SUBSET Text /\ Offending \in SUBSET Text
      /\ Places("less") \in SUBSET Text /\ Places("greater") \in SUBSET Text
  BY TokensInText DEF Pipes
<1>2. /\ Before(end, Arguments) = Arguments /\ Before(end, Pipes) = Pipes
      /\ Before(end, Offending) = Offending /\ Before(end, Text) = Text
      /\ Before(end, Places("less")) = Places("less")
      /\ Before(end, Places("greater")) = Places("greater")
      /\ Before(Len(cmd_line) + 1, Arguments) = Arguments
      /\ Before(Len(cmd_line) + 1, Pipes) = Pipes
  BY <1>1, Ends
<1>3. IsFiniteSet(Arguments) /\ (Cardinality(Arguments) = 0 <=> Arguments = {})
  BY <1>1, TextFinite, FS_EmptySet
<1>4. \A x : ArgumentBefore(x) <=>
             \E s \in Before(x, Arguments) : \A q \in Before(x, Pipes) : q < s
  BY DEF ArgumentBefore, Before
<1>5. ArgumentBefore(end) <=> ArgumentBefore(Len(cmd_line) + 1)
  BY <1>2, <1>4
<1> QED
  BY <1>2, <1>3, <1>5 DEF ReadTo

(* Nothing is stored before the first token.                               *)
LEMMA NothingStored ==
    ASSUME Typed, Trimmed, NEW c, c.stdin_file = None, c.stdout_file = None
    PROVE  StoredTo(start, <<>>, <<1>>, c)
<1>1. /\ Arguments \in SUBSET Text /\ Pipes \in SUBSET Text /\ Slots \in SUBSET Text
      /\ Places("less") \in SUBSET Text /\ Places("greater") \in SUBSET Text
  BY TokensInText DEF Pipes, Slots
<1>2. /\ Before(start, Arguments) = {} /\ Before(start, Pipes) = {}
      /\ Before(start, Slots) = {}
      /\ Before(start, Places("less")) = {} /\ Before(start, Places("greater")) = {}
  BY <1>1, Ends
<1>3. Cardinality({}) = 0
  BY FS_EmptySet
<1>4. Len(<<>>) = 0 /\ Len(<<1>>) = 1 /\ <<1>>[1] = 1
  OBVIOUS
<1> QED
  BY <1>2, <1>3, <1>4 DEF StoredTo

(* The end of the first pass.                                              *)
LEMMA FirstEndStep ==
    ASSUME Typed, InFirst, FirstEnd
    PROVE  ParserInv'
<1>1. /\ cur >= end /\ Trimmed /\ ReadTo(cur, seen, total_strings, pcmd) /\ Fresh
      /\ cur \in Tokens \cup {end} /\ ret_code = "success"
      /\ UNCHANGED <<cmd_line, start, end, seen, total_strings, argv>>
  BY DEF FirstEnd, InFirst
<1>2. cur = end
  BY <1>1, AtToken
<1>3. /\ seen.file_input <=> Places("less") # {}
      /\ seen.file_output <=> Places("greater") # {}
      /\ seen.token_last <=> ArgumentBefore(end)
      /\ ArgumentBefore(end) <=> ArgumentBefore(Len(cmd_line) + 1)
      /\ total_strings = Cardinality(Arguments) /\ pcmd.num_commands = Cardinality(Pipes)
      /\ total_strings = 0 <=> Arguments = {}
      /\ pcmd.is_file_append <=> \E q \in Text : SecondOfAppend(q)
      /\ Offending = {}
  BY <1>1, <1>2, ReadAll
<1>4. Kept # {} /\ (pcmd.is_background <=> Background)
  BY <1>1 DEF Trimmed
<1>5. ASSUME NEW code, Return(code), UNCHANGED <<cur, pcmd, commands>>,
             code = Verdict, code # "success"
      PROVE  ParserInv'
  <2>1. /\ ret_code' = code /\ pass' = "done"
        /\ UNCHANGED <<cmd_line, start, end, cur, seen, total_strings, pcmd, argv, commands>>
    BY <1>1, <1>5 DEF Return
  <2>2. Verdict' = code /\ Kept' # {}
    BY <1>4, <1>5, <2>1, SameVerdict, SameText
  <2>3. Fresh' /\ Typed'
    BY <1>1, <2>1 DEF Fresh, Typed
  <2>4. IsDone'
    BY <1>5, <2>1, <2>2, <2>3 DEF IsDone
  <2> QED
    BY <2>1, <2>3, <2>4 DEF ParserInv
<1>6. CASE total_strings = 0
  <2>1. pcmd.is_background \/ seen.file_input \/ seen.file_output
    <3>1. ~(~Background /\ Places("less") = {} /\ Places("greater") = {})
      BY <1>1, <1>3, <1>6, NotEmpty
    <3> QED
      BY <1>3, <1>4, <3>1
  <2>2. Return("EXPECT_COMMANDS") /\ UNCHANGED <<cur, pcmd, commands>>
    BY <1>6, <2>1 DEF FirstEnd
  <2>3. Verdict = "EXPECT_COMMANDS"
    BY <1>3, <1>4, <1>6 DEF Verdict
  <2> QED
    BY <1>5, <2>2, <2>3
<1>7. CASE total_strings # 0 /\ ~seen.token_last
  <2>1. Return("UNEXPECTED_PIPELINE") /\ UNCHANGED <<cur, pcmd, commands>>
    BY <1>7 DEF FirstEnd
  <2>2. Verdict = "UNEXPECTED_PIPELINE"
    BY <1>3, <1>4, <1>7 DEF Verdict
  <2> QED
    BY <1>5, <2>1, <2>2
<1>8. CASE total_strings # 0 /\ seen.token_last
  <2>1. /\ pass' = "second" /\ cur' = start /\ commands' = <<1>> /\ ret_code' = ret_code
        /\ pcmd' = [pcmd EXCEPT !.num_commands = @ + 1]
    BY <1>8 DEF FirstEnd
  <2>2. /\ pcmd' \in Results /\ pcmd'.is_file_append = pcmd.is_file_append
        /\ pcmd'.num_commands = pcmd.num_commands + 1
        /\ pcmd'.is_background = pcmd.is_background
        /\ pcmd'.stdin_file = None /\ pcmd'.stdout_file = None
    BY <1>1, <2>1 DEF Typed, Results, Fresh
  <2>3. Trimmed'
    BY <1>1, <2>2, TrimmedStays
  <2>4. Counted'
    <3>1. /\ Offending' = {} /\ Arguments' # {} /\ ArgumentBefore(end)'
          /\ total_strings' = Cardinality(Arguments') /\ Pipes' = Pipes
          /\ Text' = Text /\ \A q : SecondOfAppend(q)' = SecondOfAppend(q)
      BY <1>1, <1>3, <1>8, SameText, SameLine, SameVerdict
    <3> QED
      BY <1>3, <2>2, <3>1 DEF Counted
  <2>5. StoredTo(start, <<>>, <<1>>, pcmd')
    BY <1>1, <2>2, NothingStored
  <2>6. StoredTo(cur, argv, commands, pcmd)'
    <3>1. StoredTo(cur', argv', commands', pcmd')
      BY <1>1, <2>1, <2>5 DEF Fresh
    <3> QED
      BY <1>1, <3>1, StoredStays
  <2>7. cur' \in Tokens' \cup {end'}
    BY <1>1, <2>1, StartsAtToken, SameLine
  <2>8. Typed'
    <3>1. <<1>> \in Seq(Nat)
      OBVIOUS
    <3> QED
      BY <1>1, <2>1, <2>2, <3>1 DEF Typed
  <2> QED
    BY <1>1, <2>1, <2>3, <2>4, <2>6, <2>7, <2>8 DEF ParserInv, InSecond
<1> QED
  BY <1>6, <1>7, <1>8

(* A < in the second pass.                                                 *)
LEMMA SecondInputStep ==
    ASSUME Typed, InSecond, SecondInput
    PROVE  ParserInv'
<1> DEFINE name == skip_space(cur + 1)
           r == skip_space(skip_word(name))
<1>1. /\ pass = "second" /\ cur < end /\ cmd_line[cur] = "less" /\ Stored
      /\ pcmd' = [pcmd EXCEPT !.stdin_file = <<name, skip_word(name)>>]
      /\ cur' = r /\ UNCHANGED <<pass, ret_code, argv, commands>>
  BY DEF SecondInput, At, Goes
<1>2. /\ cur \in Tokens /\ Trimmed /\ Offending = {} /\ StoredTo(cur, argv, commands, pcmd)
  BY <1>1, AtToken DEF InSecond, Counted
<1>3. Offence(cur) = "success" /\ cur \in Operators
  <2>1. cur \in Operators
    BY <1>1, <1>2, Kinds
  <2> QED
    BY <1>2, <2>1 DEF Offending
<1>4. cur \in Redirects /\ NameAt(cur) = name
  <2>1. cur \in Redirects
    BY <1>1, <1>3 DEF Redirects
  <2>2. ~SecondOfAppend(cur + 1)
    <3>1. (cur + 1) - 1 = cur
      BY DEF Typed
    <3>2. cur \notin Places("greater")
      BY <1>1 DEF Places
    <3> QED
      BY <3>1, <3>2 DEF SecondOfAppend, IsOutput
  <2> QED
    BY <2>1, <2>2 DEF NameAt, EndOf
<1>5. HasName(cur)
  <2>1. ASSUME ~HasName(cur) PROVE FALSE
    <3>1. Offence(cur) # "success"
      BY <1>1, <2>1 DEF Offence
    <3> QED
      BY <1>3, <3>1
  <2> QED
    BY <2>1
<1>6. /\ Onto(cur, r) /\ Word(name) = <<name, skip_word(name)>>
      /\ name \in Nat /\ skip_word(name) \in Nat
  BY <1>2, <1>4, <1>5, RedirectStep
<1> HIDE DEF r, name
<1>7. /\ pcmd' \in Results /\ pcmd'.is_file_append = pcmd.is_file_append
      /\ pcmd'.num_commands = pcmd.num_commands
      /\ pcmd'.is_background = pcmd.is_background
      /\ pcmd'.stdin_file = Word(name) /\ pcmd'.stdout_file = pcmd.stdout_file
  <2>1. <<name, skip_word(name)>> \in Stretch
    BY <1>6 DEF Stretch
  <2> QED
    BY <1>1, <1>6, <2>1 DEF Typed, Results
<1>8. StoredTo(r, argv', commands', pcmd')
  <2> DEFINE c2 == pcmd'
  <2>1. /\ c2.stdin_file = IF cmd_line[cur] = "less" THEN Word(NameAt(cur)) ELSE pcmd.stdin_file
        /\ c2.stdout_file = IF cmd_line[cur] = "greater" THEN Word(NameAt(cur)) ELSE pcmd.stdout_file
    BY <1>1, <1>4, <1>7
  <2> HIDE DEF c2
  <2>2. StoredTo(r, argv, commands, c2)
    BY <1>2, <1>4, <1>5, <1>6, <2>1, NameStored
  <2> QED
    BY <1>1, <2>2 DEF c2
<1>9. argv' \in Seq(Stretch) /\ commands' \in Seq(Nat) /\ r \in Tokens \cup {end} /\ r \in Nat
  BY <1>1, <1>6 DEF Typed, Onto
<1> QED
  BY <1>1, <1>7, <1>8, <1>9, SecondGoes

(* A > in the second pass.                                                 *)
LEMMA SecondOutputStep ==
    ASSUME Typed, InSecond, SecondOutput
    PROVE  ParserInv'
<1> DEFINE name == skip_space(IF pcmd.is_file_append THEN cur + 2 ELSE cur + 1)
           r == skip_space(skip_word(name))
<1>1. /\ pass = "second" /\ cur < end /\ cmd_line[cur] = "greater" /\ Stored
      /\ pcmd' = [pcmd EXCEPT !.stdout_file = <<name, skip_word(name)>>]
      /\ cur' = r /\ UNCHANGED <<pass, ret_code, argv, commands>>
  BY DEF SecondOutput, At, Goes
<1>2. /\ cur \in Tokens /\ Trimmed /\ Offending = {} /\ StoredTo(cur, argv, commands, pcmd)
      /\ pcmd.is_file_append <=> \E q \in Text : SecondOfAppend(q)
  BY <1>1, AtToken DEF InSecond, Counted
<1>3. /\ Offence(cur) = "success" /\ cur \in Operators /\ cur \in Places("greater")
      /\ cur \in Nat
  <2>1. cur \in Operators /\ cur \in Places("greater") /\ cur \in Nat
    BY <1>1, <1>2, Kinds DEF Typed
  <2> QED
    BY <1>2, <2>1 DEF Offending
<1>4. IsOutput(cur) /\ cur \in Redirects
  <2>1. ASSUME Before(cur, Places("greater")) # {} PROVE FALSE
    <3>1. Offence(cur) # "success"
      BY <1>1, <2>1 DEF Offence, IsOutput
    <3> QED
      BY <1>3, <3>1
  <2> QED
    BY <1>1, <1>3, <2>1 DEF IsOutput, Redirects
<1>5. pcmd.is_file_append <=> SecondOfAppend(cur + 1)
  <2>1. ASSUME NEW q \in Text, SecondOfAppend(q) PROVE SecondOfAppend(cur + 1)
    <3>1. q - 1 = cur
      BY <1>2, <1>4, <2>1, OneOutput DEF SecondOfAppend
    <3>2. q \in Nat
      BY <1>2, TextFinite
    <3>3. q = cur + 1
      BY <1>3, <3>1, <3>2
    <3> QED
      BY <2>1, <3>3
  <2>2. SecondOfAppend(cur + 1) => cur + 1 \in Text
    BY DEF SecondOfAppend, Places
  <2> QED
    BY <1>2, <2>1, <2>2
<1>6. NameAt(cur) = name
  <2>1. (cur + 1) + 1 = cur + 2
    BY <1>3
  <2> QED
    BY <1>5, <2>1 DEF NameAt, EndOf
<1>7. HasName(cur)
  <2>1. ASSUME ~HasName(cur) PROVE FALSE
    <3>1. Before(cur, Places("greater")) = {}
      BY <1>4 DEF IsOutput
    <3>2. Offence(cur) # "success"
      BY <1>1, <1>4, <2>1, <3>1 DEF Offence
    <3> QED
      BY <1>3, <3>2
  <2> QED
    BY <2>1
<1>8. /\ Onto(cur, r) /\ Word(name) = <<name, skip_word(name)>>
      /\ name \in Nat /\ skip_word(name) \in Nat
  BY <1>2, <1>4, <1>6, <1>7, RedirectStep
<1> HIDE DEF r, name
<1>9. /\ pcmd' \in Results /\ pcmd'.is_file_append = pcmd.is_file_append
      /\ pcmd'.num_commands = pcmd.num_commands
      /\ pcmd'.is_background = pcmd.is_background
      /\ pcmd'.stdout_file = Word(name) /\ pcmd'.stdin_file = pcmd.stdin_file
  <2>1. <<name, skip_word(name)>> \in Stretch
    BY <1>8 DEF Stretch
  <2> QED
    BY <1>1, <1>8, <2>1 DEF Typed, Results
<1>10. StoredTo(r, argv', commands', pcmd')
  <2> DEFINE c2 == pcmd'
  <2>1. /\ c2.stdin_file = IF cmd_line[cur] = "less" THEN Word(NameAt(cur)) ELSE pcmd.stdin_file
        /\ c2.stdout_file = IF cmd_line[cur] = "greater" THEN Word(NameAt(cur)) ELSE pcmd.stdout_file
    BY <1>1, <1>6, <1>9
  <2> HIDE DEF c2
  <2>2. StoredTo(r, argv, commands, c2)
    BY <1>2, <1>4, <1>7, <1>8, <2>1, NameStored
  <2> QED
    BY <1>1, <2>2 DEF c2
<1>11. argv' \in Seq(Stretch) /\ commands' \in Seq(Nat) /\ r \in Tokens \cup {end} /\ r \in Nat
  BY <1>1, <1>8 DEF Typed, Onto
<1> QED
  BY <1>1, <1>9, <1>10, <1>11, SecondGoes

(* A pipe in the second pass.                                              *)
LEMMA SecondPipeStep ==
    ASSUME Typed, InSecond, SecondPipe
    PROVE  ParserInv'
<1> DEFINE r == skip_space(cur + 1)
<1>1. /\ pass = "second" /\ cur < end /\ cmd_line[cur] = "pipe" /\ Stored
      /\ argv' = Append(argv, None) /\ commands' = Append(commands, Len(argv) + 2)
      /\ cur' = r /\ UNCHANGED <<pass, ret_code, pcmd>>
  BY DEF SecondPipe, At, Goes
<1>2. cur \in Tokens /\ Trimmed /\ StoredTo(cur, argv, commands, pcmd)
  BY <1>1, AtToken DEF InSecond
<1>3. cur \in Pipes
  BY <1>1, <1>2, Kinds
<1>4. Onto(cur, r)
  BY <1>2, <1>3, PipeStep
<1> HIDE DEF r
<1>5. argv \in Seq(Stretch) /\ commands \in Seq(Nat) /\ None \in Stretch /\ Len(argv) + 2 \in Nat
  <2>1. argv \in Seq(Stretch) /\ commands \in Seq(Nat)
    BY DEF Typed
  <2>2. Len(argv) \in Nat
    BY <2>1
  <2> QED
    BY <2>1, <2>2 DEF Stretch
<1>6. argv' \in Seq(Stretch) /\ commands' \in Seq(Nat)
  BY <1>1, <1>5
<1>7. StoredTo(r, argv', commands', pcmd')
  BY <1>1, <1>2, <1>3, <1>4, <1>5, PipeStored
<1>8. r \in Tokens \cup {end} /\ r \in Nat /\ pcmd' \in Results
  BY <1>1, <1>4 DEF Typed, Onto
<1> QED
  BY <1>1, <1>6, <1>7, <1>8, SecondGoes

(* A word in the second pass.                                              *)
LEMMA SecondWordStep ==
    ASSUME Typed, InSecond, SecondWord
    PROVE  ParserInv'
<1> DEFINE r == skip_space(skip_word(cur))
<1>1. /\ pass = "second" /\ cur < end /\ cmd_line[cur] \notin {"less", "greater", "pipe"}
      /\ Stored /\ argv' = Append(argv, <<cur, skip_word(cur)>>)
      /\ cur' = r /\ UNCHANGED <<pass, ret_code, commands, pcmd>>
  BY DEF SecondWord, AtOtherThan, Goes
<1>2. cur \in Tokens /\ Trimmed /\ Offending = {} /\ StoredTo(cur, argv, commands, pcmd)
  BY <1>1, AtToken DEF InSecond, Counted
<1>3. cur \in Arguments
  <2>1. cmd_line[cur] \in {"word", "ampersand"}
    BY <1>1, <1>2, Kinds
  <2>2. ASSUME cmd_line[cur] = "ampersand" PROVE FALSE
    <3>1. Offence(cur) = "UNEXPECTED_AMPERSAND"
      BY <2>2 DEF Offence
    <3>2. cur \in Operators
      BY <1>2, <2>2, Kinds
    <3> QED
      BY <1>2, <3>1, <3>2 DEF Offending
  <2> QED
    BY <1>2, <2>1, <2>2, Kinds
<1>4. Onto(cur, r) /\ Word(cur) = <<cur, skip_word(cur)>> /\ skip_word(cur) \in Nat
  BY <1>2, <1>3, TokensInText, WordStep
<1> HIDE DEF r
<1>5. argv \in Seq(Stretch) /\ Word(cur) \in Stretch
  BY <1>4 DEF Typed, Stretch
<1>6. argv' \in Seq(Stretch) /\ argv' = Append(argv, Word(cur))
  BY <1>1, <1>4, <1>5
<1>7. StoredTo(r, argv', commands', pcmd')
  BY <1>1, <1>2, <1>3, <1>4, <1>5, <1>6, ArgumentStored
<1>8. /\ r \in Tokens \cup {end} /\ r \in Nat /\ pcmd' \in Results /\ commands' \in Seq(Nat)
  BY <1>1, <1>4 DEF Typed, Onto
<1> QED
  BY <1>1, <1>6, <1>7, <1>8, SecondGoes

(* The end of the second pass.                                             *)
LEMMA SecondEndStep ==
    ASSUME Typed, InSecond, SecondEnd
    PROVE  ParserInv'
<1>1. /\ cur >= end /\ Stored /\ argv' = Append(argv, None) /\ pass' = "done"
      /\ ret_code' = "success" /\ UNCHANGED <<cur, pcmd, commands>>
      /\ UNCHANGED <<cmd_line, start, end, seen, total_strings>>
  BY DEF SecondEnd, Return, Stored
<1>2. Trimmed /\ Counted /\ StoredTo(cur, argv, commands, pcmd) /\ cur = end
  BY <1>1, AtToken DEF InSecond
<1>3. Trimmed' /\ Counted'
  BY <1>1, <1>2, TrimmedStays, CountedStays
<1>4. PICK old \in Seq(Stretch) : argv = old /\ StoredTo(end, old, commands, pcmd)
  BY <1>2 DEF Typed
<1>5. StoredTo(end, old, commands, pcmd)'
  BY <1>1, <1>4, SameText, SameLine DEF StoredTo, Before
<1>6. argv' = Append(old, None) /\ argv' \in Seq(Stretch)
  BY <1>1, <1>4 DEF Stretch
<1>7. Typed'
  BY <1>1, <1>6 DEF Typed
<1>8. IsDone'
  BY <1>1, <1>3, <1>4, <1>5, <1>6 DEF IsDone
<1> QED
  BY <1>1, <1>7, <1>8 DEF ParserInv

(* What stands before the first # and is no white space is kept.           *)
LEMMA KeptIs ==
    ASSUME Typed, end = Len(cmd_line) + 1
    PROVE  LET comment == {p \in DOMAIN cmd_line : cmd_line[p] = "hash"}
               limit == Min(comment \cup {end})
           IN  /\ limit \in 1..Len(cmd_line) + 1
               /\ Kept = {p \in 1..limit - 1 : cmd_line[p] # "space"}
               /\ \A p \in 1..limit - 1 : cmd_line[p] # "hash"
<1> DEFINE comment == {p \in DOMAIN cmd_line : cmd_line[p] = "hash"}
           limit == Min(comment \cup {end})
<1>1. Len(cmd_line) \in Nat /\ DOMAIN cmd_line = 1..Len(cmd_line)
  BY LineIs
<1>2. comment \cup {end} \in SUBSET (1..Len(cmd_line) + 1)
  BY <1>1
<1>3. comment \cup {end} \in SUBSET Nat
  <2>1. \A x \in 1..Len(cmd_line) + 1 : x \in Nat
    BY <1>1
  <2> QED
    BY <1>2, <2>1
<1>4. limit \in comment \cup {end} /\ \A k \in comment \cup {end} : limit <= k
  <2> HIDE DEF comment
  <2> QED
    BY <1>3, MinOf
<1> HIDE DEF limit
<1>5. limit \in 1..Len(cmd_line) + 1 /\ limit \in Nat
  BY <1>2, <1>3, <1>4
<1>6. ASSUME NEW p \in 1..limit - 1 PROVE p \in DOMAIN cmd_line /\ cmd_line[p] # "hash"
  <2>1. p \in 1..Len(cmd_line) /\ ~(limit <= p)
    BY <1>1, <1>5
  <2> QED
    BY <1>1, <1>4, <2>1
<1>7. ASSUME NEW p \in Kept PROVE p \in 1..limit - 1
  <2>1. p \in 1..Len(cmd_line) /\ \A q \in 1..p : cmd_line[q] # "hash"
    BY <1>1 DEF Kept
  <2>2. ~(limit <= p)
    <3> SUFFICES ASSUME limit <= p PROVE FALSE
      OBVIOUS
    <3>1. limit \in 1..p /\ limit # end
      BY <1>1, <1>5, <2>1
    <3> QED
      BY <1>4, <2>1, <3>1
  <2> QED
    BY <1>1, <1>5, <2>1, <2>2
<1>8. ASSUME NEW p \in 1..limit - 1, cmd_line[p] # "space" PROVE p \in Kept
  <2>1. \A q \in 1..p : q \in 1..limit - 1
    BY <1>5
  <2> QED
    BY <1>6, <1>8, <2>1 DEF Kept
<1>9. \A p \in Kept : cmd_line[p] # "space"
  BY DEF Kept
<1>10. Kept = {p \in 1..limit - 1 : cmd_line[p] # "space"}
  BY <1>7, <1>8, <1>9
<1> QED
  BY <1>5, <1>6, <1>10 DEF limit

(* Before the first token nothing has been read.                           *)
LEMMA NothingRead ==
    ASSUME Typed, Trimmed, NEW f, NEW c, ~f.file_input, ~f.file_output, ~f.token_last,
           c.num_commands = 0, ~c.is_file_append
    PROVE  ReadTo(start, f, 0, c)
<1>1. /\ Arguments \in SUBSET Text /\ Pipes \in SUBSET Text /\ Offending \in SUBSET Text
      /\ Places("less") \in SUBSET Text /\ Places("greater") \in SUBSET Text
  BY TokensInText DEF Pipes
<1>2. /\ Before(start, Arguments) = {} /\ Before(start, Pipes) = {}
      /\ Before(start, Offending) = {} /\ Before(start, Text) = {}
      /\ Before(start, Places("less")) = {} /\ Before(start, Places("greater")) = {}
  BY <1>1, Ends
<1>3. ~ArgumentBefore(start)
  BY <1>2 DEF ArgumentBefore, Before
<1>4. Cardinality({}) = 0
  BY FS_EmptySet
<1> QED
  BY <1>2, <1>3, <1>4 DEF ReadTo

(* The same of the flags and the result themselves.                        *)
LEMMA ReadAtStart ==
    Typed /\ Trimmed /\ ~seen.file_input /\ ~seen.file_output /\ ~seen.token_last
        /\ pcmd.num_commands = 0 /\ ~pcmd.is_file_append
    => ReadTo(start, seen, 0, pcmd)
BY NothingRead

(* The ends of the line are cut off.                                       *)
LEMMA TrimStep ==
    ASSUME Typed, Untouched, Trim
    PROVE  ParserInv'
<1> DEFINE comment == {p \in DOMAIN cmd_line : cmd_line[p] = "hash"}
           limit == Min(comment \cup {end})
           text == {p \in 1..limit - 1 : cmd_line[p] # "space"}
           inBackground == text # {} /\ cmd_line[Max(text)] = "ampersand"
<1>1. /\ start' = Min(text \cup {limit}) /\ cur' = start'
      /\ end' = IF text = {} THEN start'
                ELSE IF inBackground THEN Max(text) ELSE Max(text) + 1
      /\ pcmd' = [pcmd EXCEPT !.is_background = inBackground]
      /\ pass' = IF text = {} THEN "done" ELSE "first"
      /\ UNCHANGED <<cmd_line, seen, total_strings, argv, commands, ret_code>>
  BY DEF Trim
<1>2. /\ limit \in 1..Len(cmd_line) + 1 /\ Kept = text
      /\ \A p \in 1..limit - 1 : cmd_line[p] # "hash"
  BY KeptIs DEF Untouched
<1>3. Len(cmd_line) \in Nat
  BY LineIs
<1>4. Background <=> inBackground
  <2>1. Kept = text
    BY <1>2
  <2> HIDE DEF text
  <2> QED
    BY <2>1 DEF Background
<1>5. inBackground \in BOOLEAN
  OBVIOUS
<1> HIDE DEF limit, comment
<1>6. text \in SUBSET (1..limit - 1) /\ limit \in Nat
  BY <1>2, <1>3
<1>7. \A p \in 1..limit - 1 : p \in text <=> cmd_line[p] # "space"
  OBVIOUS
<1> HIDE DEF text, inBackground
<1>8. /\ pcmd' \in Results /\ pcmd'.is_background = inBackground
      /\ pcmd'.is_file_append = pcmd.is_file_append /\ pcmd'.num_commands = pcmd.num_commands
      /\ pcmd'.stdin_file = None /\ pcmd'.stdout_file = None
  BY <1>1, <1>5 DEF Typed, Results, Untouched, Fresh
<1>9. Fresh' /\ ret_code' = "success"
  BY <1>1, <1>8 DEF Untouched, Fresh
<1>10. CASE text = {}
  <2>1. start' = limit
    <3>1. text \cup {limit} = {limit}
      BY <1>10
    <3>2. Min({limit}) = limit
      BY <1>6, MinIs
    <3> QED
      BY <1>1, <3>1, <3>2
  <2>2. Typed' /\ pass' = "done"
    BY <1>1, <1>6, <1>8, <1>10, <2>1 DEF Typed
  <2>3. Kept' = {}
    BY <1>1, <1>2, <1>10, SameText
  <2>4. IsDone'
    BY <1>9, <2>3 DEF IsDone
  <2> QED
    BY <2>2, <2>4 DEF ParserInv
<1>11. CASE text # {}
  <2>1. Max(text) \in text /\ \A k \in text : Max(text) >= k
    <3>1. text \in SUBSET (0..limit)
      <4>1. \A x \in 1..limit - 1 : x \in 0..limit
        BY <1>6
      <4> QED
        BY <1>6, <4>1
    <3> QED
      BY <1>6, <1>11, <3>1, MaxOf
  <2>2. Min(text) \in text /\ \A k \in text : Min(text) <= k
    <3>1. text \in SUBSET Nat
      <4>1. \A x \in 1..limit - 1 : x \in Nat
        BY <1>6
      <4> QED
        BY <1>6, <4>1
    <3> QED
      BY <1>11, <3>1, MinOf
  <2>3. \A k \in text : k \in Nat /\ 1 <= k /\ k < limit
    BY <1>6
  <2>4. start' = Min(text)
    <3>1. \A k \in text \cup {limit} : Min(text) <= k
      <4>1. Min(text) <= limit
        <5>1. Min(text) \in Nat /\ Min(text) < limit
          BY <2>2, <2>3
        <5> QED
          BY <1>6, <5>1
      <4> QED
        BY <2>2, <4>1
    <3>2. text \cup {limit} \in SUBSET Int /\ Min(text) \in text \cup {limit}
      BY <1>6, <2>2, <2>3
    <3>3. Min(text \cup {limit}) = Min(text)
      BY <3>1, <3>2, MinIs
    <3> QED
      BY <1>1, <3>3
  <2> DEFINE m == Min(text)
             M == Max(text)
  <2> HIDE DEF m, M
  <2>5. /\ m \in text /\ M \in text /\ \A k \in text : k \in Nat /\ m <= k /\ k <= M
        /\ start' = m /\ end' = IF inBackground THEN M ELSE M + 1
        /\ m \in Nat /\ M \in Nat /\ 1 <= m /\ m <= M /\ M < limit
    <3>1. m \in text /\ M \in text /\ start' = m /\ end' = IF inBackground THEN M ELSE M + 1
      BY <1>1, <1>11, <2>1, <2>2, <2>4 DEF m, M
    <3>2. \A k \in text : k \in Nat /\ m <= k /\ M >= k
      BY <2>1, <2>2, <2>3 DEF m, M
    <3>3. m \in Nat /\ M \in Nat /\ 1 <= m /\ m <= M /\ M < limit
      BY <2>3, <3>1, <3>2
    <3> QED
      BY <3>1, <3>2, <3>3
  <2>6. Text = IF inBackground THEN text \ {M} ELSE text
    BY <1>2, <1>4 DEF Text, M
  <2>7. Text = {p \in m..end' - 1 : cmd_line[p] # "space"}
    <3>1. \A p \in text : p \in m..M /\ cmd_line[p] # "space"
      BY <1>6, <1>7, <2>5
    <3>2. \A p \in m..M : p \in 1..limit - 1
      BY <1>6, <2>5
    <3>3. text = {p \in m..M : cmd_line[p] # "space"}
      BY <1>7, <3>1, <3>2
    <3>4. CASE inBackground
      <4>1. m..end' - 1 = (m..M) \ {M}
        BY <2>5, <3>4
      <4> QED
        BY <2>6, <3>3, <3>4, <4>1
    <3>5. CASE ~inBackground
      <4>1. end' - 1 = M
        BY <2>5, <3>5
      <4> QED
        BY <2>6, <3>3, <3>5, <4>1
    <3> QED
      BY <3>4, <3>5
  <2>8. /\ start' \in Nat /\ end' \in Nat /\ start' \in 1..end' /\ end' <= Len(cmd_line) + 1
        /\ end' <= limit
    <3>1. limit <= Len(cmd_line) + 1
      BY <1>2, <1>3
    <3>2. end' = M \/ end' = M + 1
      BY <2>5
    <3>3. start' = m
      BY <2>5
    <3> QED
      BY <1>3, <1>6, <2>5, <3>1, <3>2, <3>3
  <2>9. \A p \in start'..end' - 1 : cmd_line[p] # "hash"
    <3>1. \A p \in start'..end' - 1 : p \in 1..limit - 1
      BY <1>6, <2>5, <2>8
    <3> QED
      BY <1>2, <3>1
  <2>10. start' < end' => start' \in Text
    <3> SUFFICES ASSUME start' < end' PROVE start' \in Text
      OBVIOUS
    <3>1. m \in m..end' - 1
      BY <2>5, <2>8
    <3>2. cmd_line[m] # "space"
      BY <1>6, <1>7, <2>5
    <3> QED
      BY <2>5, <2>7, <3>1, <3>2
  <2>11. /\ Text' = Text /\ Kept' # {} /\ pcmd'.is_background = Background'
         /\ cmd_line' = cmd_line
    <3>1. Background \in BOOLEAN
      BY DEF Background
    <3>2. Background = inBackground
      BY <1>4, <1>5, <3>1
    <3> QED
      BY <1>1, <1>2, <1>8, <1>11, <3>2, SameText
  <2>12. Trimmed'
    <3>1. Text' = {p \in start'..end' - 1 : cmd_line'[p] # "space"}
      BY <2>5, <2>7, <2>11
    <3>2. \A p \in start'..end' - 1 : cmd_line'[p] # "hash"
      BY <2>9, <2>11
    <3> QED
      BY <2>8, <2>10, <2>11, <3>1, <3>2 DEF Trimmed
  <2>13. Typed'
    BY <1>1, <1>8, <1>11, <2>8 DEF Typed
  <2>14. cur' \in Tokens' \cup {end'}
    <3>1. (Typed /\ Trimmed => start \in Tokens \cup {end})'
      BY StartsAtToken, PTL
    <3> QED
      BY <1>1, <2>12, <2>13, <3>1
  <2>15. ReadTo(cur, seen, total_strings, pcmd)'
    <3>1. (Typed /\ Trimmed /\ ~seen.file_input /\ ~seen.file_output /\ ~seen.token_last
              /\ pcmd.num_commands = 0 /\ ~pcmd.is_file_append
           => ReadTo(start, seen, 0, pcmd))'
      BY ReadAtStart, PTL
    <3> QED
      BY <1>1, <1>8, <2>12, <2>13, <3>1 DEF Untouched
  <2> QED
    BY <1>1, <1>9, <1>11, <2>12, <2>13, <2>14, <2>15 DEF ParserInv, InFirst
<1> QED
  BY <1>10, <1>11

-----------------------------------------------------------------------------
(* Before the first step the line is whole.                                *)
LEMMA ParserInvInit == Init => ParserInv
<1> SUFFICES ASSUME Init PROVE ParserInv
  OBVIOUS
<1>1. Len(cmd_line) \in Nat
  <2>1. PICK n \in 0..MaxLength : cmd_line \in [1..n -> Characters]
    BY DEF Init, Lines
  <2>2. n \in Nat
    BY LengthAssumption
  <2>3. cmd_line \in Seq(Characters)
    BY <2>1, <2>2
  <2> QED
    BY <2>3
<1>2. <<>> \in Seq(Stretch) /\ <<>> \in Seq(Nat)
  OBVIOUS
<1>3. seen \in Flags /\ pcmd \in Results
  BY DEF Init, Flags, Results, Stretch
<1>4. Typed
  BY <1>1, <1>2, <1>3 DEF Init, Typed
<1>5. Untouched
  BY DEF Init, Untouched, Fresh
<1> QED
  BY <1>4, <1>5 DEF Init, ParserInv

(* A step that changes nothing.                                            *)
LEMMA ParserInvStutters ==
    ASSUME ParserInv, UNCHANGED vars
    PROVE  ParserInv'
<1>1. UNCHANGED <<cmd_line, start, end, cur, pass, seen, total_strings, pcmd, argv, commands, ret_code>>
  BY DEF vars
<1>2. Typed' /\ (Fresh => Fresh') /\ (Untouched => Untouched')
  BY <1>1 DEF ParserInv, Typed, Fresh, Untouched
<1>3. (Trimmed => Trimmed') /\ (Counted => Counted')
  BY <1>1, TrimmedStays, CountedStays
<1>4. ReadTo(cur, seen, total_strings, pcmd) => ReadTo(cur, seen, total_strings, pcmd)'
  BY <1>1, ReadStays
<1>5. StoredTo(cur, argv, commands, pcmd) => StoredTo(cur, argv, commands, pcmd)'
  BY <1>1, StoredStays
<1>6. InFirst => InFirst'
  BY <1>1, <1>2, <1>3, <1>4, SameLine DEF InFirst
<1>7. InSecond => InSecond'
  BY <1>1, <1>3, <1>5, SameLine DEF InSecond
<1>8. IsDone => IsDone'
  <2>1. CASE Kept = {} /\ ret_code = "success" /\ Fresh
    BY <1>1, <1>2, <2>1, SameText DEF IsDone
  <2>2. CASE Kept # {} /\ ret_code = Verdict /\ ret_code # "success" /\ Fresh
    BY <1>1, <1>2, <2>2, SameText, SameVerdict DEF IsDone
  <2>3. ASSUME Trimmed /\ Counted /\ ret_code = "success",
               NEW args \in Seq(Stretch), argv = Append(args, None), StoredTo(end, args, commands, pcmd)
        PROVE  IsDone'
    <3>1. StoredTo(end, args, commands, pcmd)'
      BY <1>1, <2>3, SameText, SameLine DEF StoredTo, Before
    <3> QED
      BY <1>1, <1>3, <2>3, <3>1 DEF IsDone
  <2> QED
    BY <2>1, <2>2, <2>3 DEF IsDone
<1> QED
  BY <1>1, <1>2, <1>6, <1>7, <1>8 DEF ParserInv

(* Every step preserves it.                                                *)
LEMMA ParserInvNext == ParserInv /\ [Next]_vars => ParserInv'
<1> SUFFICES ASSUME ParserInv, [Next]_vars PROVE ParserInv'
  OBVIOUS
<1>1. Typed
  BY DEF ParserInv
<1>2. CASE Trim
  BY <1>1, <1>2, TrimStep DEF ParserInv, Trim
<1>3. CASE FirstAmpersand
  BY <1>1, <1>3, FirstAmpersandStep DEF ParserInv, FirstAmpersand, At
<1>4. CASE FirstInput
  BY <1>1, <1>4, FirstInputStep DEF ParserInv, FirstInput, At
<1>5. CASE FirstOutput
  BY <1>1, <1>5, FirstOutputStep DEF ParserInv, FirstOutput, At
<1>6. CASE FirstPipe
  BY <1>1, <1>6, FirstPipeStep DEF ParserInv, FirstPipe, At
<1>7. CASE FirstWord
  BY <1>1, <1>7, FirstWordStep DEF ParserInv, FirstWord, AtOtherThan
<1>8. CASE FirstEnd
  BY <1>1, <1>8, FirstEndStep DEF ParserInv, FirstEnd
<1>9. CASE SecondInput
  BY <1>1, <1>9, SecondInputStep DEF ParserInv, SecondInput, At
<1>10. CASE SecondOutput
  BY <1>1, <1>10, SecondOutputStep DEF ParserInv, SecondOutput, At
<1>11. CASE SecondPipe
  BY <1>1, <1>11, SecondPipeStep DEF ParserInv, SecondPipe, At
<1>12. CASE SecondWord
  BY <1>1, <1>12, SecondWordStep DEF ParserInv, SecondWord, AtOtherThan
<1>13. CASE SecondEnd
  BY <1>1, <1>13, SecondEndStep DEF ParserInv, SecondEnd
<1>14. CASE UNCHANGED vars
  BY <1>14, ParserInvStutters
<1> QED
  BY <1>2, <1>3, <1>4, <1>5, <1>6, <1>7, <1>8, <1>9, <1>10, <1>11, <1>12, <1>13, <1>14 DEF Next

(* The inductive invariant of the parser: where the loops are in the line, *)
(* and that they know and have stored just what stands before it.          *)
THEOREM ParserInvariance == Spec => []ParserInv
BY ParserInvInit, ParserInvNext, PTL DEF Spec

-----------------------------------------------------------------------------
(* What the end of the second pass has stored.                             *)
LEMMA StoredAll ==
    ASSUME Typed, Trimmed, NEW args, NEW lists, NEW c, StoredTo(end, args, lists, c)
    PROVE  /\ Len(args) = Cardinality(Slots) /\ Len(lists) = Cardinality(Pipes) + 1 /\ lists[1] = 1
           /\ \A s \in Arguments : args[Place(s)] = Word(s)
           /\ \A s \in Pipes : args[Place(s)] = None
           /\ \A s \in Pipes : lists[Cardinality(Before(s, Pipes)) + 2] = Place(s) + 1
           /\ c.stdin_file = IF Places("less") = {} THEN None ELSE FileName("less")
           /\ c.stdout_file = IF Places("greater") = {} THEN None ELSE FileName("greater")
<1>1. /\ Arguments \in SUBSET Text /\ Pipes \in SUBSET Text /\ Slots \in SUBSET Text
      /\ Places("less") \in SUBSET Text /\ Places("greater") \in SUBSET Text
  BY TokensInText DEF Pipes, Slots
<1>2. /\ Before(end, Arguments) = Arguments /\ Before(end, Pipes) = Pipes
      /\ Before(end, Slots) = Slots
      /\ Before(end, Places("less")) = Places("less")
      /\ Before(end, Places("greater")) = Places("greater")
  BY <1>1, Ends
<1> QED
  BY <1>2 DEF StoredTo

(* A word names a file only behind a < or a >.                             *)
LEMMA NoFile ==
    ASSUME Typed, Trimmed, NEW c, Places(c) = {}
    PROVE  FileName(c) = None
<1>1. ASSUME NEW s \in WordStarts, IsNameFor(s, c) PROVE FALSE
  <2>1. s \in Text
    BY TokensInText
  <2>2. PICK q \in Text : cmd_line[q] = c
    BY <1>1, <2>1, NameFollows
  <2> QED
    BY <2>2 DEF Places
<1>2. {p \in WordStarts : IsNameFor(p, c)} = {}
  BY <1>1
<1> QED
  BY <1>2 DEF FileName

(* The slots are the arguments and the pipes.                              *)
LEMMA SlotCount ==
    ASSUME Typed, Trimmed
    PROVE  /\ Cardinality(Slots) = Cardinality(Arguments) + Cardinality(Pipes)
           /\ Cardinality(Slots) \in Nat /\ Cardinality(Pipes) \in Nat
           /\ Cardinality(Arguments) \in Nat
<1>1. Arguments \in SUBSET Text /\ Pipes \in SUBSET Text /\ Slots \in SUBSET Text
  BY TokensInText DEF Pipes, Slots
<1>2. IsFiniteSet(Arguments) /\ IsFiniteSet(Pipes)
  BY <1>1, TextFinite
<1>3. Arguments \cap Pipes = {}
  <2>1. \A p \in Arguments : cmd_line[p] = "word"
    BY TokensInText, TextIs
  <2>2. \A p \in Pipes : cmd_line[p] = "pipe"
    BY TextIs DEF Pipes
  <2> QED
    BY <2>1, <2>2
<1>4. Cardinality(Arguments \cap Pipes) = 0
  BY <1>3, FS_EmptySet
<1>5. /\ Cardinality(Arguments) \in Nat /\ Cardinality(Pipes) \in Nat
      /\ Cardinality(Slots) \in Nat
  BY <1>1, TextFinite
<1>6. Cardinality(Slots)
        = Cardinality(Arguments) + Cardinality(Pipes) - Cardinality(Arguments \cap Pipes)
  BY <1>2, FS_Union DEF Slots
<1> QED
  BY <1>4, <1>5, <1>6

(* What the invariant says of the buffer.                                  *)
LEMMA ParserInvWithinBuffer == ParserInv => WithinBuffer
<1> SUFFICES ASSUME ParserInv, pass \in {"second", "done"}, commands # <<>>
             PROVE  /\ Len(argv) <= total_strings + pcmd.num_commands
                    /\ Len(commands) <= pcmd.num_commands
                    /\ pass = "done" => /\ Len(argv) = total_strings + pcmd.num_commands
                                        /\ Len(commands) = pcmd.num_commands
  BY DEF WithinBuffer
<1>1. Typed
  BY DEF ParserInv
<1>2. CASE pass = "second"
  <2>1. Trimmed /\ Counted /\ StoredTo(cur, argv, commands, pcmd)
    BY <1>2 DEF ParserInv, InSecond
  <2>2. /\ Len(argv) = Cardinality(Before(cur, Slots))
        /\ Len(commands) = Cardinality(Before(cur, Pipes)) + 1
    BY <2>1 DEF StoredTo
  <2>3. /\ Cardinality(Before(cur, Slots)) \in Nat
        /\ Cardinality(Before(cur, Slots)) <= Cardinality(Slots)
        /\ Cardinality(Before(cur, Pipes)) \in Nat
        /\ Cardinality(Before(cur, Pipes)) <= Cardinality(Pipes)
    <3>1. Slots \in SUBSET Text /\ Pipes \in SUBSET Text
      BY TokensInText DEF Pipes, Slots
    <3> QED
      BY <1>1, <2>1, <3>1, TextFinite
  <2>4. /\ Cardinality(Slots) = Cardinality(Arguments) + Cardinality(Pipes)
        /\ Cardinality(Pipes) \in Nat /\ Cardinality(Arguments) \in Nat
    BY <1>1, <2>1, SlotCount
  <2>5. total_strings = Cardinality(Arguments) /\ pcmd.num_commands = Cardinality(Pipes) + 1
    BY <2>1 DEF Counted
  <2>6. pass # "done"
    BY <1>2
  <2> QED
    BY <2>2, <2>3, <2>4, <2>5, <2>6
<1>3. CASE pass = "done"
  <2>1. Trimmed /\ Counted /\ \E a \in Seq(Stretch) : argv = Append(a, None)
                                                    /\ StoredTo(end, a, commands, pcmd)
    BY <1>3 DEF ParserInv, IsDone, Fresh
  <2>2. PICK args \in Seq(Stretch) : argv = Append(args, None) /\ StoredTo(end, args, commands, pcmd)
    BY <2>1
  <2>3. Len(args) = Cardinality(Slots) /\ Len(commands) = Cardinality(Pipes) + 1
    BY <1>1, <2>1, <2>2, StoredAll
  <2>4. Len(argv) = Len(args) + 1
    BY <2>2 DEF Stretch
  <2>5. /\ Cardinality(Slots) = Cardinality(Arguments) + Cardinality(Pipes)
        /\ Cardinality(Pipes) \in Nat /\ Cardinality(Arguments) \in Nat
    BY <1>1, <2>1, SlotCount
  <2>6. total_strings = Cardinality(Arguments) /\ pcmd.num_commands = Cardinality(Pipes) + 1
    BY <2>1 DEF Counted
  <2> QED
    BY <2>3, <2>4, <2>5, <2>6
<1> QED
  BY <1>2, <1>3

(* What the first pass counts, and so the size of the buffer, is never     *)
(* less than what the second pass stores ("no need to check for error      *)
(* anymore"), and the buffer is full when it ends.                         *)
THEOREM ParserStaysWithinBuffer == Spec => []WithinBuffer
BY ParserInvariance, ParserInvWithinBuffer, PTL

(* A line that is in order has no verdict against it.                      *)
LEMMA InOrder ==
    ASSUME Typed, Trimmed, Counted
    PROVE  Verdict = "success"
<1>1. Arguments \in SUBSET Text /\ Pipes \in SUBSET Text
  BY TokensInText DEF Pipes
<1>2. /\ Before(end, Arguments) = Arguments /\ Before(end, Pipes) = Pipes
      /\ Before(Len(cmd_line) + 1, Arguments) = Arguments
      /\ Before(Len(cmd_line) + 1, Pipes) = Pipes
  BY <1>1, Ends
<1>3. \A x : ArgumentBefore(x) <=>
             \E s \in Before(x, Arguments) : \A q \in Before(x, Pipes) : q < s
  BY DEF ArgumentBefore, Before
<1>4. ArgumentBefore(Len(cmd_line) + 1)
  BY <1>2, <1>3 DEF Counted
<1> QED
  BY <1>4 DEF Verdict, Counted, Trimmed

(* What the invariant says of the error.                                   *)
LEMMA ParserInvRejects == ParserInv => RejectsAsReference
<1> SUFFICES ASSUME ParserInv, pass = "done" PROVE ret_code = Verdict
  BY DEF RejectsAsReference
<1>1. Typed /\ IsDone
  BY DEF ParserInv
<1>2. CASE Kept = {} /\ ret_code = "success"
  <2>1. Text = {}
    BY <1>2 DEF Text, Background
  <2>2. Offending = {} /\ Arguments = {}
    BY <2>1, TokensInText
  <2> QED
    BY <1>2, <2>2 DEF Verdict
<1>3. CASE Trimmed /\ Counted /\ ret_code = "success"
  BY <1>1, <1>3, InOrder
<1> QED
  BY <1>1, <1>2, <1>3 DEF IsDone

(* Every line, of whatever length, is accepted or rejected as its meaning  *)
(* as a whole demands, with the error of the first operator that offends:  *)
(* the flags, the counts and the order of the cases in the first loop of   *)
(* parse_command and the checks behind it come to that.                    *)
THEOREM ParserRejectsAsReference == Spec => []RejectsAsReference
BY ParserInvariance, ParserInvRejects, PTL

(* What the invariant says of the result.                                  *)
LEMMA ParserInvParses == ParserInv => ParsesAsReference
<1> SUFFICES ASSUME ParserInv, pass = "done", ret_code = "success", Kept # {}
             PROVE  /\ Len(argv) = Cardinality(Slots) + 1 /\ argv[Len(argv)] = None
                    /\ \A s \in Arguments : argv[Place(s)] = Word(s)
                    /\ \A p \in Pipes : argv[Place(p)] = None
                    /\ Len(commands) = Cardinality(Pipes) + 1 /\ commands[1] = 1
                    /\ \A p \in Pipes : commands[Cardinality(Before(p, Pipes)) + 2] = Place(p) + 1
                    /\ pcmd = [is_background  |-> Background,
                               is_file_append |-> \E p \in Text : SecondOfAppend(p),
                               stdin_file     |-> FileName("less"),
                               stdout_file    |-> FileName("greater"),
                               num_commands   |-> Cardinality(Pipes) + 1]
  BY DEF ParsesAsReference
<1>1. /\ Typed /\ Trimmed /\ Counted
      /\ \E a \in Seq(Stretch) : argv = Append(a, None) /\ StoredTo(end, a, commands, pcmd)
  BY DEF ParserInv, IsDone
<1>2. PICK args \in Seq(Stretch) : argv = Append(args, None) /\ StoredTo(end, args, commands, pcmd)
  BY <1>1
<1>3. /\ Len(args) = Cardinality(Slots) /\ Len(commands) = Cardinality(Pipes) + 1
      /\ commands[1] = 1
      /\ \A s \in Arguments : args[Place(s)] = Word(s)
      /\ \A s \in Pipes : args[Place(s)] = None
      /\ \A s \in Pipes : commands[Cardinality(Before(s, Pipes)) + 2] = Place(s) + 1
      /\ pcmd.stdin_file = IF Places("less") = {} THEN None ELSE FileName("less")
      /\ pcmd.stdout_file = IF Places("greater") = {} THEN None ELSE FileName("greater")
  BY <1>1, <1>2, StoredAll
<1>4. /\ Len(argv) = Len(args) + 1 /\ argv[Len(args) + 1] = None
      /\ \A i \in 1..Len(args) : argv[i] = args[i]
  <2>1. None \in Stretch
    BY DEF Stretch
  <2> QED
    BY <1>2, <2>1, AppendAt
<1>5. ASSUME NEW s \in Slots PROVE argv[Place(s)] = args[Place(s)]
  <2>1. Slots \in SUBSET Text /\ Text \in SUBSET Nat
    BY <1>1, TokensInText, TextFinite DEF Slots, Pipes
  <2>2. end \in Int /\ s < end
    <3>1. start \in Nat /\ end \in Nat /\ Text \in SUBSET (start..end - 1) /\ s \in Text
      BY <1>1, <2>1, TextIs
    <3> QED
      BY <3>1
  <2>3. Place(s) \in 1..Cardinality(Before(end, Slots))
    BY <1>1, <2>1, <2>2, RankGrows DEF Place
  <2>4. Before(end, Slots) = Slots
    BY <1>1, <2>1, Ends
  <2> QED
    BY <1>3, <1>4, <2>3, <2>4
<1>6. /\ \A s \in Arguments : argv[Place(s)] = Word(s)
      /\ \A p \in Pipes : argv[Place(p)] = None
  BY <1>3, <1>5 DEF Slots
<1>7. pcmd.stdin_file = FileName("less") /\ pcmd.stdout_file = FileName("greater")
  BY <1>1, <1>3, NoFile
<1>8. /\ pcmd.is_background = Background /\ pcmd.num_commands = Cardinality(Pipes) + 1
      /\ pcmd.is_file_append = \E p \in Text : SecondOfAppend(p)
  <2>1. pcmd.is_file_append \in BOOLEAN
    BY <1>1 DEF Typed, Results
  <2>2. pcmd.is_file_append <=> \E p \in Text : SecondOfAppend(p)
    BY <1>1 DEF Counted
  <2>3. pcmd.is_background = Background /\ pcmd.num_commands = Cardinality(Pipes) + 1
    BY <1>1 DEF Counted, Trimmed
  <2> QED
    BY <2>1, <2>2, <2>3
<1>9. pcmd = [is_background  |-> pcmd.is_background,
              is_file_append |-> pcmd.is_file_append,
              stdin_file     |-> pcmd.stdin_file,
              stdout_file    |-> pcmd.stdout_file,
              num_commands   |-> pcmd.num_commands]
  <2>1. pcmd \in Results
    BY <1>1 DEF Typed
  <2> QED
    BY <2>1 DEF Results
<1> QED
  BY <1>3, <1>4, <1>6, <1>7, <1>8, <1>9

(* What is stored of an accepted line, of whatever length, is what the     *)
(* line means as a whole: every argument in its slot and behind a NULL the *)
(* next command, the names of the files, the two flags.                    *)
THEOREM ParserParsesAsReference == Spec => []ParsesAsReference
BY ParserInvariance, ParserInvParses, PTL
=============================================================================
