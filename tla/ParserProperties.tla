-------------------------- MODULE ParserProperties --------------------------
(***************************************************************************)
(* What parse_command promises.  The reference says of a whole line what   *)
(* it means, by the places of its characters and without reading it in any *)
(* order; it is written from parser.h and from the error cases of the code.*)
(***************************************************************************)
EXTENDS Parser

(* What counts: no white space, nothing behind a #, and not the ampersand  *)
(* at the end.                                                             *)
Kept == {p \in DOMAIN cmd_line :
            cmd_line[p] # "space" /\ \A q \in 1..p : cmd_line[q] # "hash"}
Background == Kept # {} /\ cmd_line[Max(Kept)] = "ampersand"
Text == IF Background THEN Kept \ {Max(Kept)} ELSE Kept
Places(c) == {p \in Text : cmd_line[p] = c}
Before(p, S) == {q \in S : q < p}

(* The first > is the output; if another follows at once it is an append.  *)
IsOutput(p) == p \in Places("greater") /\ Before(p, Places("greater")) = {}
SecondOfAppend(p) == p \in Places("greater") /\ IsOutput(p - 1)
Operators == {p \in Text : cmd_line[p] # "word" /\ ~SecondOfAppend(p)}

(* Words, and those of them that name a file because < or > is what comes  *)
(* before them.                                                            *)
WordStarts == {p \in Places("word") : p - 1 \notin Places("word")}
WordEnd(s) == Min({q \in s..Len(cmd_line) + 1 : q \notin Places("word")})
Word(s) == <<s, WordEnd(s)>>
IsNameFor(s, c) == /\ Before(s, Text) # {}
                   /\ cmd_line[Max(Before(s, Text))] = c
Arguments == {s \in WordStarts : ~IsNameFor(s, "less") /\ ~IsNameFor(s, "greater")}
HasName(p) == LET tail == IF SecondOfAppend(p + 1) THEN p + 1 ELSE p IN
              \E s \in WordStarts : s > tail /\ Before(s, Text) \subseteq 1..tail

(* Pipes separate commands, none of which is empty.                        *)
Pipes == Places("pipe")
ArgumentBefore(p) ==
    \E s \in Arguments : s < p /\ \A q \in Before(p, Pipes) : q < s

Offence(p) ==
    LET c == cmd_line[p] IN
    CASE c = "ampersand" -> "UNEXPECTED_AMPERSAND"
      [] c = "less" /\ Before(p, Places("less") \cup Pipes) # {} -> "UNEXPECTED_FILE_INPUT"
      [] c = "less" /\ Before(p, Places("less") \cup Pipes) = {} /\ ~HasName(p) ->
             "EXPECT_INPUT_FILENAME"
      [] c \in {"greater", "pipe"} /\ Before(p, Places("greater")) # {} -> "UNEXPECTED_FILE_OUTPUT"
      [] c = "greater" /\ IsOutput(p) /\ ~HasName(p) -> "EXPECT_OUTPUT_FILENAME"
      [] c = "pipe" /\ Before(p, Places("greater")) = {} /\ ~ArgumentBefore(p) ->
             "UNEXPECTED_PIPELINE"
      [] OTHER -> "success"
Offending == {p \in Operators : Offence(p) # "success"}

Verdict == CASE Kept = {} -> "success"
             [] Offending # {} -> Offence(Min(Offending))
             [] Kept # {} /\ Offending = {} /\ Arguments = {} -> "EXPECT_COMMANDS"
             [] Arguments # {} /\ Offending = {} /\ ~ArgumentBefore(Len(cmd_line) + 1) ->
                    "UNEXPECTED_PIPELINE"
             [] OTHER -> "success"

(* The slots of argv: an argument or, behind the arguments of each command *)
(* but the last, a NULL.  A slot's place is its rank.                      *)
Slots == Arguments \cup Pipes
Place(s) == Cardinality(Before(s, Slots)) + 1
FileName(c) == LET s == {p \in WordStarts : IsNameFor(p, c)} IN
               IF s = {} THEN None ELSE Word(Max(s))

-----------------------------------------------------------------------------
(* A line is accepted or rejected as the reference says, with the error of *)
(* its first offending operator: the order of the checks in the switch,    *)
(* the flags they keep and the checks behind the loop agree with it.       *)
RejectsAsReference == pass = "done" => ret_code = Verdict

(* What is stored of a line that is accepted is what the reference reads   *)
(* in it: every argument with its command, the file names, the append and  *)
(* the background flags.                                                   *)
ParsesAsReference ==
    pass = "done" /\ ret_code = "success" /\ Kept # {} =>
        /\ Len(argv) = Cardinality(Slots) + 1 /\ argv[Len(argv)] = None
        /\ \A s \in Arguments : argv[Place(s)] = Word(s)
        /\ \A p \in Pipes : argv[Place(p)] = None
        /\ Len(commands) = Cardinality(Pipes) + 1 /\ commands[1] = 1
        /\ \A p \in Pipes : commands[Cardinality(Before(p, Pipes)) + 2] = Place(p) + 1
        /\ pcmd = [is_background  |-> Background,
                   is_file_append |-> \E p \in Text : SecondOfAppend(p),
                   stdin_file     |-> FileName("less"),
                   stdout_file    |-> FileName("greater"),
                   num_commands   |-> Cardinality(Pipes) + 1]

(* "No need to check for error anymore": what the second pass stores fits  *)
(* the buffer whose size the counts of the first pass gave.                *)
WithinBuffer ==
    pass \in {"second", "done"} /\ commands # <<>> =>
        /\ Len(argv) <= total_strings + pcmd.num_commands
        /\ Len(commands) <= pcmd.num_commands
        /\ pass = "done" => /\ Len(argv) = total_strings + pcmd.num_commands
                            /\ Len(commands) = pcmd.num_commands

(* Both loops end: every turn moves on.                                    *)
ParseEnds == <>(pass = "done")
=============================================================================
