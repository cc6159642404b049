------------------------------- MODULE Parser -------------------------------
(***************************************************************************)
(* parse_command (parser.c): a command line is read twice, first to check  *)
(* its tokens and to count them, then to store them in a buffer of the     *)
(* size the counts give.  One turn of either loop is one step.             *)
(*                                                                         *)
(* A character is "word", any that a word is made of, "space", any that    *)
(* isspace accepts, or one of the operators and #, by name.  Positions     *)
(* count from 1; end is the position behind the last character, as in C.   *)
(* A token is stored as its first position and the position behind its     *)
(* last.                                                                   *)
(***************************************************************************)
EXTENDS Integers, Sequences, FiniteSetsExt

CONSTANT MaxLength      \* bound on the length of a line (4096 in shell.h)

ASSUME LengthAssumption == MaxLength \in Nat

Characters == {"word", "space", "less", "greater", "pipe", "ampersand", "hash"}
Lines == UNION {[1..n -> Characters] : n \in 0..MaxLength}
None == <<>>                        \* NULL

VARIABLES
    cmd_line,       \* the argument
    start, end,     \* what is parsed of it
    cur,            \* where the loop is
    pass,           \* "trim", "first", "second" or "done"
    seen,           \* has_token_last, has_file_input, has_file_output
    total_strings,  \* arguments counted by the first pass
    pcmd,           \* the result: flags, file names and number of commands
    argv,           \* what the second pass has stored behind argv_ptr
    commands,       \* pcmd->commands: positions in argv
    ret_code

vars == <<cmd_line, start, end, cur, pass, seen, total_strings, pcmd, argv,
          commands, ret_code>>

Init ==
    /\ cmd_line \in Lines
    /\ start = 1 /\ end = Len(cmd_line) + 1 /\ cur = 1
    /\ pass = "trim"
    /\ seen = [token_last |-> FALSE, file_input |-> FALSE, file_output |-> FALSE]
    /\ total_strings = 0
    /\ pcmd = [is_background |-> FALSE, is_file_append |-> FALSE,
               stdin_file |-> None, stdout_file |-> None, num_commands |-> 0]
    /\ argv = <<>> /\ commands = <<>>
    /\ ret_code = "success"

-----------------------------------------------------------------------------
WordCharacter(c) == c \notin {"less", "greater", "pipe", "ampersand", "space"}

(* Where skip_word and skip_space leave a position p.                      *)
Bug_stopsAtBlanksOnly(p) == Min({q \in p..end : q = end \/ cmd_line[q] = "space"})
skip_word(p) == Min({q \in p..end : q = end \/ ~WordCharacter(cmd_line[q])})
skip_space(p) == Min({q \in p..end : q = end \/ cmd_line[q] # "space"})

Return(code) == ret_code' = code /\ pass' = "done"

(* What is parsed: nothing from a # on, no white space at the ends, and no *)
(* ampersand at the very end.                                              *)
Trim ==
    /\ pass = "trim"
    /\ LET comment == {p \in DOMAIN cmd_line : cmd_line[p] = "hash"}
           limit == Min(comment \cup {end})
           text == {p \in 1..limit - 1 : cmd_line[p] # "space"}
           inBackground == text # {} /\ cmd_line[Max(text)] = "ampersand"
       IN  /\ start' = Min(text \cup {limit})
           /\ cur' = start'
           /\ end' = IF text = {} THEN start'
                     ELSE IF inBackground THEN Max(text) ELSE Max(text) + 1
           /\ pcmd' = [pcmd EXCEPT !.is_background = inBackground]
           /\ pass' = IF text = {} THEN "done" ELSE "first"
    /\ UNCHANGED <<cmd_line, seen, total_strings, argv, commands, ret_code>>

-----------------------------------------------------------------------------
(* The first pass.                                                         *)
At(p, c) == pass = p /\ cur < end /\ cmd_line[cur] = c
AtOtherThan(p, cases) == pass = p /\ cur < end /\ cmd_line[cur] \notin cases
Stays == UNCHANGED <<cmd_line, start, end, argv, commands>>

(* A token is passed, or the line is rejected.                             *)
Goes(next) == cur' = skip_space(next) /\ UNCHANGED <<pass, ret_code>>
Rejects(code) == Return(code) /\ UNCHANGED <<cur, seen, total_strings, pcmd>>

FirstAmpersand ==
    /\ At("first", "ampersand")
    /\ Rejects("UNEXPECTED_AMPERSAND")
    /\ Stays

FirstInput ==
    /\ At("first", "less")
    /\ LET name == skip_space(cur + 1) IN
       IF pcmd.num_commands > 0 \/ seen.file_input THEN Rejects("UNEXPECTED_FILE_INPUT")
       ELSE IF skip_word(name) <= name THEN Rejects("EXPECT_INPUT_FILENAME")
       ELSE /\ seen' = [seen EXCEPT !.file_input = TRUE]
            /\ Goes(skip_word(name))
            /\ UNCHANGED <<total_strings, pcmd>>
    /\ Stays

IsAppend(p) == p + 1 < end /\ cmd_line[p + 1] = "greater"
FirstOutput ==
    /\ At("first", "greater")
    /\ LET name == skip_space(IF IsAppend(cur) THEN cur + 2 ELSE cur + 1) IN
       IF seen.file_output THEN Rejects("UNEXPECTED_FILE_OUTPUT")
       ELSE IF skip_word(name) <= name THEN Rejects("EXPECT_OUTPUT_FILENAME")
       ELSE /\ seen' = [seen EXCEPT !.file_output = TRUE]
            /\ pcmd' = [pcmd EXCEPT !.is_file_append = IsAppend(cur)]
            /\ Goes(skip_word(name))
            /\ UNCHANGED total_strings
    /\ Stays

Bug_TokenStays(flags) == flags
AfterPipe(flags) == [flags EXCEPT !.token_last = FALSE]
FirstPipe ==
    /\ At("first", "pipe")
    /\ IF seen.file_output THEN Rejects("UNEXPECTED_FILE_OUTPUT")
       ELSE IF ~seen.token_last THEN Rejects("UNEXPECTED_PIPELINE")
       ELSE /\ seen' = AfterPipe(seen)
            /\ pcmd' = [pcmd EXCEPT !.num_commands = @ + 1]
            /\ Goes(cur + 1)
            /\ UNCHANGED total_strings
    /\ Stays

FirstWord ==
    /\ AtOtherThan("first", {"ampersand", "less", "greater", "pipe"})
    /\ seen' = [seen EXCEPT !.token_last = TRUE]
    /\ total_strings' = total_strings + 1
    /\ Goes(skip_word(cur))
    /\ UNCHANGED pcmd
    /\ Stays

FirstEnd ==
    /\ pass = "first" /\ cur >= end
    /\ IF total_strings = 0
       THEN /\ Return(IF pcmd.is_background \/ seen.file_input \/ seen.file_output
                      THEN "EXPECT_COMMANDS" ELSE "success")
            /\ UNCHANGED <<cur, pcmd, commands>>
       ELSE IF ~seen.token_last
       THEN Return("UNEXPECTED_PIPELINE") /\ UNCHANGED <<cur, pcmd, commands>>
       ELSE /\ pass' = "second"
            /\ cur' = start
            /\ pcmd' = [pcmd EXCEPT !.num_commands = @ + 1]
            /\ commands' = <<1>>
            /\ UNCHANGED ret_code
    /\ UNCHANGED <<cmd_line, start, end, seen, total_strings, argv>>

-----------------------------------------------------------------------------
(* The second pass stores what the first has let through.                  *)
Stored == UNCHANGED <<cmd_line, start, end, seen, total_strings>>

Bug_NameIsArgument ==
    /\ At("second", "less")
    /\ pcmd' = [pcmd EXCEPT !.stdin_file = <<cur + 1, skip_word(cur + 1)>>]
    /\ Goes(cur + 1)
    /\ UNCHANGED <<argv, commands>>
    /\ Stored
Bug_NameIsNotSkipped ==
    /\ At("second", "less")
    /\ pcmd' = [pcmd EXCEPT !.stdin_file = <<cur + 1, skip_word(cur + 1)>>]
    /\ UNCHANGED <<cur, pass, ret_code, argv, commands>>
    /\ Stored
SecondInput ==
    /\ At("second", "less")
    /\ LET name == skip_space(cur + 1) IN
       /\ pcmd' = [pcmd EXCEPT !.stdin_file = <<name, skip_word(name)>>]
       /\ Goes(skip_word(name))
    /\ UNCHANGED <<argv, commands>>
    /\ Stored

SecondOutput ==
    /\ At("second", "greater")
    /\ LET name == skip_space(IF pcmd.is_file_append THEN cur + 2 ELSE cur + 1) IN
       /\ pcmd' = [pcmd EXCEPT !.stdout_file = <<name, skip_word(name)>>]
       /\ Goes(skip_word(name))
    /\ UNCHANGED <<argv, commands>>
    /\ Stored

SecondPipe ==
    /\ At("second", "pipe")
    /\ argv' = Append(argv, None)
    /\ commands' = Append(commands, Len(argv) + 2)
    /\ Goes(cur + 1)
    /\ UNCHANGED pcmd
    /\ Stored

SecondWord ==
    /\ AtOtherThan("second", {"less", "greater", "pipe"})
    /\ argv' = Append(argv, <<cur, skip_word(cur)>>)
    /\ Goes(skip_word(cur))
    /\ UNCHANGED <<commands, pcmd>>
    /\ Stored

SecondEnd ==
    /\ pass = "second" /\ cur >= end
    /\ argv' = Append(argv, None)
    /\ Return("success")
    /\ UNCHANGED <<cur, pcmd, commands>>
    /\ Stored

Next ==
    \/ Trim
    \/ FirstAmpersand \/ FirstInput \/ FirstOutput \/ FirstPipe \/ FirstWord \/ FirstEnd
    \/ SecondInput \/ SecondOutput \/ SecondPipe \/ SecondWord \/ SecondEnd

Spec == Init /\ [][Next]_vars /\ WF_vars(Next)
=============================================================================
