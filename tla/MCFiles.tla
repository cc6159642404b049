------------------------------ MODULE MCFiles ------------------------------
(***************************************************************************)
(* Instances of FilePrograms for TLC.                                      *)
(***************************************************************************)
EXTENDS FileProgramsProperties

CONSTANTS a, b, c

ThreeNames == {a, b, c}

(* A filesystem made by pennfat, with one directory block of two entries:  *)
(* a has three bytes in two blocks, b has one byte.                        *)
TwoFiles ==
    [fat |-> [n \in Blocks |-> CASE n = 2 -> 3 [] n \in {1, 3, 4} -> FAT_EOF
                                 [] OTHER -> FAT_FREE],
     dir |-> <<[state |-> "live", name |-> a, size |-> 3, blockno |-> 2, writable |-> TRUE],
               [state |-> "live", name |-> b, size |-> 1, blockno |-> 4, writable |-> TRUE]>>]

Cat(inputs) == [do |-> "cat", inputs |-> inputs, output |-> Host, mode |-> "none"]
CatTo(inputs, output, mode) == [do |-> "cat", inputs |-> inputs, output |-> output, mode |-> mode]
Cp(source, dest) == [do |-> "cp", inputs |-> <<source>>, output |-> dest, mode |-> "none"]
OnNames(do, names, mode) == [do |-> do, inputs |-> names, output |-> Host, mode |-> mode]

(* What the shell of PennOS runs, next to one another in the background.   *)
UserPrograms ==
    {Cat(<<a>>), Cp(a, b), Cp(b, c),
     OnNames("rm", <<b, c>>, "none"), OnNames("mv", <<b, a>>, "none"),
     OnNames("touch", <<c>>, "none"), OnNames("chmod", <<b>>, "-w")}

(* What pennfat has besides.                                               *)
StandaloneCommands ==
    {CatTo(<<a, b>>, c, "F_WRITE"), CatTo(<<b, a>>, a, "F_APPEND"), CatTo(<<Host>>, b, "F_APPEND"),
     Cp(Host, c), Cp(a, Host), Cp(a, a), OnNames("rm", <<a, c>>, "none"), OnNames("chmod", <<b, a>>, "-w"),
     OnNames("chmod", <<b>>, "+w")}
=============================================================================
