----------------------- MODULE FileProgramsProperties -----------------------
(***************************************************************************)
(* What the programs that work on files promise together with the          *)
(* filesystem under them: the properties of module FilePrograms.           *)
(***************************************************************************)
EXTENDS FilePrograms

HeldBy(p) == {prog[p].src, prog[p].dest} \cap Handles

(* The list of open files has what the programs hold and nothing else, and *)
(* no program holds what another does: on every path through cat, cp,      *)
(* touch and chmod, every file that was opened is closed once, and none is *)
(* used after that.  Only a program that was killed never gives back what  *)
(* it held.                                                                *)
NoLeak ==
    /\ {open_files[i] : i \in OpenIndices} = UNION {HeldBy(p) : p \in Processes}
    /\ Len(open_files) = Cardinality(UNION {HeldBy(p) : p \in Processes})
    /\ \A p, q \in Processes : p # q => HeldBy(p) \cap HeldBy(q) = {}
    /\ \A p \in Processes : prog[p].at = "idle" => HeldBy(p) = {}

(* A copy is complete: when cat or cp has come to the end of its source    *)
(* without an error, the file it writes is as long as the sources were     *)
(* when they were opened (and, for cat -a, the file before them), whatever *)
(* other programs created, removed, renamed or tried to open in between.   *)
CopyComplete ==
    \A p \in Processes :
        LET r == prog[p] IN
        r.at = "closeSrc" /\ r.ok /\ r.dest \in Handles =>
            dir[file[r.dest].entry].size = r.due

(* Every program comes to its end, or is killed: no copy feeds itself or   *)
(* runs behind a file that grows.                                          *)
ProgramsEnd ==
    \A p \in Processes : prog[p].at # "idle" ~> prog[p].at \in {"idle", "killed"}
=============================================================================
