---------------------------- MODULE FilePrograms ----------------------------
(***************************************************************************)
(* The programs that work on files: those of PennOS (user_functions.c,     *)
(* through the f_ functions of fs/user.c) and the commands of the          *)
(* standalone pennfat.  One step is one call of the filesystem; between    *)
(* two calls other programs run, a program of PennOS may be killed, and    *)
(* the machine may stop.                                                   *)
(*                                                                         *)
(* A descriptor is the handle it stands for: a program opens two files at  *)
(* most, far from the 512 its table has room for.  What it finds under     *)
(* them in src and dest survives it when it is killed: nothing closes the  *)
(* files of a process that is terminated.                                  *)
(***************************************************************************)
EXTENDS Fat

CONSTANTS Processes,       \* those that run programs; pennfat is one
          PennosCommands,  \* the commands that may be given to PennOS
          PennfatCommands, \* ... and to pennfat
          MaxCommands,     \* bound: how many of them
          Image,           \* the filesystem there is at the start
          Chunk,           \* 4096, the size of every program's buffer
          Host,            \* a file, or the terminal, of the host
          NoHandle         \* nothing is open

ASSUME FileProgramsAssumption ==
    /\ MaxCommands \in Nat
    /\ Chunk \in Nat \ {0} /\ Chunk + 1 < UINT
    /\ Host \notin Handles \cup Names /\ NoHandle \notin Handles /\ NoHandle # Host

(* A program has at most two files open, and there is memory for their     *)
(* file_t structures.                                                      *)
ASSUME HandlesAssumption ==
    /\ IsFiniteSet(Processes)
    /\ IsFiniteSet(Handles) => Cardinality(Handles) >= 2 * Cardinality(Processes)

(* What the programs make of their arguments before they open a file; with *)
(* the wrong ones they print a message and end.                            *)
Command == [do : {"cat", "cp", "touch", "chmod", "rm", "mv"},
            inputs : Seq(Names \cup {Host}), output : Names \cup {Host},
            mode : {"none", "F_WRITE", "F_APPEND", "+w", "-w"}]
ASSUME CommandsAssumption ==
    \A c \in PennosCommands \cup PennfatCommands :
        /\ c \in Command /\ c.inputs # <<>>
        /\ c.do \notin {"cat", "cp"} => c.inputs \in Seq(Names)
        /\ c.do = "cat" /\ c.output # Host => c.mode \in {"F_WRITE", "F_APPEND"}
        /\ c.do = "mv" => Len(c.inputs) = 2

(* The image is one that mkfs made and the filesystem has left.            *)
ASSUME ImageAssumption ==
    /\ Image.fat \in [Blocks -> Blocks \cup {FAT_FREE, FAT_EOF}]
    /\ Image.dir \in Seq(Entry)
    /\ \A e, f \in DOMAIN Image.dir :
          Image.dir[e].state = "live" /\ Image.dir[f].state = "live"
          /\ Image.dir[e].name = Image.dir[f].name => e = f

VARIABLES prog,      \* what every process is doing
          pennos,    \* TRUE: this is PennOS, FALSE: this is pennfat
          mounted,   \* fs is not NULL
          given      \* how many commands have been given

filesystem == <<fat, dir, file, open_files, fault>>
allVars == <<fat, dir, file, open_files, fault, prog, pennos, mounted, given>>

(* A command is a record: its name in do, the names in inputs, and for cat *)
(* and cp the file in output, opened in mode.  chmod's mode is the write   *)
(* permission to set.  i counts the names, bytes are in the buffer, ok is  *)
(* FALSE after an error that ends the program, and due is what has been    *)
(* there to copy (only the properties read it).                            *)
NoCommand == [do |-> "none", inputs |-> <<>>, output |-> Host, mode |-> "none"]
Idle == [at |-> "idle", cmd |-> NoCommand, i |-> 1, src |-> NoHandle, dest |-> NoHandle,
         bytes |-> 0, ok |-> TRUE, due |-> 0]

FilesInit ==
    /\ fat = Image.fat /\ dir = Image.dir
    /\ file = [h \in Handles |-> FreedFile]
    /\ open_files = <<>> /\ fault = "none"
    /\ prog = [p \in Processes |-> Idle]
    /\ pennos \in BOOLEAN
    /\ mounted = pennos
    /\ given = 0

Copies(r) == r.cmd.do \in {"cat", "cp"}
Input(r) == r.cmd.inputs[r.i]
Output(r) == IF Copies(r) THEN r.cmd.output ELSE Input(r)
OutputMode(r) == CASE r.cmd.do = "cat" -> r.cmd.mode
                   [] r.cmd.do = "cp" -> "F_WRITE"
                   [] r.cmd.do \in {"touch", "chmod"} -> "F_APPEND"

Become(p, r) == prog' = [prog EXCEPT ![p] = r] /\ UNCHANGED <<pennos, mounted, given>>

(* The next name, or the end.                                              *)
Bug_SameName(r, at) == IF r.i < Len(r.cmd.inputs) THEN [r EXCEPT !.at = at] ELSE Idle
NextName(r, at) ==
    IF r.i < Len(r.cmd.inputs) THEN [r EXCEPT !.at = at, !.i = r.i + 1] ELSE Idle

-----------------------------------------------------------------------------
(* fs_open succeeds.                                                       *)
CanOpen(name, mode) ==
    IF Found(name) # {} THEN ~Locked(First(Found(name)), mode)
    ELSE /\ mode # "F_READ" /\ name \in ValidNames
         /\ FreeEntries # {} \/ Free(fat) # {}
NewHandle == CHOOSE h \in Handles : ~IsOpen(h)
fs_open(name, mode) == OpenExisting(NewHandle, name, mode) \/ MakeFile(NewHandle, name, mode)

(* How many bytes a reader of entry e gets.                                *)
ToRead(e) == First({e.size, BlockSize * Cardinality(Chain(fat, e.blockno))})

(* cat opens its output first, cp its source.                              *)
FirstStep(c) ==
    CASE c.do = "cat" -> IF c.output = Host THEN "openSrc" ELSE "openDest"
      [] c.do = "cp" -> "openSrc"
      [] c.do \in {"touch", "chmod"} -> "openDest"
      [] c.do \in {"rm", "mv"} -> c.do

(* The shell of PennOS starts programs next to one another, pennfat is a   *)
(* single process.                                                         *)
MayStart(p) == pennos \/ p = CHOOSE q \in Processes : TRUE
Start(p) ==
    /\ prog[p].at = "idle" /\ mounted /\ given < MaxCommands /\ MayStart(p)
    /\ \E c \in IF pennos THEN PennosCommands ELSE PennfatCommands :
           prog' = [prog EXCEPT ![p] = [Idle EXCEPT !.at = FirstStep(c), !.cmd = c]]
    /\ given' = given + 1
    /\ UNCHANGED <<filesystem, pennos, mounted>>

(* The file to read next cannot be opened: cat closes its output, cp has   *)
(* none yet.                                                               *)
OpenSrc(p) ==
    LET r == prog[p]
        opened(h, n) == Become(p, [r EXCEPT !.at = IF r.cmd.do = "cp" THEN "openDest" ELSE "read",
                                            !.src = h, !.due = @ + n])
        refused == /\ Become(p, IF r.cmd.do = "cp" THEN Idle
                                ELSE [r EXCEPT !.at = "closeDest", !.ok = FALSE])
                   /\ UNCHANGED filesystem
    IN  /\ r.at = "openSrc"
        /\ CASE Input(r) = Host ->
                    \/ (opened(Host, 0) /\ UNCHANGED filesystem)
                    \/ (r.cmd.do = "cp" /\ refused)
             [] Input(r) # Host /\ CanOpen(Input(r), "F_READ") ->
                    /\ fs_open(Input(r), "F_READ")
                    /\ opened(NewHandle, ToRead(dir[First(Found(Input(r)))]))
             [] OTHER -> refused

(* The file to write to cannot be opened: cp closes its source, touch goes *)
(* on with the next name, cat and chmod end.                               *)
Bug_LeavesSource(r) == Idle
WithoutDest(r) ==
    CASE r.cmd.do = "cp" -> [r EXCEPT !.at = "closeSrc", !.ok = FALSE]
      [] r.cmd.do = "touch" -> NextName(r, "openDest")
      [] r.cmd.do \in {"cat", "chmod"} -> Idle

AfterDest(do) == CASE do = "cat" -> "openSrc" [] do = "cp" -> "read"
                   [] do = "touch" -> "write" [] do = "chmod" -> "chmod"
OpenDest(p) ==
    LET r == prog[p]
        opened(h, n) == Become(p, [r EXCEPT !.at = AfterDest(r.cmd.do), !.dest = h, !.due = @ + n])
        refused == Become(p, WithoutDest(r)) /\ UNCHANGED filesystem
    IN  /\ r.at = "openDest"
        /\ CASE Output(r) = Host -> (opened(Host, 0) /\ UNCHANGED filesystem) \/ refused
             [] Output(r) # Host /\ CanOpen(Output(r), OutputMode(r)) ->
                    /\ fs_open(Output(r), OutputMode(r))
                    /\ opened(NewHandle, dir'[file'[NewHandle].entry].size)
             [] OTHER -> refused

-----------------------------------------------------------------------------
(* fs_read returns 0: at the end of the file, or of its blocks.            *)
AtEnd(h) ==
    LET e == dir[file[h].entry] IN
    file[h].offset >= e.size \/ file[h].offset >= ToRead(e)

HasRead(p, n, more) ==
    Become(p, [prog[p] EXCEPT !.at = "write", !.bytes = n, !.due = @ + more])
ReadFails(p) == Become(p, [prog[p] EXCEPT !.at = "closeSrc", !.ok = FALSE])

ReadSrc(p) ==
    LET h == prog[p].src IN
    /\ prog[p].at = "read"
    /\ CASE h = Host -> /\ ReadFails(p) \/ \E n \in 0..Chunk : HasRead(p, n, n)
                        /\ UNCHANGED filesystem
         [] h # Host /\ AtEnd(h) -> HasRead(p, 0, 0) /\ UNCHANGED filesystem
         [] OTHER -> /\ Read(h, Chunk)
                     /\ IF file'[h].offset > file[h].offset
                        THEN HasRead(p, file'[h].offset - file[h].offset, 0)
                        ELSE ReadFails(p)

(* What follows a write that returned -1, or all the bytes.                *)
Bug_GoesOn(r, written) == [r EXCEPT !.at = IF r.bytes = 0 THEN "closeSrc" ELSE "read"]
AfterWrite(r, written) ==
    IF ~Copies(r) THEN [r EXCEPT !.at = "closeDest"]
    ELSE [r EXCEPT !.at = IF written /\ r.bytes > 0 THEN "read" ELSE "closeSrc",
                   !.ok = written]

WriteDest(p) ==
    LET r == prog[p]
        h == r.dest
        e == dir[file[h].entry]
        from == IF file[h].mode = "F_APPEND" THEN e.size ELSE file[h].offset
    IN  /\ r.at = "write"
        /\ CASE r.cmd.output = Host /\ Copies(r) ->
                    /\ \E written \in BOOLEAN : Become(p, AfterWrite(r, written))
                    /\ UNCHANGED filesystem
             [] h \in Handles /\ e.writable /\ r.bytes > 0 ->
                    /\ Write(h, r.bytes)
                    /\ Become(p, AfterWrite(r, file'[h].offset = (from + r.bytes) % UINT))
             [] h \in Handles /\ (~e.writable \/ r.bytes = 0) ->
                    /\ Become(p, AfterWrite(r, e.writable))
                    /\ file' = [file EXCEPT ![h].offset = IF e.writable THEN from ELSE @]
                    /\ UNCHANGED <<fat, dir, open_files, fault>>

SetPermission(p) ==
    LET r == prog[p] IN
    /\ r.at = "chmod"
    /\ IF dir[file[r.dest].entry].writable = (r.cmd.mode = "+w")
       THEN UNCHANGED filesystem ELSE Chmod(r.dest)
    /\ Become(p, [r EXCEPT !.at = "closeDest"])

-----------------------------------------------------------------------------
CloseFile(h) == IF h \in Handles THEN Close(h) ELSE UNCHANGED filesystem

CloseSrc(p) ==
    LET r == [prog[p] EXCEPT !.src = NoHandle]
        more == r.ok /\ r.i < Len(r.cmd.inputs)
    IN  /\ r.at = "closeSrc"
        /\ CloseFile(prog[p].src)
        /\ Become(p, IF r.cmd.do = "cat" /\ more THEN NextName(r, "openSrc")
                     ELSE [r EXCEPT !.at = "closeDest"])

CloseDest(p) ==
    LET r == [prog[p] EXCEPT !.dest = NoHandle] IN
    /\ r.at = "closeDest"
    /\ CloseFile(prog[p].dest)
    /\ Become(p, IF Copies(r) THEN Idle ELSE NextName(r, "openDest"))

Remove(p) ==
    LET r == prog[p] IN
    /\ r.at = "rm"
    /\ IF Found(Input(r)) # {} THEN Unlink(Input(r)) ELSE UNCHANGED filesystem
    /\ Become(p, NextName(r, "rm"))

Move(p) ==
    LET r == prog[p]
        new == r.cmd.inputs[2]
    IN  /\ r.at = "mv"
        /\ IF Found(Input(r)) # {} /\ new \in ValidNames
           THEN Rename(Input(r), new) ELSE UNCHANGED filesystem
        /\ Become(p, Idle)

-----------------------------------------------------------------------------
(* The mount, umount and mkfs of pennfat, which runs one command at a time *)
(* and has no file open between two.  mkfs of the image that is mounted    *)
(* empties what the table and the directory are a map of.                  *)
Alone == ~pennos /\ \A p \in Processes : prog[p].at = "idle"
Mount ==
    /\ Alone /\ ~mounted
    /\ Remount
    /\ mounted' = TRUE
    /\ UNCHANGED <<prog, pennos, given>>
Umount ==
    /\ Alone /\ mounted
    /\ mounted' = FALSE
    /\ UNCHANGED <<filesystem, prog, pennos, given>>
Mkfs ==
    /\ Alone
    /\ fat' = [b \in Blocks |-> IF b = 1 THEN FAT_EOF ELSE FAT_FREE]
    /\ dir' = EmptyBlock
    /\ UNCHANGED <<file, open_files, fault, prog, pennos, mounted, given>>

(* A signal of the shell ends the program between two calls.               *)
Kill(p) ==
    /\ pennos /\ prog[p].at \notin {"idle", "killed"}
    /\ Become(p, [prog[p] EXCEPT !.at = "killed"])
    /\ UNCHANGED filesystem

(* The host stops PennOS or pennfat, which is then started again.          *)
Restart ==
    /\ Remount
    /\ prog' = [p \in Processes |-> Idle]
    /\ mounted' = pennos
    /\ UNCHANGED <<pennos, given>>

Step(p) == \/ OpenSrc(p) \/ OpenDest(p)
           \/ ReadSrc(p) \/ WriteDest(p) \/ SetPermission(p)
           \/ CloseSrc(p) \/ CloseDest(p)
           \/ Remove(p) \/ Move(p)

FilesNext ==
    \/ \E p \in Processes : Start(p) \/ Step(p) \/ Kill(p)
    \/ Mount \/ Umount \/ Mkfs \/ Restart

(* The scheduler runs every process that can run again and again, and      *)
(* pennfat does nothing but run its command.                               *)
FilesSpec ==
    FilesInit /\ [][FilesNext]_allVars /\ \A p \in Processes : WF_allVars(Step(p))
=============================================================================
