------------------------------ MODULE FatSteps ------------------------------
(***************************************************************************)
(* The calls of module Fat cut open where the timer may come in between:   *)
(* fs_open between its check and the recording of the handle, fs_makefile  *)
(* between the choice of an entry and its use, and fs_write between        *)
(* finding a free block, marking it and linking it to the file.  The       *)
(* filesystem masks no signals, and every process of PennOS calls it.      *)
(* A write takes one block more and fills it; the directory has one block. *)
(***************************************************************************)
EXTENDS FatProperties

CONSTANTS Processes,
          PreemptPoints   \* the points at which another process may go on

(* Before a call, and the points within one.                               *)
Points == {"call", "track", "entry", "mark", "link"}
NoHandle == "none"
ASSUME PreemptAssumption == PreemptPoints \subseteq Points /\ NoHandle \notin Handles

VARIABLES step,     \* what every process is at, and what it has found
          running   \* the process that has the thread

filesystem == <<fat, dir, file, open_files, fault>>
allVars == <<fat, dir, file, open_files, fault, step, running>>

(* A process holds the handle it has opened, and remembers the entry and   *)
(* the block it is about to use.                                           *)
AtRest == [at |-> "call", name |-> CHOOSE n \in ValidNames : TRUE, mode |-> "F_READ",
           entry |-> 1, block |-> 1, handle |-> NoHandle]

StepsInit == /\ Init
             /\ step = [p \in Processes |-> AtRest]
             /\ running \in Processes

At(p, point) == running = p /\ step[p].at = point /\ fault = "none"
Go(p, s) == step' = [step EXCEPT ![p] = s] /\ UNCHANGED running
(* Handles is the bound on how many files are open at once.                *)
HandleLeft == \E h \in Handles : ~IsOpen(h)
NewHandle == CHOOSE h \in Handles : ~IsOpen(h)

-----------------------------------------------------------------------------
(* fs_open finds the file and checks that it is not locked ...             *)
FindFile(p, name, mode) ==
    LET e == First(Found(name)) IN
    /\ At(p, "call") /\ step[p].handle = NoHandle /\ HandleLeft
    /\ Found(name) # {} /\ ~Locked(e, mode)
    /\ Go(p, [AtRest EXCEPT !.at = "track", !.name = name, !.mode = mode, !.entry = e])
    /\ UNCHANGED filesystem

(* ... then puts its handle on the list of open files, and truncates.      *)
Recorded(p, offset) ==
    LET s == step[p]
        h == NewHandle
    IN  /\ file' = [file EXCEPT ![h] = [entry |-> s.entry, mode |-> s.mode, offset |-> offset]]
        /\ open_files' = Append(open_files, h)
        /\ Go(p, [AtRest EXCEPT !.handle = h])

TrackOpen(p) ==
    /\ At(p, "track")
    /\ LET blockno == dir[step[p].entry].blockno IN
       IF step[p].mode = "F_WRITE" /\ dir[step[p].entry].writable
       THEN /\ fat' = fs_freeblk(fat, blockno)
            /\ dir' = [dir EXCEPT ![step[p].entry].blockno = 0, ![step[p].entry].size = 0]
            /\ fault' = IF FreeRunsOff(fat, blockno) THEN "corrupt" ELSE fault
       ELSE UNCHANGED <<fat, dir, fault>>
    /\ Recorded(p, IF step[p].mode = "F_APPEND" THEN dir[step[p].entry].size ELSE 0)

(* fs_makefile finds a free entry of the directory ...                     *)
FindEntry(p, name, mode) ==
    /\ At(p, "call") /\ step[p].handle = NoHandle /\ HandleLeft
    /\ Found(name) = {} /\ mode # "F_READ" /\ name \in ValidNames
    /\ FreeEntries # {}
    /\ Go(p, [AtRest EXCEPT !.at = "entry", !.name = name, !.mode = mode,
                            !.entry = First(FreeEntries)])
    /\ UNCHANGED filesystem

(* ... and makes it the new file's.                                        *)
MakeEntry(p) ==
    /\ At(p, "entry")
    /\ dir' = [dir EXCEPT ![step[p].entry] =
                   [EmptyEntry EXCEPT !.state = "live", !.name = step[p].name]]
    /\ Recorded(p, 0)
    /\ UNCHANGED <<fat, fault>>

-----------------------------------------------------------------------------
(* fs_link_next_free, called by fs_write and fs_extendblk, finds a block.. *)
FindBlock(p) ==
    /\ At(p, "call") /\ step[p].handle # NoHandle
    /\ file[step[p].handle].mode # "F_READ" /\ Free(fat) # {}
    /\ Go(p, [step[p] EXCEPT !.at = "mark", !.block = First(Free(fat))])
    /\ UNCHANGED filesystem

(* ... marks it as the end of a chain ...                                  *)
Bug_MarksLater(p) ==
    /\ At(p, "mark")
    /\ Go(p, [step[p] EXCEPT !.at = "link"])
    /\ UNCHANGED filesystem
MarkBlock(p) ==
    /\ At(p, "mark")
    /\ fat' = [fat EXCEPT ![step[p].block] = FAT_EOF]
    /\ Go(p, [step[p] EXCEPT !.at = "link"])
    /\ UNCHANGED <<dir, file, open_files, fault>>

(* ... and its caller makes it the first or the last block of the file.    *)
LinkBlock(p) ==
    LET e == file[step[p].handle].entry
        block == step[p].block
        last == CHOOSE c \in Chain(fat, dir[e].blockno) : fat[c] = FAT_EOF
        first == dir[e].blockno = 0
    IN  /\ At(p, "link")
        /\ fat' = IF first THEN fat ELSE [fat EXCEPT ![last] = block]
        /\ dir' = [dir EXCEPT ![e].blockno = IF first THEN block ELSE @,
                              ![e].size = OffsetAfter(@, BlockSize, TRUE)]
        /\ file' = [file EXCEPT ![step[p].handle].offset = dir'[e].size]
        /\ Go(p, [step[p] EXCEPT !.at = "call", !.block = 1])
        /\ UNCHANGED <<open_files, fault>>

-----------------------------------------------------------------------------
CloseFile(p) ==
    /\ At(p, "call") /\ step[p].handle # NoHandle
    /\ Close(step[p].handle)
    /\ Go(p, AtRest)
RemoveFile(p, name) ==
    /\ At(p, "call")
    /\ Unlink(name)
    /\ UNCHANGED <<step, running>>

(* SIGALRM, and another process goes on where it was.                      *)
Preempt == /\ step[running].at \in PreemptPoints
           /\ running' \in Processes \ {running}
           /\ UNCHANGED <<filesystem, step>>

StepsNext ==
    \/ \E p \in Processes, name \in Names :
           \/ \E mode \in Modes : FindFile(p, name, mode) \/ FindEntry(p, name, mode)
           \/ RemoveFile(p, name)
    \/ \E p \in Processes :
           \/ TrackOpen(p) \/ MakeEntry(p)
           \/ FindBlock(p) \/ MarkBlock(p) \/ LinkBlock(p)
           \/ CloseFile(p)
    \/ Preempt

StepsSpec == StepsInit /\ [][StepsNext]_allVars

-----------------------------------------------------------------------------
(* A process that has marked a block and not yet linked it.                *)
Marked == {p \in Processes : step[p].at = "link"}
InFlight == {step[p].block : p \in Marked}

(* A block is found and marked for one file only, and once: whoever is     *)
(* stopped between marking it and linking it, no other file gets it, and   *)
(* no block is used that neither a file nor a process on its way has.      *)
BlocksOwned ==
    /\ ChainsIntact
    /\ \A p, q \in Marked : p # q => step[p].block # step[q].block
    /\ \A b \in Heads : Chain(fat, b) \cap InFlight = {}
    /\ Blocks \ Free(fat) = InFlight \cup UNION {Chain(fat, b) : b \in Heads}
=============================================================================
