--------------------------------- MODULE Fat ---------------------------------
(***************************************************************************)
(* The mounted PennFAT filesystem (fs/fat.c): the allocation table, the    *)
(* root directory, and the list of open files that implements exclusive    *)
(* locking and deferred deletion.  Each fs_ function is one step.          *)
(*                                                                         *)
(* A byte of file data is not modelled, only how many there are: sizes and *)
(* offsets are uint32_t and wrap at UINT.  fault records what the C code   *)
(* does instead of going on: "segv" for a write to the NULL fs_dataoffset  *)
(* returned, "corrupt" for a call that follows a chain into a free block   *)
(* and on into entry 0 of the table, which holds the geometry.             *)
(***************************************************************************)
EXTENDS Integers, Sequences, FiniteSets

CONSTANTS NEntries,         \* entries of the table: fat_size / 2
          FAT_EOF,          \* 0xFFFF
          BlockSize,        \* bytes of a block
          EntriesPerBlock,  \* directory entries of a block: block_size / 64
          UINT,             \* 2^32
          Names,            \* file names
          ValidNames,       \* those fs_makefile and fs_rename accept
          Handles,          \* addresses of file_t structures
          Renames,          \* <<old, new>> arguments of fs_rename
          Lengths,          \* numbers of bytes to read or write
          Seeks             \* <<offset, whence>> arguments of fs_lseek

Blocks == 1..NEntries - 1
FAT_FREE == 0
Modes == {"F_READ", "F_WRITE", "F_APPEND"}
Whences == {"F_SEEK_SET", "F_SEEK_CUR", "F_SEEK_END"}
Offsets == 0..UINT - 1

(* fs_mount also accepts a table whose last block has the number FAT_EOF;  *)
(* that one geometry is not modelled.                                      *)
ASSUME FatAssumption ==
    /\ NEntries \in Nat /\ NEntries >= 2
    /\ FAT_EOF \in Nat /\ NEntries <= FAT_EOF
    /\ BlockSize \in Nat \ {0} /\ EntriesPerBlock \in Nat \ {0}
    /\ UINT \in Nat /\ BlockSize * NEntries < UINT
    /\ ValidNames \subseteq Names /\ ValidNames # {}
    /\ Renames \subseteq Names \X Names
    /\ Lengths \subseteq Nat \ {0}
    /\ Seeks \subseteq Int \X Whences

VARIABLES
    fat,         \* block -> next block, FAT_EOF or FAT_FREE
    dir,         \* the root directory, a sequence of entries
    file,        \* handle -> file_t
    open_files,  \* the handles fs->open_files holds, in its order
    fault

vars == <<fat, dir, file, open_files, fault>>

(* What name[0] says of an entry: 0, 1, 2 or a letter.                     *)
EntryStates == {"end", "deleted", "unlinked", "live"}
Entry == [state : EntryStates, name : Names, size : Offsets,
          blockno : 0..NEntries - 1, writable : BOOLEAN]
File == [entry : Nat \ {0}, offset : Offsets, mode : Modes]

(* What stands for memory that is not a file_t, or not any more.           *)
FreedFile == [entry |-> 1, offset |-> 0, mode |-> "F_READ"]
EmptyEntry == [state |-> "end", name |-> CHOOSE n \in ValidNames : TRUE,
               size |-> 0, blockno |-> 0, writable |-> TRUE]
(* Nothing reads more of a deleted entry than that it is one.              *)
DeletedEntry == [EmptyEntry EXCEPT !.state = "deleted"]
EmptyBlock == [e \in 1..EntriesPerBlock |-> EmptyEntry]

(* A freshly made filesystem, mounted.                                     *)
Init ==
    /\ fat = [b \in Blocks |-> IF b = 1 THEN FAT_EOF ELSE FAT_FREE]
    /\ dir = EmptyBlock
    /\ file = [h \in Handles |-> FreedFile]
    /\ open_files = <<>>
    /\ fault = "none"

-----------------------------------------------------------------------------
(* The chain of blocks that starts at b.                                   *)
Walk(table, b) ==
    LET at[i \in 1..NEntries] ==
            IF i = 1 THEN b
            ELSE IF at[i - 1] \in Blocks THEN table[at[i - 1]] ELSE at[i - 1]
    IN  at
Chain(table, b) == {Walk(table, b)[i] : i \in 1..NEntries} \cap Blocks
EndsInEOF(table, b) == Walk(table, b)[NEntries] = FAT_EOF

Free(table) == {b \in Blocks : table[b] = FAT_FREE}

(* The n lowest free blocks, which is the order fs_link_next_free hands    *)
(* them out in.                                                            *)
LowestFree(table, n) ==
    {b \in Free(table) : Cardinality({c \in Free(table) : c < b}) < n}

(* fs_extendblk: the chain is made n blocks long, or as long as the disk   *)
(* allows; new blocks follow its last one in ascending order.              *)
CanExtend(table, base, n) ==
    n - Cardinality(Chain(table, base)) <= Cardinality(Free(table))

First(S) == CHOOSE e \in S : \A f \in S : e <= f

LinkAfter(table, last, new) ==
    [b \in Blocks |->
        LET later == {c \in new : b = last \/ c > b} IN
        CASE b \notin new \cup {last} -> table[b]
          [] b \in new \cup {last} /\ later # {} -> First(later)
          [] OTHER -> FAT_EOF]

Bug_extendsFromBase(table, base, n) ==
    LinkAfter(table, base, LowestFree(table, n - Cardinality(Chain(table, base))))
fs_extendblk(table, base, n) ==
    LET missing == n - Cardinality(Chain(table, base))
        last == CHOOSE b \in Chain(table, base) : table[b] = FAT_EOF
    IN  IF missing <= 0 THEN table ELSE LinkAfter(table, last, LowestFree(table, missing))

(* fs_freeblk: nothing for a file without blocks.                          *)
Bug_FreesFirstOnly(table, b) == [c \in Blocks |-> IF c = b THEN FAT_FREE ELSE table[c]]
fs_freeblk(table, b) ==
    [c \in Blocks |-> IF c \in Chain(table, b) THEN FAT_FREE ELSE table[c]]

(* Going n blocks along a chain that ends in a free block goes on into     *)
(* entry 0; freeing goes along all of it.                                  *)
RunsOff(table, b, n) ==
    b # 0 /\ ~EndsInEOF(table, b) /\ n > Cardinality(Chain(table, b))
FreeRunsOff(table, b) == RunsOff(table, b, NEntries)

-----------------------------------------------------------------------------
OpenIndices == 1..Len(open_files)
EntryOf(i) == file[open_files[i]].entry
ModeOf(i) == file[open_files[i]].mode
IsOpen(h) == \E i \in OpenIndices : open_files[i] = h
OpenEntries == {EntryOf(i) : i \in OpenIndices}

(* fs_find                                                                 *)
Found(name) == {e \in DOMAIN dir : dir[e].state = "live" /\ dir[e].name = name}

(* What fs_open checks before it hands out another handle to an entry.     *)
Bug_ReadersDoNotLock(e, mode) ==
    \E i \in OpenIndices : EntryOf(i) = e /\ ModeOf(i) # "F_READ"
Locked(e, mode) ==
    \E i \in OpenIndices :
        EntryOf(i) = e /\ (ModeOf(i) # "F_READ" \/ mode # "F_READ")

(* fs_open of a file that exists: F_WRITE truncates it.                    *)
OpenExisting(h, name, mode) ==
    /\ fault = "none" /\ ~IsOpen(h) /\ Found(name) # {}
    /\ LET e == First(Found(name))
           truncates == mode = "F_WRITE" /\ dir[e].writable
       IN  /\ ~Locked(e, mode)
           /\ file' = [file EXCEPT ![h] =
                  [entry |-> e, mode |-> mode,
                   offset |-> IF mode = "F_APPEND" THEN dir[e].size ELSE 0]]
           /\ IF truncates
              THEN /\ fat' = fs_freeblk(fat, dir[e].blockno)
                   /\ dir' = [dir EXCEPT ![e].blockno = 0, ![e].size = 0]
                   /\ fault' = IF FreeRunsOff(fat, dir[e].blockno)
                               THEN "corrupt" ELSE fault
              ELSE UNCHANGED <<fat, dir, fault>>
    /\ open_files' = Append(open_files, h)

(* fs_makefile: the first entry that was never used or has been deleted,   *)
(* or the first of a new directory block.                                  *)
Bug_ReusesUnlinked == {"end", "deleted", "unlinked"}
Reusable == {"end", "deleted"}
FreeEntries == {e \in DOMAIN dir : dir[e].state \in Reusable}
MakeFile(h, name, mode) ==
    /\ fault = "none" /\ ~IsOpen(h) /\ Found(name) = {}
    /\ mode # "F_READ" /\ name \in ValidNames
    /\ LET grows == FreeEntries = {}
           e == IF grows THEN Len(dir) + 1 ELSE First(FreeEntries)
           entries == IF grows THEN dir \o EmptyBlock ELSE dir
       IN  /\ grows => Free(fat) # {}
           /\ fat' = IF grows THEN fs_extendblk(fat, 1, Cardinality(Chain(fat, 1)) + 1)
                              ELSE fat
           /\ dir' = [entries EXCEPT ![e] = [EmptyEntry EXCEPT !.state = "live",
                                                                !.name = name]]
           /\ file' = [file EXCEPT ![h] = [entry |-> e, offset |-> 0, mode |-> mode]]
    /\ open_files' = Append(open_files, h)
    /\ UNCHANGED fault

-----------------------------------------------------------------------------
(* fs_trackclose takes the handle off the list by moving the last one to   *)
(* its place, and counts the handles that still refer to the entry.  When  *)
(* the handle is the last one itself, it is among those counted.           *)
Bug_TakesLast(i) == [j \in 1..Len(open_files) - 1 |-> open_files[j]]
Untrack(i) ==
    [j \in 1..Len(open_files) - 1 |->
        IF j = i THEN open_files[Len(open_files)] ELSE open_files[j]]
Bug_CountsFrom(i) == {j \in OpenIndices : EntryOf(j) = EntryOf(i) /\ j > i}
StillCounted(i) ==
    {j \in OpenIndices : EntryOf(j) = EntryOf(i) /\ (j # i \/ i = Len(open_files))}

(* fs_close: the last handle of an unlinked file deletes it.               *)
Close(h) ==
    /\ fault = "none" /\ IsOpen(h)
    /\ LET i == CHOOSE j \in OpenIndices : open_files[j] = h
           e == EntryOf(i)
           deletes == StillCounted(i) = {} /\ dir[e].state = "unlinked"
       IN  /\ open_files' = Untrack(i)
           /\ dir' = IF deletes THEN [dir EXCEPT ![e] = DeletedEntry] ELSE dir
           /\ fat' = IF deletes THEN fs_freeblk(fat, dir[e].blockno) ELSE fat
           /\ fault' = IF deletes /\ FreeRunsOff(fat, dir[e].blockno)
                       THEN "corrupt" ELSE fault
    /\ file' = [file EXCEPT ![h] = FreedFile]

-----------------------------------------------------------------------------
BlocksFor(bytes) == (bytes + BlockSize - 1) \div BlockSize

(* fs_write by an open handle of len bytes at offset at, to a chain that   *)
(* starts at base.  A hole between the end of the file and the offset is   *)
(* filled first; a write that meets the end of the disk returns -1, keeps  *)
(* the blocks it has linked, and -1 is added to the offset.                *)
Bug_OffsetIsSigned(at, len, fits) == IF fits THEN at + len ELSE at - 1
OffsetAfter(at, len, fits) == IF fits THEN (at + len) % UINT ELSE (at - 1) % UINT
WriteTo(h, at, base, table, len) ==
    LET e == file[h].entry
        size == IF at > dir[e].size THEN at ELSE dir[e].size
        n == BlocksFor(at + len)
        end == OffsetAfter(at, len, CanExtend(table, base, n))
    IN  /\ fat' = fs_extendblk(table, base, n)
        /\ dir' = [dir EXCEPT ![e].blockno = base,
                              ![e].size = IF end > size THEN end ELSE size]
        /\ file' = [file EXCEPT ![h].offset = end]

Write(h, len) ==
    /\ fault = "none" /\ IsOpen(h)
    /\ file[h].mode # "F_READ" /\ dir[file[h].entry].writable
    /\ LET entry == dir[file[h].entry]
           at == IF file[h].mode = "F_APPEND" THEN entry.size ELSE file[h].offset
           needsFirst == entry.blockno = 0
           base == IF needsFirst THEN First(Free(fat)) ELSE entry.blockno
           table == IF needsFirst THEN [fat EXCEPT ![base] = FAT_EOF] ELSE fat
           holeBeyondChain ==
               at > entry.size /\ at > BlockSize * Cardinality(Chain(table, base))
           runsOff == RunsOff(table, base, BlocksFor(at + len))
       IN  CASE needsFirst /\ Free(fat) = {} ->      \* PETOOFAT
                    /\ file' = [file EXCEPT ![h].offset = at]
                    /\ UNCHANGED <<fat, dir, fault>>
             [] ~(needsFirst /\ Free(fat) = {}) /\ (holeBeyondChain \/ runsOff) ->
                    /\ fault' = IF runsOff THEN "corrupt" ELSE "segv"
                    /\ UNCHANGED <<fat, dir, file>>
             [] OTHER -> WriteTo(h, at, base, table, len) /\ UNCHANGED fault
    /\ UNCHANGED open_files

(* fs_read: the bytes there are up to the end of the file.  Reading on     *)
(* from a block that has become free fails, and -1 is added to the offset; *)
(* reading from behind such a block reads the table itself.                *)
Read(h, len) ==
    /\ fault = "none" /\ IsOpen(h)
    /\ LET entry == dir[file[h].entry]
           at == file[h].offset
           inFile == entry.size - at
           inChain == BlockSize * Cardinality(Chain(fat, entry.blockno)) - at
           wanted == First({len, inFile})
           runsOff == RunsOff(fat, entry.blockno, BlocksFor(at + wanted))
       IN  /\ inFile > 0 /\ (inChain > 0 \/ runsOff)
           /\ IF inChain > 0
              THEN /\ file' = [file EXCEPT ![h].offset =
                                  OffsetAfter(at, First({wanted, inChain}), ~runsOff)]
                   /\ UNCHANGED fault
              ELSE fault' = "corrupt" /\ UNCHANGED file
    /\ UNCHANGED <<fat, dir, open_files>>

(* fs_lseek: nothing keeps the offset within the file.                     *)
Lseek(h, offset, whence) ==
    /\ fault = "none" /\ IsOpen(h)
    /\ LET from == CASE whence = "F_SEEK_SET" -> 0
                      [] whence = "F_SEEK_CUR" -> file[h].offset
                      [] whence = "F_SEEK_END" -> dir[file[h].entry].size
       IN  file' = [file EXCEPT ![h].offset = (from + offset) % UINT]
    /\ UNCHANGED <<fat, dir, open_files, fault>>

(* f_chmod: adding or removing the write permission.                       *)
Chmod(h) ==
    /\ fault = "none" /\ IsOpen(h)
    /\ dir' = [dir EXCEPT ![file[h].entry].writable = ~@]
    /\ UNCHANGED <<fat, file, open_files, fault>>

-----------------------------------------------------------------------------
(* fs_unlink of entry e: a file that is open is only marked.  Whether it   *)
(* is open is decided by name; the name of an unlinked entry matches none. *)
Bug_UnlinksNow(e) == FALSE
InUse(e) ==
    \E o \in OpenEntries : dir[o].state = "live" /\ dir[o].name = dir[e].name

UnlinkedEntries(e) ==
    [dir EXCEPT ![e] = IF InUse(e) THEN [@ EXCEPT !.state = "unlinked"] ELSE DeletedEntry]
UnlinkedFat(e) == IF InUse(e) THEN fat ELSE fs_freeblk(fat, dir[e].blockno)
UnlinkedFault(e) ==
    IF ~InUse(e) /\ FreeRunsOff(fat, dir[e].blockno) THEN "corrupt" ELSE fault

Unlink(name) ==
    /\ fault = "none" /\ Found(name) # {}
    /\ LET e == First(Found(name)) IN
           /\ dir' = UnlinkedEntries(e)
           /\ fat' = UnlinkedFat(e)
           /\ fault' = UnlinkedFault(e)
    /\ UNCHANGED <<file, open_files>>

(* fs_rename: a file that has the new name is unlinked, then the entry     *)
(* found at the start is given the name.                                   *)
Bug_KeepsTarget(name) == {}
Replaced(name) == Found(name)
Rename(old, new) ==
    /\ fault = "none" /\ Found(old) # {} /\ new \in ValidNames
    /\ LET e == First(Found(old))
           target == Replaced(new)
           entries == IF target = {} THEN dir ELSE UnlinkedEntries(First(target))
       IN  /\ dir' = [entries EXCEPT ![e] = [dir[e] EXCEPT !.name = new]]
           /\ fat' = IF target = {} THEN fat ELSE UnlinkedFat(First(target))
           /\ fault' = IF target = {} THEN fault ELSE UnlinkedFault(First(target))
    /\ UNCHANGED <<file, open_files>>

(* fs_unmount and fs_mount, or the end of the program and its next start:  *)
(* the table and the directory are a shared map of the host file, the list *)
(* of open files is memory.                                                *)
Remount ==
    /\ fault = "none"
    /\ open_files' = <<>>
    /\ file' = [h \in Handles |-> FreedFile]
    /\ UNCHANGED <<fat, dir, fault>>

-----------------------------------------------------------------------------
OpenFile(h) == \E name \in Names, mode \in Modes :
                   OpenExisting(h, name, mode) \/ MakeFile(h, name, mode)
UseFile(h) ==
    \/ \E len \in Lengths : Write(h, len) \/ Read(h, len)
    \/ \E seek \in Seeks : Lseek(h, seek[1], seek[2])
    \/ Chmod(h)

Next ==
    \/ \E h \in Handles : OpenFile(h) \/ UseFile(h) \/ Close(h)
    \/ \E name \in Names : Unlink(name)
    \/ \E pair \in Renames : Rename(pair[1], pair[2])
    \/ Remount

Spec == Init /\ [][Next]_vars
=============================================================================
