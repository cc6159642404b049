---------------------------- MODULE FatProperties ----------------------------
(***************************************************************************)
(* What the filesystem promises: the properties of module Fat.             *)
(***************************************************************************)
EXTENDS Fat

(* The types of the variables.                                             *)
TypeOK ==
    /\ fat \in [Blocks -> Blocks \cup {FAT_FREE, FAT_EOF}]
    /\ dir \in Seq(Entry)
    /\ file \in [Handles -> File]
    /\ open_files \in Seq(Handles)
    /\ fault \in {"none", "segv", "corrupt"}

(* The filesystem "grants exclusive access to any process that opens a     *)
(* file in a writing mode, and shared access to processes opening a file   *)
(* in read mode": whatever was created, renamed, unlinked and reused in    *)
(* between, two handles on one directory entry are both readers.           *)
LocksExclusive ==
    \A i, j \in OpenIndices :
        i # j /\ EntryOf(i) = EntryOf(j) =>
            ModeOf(i) = "F_READ" /\ ModeOf(j) = "F_READ"

(* An open handle refers to an entry that is in use, so that fs_makefile   *)
(* cannot give the entry to another file behind the handle's back, and the *)
(* list of open files names no handle twice.                               *)
HandlesAlive ==
    /\ \A i \in OpenIndices :
          /\ EntryOf(i) \in DOMAIN dir
          /\ dir[EntryOf(i)].state \in {"live", "unlinked"}
    /\ \A i, j \in OpenIndices : open_files[i] = open_files[j] => i = j

Holding == {e \in DOMAIN dir : dir[e].state \in {"live", "unlinked"}
                               /\ dir[e].blockno # 0}
Heads == {dir[e].blockno : e \in Holding} \cup {1}

(* The chains of the root directory and of every file end in FAT_EOF, and  *)
(* no two of them share a block: no file can overwrite another.  The chain *)
(* of the directory has the blocks its entries are in.                     *)
ChainsIntact ==
    /\ Len(dir) = EntriesPerBlock * Cardinality(Chain(fat, 1))
    /\ \A b \in Heads : EndsInEOF(fat, b)
    /\ \A e \in Holding :
          /\ Chain(fat, dir[e].blockno) \cap Chain(fat, 1) = {}
          /\ \A f \in Holding \ {e} :
                Chain(fat, dir[e].blockno) \cap Chain(fat, dir[f].blockno) = {}

(* Every block in use belongs to a file or to the root directory: what is  *)
(* truncated, replaced or deleted comes back to the free blocks.           *)
NoLostBlocks == Blocks \ Free(fat) = UNION {Chain(fat, b) : b \in Heads}

(* A name names one file, through creations, renamings over existing files *)
(* and the reuse of entries.                                               *)
NamesUnique ==
    \A e, f \in DOMAIN dir :
        dir[e].state = "live" /\ dir[f].state = "live" /\ dir[e].name = dir[f].name
            => e = f

(* A reader's file stands still: while a handle that was opened for        *)
(* reading stays open, the size and the first block of its file do not     *)
(* change, not even when the file is unlinked, renamed or replaced.        *)
ReadersKeepEntry ==
    [][\A h \in Handles :
          LET e == file[h].entry IN
          IsOpen(h) /\ IsOpen(h)' /\ file[h].mode = "F_READ" =>
              /\ file'[h].entry = e
              /\ dir'[e].size = dir[e].size
              /\ dir'[e].blockno = dir[e].blockno]_vars

(* ... nor do the links of its blocks: no other file, old or new, takes    *)
(* them over.                                                              *)
ReadersKeepBlocks ==
    [][\A h \in Handles :
          IsOpen(h) /\ IsOpen(h)' /\ file[h].mode = "F_READ" =>
              \A b \in Chain(fat, dir[file[h].entry].blockno) : fat'[b] = fat[b]]_vars

-----------------------------------------------------------------------------
(* The promise without its implementation.  A file is its directory entry: *)
(* a name refers to the live entry that has it, a handle on the list to    *)
(* the entry it was opened for.                                            *)
NoFile == 0
NamedEntry(name) ==
    LET entries == Found(name) IN IF entries = {} THEN NoFile ELSE First(entries)
HeldEntry(h) == IF IsOpen(h) THEN [file |-> file[h].entry, mode |-> file[h].mode]
                ELSE [file |-> NoFile, mode |-> "F_READ"]
NamedFiles == [n \in Names |-> NamedEntry(n)]
HeldFiles == [h \in Handles |-> HeldEntry(h)]
Abstract == INSTANCE FileLocks WITH
                Files <- Nat \ {0},
                named <- NamedFiles,
                held <- HeldFiles

(* The table, the directory and the list of open files implement names,    *)
(* files and locks: whichever calls are made in whichever order, a caller  *)
(* sees what FileLocks allows.  An unlinked file that is open keeps its    *)
(* identity until it is closed, and a new file never gets it before.       *)
ImplementsFileLocks == Abstract!Spec

-----------------------------------------------------------------------------
(* What the comments of the code say of it, and some sequence of calls     *)
(* contradicts.                                                            *)

(* "If this was the last open instance of a deleted file, delete it now":  *)
(* an entry that is only marked as unlinked is open.                       *)
UnlinkedIsOpen ==
    \A e \in DOMAIN dir : dir[e].state = "unlinked" => e \in OpenEntries

(* The first block "will be unique for each file".                         *)
BlockNoUnique ==
    \A e, f \in Holding : dir[e].blockno = dir[f].blockno => e = f

(* fs_write returns "the number of bytes written; -1 on error": what was   *)
(* not written is not added to the size, so a file has blocks for its size.*)
SizeHasBlocks ==
    \A e \in DOMAIN dir : dir[e].state \in {"live", "unlinked"} =>
        dir[e].size <= BlockSize * Cardinality(Chain(fat, dir[e].blockno))

(* A write behind the end of the file will "fill in hole with null bytes,  *)
(* one block at a time".                                                   *)
HolesAreFilled == fault # "segv"
=============================================================================
