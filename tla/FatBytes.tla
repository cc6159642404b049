------------------------------ MODULE FatBytes ------------------------------
(***************************************************************************)
(* Module Fat with the bytes in the blocks: which bytes fs_write puts      *)
(* where, what fs_read gives back, and what the blocks of deleted files    *)
(* still hold.  No other call touches the bytes of a file.                 *)
(***************************************************************************)
EXTENDS FatProperties

CONSTANT Strings    \* what fs_write is given

ASSUME StringsAssumption == Lengths = {Len(str) : str \in Strings}

VARIABLES data,     \* block -> its bytes
          answer    \* what the last call returned: [ok, bytes]

bytesVars == <<fat, dir, file, open_files, fault, data, answer>>

Zero == 0
InBlock == 0..BlockSize - 1
Done == [ok |-> TRUE, bytes |-> <<>>]
Failed == [ok |-> FALSE, bytes |-> <<>>]

(* mkfs makes the host file with ftruncate.                                *)
BytesInit == /\ Init
             /\ data = [block \in Blocks |-> [i \in InBlock |-> Zero]]
             /\ answer = Done

(* The block that offset lies in, going along from base: FAT_EOF if the    *)
(* chain is too short.                                                     *)
BlockAt(table, base, offset) ==
    LET n == offset \div BlockSize + 1
    IN  IF n \in 1..NEntries THEN Walk(table, base)[n] ELSE FAT_EOF

(* memcpy to a place in a block.                                           *)
Copied(bytes, block, at, str) ==
    [bytes EXCEPT ![block] = [i \in InBlock |->
        IF i \in at..at + Len(str) - 1 THEN str[i - at + 1] ELSE @[i]]]

(* fs_write_blk: what fits into the block of the offset, and the rest      *)
(* from the start of the next.                                             *)
RECURSIVE fs_write_blk(_, _, _, _, _)
fs_write_blk(bytes, table, base, offset, str) ==
    LET block == BlockAt(table, base, offset)
        at == offset % BlockSize
        fits == BlockSize - at
    IN  IF block \notin Blocks THEN bytes
        ELSE IF Len(str) <= fits THEN Copied(bytes, block, at, str)
        ELSE fs_write_blk(Copied(bytes, block, at, SubSeq(str, 1, fits)), table,
                          table[block], 0, SubSeq(str, fits + 1, Len(str)))

(* fs_read_blk: likewise, as far as the chain goes.                        *)
RECURSIVE fs_read_blk(_, _, _)
fs_read_blk(base, offset, len) ==
    LET block == BlockAt(fat, base, offset)
        at == offset % BlockSize
        here == First({len, BlockSize - at})
    IN  IF block \notin Blocks THEN <<>>
        ELSE [i \in 1..here |-> data[block][at + i - 1]]
             \o (IF here = len THEN <<>>
                 ELSE fs_read_blk(fat[block], 0, len - here))

(* The hole between the end of a file and the offset of a write.           *)
Bug_LeavesHole(base, from, to) == data
Zeroed(base, from, to) ==
    [block \in Blocks |-> [i \in InBlock |->
        IF \E offset \in from..to - 1 :
               BlockAt(fat, base, offset) = block /\ offset % BlockSize = i
        THEN Zero ELSE data[block][i]]]

-----------------------------------------------------------------------------
(* fs_write.  It fails where the offset does not come out behind what was  *)
(* to be written.                                                          *)
WriteBytes(h, str) ==
    /\ Write(h, Len(str))
    /\ LET e == file[h].entry
           at == IF file[h].mode = "F_APPEND" THEN dir[e].size ELSE file[h].offset
           base == dir'[e].blockno
           extended == fault' = "none" /\ base # 0
       IN  /\ data' = IF extended
                      THEN fs_write_blk(Zeroed(base, dir[e].size, at), fat', base, at, str)
                      ELSE data
           /\ answer' = IF extended /\ BlockAt(fat', base, at + Len(str) - 1) \in Blocks
                        THEN Done ELSE Failed

(* fs_read                                                                 *)
ReadBytes(h, len) ==
    /\ Read(h, len)
    /\ LET entry == dir[file[h].entry]
           wanted == First({len, entry.size - file[h].offset})
           complete == ~RunsOff(fat, entry.blockno, BlocksFor(file[h].offset + wanted))
       IN  answer' = IF fault' = "none" /\ complete
                     THEN [ok |-> TRUE,
                           bytes |-> fs_read_blk(entry.blockno, file[h].offset, wanted)]
                     ELSE Failed
    /\ UNCHANGED data

OtherUse(h) == (\E seek \in Seeks : Lseek(h, seek[1], seek[2])) \/ Chmod(h)
NoBytes ==
    /\ \/ \E h \in Handles : OpenFile(h) \/ OtherUse(h) \/ Close(h)
       \/ \E name \in Names : Unlink(name)
       \/ \E pair \in Renames : Rename(pair[1], pair[2])
       \/ Remount
    /\ answer' = Done
    /\ UNCHANGED data

BytesNext ==
    \/ \E h \in Handles :
           \/ \E str \in Strings : WriteBytes(h, str)
           \/ \E len \in Lengths : ReadBytes(h, len)
    \/ NoBytes

BytesSpec == BytesInit /\ [][BytesNext]_bytesVars

-----------------------------------------------------------------------------
(* A file is an entry a name or a handle refers to; its contents are the   *)
(* bytes along its chain up to its size, or to the end of the chain when   *)
(* a failed write has made the size more than there is.                    *)
Files == 1..NEntries * EntriesPerBlock
IsFile(e) == e \in DOMAIN dir /\ (dir[e].state = "live" \/ e \in OpenEntries)
ContentsOf(e) ==
    LET walk == Walk(fat, dir[e].blockno)
        blocks == Cardinality({i \in DOMAIN walk : walk[i] \in Blocks})
    IN  [i \in 1..First({dir[e].size, BlockSize * blocks}) |->
            data[walk[(i - 1) \div BlockSize + 1]][(i - 1) % BlockSize]]

AbstractBytes == INSTANCE ByteFiles WITH
    named <- [n \in Names |-> NamedEntry(n)],
    held <- [h \in Handles |-> HeldEntry(h)],
    contents <- [e \in Files |-> IF IsFile(e) THEN ContentsOf(e) ELSE <<>>],
    position <- [h \in Handles |-> file[h].offset],
    readonly <- {e \in Files : IsFile(e) /\ ~dir[e].writable}

(* A file holds what was written to it: a read gives, at each place, the   *)
(* byte of the last write there, or zero if there was none, whatever other *)
(* files have been written, truncated, renamed, replaced or deleted since  *)
(* and whichever blocks they had.  A call that returns -1 has written some *)
(* first part of its bytes and no other file's.                            *)
ImplementsByteFiles == AbstractBytes!BytesSpec
=============================================================================
