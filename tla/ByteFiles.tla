------------------------------ MODULE ByteFiles ------------------------------
(***************************************************************************)
(* What the filesystem promises about the contents of files: those of      *)
(* FileLocks are sequences of bytes, a handle has a position in one.       *)
(* Reading gives what was written last at each place, zero where nothing   *)
(* was; nothing else that happens changes a file.  A call that fails says  *)
(* so, and has written some first part of what it was given.               *)
(***************************************************************************)
EXTENDS FileLocks, Integers, Sequences

CONSTANTS Strings,    \* what is written
          Lengths,    \* how much is read
          Seeks,      \* <<offset, whence>>
          UINT        \* positions are below

VARIABLES contents,   \* file -> its bytes
          position,   \* handle -> where it reads and writes
          readonly,   \* the files nobody may write
          answer      \* what the last call returned

allVars == <<named, held, contents, position, readonly, answer>>

Zero == 0
Offsets == 0..UINT - 1
Done == [ok |-> TRUE, bytes |-> <<>>]
Failed == [ok |-> FALSE, bytes |-> <<>>]
Smaller(m, n) == IF m <= n THEN m ELSE n
Larger(m, n) == IF m >= n THEN m ELSE n

BytesInit == /\ Init
             /\ contents = [f \in Files |-> <<>>]
             /\ position = [h \in Handles |-> 0]
             /\ readonly = {}
             /\ answer = Done

Overwrite(old, at, str) ==
    [i \in 1..Larger(Len(old), at + Len(str)) |->
        IF i \in at + 1..at + Len(str) THEN str[i - at]
        ELSE IF i \in DOMAIN old THEN old[i] ELSE Zero]

(* A file that no name and no handle refers to is gone.                    *)
Become(c, locked) ==
    LET files == Used' IN
    /\ readonly' = locked \cap files
    /\ contents' = [f \in Files |-> IF f \in files THEN c[f] ELSE <<>>]
Same == Become(contents, readonly)
Put(h, at) == position' = [position EXCEPT ![h] = at]
Return(a) == answer' = a

FileOf(h) == held[h].file
Bytes(h) == contents[FileOf(h)]

OpenBytes(h, n, mode) ==
    /\ OpenFile(h, n, mode)
    /\ Put(h, IF mode = "F_APPEND" THEN Len(contents[named[n]]) ELSE 0)
    /\ IF mode = "F_WRITE" /\ named[n] \notin readonly
       THEN Become([contents EXCEPT ![named[n]] = <<>>], readonly) ELSE Same
    /\ Return(Done)

CreateBytes(h, n, mode) == Create(h, n, mode) /\ Same /\ Put(h, 0) /\ Return(Done)
CloseBytes(h) == Close(h) /\ Same /\ Put(h, 0) /\ Return(Done)
NamesChange == /\ \/ \E n \in Names : Unlink(n)
                  \/ \E old, new \in Names : Rename(old, new)
               /\ Same /\ Return(Done) /\ UNCHANGED position
RestartBytes == /\ Restart /\ Same /\ Return(Done)
                /\ position' = [h \in Handles |-> 0]

(* An appending handle writes at the end, wherever its position is.        *)
WriteAt(h) == IF held[h].mode = "F_APPEND" THEN Len(Bytes(h)) ELSE position[h]
Leave(h, new) == Become([contents EXCEPT ![FileOf(h)] = new], readonly)
Write(h, str) ==
    /\ h \in Open /\ held[h].mode # "F_READ" /\ FileOf(h) \notin readonly
    /\ UNCHANGED <<named, held>>
    /\ \/ /\ Return(Done)
          /\ Put(h, WriteAt(h) + Len(str))
          /\ Leave(h, Overwrite(Bytes(h), WriteAt(h), str))
       \/ /\ Return(Failed)
          /\ \E at \in Offsets : Put(h, at)
          /\ \/ Same
             \/ \E n \in 0..Len(str) :
                    Leave(h, Overwrite(Bytes(h), WriteAt(h), SubSeq(str, 1, n)))

Read(h, len) ==
    /\ h \in Open /\ position[h] < Len(Bytes(h)) /\ UNCHANGED <<named, held>>
    /\ LET end == Smaller(position[h] + len, Len(Bytes(h))) IN
           /\ Return([ok |-> TRUE, bytes |-> SubSeq(Bytes(h), position[h] + 1, end)])
           /\ Put(h, end)
    /\ Same

(* What a position before the start of the file is, is left open.          *)
Seek(h, offset, whence) ==
    /\ h \in Open /\ UNCHANGED <<named, held>>
    /\ LET target == offset + CASE whence = "F_SEEK_SET" -> 0
                                [] whence = "F_SEEK_CUR" -> position[h]
                                [] whence = "F_SEEK_END" -> Len(Bytes(h))
       IN  \E at \in Offsets : Put(h, at) /\ (target \in Offsets => at = target)
    /\ Same /\ Return(Done)

Protect(h) ==
    /\ h \in Open
    /\ readonly' = IF FileOf(h) \in readonly THEN readonly \ {FileOf(h)}
                   ELSE readonly \cup {FileOf(h)}
    /\ Return(Done) /\ UNCHANGED <<named, held, contents, position>>

BytesNext ==
    \/ \E h \in Handles, n \in Names, mode \in Modes :
           OpenBytes(h, n, mode) \/ CreateBytes(h, n, mode)
    \/ \E h \in Handles :
           \/ CloseBytes(h) \/ Protect(h)
           \/ \E str \in Strings : Write(h, str)
           \/ \E len \in Lengths : Read(h, len)
           \/ \E seek \in Seeks : Seek(h, seek[1], seek[2])
    \/ NamesChange \/ RestartBytes

BytesSpec == BytesInit /\ [][BytesNext]_allVars
=============================================================================
