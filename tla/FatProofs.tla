------------------------------ MODULE FatProofs ------------------------------
(***************************************************************************)
(* Theorems about module Fat, for every size of disk and any number of     *)
(* names and handles.                                                      *)
(***************************************************************************)
EXTENDS FatProperties, FiniteSetTheorems, SequenceTheorems, TLAPS

-----------------------------------------------------------------------------
(* A nonempty set of numbers has a first element.  The argument counts its *)
(* lower bounds: there are as many as the first element plus one.          *)
LEMMA FirstElement ==
    ASSUME NEW S \in SUBSET Nat, S # {}
    PROVE  First(S) \in S /\ \A f \in S : First(S) <= f
<1>1. PICK n \in S : TRUE
  OBVIOUS
<1> DEFINE Below == {k \in 0..n : \A f \in S : k <= f}
           c == Cardinality(Below)
<1>2. IsFiniteSet(0..n) /\ Below \in SUBSET (0..n)
  BY FS_Interval
<1>3. IsFiniteSet(Below) /\ c \in Nat
  BY <1>2, FS_Subset, FS_CardinalityType
<1> HIDE DEF c
<1>4. ASSUME NEW k \in Below PROVE k + 1 <= c
  <2>1. 0..k \in SUBSET Below
    OBVIOUS
  <2>2. Cardinality(0..k) = k + 1
    BY FS_Interval
  <2> QED
    BY <1>3, <2>1, <2>2, FS_Subset DEF c
<1>5. Below = 0..c - 1
  <2>1. Below \in SUBSET (0..c - 1)
    <3>1. \A k \in Below : k \in Nat /\ k <= c - 1
      BY <1>3, <1>4
    <3> QED
      BY <1>3, <3>1
  <2>2. IsFiniteSet(0..c - 1) /\ Cardinality(0..c - 1) = c
    BY <1>3, FS_Interval
  <2> QED
    BY <2>1, <2>2, FS_Subset DEF c
<1>6. 0 \in Below
  OBVIOUS
<1>7. c - 1 \in Below /\ c \notin Below
  <2> HIDE DEF Below
  <2>1. 0 \in 0..c - 1
    BY <1>5, <1>6
  <2>2. c - 1 \in 0..c - 1 /\ c \notin 0..c - 1
    BY <1>3, <2>1
  <2> QED
    BY <1>5, <2>2
<1>8. \E f \in S : \A g \in S : f <= g
  BY <1>3, <1>7
<1> QED
  BY <1>8 DEF First

(* There are finitely many blocks, and a block is a number.                *)
LEMMA BlocksFinite == Blocks \in SUBSET Nat /\ IsFiniteSet(Blocks)
BY FatAssumption, FS_Interval DEF Blocks

(* What the C arithmetic leaves of a number is a uint32_t.                 *)
LEMMA Remainder ==
    ASSUME NEW n \in Int
    PROVE  n % UINT \in Offsets
BY FatAssumption DEF Offsets

(* A uint32_t can be zero.                                                 *)
LEMMA UintPositive == UINT \in Nat \ {0} /\ 0 \in Offsets
<1>1. BlockSize * NEntries \in Nat
  BY FatAssumption
<1> QED
  BY <1>1, FatAssumption DEF Offsets

(* The offset fs_read and fs_write leave behind is a uint32_t, also when   *)
(* they fail.                                                              *)
LEMMA OffsetAfterType ==
    ASSUME NEW at \in Offsets, NEW len \in Nat, NEW fits \in BOOLEAN
    PROVE  OffsetAfter(at, len, fits) \in Offsets
BY FatAssumption, Remainder DEF OffsetAfter, Offsets

-----------------------------------------------------------------------------
(* What the operators on the table return is a table.                      *)
Tables == [Blocks -> Blocks \cup {FAT_FREE, FAT_EOF}]

(* fs_freeblk leaves a table, whatever block it starts at.                 *)
LEMMA FreedTable ==
    ASSUME NEW table \in Tables, NEW b
    PROVE  fs_freeblk(table, b) \in Tables
BY DEF Tables, fs_freeblk

(* fs_extendblk leaves a table, also when the disk is full.                *)
LEMMA ExtendedTable ==
    ASSUME NEW table \in Tables, NEW base, NEW n
    PROVE  fs_extendblk(table, base, n) \in Tables
<1>1. ASSUME NEW last, NEW new \in SUBSET Blocks
      PROVE  LinkAfter(table, last, new) \in Tables
  <2> DEFINE later(b) == {c \in new : b = last \/ c > b}
  <2>1. \A b \in Blocks : later(b) # {} => First(later(b)) \in Blocks
    BY BlocksFinite, FirstElement
  <2> QED
    BY <2>1 DEF LinkAfter, Tables
<1>2. \A m : LowestFree(table, m) \in SUBSET Blocks
  BY DEF LowestFree, Free
<1> QED
  BY <1>1, <1>2 DEF fs_extendblk

(* Entries of the directory, and what replaces them.                       *)
LEMMA EntryTypes == EmptyEntry \in Entry /\ DeletedEntry \in Entry
                    /\ DeletedEntry.state = "deleted"
<1>1. EmptyEntry.name \in Names
  BY FatAssumption DEF EmptyEntry
<1>2. 0 \in Offsets /\ 0 \in 0..NEntries - 1
  BY UintPositive, FatAssumption
<1>3. EmptyEntry \in Entry
  BY <1>1, <1>2 DEF EmptyEntry, Entry, EntryStates
<1> QED
  BY <1>3 DEF DeletedEntry, Entry, EntryStates

(* What fs_find finds is a live entry of the directory that has the name.  *)
LEMMA FoundEntry ==
    ASSUME TypeOK, NEW name, Found(name) # {}
    PROVE  /\ First(Found(name)) \in 1..Len(dir)
           /\ dir[First(Found(name))] \in Entry
           /\ dir[First(Found(name))].state = "live"
           /\ dir[First(Found(name))].name = name
<1>1. Found(name) \in SUBSET Nat /\ DOMAIN dir = 1..Len(dir)
  BY DEF TypeOK, Found
<1>2. First(Found(name)) \in Found(name)
  BY <1>1, FirstElement
<1> QED
  BY <1>1, <1>2 DEF Found, TypeOK

-----------------------------------------------------------------------------
(* The inductive invariant.  The locks need that an open handle's entry is *)
(* not given to another file, and that no handle is listed twice, so that  *)
(* closing one handle takes exactly that one off the list; the types of    *)
(* sizes and offsets need that an open handle's entry exists.              *)
Inv == TypeOK /\ HandlesAlive /\ LocksExclusive /\ NamesUnique

(* The invariant holds of a freshly made filesystem.                       *)
LEMMA InitInv == Init => Inv
<1> SUFFICES ASSUME Init PROVE Inv
  OBVIOUS
<1>1. fat \in Tables
  BY FatAssumption DEF Init, Tables, Blocks
<1>2. dir \in Seq(Entry)
  BY EntryTypes, FatAssumption DEF Init, EmptyBlock
<1>3. file \in [Handles -> File]
  BY FatAssumption DEF Init, FreedFile, File, Offsets, Modes
<1>4. TypeOK
  BY <1>1, <1>2, <1>3 DEF TypeOK, Tables, Init
<1>5. HandlesAlive /\ LocksExclusive
  BY DEF Init, HandlesAlive, LocksExclusive, OpenIndices
<1>6. NamesUnique
  <2>1. \A e \in DOMAIN dir : dir[e].state = "end"
    BY DEF Init, EmptyBlock, EmptyEntry
  <2> QED
    BY <2>1 DEF NamesUnique
<1> QED
  BY <1>4, <1>5, <1>6 DEF Inv

-----------------------------------------------------------------------------
(* Calls through an open handle change neither the list of open files nor  *)
(* what an entry says of its state and its name.                           *)
LEMMA SameHandles ==
    ASSUME Inv, TypeOK', open_files' = open_files,
           \A h \in Handles : /\ file'[h].entry = file[h].entry
                              /\ file'[h].mode = file[h].mode,
           DOMAIN dir' = DOMAIN dir,
           \A e \in DOMAIN dir : /\ dir'[e].state = dir[e].state
                                 /\ dir'[e].name = dir[e].name
    PROVE  Inv'
<1> USE DEF Inv
<1>1. \A i \in OpenIndices : open_files[i] \in Handles
  BY DEF TypeOK, OpenIndices
<1>2. OpenIndices' = OpenIndices
  BY DEF OpenIndices
<1>3. \A i \in OpenIndices : EntryOf(i)' = EntryOf(i) /\ ModeOf(i)' = ModeOf(i)
  BY <1>1 DEF EntryOf, ModeOf
<1>4. HandlesAlive'
  BY <1>2, <1>3 DEF HandlesAlive
<1>5. LocksExclusive'
  BY <1>2, <1>3 DEF LocksExclusive
<1>6. NamesUnique'
  BY DEF NamesUnique
<1> QED
  BY <1>4, <1>5, <1>6

(* The handle of a call is one of a file that exists.                      *)
LEMMA OpenHandle ==
    ASSUME Inv, NEW h \in Handles, IsOpen(h)
    PROVE  /\ file[h] \in File
           /\ file[h].entry \in 1..Len(dir)
           /\ dir[file[h].entry] \in Entry
           /\ DOMAIN dir = 1..Len(dir)
BY DEF Inv, TypeOK, HandlesAlive, IsOpen, OpenIndices, EntryOf

(* fs_lseek moves the offset, modulo 2^32.                                 *)
LEMMA LseekStep ==
    ASSUME Inv, NEW h \in Handles, NEW offset \in Int, NEW whence \in Whences,
           Lseek(h, offset, whence)
    PROVE  Inv'
<1> DEFINE from == CASE whence = "F_SEEK_SET" -> 0
                     [] whence = "F_SEEK_CUR" -> file[h].offset
                     [] whence = "F_SEEK_END" -> dir[file[h].entry].size
<1>1. file[h] \in File /\ dir[file[h].entry] \in Entry
  BY OpenHandle DEF Lseek
<1>2. from \in Int
  BY <1>1 DEF File, Entry, Offsets, Whences
<1>3. (from + offset) % UINT \in Offsets
  <2> HIDE DEF from
  <2> QED
    BY <1>2, Remainder
<1>4. file' = [file EXCEPT ![h].offset = (from + offset) % UINT]
  BY DEF Lseek
<1> HIDE DEF from
<1>5. file' \in [Handles -> File]
  BY <1>1, <1>3, <1>4 DEF Inv, TypeOK, File
<1>6. TypeOK'
  BY <1>5 DEF Inv, TypeOK, Lseek
<1>7. \A g \in Handles : file'[g].entry = file[g].entry /\ file'[g].mode = file[g].mode
  BY <1>4 DEF Inv, TypeOK, File
<1> QED
  BY <1>6, <1>7, SameHandles DEF Lseek

(* f_chmod changes the permissions of an entry that exists.                *)
LEMMA ChmodStep ==
    ASSUME Inv, NEW h \in Handles, Chmod(h)
    PROVE  Inv'
<1> DEFINE e == file[h].entry
<1>1. e \in 1..Len(dir) /\ dir[e] \in Entry /\ DOMAIN dir = 1..Len(dir)
  BY OpenHandle DEF Chmod
<1>2. dir' = [dir EXCEPT ![e] = [dir[e] EXCEPT !.writable = ~dir[e].writable]]
  BY DEF Chmod
<1>3. [dir[e] EXCEPT !.writable = ~dir[e].writable] \in Entry
  BY <1>1 DEF Entry
<1>4. dir' \in Seq(Entry) /\ DOMAIN dir' = DOMAIN dir
  BY <1>1, <1>2, <1>3, ExceptSeq DEF Inv, TypeOK
<1>5. TypeOK'
  BY <1>4 DEF Inv, TypeOK, Chmod
<1>6. \A f \in DOMAIN dir : dir'[f].state = dir[f].state /\ dir'[f].name = dir[f].name
  BY <1>1, <1>2 DEF Entry
<1> QED
  BY <1>4, <1>5, <1>6, SameHandles DEF Chmod

(* fs_read moves the offset of its own handle and nothing else.            *)
LEMMA ReadStep ==
    ASSUME Inv, NEW h \in Handles, NEW len \in Nat, Read(h, len)
    PROVE  Inv'
<1> DEFINE entry == dir[file[h].entry]
           at == file[h].offset
           inFile == entry.size - at
           inChain == BlockSize * Cardinality(Chain(fat, entry.blockno)) - at
           wanted == First({len, inFile})
           bytes == First({wanted, inChain})
           runsOff == RunsOff(fat, entry.blockno, BlocksFor(at + wanted))
           after == OffsetAfter(at, bytes, ~runsOff)
<1>1. file[h] \in File /\ entry \in Entry
  BY OpenHandle DEF Read
<1>2. at \in Offsets /\ at \in Nat /\ entry.size \in Nat
  BY <1>1 DEF File, Entry, Offsets
<1>3. \/ file' = file /\ fault' = "corrupt"
      \/ inChain > 0 /\ file' = [file EXCEPT ![h].offset = after] /\ fault' = fault
  BY DEF Read
<1>4. inChain > 0 => after \in Offsets
  <2>1. IsFiniteSet(Chain(fat, entry.blockno))
    BY BlocksFinite, FS_Subset DEF Chain
  <2>2. Cardinality(Chain(fat, entry.blockno)) \in Nat
    BY <2>1, FS_CardinalityType
  <2>3. BlockSize * Cardinality(Chain(fat, entry.blockno)) \in Nat
    BY <2>2, FatAssumption
  <2>4. inChain > 0 => inChain \in Nat
    BY <1>2, <2>3
  <2>5. inFile > 0 /\ inFile \in Nat /\ len \in Nat
    BY <1>2, FatAssumption DEF Read
  <2>6. runsOff \in BOOLEAN
    BY DEF RunsOff
  <2> HIDE DEF inFile, inChain
  <2>7. wanted \in Nat
    BY <2>5, FirstElement
  <2> HIDE DEF wanted
  <2>8. inChain > 0 => bytes \in Nat
    BY <2>4, <2>7, FirstElement
  <2> HIDE DEF bytes, at, runsOff
  <2> QED
    BY <1>2, <2>6, <2>8, OffsetAfterType
<1> HIDE DEF after, inChain, entry, at
<1>8. file \in [Handles -> File]
  BY DEF Inv, TypeOK
<1>5. file' \in [Handles -> File]
  BY <1>1, <1>3, <1>4, <1>8 DEF File
<1>6. TypeOK'
  BY <1>3, <1>5 DEF Inv, TypeOK, Read
<1>7. \A g \in Handles : file'[g].entry = file[g].entry /\ file'[g].mode = file[g].mode
  BY <1>3, <1>8 DEF File
<1> QED
  BY <1>6, <1>7, SameHandles DEF Read

(* The part of fs_write that extends the chain: the entry keeps its state  *)
(* and name, and gets a size and a first block.                            *)
LEMMA WriteToStep ==
    ASSUME Inv, NEW h \in Handles, IsOpen(h), NEW at \in Offsets,
           NEW base \in 0..NEntries - 1, NEW table \in Tables, NEW len \in Nat,
           WriteTo(h, at, base, table, len),
           open_files' = open_files, fault' = fault
    PROVE  Inv'
<1> DEFINE e == file[h].entry
           n == BlocksFor(at + len)
           end == OffsetAfter(at, len, CanExtend(table, base, n))
           size == IF at > dir[e].size THEN at ELSE dir[e].size
           newSize == IF end > size THEN end ELSE size
           new == [dir[e] EXCEPT !.blockno = base, !.size = newSize]
<1>1. /\ file[h] \in File /\ e \in 1..Len(dir)
      /\ dir[e] \in Entry /\ DOMAIN dir = 1..Len(dir)
  BY OpenHandle
<1>2. end \in Offsets
  <2>1. CanExtend(table, base, n) \in BOOLEAN
    BY DEF CanExtend
  <2> QED
    BY <2>1, OffsetAfterType
<1>3. dir' = [dir EXCEPT ![e] = new] /\ file' = [file EXCEPT ![h].offset = end]
  BY <1>1 DEF WriteTo, Inv, TypeOK, Entry
<1> HIDE DEF end
<1>4. newSize \in Offsets
  BY <1>1, <1>2 DEF Entry, Offsets
<1> HIDE DEF newSize
<1>5. new \in Entry /\ new.state = dir[e].state /\ new.name = dir[e].name
  BY <1>1, <1>4 DEF Entry
<1>6. fat' \in Tables
  BY ExtendedTable DEF WriteTo
<1>7. dir' \in Seq(Entry) /\ DOMAIN dir' = DOMAIN dir
  BY <1>1, <1>3, <1>5, ExceptSeq DEF Inv, TypeOK
<1>8. file' \in [Handles -> File]
  BY <1>1, <1>2, <1>3 DEF Inv, TypeOK, File
<1>9. TypeOK'
  BY <1>6, <1>7, <1>8 DEF Inv, TypeOK, Tables
<1>10. \A g \in Handles : file'[g].entry = file[g].entry /\ file'[g].mode = file[g].mode
  BY <1>3 DEF Inv, TypeOK, File
<1>11. \A f \in DOMAIN dir : dir'[f].state = dir[f].state /\ dir'[f].name = dir[f].name
  BY <1>1, <1>3, <1>5
<1> QED
  BY <1>7, <1>9, <1>10, <1>11, SameHandles

(* fs_write in its three outcomes: no first block, a fault, or a write.    *)
LEMMA WriteStep ==
    ASSUME Inv, NEW h \in Handles, NEW len \in Nat, Write(h, len)
    PROVE  Inv'
<1> DEFINE entry == dir[file[h].entry]
           at == IF file[h].mode = "F_APPEND" THEN entry.size ELSE file[h].offset
           needsFirst == entry.blockno = 0
           base == IF needsFirst THEN First(Free(fat)) ELSE entry.blockno
           table == IF needsFirst THEN [fat EXCEPT ![base] = FAT_EOF] ELSE fat
           full == needsFirst /\ Free(fat) = {}
           holeBeyondChain ==
               at > entry.size /\ at > BlockSize * Cardinality(Chain(table, base))
           runsOff == RunsOff(table, base, BlocksFor(at + len))
<1>1. file[h] \in File /\ entry \in Entry /\ IsOpen(h)
  BY OpenHandle DEF Write
<1>2. at \in Offsets /\ len \in Nat
  BY <1>1, FatAssumption DEF File, Entry
<1>3. CASE full
  <2>1. file' = [file EXCEPT ![h].offset = at] /\ UNCHANGED <<fat, dir, fault, open_files>>
    BY <1>3 DEF Write
  <2>2. file' \in [Handles -> File]
    BY <1>1, <1>2, <2>1 DEF Inv, TypeOK, File
  <2>3. TypeOK'
    BY <2>1, <2>2 DEF Inv, TypeOK
  <2>4. \A g \in Handles : file'[g].entry = file[g].entry /\ file'[g].mode = file[g].mode
    BY <2>1 DEF Inv, TypeOK, File
  <2> QED
    BY <2>1, <2>3, <2>4, SameHandles
<1>4. CASE ~full /\ (holeBeyondChain \/ runsOff)
  <2>1. fault' \in {"segv", "corrupt"} /\ UNCHANGED <<fat, dir, file, open_files>>
    BY <1>4 DEF Write
  <2>2. TypeOK'
    BY <2>1 DEF Inv, TypeOK
  <2> QED
    BY <2>1, <2>2, SameHandles
<1>5. CASE ~full /\ ~(holeBeyondChain \/ runsOff)
  <2>1. needsFirst => First(Free(fat)) \in Blocks
    BY <1>5, BlocksFinite, FirstElement DEF Free
  <2>2. base \in 0..NEntries - 1
    BY <1>1, <2>1, FatAssumption DEF Entry, Blocks
  <2>3. table \in Tables
    BY <2>1 DEF Inv, TypeOK, Tables
  <2>4. WriteTo(h, at, base, table, len) /\ UNCHANGED <<fault, open_files>>
    BY <1>5 DEF Write
  <2> HIDE DEF at, base, table
  <2> QED
    BY <1>1, <1>2, <2>2, <2>3, <2>4, WriteToStep
<1> QED
  BY <1>3, <1>4, <1>5

-----------------------------------------------------------------------------
(* A handle on an entry that no handle excludes may join the list.         *)
LEMMA HandleJoins ==
    ASSUME Inv, TypeOK', NEW h \in Handles, ~IsOpen(h), NEW f \in File,
           open_files' = Append(open_files, h),
           file' = [file EXCEPT ![h] = f],
           \A e \in OpenEntries \cup {f.entry} :
               e \in DOMAIN dir' /\ dir'[e].state \in {"live", "unlinked"},
           \A i \in OpenIndices :
               EntryOf(i) = f.entry => ModeOf(i) = "F_READ" /\ f.mode = "F_READ"
    PROVE  HandlesAlive' /\ LocksExclusive'
<1> DEFINE last == Len(open_files) + 1
<1>1. /\ OpenIndices = 1..Len(open_files) /\ Len(open_files) \in Nat
      /\ OpenIndices' = 1..last
      /\ open_files'[last] = h
      /\ \A i \in OpenIndices : open_files'[i] = open_files[i]
                                 /\ open_files[i] \in Handles \ {h}
  BY DEF Inv, TypeOK, OpenIndices, IsOpen
<1> HIDE DEF last
<1>2. \A i \in {last} : EntryOf(i)' = f.entry /\ ModeOf(i)' = f.mode
  BY <1>1 DEF EntryOf, ModeOf, Inv, TypeOK
<1>3. \A i \in OpenIndices : EntryOf(i)' = EntryOf(i) /\ ModeOf(i)' = ModeOf(i)
  <2> TAKE i \in OpenIndices
  <2>1. open_files'[i] = open_files[i] /\ open_files[i] \in Handles \ {h}
    BY <1>1
  <2>2. file'[open_files[i]] = file[open_files[i]]
    BY <2>1 DEF Inv, TypeOK
  <2> QED
    BY <2>1, <2>2 DEF EntryOf, ModeOf
<1>4. \A i \in OpenIndices : EntryOf(i) \in OpenEntries
  BY DEF OpenEntries
<1>5. OpenIndices' = OpenIndices \cup {last}
  BY <1>1 DEF last
<1>6. HandlesAlive'
  <2>1. \A i \in OpenIndices' :
            /\ EntryOf(i)' \in DOMAIN dir'
            /\ dir'[EntryOf(i)'].state \in {"live", "unlinked"}
    <3> TAKE i \in OpenIndices'
    <3>1. EntryOf(i)' \in OpenEntries \cup {f.entry}
      BY <1>2, <1>3, <1>4, <1>5
    <3> QED
      BY <3>1
  <2>2. \A i, j \in OpenIndices' : open_files'[i] = open_files'[j] => i = j
    <3>1. \A i, j \in OpenIndices : open_files[i] = open_files[j] => i = j
      BY DEF Inv, HandlesAlive
    <3> QED
      BY <1>1, <1>5, <3>1
  <2> QED
    BY <2>1, <2>2 DEF HandlesAlive
<1>7. LocksExclusive'
  <2> SUFFICES ASSUME NEW i \in OpenIndices', NEW j \in OpenIndices', i # j,
                      EntryOf(i)' = EntryOf(j)'
               PROVE  ModeOf(i)' = "F_READ" /\ ModeOf(j)' = "F_READ"
    BY DEF LocksExclusive
  <2>1. CASE i \in OpenIndices /\ j \in OpenIndices
    <3>1. EntryOf(i) = EntryOf(j)
      BY <2>1, <1>3
    <3> QED
      BY <2>1, <3>1, <1>3 DEF Inv, LocksExclusive
  <2>2. CASE i \in OpenIndices /\ j \in {last}
    <3>1. EntryOf(i) = f.entry
      BY <2>2, <1>2, <1>3
    <3> QED
      BY <2>2, <3>1, <1>2, <1>3
  <2>3. CASE i \in {last} /\ j \in OpenIndices
    <3>1. EntryOf(j) = f.entry
      BY <2>3, <1>2, <1>3
    <3> QED
      BY <2>3, <3>1, <1>2, <1>3
  <2> QED
    BY <2>1, <2>2, <2>3, <1>5
<1> QED
  BY <1>6, <1>7

(* The entry of an open handle is in the directory and in use.             *)
LEMMA OpenEntriesAlive ==
    ASSUME Inv, NEW e \in OpenEntries
    PROVE  e \in DOMAIN dir /\ dir[e].state \in {"live", "unlinked"}
BY DEF Inv, HandlesAlive, OpenEntries

(* fs_open of a file that exists hands out a handle the lock allows; the   *)
(* truncation keeps state and name of the entry.                           *)
LEMMA OpenExistingStep ==
    ASSUME Inv, NEW h \in Handles, NEW name \in Names, NEW mode \in Modes,
           OpenExisting(h, name, mode)
    PROVE  Inv'
<1> DEFINE e == First(Found(name))
           f == [entry |-> e, mode |-> mode,
                 offset |-> IF mode = "F_APPEND" THEN dir[e].size ELSE 0]
           emptied == [dir[e] EXCEPT !.blockno = 0, !.size = 0]
<1>1. /\ e \in 1..Len(dir) /\ dir[e] \in Entry /\ dir[e].state = "live"
      /\ DOMAIN dir = 1..Len(dir)
  BY FoundEntry DEF Inv, TypeOK, OpenExisting
<1>2. /\ ~IsOpen(h) /\ ~Locked(e, mode)
      /\ open_files' = Append(open_files, h)
      /\ file' = [file EXCEPT ![h] = f]
      /\ \/ dir' = dir /\ fat' = fat /\ fault' = fault
         \/ /\ dir' = [dir EXCEPT ![e] = emptied]
            /\ fat' = fs_freeblk(fat, dir[e].blockno)
            /\ fault' \in {"corrupt", fault}
  BY <1>1 DEF OpenExisting, Inv, TypeOK, Entry
<1>3. f \in File /\ f.entry = e /\ f.mode = mode
  BY <1>1, UintPositive DEF File, Entry
<1>4. emptied \in Entry /\ emptied.state = "live" /\ emptied.name = dir[e].name
  <2>1. 0 \in Offsets /\ 0 \in 0..NEntries - 1
    BY UintPositive, FatAssumption
  <2> QED
    BY <1>1, <2>1 DEF Entry
<1> HIDE DEF e, f, emptied
<1>5. /\ dir' \in Seq(Entry) /\ DOMAIN dir' = DOMAIN dir
      /\ \A g \in DOMAIN dir : dir'[g].state = dir[g].state /\ dir'[g].name = dir[g].name
  <2>1. CASE dir' = dir
    BY <2>1 DEF Inv, TypeOK
  <2>2. CASE dir' = [dir EXCEPT ![e] = emptied]
    <3>1. dir' \in Seq(Entry) /\ DOMAIN dir' = DOMAIN dir
      BY <1>1, <1>4, <2>2, ExceptSeq DEF Inv, TypeOK
    <3> QED
      BY <1>1, <1>4, <2>2, <3>1
  <2> QED
    BY <1>2, <2>1, <2>2
<1>6. fat' \in Tables
  BY <1>2, FreedTable DEF Inv, TypeOK, Tables
<1>7. file' \in [Handles -> File] /\ open_files' \in Seq(Handles)
  BY <1>2, <1>3 DEF Inv, TypeOK
<1>8. TypeOK'
  BY <1>2, <1>5, <1>6, <1>7 DEF Inv, TypeOK, Tables
<1>9. \A g \in OpenEntries \cup {f.entry} :
          g \in DOMAIN dir' /\ dir'[g].state \in {"live", "unlinked"}
  BY <1>1, <1>3, <1>5, OpenEntriesAlive
<1>10. \A i \in OpenIndices :
           EntryOf(i) = f.entry => ModeOf(i) = "F_READ" /\ f.mode = "F_READ"
  BY <1>2, <1>3 DEF Locked
<1>11. HandlesAlive' /\ LocksExclusive'
  BY <1>2, <1>3, <1>8, <1>9, <1>10, HandleJoins
<1>12. NamesUnique'
  BY <1>5 DEF NamesUnique, Inv
<1> QED
  BY <1>8, <1>11, <1>12 DEF Inv

(* What comes of the directory when fs_makefile adds a block, or does not. *)
LEMMA GrownDirectory ==
    ASSUME Inv, NEW entries \in {dir, dir \o EmptyBlock}
    PROVE  /\ entries \in Seq(Entry) /\ Len(dir) <= Len(entries)
           /\ \A g \in DOMAIN dir : entries[g] = dir[g]
           /\ \A g \in DOMAIN entries \ DOMAIN dir : entries[g].state = "end"
           /\ entries = dir \o EmptyBlock => Len(dir) + 1 \in DOMAIN entries
<1>1. EmptyBlock \in Seq(Entry) /\ Len(EmptyBlock) = EntriesPerBlock
  BY EntryTypes, FatAssumption DEF EmptyBlock
<1>2. \A g \in 1..EntriesPerBlock : EmptyBlock[g].state = "end"
  BY DEF EmptyBlock, EmptyEntry
<1>3. dir \in Seq(Entry)
  BY DEF Inv, TypeOK
<1> HIDE DEF EmptyBlock
<1>4. CASE entries = dir
  <2>1. Len(dir) + 1 \in DOMAIN (dir \o EmptyBlock)
    BY <1>1, <1>3, FatAssumption, ConcatProperties
  <2> QED
    BY <1>3, <1>4, <2>1
<1>5. CASE entries = dir \o EmptyBlock
  <2>1. /\ entries \in Seq(Entry) /\ Len(entries) = Len(dir) + EntriesPerBlock
        /\ \A g \in 1..Len(entries) :
               entries[g] = IF g <= Len(dir) THEN dir[g] ELSE EmptyBlock[g - Len(dir)]
    <3> DEFINE both == dir \o EmptyBlock
    <3>1. /\ both \in Seq(Entry) /\ Len(both) = Len(dir) + Len(EmptyBlock)
          /\ \A g \in 1..Len(dir) + Len(EmptyBlock) :
                 both[g] = IF g <= Len(dir) THEN dir[g] ELSE EmptyBlock[g - Len(dir)]
      BY <1>1, <1>3, ConcatProperties
    <3> HIDE DEF both
    <3> QED
      BY <1>1, <1>5, <3>1 DEF both
  <2>2. EntriesPerBlock \in Nat \ {0}
    BY FatAssumption
  <2> QED
    BY <1>2, <1>3, <2>1, <2>2
<1> QED
  BY <1>4, <1>5

(* The entry fs_makefile takes belongs to no open handle.                  *)
LEMMA MakeFileStep ==
    ASSUME Inv, NEW h \in Handles, NEW name \in Names, NEW mode \in Modes,
           MakeFile(h, name, mode)
    PROVE  Inv'
<1> DEFINE grows == FreeEntries = {}
           e == IF grows THEN Len(dir) + 1 ELSE First(FreeEntries)
           entries == IF grows THEN dir \o EmptyBlock ELSE dir
           new == [EmptyEntry EXCEPT !.state = "live", !.name = name]
           f == [entry |-> e, offset |-> 0, mode |-> mode]
<1>1. /\ ~IsOpen(h) /\ Found(name) = {}
      /\ open_files' = Append(open_files, h)
      /\ file' = [file EXCEPT ![h] = f]
      /\ dir' = [entries EXCEPT ![e] = new]
      /\ fault' = fault
      /\ fat' \in Tables
  <2>1. fat \in Tables
    BY DEF Inv, TypeOK, Tables
  <2> QED
    BY <2>1, ExtendedTable DEF MakeFile
<1>2. /\ entries \in Seq(Entry) /\ Len(dir) <= Len(entries)
      /\ \A g \in DOMAIN dir : entries[g] = dir[g]
      /\ \A g \in DOMAIN entries \ DOMAIN dir : entries[g].state = "end"
      /\ grows => Len(dir) + 1 \in DOMAIN entries
  <2>1. entries \in {dir, dir \o EmptyBlock}
    OBVIOUS
  <2>2. grows => entries = dir \o EmptyBlock
    OBVIOUS
  <2> HIDE DEF entries
  <2> QED
    BY <2>1, <2>2, GrownDirectory
<1>3. DOMAIN dir = 1..Len(dir) /\ Len(dir) \in Nat
  BY DEF Inv, TypeOK
<1>4. /\ e \in DOMAIN entries
      /\ e \in DOMAIN dir => dir[e].state \in Reusable
  <2>1. CASE grows
    BY <1>2, <1>3, <2>1
  <2>2. CASE ~grows
    <3>1. FreeEntries \in SUBSET Nat
      BY <1>3 DEF FreeEntries
    <3>2. First(FreeEntries) \in FreeEntries
      BY <2>2, <3>1, FirstElement
    <3> QED
      BY <2>2, <3>2 DEF FreeEntries
  <2> QED
    BY <2>1, <2>2
<1>5. new \in Entry /\ new.state = "live" /\ new.name = name
  BY EntryTypes DEF Entry, EntryStates
<1>6. f \in File /\ f.entry = e /\ f.mode = mode
  <2>1. e \in Nat \ {0}
    BY <1>2, <1>4
  <2> HIDE DEF e
  <2> QED
    BY <2>1, UintPositive DEF File
<1> HIDE DEF grows, e, entries, new, f
<1>7. /\ dir' \in Seq(Entry) /\ DOMAIN dir' = DOMAIN entries
      /\ dir'[e] = new
      /\ \A g \in DOMAIN dir' \ {e} : dir'[g] = entries[g]
  BY <1>1, <1>2, <1>4, <1>5, ExceptSeq
<1>8. file' \in [Handles -> File] /\ open_files' \in Seq(Handles)
  BY <1>1, <1>6 DEF Inv, TypeOK
<1>9. TypeOK'
  BY <1>1, <1>7, <1>8 DEF Inv, TypeOK, Tables
<1>10. e \notin OpenEntries
  BY <1>4, OpenEntriesAlive DEF Reusable
<1>11. \A g \in OpenEntries \cup {f.entry} :
           g \in DOMAIN dir' /\ dir'[g].state \in {"live", "unlinked"}
  <2>1. \A g \in OpenEntries : g \in DOMAIN dir' /\ dir'[g] = dir[g]
    BY <1>2, <1>3, <1>7, <1>10, OpenEntriesAlive
  <2> QED
    BY <1>4, <1>5, <1>6, <1>7, <2>1, OpenEntriesAlive
<1>12. \A i \in OpenIndices :
           EntryOf(i) = f.entry => ModeOf(i) = "F_READ" /\ f.mode = "F_READ"
  BY <1>6, <1>10 DEF OpenEntries
<1>13. HandlesAlive' /\ LocksExclusive'
  BY <1>1, <1>6, <1>9, <1>11, <1>12, HandleJoins
<1>14. NamesUnique'
  <2>1. \A g \in DOMAIN dir' \ {e} : dir'[g].state = "live" =>
            g \in DOMAIN dir /\ dir'[g] = dir[g] /\ dir[g].name # name
    BY <1>1, <1>2, <1>7 DEF Found
  <2> QED
    BY <1>5, <1>7, <2>1 DEF Inv, NamesUnique
<1> QED
  BY <1>9, <1>13, <1>14 DEF Inv

-----------------------------------------------------------------------------
(* A call that leaves the list alone and keeps the entries of its handles. *)
LEMMA SameList ==
    ASSUME Inv, UNCHANGED <<file, open_files>>,
           \A e \in OpenEntries :
               e \in DOMAIN dir' /\ dir'[e].state \in {"live", "unlinked"}
    PROVE  HandlesAlive' /\ LocksExclusive'
<1>1. OpenIndices' = OpenIndices
  BY DEF OpenIndices
<1>2. \A i \in OpenIndices : EntryOf(i)' = EntryOf(i) /\ ModeOf(i)' = ModeOf(i)
  BY DEF EntryOf, ModeOf
<1>3. \A i \in OpenIndices : EntryOf(i) \in OpenEntries
  BY DEF OpenEntries
<1>4. HandlesAlive'
  BY <1>1, <1>2, <1>3 DEF Inv, HandlesAlive
<1>5. LocksExclusive'
  BY <1>1, <1>2 DEF Inv, LocksExclusive
<1> QED
  BY <1>4, <1>5

(* What fs_unlink leaves of the directory.                                 *)
LEMMA UnlinkedDirectory ==
    ASSUME Inv, NEW e \in DOMAIN dir, dir[e].state = "live"
    PROVE  /\ UnlinkedEntries(e) \in Seq(Entry)
           /\ DOMAIN UnlinkedEntries(e) = DOMAIN dir
           /\ \A g \in DOMAIN dir \ {e} : UnlinkedEntries(e)[g] = dir[g]
           /\ UnlinkedEntries(e)[e].state \in {"unlinked", "deleted"}
           /\ e \in OpenEntries => UnlinkedEntries(e)[e].state = "unlinked"
           /\ UnlinkedFat(e) \in Tables
           /\ UnlinkedFault(e) \in {"none", "segv", "corrupt"}
<1> DEFINE new == IF InUse(e) THEN [dir[e] EXCEPT !.state = "unlinked"] ELSE DeletedEntry
<1>1. dir \in Seq(Entry) /\ dir[e] \in Entry /\ DOMAIN dir = 1..Len(dir)
  BY DEF Inv, TypeOK
<1>2. /\ new \in Entry /\ new.state \in {"unlinked", "deleted"}
      /\ e \in OpenEntries => new.state = "unlinked"
  <2>1. e \in OpenEntries => InUse(e)
    BY DEF InUse
  <2> QED
    BY <1>1, <2>1, EntryTypes DEF Entry, EntryStates
<1>3. UnlinkedEntries(e) = [dir EXCEPT ![e] = new]
  BY DEF UnlinkedEntries
<1> HIDE DEF new
<1>4. /\ UnlinkedEntries(e) \in Seq(Entry)
      /\ DOMAIN UnlinkedEntries(e) = DOMAIN dir
  BY <1>1, <1>2, <1>3, ExceptSeq
<1>5. UnlinkedFat(e) \in Tables
  BY FreedTable DEF Inv, TypeOK, Tables, UnlinkedFat
<1>6. UnlinkedFault(e) \in {"none", "segv", "corrupt"}
  BY DEF Inv, TypeOK, UnlinkedFault
<1> QED
  BY <1>1, <1>2, <1>3, <1>4, <1>5, <1>6

(* fs_unlink keeps the entry while it is open.                             *)
LEMMA UnlinkStep ==
    ASSUME Inv, NEW name \in Names, Unlink(name)
    PROVE  Inv'
<1> DEFINE e == First(Found(name))
<1>1. e \in DOMAIN dir /\ dir[e].state = "live"
  BY FoundEntry DEF Inv, TypeOK, Unlink
<1>2. /\ dir' = UnlinkedEntries(e) /\ fat' = UnlinkedFat(e)
      /\ fault' = UnlinkedFault(e) /\ UNCHANGED <<file, open_files>>
  BY DEF Unlink
<1> HIDE DEF e
<1>3. /\ dir' \in Seq(Entry) /\ DOMAIN dir' = DOMAIN dir
      /\ \A g \in DOMAIN dir \ {e} : dir'[g] = dir[g]
      /\ dir'[e].state \in {"unlinked", "deleted"}
      /\ e \in OpenEntries => dir'[e].state = "unlinked"
      /\ fat' \in Tables /\ fault' \in {"none", "segv", "corrupt"}
  BY <1>1, <1>2, UnlinkedDirectory
<1>4. TypeOK'
  BY <1>2, <1>3 DEF Inv, TypeOK, Tables
<1>5. HandlesAlive' /\ LocksExclusive'
  BY <1>2, <1>3, OpenEntriesAlive, SameList
<1>6. NamesUnique'
  BY <1>3 DEF Inv, NamesUnique
<1> QED
  BY <1>4, <1>5, <1>6 DEF Inv

(* A file that is replaced keeps its entry while it is open; a file renamed *)
(* to its own name is taken for both.                                       *)
LEMMA RenameStep ==
    ASSUME Inv, NEW old \in Names, NEW new \in Names, Rename(old, new)
    PROVE  Inv'
<1> DEFINE e == First(Found(old))
           t == First(Found(new))
           entries == IF Found(new) = {} THEN dir ELSE UnlinkedEntries(t)
           renamed == [dir[e] EXCEPT !.name = new]
<1>1. /\ e \in DOMAIN dir /\ dir[e] \in Entry /\ dir[e].state = "live"
      /\ Found(new) # {} => /\ t \in DOMAIN dir /\ dir[t].state = "live"
                            /\ dir[t].name = new
  BY FoundEntry DEF Inv, TypeOK, Rename
<1>2. /\ dir' = [entries EXCEPT ![e] = renamed]
      /\ fat' = IF Found(new) = {} THEN fat ELSE UnlinkedFat(t)
      /\ fault' = IF Found(new) = {} THEN fault ELSE UnlinkedFault(t)
      /\ UNCHANGED <<file, open_files>>
  BY DEF Rename, Replaced
<1>3. renamed \in Entry /\ renamed.state = "live" /\ renamed.name = new
  BY <1>1 DEF Entry
<1>4. /\ entries \in Seq(Entry) /\ DOMAIN entries = DOMAIN dir
      /\ \A g \in DOMAIN dir :
             \/ entries[g] = dir[g] /\ (g = t => Found(new) = {})
             \/ /\ g = t /\ Found(new) # {}
                /\ entries[g].state \in {"unlinked", "deleted"}
                /\ g \in OpenEntries => entries[g].state = "unlinked"
      /\ fat' \in Tables /\ fault' \in {"none", "segv", "corrupt"}
  <2>1. CASE Found(new) = {}
    BY <1>2, <2>1 DEF Inv, TypeOK, Tables
  <2>2. CASE Found(new) # {}
    <3>1. entries = UnlinkedEntries(t) /\ t \in DOMAIN dir
      BY <1>1, <2>2
    <3> HIDE DEF t, entries
    <3> QED
      BY <1>1, <1>2, <2>2, <3>1, UnlinkedDirectory
  <2> QED
    BY <2>1, <2>2
<1>5. \A g \in DOMAIN dir \ {e} : dir[g].state = "live" /\ dir[g].name = new =>
          g = t /\ Found(new) # {}
  <2> TAKE g \in DOMAIN dir \ {e}
  <2>1. dir[g].state = "live" /\ dir[g].name = new => Found(new) # {}
    BY DEF Found
  <2> HIDE DEF t
  <2> QED
    BY <1>1, <2>1 DEF Inv, NamesUnique
<1> HIDE DEF e, t, entries, renamed
<1>6. /\ dir' \in Seq(Entry) /\ DOMAIN dir' = DOMAIN dir
      /\ dir'[e] = renamed
      /\ \A g \in DOMAIN dir \ {e} : dir'[g] = entries[g]
  BY <1>1, <1>2, <1>3, <1>4, ExceptSeq
<1>7. TypeOK'
  BY <1>2, <1>4, <1>6 DEF Inv, TypeOK, Tables
<1>8. HandlesAlive' /\ LocksExclusive'
  <2>1. \A g \in OpenEntries : g \in DOMAIN dir' /\ dir'[g].state \in {"live", "unlinked"}
    BY <1>3, <1>4, <1>6, OpenEntriesAlive
  <2> QED
    BY <1>2, <2>1, SameList
<1>9. NamesUnique'
  <2>1. \A g \in DOMAIN dir \ {e} : dir'[g].state = "live" =>
            dir'[g] = dir[g] /\ dir[g].name # new
    BY <1>4, <1>5, <1>6
  <2> QED
    BY <1>3, <1>6, <2>1 DEF Inv, NamesUnique
<1> QED
  BY <1>7, <1>8, <1>9 DEF Inv

-----------------------------------------------------------------------------
(* Closing a handle takes that handle off the list and no other, and an    *)
(* entry is deleted only when no handle is left on it.                     *)
LEMMA CloseStep ==
    ASSUME Inv, NEW h \in Handles, Close(h)
    PROVE  Inv'
<1> DEFINE i == CHOOSE j \in OpenIndices : open_files[j] = h
           e == EntryOf(i)
           deletes == StillCounted(i) = {} /\ dir[e].state = "unlinked"
           n == Len(open_files)
           from(j) == IF j = i THEN n ELSE j
<1>1. i \in OpenIndices /\ open_files[i] = h
  BY DEF Close, IsOpen
<1>2. n \in Nat /\ OpenIndices = 1..n
  BY DEF Inv, TypeOK, OpenIndices
<1>3. /\ open_files' = Untrack(i)
      /\ file' = [file EXCEPT ![h] = FreedFile]
      /\ dir' = IF deletes THEN [dir EXCEPT ![e] = DeletedEntry] ELSE dir
      /\ fat' = IF deletes THEN fs_freeblk(fat, dir[e].blockno) ELSE fat
      /\ fault' \in {"corrupt", fault}
  BY DEF Close
<1>4. \A j \in OpenIndices : EntryOf(j) \in OpenEntries
  BY DEF OpenEntries
<1>5. e \in DOMAIN dir
  BY <1>1, <1>4, OpenEntriesAlive
<1>6. deletes => \A j \in OpenIndices \ {i} : EntryOf(j) # e
  BY DEF StillCounted
<1> HIDE DEF i
<1>7. \A j \in 1..n - 1 : from(j) \in OpenIndices \ {i}
  BY <1>1, <1>2
<1>8. \A j, k \in 1..n - 1 : from(j) = from(k) => j = k
  BY <1>2
<1>9. open_files' = [j \in 1..n - 1 |-> open_files[from(j)]]
  BY <1>3 DEF Untrack
<1> HIDE DEF from, n, e
<1>10. /\ open_files' \in Seq(Handles) /\ OpenIndices' = 1..n - 1
       /\ \A j \in 1..n - 1 : open_files'[j] = open_files[from(j)]
  <2>1. n - 1 \in Nat
    BY <1>1, <1>2
  <2>2. \A j \in 1..n - 1 : open_files[from(j)] \in Handles
    BY <1>7 DEF Inv, TypeOK, OpenIndices
  <2> QED
    BY <1>9, <2>1, <2>2 DEF OpenIndices
<1>11. \A j \in 1..n - 1 :
           EntryOf(j)' = EntryOf(from(j)) /\ ModeOf(j)' = ModeOf(from(j))
  <2> TAKE j \in 1..n - 1
  <2>1. open_files'[j] = open_files[from(j)]
    BY <1>10
  <2>2. open_files[from(j)] \in Handles \ {h}
    <3>1. from(j) \in OpenIndices \ {i}
      BY <1>7
    <3> QED
      BY <1>1, <3>1 DEF Inv, TypeOK, HandlesAlive, OpenIndices
  <2>3. file'[open_files[from(j)]] = file[open_files[from(j)]]
    BY <1>3, <2>2 DEF Inv, TypeOK
  <2> QED
    BY <2>1, <2>3 DEF EntryOf, ModeOf
<1>12. /\ dir' \in Seq(Entry) /\ DOMAIN dir' = DOMAIN dir
       /\ \A g \in DOMAIN dir :
              dir'[g] = dir[g] \/ (deletes /\ g = e /\ dir'[g].state = "deleted")
  <2>1. dir \in Seq(Entry) /\ DOMAIN dir = 1..Len(dir)
    BY DEF Inv, TypeOK
  <2>2. CASE deletes
    <3>1. dir' = [dir EXCEPT ![e] = DeletedEntry]
      BY <1>3, <2>2
    <3> QED
      BY <1>5, <2>1, <2>2, <3>1, EntryTypes, ExceptSeq
  <2>3. CASE ~deletes
    BY <1>3, <2>1, <2>3
  <2> QED
    BY <2>2, <2>3
<1> HIDE DEF deletes
<1>13. TypeOK'
  <2>1. FreedFile \in File
    BY UintPositive DEF FreedFile, File, Modes
  <2>2. file' \in [Handles -> File]
    BY <1>3, <2>1 DEF Inv, TypeOK
  <2>3. fat' \in Tables
    BY <1>3, FreedTable DEF Inv, TypeOK, Tables
  <2> QED
    BY <1>3, <1>10, <1>12, <2>2, <2>3 DEF Inv, TypeOK, Tables
<1>14. HandlesAlive'
  <2>1. \A j \in 1..n - 1 :
            /\ EntryOf(j)' \in DOMAIN dir'
            /\ dir'[EntryOf(j)'].state \in {"live", "unlinked"}
    <3> TAKE j \in 1..n - 1
    <3>1. from(j) \in OpenIndices \ {i}
      BY <1>7
    <3>2. EntryOf(from(j)) \in OpenEntries /\ (deletes => EntryOf(from(j)) # e)
      BY <1>4, <1>6, <3>1
    <3>3. EntryOf(from(j)) \in DOMAIN dir' /\ dir'[EntryOf(from(j))] = dir[EntryOf(from(j))]
      BY <1>12, <3>2, OpenEntriesAlive
    <3>4. EntryOf(j)' = EntryOf(from(j))
      BY <1>11
    <3> QED
      BY <3>2, <3>3, <3>4, OpenEntriesAlive
  <2>2. \A j, k \in 1..n - 1 : open_files'[j] = open_files'[k] => j = k
    <3> SUFFICES ASSUME NEW j \in 1..n - 1, NEW k \in 1..n - 1,
                        open_files'[j] = open_files'[k]
                 PROVE  j = k
      OBVIOUS
    <3>1. open_files[from(j)] = open_files[from(k)]
      BY <1>10
    <3>2. from(j) = from(k)
      BY <1>7, <3>1 DEF Inv, HandlesAlive
    <3> QED
      BY <1>8, <3>2
  <2> QED
    BY <1>10, <2>1, <2>2 DEF HandlesAlive
<1>15. LocksExclusive'
  <2> SUFFICES ASSUME NEW j \in 1..n - 1, NEW k \in 1..n - 1, j # k,
                      EntryOf(j)' = EntryOf(k)'
               PROVE  ModeOf(j)' = "F_READ" /\ ModeOf(k)' = "F_READ"
    BY <1>10 DEF LocksExclusive
  <2>1. from(j) # from(k) /\ EntryOf(from(j)) = EntryOf(from(k))
    BY <1>8, <1>11
  <2>2. ModeOf(from(j)) = "F_READ" /\ ModeOf(from(k)) = "F_READ"
    BY <1>7, <2>1 DEF Inv, LocksExclusive
  <2> QED
    BY <1>11, <2>2
<1>16. NamesUnique'
  <2>1. \A g \in DOMAIN dir : dir'[g].state = "live" => dir'[g] = dir[g]
    BY <1>12
  <2> QED
    BY <1>12, <2>1 DEF Inv, NamesUnique
<1> QED
  BY <1>13, <1>14, <1>15, <1>16 DEF Inv

(* What opening a file adds to the list of open files.                     *)
LEMMA OpenAdds ==
    ASSUME Inv, NEW h \in Handles, open_files' = Append(open_files, h)
    PROVE  \A g \in Handles : IsOpen(g)' <=> IsOpen(g) \/ g = h
<1> DEFINE n == Len(open_files)
<1>1. n \in Nat /\ OpenIndices = 1..n /\ OpenIndices' = 1..n + 1
  BY DEF Inv, TypeOK, OpenIndices
<1>2. open_files'[n + 1] = h /\ \A j \in 1..n : open_files'[j] = open_files[j]
  BY DEF Inv, TypeOK
<1> HIDE DEF n
<1>3. OpenIndices' = OpenIndices \cup {n + 1}
  BY <1>1
<1>4. \A j \in OpenIndices : open_files'[j] = open_files[j]
  BY <1>1, <1>2
<1> QED
  BY <1>2, <1>3, <1>4 DEF IsOpen

(* fs_close takes one handle off the list, and no other.                   *)
LEMMA CloseTakes ==
    ASSUME Inv, NEW h \in Handles, Close(h)
    PROVE  \A g \in Handles : IsOpen(g)' <=> IsOpen(g) /\ g # h
<1> DEFINE i == CHOOSE j \in OpenIndices : open_files[j] = h
           n == Len(open_files)
<1>1. i \in OpenIndices /\ open_files[i] = h /\ n \in Nat /\ OpenIndices = 1..n
  BY DEF Close, IsOpen, Inv, TypeOK, OpenIndices
<1>2. open_files' = Untrack(i)
  BY DEF Close
<1>3. \A j, k \in OpenIndices : open_files[j] = open_files[k] => j = k
  BY DEF Inv, HandlesAlive
<1> HIDE DEF i, n
<1>4. /\ OpenIndices' = 1..n - 1
      /\ \A j \in 1..n - 1 : open_files'[j] = IF j = i THEN open_files[n] ELSE open_files[j]
  BY <1>1, <1>2 DEF Untrack, OpenIndices, n
<1>5. ASSUME NEW g \in Handles, IsOpen(g)' PROVE IsOpen(g) /\ g # h
  <2>1. PICK j \in 1..n - 1 : open_files'[j] = g
    BY <1>4, <1>5 DEF IsOpen
  <2>2. j \in OpenIndices /\ n \in OpenIndices /\ j # n
    BY <1>1, <2>1
  <2> QED
    BY <1>1, <1>3, <1>4, <2>1, <2>2 DEF IsOpen
<1>6. ASSUME NEW g \in Handles, IsOpen(g), g # h PROVE IsOpen(g)'
  <2>1. PICK j \in OpenIndices : open_files[j] = g
    BY <1>6 DEF IsOpen
  <2>2. j # i
    BY <1>1, <1>6, <2>1
  <2>3. CASE j = n
    <3>1. i \in 1..n - 1 /\ open_files'[i] = g
      BY <1>1, <1>4, <2>1, <2>2, <2>3
    <3> QED
      BY <1>4, <3>1 DEF IsOpen
  <2>4. CASE j # n
    <3>1. j \in 1..n - 1 /\ open_files'[j] = g
      BY <1>1, <1>4, <2>1, <2>2, <2>4
    <3> QED
      BY <1>4, <3>1 DEF IsOpen
  <2> QED
    BY <2>3, <2>4
<1> QED
  BY <1>5, <1>6

(* The list of open files is memory: a new mount starts without.           *)
LEMMA RemountStep == ASSUME Inv, Remount PROVE Inv'
<1>1. FreedFile \in File
  BY UintPositive DEF FreedFile, File, Modes
<1>2. TypeOK'
  BY <1>1 DEF Inv, TypeOK, Remount
<1>3. OpenIndices' = {}
  BY DEF OpenIndices, Remount
<1>4. HandlesAlive' /\ LocksExclusive'
  BY <1>3 DEF HandlesAlive, LocksExclusive
<1>5. NamesUnique'
  BY DEF Inv, NamesUnique, Remount
<1> QED
  BY <1>2, <1>4, <1>5 DEF Inv

-----------------------------------------------------------------------------
(* Every step preserves the invariant.                                     *)
LEMMA NextInv == Inv /\ [Next]_vars => Inv'
<1> SUFFICES ASSUME Inv, [Next]_vars PROVE Inv'
  OBVIOUS
<1>1. ASSUME NEW h \in Handles, OpenFile(h) PROVE Inv'
  BY <1>1, OpenExistingStep, MakeFileStep DEF OpenFile
<1>2. ASSUME NEW h \in Handles, UseFile(h) PROVE Inv'
  <2>1. ASSUME NEW len \in Lengths, Write(h, len) \/ Read(h, len) PROVE Inv'
    BY <2>1, WriteStep, ReadStep, FatAssumption
  <2>2. ASSUME NEW seek \in Seeks, Lseek(h, seek[1], seek[2]) PROVE Inv'
    BY <2>2, LseekStep, FatAssumption
  <2>3. CASE Chmod(h)
    BY <2>3, ChmodStep
  <2> QED
    BY <1>2, <2>1, <2>2, <2>3 DEF UseFile
<1>3. ASSUME NEW h \in Handles, Close(h) PROVE Inv'
  BY <1>3, CloseStep
<1>4. ASSUME NEW name \in Names, Unlink(name) PROVE Inv'
  BY <1>4, UnlinkStep
<1>5. ASSUME NEW pair \in Renames, Rename(pair[1], pair[2]) PROVE Inv'
  <2>1. pair[1] \in Names /\ pair[2] \in Names
    BY FatAssumption
  <2> QED
    BY <1>5, <2>1, RenameStep
<1>6. CASE Remount
  BY <1>6, RemountStep
<1>7. CASE UNCHANGED vars
  <2>1. TypeOK'
    BY <1>7 DEF Inv, TypeOK, vars
  <2> QED
    BY <1>7, <2>1, SameHandles DEF vars
<1> QED
  BY <1>1, <1>2, <1>3, <1>4, <1>5, <1>6, <1>7 DEF Next

(* The inductive invariant holds in every reachable state.                 *)
THEOREM Invariance == Spec => []Inv
BY InitInv, NextInv, PTL DEF Spec

(* Every variable stays in its type; sizes and offsets are those of a      *)
(* uint32_t, whatever is written, sought or fails.                         *)
THEOREM TypeCorrect == Spec => []TypeOK
<1>1. Inv => TypeOK
  BY DEF Inv
<1> QED
  BY <1>1, Invariance, PTL

(* Two handles on one entry are both readers, for any number of handles    *)
(* and files: fs_open's check is enough because entries in use are never   *)
(* given away and because fs_close takes off the right handle.             *)
THEOREM LocksAreExclusive == Spec => []LocksExclusive
<1>1. Inv => LocksExclusive
  BY DEF Inv
<1> QED
  BY <1>1, Invariance, PTL

(* An open handle's entry is in use, and no handle is listed twice.        *)
THEOREM HandlesStayAlive == Spec => []HandlesAlive
<1>1. Inv => HandlesAlive
  BY DEF Inv
<1> QED
  BY <1>1, Invariance, PTL

(* No two live entries have the same name.                                 *)
THEOREM NamesStayUnique == Spec => []NamesUnique
<1>1. Inv => NamesUnique
  BY DEF Inv
<1> QED
  BY <1>1, Invariance, PTL

-----------------------------------------------------------------------------
(* What a call may not do to entry e while a reader has it open.           *)
SameFile(e) == dir'[e].size = dir[e].size /\ dir'[e].blockno = dir[e].blockno

(* The handle of a call is somewhere on the list, with its entry and mode. *)
LEMMA ReadersEntry ==
    ASSUME Inv, NEW h \in Handles, IsOpen(h)
    PROVE  /\ file[h].entry \in OpenEntries
           /\ \E k \in OpenIndices : /\ open_files[k] = h
                                     /\ EntryOf(k) = file[h].entry
                                     /\ ModeOf(k) = file[h].mode
BY DEF IsOpen, OpenEntries, EntryOf, ModeOf

(* A call through a handle that may write is not one on a reader's entry.  *)
LEMMA WritersExclude ==
    ASSUME Inv, NEW h \in Handles, IsOpen(h), file[h].mode = "F_READ",
           NEW g \in Handles, IsOpen(g), file[g].mode # "F_READ"
    PROVE  file[g].entry # file[h].entry
<1>1. PICK i \in OpenIndices : EntryOf(i) = file[h].entry /\ ModeOf(i) = "F_READ"
  BY ReadersEntry
<1>2. PICK j \in OpenIndices : EntryOf(j) = file[g].entry /\ ModeOf(j) # "F_READ"
  BY ReadersEntry
<1> QED
  BY <1>1, <1>2 DEF Inv, LocksExclusive

(* Making a file takes an entry no handle has open.                        *)
LEMMA MakeFileLeaves ==
    ASSUME Inv, NEW g \in Handles, NEW name \in Names, NEW mode \in Modes,
           MakeFile(g, name, mode), NEW h \in Handles, IsOpen(h)
    PROVE  file'[h] = file[h] /\ dir'[file[h].entry] = dir[file[h].entry]
<1> DEFINE r == file[h].entry
           grows == FreeEntries = {}
           e == IF grows THEN Len(dir) + 1 ELSE First(FreeEntries)
           entries == IF grows THEN dir \o EmptyBlock ELSE dir
           new == [EmptyEntry EXCEPT !.state = "live", !.name = name]
<1>1. r \in OpenEntries /\ r \in DOMAIN dir
  BY ReadersEntry, OpenEntriesAlive
<1>2. file'[h] = file[h]
  BY DEF MakeFile, Inv, TypeOK
<1>3. r \in DOMAIN entries /\ entries[r] = dir[r]
  <2>1. entries \in {dir, dir \o EmptyBlock}
    OBVIOUS
  <2>2. DOMAIN dir = 1..Len(dir) /\ Len(dir) \in Nat
    BY DEF Inv, TypeOK
  <2> HIDE DEF entries, r
  <2>3. entries \in Seq(Entry) /\ Len(dir) <= Len(entries) /\ entries[r] = dir[r]
    BY <1>1, <2>1, GrownDirectory
  <2> QED
    BY <1>1, <2>2, <2>3
<1>4. e # r
  <2>1. CASE grows
    BY <1>1, <2>1 DEF Inv, TypeOK
  <2>2. CASE ~grows
    <3>1. FreeEntries \in SUBSET Nat
      BY DEF FreeEntries, Inv, TypeOK
    <3>2. First(FreeEntries) \in FreeEntries
      BY <2>2, <3>1, FirstElement
    <3> QED
      BY <1>1, <2>2, <3>2, OpenEntriesAlive DEF FreeEntries, Reusable
  <2> QED
    BY <2>1, <2>2
<1>5. dir' = [entries EXCEPT ![e] = new]
  BY DEF MakeFile
<1> HIDE DEF e, entries, new
<1> QED
  BY <1>2, <1>3, <1>4, <1>5

(* Opening a file leaves alone the entries others read: fs_open truncates  *)
(* only what no handle has open.                                           *)
LEMMA OpenKeepsReaders ==
    ASSUME Inv, NEW g \in Handles, OpenFile(g),
           NEW h \in Handles, IsOpen(h), file[h].mode = "F_READ"
    PROVE  file'[h].entry = file[h].entry /\ SameFile(file[h].entry)
<1> DEFINE r == file[h].entry
<1>1. r \in OpenEntries /\ r \in DOMAIN dir
  BY ReadersEntry, OpenEntriesAlive
<1>2. g # h
  BY DEF OpenFile, OpenExisting, MakeFile
<1>3. ASSUME NEW name \in Names, NEW mode \in Modes, OpenExisting(g, name, mode)
      PROVE  file'[h] = file[h] /\ SameFile(r)
  <2> DEFINE e == First(Found(name))
  <2>1. file'[h] = file[h]
    BY <1>2, <1>3 DEF OpenExisting, Inv, TypeOK
  <2>2. CASE mode = "F_WRITE"
    <3>1. e # r
      BY <1>3, <2>2, ReadersEntry DEF OpenExisting, Locked
    <3>2. dir' = dir \/ dir' = [dir EXCEPT ![e].blockno = 0, ![e].size = 0]
      BY <1>3 DEF OpenExisting
    <3> HIDE DEF e
    <3> QED
      BY <1>1, <2>1, <3>1, <3>2 DEF SameFile
  <2>3. CASE mode # "F_WRITE"
    BY <1>3, <2>1, <2>3 DEF OpenExisting, SameFile
  <2> QED
    BY <2>2, <2>3
<1>4. ASSUME NEW name \in Names, NEW mode \in Modes, MakeFile(g, name, mode)
      PROVE  file'[h] = file[h] /\ SameFile(r)
  BY <1>4, MakeFileLeaves DEF SameFile
<1> QED
  BY <1>3, <1>4 DEF OpenFile

(* fs_write changes its own handle and entry at most.                      *)
LEMMA WriteChanges ==
    ASSUME NEW g \in Handles, NEW len \in Nat, Write(g, len)
    PROVE  /\ \/ dir' = dir
              \/ \E new : dir' = [dir EXCEPT ![file[g].entry] = new]
           /\ \/ file' = file
              \/ \E offset : file' = [file EXCEPT ![g].offset = offset]
<1>1. \/ UNCHANGED <<dir, file>>
      \/ dir' = dir /\ \E offset : file' = [file EXCEPT ![g].offset = offset]
      \/ \E at, base, table : WriteTo(g, at, base, table, len)
  BY SMTT(30) DEF Write
<1>2. ASSUME NEW at, NEW base, NEW table, WriteTo(g, at, base, table, len)
      PROVE  /\ \E new : dir' = [dir EXCEPT ![file[g].entry] = new]
             /\ \E offset : file' = [file EXCEPT ![g].offset = offset]
  BY <1>2 DEF WriteTo
<1> QED
  BY <1>1, <1>2

(* No read, write, seek or change of permissions of any handle touches the *)
(* size or first block of what another has open for reading.               *)
LEMMA UseKeepsReaders ==
    ASSUME Inv, NEW g \in Handles, UseFile(g),
           NEW h \in Handles, IsOpen(h), file[h].mode = "F_READ"
    PROVE  file'[h].entry = file[h].entry /\ SameFile(file[h].entry)
<1> DEFINE r == file[h].entry
<1>1. /\ r \in DOMAIN dir /\ dir[r] \in Entry /\ file[h] \in File
      /\ \A f \in Handles : file[f] \in File
  BY OpenHandle DEF Inv, TypeOK
<1>2. ASSUME NEW len \in Lengths, Write(g, len)
      PROVE  file'[h].entry = r /\ SameFile(r)
  <2>1. r # file[g].entry
    BY <1>2, WritersExclude DEF Write
  <2>2. \/ dir' = dir
        \/ \E new : dir' = [dir EXCEPT ![file[g].entry] = new]
    BY <1>2, WriteChanges, FatAssumption
  <2>3. \/ file' = file
        \/ \E offset : file' = [file EXCEPT ![g].offset = offset]
    BY <1>2, WriteChanges, FatAssumption
  <2> QED
    BY <1>1, <2>1, <2>2, <2>3 DEF SameFile, File, Inv, TypeOK
<1>3. ASSUME NEW len \in Lengths, Read(g, len)
      PROVE  file'[h].entry = r /\ SameFile(r)
  <2>1. file' = file \/ \E offset : file' = [file EXCEPT ![g].offset = offset]
    BY <1>3 DEF Read
  <2> QED
    BY <1>1, <1>3, <2>1 DEF Read, SameFile, File, Inv, TypeOK
<1>4. ASSUME NEW seek \in Seeks, Lseek(g, seek[1], seek[2])
      PROVE  file'[h].entry = r /\ SameFile(r)
  <2>1. \E offset : file' = [file EXCEPT ![g].offset = offset]
    BY <1>4 DEF Lseek
  <2> QED
    BY <1>1, <1>4, <2>1 DEF Lseek, SameFile, File, Inv, TypeOK
<1>5. ASSUME Chmod(g)
      PROVE  file'[h].entry = r /\ SameFile(r)
  BY <1>1, <1>5 DEF Chmod, SameFile, Entry
<1> QED
  BY <1>2, <1>3, <1>4, <1>5 DEF UseFile

(* Unlinking leaves size, first block and permission of an open file's     *)
(* entry, also of the one unlinked.                                        *)
LEMMA UnlinkKeepsReaders ==
    ASSUME Inv, NEW e \in DOMAIN dir, dir[e].state = "live", NEW r \in OpenEntries
    PROVE  /\ UnlinkedEntries(e)[r].size = dir[r].size
           /\ UnlinkedEntries(e)[r].blockno = dir[r].blockno
           /\ UnlinkedEntries(e)[r].writable = dir[r].writable
<1>1. r \in DOMAIN dir /\ dir[r] \in Entry
  BY OpenEntriesAlive DEF Inv, TypeOK
<1>2. CASE e = r
  <2>1. UnlinkedEntries(e) = [dir EXCEPT ![e] = [dir[e] EXCEPT !.state = "unlinked"]]
    BY <1>2 DEF UnlinkedEntries, InUse
  <2> QED
    BY <1>1, <1>2, <2>1 DEF Entry
<1>3. CASE e # r
  BY <1>1, <1>3, UnlinkedDirectory
<1> QED
  BY <1>2, <1>3

(* Closing a handle leaves the entries of the others alone.                *)
LEMMA CloseLeaves ==
    ASSUME Inv, NEW g \in Handles, Close(g), NEW h \in Handles, IsOpen(h), g # h
    PROVE  file'[h] = file[h] /\ dir'[file[h].entry] = dir[file[h].entry]
<1> DEFINE r == file[h].entry
           i == CHOOSE j \in OpenIndices : open_files[j] = g
<1>1. r \in OpenEntries /\ r \in DOMAIN dir
  BY ReadersEntry, OpenEntriesAlive
<1>2. i \in OpenIndices /\ open_files[i] = g
  BY DEF Close, IsOpen
<1>3. /\ file' = [file EXCEPT ![g] = FreedFile]
      /\ \/ dir' = dir
         \/ /\ StillCounted(i) = {}
            /\ dir' = [dir EXCEPT ![EntryOf(i)] = DeletedEntry]
  BY DEF Close
<1> HIDE DEF i
<1>4. StillCounted(i) = {} => EntryOf(i) # r
  <2>1. PICK k \in OpenIndices : open_files[k] = h /\ EntryOf(k) = r
    BY ReadersEntry
  <2> QED
    BY <1>2, <2>1 DEF StillCounted
<1> QED
  BY <1>1, <1>3, <1>4 DEF Inv, TypeOK

(* Renaming leaves size, first block and permission of what is open.       *)
LEMMA RenameLeaves ==
    ASSUME Inv, NEW old \in Names, NEW new \in Names, Rename(old, new), NEW r \in OpenEntries
    PROVE  /\ dir'[r].size = dir[r].size /\ dir'[r].blockno = dir[r].blockno
           /\ dir'[r].writable = dir[r].writable
<1> DEFINE e == First(Found(old))
           t == First(Found(new))
           entries == IF Found(new) = {} THEN dir ELSE UnlinkedEntries(t)
<1>1. r \in DOMAIN dir /\ dir[r] \in Entry
  BY OpenEntriesAlive DEF Inv, TypeOK
<1>2. dir' = [entries EXCEPT ![e] = [dir[e] EXCEPT !.name = new]]
  BY DEF Rename, Replaced
<1>3. Found(new) # {} => t \in DOMAIN dir /\ dir[t].state = "live"
  BY FoundEntry DEF Inv, TypeOK
<1> HIDE DEF e, t
<1>4. DOMAIN entries = DOMAIN dir
  BY <1>3, UnlinkedDirectory
<1>5. /\ entries[r].size = dir[r].size /\ entries[r].blockno = dir[r].blockno
      /\ entries[r].writable = dir[r].writable
  BY <1>1, <1>3, UnlinkKeepsReaders
<1> HIDE DEF entries
<1>6. dir'[r] = IF r = e THEN [dir[r] EXCEPT !.name = new] ELSE entries[r]
  BY <1>1, <1>2, <1>4
<1> QED
  BY <1>1, <1>5, <1>6 DEF Entry

(* No call at all changes size or first block of a reader's file.          *)
LEMMA NextKeepsReaders ==
    ASSUME Inv, Next, NEW h \in Handles,
           IsOpen(h), IsOpen(h)', file[h].mode = "F_READ"
    PROVE  file'[h].entry = file[h].entry /\ SameFile(file[h].entry)
<1> DEFINE r == file[h].entry
<1>1. r \in OpenEntries /\ r \in DOMAIN dir /\ dir[r] \in Entry
  BY ReadersEntry, OpenEntriesAlive DEF Inv, TypeOK
<1>2. ASSUME NEW g \in Handles, Close(g) PROVE file'[h].entry = r /\ SameFile(r)
  <2>1. g # h
    BY <1>2, CloseTakes
  <2> QED
    BY <1>2, <2>1, CloseLeaves DEF SameFile
<1>3. ASSUME NEW name \in Names, Unlink(name) PROVE file'[h].entry = r /\ SameFile(r)
  <2>1. First(Found(name)) \in DOMAIN dir /\ dir[First(Found(name))].state = "live"
    BY <1>3, FoundEntry DEF Inv, TypeOK, Unlink
  <2> QED
    BY <1>1, <1>3, <2>1, UnlinkKeepsReaders DEF Unlink, SameFile
<1>4. ASSUME NEW pair \in Renames, Rename(pair[1], pair[2])
      PROVE  file'[h].entry = r /\ SameFile(r)
  <2>1. pair[1] \in Names /\ pair[2] \in Names
    BY FatAssumption
  <2> QED
    BY <1>1, <1>4, <2>1, RenameLeaves DEF Rename, SameFile
<1>5. CASE Remount
  BY <1>5 DEF Remount, IsOpen, OpenIndices
<1> QED
  BY <1>2, <1>3, <1>4, <1>5, OpenKeepsReaders, UseKeepsReaders DEF Next

(* While a reader has a file open, no call of anyone else's, in any order, *)
(* changes its size or the block it starts at.                             *)
THEOREM ReadersAreKept == Spec => ReadersKeepEntry
<1> DEFINE Kept(h) == LET e == file[h].entry IN
                      IsOpen(h) /\ IsOpen(h)' /\ file[h].mode = "F_READ" =>
                          /\ file'[h].entry = e
                          /\ dir'[e].size = dir[e].size
                          /\ dir'[e].blockno = dir[e].blockno
<1>1. Inv /\ [Next]_vars => [\A h \in Handles : Kept(h)]_vars
  BY NextKeepsReaders DEF SameFile
<1> QED
  BY <1>1, Invariance, PTL DEF Spec, ReadersKeepEntry
=============================================================================
