---------------------------- MODULE FatRefinement ----------------------------
(***************************************************************************)
(* Module Fat implements module FileLocks, for any number of names and     *)
(* handles: a name stands for the live entry that has it, a handle for the *)
(* entry it was opened for.                                                *)
(***************************************************************************)
EXTENDS FatProofs

(* What fs_find finds in directory d, and the file a name stands for there.*)
FoundIn(d, n) == {e \in DOMAIN d : d[e].state = "live" /\ d[e].name = n}
NamedIn(d, n) == IF FoundIn(d, n) = {} THEN NoFile ELSE First(FoundIn(d, n))

(* The refinement mapping, now and after the step.                         *)
LEMMA MappingIs ==
    /\ \A n : Found(n) = FoundIn(dir, n) /\ Found(n)' = FoundIn(dir', n)
    /\ NamedFiles = [n \in Names |-> NamedIn(dir, n)]
    /\ NamedFiles' = [n \in Names |-> NamedIn(dir', n)]
BY DEF Found, FoundIn, NamedEntry, NamedIn, NamedFiles

(* Since a name is that of one live entry at most, the file it stands for  *)
(* is the one that has it.                                                 *)
LEMMA NamedIs ==
    ASSUME NEW d \in Seq(Entry), NEW n,
           \A e, f \in DOMAIN d :
               d[e].state = "live" /\ d[f].state = "live" /\ d[e].name = d[f].name => e = f
    PROVE  /\ NamedIn(d, n) \in Nat
           /\ \A e \in FoundIn(d, n) : NamedIn(d, n) = e
           /\ NamedIn(d, n) # NoFile => NamedIn(d, n) \in FoundIn(d, n)
           /\ NamedIn(d, n) = NoFile => FoundIn(d, n) = {}
<1>1. FoundIn(d, n) \in SUBSET (Nat \ {0})
  BY DEF FoundIn
<1>2. \A e, f \in FoundIn(d, n) : e = f
  BY DEF FoundIn
<1>3. CASE FoundIn(d, n) = {}
  BY <1>3 DEF NamedIn, NoFile
<1>4. CASE FoundIn(d, n) # {}
  <2>1. First(FoundIn(d, n)) \in FoundIn(d, n)
    BY <1>1, <1>4, FirstElement
  <2>2. NamedIn(d, n) = First(FoundIn(d, n))
    BY <1>4 DEF NamedIn
  <2> QED
    BY <1>1, <1>2, <2>1, <2>2 DEF NoFile
<1> QED
  BY <1>3, <1>4

(* A handle is open exactly when the abstract one is.                      *)
LEMMA HeldIs ==
    ASSUME Inv, NEW h \in Handles
    PROVE  /\ HeldFiles[h] # Abstract!Closed <=> IsOpen(h)
           /\ IsOpen(h) => /\ HeldFiles[h].file = file[h].entry
                           /\ HeldFiles[h].mode = file[h].mode
                           /\ file[h].entry \in OpenEntries
           /\ ~IsOpen(h) => HeldFiles[h] = Abstract!Closed
<1>1. file[h].entry # 0
  BY DEF Inv, TypeOK, File
<1> QED
  BY <1>1, ReadersEntry DEF HeldFiles, HeldEntry, Abstract!Closed, NoFile

-----------------------------------------------------------------------------
(* The names stay when the live entries keep their names.                  *)
LEMMA NamesStay ==
    ASSUME \A n \in Names : FoundIn(dir', n) = FoundIn(dir, n)
    PROVE  NamedFiles' = NamedFiles
BY MappingIs DEF NamedIn

(* The handles stay when the list and what they are for stay.              *)
LEMMA HandlesStay ==
    ASSUME open_files' = open_files,
           \A h \in Handles : file'[h].entry = file[h].entry /\ file'[h].mode = file[h].mode
    PROVE  HeldFiles' = HeldFiles
BY DEF HeldFiles, HeldEntry, IsOpen, OpenIndices

(* Reading, writing, seeking and changing permissions are none of the      *)
(* abstract module's business.                                             *)
LEMMA UseStutters ==
    ASSUME Inv, NEW h \in Handles, UseFile(h)
    PROVE  UNCHANGED Abstract!vars
<1>1. /\ file \in [Handles -> File] /\ IsOpen(h)
      /\ \/ file' = file
         \/ \E offset : file' = [file EXCEPT ![h].offset = offset]
  BY DEF UseFile, Write, WriteTo, Read, Lseek, Chmod, Inv, TypeOK
<1>2. \A g \in Handles : file'[g].entry = file[g].entry /\ file'[g].mode = file[g].mode
  BY <1>1 DEF File
<1>3. open_files' = open_files
  BY DEF UseFile, Write, Read, Lseek, Chmod
<1>4. DOMAIN dir' = DOMAIN dir /\
      \A e \in DOMAIN dir : dir'[e].state = dir[e].state /\ dir'[e].name = dir[e].name
  <2> DEFINE e == file[h].entry
  <2>1. e \in DOMAIN dir /\ dir[e] \in Entry
    BY <1>1, OpenHandle
  <2>2. ASSUME NEW len \in Lengths, Write(h, len)
        PROVE  \E b, s : dir' \in {dir, [dir EXCEPT ![e].blockno = b, ![e].size = s]}
    <3>1. dir' = dir \/ \E at, base, table : WriteTo(h, at, base, table, len)
      BY <2>2 DEF Write
    <3>2. ASSUME NEW at, NEW base, NEW table, WriteTo(h, at, base, table, len)
          PROVE  \E s : dir' = [dir EXCEPT ![e].blockno = base, ![e].size = s]
      BY <3>2 DEF WriteTo
    <3> HIDE DEF e
    <3>3. CASE dir' = dir
      BY <3>3
    <3> QED
      BY <3>1, <3>2, <3>3
  <2>3. ASSUME NEW b, NEW s, dir' = [dir EXCEPT ![e].blockno = b, ![e].size = s]
        PROVE  DOMAIN dir' = DOMAIN dir /\
               \A f \in DOMAIN dir : dir'[f].state = dir[f].state /\ dir'[f].name = dir[f].name
    <3>1. dir' = [dir EXCEPT ![e] = [dir[e] EXCEPT !.blockno = b, !.size = s]]
      BY <2>1, <2>3 DEF Entry
    <3> HIDE DEF e
    <3> QED
      BY <2>1, <3>1 DEF Entry
  <2>4. CASE Chmod(h)
    <3>1. dir' = [dir EXCEPT ![e] = [dir[e] EXCEPT !.writable = ~dir[e].writable]]
      BY <2>1, <2>4 DEF Chmod
    <3> HIDE DEF e
    <3> QED
      BY <2>1, <3>1 DEF Entry
  <2>5. CASE dir' = dir
    BY <2>5
  <2>6. \/ dir' = dir \/ Chmod(h) \/ \E len \in Lengths : Write(h, len)
    BY DEF UseFile, Read, Lseek
  <2> HIDE DEF e
  <2> QED
    BY <2>2, <2>3, <2>4, <2>5, <2>6
<1>5. NamedFiles' = NamedFiles
  BY <1>4, NamesStay DEF FoundIn
<1> QED
  BY <1>2, <1>3, <1>5, HandlesStay DEF Abstract!vars

(* What Inv says of the directory, in the form NamedIs asks for.           *)
LEMMA DirectoryIs ==
    ASSUME Inv
    PROVE  /\ dir \in Seq(Entry) /\ DOMAIN dir = 1..Len(dir)
           /\ \A e, f \in DOMAIN dir :
                  dir[e].state = "live" /\ dir[f].state = "live" /\ dir[e].name = dir[f].name
                      => e = f
BY DEF Inv, TypeOK, NamesUnique

(* A handle that joins the list.                                           *)
LEMMA HandleGranted ==
    ASSUME Inv, NEW h \in Handles, ~IsOpen(h), NEW f \in File,
           open_files' = Append(open_files, h),
           file' = [file EXCEPT ![h] = f]
    PROVE  /\ HeldFiles[h] = Abstract!Closed
           /\ HeldFiles' = [HeldFiles EXCEPT ![h] = [file |-> f.entry, mode |-> f.mode]]
<1>1. HeldFiles[h] = Abstract!Closed
  BY HeldIs
<1>2. open_files \in Seq(Handles) /\ file \in [Handles -> File]
  BY DEF Inv, TypeOK
<1>3. \A g \in Handles : IsOpen(g)' <=> IsOpen(g) \/ g = h
  BY <1>2 DEF IsOpen, OpenIndices
<1>4. \A g \in Handles : g # h => file'[g] = file[g]
  BY <1>2
<1>5. file'[h] = f
  BY <1>2
<1>6. \A g \in Handles : HeldEntry(g)' = IF g = h THEN [file |-> f.entry, mode |-> f.mode]
                                                  ELSE HeldEntry(g)
  BY <1>3, <1>4, <1>5 DEF HeldEntry
<1> QED
  BY <1>1, <1>6 DEF HeldFiles

(* fs_open grants the lock the abstract module grants.                     *)
LEMMA OpenImplements ==
    ASSUME Inv, NEW h \in Handles, NEW name \in Names, NEW mode \in Modes,
           OpenExisting(h, name, mode)
    PROVE  Abstract!OpenFile(h, name, mode)
<1> DEFINE e == First(Found(name))
           f == [entry |-> e, mode |-> mode,
                 offset |-> IF mode = "F_APPEND" THEN dir[e].size ELSE 0]
<1>1. /\ e \in 1..Len(dir) /\ dir[e] \in Entry /\ dir[e].state = "live"
      /\ DOMAIN dir = 1..Len(dir) /\ dir[e].name = name
  BY FoundEntry DEF Inv, TypeOK, OpenExisting
<1>2. /\ ~IsOpen(h) /\ ~Locked(e, mode)
      /\ open_files' = Append(open_files, h)
      /\ file' = [file EXCEPT ![h] = f]
      /\ \/ dir' = dir
         \/ dir' = [dir EXCEPT ![e] = [dir[e] EXCEPT !.blockno = 0, !.size = 0]]
  BY <1>1 DEF OpenExisting, Inv, TypeOK, Entry
<1>3. f \in File /\ f.entry = e /\ f.mode = mode
  BY <1>1, UintPositive DEF File, Entry
<1>4. NamedFiles[name] = e /\ e # NoFile
  <2>1. e \in FoundIn(dir, name)
    BY <1>1 DEF FoundIn
  <2> HIDE DEF e
  <2> QED
    BY <1>1, <2>1, DirectoryIs, NamedIs, MappingIs DEF NoFile
<1> HIDE DEF e, f
<1>5. NamedFiles' = NamedFiles
  <2>1. DOMAIN dir' = DOMAIN dir /\
        \A g \in DOMAIN dir : dir'[g].state = dir[g].state /\ dir'[g].name = dir[g].name
    <3>1. CASE dir' = dir
      BY <3>1
    <3>2. CASE dir' = [dir EXCEPT ![e] = [dir[e] EXCEPT !.blockno = 0, !.size = 0]]
      BY <1>1, <3>2 DEF Entry
    <3> QED
      BY <1>2, <3>1, <3>2
  <2> QED
    BY <2>1, NamesStay DEF FoundIn
<1>6. HeldFiles[h] = Abstract!Closed
      /\ HeldFiles' = [HeldFiles EXCEPT ![h] = [file |-> e, mode |-> mode]]
  BY <1>2, <1>3, HandleGranted
<1>7. ~Abstract!Excluded(e, mode)
  <2> SUFFICES ASSUME NEW g \in Handles, HeldFiles[g] # Abstract!Closed,
                      HeldFiles[g].file = e, HeldFiles[g].mode # "F_READ" \/ mode # "F_READ"
               PROVE  FALSE
    BY DEF Abstract!Excluded, Abstract!Open
  <2>1. IsOpen(g) /\ file[g].entry = e /\ file[g].mode = HeldFiles[g].mode
    BY HeldIs
  <2>2. PICK k \in OpenIndices : EntryOf(k) = e /\ ModeOf(k) = HeldFiles[g].mode
    BY <2>1, ReadersEntry
  <2> QED
    BY <1>2, <2>2 DEF Locked
<1> QED
  BY <1>4, <1>5, <1>6, <1>7 DEF Abstract!OpenFile, Abstract!Grant

(* fs_makefile gives a new file an identity that no name and no handle     *)
(* refers to.                                                              *)
LEMMA MakeFileImplements ==
    ASSUME Inv, NEW h \in Handles, NEW name \in Names, NEW mode \in Modes,
           MakeFile(h, name, mode)
    PROVE  Abstract!Create(h, name, mode)
<1> DEFINE grows == FreeEntries = {}
           e == IF grows THEN Len(dir) + 1 ELSE First(FreeEntries)
           entries == IF grows THEN dir \o EmptyBlock ELSE dir
           new == [EmptyEntry EXCEPT !.state = "live", !.name = name]
           f == [entry |-> e, offset |-> 0, mode |-> mode]
<1>1. /\ ~IsOpen(h) /\ Found(name) = {} /\ mode # "F_READ"
      /\ open_files' = Append(open_files, h)
      /\ file' = [file EXCEPT ![h] = f]
      /\ dir' = [entries EXCEPT ![e] = new]
  BY DEF MakeFile
<1>2. /\ entries \in Seq(Entry) /\ Len(dir) <= Len(entries)
      /\ \A g \in DOMAIN dir : entries[g] = dir[g]
      /\ \A g \in DOMAIN entries \ DOMAIN dir : entries[g].state = "end"
      /\ grows => Len(dir) + 1 \in DOMAIN entries
  <2>1. entries \in {dir, dir \o EmptyBlock}
    OBVIOUS
  <2>2. grows => entries = dir \o EmptyBlock
    OBVIOUS
  <2> HIDE DEF entries
  <2> QED
    BY <2>1, <2>2, GrownDirectory
<1>3. DOMAIN dir = 1..Len(dir) /\ Len(dir) \in Nat
  BY DEF Inv, TypeOK
<1>4. /\ e \in DOMAIN entries /\ e \in Nat \ {0}
      /\ e \in DOMAIN dir => dir[e].state \in Reusable
  <2>1. CASE grows
    BY <1>2, <1>3, <2>1
  <2>2. CASE ~grows
    <3>1. FreeEntries \in SUBSET Nat
      BY <1>3 DEF FreeEntries
    <3>2. First(FreeEntries) \in FreeEntries
      BY <2>2, <3>1, FirstElement
    <3> QED
      BY <1>2, <1>3, <2>2, <3>2 DEF FreeEntries
  <2> QED
    BY <2>1, <2>2
<1>5. new.state = "live" /\ new.name = name
  BY DEF EmptyEntry
<1>6. f \in File /\ f.entry = e /\ f.mode = mode
  BY <1>4, UintPositive DEF File
<1> HIDE DEF grows, e, entries, new, f
<1>7. /\ DOMAIN dir' = DOMAIN entries /\ dir'[e] = new
      /\ \A g \in DOMAIN dir' \ {e} : dir'[g] = entries[g]
  BY <1>1, <1>2, <1>4
<1>8. \A n \in Names \ {name} : FoundIn(dir', n) = FoundIn(dir, n)
  <2> TAKE n \in Names \ {name}
  <2>1. \A g : g \in FoundIn(dir', n) => g \in FoundIn(dir, n)
    BY <1>2, <1>5, <1>7 DEF FoundIn
  <2>2. \A g : g \in FoundIn(dir, n) => g \in FoundIn(dir', n)
    <3> TAKE g
    <3> HAVE g \in FoundIn(dir, n)
    <3>1. g \in DOMAIN dir /\ dir[g].state = "live" /\ dir[g].name = n
      BY DEF FoundIn
    <3>2. g # e /\ g \in DOMAIN entries
      BY <1>2, <1>3, <1>4, <3>1 DEF Reusable
    <3> QED
      BY <1>2, <1>7, <3>1, <3>2 DEF FoundIn
  <2> QED
    BY <2>1, <2>2
<1>9. FoundIn(dir', name) = {e}
  <2>1. \A g \in DOMAIN dir : ~(dir[g].state = "live" /\ dir[g].name = name)
    BY <1>1 DEF Found
  <2> QED
    BY <1>2, <1>5, <1>7, <1>4, <2>1 DEF FoundIn
<1>10. NamedFiles[name] = NoFile
  BY <1>1, MappingIs DEF NamedIn
<1>11. NamedFiles' = [NamedFiles EXCEPT ![name] = e]
  <2>1. NamedIn(dir', name) = e
    <3>1. First({e}) \in {e}
      BY <1>4, FirstElement
    <3> QED
      BY <1>9, <3>1 DEF NamedIn
  <2>2. \A n \in Names \ {name} : NamedIn(dir', n) = NamedIn(dir, n)
    BY <1>8 DEF NamedIn
  <2> QED
    BY <2>1, <2>2, MappingIs
<1>12. NamedFiles'[name] = e
  BY <1>11 DEF NamedFiles
<1>13. /\ HeldFiles[h] = Abstract!Closed
       /\ HeldFiles' = [HeldFiles EXCEPT ![h] = [file |-> e, mode |-> mode]]
  BY <1>1, <1>6, HandleGranted
<1>14. e \notin Abstract!Used
  <2>1. \A n \in Names : NamedFiles[n] # e
    <3> SUFFICES ASSUME NEW n \in Names, NamedFiles[n] = e PROVE FALSE
      OBVIOUS
    <3>1. e \in FoundIn(dir, n)
      BY <1>4, DirectoryIs, NamedIs, MappingIs DEF NoFile
    <3> QED
      BY <1>4, <3>1 DEF FoundIn, Reusable
  <2>2. \A g \in Handles : HeldFiles[g] # Abstract!Closed => HeldFiles[g].file # e
    <3>1. e \notin OpenEntries
      BY <1>4, OpenEntriesAlive DEF Reusable
    <3> QED
      BY <3>1, HeldIs
  <2> QED
    BY <2>1, <2>2 DEF Abstract!Used, Abstract!Open
<1> QED
  BY <1>1, <1>4, <1>10, <1>11, <1>12, <1>13, <1>14 DEF Abstract!Create, Abstract!Grant

-----------------------------------------------------------------------------
(* fs_close takes one handle off the list; an entry it deletes had no name *)
(* any more.                                                               *)
LEMMA CloseImplements ==
    ASSUME Inv, NEW h \in Handles, Close(h)
    PROVE  Abstract!Close(h)
<1> DEFINE i == CHOOSE j \in OpenIndices : open_files[j] = h
           e == EntryOf(i)
           n == Len(open_files)
<1>1. i \in OpenIndices /\ open_files[i] = h
  BY DEF Close, IsOpen
<1>2. n \in Nat /\ OpenIndices = 1..n /\ file \in [Handles -> File]
  BY DEF Inv, TypeOK, OpenIndices
<1>3. /\ open_files' = Untrack(i)
      /\ file' = [file EXCEPT ![h] = FreedFile]
      /\ \/ dir' = dir
         \/ dir' = [dir EXCEPT ![e] = DeletedEntry] /\ dir[e].state = "unlinked"
  BY DEF Close
<1>4. \A j, k \in OpenIndices : open_files[j] = open_files[k] => j = k
  BY DEF Inv, HandlesAlive
<1>5. HeldFiles[h] # Abstract!Closed
  BY HeldIs DEF Close
<1> HIDE DEF i, e, n
<1>6. /\ OpenIndices' = 1..n - 1
      /\ \A j \in 1..n - 1 : open_files'[j] = IF j = i THEN open_files[n] ELSE open_files[j]
  <2>1. open_files' = [j \in 1..n - 1 |-> IF j = i THEN open_files[n] ELSE open_files[j]]
    BY <1>3 DEF Untrack, n
  <2>2. n - 1 \in Nat
    BY <1>1, <1>2
  <2> QED
    BY <2>1, <2>2 DEF OpenIndices
<1>7. \A g \in Handles : IsOpen(g)' <=> IsOpen(g) /\ g # h
  <2> TAKE g \in Handles
  <2>1. ASSUME NEW j \in 1..n - 1, open_files'[j] = g PROVE IsOpen(g) /\ g # h
    <3>1. CASE j = i
      <4>1. n \in OpenIndices /\ n # i /\ open_files[n] = g
        BY <1>2, <1>6, <2>1, <3>1
      <4> QED
        BY <1>1, <1>4, <4>1 DEF IsOpen
    <3>2. CASE j # i
      <4>1. j \in OpenIndices /\ open_files[j] = g
        BY <1>2, <1>6, <2>1, <3>2
      <4> QED
        BY <1>1, <1>4, <3>2, <4>1 DEF IsOpen
    <3> QED
      BY <3>1, <3>2
  <2>2. ASSUME NEW k \in OpenIndices, open_files[k] = g, g # h
        PROVE  \E j \in 1..n - 1 : open_files'[j] = g
    <3>1. k # i /\ k \in 1..n /\ i \in 1..n
      BY <1>1, <1>2, <2>2
    <3>2. CASE k = n
      <4>1. i \in 1..n - 1
        BY <1>2, <3>1, <3>2
      <4> QED
        BY <1>6, <2>2, <3>2, <4>1
    <3>3. CASE k # n
      <4>1. k \in 1..n - 1
        BY <1>2, <3>1, <3>3
      <4> QED
        BY <1>6, <2>2, <3>1, <4>1
    <3> QED
      BY <3>2, <3>3
  <2>3. IsOpen(g)' <=> \E j \in 1..n - 1 : open_files'[j] = g
    BY <1>6 DEF IsOpen
  <2>4. IsOpen(g) <=> \E k \in OpenIndices : open_files[k] = g
    BY DEF IsOpen
  <2> QED
    BY <2>1, <2>2, <2>3, <2>4
<1>8. HeldFiles' = [HeldFiles EXCEPT ![h] = Abstract!Closed]
  <2>1. \A g \in Handles : g # h => file'[g] = file[g]
    BY <1>2, <1>3
  <2>2. \A g \in Handles : HeldEntry(g)' = IF g = h THEN Abstract!Closed ELSE HeldEntry(g)
    BY <1>7, <2>1 DEF HeldEntry, Abstract!Closed
  <2> QED
    BY <2>2 DEF HeldFiles
<1>9. NamedFiles' = NamedFiles
  <2>1. CASE dir' = dir
    BY <2>1, NamesStay
  <2>2. CASE dir' = [dir EXCEPT ![e] = DeletedEntry] /\ dir[e].state = "unlinked"
    <3>1. \A m \in Names : FoundIn(dir', m) = FoundIn(dir, m)
      BY <2>2, EntryTypes DEF FoundIn
    <3> QED
      BY <3>1, NamesStay
  <2> QED
    BY <1>3, <2>1, <2>2
<1> QED
  BY <1>5, <1>8, <1>9 DEF Abstract!Close

(* A directory in which entry e alone has changed, and what becomes of the *)
(* names then.                                                             *)
LEMMA OneEntryChanged ==
    ASSUME NEW d \in Seq(Entry), NEW d2 \in Seq(Entry), NEW e \in DOMAIN d,
           d[e].state = "live", d2[e].state # "live", DOMAIN d2 = DOMAIN d,
           \A g \in DOMAIN d \ {e} : d2[g] = d[g]
    PROVE  \A n : FoundIn(d2, n) = FoundIn(d, n) \ {e}
BY DEF FoundIn

(* fs_unlink takes the name away, whether or not the file is open.         *)
LEMMA UnlinkImplements ==
    ASSUME Inv, NEW name \in Names, Unlink(name)
    PROVE  Abstract!Unlink(name)
<1> DEFINE e == First(Found(name))
<1>1. e \in DOMAIN dir /\ dir[e].state = "live" /\ dir[e].name = name
  BY FoundEntry DEF Inv, TypeOK, Unlink
<1>2. dir' = UnlinkedEntries(e) /\ UNCHANGED <<file, open_files>>
  BY DEF Unlink
<1> HIDE DEF e
<1>3. /\ dir' \in Seq(Entry) /\ DOMAIN dir' = DOMAIN dir
      /\ \A g \in DOMAIN dir \ {e} : dir'[g] = dir[g]
      /\ dir'[e].state # "live"
  BY <1>1, <1>2, UnlinkedDirectory
<1>4. \A n : FoundIn(dir', n) = FoundIn(dir, n) \ {e}
  BY <1>1, <1>3, DirectoryIs, OneEntryChanged
<1>5. e \in FoundIn(dir, name) /\ \A n \in Names \ {name} : e \notin FoundIn(dir, n)
  BY <1>1 DEF FoundIn
<1>6. FoundIn(dir, name) \ {e} = {}
  BY <1>5, DirectoryIs DEF FoundIn
<1>7. \A n \in Names : NamedIn(dir', n) = IF n = name THEN NoFile ELSE NamedIn(dir, n)
  BY <1>4, <1>5, <1>6 DEF NamedIn
<1>8. NamedFiles' = [NamedFiles EXCEPT ![name] = NoFile]
  BY <1>7, MappingIs
<1>9. NamedFiles[name] # NoFile
  BY <1>1, <1>5, DirectoryIs, NamedIs, MappingIs DEF NoFile
<1>10. HeldFiles' = HeldFiles
  BY <1>2, HandlesStay
<1> QED
  BY <1>8, <1>9, <1>10 DEF Abstract!Unlink

(* fs_rename gives the file the new name, and takes it from the file that  *)
(* had it; renaming a file to the name it has changes no name.             *)
LEMMA RenameImplements ==
    ASSUME Inv, NEW old \in Names, NEW new \in Names, Rename(old, new)
    PROVE  Abstract!Rename(old, new)
<1> DEFINE e == First(Found(old))
           t == First(Found(new))
           entries == IF Found(new) = {} THEN dir ELSE UnlinkedEntries(t)
           renamed == [dir[e] EXCEPT !.name = new]
<1>1. /\ e \in DOMAIN dir /\ dir[e] \in Entry /\ dir[e].state = "live" /\ dir[e].name = old
      /\ Found(new) # {} => /\ t \in DOMAIN dir /\ dir[t].state = "live"
                            /\ dir[t].name = new
  BY FoundEntry DEF Inv, TypeOK, Rename
<1>2. dir' = [entries EXCEPT ![e] = renamed] /\ UNCHANGED <<file, open_files>>
  BY DEF Rename, Replaced
<1>3. renamed.state = "live" /\ renamed.name = new
  BY <1>1 DEF Entry
<1> HIDE DEF e, t, renamed
<1>4. /\ DOMAIN entries = DOMAIN dir
      /\ \A n : \A g \in DOMAIN dir : entries[g].state = "live" /\ entries[g].name = n
             <=> g \in FoundIn(dir, n) /\ (Found(new) # {} => g # t)
  <2>1. CASE Found(new) = {}
    BY <2>1 DEF FoundIn
  <2>2. CASE Found(new) # {}
    <3>1. entries = UnlinkedEntries(t) /\ t \in DOMAIN dir /\ dir[t].state = "live"
      BY <1>1, <2>2
    <3> HIDE DEF entries
    <3>2. /\ DOMAIN entries = DOMAIN dir
          /\ \A g \in DOMAIN dir \ {t} : entries[g] = dir[g]
          /\ entries[t].state # "live"
      BY <3>1, UnlinkedDirectory
    <3> QED
      BY <2>2, <3>2 DEF FoundIn
  <2> QED
    BY <2>1, <2>2
<1>5. \A g \in FoundIn(dir, new) : g = t /\ Found(new) # {}
  <2>1. \A g \in FoundIn(dir, new) : Found(new) # {}
    BY MappingIs
  <2> QED
    BY <1>1, <2>1, DirectoryIs DEF FoundIn
<1> HIDE DEF entries
<1>6. /\ DOMAIN dir' = DOMAIN dir /\ dir'[e] = renamed
      /\ \A g \in DOMAIN dir \ {e} : dir'[g] = entries[g]
  BY <1>1, <1>2, <1>4
<1>7. FoundIn(dir', new) = {e}
  <2>1. \A g \in DOMAIN dir \ {e} : ~(dir'[g].state = "live" /\ dir'[g].name = new)
    BY <1>4, <1>5, <1>6
  <2> QED
    BY <1>1, <1>3, <1>6, <2>1 DEF FoundIn
<1>8. \A n \in Names \ {new} : FoundIn(dir', n) = FoundIn(dir, n) \ {e}
  <2> TAKE n \in Names \ {new}
  <2>1. e \notin FoundIn(dir', n)
    BY <1>3, <1>6 DEF FoundIn
  <2>2. \A g \in DOMAIN dir \ {e} : g \in FoundIn(dir', n) <=> g \in FoundIn(dir, n)
    <3>1. Found(new) # {} => t \notin FoundIn(dir, n)
      BY <1>1 DEF FoundIn
    <3> QED
      BY <1>4, <1>6, <3>1 DEF FoundIn
  <2>3. FoundIn(dir', n) \subseteq DOMAIN dir /\ FoundIn(dir, n) \subseteq DOMAIN dir
    BY <1>6 DEF FoundIn
  <2> QED
    BY <2>1, <2>2, <2>3
<1>9. e \in FoundIn(dir, old) /\ \A n \in Names \ {old} : e \notin FoundIn(dir, n)
  BY <1>1 DEF FoundIn
<1>10. FoundIn(dir, old) \ {e} = {} /\ e \in Nat \ {0}
  BY <1>1, <1>9, DirectoryIs DEF FoundIn
<1>11. NamedFiles[old] = e /\ e # NoFile
  BY <1>9, <1>10, DirectoryIs, NamedIs, MappingIs DEF NoFile
<1>12. NamedIn(dir', new) = e
  <2>1. First({e}) \in {e}
    BY <1>10, FirstElement
  <2> QED
    BY <1>7, <2>1 DEF NamedIn
<1>13. \A n \in Names \ {new} :
           NamedIn(dir', n) = IF n = old THEN NoFile ELSE NamedIn(dir, n)
  BY <1>8, <1>9, <1>10 DEF NamedIn
<1>14. NamedFiles' = [NamedFiles EXCEPT ![old] = NoFile, ![new] = NamedFiles[old]]
  BY <1>11, <1>12, <1>13, MappingIs
<1>15. HeldFiles' = HeldFiles
  BY <1>2, HandlesStay
<1> QED
  BY <1>11, <1>14, <1>15 DEF Abstract!Rename

(* A new mount starts with no open handle and the names there are.         *)
LEMMA RemountImplements ==
    ASSUME Inv, Remount
    PROVE  Abstract!Restart
<1>1. NamedFiles' = NamedFiles
  BY NamesStay DEF Remount
<1>2. \A h \in Handles : ~IsOpen(h)'
  BY DEF Remount, IsOpen, OpenIndices
<1>3. HeldFiles' = [h \in Handles |-> Abstract!Closed]
  BY <1>2 DEF HeldFiles, HeldEntry, Abstract!Closed
<1> QED
  BY <1>1, <1>3 DEF Abstract!Restart

-----------------------------------------------------------------------------
(* A freshly made filesystem has no names and no open handles.             *)
LEMMA InitImplements == Init => Abstract!Init
<1> SUFFICES ASSUME Init PROVE Abstract!Init
  OBVIOUS
<1>1. \A n : Found(n) = {}
  BY DEF Init, EmptyBlock, EmptyEntry, Found
<1>2. \A h : ~IsOpen(h)
  BY DEF Init, IsOpen, OpenIndices
<1>3. NamedFiles = [n \in Names |-> NoFile]
  BY <1>1 DEF NamedFiles, NamedEntry
<1>4. HeldFiles = [h \in Handles |-> Abstract!Closed]
  BY <1>2 DEF HeldFiles, HeldEntry, Abstract!Closed
<1> QED
  BY <1>3, <1>4 DEF Abstract!Init

(* Every call is a step of the abstract module, or none.                   *)
LEMMA NextImplements ==
    ASSUME Inv, [Next]_vars
    PROVE  [Abstract!Next]_(Abstract!vars)
<1>1. ASSUME NEW h \in Handles, OpenFile(h) PROVE Abstract!Next
  <2>1. ASSUME NEW name \in Names, NEW mode \in Modes, OpenExisting(h, name, mode)
        PROVE  Abstract!OpenFile(h, name, mode) /\ mode \in Abstract!Modes
    BY <2>1, OpenImplements DEF Modes, Abstract!Modes
  <2>2. ASSUME NEW name \in Names, NEW mode \in Modes, MakeFile(h, name, mode)
        PROVE  Abstract!Create(h, name, mode) /\ mode \in Abstract!Modes
    BY <2>2, MakeFileImplements DEF Modes, Abstract!Modes
  <2> QED
    BY <1>1, <2>1, <2>2 DEF OpenFile, Abstract!Next
<1>2. ASSUME NEW h \in Handles, UseFile(h) PROVE UNCHANGED Abstract!vars
  BY <1>2, UseStutters
<1>3. ASSUME NEW h \in Handles, Close(h) PROVE Abstract!Next
  BY <1>3, CloseImplements DEF Abstract!Next
<1>4. ASSUME NEW name \in Names, Unlink(name) PROVE Abstract!Next
  BY <1>4, UnlinkImplements DEF Abstract!Next
<1>5. ASSUME NEW pair \in Renames, Rename(pair[1], pair[2]) PROVE Abstract!Next
  <2>1. pair[1] \in Names /\ pair[2] \in Names
    BY FatAssumption
  <2>2. Abstract!Rename(pair[1], pair[2])
    BY <1>5, <2>1, RenameImplements
  <2> QED
    BY <2>1, <2>2 DEF Abstract!Next
<1>6. ASSUME Remount PROVE Abstract!Next
  BY <1>6, RemountImplements DEF Abstract!Next
<1>7. ASSUME UNCHANGED vars PROVE UNCHANGED Abstract!vars
  BY <1>7, NamesStay, HandlesStay DEF vars, Abstract!vars
<1> QED
  BY <1>1, <1>2, <1>3, <1>4, <1>5, <1>6, <1>7 DEF Next

(* Whichever calls are made in whichever order, names, files and locks are *)
(* those FileLocks promises.                                               *)
THEOREM Refinement == Spec => ImplementsFileLocks
<1>1. Inv /\ [Next]_vars => [Abstract!Next]_(Abstract!vars)
  BY NextImplements
<1> QED
  BY <1>1, InitImplements, Invariance, PTL DEF Spec, ImplementsFileLocks, Abstract!Spec
=============================================================================
