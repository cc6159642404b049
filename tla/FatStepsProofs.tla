---------------------------- MODULE FatStepsProofs ----------------------------
(***************************************************************************)
(* The filesystem when the timer may come in between two calls, or in a    *)
(* call that has marked a block and not yet linked it: for every size of   *)
(* disk and any number of processes, names and handles no block gets two   *)
(* owners, none is lost, and the locks hold.                               *)
(***************************************************************************)
EXTENDS ChainProofs, FatSteps

(* Where the theorems let the timer come in.  At any other point the code  *)
(* breaks its promises, as the runs DocLockRace and DocBlockRace show.     *)
SafePoints == PreemptPoints \subseteq {"call", "link"}

-----------------------------------------------------------------------------
(* A free block that is marked becomes a chain no file has yet.            *)
LEMMA ExtraMarked ==
    ASSUME NEW t, NEW d, NEW extra, Owns(t, d, extra), NEW b \in Free(t)
    PROVE  /\ Owns(MarkEnd(t, b), d, extra \cup {b})
           /\ Chain(MarkEnd(t, b), 1) = Chain(t, 1)
           /\ SameExtra(t, MarkEnd(t, b), extra)
           /\ Chain(MarkEnd(t, b), b) = {b}
           /\ b \in Blocks /\ b \notin extra
<1>1. Layout(t, HeadSet(d) \cup extra) /\ 1 \in HeadSet(d)
  BY DEF Owns, HeadSet
<1>2. /\ Layout(MarkEnd(t, b), (HeadSet(d) \cup extra) \cup {b})
      /\ b \notin HeadSet(d) \cup extra /\ b \in Blocks
      /\ Chain(MarkEnd(t, b), b) = {b}
      /\ \A c \in HeadSet(d) \cup extra : Chain(MarkEnd(t, b), c) = Chain(t, c)
  BY <1>1, LayoutNew
<1>3. (HeadSet(d) \cup extra) \cup {b} = HeadSet(d) \cup (extra \cup {b})
  OBVIOUS
<1>4. Owns(MarkEnd(t, b), d, extra \cup {b})
  BY <1>2, <1>3 DEF Owns
<1> QED
  BY <1>1, <1>2, <1>4 DEF SameExtra

(* It may become the first block of a file that has none ...               *)
LEMMA ExtraFirst ==
    ASSUME NEW t, NEW d, NEW d2, NEW extra, Owns(t, d, extra), NEW b \in extra,
           NEW e \in Nat, SameBut(d, d2, e), HeadOf(d, e) = 0, HeadOf(d2, e) = b
    PROVE  Owns(t, d2, extra \ {b})
<1>1. b \notin HeadSet(d) /\ b # 0 /\ b # 1
  BY DEF Owns, Layout, Blocks, HeadSet
<1>2. HeadSet(d2) = HeadSet(d) \cup {b}
  <2>1. {HeadOf(d2, f) : f \in Nat} \ {0} = ({HeadOf(d, f) : f \in Nat} \ {0}) \cup {b}
    BY <1>1 DEF SameBut
  <2> QED
    BY <2>1 DEF HeadSet
<1>3. \A f \in Nat : HeadOf(d, f) # b
  BY <1>1 DEF HeadSet
<1>4. \A f \in Nat : HeadOf(d2, f) = HeadOf(d, f) \/ (f = e /\ HeadOf(d2, f) = b)
  BY DEF SameBut
<1>5. \A f, g \in Nat : f # g /\ HeadOf(d2, f) = HeadOf(d2, g) => HeadOf(d2, f) = 0
  BY <1>3, <1>4 DEF Owns, SameBut
<1>6. \A f \in Nat : HeadOf(d2, f) # 1
  BY <1>1, <1>4 DEF Owns
<1>7. /\ HeadSet(d2) \cup (extra \ {b}) = HeadSet(d) \cup extra
      /\ (extra \ {b}) \cap HeadSet(d2) = {}
  BY <1>2 DEF Owns
<1> QED
  BY <1>5, <1>6, <1>7 DEF Owns

(* ... or the last one of a file that has others.                          *)
LEMMA ExtraLinked ==
    ASSUME NEW t, NEW d, NEW extra, Owns(t, d, extra), NEW b \in extra,
           Chain(t, b) = {b}, NEW e \in Nat, HeadOf(d, e) # 0,
           NEW last \in Chain(t, HeadOf(d, e)), t[last] = FAT_EOF
    PROVE  /\ Owns(LinkTo(t, last, b), d, extra \ {b})
           /\ Chain(LinkTo(t, last, b), 1) = Chain(t, 1)
           /\ SameExtra(t, LinkTo(t, last, b), extra \ {b})
<1> DEFINE u == LinkTo(t, last, b)
           a == HeadOf(d, e)
           B == HeadSet(d) \cup extra
<1>1. /\ Layout(t, HeadSet(d) \cup extra) /\ extra \cap HeadSet(d) = {}
      /\ a \in HeadSet(d) /\ a # 1 /\ 1 \in HeadSet(d)
  BY OwnedHead DEF Owns
<1>2. Layout(u, B \ {b}) /\ \A c \in B \ {a, b} : Chain(u, c) = Chain(t, c)
  <2>1. a \in B /\ b \in B \ {a} /\ last \in Chain(t, a) /\ Layout(t, B)
    BY <1>1
  <2> HIDE DEF a, B
  <2> QED
    BY <2>1, LayoutJoin
<1>3. B \ {b} = HeadSet(d) \cup (extra \ {b})
  BY <1>1
<1> HIDE DEF u, a
<1>4. Owns(u, d, extra \ {b})
  BY <1>1, <1>2, <1>3 DEF Owns
<1> QED
  BY <1>1, <1>2, <1>4 DEF SameExtra, u

-----------------------------------------------------------------------------
(* What a process may be at, and remember.                                 *)
StepRecord == [at : Points, name : Names, mode : Modes, entry : Nat, block : Nat,
               handle : Handles \cup {NoHandle}]
StepsTyped == running \in Processes /\ step \in [Processes -> StepRecord]

(* Every process but the running one waits between two calls or with a     *)
(* marked block; each has a handle of its own.                             *)
OthersWait == \A p \in Processes : p = running \/ step[p].at \in {"call", "link"}
Holders ==
    /\ \A p \in Processes : step[p].handle # NoHandle => IsOpen(step[p].handle)
    /\ \A p, q \in Processes : p # q /\ step[p].handle # NoHandle
                                  => step[p].handle # step[q].handle
    /\ \A p \in Processes : step[p].at \in {"mark", "link"} => step[p].handle # NoHandle

(* What a process has found is so: nobody came in between.                 *)
FoundFile(s) ==
    /\ Found(s.name) # {} /\ s.entry = First(Found(s.name))
    /\ ~Locked(s.entry, s.mode) /\ HandleLeft /\ s.handle = NoHandle
FoundEntryFree(s) ==
    /\ Found(s.name) = {} /\ s.mode # "F_READ" /\ s.name \in ValidNames
    /\ FreeEntries # {} /\ s.entry = First(FreeEntries) /\ HandleLeft
    /\ s.handle = NoHandle
IsSo(s) ==
    /\ s.at = "track" => FoundFile(s)
    /\ s.at = "entry" => FoundEntryFree(s)
    /\ s.at = "mark" => s.block \in Free(fat)
    /\ s.at = "link" => s.block \in Blocks /\ Chain(fat, s.block) = {s.block}
MarkedOnce == \A p, q \in Marked : p # q => step[p].block # step[q].block

(* The inductive invariant: that of the calls, with the blocks in flight   *)
(* as chains no file has, and what every process is at.                    *)
StepsInv ==
    /\ Inv /\ LaidOver(InFlight)
    /\ StepsTyped /\ OthersWait /\ Holders /\ MarkedOnce
    /\ \A p \in Processes : IsSo(step[p])

(* What process p does leaves the other processes where they are.          *)
OnlyMoves(p) ==
    /\ p = running /\ running' = running
    /\ step' \in [Processes -> StepRecord]
    /\ \A q \in Processes \ {p} : step'[q] = step[q]

(* Go is such a move.                                                      *)
LEMMA GoMoves ==
    ASSUME StepsInv, NEW p \in Processes, NEW point, At(p, point),
           NEW s \in StepRecord, Go(p, s)
    PROVE  OnlyMoves(p) /\ step'[p] = s
BY DEF StepsInv, StepsTyped, At, Go, OnlyMoves

(* Nothing is marked, and nothing linked.                                  *)
LEMMA SameInFlight ==
    ASSUME StepsInv, NEW p \in Processes, OnlyMoves(p),
           step[p].at # "link", step'[p].at # "link"
    PROVE  Marked' = Marked /\ InFlight' = InFlight /\ MarkedOnce'
<1>1. \A q \in Processes : step'[q].at = "link" <=> step[q].at = "link"
  BY DEF OnlyMoves
<1>2. Marked' = Marked
  BY <1>1 DEF Marked
<1>3. \A q \in Marked : step'[q] = step[q]
  BY DEF OnlyMoves, Marked
<1>4. InFlight' = InFlight
  BY <1>2, <1>3 DEF InFlight
<1>5. MarkedOnce'
  BY <1>2, <1>3 DEF StepsInv, MarkedOnce
<1> QED
  BY <1>2, <1>4, <1>5

(* What a step of process p has to show.                                   *)
LEMMA StepHolds ==
    ASSUME StepsInv, NEW p \in Processes, OnlyMoves(p),
           Inv', LaidOver(InFlight)', MarkedOnce', Holders', IsSo(step[p])',
           \A q \in Marked \ {p} : Chain(fat', step[q].block) = Chain(fat, step[q].block)
    PROVE  StepsInv'
<1>1. StepsTyped' /\ OthersWait'
  BY DEF StepsInv, StepsTyped, OthersWait, OnlyMoves
<1>2. ASSUME NEW q \in Processes \ {p} PROVE IsSo(step[q])'
  <2>1. step'[q] = step[q] /\ step[q].at \in {"call", "link"} /\ IsSo(step[q])
    BY DEF OnlyMoves, StepsInv, OthersWait
  <2>2. step[q].at = "link" => q \in Marked \ {p}
    BY DEF Marked
  <2> QED
    BY <2>1, <2>2 DEF IsSo
<1>3. \A q \in Processes : IsSo(step[q])'
  BY <1>2
<1> QED
  BY <1>1, <1>3 DEF StepsInv

(* The handles stay when the list of open files and the processes' hands   *)
(* do.                                                                     *)
LEMMA SameHolders ==
    ASSUME StepsInv, NEW p \in Processes, OnlyMoves(p), open_files' = open_files,
           step'[p].handle = step[p].handle,
           step'[p].at \in {"mark", "link"} => step[p].handle # NoHandle
    PROVE  Holders'
BY DEF StepsInv, Holders, OnlyMoves, IsOpen, OpenIndices

(* The handle a call of fs_open makes is no other process's.               *)
LEMMA HoldersJoin ==
    ASSUME StepsInv, NEW p \in Processes, OnlyMoves(p), NEW h \in Handles, ~IsOpen(h),
           open_files' = Append(open_files, h),
           step'[p].handle = h, step'[p].at = "call"
    PROVE  Holders'
<1>1. open_files \in Seq(Handles) /\ Len(open_files) \in Nat
  BY DEF StepsInv, Inv, TypeOK
<1>2. \A g \in Handles : IsOpen(g)' <=> IsOpen(g) \/ g = h
  <2>1. Len(open_files') = Len(open_files) + 1 /\ open_files'[Len(open_files) + 1] = h
    BY <1>1
  <2>2. \A i \in 1..Len(open_files) : open_files'[i] = open_files[i]
    BY <1>1
  <2> QED
    BY <1>1, <2>1, <2>2 DEF IsOpen, OpenIndices
<1>3. \A q \in Processes : step[q].handle # NoHandle => step[q].handle \in Handles
  BY DEF StepsInv, StepsTyped, StepRecord
<1>4. \A q \in Processes \ {p} : step'[q].handle # NoHandle =>
          IsOpen(step[q].handle) /\ step'[q].handle # h /\ step[q].handle \in Handles
  BY <1>3 DEF StepsInv, Holders, OnlyMoves
<1>5. \A q \in Processes \ {p} : step'[q] = step[q]
  BY DEF OnlyMoves
<1>6. (\A q \in Processes : step[q].handle # NoHandle => IsOpen(step[q].handle))'
  BY <1>2, <1>4, <1>5
<1> QED
  BY <1>4, <1>5, <1>6 DEF Holders, StepsInv

-----------------------------------------------------------------------------
(* A process that looks for something changes nothing.                     *)
LEMMA LookHolds ==
    ASSUME StepsInv, NEW p \in Processes, OnlyMoves(p), UNCHANGED filesystem,
           step[p].at # "link", step'[p].at # "link", step'[p].handle = step[p].handle,
           step'[p].at = "mark" => step[p].handle # NoHandle, IsSo(step[p])'
    PROVE  StepsInv'
<1>1. InFlight' = InFlight /\ MarkedOnce'
  BY SameInFlight
<1>2. Inv'
  BY NextInv DEF StepsInv, filesystem, vars
<1>3. LaidOver(InFlight)'
  BY <1>1 DEF StepsInv, filesystem, LaidOver
<1>4. Holders'
  BY SameHolders DEF filesystem
<1> QED
  BY <1>1, <1>2, <1>3, <1>4, StepHolds DEF filesystem

(* A call of module Fat that is one step.                                  *)
LEMMA CallHolds ==
    ASSUME StepsInv, NEW p \in Processes, OnlyMoves(p), Inv', LaidAfter(InFlight),
           step[p].at # "link", step'[p].at = "call", Holders'
    PROVE  StepsInv'
<1>1. InFlight' = InFlight /\ MarkedOnce'
  BY SameInFlight
<1>2. LaidOver(InFlight)'
  BY <1>1 DEF LaidAfter, LaidOver
<1>3. \A q \in Marked : Chain(fat', step[q].block) = Chain(fat, step[q].block)
  BY DEF LaidAfter, SameExtra, InFlight
<1>4. IsSo(step[p])'
  BY DEF IsSo
<1> QED
  BY <1>1, <1>2, <1>3, <1>4, StepHolds

-----------------------------------------------------------------------------
(* What a process remembers is of its type.                                *)
LEMMA StepTypes ==
    ASSUME StepsInv, NEW p \in Processes
    PROVE  /\ step[p] \in StepRecord /\ AtRest \in StepRecord
           /\ IsSo(step[p])
           /\ step[p].at \in {"mark", "link"} => step[p].handle \in Handles
<1>1. AtRest \in StepRecord
  BY FatAssumption DEF AtRest, StepRecord, Points, Modes, NoHandle
<1> QED
  BY <1>1 DEF StepsInv, StepsTyped, StepRecord, Holders

(* fs_open and fs_makefile find what they are going to use.                *)
LEMMA FindHolds ==
    ASSUME StepsInv, NEW p \in Processes, NEW name \in Names, NEW mode \in Modes,
           FindFile(p, name, mode) \/ FindEntry(p, name, mode)
    PROVE  StepsInv'
<1>1. dir \in Seq(Entry) /\ DOMAIN dir = 1..Len(dir)
  BY DEF StepsInv, Inv, TypeOK
<1>2. CASE FindFile(p, name, mode)
  <2> DEFINE s == [AtRest EXCEPT !.at = "track", !.name = name, !.mode = mode,
                                 !.entry = First(Found(name))]
  <2>1. First(Found(name)) \in Nat
    BY <1>2, FoundEntry DEF FindFile, StepsInv, Inv
  <2>2. /\ s \in StepRecord /\ s.at = "track" /\ s.name = name /\ s.mode = mode
        /\ s.entry = First(Found(name)) /\ s.handle = NoHandle
    BY <2>1, StepTypes DEF AtRest, StepRecord, Points
  <2>3. /\ At(p, "call") /\ Go(p, s) /\ UNCHANGED filesystem
        /\ step[p].handle = NoHandle /\ HandleLeft
        /\ Found(name) # {} /\ ~Locked(First(Found(name)), mode)
    BY <1>2 DEF FindFile
  <2> HIDE DEF s
  <2>4. OnlyMoves(p) /\ step'[p] = s
    BY <2>2, <2>3, GoMoves
  <2>5. FoundFile(s)
    BY <2>2, <2>3 DEF FoundFile
  <2>6. FoundFile(step[p])'
    BY <2>3, <2>4, <2>5
       DEF FoundFile, filesystem, Found, Locked, HandleLeft, IsOpen, OpenIndices, EntryOf, ModeOf
  <2>7. IsSo(step[p])'
    BY <2>2, <2>4, <2>6 DEF IsSo
  <2> QED
    BY <2>2, <2>3, <2>4, <2>7, LookHolds DEF At
<1>3. CASE FindEntry(p, name, mode)
  <2> DEFINE s == [AtRest EXCEPT !.at = "entry", !.name = name, !.mode = mode,
                                 !.entry = First(FreeEntries)]
  <2>1. First(FreeEntries) \in Nat
    <3>1. FreeEntries \in SUBSET Nat /\ FreeEntries # {}
      BY <1>1, <1>3 DEF FindEntry, FreeEntries
    <3> QED
      BY <3>1, FirstElement
  <2>2. /\ s \in StepRecord /\ s.at = "entry" /\ s.name = name /\ s.mode = mode
        /\ s.entry = First(FreeEntries) /\ s.handle = NoHandle
    BY <2>1, StepTypes DEF AtRest, StepRecord, Points
  <2>3. /\ At(p, "call") /\ Go(p, s) /\ UNCHANGED filesystem
        /\ step[p].handle = NoHandle /\ HandleLeft
        /\ Found(name) = {} /\ mode # "F_READ" /\ name \in ValidNames /\ FreeEntries # {}
    BY <1>3 DEF FindEntry
  <2> HIDE DEF s
  <2>4. OnlyMoves(p) /\ step'[p] = s
    BY <2>2, <2>3, GoMoves
  <2>5. FoundEntryFree(s)
    BY <2>2, <2>3 DEF FoundEntryFree
  <2>6. FoundEntryFree(step[p])'
    BY <2>3, <2>4, <2>5
       DEF FoundEntryFree, filesystem, Found, FreeEntries, HandleLeft, IsOpen, OpenIndices
  <2>7. IsSo(step[p])'
    BY <2>2, <2>4, <2>6 DEF IsSo
  <2> QED
    BY <2>2, <2>3, <2>4, <2>7, LookHolds DEF At
<1> QED
  BY <1>2, <1>3

(* fs_link_next_free finds a block.                                        *)
LEMMA FindBlockHolds ==
    ASSUME StepsInv, NEW p \in Processes, FindBlock(p)
    PROVE  StepsInv'
<1> DEFINE s == [step[p] EXCEPT !.at = "mark", !.block = First(Free(fat))]
<1>1. First(Free(fat)) \in Free(fat) /\ Free(fat) \in SUBSET Nat
  BY BlocksFinite, FirstElement DEF Free, FindBlock
<1>2. /\ s \in StepRecord /\ s.at = "mark" /\ s.block = First(Free(fat))
      /\ s.handle = step[p].handle
  BY <1>1, StepTypes DEF StepRecord, Points
<1>3. At(p, "call") /\ Go(p, s) /\ UNCHANGED filesystem /\ step[p].handle # NoHandle
  BY DEF FindBlock
<1> HIDE DEF s
<1>4. OnlyMoves(p) /\ step'[p] = s
  BY <1>2, <1>3, GoMoves
<1>5. IsSo(step[p])'
  BY <1>1, <1>2, <1>3, <1>4 DEF IsSo, filesystem
<1> QED
  BY <1>2, <1>3, <1>4, <1>5, LookHolds DEF At

-----------------------------------------------------------------------------
(* fs_open goes on: what it found is still so, and it is the call of       *)
(* module Fat.                                                             *)
LEMMA TrackHolds ==
    ASSUME StepsInv, NEW p \in Processes, TrackOpen(p)
    PROVE  StepsInv'
<1> DEFINE s == step[p]
           h == NewHandle
           rest == [AtRest EXCEPT !.handle = h]
<1>1. At(p, "track") /\ s \in StepRecord /\ FoundFile(s)
  <2>1. At(p, "track")
    BY DEF TrackOpen
  <2> QED
    BY <2>1, StepTypes DEF At, IsSo
<1>2. h \in Handles /\ ~IsOpen(h)
  BY <1>1 DEF FoundFile, HandleLeft, NewHandle
<1>3. OpenExisting(h, s.name, s.mode)
  <2>1. s.entry = First(Found(s.name)) /\ Found(s.name) # {} /\ ~Locked(s.entry, s.mode)
    BY <1>1 DEF FoundFile
  <2>2. /\ file' = [file EXCEPT ![h] =
                      [entry |-> s.entry, mode |-> s.mode,
                       offset |-> IF s.mode = "F_APPEND" THEN dir[s.entry].size ELSE 0]]
        /\ open_files' = Append(open_files, h)
    BY DEF TrackOpen, Recorded
  <2>3. IF s.mode = "F_WRITE" /\ dir[s.entry].writable
        THEN /\ fat' = fs_freeblk(fat, dir[s.entry].blockno)
             /\ dir' = [dir EXCEPT ![s.entry].blockno = 0, ![s.entry].size = 0]
             /\ fault' = IF FreeRunsOff(fat, dir[s.entry].blockno) THEN "corrupt" ELSE fault
        ELSE UNCHANGED <<fat, dir, fault>>
    BY DEF TrackOpen
  <2> HIDE DEF h
  <2> QED
    BY <1>1, <1>2, <2>1, <2>2, <2>3 DEF OpenExisting, At
<1>4. s.name \in Names /\ s.mode \in Modes
  BY <1>1 DEF StepRecord
<1>5. Inv' /\ LaidAfter(InFlight)
  <2> HIDE DEF h, s
  <2> QED
    BY <1>2, <1>3, <1>4, OpenExistingStep, OpenTouches DEF StepsInv, Touches
<1>6. /\ rest \in StepRecord /\ rest.handle = h /\ rest.at = "call"
      /\ Go(p, rest) /\ open_files' = Append(open_files, h)
  BY <1>2, StepTypes DEF TrackOpen, Recorded, AtRest, StepRecord
<1> HIDE DEF rest, h
<1>7. OnlyMoves(p) /\ step'[p] = rest
  BY <1>1, <1>6, GoMoves
<1>8. Holders'
  BY <1>2, <1>6, <1>7, HoldersJoin
<1> QED
  BY <1>1, <1>5, <1>6, <1>7, <1>8, CallHolds DEF At

(* So does fs_makefile.                                                    *)
LEMMA MakeHolds ==
    ASSUME StepsInv, NEW p \in Processes, MakeEntry(p)
    PROVE  StepsInv'
<1> DEFINE s == step[p]
           h == NewHandle
           rest == [AtRest EXCEPT !.handle = h]
<1>1. At(p, "entry") /\ s \in StepRecord /\ FoundEntryFree(s)
  <2>1. At(p, "entry")
    BY DEF MakeEntry
  <2> QED
    BY <2>1, StepTypes DEF At, IsSo
<1>2. h \in Handles /\ ~IsOpen(h)
  BY <1>1 DEF FoundEntryFree, HandleLeft, NewHandle
<1>3. MakeFile(h, s.name, s.mode)
  <2>1. /\ s.entry = First(FreeEntries) /\ FreeEntries # {} /\ Found(s.name) = {}
        /\ s.mode # "F_READ" /\ s.name \in ValidNames
    BY <1>1 DEF FoundEntryFree
  <2>2. /\ file' = [file EXCEPT ![h] = [entry |-> s.entry, mode |-> s.mode, offset |-> 0]]
        /\ open_files' = Append(open_files, h)
        /\ dir' = [dir EXCEPT ![s.entry] =
                      [EmptyEntry EXCEPT !.state = "live", !.name = s.name]]
        /\ UNCHANGED <<fat, fault>>
    BY DEF MakeEntry, Recorded
  <2>3. [entry |-> s.entry, mode |-> s.mode, offset |-> 0] =
            [entry |-> s.entry, offset |-> 0, mode |-> s.mode]
    OBVIOUS
  <2> HIDE DEF h
  <2> QED
    BY <1>1, <1>2, <2>1, <2>2, <2>3 DEF MakeFile, At
<1>4. s.name \in Names /\ s.mode \in Modes
  BY <1>1 DEF StepRecord
<1>5. Inv' /\ LaidAfter(InFlight)
  <2> HIDE DEF h, s
  <2> QED
    BY <1>2, <1>3, <1>4, MakeFileStep, MakeFileTouches DEF StepsInv, TouchesNothing
<1>6. /\ rest \in StepRecord /\ rest.handle = h /\ rest.at = "call"
      /\ Go(p, rest) /\ open_files' = Append(open_files, h)
  BY <1>2, StepTypes DEF MakeEntry, Recorded, AtRest, StepRecord
<1> HIDE DEF rest, h
<1>7. OnlyMoves(p) /\ step'[p] = rest
  BY <1>1, <1>6, GoMoves
<1>8. Holders'
  BY <1>2, <1>6, <1>7, HoldersJoin
<1> QED
  BY <1>1, <1>5, <1>6, <1>7, <1>8, CallHolds DEF At

(* fs_close, and fs_unlink, are calls of module Fat.                       *)
LEMMA CloseHolds ==
    ASSUME StepsInv, NEW p \in Processes, CloseFile(p)
    PROVE  StepsInv'
<1> DEFINE h == step[p].handle
<1>1. At(p, "call") /\ h # NoHandle /\ Close(h) /\ Go(p, AtRest)
  BY DEF CloseFile
<1>2. h \in Handles /\ AtRest.at = "call" /\ AtRest.handle = NoHandle
  BY <1>1, StepTypes DEF StepRecord, AtRest
<1>3. OnlyMoves(p) /\ step'[p] = AtRest
  BY <1>1, StepTypes, GoMoves
<1>4. Inv' /\ LaidAfter(InFlight)
  <2> HIDE DEF h
  <2> QED
    BY <1>1, <1>2, CloseStep, CloseTouches DEF StepsInv
<1>5. Holders'
  <2>1. ASSUME NEW q \in Processes \ {p}, step[q].handle # NoHandle
        PROVE  IsOpen(step[q].handle)'
    <3>1. step[q].handle \in Handles /\ step[q].handle # h /\ IsOpen(step[q].handle)
      BY <2>1 DEF StepsInv, StepsTyped, StepRecord, Holders
    <3>2. IsOpen(step[q].handle) => \E g \in Handles : g = step[q].handle /\ IsOpen(g)'
      BY <1>1, <1>2, <3>1, CloseTakes DEF StepsInv
    <3>3. step'[q] = step[q]
      BY <1>3 DEF OnlyMoves
    <3> QED
      BY <3>1, <3>2, <3>3
  <2>2. \A q \in Processes \ {p} : step'[q] = step[q]
    BY <1>3 DEF OnlyMoves
  <2> QED
    BY <1>2, <1>3, <2>1, <2>2 DEF Holders, StepsInv
<1> QED
  BY <1>1, <1>2, <1>3, <1>4, <1>5, CallHolds DEF At

(* fs_unlink, between two calls of the process.                            *)
LEMMA RemoveHolds ==
    ASSUME StepsInv, NEW p \in Processes, NEW name \in Names, RemoveFile(p, name)
    PROVE  StepsInv'
<1>1. At(p, "call") /\ Unlink(name) /\ UNCHANGED <<step, running>>
  BY DEF RemoveFile
<1>2. OnlyMoves(p) /\ step'[p] = step[p]
  BY <1>1 DEF OnlyMoves, At, StepsInv, StepsTyped
<1>3. Inv' /\ LaidAfter(InFlight)
  BY <1>1, UnlinkStep, UnlinkTouches DEF StepsInv
<1>4. Holders'
  BY <1>1, <1>2, SameHolders DEF Unlink, At
<1> QED
  BY <1>1, <1>2, <1>3, <1>4, CallHolds DEF At

-----------------------------------------------------------------------------
(* A found block is still free, and is marked: it is in flight.            *)
LEMMA MarkHolds ==
    ASSUME StepsInv, NEW p \in Processes, MarkBlock(p)
    PROVE  StepsInv'
<1> DEFINE s == [step[p] EXCEPT !.at = "link"]
           b == step[p].block
<1>1. /\ At(p, "mark") /\ Go(p, s) /\ fat' = [fat EXCEPT ![b] = FAT_EOF]
      /\ UNCHANGED <<dir, file, open_files, fault>>
  BY DEF MarkBlock
<1>2. /\ b \in Free(fat) /\ s \in StepRecord /\ s.at = "link" /\ s.block = b
      /\ s.handle = step[p].handle /\ step[p].handle # NoHandle
  BY <1>1, StepTypes DEF At, IsSo, StepRecord, Points, StepsInv, Holders
<1>3. OnlyMoves(p) /\ step'[p] = s
  <2> HIDE DEF s
  <2> QED
    BY <1>1, <1>2, GoMoves
<1>4. fat' = MarkEnd(fat, b)
  BY <1>1 DEF MarkEnd
<1> HIDE DEF s, b
<1>5. /\ Owns(fat', dir, InFlight \cup {b})
      /\ Chain(fat', 1) = Chain(fat, 1)
      /\ SameExtra(fat, fat', InFlight)
      /\ Chain(fat', b) = {b} /\ b \in Blocks /\ b \notin InFlight
  BY <1>2, <1>4, ExtraMarked DEF StepsInv, LaidOver
<1>6. Marked' = Marked \cup {p}
  BY <1>2, <1>3 DEF Marked, OnlyMoves
<1>7. \A q \in Marked : q # p /\ step'[q] = step[q]
  BY <1>1, <1>3 DEF Marked, OnlyMoves, At
<1>8. InFlight' = InFlight \cup {b}
  BY <1>2, <1>3, <1>6, <1>7 DEF InFlight
<1>9. LaidOver(InFlight)'
  BY <1>1, <1>5, <1>8 DEF LaidOver, StepsInv
<1>10. Inv'
  <2>1. fat' \in Tables
    BY <1>5 DEF Owns, Layout
  <2>2. TypeOK'
    BY <1>1, <2>1 DEF TypeOK, StepsInv, Inv, Tables
  <2> QED
    BY <1>1, <2>2, SameHandles DEF StepsInv
<1>11. MarkedOnce'
  <2>1. \A q \in Marked : step[q].block \in InFlight
    BY DEF InFlight
  <2> QED
    BY <1>2, <1>3, <1>5, <1>6, <1>7, <2>1 DEF MarkedOnce, StepsInv
<1>12. Holders'
  BY <1>1, <1>2, <1>3, SameHolders
<1>13. IsSo(step[p])'
  BY <1>2, <1>3, <1>5 DEF IsSo
<1>14. \A q \in Marked : Chain(fat', step[q].block) = Chain(fat, step[q].block)
  BY <1>5 DEF SameExtra, InFlight
<1> QED
  BY <1>3, <1>9, <1>10, <1>11, <1>12, <1>13, <1>14, StepHolds

(* The block in flight gets its file.                                      *)
LEMMA LinkHolds ==
    ASSUME StepsInv, NEW p \in Processes, LinkBlock(p)
    PROVE  StepsInv'
<1> DEFINE h == step[p].handle
           e == file[h].entry
           b == step[p].block
           last == CHOOSE c \in Chain(fat, dir[e].blockno) : fat[c] = FAT_EOF
           first == dir[e].blockno = 0
           s == [step[p] EXCEPT !.at = "call", !.block = 1]
           size == OffsetAfter(dir[e].size, BlockSize, TRUE)
           base == IF first THEN b ELSE dir[e].blockno
           new == [dir[e] EXCEPT !.blockno = base, !.size = size]
<1>1. /\ At(p, "link") /\ Go(p, s)
      /\ fat' = IF first THEN fat ELSE [fat EXCEPT ![last] = b]
      /\ dir' = [dir EXCEPT ![e].blockno = IF first THEN b ELSE @,
                            ![e].size = OffsetAfter(@, BlockSize, TRUE)]
      /\ file' = [file EXCEPT ![h].offset = dir'[e].size]
      /\ UNCHANGED <<open_files, fault>>
  BY DEF LinkBlock
<1>2. /\ h \in Handles /\ IsOpen(h) /\ h # NoHandle
      /\ b \in Blocks /\ Chain(fat, b) = {b} /\ p \in Marked /\ b \in InFlight
  BY <1>1, StepTypes DEF At, IsSo, StepsInv, Holders, Marked, InFlight
<1>3. /\ file[h] \in File /\ e \in 1..Len(dir) /\ e \in Nat
      /\ dir[e] \in Entry /\ DOMAIN dir = 1..Len(dir) /\ dir \in Seq(Entry)
      /\ HeadOf(dir, e) = dir[e].blockno
      /\ dir[e].state \in {"live", "unlinked"}
  BY <1>2, OpenHandle, HandlesHead, OpenEntriesAlive DEF StepsInv, Inv, TypeOK
<1>4. size \in Offsets
  BY <1>3, FatAssumption, OffsetAfterType DEF Entry
<1>5. dir' = [dir EXCEPT ![e] = new]
  BY <1>1, <1>3 DEF Entry
<1>6. s \in StepRecord /\ s.at = "call" /\ s.handle = h
  BY StepTypes, FatAssumption DEF StepRecord, Points
<1>7. OnlyMoves(p) /\ step'[p] = s
  <2> HIDE DEF s
  <2> QED
    BY <1>1, <1>6, GoMoves
<1> HIDE DEF h, b, s, size
<1>8. base \in 0..NEntries - 1
  BY <1>2, <1>3 DEF Entry, Blocks
<1>9. new \in Entry /\ new.state = dir[e].state /\ new.name = dir[e].name /\ new.blockno = base
  BY <1>3, <1>4, <1>8 DEF Entry
<1>10. Len(dir') = Len(dir) /\ DOMAIN dir' = DOMAIN dir /\ dir' \in Seq(Entry)
  BY <1>3, <1>5, <1>9, ExceptSeq
<1>11. HeadOf(dir', e) = base /\ SameBut(dir, dir', e)
  BY <1>3, <1>5, <1>9, <1>10 DEF HeadOf, SameBut
<1>12. /\ Owns(fat', dir', InFlight \ {b})
       /\ Chain(fat', 1) = Chain(fat, 1)
       /\ SameExtra(fat, fat', InFlight \ {b})
  <2>1. Owns(fat, dir, InFlight)
    BY DEF StepsInv, LaidOver
  <2>2. CASE first
    <3>1. base = b /\ fat' = fat /\ HeadOf(dir, e) = 0
      BY <1>1, <1>3, <2>2
    <3> HIDE DEF base, e
    <3> QED
      BY <1>2, <1>3, <1>11, <2>1, <3>1, ExtraFirst DEF SameExtra
  <2>3. CASE ~first
    <3>1. HeadOf(dir, e) # 0 /\ base = HeadOf(dir, e)
      BY <1>3, <2>3
    <3>2. HeadOf(dir, e) \in Blocks /\ EndsInEOF(fat, HeadOf(dir, e)) /\ fat \in Tables
      BY <1>3, <2>1, <3>1, OwnedHead
    <3>3. last \in Chain(fat, HeadOf(dir, e)) /\ fat[last] = FAT_EOF
      BY <1>3, <3>2, ChainLinks
    <3>4. fat' = LinkTo(fat, last, b)
      BY <1>1, <2>3 DEF LinkTo
    <3>5. \A f \in Nat : HeadOf(dir', f) = HeadOf(dir, f)
      BY <1>11, <3>1 DEF SameBut
    <3> HIDE DEF base, last, e
    <3>6. /\ Owns(LinkTo(fat, last, b), dir, InFlight \ {b})
          /\ Chain(LinkTo(fat, last, b), 1) = Chain(fat, 1)
          /\ SameExtra(fat, LinkTo(fat, last, b), InFlight \ {b})
      BY <1>2, <1>3, <2>1, <3>1, <3>3, ExtraLinked
    <3> QED
      BY <3>4, <3>5, <3>6, SameHeads
  <2> QED
    BY <2>2, <2>3
<1>13. Marked' = Marked \ {p}
  BY <1>6, <1>7 DEF Marked, OnlyMoves
<1>14. \A q \in Marked \ {p} : step'[q] = step[q] /\ step[q].block # b
  BY <1>2, <1>7 DEF Marked, OnlyMoves, StepsInv, MarkedOnce, b
<1>15. InFlight' = InFlight \ {b}
  BY <1>2, <1>13, <1>14 DEF InFlight, b
<1>16. LaidOver(InFlight)'
  BY <1>1, <1>10, <1>12, <1>15 DEF LaidOver, StepsInv
<1>17. Inv'
  <2>1. dir'[e].size = size
    BY <1>3, <1>5 DEF Entry
  <2>2. file' = [file EXCEPT ![h].offset = size]
    BY <1>1, <2>1
  <2>3. file' \in [Handles -> File] /\ \A g \in Handles : /\ file'[g].entry = file[g].entry
                                                          /\ file'[g].mode = file[g].mode
    BY <1>2, <1>4, <2>2 DEF StepsInv, Inv, TypeOK, File
  <2>4. fat' \in Tables
    BY <1>12 DEF Owns, Layout
  <2>5. TypeOK'
    BY <1>1, <1>10, <2>3, <2>4 DEF TypeOK, StepsInv, Inv, Tables
  <2>6. \A g \in DOMAIN dir : dir'[g].state = dir[g].state /\ dir'[g].name = dir[g].name
    BY <1>3, <1>5, <1>9
  <2> QED
    BY <1>1, <1>10, <2>3, <2>5, <2>6, SameHandles DEF StepsInv
<1>18. MarkedOnce'
  BY <1>13, <1>14 DEF MarkedOnce, StepsInv
<1>19. Holders'
  BY <1>1, <1>2, <1>6, <1>7, SameHolders DEF h
<1>20. IsSo(step[p])'
  BY <1>6, <1>7 DEF IsSo
<1>21. \A q \in Marked \ {p} : Chain(fat', step[q].block) = Chain(fat, step[q].block)
  BY <1>12, <1>14 DEF SameExtra, InFlight
<1> QED
  BY <1>7, <1>16, <1>17, <1>18, <1>19, <1>20, <1>21, StepHolds

-----------------------------------------------------------------------------
(* Nobody is within a call at the start.                                   *)
LEMMA StepsInitInv == StepsInit => StepsInv
<1> SUFFICES ASSUME StepsInit PROVE StepsInv
  OBVIOUS
<1>1. Inv /\ Laid
  BY InitInv, InitLaid DEF StepsInit
<1>2. AtRest \in StepRecord /\ AtRest.at = "call" /\ AtRest.handle = NoHandle
  BY FatAssumption DEF AtRest, StepRecord, Points, Modes, NoHandle
<1>3. \A p \in Processes : step[p] = AtRest
  BY DEF StepsInit
<1>4. Marked = {} /\ InFlight = {}
  BY <1>2, <1>3 DEF Marked, InFlight
<1>5. StepsTyped /\ OthersWait
  BY <1>2, <1>3 DEF StepsInit, StepsTyped, OthersWait
<1>6. Holders /\ MarkedOnce
  BY <1>2, <1>3, <1>4 DEF Holders, MarkedOnce
<1>7. \A p \in Processes : IsSo(step[p])
  BY <1>2, <1>3 DEF IsSo
<1> QED
  BY <1>1, <1>4, <1>5, <1>6, <1>7 DEF StepsInv, Laid

(* Every step, and the timer where it may come in, keeps the invariant.    *)
LEMMA StepsNextInv == ASSUME SafePoints, StepsInv, [StepsNext]_allVars PROVE StepsInv'
<1>1. ASSUME NEW p \in Processes, NEW name \in Names,
             \/ \E mode \in Modes : FindFile(p, name, mode) \/ FindEntry(p, name, mode)
             \/ RemoveFile(p, name)
      PROVE  StepsInv'
  BY <1>1, FindHolds, RemoveHolds
<1>2. ASSUME NEW p \in Processes,
             \/ TrackOpen(p) \/ MakeEntry(p) \/ FindBlock(p)
             \/ MarkBlock(p) \/ LinkBlock(p) \/ CloseFile(p)
      PROVE  StepsInv'
  BY <1>2, TrackHolds, MakeHolds, FindBlockHolds, MarkHolds, LinkHolds, CloseHolds
<1>3. ASSUME UNCHANGED <<filesystem, step>>, running' \in Processes,
             running' = running \/ step[running].at \in {"call", "link"}
      PROVE  StepsInv'
  <2>1. Inv'
    BY <1>3, NextInv DEF StepsInv, filesystem, vars
  <2>2. InFlight' = InFlight /\ MarkedOnce' /\ LaidOver(InFlight)'
    BY <1>3 DEF StepsInv, filesystem, LaidOver, InFlight, Marked, MarkedOnce
  <2>3. StepsTyped' /\ OthersWait' /\ Holders'
    BY <1>3 DEF StepsInv, filesystem, StepsTyped, OthersWait, Holders, IsOpen, OpenIndices
  <2>4. ASSUME NEW p \in Processes PROVE IsSo(step[p])'
    <3>1. FoundFile(step[p]) => FoundFile(step[p])'
      BY <1>3 DEF filesystem, FoundFile, Found, Locked, HandleLeft, IsOpen, OpenIndices,
                  EntryOf, ModeOf
    <3>2. FoundEntryFree(step[p]) => FoundEntryFree(step[p])'
      BY <1>3 DEF filesystem, FoundEntryFree, Found, FreeEntries, HandleLeft, IsOpen,
                  OpenIndices
    <3> QED
      BY <1>3, <3>1, <3>2 DEF StepsInv, filesystem, IsSo
  <2> QED
    BY <2>1, <2>2, <2>3, <2>4 DEF StepsInv
<1>4. CASE Preempt
  BY <1>3, <1>4 DEF Preempt, SafePoints
<1>5. CASE UNCHANGED allVars
  BY <1>3, <1>5 DEF allVars, filesystem, StepsInv, StepsTyped
<1> QED
  BY <1>1, <1>2, <1>4, <1>5 DEF StepsNext

(* The inductive invariant holds in every reachable state.                 *)
THEOREM StepsInvariance == SafePoints => (StepsSpec => []StepsInv)
<1> SUFFICES ASSUME SafePoints PROVE StepsSpec => []StepsInv
  OBVIOUS
<1>1. StepsInv /\ [StepsNext]_allVars => StepsInv'
  BY StepsNextInv
<1> QED
  BY <1>1, StepsInitInv, PTL DEF StepsSpec

(* However the calls of several processes are interleaved, a block is      *)
(* marked for one file only, and once, and no other file gets it.          *)
THEOREM MarkedBlocksAreOwned == SafePoints => (StepsSpec => []BlocksOwned)
<1> SUFFICES ASSUME SafePoints PROVE StepsSpec => []BlocksOwned
  OBVIOUS
<1>1. StepsInv => BlocksOwned
  <2> SUFFICES ASSUME StepsInv PROVE BlocksOwned
    OBVIOUS
  <2>1. Owns(fat, dir, InFlight) /\ Inv
    BY DEF StepsInv, LaidOver
  <2>2. Layout(fat, HeadSet(dir) \cup InFlight) /\ InFlight \cap HeadSet(dir) = {}
    BY <2>1 DEF Owns
  <2>3. Heads = HeadSet(dir)
    BY <2>1, HeldHeads
  <2>4. ChainsIntact
    BY <2>1, OwnedIntact DEF StepsInv, LaidOver
  <2>5. \A p \in Marked : Chain(fat, step[p].block) = {step[p].block}
    BY DEF StepsInv, Marked, IsSo
  <2>6. \A c \in InFlight : Chain(fat, c) = {c}
    BY <2>5 DEF InFlight
  <2>7. \A b \in Heads : Chain(fat, b) \cap InFlight = {}
    BY <2>2, <2>3, <2>6 DEF Layout
  <2>8. Blocks \ Free(fat) = InFlight \cup UNION {Chain(fat, b) : b \in Heads}
    <3>1. \A b \in Heads : Chain(fat, b) \subseteq Blocks
      BY DEF Chain
    <3>2. InFlight \subseteq Blocks
      BY <2>2 DEF Layout
    <3> QED
      BY <2>2, <2>3, <2>6, <3>1, <3>2 DEF Layout
  <2> QED
    BY <2>4, <2>7, <2>8 DEF BlocksOwned, StepsInv, MarkedOnce
<1>2. StepsSpec => []StepsInv
  BY StepsInvariance
<1> QED
  BY <1>1, <1>2, PTL

(* So are the locks: the check of the lock and the recording of the handle *)
(* are one step, if the timer does not come in between.                    *)
THEOREM LocksHoldBetweenCalls == SafePoints => (StepsSpec => []LocksExclusive)
<1> SUFFICES ASSUME SafePoints PROVE StepsSpec => []LocksExclusive
  OBVIOUS
<1>1. StepsInv => LocksExclusive
  BY DEF StepsInv, Inv
<1>2. StepsSpec => []StepsInv
  BY StepsInvariance
<1> QED
  BY <1>1, <1>2, PTL
=============================================================================
