------------------------- MODULE FileProgramsProofs -------------------------
(***************************************************************************)
(* Theorems about module FilePrograms, for any number of programs, names   *)
(* and blocks and any commands: what the programs leave open, that a copy  *)
(* which ends without an error is complete, and that the chains of the     *)
(* filesystem stay intact under them.                                      *)
(***************************************************************************)
EXTENDS ChainProofs, FileProgramsProperties

Commands == PennosCommands \cup PennfatCommands
Labels == {"idle", "openSrc", "openDest", "read", "write", "chmod", "closeSrc", "closeDest",
           "rm", "mv", "killed"}
Descriptors == Handles \cup {Host, NoHandle}

(* A program at one of its steps.                                          *)
Program == [at : Labels, cmd : Commands \cup {NoCommand}, i : Nat,
            src : Descriptors, dest : Descriptors,
            bytes : Nat, ok : BOOLEAN, due : Nat]

(* What a program holds.                                                   *)
HeldIn(r) == {r.src, r.dest} \cap Handles

(* A program knows its command and which of its names it is at.            *)
InCommand(r) ==
    r.at # "idle" => r.cmd \in Commands /\ r.i \in 1..Len(r.cmd.inputs)

(* Where a program has what it writes to, a file or the terminal.          *)
HasDest(r) ==
    \/ r.at \in {"read", "write", "chmod"}
    \/ r.at \in {"openSrc", "closeSrc"} /\ r.cmd.do = "cat"

(* Before a program opens a file, and when it ends, it holds none it could *)
(* lose sight of; it never holds one twice.                                *)
InPlace(r) ==
    /\ HasDest(r) => (r.dest \in Handles <=> ~(Copies(r) /\ r.cmd.output = Host))
    /\ r.at \in {"idle", "openSrc", "chmod", "closeDest", "rm", "mv"} => r.src = NoHandle
    /\ r.at \in {"idle", "openDest", "rm", "mv"} => r.dest = NoHandle
    /\ r.at = "openSrc" /\ r.cmd.do = "cp" => r.dest = NoHandle
    /\ r.at = "openDest" => (r.src = NoHandle <=> r.cmd.do # "cp")
    /\ r.at = "write" => (r.src = NoHandle <=> ~Copies(r))
    /\ r.at \in {"openSrc", "read", "closeSrc"} => Copies(r)
    /\ r.at \in {"openDest", "write", "closeDest"} => r.cmd.do \in {"cat", "cp", "touch", "chmod"}
    /\ r.at = "chmod" => r.cmd.do = "chmod"
    /\ r.at \in {"rm", "mv"} => r.cmd.do = r.at
    /\ r.at = "read" => r.src # NoHandle
    /\ r.src \in Handles => r.src # r.dest

(* The list of open files has what the programs hold.                      *)
ListedIsHeld ==
    /\ \A h \in Handles : IsOpen(h) <=> \E p \in Processes : h \in HeldIn(prog[p])
    /\ \A p, q \in Processes : p # q => HeldIn(prog[p]) \cap HeldIn(prog[q]) = {}

(* The inductive invariant: that of the filesystem, and what every program *)
(* holds at the point it is at.                                            *)
FilesInv ==
    /\ Inv
    /\ prog \in [Processes -> Program]
    /\ \A p \in Processes : InCommand(prog[p]) /\ InPlace(prog[p])
    /\ ListedIsHeld

(* A program at rest holds nothing.                                        *)
LEMMA IdleHolds ==
    Idle \in Program /\ InCommand(Idle) /\ InPlace(Idle) /\ HeldIn(Idle) = {}
<1>1. Idle \in Program
  BY DEF Idle, Program, Labels, Descriptors
<1>2. Idle.at = "idle" /\ Idle.src = NoHandle /\ Idle.dest = NoHandle
  BY DEF Idle
<1>3. ~HasDest(Idle)
  BY <1>2 DEF HasDest
<1> QED
  BY <1>1, <1>2, <1>3, FileProgramsAssumption DEF InCommand, InPlace, HeldIn

(* At the start nothing is open and the image is a filesystem.             *)
LEMMA FilesInitInv == FilesInit => FilesInv
<1> SUFFICES ASSUME FilesInit PROVE FilesInv
  OBVIOUS
<1>1. FreedFile \in File
  BY UintPositive DEF FreedFile, File, Modes
<1>2. TypeOK
  BY <1>1, ImageAssumption DEF FilesInit, TypeOK
<1>3. HandlesAlive /\ LocksExclusive /\ \A h : ~IsOpen(h)
  BY DEF FilesInit, HandlesAlive, LocksExclusive, OpenIndices, IsOpen
<1>4. NamesUnique
  BY ImageAssumption DEF FilesInit, NamesUnique
<1> QED
  BY <1>2, <1>3, <1>4, IdleHolds DEF FilesInit, FilesInv, Inv, ListedIsHeld

-----------------------------------------------------------------------------
(* One program makes a step: what holds of the others is not touched, if   *)
(* the list of open files changes by what the program gives back and gets. *)
LEMMA OneMoves ==
    ASSUME FilesInv, Inv', NEW p \in Processes, NEW r \in Program, prog' = [prog EXCEPT ![p] = r],
           InCommand(r), InPlace(r),
           \A h \in Handles : h \in HeldIn(r) => h \in HeldIn(prog[p]) \/ ~IsOpen(h),
           \A h \in Handles :
               IsOpen(h)' <=> (IsOpen(h) /\ h \notin HeldIn(prog[p])) \/ h \in HeldIn(r)
    PROVE  FilesInv'
<1>1. prog' \in [Processes -> Program] /\ prog'[p] = r
  BY DEF FilesInv
<1>2. \A q \in Processes : q # p => prog'[q] = prog[q]
  BY DEF FilesInv
<1>3. \A q \in Processes : HeldIn(prog[q]) \in SUBSET Handles
  BY DEF HeldIn
<1>4. HeldIn(r) \in SUBSET Handles
  BY DEF HeldIn
<1>5. \A q \in Processes : InCommand(prog'[q]) /\ InPlace(prog'[q])
  BY <1>1, <1>2 DEF FilesInv
<1>6. ASSUME NEW h \in Handles
      PROVE  IsOpen(h)' <=> \E q \in Processes : h \in HeldIn(prog'[q])
  <2>1. IsOpen(h) <=> \E q \in Processes : h \in HeldIn(prog[q])
    BY DEF FilesInv, ListedIsHeld
  <2>2. \A q \in Processes : q # p /\ h \in HeldIn(prog[q]) => h \notin HeldIn(prog[p])
    BY DEF FilesInv, ListedIsHeld
  <2>3. \A q \in Processes : HeldIn(prog'[q]) = IF q = p THEN HeldIn(r) ELSE HeldIn(prog[q])
    BY <1>1, <1>2
  <2>4. IsOpen(h)' <=> (IsOpen(h) /\ h \notin HeldIn(prog[p])) \/ h \in HeldIn(r)
    OBVIOUS
  <2> QED
    BY <2>1, <2>2, <2>3, <2>4
<1>7. \A q \in Processes : q # p => HeldIn(r) \cap HeldIn(prog[q]) = {}
  BY <1>4 DEF FilesInv, ListedIsHeld
<1>8. \A q, s \in Processes : q # s => HeldIn(prog'[q]) \cap HeldIn(prog'[s]) = {}
  BY <1>1, <1>2, <1>7 DEF FilesInv, ListedIsHeld
<1> QED
  BY <1>1, <1>5, <1>6, <1>8 DEF FilesInv, ListedIsHeld

(* A program goes on to its next step without opening or closing a file.   *)
LEMMA GoesOn ==
    ASSUME FilesInv, Inv', NEW p \in Processes, NEW r \in Program, prog' = [prog EXCEPT ![p] = r],
           InCommand(r), InPlace(r), HeldIn(r) = HeldIn(prog[p]), open_files' = open_files
    PROVE  FilesInv'
<1>1. \A h \in Handles : IsOpen(h)' <=> IsOpen(h)
  BY DEF IsOpen, OpenIndices
<1>2. \A h \in Handles : h \in HeldIn(prog[p]) => IsOpen(h)
  BY DEF FilesInv, ListedIsHeld
<1> QED
  BY <1>1, <1>2, OneMoves

(* The filesystem that nobody touches.                                     *)
LEMMA FilesystemStays ==
    ASSUME Inv, UNCHANGED filesystem
    PROVE  Inv'
<1>1. UNCHANGED vars
  BY DEF filesystem, vars
<1> QED
  BY <1>1, NextInv

(* There is a file_t for a program that has at most one: each of the       *)
(* others has two at most.                                                 *)
LEMMA HandleLeft ==
    ASSUME FilesInv, NEW p \in Processes, prog[p].src = NoHandle \/ prog[p].dest = NoHandle
    PROVE  NewHandle \in Handles /\ ~IsOpen(NewHandle)
<1> DEFINE Places == Processes \X {"src", "dest"}
           At(s) == IF s[2] = "src" THEN prog[s[1]].src ELSE prog[s[1]].dest
<1>1. PICK none \in Places : At(none) = NoHandle
  <2>1. CASE prog[p].src = NoHandle
    <3>1. <<p, "src">> \in Places /\ At(<<p, "src">>) = NoHandle
      BY <2>1
    <3> QED
      BY <3>1
  <2>2. CASE prog[p].dest = NoHandle
    <3>1. <<p, "dest">> \in Places /\ At(<<p, "dest">>) = NoHandle
      BY <2>2
    <3> QED
      BY <3>1
  <2> QED
    BY <2>1, <2>2
<1>2. SUFFICES ASSUME \A h \in Handles : IsOpen(h) PROVE FALSE
  BY DEF NewHandle
<1> DEFINE Rest == Places \ {none}
           at == [s \in Rest |-> At(s)]
           Held == {at[s] : s \in Rest}
<1>3. IsFiniteSet(Places) /\ Cardinality(Places) = Cardinality(Processes) * 2
  <2>1. IsFiniteSet({"src", "dest"}) /\ Cardinality({"src", "dest"}) = 2
    <3> DEFINE one == {"src"}
               two == one \cup {"dest"}
    <3>1. {"src", "dest"} = two /\ "dest" \notin one
      OBVIOUS
    <3>2. IsFiniteSet(one) /\ Cardinality(one) = 1
      BY FS_Singleton
    <3> HIDE DEF one
    <3>3. IsFiniteSet(two) /\ Cardinality(two) = Cardinality(one) + 1
      BY <3>1, <3>2, FS_AddElement
    <3> QED
      BY <3>1, <3>2, <3>3
  <2> QED
    BY <2>1, FS_Product, HandlesAssumption
<1>4. IsFiniteSet(Rest) /\ Cardinality(Rest) = Cardinality(Places) - 1
  BY <1>3, FS_RemoveElement
<1>5. Handles \subseteq Held
  <2>1. ASSUME NEW h \in Handles PROVE h \in Held
    <3>1. PICK q \in Processes : h \in HeldIn(prog[q])
      BY <1>2 DEF FilesInv, ListedIsHeld
    <3>2. PICK s \in Places : At(s) = h
      <4>1. CASE h = prog[q].src
        <5>1. <<q, "src">> \in Places /\ At(<<q, "src">>) = h
          BY <4>1
        <5> QED
          BY <5>1
      <4>2. CASE h = prog[q].dest
        <5>1. <<q, "dest">> \in Places /\ At(<<q, "dest">>) = h
          BY <4>2
        <5> QED
          BY <5>1
      <4> QED
        BY <3>1, <4>1, <4>2 DEF HeldIn
    <3>3. s # none
      BY <1>1, <3>2, FileProgramsAssumption
    <3> QED
      BY <3>2, <3>3
  <2> QED
    BY <2>1
<1> HIDE DEF At, Places
<1>6. IsFiniteSet(Held) /\ Cardinality(Held) <= Cardinality(Rest)
  <2>1. at \in Surjection(Rest, Held)
    BY DEF Surjection
  <2> HIDE DEF at, Held, Rest
  <2> QED
    BY <1>4, <2>1, FS_Surjection
<1>7. IsFiniteSet(Handles) /\ Cardinality(Handles) <= Cardinality(Rest)
  BY <1>4, <1>5, <1>6, FS_Subset, FS_CardinalityType
<1>8. Cardinality(Processes) \in Nat
  BY HandlesAssumption, FS_CardinalityType
<1> QED
  BY <1>3, <1>4, <1>7, <1>8, HandlesAssumption, FS_CardinalityType

-----------------------------------------------------------------------------
(* A command is given to a program that is at rest.                        *)
LEMMA StartHolds ==
    ASSUME FilesInv, NEW p \in Processes, Start(p)
    PROVE  FilesInv'
<1>1. PICK c \in Commands : prog' = [prog EXCEPT ![p] = [Idle EXCEPT !.at = FirstStep(c), !.cmd = c]]
  BY DEF Start, Commands
<1> DEFINE r == [Idle EXCEPT !.at = FirstStep(c), !.cmd = c]
<1>2. /\ c \in Command /\ c.inputs \in Seq(Names \cup {Host}) /\ c.inputs # <<>>
      /\ c.do \in {"cat", "cp", "touch", "chmod", "rm", "mv"}
  BY CommandsAssumption DEF Commands, Command
<1>3. FirstStep(c) \in {"openSrc", "openDest", "rm", "mv"}
      /\ (FirstStep(c) = "openSrc" => c.do \in {"cat", "cp"})
      /\ (FirstStep(c) = "openSrc" /\ c.do = "cat" => c.output = Host)
      /\ (FirstStep(c) = "openDest" => c.do \in {"cat", "touch", "chmod"})
      /\ (FirstStep(c) \in {"rm", "mv"} => c.do = FirstStep(c))
  BY <1>2 DEF FirstStep
<1>5. r \in Program
  BY <1>3, IdleHolds DEF Program, Labels
<1>6. /\ r.at = FirstStep(c) /\ r.cmd = c /\ r.i = 1
      /\ r.src = NoHandle /\ r.dest = NoHandle
  BY DEF Idle
<1>7. prog[p] \in Program /\ prog[p].at = "idle" /\ InPlace(prog[p])
  BY DEF Start, FilesInv
<1> HIDE DEF r
<1>8. HeldIn(r) = {} /\ HeldIn(prog[p]) = {}
  BY <1>6, <1>7, FileProgramsAssumption DEF HeldIn, InPlace
<1>9. InCommand(r)
  <2>1. 1 \in 1..Len(c.inputs)
    BY <1>2
  <2> QED
    BY <1>6, <2>1 DEF InCommand
<1>10. InPlace(r)
  BY <1>3, <1>6, FileProgramsAssumption DEF InPlace, Copies, HasDest
<1>11. Inv' /\ open_files' = open_files
  BY FilesystemStays DEF Start, FilesInv, filesystem
<1> QED
  BY <1>1, <1>5, <1>8, <1>9, <1>10, <1>11, GoesOn DEF r

(* fs_open through a handle that is free.                                  *)
LEMMA OpensFile ==
    ASSUME Inv, NewHandle \in Handles, NEW name \in Names, NEW mode \in Modes, fs_open(name, mode)
    PROVE  /\ Inv'
           /\ \A g \in Handles : IsOpen(g)' <=> IsOpen(g) \/ g = NewHandle
<1>1. open_files' = Append(open_files, NewHandle)
  BY DEF fs_open, OpenExisting, MakeFile
<1> QED
  BY <1>1, OpenAdds, OpenExistingStep, MakeFileStep DEF fs_open

(* What there is to read is a number of bytes.                             *)
LEMMA ToReadType ==
    ASSUME NEW e \in Entry
    PROVE  /\ ToRead(e) \in Nat /\ ToRead(e) <= e.size
           /\ ToRead(e) <= BlockSize * Cardinality(Chain(fat, e.blockno))
           /\ ToRead(e) = e.size \/ ToRead(e) = BlockSize * Cardinality(Chain(fat, e.blockno))
<1> DEFINE n == BlockSize * Cardinality(Chain(fat, e.blockno))
<1>1. Cardinality(Chain(fat, e.blockno)) \in Nat
  BY BlocksFinite, FS_Subset, FS_CardinalityType DEF Chain
<1>2. e.size \in Nat /\ n \in Nat
  BY <1>1, FatAssumption DEF Entry, Offsets
<1> HIDE DEF n
<1>3. {e.size, n} \in SUBSET Nat /\ {e.size, n} # {}
  BY <1>2
<1>4. First({e.size, n}) \in {e.size, n} /\ \A f \in {e.size, n} : First({e.size, n}) <= f
  BY <1>3, FirstElement
<1> QED
  BY <1>2, <1>4 DEF ToRead, n

(* The next name of a command, or its end.                                 *)
LEMMA NextNameHolds ==
    ASSUME NEW r \in Program, InCommand(r), InPlace(r), r.at # "idle",
           r.src = NoHandle, NEW at \in {"openSrc", "openDest", "rm"},
           r.i >= Len(r.cmd.inputs) \/ at # "openSrc" => r.dest = NoHandle,
           at = "openSrc" => r.cmd.do = "cat" /\ (r.dest \in Handles <=> r.cmd.output # Host),
           at = "openDest" => r.cmd.do \in {"touch", "chmod"},
           at = "rm" => r.cmd.do = "rm"
    PROVE  /\ NextName(r, at) \in Program
           /\ InCommand(NextName(r, at)) /\ InPlace(NextName(r, at))
           /\ HeldIn(NextName(r, at)) = HeldIn(r)
<1>0. r.cmd.inputs \in Seq(Names \cup {Host})
  BY CommandsAssumption DEF InCommand, Commands, Command
<1>1. CASE r.i < Len(r.cmd.inputs)
  <2> DEFINE s == [r EXCEPT !.at = at, !.i = r.i + 1]
  <2>1. /\ s \in Program /\ s.at = at /\ s.i = r.i + 1 /\ s.src = r.src /\ s.dest = r.dest
        /\ s.cmd = r.cmd
    <3>1. at \in Labels /\ r.i + 1 \in Nat
      BY DEF Labels, Program
    <3> QED
      BY <3>1 DEF Program
  <2>2. NextName(r, at) = s
    BY <1>1 DEF NextName
  <2> HIDE DEF s
  <2>3. s.i \in 1..Len(s.cmd.inputs)
    BY <1>0, <1>1, <2>1 DEF InCommand
  <2>4. s.at = at /\ s.src = NoHandle /\ NoHandle \notin Handles
    BY <2>1, FileProgramsAssumption
  <2>5. s.at # "openSrc" => s.dest = NoHandle
    BY <2>1
  <2>6. InPlace(s)
    BY <2>1, <2>4, <2>5 DEF InPlace, Copies, HasDest
  <2> QED
    BY <2>1, <2>2, <2>3, <2>6 DEF InCommand, HeldIn
<1>2. CASE ~(r.i < Len(r.cmd.inputs))
  <2>1. NextName(r, at) = Idle /\ r.dest = NoHandle
    BY <1>0, <1>2 DEF NextName, Program
  <2>2. Idle \in Program /\ InCommand(Idle) /\ InPlace(Idle) /\ HeldIn(Idle) = {}
    BY IdleHolds
  <2> QED
    BY <2>1, <2>2, FileProgramsAssumption DEF HeldIn
<1> QED
  BY <1>1, <1>2

(* A program that has got its source.                                      *)
LEMMA WithSrc ==
    ASSUME NEW r \in Program, InCommand(r), InPlace(r), r.at = "openSrc",
           NEW h \in Handles \cup {Host}, h \notin HeldIn(r), NEW n \in Nat, NEW s,
           s = [r EXCEPT !.at = IF r.cmd.do = "cp" THEN "openDest" ELSE "read",
                         !.src = h, !.due = @ + n]
    PROVE  s \in Program /\ InCommand(s) /\ InPlace(s) /\ HeldIn(s) = HeldIn(r) \cup ({h} \cap Handles)
<1> DEFINE at == IF r.cmd.do = "cp" THEN "openDest" ELSE "read"
<1>1. at \in Labels /\ r.due + n \in Nat /\ h \in Descriptors
  BY DEF Labels, Program, Descriptors
<1> HIDE DEF at
<1>2. /\ s \in Program /\ s.at = at /\ s.i = r.i /\ s.src = h /\ s.dest = r.dest /\ s.cmd = r.cmd
  BY <1>1 DEF Program, at
<1>3. /\ r.src = NoHandle /\ Copies(r) /\ (r.cmd.do = "cp" => r.dest = NoHandle)
      /\ h # NoHandle /\ NoHandle \notin Handles
  BY FileProgramsAssumption DEF InPlace
<1>4. InCommand(s)
  BY <1>2 DEF InCommand
<1>5. h \in Handles => h # r.dest
  BY DEF HeldIn
<1>6. InPlace(s)
  BY <1>2, <1>3, <1>5 DEF InPlace, Copies, HasDest, at
<1> QED
  BY <1>2, <1>3, <1>4, <1>6 DEF HeldIn

(* One that has got none goes on to close what cat writes to, or ends.     *)
LEMMA WithoutSrc ==
    ASSUME NEW r \in Program, InCommand(r), InPlace(r), r.at = "openSrc", NEW s,
           s = IF r.cmd.do = "cp" THEN Idle ELSE [r EXCEPT !.at = "closeDest", !.ok = FALSE]
    PROVE  s \in Program /\ InCommand(s) /\ InPlace(s) /\ HeldIn(s) = HeldIn(r)
<1>1. Idle \in Program /\ InCommand(Idle) /\ InPlace(Idle) /\ HeldIn(Idle) = {}
  BY IdleHolds
<1>2. r.src = NoHandle /\ Copies(r) /\ (r.cmd.do = "cp" => r.dest = NoHandle) /\ NoHandle \notin Handles
  BY FileProgramsAssumption DEF InPlace
<1>3. CASE r.cmd.do = "cp"
  BY <1>1, <1>2, <1>3 DEF HeldIn
<1>4. CASE r.cmd.do # "cp"
  <2>1. s = [r EXCEPT !.at = "closeDest", !.ok = FALSE]
    BY <1>4
  <2>2. /\ s \in Program /\ s.at = "closeDest" /\ s.i = r.i /\ s.src = r.src /\ s.dest = r.dest
        /\ s.cmd = r.cmd
    BY <2>1 DEF Program, Labels
  <2> QED
    BY <1>2, <2>2 DEF InCommand, InPlace, HeldIn, HasDest, Copies
<1> QED
  BY <1>3, <1>4

(* cat and cp open a file to read from.                                    *)
LEMMA OpenSrcHolds ==
    ASSUME FilesInv, NEW p \in Processes, OpenSrc(p)
    PROVE  FilesInv'
<1> DEFINE r == prog[p]
           name == Input(r)
           Opened(h, n) == [r EXCEPT !.at = IF r.cmd.do = "cp" THEN "openDest" ELSE "read",
                                     !.src = h, !.due = @ + n]
           refused == IF r.cmd.do = "cp" THEN Idle
                      ELSE [r EXCEPT !.at = "closeDest", !.ok = FALSE]
<1>1. r \in Program /\ InCommand(r) /\ InPlace(r) /\ r.at = "openSrc" /\ r.src = NoHandle
  BY DEF FilesInv, OpenSrc, InPlace
<1>2. r.cmd \in Commands /\ r.cmd \in Command /\ r.i \in 1..Len(r.cmd.inputs)
  BY <1>1, CommandsAssumption DEF InCommand, Commands
<1>3. name \in Names \cup {Host}
  BY <1>2 DEF Input, Command
<1>4. \/ UNCHANGED filesystem /\ \E s \in {Opened(Host, 0), refused} : prog' = [prog EXCEPT ![p] = s]
      \/ /\ name # Host /\ CanOpen(name, "F_READ") /\ fs_open(name, "F_READ")
         /\ prog' = [prog EXCEPT ![p] = Opened(NewHandle, ToRead(dir[First(Found(name))]))]
  BY DEF OpenSrc, Become
<1>5. Host \notin HeldIn(r)
  BY FileProgramsAssumption DEF HeldIn
<1>6. ASSUME UNCHANGED filesystem, NEW s \in {Opened(Host, 0), refused}, prog' = [prog EXCEPT ![p] = s]
      PROVE  FilesInv'
  <2>1. Inv' /\ open_files' = open_files
    BY <1>6, FilesystemStays DEF FilesInv, filesystem
  <2>2. s \in Program /\ InCommand(s) /\ InPlace(s) /\ HeldIn(s) = HeldIn(r)
    <3>1. CASE s = Opened(Host, 0)
      <4>1. s \in Program /\ InCommand(s) /\ InPlace(s) /\ HeldIn(s) = HeldIn(r) \cup ({Host} \cap Handles)
        BY <1>1, <1>5, <3>1, WithSrc
      <4> QED
        BY <4>1, FileProgramsAssumption
    <3>2. CASE s = refused
      BY <1>1, <3>2, WithoutSrc
    <3> QED
      BY <1>6, <3>1, <3>2
  <2> HIDE DEF r
  <2> QED
    BY <1>6, <2>1, <2>2, GoesOn DEF r
<1>7. ASSUME name # Host, CanOpen(name, "F_READ"), fs_open(name, "F_READ"),
             prog' = [prog EXCEPT ![p] = Opened(NewHandle, ToRead(dir[First(Found(name))]))]
      PROVE  FilesInv'
  <2> DEFINE h == NewHandle
             s == Opened(h, ToRead(dir[First(Found(name))]))
  <2>1. h \in Handles /\ ~IsOpen(h)
    BY <1>1, HandleLeft
  <2>2. Inv' /\ \A g \in Handles : IsOpen(g)' <=> IsOpen(g) \/ g = h
    BY <1>3, <1>7, <2>1, OpensFile DEF FilesInv, Modes
  <2>3. ToRead(dir[First(Found(name))]) \in Nat
    <3>1. Found(name) # {}
      BY <1>7 DEF CanOpen
    <3> QED
      BY <3>1, FoundEntry, ToReadType DEF FilesInv, Inv
  <2>4. h \notin HeldIn(r) /\ \A g \in Handles : g \in HeldIn(r) => IsOpen(g)
    BY <2>1 DEF FilesInv, ListedIsHeld
  <2>5. s \in Program /\ InCommand(s) /\ InPlace(s) /\ HeldIn(s) = HeldIn(r) \cup {h}
    <3> HIDE DEF r, h
    <3>1. s \in Program /\ InCommand(s) /\ InPlace(s) /\ HeldIn(s) = HeldIn(r) \cup ({h} \cap Handles)
      BY <1>1, <2>1, <2>3, <2>4, WithSrc
    <3> QED
      BY <2>1, <3>1
  <2>6. prog' = [prog EXCEPT ![p] = s]
    BY <1>7
  <2> HIDE DEF s, h, r
  <2>7. \A g \in Handles : g \in HeldIn(s) => g \in HeldIn(r) \/ ~IsOpen(g)
    BY <2>1, <2>5
  <2>8. \A g \in Handles : IsOpen(g)' <=> (IsOpen(g) /\ g \notin HeldIn(r)) \/ g \in HeldIn(s)
    BY <2>2, <2>4, <2>5
  <2> QED
    BY <2>2, <2>5, <2>6, <2>7, <2>8, OneMoves DEF r
<1> QED
  BY <1>4, <1>6, <1>7

(* Only cat and cp know the terminal and the files of the host.            *)
LEMMA InputsAreNames ==
    ASSUME NEW r \in Program, InCommand(r), r.at # "idle", ~Copies(r)
    PROVE  Input(r) \in Names /\ Input(r) # Host
<1>1. r.cmd \in Commands /\ r.i \in 1..Len(r.cmd.inputs) /\ r.cmd.inputs \in Seq(Names)
  BY CommandsAssumption DEF InCommand, Commands, Copies
<1> QED
  BY <1>1, FileProgramsAssumption DEF Input

(* A program that has got the file it writes to.                           *)
LEMMA WithDest ==
    ASSUME NEW r \in Program, InCommand(r), InPlace(r), r.at = "openDest",
           NEW h \in Handles \cup {Host}, h \notin HeldIn(r), h = Host <=> Output(r) = Host,
           NEW n \in Nat, NEW s,
           s = [r EXCEPT !.at = AfterDest(r.cmd.do), !.dest = h, !.due = @ + n]
    PROVE  s \in Program /\ InCommand(s) /\ InPlace(s) /\ HeldIn(s) = HeldIn(r) \cup ({h} \cap Handles)
<1> DEFINE at == AfterDest(r.cmd.do)
<1>1. /\ at \in {"openSrc", "read", "write", "chmod"}
      /\ at = "openSrc" => r.cmd.do = "cat"
      /\ at = "read" => r.cmd.do = "cp"
      /\ at = "write" => r.cmd.do = "touch"
      /\ at = "chmod" => r.cmd.do = "chmod"
  BY DEF InPlace, AfterDest
<1>2. at \in Labels /\ r.due + n \in Nat /\ h \in Descriptors
  BY <1>1 DEF Labels, Program, Descriptors
<1> HIDE DEF at
<1>3. s \in Program /\ s.at = at /\ s.i = r.i /\ s.src = r.src /\ s.dest = h /\ s.cmd = r.cmd
  BY <1>2 DEF Program, at
<1>4. /\ r.dest = NoHandle /\ (r.src = NoHandle <=> r.cmd.do # "cp")
      /\ h # NoHandle /\ NoHandle \notin Handles
  BY FileProgramsAssumption DEF InPlace
<1>5. InCommand(s)
  BY <1>3 DEF InCommand
<1>6. r.src \in Handles => h # r.src
  BY DEF HeldIn
<1>7. HasDest(s) => (s.dest \in Handles <=> ~(Copies(s) /\ s.cmd.output = Host))
  <2>1. Copies(r) => Output(r) = r.cmd.output
    BY DEF Output
  <2>2. ~Copies(r) => Output(r) # Host
    BY InputsAreNames DEF Output
  <2>3. h \in Handles <=> ~(Copies(r) /\ r.cmd.output = Host)
    BY <2>1, <2>2, FileProgramsAssumption
  <2> QED
    BY <1>3, <2>3 DEF Copies
<1>8. InPlace(s)
  BY <1>1, <1>3, <1>4, <1>6, <1>7 DEF InPlace, Copies
<1> QED
  BY <1>3, <1>4, <1>5, <1>8 DEF HeldIn

(* One that has got none: cp still has its source to close.                *)
LEMMA WithoutDestHolds ==
    ASSUME NEW r \in Program, InCommand(r), InPlace(r), r.at = "openDest"
    PROVE  /\ WithoutDest(r) \in Program /\ InCommand(WithoutDest(r)) /\ InPlace(WithoutDest(r))
           /\ HeldIn(WithoutDest(r)) = HeldIn(r)
<1>1. Idle \in Program /\ InCommand(Idle) /\ InPlace(Idle) /\ HeldIn(Idle) = {}
  BY IdleHolds
<1>2. /\ r.dest = NoHandle /\ (r.src = NoHandle <=> r.cmd.do # "cp")
      /\ r.cmd.do \in {"cat", "cp", "touch", "chmod"} /\ NoHandle \notin Handles
  BY FileProgramsAssumption DEF InPlace
<1>3. CASE r.cmd.do = "cp"
  <2> DEFINE s == [r EXCEPT !.at = "closeSrc", !.ok = FALSE]
  <2>1. /\ s \in Program /\ s.at = "closeSrc" /\ s.i = r.i /\ s.src = r.src /\ s.dest = r.dest
        /\ s.cmd = r.cmd
    BY DEF Program, Labels
  <2>2. WithoutDest(r) = s
    BY <1>3 DEF WithoutDest
  <2> HIDE DEF s
  <2> QED
    BY <1>2, <1>3, <2>1, <2>2 DEF InCommand, InPlace, HeldIn, Copies, HasDest
<1>4. CASE r.cmd.do = "touch"
  <2>1. WithoutDest(r) = NextName(r, "openDest")
    BY <1>4 DEF WithoutDest
  <2> QED
    BY <1>2, <1>4, <2>1, NextNameHolds
<1>5. CASE r.cmd.do \in {"cat", "chmod"}
  <2>1. WithoutDest(r) = Idle
    BY <1>5 DEF WithoutDest
  <2> QED
    BY <1>1, <1>2, <1>5, <2>1 DEF HeldIn
<1> QED
  BY <1>2, <1>3, <1>4, <1>5

(* The programs open the file they write to in a writing mode.             *)
LEMMA OutputIs ==
    ASSUME NEW r \in Program, InCommand(r), InPlace(r), r.at = "openDest"
    PROVE  /\ Output(r) \in Names \cup {Host}
           /\ Output(r) # Host => OutputMode(r) \in {"F_WRITE", "F_APPEND"}
<1>1. /\ r.cmd \in Commands /\ r.cmd \in Command /\ r.i \in 1..Len(r.cmd.inputs)
      /\ r.cmd.do \in {"cat", "cp", "touch", "chmod"}
      /\ r.cmd.do = "cat" /\ r.cmd.output # Host => r.cmd.mode \in {"F_WRITE", "F_APPEND"}
  BY CommandsAssumption DEF InCommand, InPlace, Commands
<1>2. Output(r) \in Names \cup {Host}
  BY <1>1 DEF Output, Input, Command
<1>3. r.cmd.do = "cat" => Output(r) = r.cmd.output
  BY DEF Output, Copies
<1> QED
  BY <1>1, <1>2, <1>3 DEF OutputMode

(* A program opens the file it writes to, or changes the permission of.    *)
LEMMA OpenDestHolds ==
    ASSUME FilesInv, NEW p \in Processes, OpenDest(p)
    PROVE  FilesInv'
<1> DEFINE r == prog[p]
           name == Output(r)
           mode == OutputMode(r)
           Opened(h, n) == [r EXCEPT !.at = AfterDest(r.cmd.do), !.dest = h, !.due = @ + n]
<1>1. r \in Program /\ InCommand(r) /\ InPlace(r) /\ r.at = "openDest" /\ r.dest = NoHandle
  BY DEF FilesInv, OpenDest, InPlace
<1>2. name \in Names \cup {Host} /\ (name # Host => mode \in {"F_WRITE", "F_APPEND"})
  BY <1>1, OutputIs
<1>3. \/ /\ UNCHANGED filesystem
         /\ \E s \in {Opened(Host, 0), WithoutDest(r)} :
               prog' = [prog EXCEPT ![p] = s] /\ (s = WithoutDest(r) \/ name = Host)
      \/ /\ name # Host /\ CanOpen(name, mode) /\ fs_open(name, mode)
         /\ prog' = [prog EXCEPT ![p] = Opened(NewHandle, dir'[file'[NewHandle].entry].size)]
  BY DEF OpenDest, Become
<1>4. Host \notin HeldIn(r)
  BY FileProgramsAssumption DEF HeldIn
<1>5. ASSUME UNCHANGED filesystem, NEW s \in {Opened(Host, 0), WithoutDest(r)},
             prog' = [prog EXCEPT ![p] = s], s = WithoutDest(r) \/ name = Host
      PROVE  FilesInv'
  <2>1. Inv' /\ open_files' = open_files
    BY <1>5, FilesystemStays DEF FilesInv, filesystem
  <2>2. s \in Program /\ InCommand(s) /\ InPlace(s) /\ HeldIn(s) = HeldIn(r)
    <3>1. CASE s = Opened(Host, 0) /\ name = Host
      <4> HIDE DEF r
      <4>1. s \in Program /\ InCommand(s) /\ InPlace(s) /\ HeldIn(s) = HeldIn(r) \cup ({Host} \cap Handles)
        BY <1>1, <1>4, <3>1, WithDest
      <4> QED
        BY <4>1, FileProgramsAssumption
    <3>2. CASE s = WithoutDest(r)
      BY <1>1, <3>2, WithoutDestHolds
    <3> QED
      BY <1>5, <3>1, <3>2
  <2> HIDE DEF r
  <2> QED
    BY <1>5, <2>1, <2>2, GoesOn DEF r
<1>6. ASSUME name # Host, fs_open(name, mode),
             prog' = [prog EXCEPT ![p] = Opened(NewHandle, dir'[file'[NewHandle].entry].size)]
      PROVE  FilesInv'
  <2> DEFINE h == NewHandle
             n == dir'[file'[h].entry].size
             s == Opened(h, n)
  <2>1. h \in Handles /\ ~IsOpen(h)
    BY <1>1, HandleLeft
  <2>2. Inv' /\ \A g \in Handles : IsOpen(g)' <=> IsOpen(g) \/ g = h
    BY <1>2, <1>6, <2>1, OpensFile DEF FilesInv, Modes
  <2>3. n \in Nat
    <3>1. file'[h].entry \in DOMAIN dir' /\ dir' \in Seq(Entry)
      BY <2>1, <2>2 DEF Inv, TypeOK, HandlesAlive, IsOpen, OpenIndices, EntryOf
    <3>2. dir'[file'[h].entry] \in Entry
      BY <3>1
    <3> QED
      BY <3>2, FatAssumption DEF Entry, Offsets
  <2>4. h \notin HeldIn(r) /\ \A g \in Handles : g \in HeldIn(r) => IsOpen(g)
    BY <2>1 DEF FilesInv, ListedIsHeld
  <2>5. prog' = [prog EXCEPT ![p] = s]
    BY <1>6
  <2> HIDE DEF h, n
  <2>6. s \in Program /\ InCommand(s) /\ InPlace(s) /\ HeldIn(s) = HeldIn(r) \cup {h}
    <3> HIDE DEF r
    <3>1. s \in Program /\ InCommand(s) /\ InPlace(s) /\ HeldIn(s) = HeldIn(r) \cup ({h} \cap Handles)
      BY <1>1, <1>6, <2>1, <2>3, <2>4, FileProgramsAssumption, WithDest
    <3> QED
      BY <2>1, <3>1
  <2> HIDE DEF s, r
  <2>7. \A g \in Handles : g \in HeldIn(s) => g \in HeldIn(r) \/ ~IsOpen(g)
    BY <2>1, <2>6
  <2>8. \A g \in Handles : IsOpen(g)' <=> (IsOpen(g) /\ g \notin HeldIn(r)) \/ g \in HeldIn(s)
    BY <2>2, <2>4, <2>6
  <2> QED
    BY <2>2, <2>5, <2>6, <2>7, <2>8, OneMoves DEF r
<1> QED
  BY <1>3, <1>5, <1>6

-----------------------------------------------------------------------------
(* What a program holds is open.                                           *)
LEMMA HeldIsOpen ==
    ASSUME FilesInv, NEW p \in Processes
    PROVE  \A h \in Handles : h \in HeldIn(prog[p]) => IsOpen(h)
BY DEF FilesInv, ListedIsHeld

(* The filesystem's calls on a handle leave the list of open files alone.  *)
LEMMA CallsKeepList ==
    ASSUME NEW h \in Handles, NEW len \in Nat, Read(h, len) \/ Write(h, len) \/ Chmod(h)
    PROVE  open_files' = open_files
BY DEF Read, Write, WriteTo, Chmod

(* cat and cp read their source.                                           *)
LEMMA ReadSrcHolds ==
    ASSUME FilesInv, NEW p \in Processes, ReadSrc(p)
    PROVE  FilesInv'
<1> DEFINE r == prog[p]
           h == r.src
<1>1. r \in Program /\ InCommand(r) /\ InPlace(r) /\ r.at = "read"
  BY DEF FilesInv, ReadSrc
<1>2. h \in Handles \/ h = Host
  BY <1>1 DEF Program, Descriptors, InPlace
<1>3. Inv' /\ open_files' = open_files
  <2>1. UNCHANGED filesystem \/ (h \in Handles /\ Read(h, Chunk))
    BY <1>2 DEF ReadSrc
  <2>2. Chunk \in Nat
    BY FileProgramsAssumption
  <2>3. CASE UNCHANGED filesystem
    BY <2>3, FilesystemStays DEF FilesInv, filesystem
  <2>4. CASE h \in Handles /\ Read(h, Chunk)
    BY <2>2, <2>4, ReadStep, CallsKeepList DEF FilesInv
  <2> QED
    BY <2>1, <2>3, <2>4
<1>4. \E n \in Nat, more \in Nat : HasRead(p, n, more) \/ ReadFails(p)
  <2>1. CASE h = Host
    <3>1. ReadFails(p) \/ \E n \in 0..Chunk : HasRead(p, n, n)
      BY <2>1 DEF ReadSrc
    <3>2. 0..Chunk \in SUBSET Nat
      BY FileProgramsAssumption
    <3> QED
      BY <3>1, <3>2
  <2>2. CASE h # Host /\ AtEnd(h)
    BY <2>2 DEF ReadSrc
  <2>3. CASE h # Host /\ ~AtEnd(h)
    <3>1. IF file'[h].offset > file[h].offset
          THEN HasRead(p, file'[h].offset - file[h].offset, 0) ELSE ReadFails(p)
      BY <2>3 DEF ReadSrc
    <3>2. h \in Handles
      BY <1>2, <2>3
    <3>3. file[h].offset \in Nat /\ file'[h].offset \in Nat
      BY <1>3, <3>2, FatAssumption DEF FilesInv, Inv, TypeOK, File, Offsets
    <3> QED
      BY <3>1, <3>3
  <2> QED
    BY <2>1, <2>2, <2>3
<1>5. PICK n \in Nat, more \in Nat : HasRead(p, n, more) \/ ReadFails(p)
  BY <1>4
<1>6. PICK s \in {[r EXCEPT !.at = "write", !.bytes = n, !.due = @ + more],
                  [r EXCEPT !.at = "closeSrc", !.ok = FALSE]} : prog' = [prog EXCEPT ![p] = s]
  BY <1>5 DEF HasRead, ReadFails, Become
<1>7. /\ s \in Program /\ s.at \in {"write", "closeSrc"} /\ s.i = r.i
      /\ s.src = r.src /\ s.dest = r.dest /\ s.cmd = r.cmd
  <2>1. r.due + more \in Nat
    BY <1>1 DEF Program
  <2> HIDE DEF r
  <2>2. CASE s = [r EXCEPT !.at = "write", !.bytes = n, !.due = @ + more]
    BY <1>1, <2>1, <2>2 DEF Program, Labels
  <2>3. CASE s = [r EXCEPT !.at = "closeSrc", !.ok = FALSE]
    BY <1>1, <2>3 DEF Program, Labels
  <2> QED
    BY <1>6, <2>2, <2>3
<1> HIDE DEF r, h
<1>8. InCommand(s) /\ InPlace(s) /\ HeldIn(s) = HeldIn(r)
  BY <1>1, <1>7 DEF InCommand, InPlace, HasDest, HeldIn, Copies
<1> QED
  BY <1>3, <1>6, <1>7, <1>8, GoesOn DEF r

(* What follows a write.                                                   *)
LEMMA AfterWriteHolds ==
    ASSUME NEW r \in Program, InCommand(r), InPlace(r), r.at = "write", NEW written \in BOOLEAN
    PROVE  /\ AfterWrite(r, written) \in Program
           /\ InCommand(AfterWrite(r, written)) /\ InPlace(AfterWrite(r, written))
           /\ HeldIn(AfterWrite(r, written)) = HeldIn(r)
<1>1. CASE ~Copies(r)
  <2> DEFINE s == [r EXCEPT !.at = "closeDest"]
  <2>1. /\ s \in Program /\ s.at = "closeDest" /\ s.i = r.i
        /\ s.src = r.src /\ s.dest = r.dest /\ s.cmd = r.cmd
    BY DEF Program, Labels
  <2>2. AfterWrite(r, written) = s
    BY <1>1 DEF AfterWrite
  <2> HIDE DEF s
  <2> QED
    BY <1>1, <2>1, <2>2 DEF InCommand, InPlace, HasDest, HeldIn
<1>2. CASE Copies(r)
  <2> DEFINE at == IF written /\ r.bytes > 0 THEN "read" ELSE "closeSrc"
             s == [r EXCEPT !.at = at, !.ok = written]
  <2>1. at \in {"read", "closeSrc"}
    OBVIOUS
  <2>2. AfterWrite(r, written) = s
    BY <1>2 DEF AfterWrite
  <2> HIDE DEF at
  <2>3. /\ s \in Program /\ s.at = at /\ s.i = r.i
        /\ s.src = r.src /\ s.dest = r.dest /\ s.cmd = r.cmd
    BY <2>1 DEF Program, Labels
  <2> HIDE DEF s
  <2> QED
    BY <1>2, <2>1, <2>2, <2>3 DEF InCommand, InPlace, HasDest, HeldIn, Copies
<1> QED
  BY <1>1, <1>2

(* The write of no bytes, or to a file that may not be written, moves the  *)
(* offset at most.                                                         *)
LEMMA EmptyWriteStep ==
    ASSUME Inv, NEW h \in Handles, IsOpen(h), NEW at \in Offsets,
           file' = [file EXCEPT ![h].offset = at], UNCHANGED <<fat, dir, open_files, fault>>
    PROVE  Inv'
<1>1. file \in [Handles -> File]
  BY DEF Inv, TypeOK
<1>2. [file[h] EXCEPT !.offset = at] \in File
  BY <1>1 DEF File
<1>3. file' = [file EXCEPT ![h] = [file[h] EXCEPT !.offset = at]]
  OBVIOUS
<1>4. TypeOK'
  BY <1>1, <1>2, <1>3 DEF Inv, TypeOK
<1>5. \A g \in Handles : file'[g].entry = file[g].entry /\ file'[g].mode = file[g].mode
  BY <1>1 DEF File
<1> QED
  BY <1>4, <1>5, SameHandles

(* A program writes what it has read, and touch nothing.                   *)
LEMMA WriteDestHolds ==
    ASSUME FilesInv, NEW p \in Processes, WriteDest(p)
    PROVE  FilesInv'
<1> DEFINE r == prog[p]
           h == r.dest
           e == dir[file[h].entry]
           from == IF file[h].mode = "F_APPEND" THEN e.size ELSE file[h].offset
<1>1. r \in Program /\ InCommand(r) /\ InPlace(r) /\ r.at = "write"
  BY DEF FilesInv, WriteDest
<1>2. r.cmd.output = Host /\ Copies(r) <=> h \notin Handles
  BY <1>1 DEF InPlace, HasDest
<1>3. r.bytes \in Nat /\ (r.bytes > 0 \/ r.bytes = 0)
  BY <1>1 DEF Program
<1>4. CASE r.cmd.output = Host /\ Copies(r)
  <2>0. UNCHANGED filesystem /\ \E written \in BOOLEAN : Become(p, AfterWrite(r, written))
    BY <1>2, <1>4 DEF WriteDest
  <2>1. UNCHANGED filesystem /\ \E written \in BOOLEAN : prog' = [prog EXCEPT ![p] = AfterWrite(r, written)]
    BY <2>0 DEF Become
  <2>2. Inv' /\ open_files' = open_files
    BY <2>1, FilesystemStays DEF FilesInv, filesystem
  <2> HIDE DEF r, h
  <2> QED
    BY <1>1, <2>1, <2>2, AfterWriteHolds, GoesOn DEF r
<1>5. CASE ~(r.cmd.output = Host /\ Copies(r))
  <2>1. h \in Handles /\ h \in HeldIn(r) /\ IsOpen(h)
    BY <1>2, <1>5, HeldIsOpen DEF HeldIn
  <2>2. e \in Entry /\ file[h] \in File
    BY <2>1 DEF FilesInv, Inv, TypeOK, HandlesAlive, IsOpen, OpenIndices, EntryOf
  <2>3. e.writable \in BOOLEAN /\ from \in Offsets
    BY <2>2 DEF Entry, File
  <2>4. CASE e.writable /\ r.bytes > 0
    <3>0. Write(h, r.bytes) /\ Become(p, AfterWrite(r, file'[h].offset = (from + r.bytes) % UINT))
      <4>1. r.bytes # 0
        BY <1>3, <2>4
      <4> QED
        BY <1>5, <2>1, <2>4, <4>1 DEF WriteDest
    <3>1. Write(h, r.bytes) /\ prog' = [prog EXCEPT ![p] = AfterWrite(r, file'[h].offset = (from + r.bytes) % UINT)]
      BY <3>0 DEF Become
    <3>2. Inv' /\ open_files' = open_files
      BY <1>3, <2>1, <3>1, WriteStep, CallsKeepList DEF FilesInv
    <3>3. PICK written \in BOOLEAN : prog' = [prog EXCEPT ![p] = AfterWrite(r, written)]
      BY <3>1
    <3> HIDE DEF r, h
    <3> QED
      BY <1>1, <3>2, <3>3, AfterWriteHolds, GoesOn DEF r
  <2>5. CASE ~e.writable \/ r.bytes = 0
    <3>1. /\ prog' = [prog EXCEPT ![p] = AfterWrite(r, e.writable)]
          /\ file' = [file EXCEPT ![h].offset = IF e.writable THEN from ELSE @]
          /\ UNCHANGED <<fat, dir, open_files, fault>>
      <4>0. ~(e.writable /\ r.bytes > 0)
        BY <1>3, <2>5
      <4>1. /\ Become(p, AfterWrite(r, e.writable))
            /\ file' = [file EXCEPT ![h].offset = IF e.writable THEN from ELSE @]
            /\ UNCHANGED <<fat, dir, open_files, fault>>
        BY <1>5, <2>1, <2>5, <4>0 DEF WriteDest
      <4> QED
        BY <4>1 DEF Become
    <3>2. PICK at \in Offsets : file' = [file EXCEPT ![h].offset = at]
      <4>1. (IF e.writable THEN from ELSE file[h].offset) \in Offsets
        BY <2>2, <2>3 DEF File
      <4> QED
        BY <3>1, <4>1
    <3>3. Inv' /\ open_files' = open_files
      BY <2>1, <3>1, <3>2, EmptyWriteStep DEF FilesInv
    <3>4. PICK written \in BOOLEAN : prog' = [prog EXCEPT ![p] = AfterWrite(r, written)]
      BY <2>3, <3>1
    <3> HIDE DEF r, h
    <3> QED
      BY <1>1, <3>3, <3>4, AfterWriteHolds, GoesOn DEF r
  <2> QED
    BY <1>3, <2>3, <2>4, <2>5
<1> QED
  BY <1>4, <1>5

(* chmod changes the permission of the file it has opened.                 *)
LEMMA SetPermissionHolds ==
    ASSUME FilesInv, NEW p \in Processes, SetPermission(p)
    PROVE  FilesInv'
<1> DEFINE r == prog[p]
           s == [r EXCEPT !.at = "closeDest"]
<1>1. r \in Program /\ InCommand(r) /\ InPlace(r) /\ r.at = "chmod"
  BY DEF FilesInv, SetPermission
<1>2. r.dest \in Handles
  BY <1>1 DEF InPlace, HasDest, Copies
<1>3. Inv' /\ open_files' = open_files
  <2>1. CASE UNCHANGED filesystem
    BY <2>1, FilesystemStays DEF FilesInv, filesystem
  <2>2. CASE Chmod(r.dest)
    BY <1>2, <2>2, ChmodStep DEF FilesInv, Chmod
  <2> QED
    BY <2>1, <2>2 DEF SetPermission
<1>4. prog' = [prog EXCEPT ![p] = s]
  BY DEF SetPermission, Become
<1> HIDE DEF r
<1>5. /\ s \in Program /\ s.at = "closeDest" /\ s.i = r.i
      /\ s.src = r.src /\ s.dest = r.dest /\ s.cmd = r.cmd
  BY <1>1 DEF Program, Labels
<1> HIDE DEF s
<1>6. InCommand(s) /\ InPlace(s) /\ HeldIn(s) = HeldIn(r)
  BY <1>1, <1>5 DEF InCommand, InPlace, HasDest, HeldIn
<1> QED
  BY <1>3, <1>4, <1>5, <1>6, GoesOn DEF r

(* fs_close of what a program holds, which is then held no longer.         *)
LEMMA CloseFileStep ==
    ASSUME FilesInv, NEW p \in Processes, NEW h, CloseFile(h), h \in Handles => h \in HeldIn(prog[p])
    PROVE  /\ Inv'
           /\ \A g \in Handles : IsOpen(g)' <=> IsOpen(g) /\ g # h
<1>1. CASE h \in Handles
  BY <1>1, CloseStep, CloseTakes DEF CloseFile, FilesInv
<1>2. CASE h \notin Handles
  <2>1. UNCHANGED filesystem /\ Inv'
    BY <1>2, FilesystemStays DEF CloseFile, FilesInv
  <2>2. \A g \in Handles : IsOpen(g)' <=> IsOpen(g)
    BY <2>1 DEF IsOpen, OpenIndices, filesystem
  <2> QED
    BY <1>2, <2>1, <2>2
<1> QED
  BY <1>1, <1>2

(* A program closes one of its files.                                      *)
LEMMA GivesBack ==
    ASSUME FilesInv, NEW p \in Processes, NEW h, CloseFile(h), h \in Handles => h \in HeldIn(prog[p]),
           NEW s \in Program, prog' = [prog EXCEPT ![p] = s], InCommand(s), InPlace(s),
           HeldIn(s) = HeldIn(prog[p]) \ {h}
    PROVE  FilesInv'
<1>1. Inv' /\ \A g \in Handles : IsOpen(g)' <=> IsOpen(g) /\ g # h
  BY CloseFileStep
<1>2. \A g \in Handles : g \in HeldIn(prog[p]) => IsOpen(g)
  BY HeldIsOpen
<1>3. \A g \in Handles : g \in HeldIn(s) => g \in HeldIn(prog[p]) \/ ~IsOpen(g)
  OBVIOUS
<1>4. \A g \in Handles : IsOpen(g)' <=> (IsOpen(g) /\ g \notin HeldIn(prog[p])) \/ g \in HeldIn(s)
  BY <1>1, <1>2
<1> QED
  BY <1>1, <1>3, <1>4, OneMoves

(* cat and cp close their source.                                          *)
LEMMA CloseSrcHolds ==
    ASSUME FilesInv, NEW p \in Processes, CloseSrc(p)
    PROVE  FilesInv'
<1> DEFINE r == [prog[p] EXCEPT !.src = NoHandle]
           more == r.ok /\ r.i < Len(r.cmd.inputs)
           h == prog[p].src
<1>1. /\ prog[p] \in Program /\ InCommand(prog[p]) /\ InPlace(prog[p])
      /\ prog[p].at = "closeSrc"
  BY DEF FilesInv, CloseSrc
<1>2. /\ r \in Program /\ r.at = "closeSrc" /\ r.i = prog[p].i /\ r.cmd = prog[p].cmd
      /\ r.src = NoHandle /\ r.dest = prog[p].dest
  BY <1>1 DEF Program, Descriptors
<1>3. \/ r.cmd.do = "cat" /\ more /\ prog' = [prog EXCEPT ![p] = NextName(r, "openSrc")]
      \/ prog' = [prog EXCEPT ![p] = [r EXCEPT !.at = "closeDest"]]
  BY DEF CloseSrc, Become
<1>4. CloseFile(h) /\ (h \in Handles => h \in HeldIn(prog[p]))
  BY DEF CloseSrc, HeldIn
<1> DEFINE s == IF r.cmd.do = "cat" /\ more THEN NextName(r, "openSrc")
                ELSE [r EXCEPT !.at = "closeDest"]
<1>5. prog' = [prog EXCEPT ![p] = s]
  BY DEF CloseSrc, Become
<1> HIDE DEF r
<1>6. InCommand(r) /\ InPlace(r)
  BY <1>1, <1>2, FileProgramsAssumption DEF InCommand, InPlace, HasDest, Copies
<1>7. HeldIn(r) = HeldIn(prog[p]) \ {h}
  BY <1>1, <1>2, FileProgramsAssumption DEF HeldIn, InPlace
<1>8. s \in Program /\ InCommand(s) /\ InPlace(s) /\ HeldIn(s) = HeldIn(r)
  <2>1. CASE r.cmd.do = "cat" /\ more
    <3>1. s = NextName(r, "openSrc")
      BY <2>1
    <3>2. r.dest \in Handles <=> r.cmd.output # Host
      BY <1>2, <1>6, <2>1 DEF InPlace, HasDest, Copies
    <3>3. ~(r.i >= Len(r.cmd.inputs))
      <4>1. r.cmd.inputs \in Seq(Names \cup {Host}) /\ r.i \in Nat
        BY <1>2, <1>6, CommandsAssumption DEF InCommand, Commands, Command, Program
      <4> QED
        BY <2>1, <4>1
    <3> QED
      BY <1>2, <1>6, <2>1, <3>1, <3>2, <3>3, NextNameHolds
  <2>2. CASE ~(r.cmd.do = "cat" /\ more)
    <3>1. s = [r EXCEPT !.at = "closeDest"]
      BY <2>2
    <3>2. /\ s \in Program /\ s.at = "closeDest" /\ s.i = r.i
          /\ s.src = r.src /\ s.dest = r.dest /\ s.cmd = r.cmd
      BY <1>2, <3>1 DEF Program, Labels
    <3> QED
      BY <1>2, <1>6, <3>2 DEF InCommand, InPlace, HasDest, HeldIn, Copies
  <2> QED
    BY <2>1, <2>2
<1> HIDE DEF s
<1> QED
  BY <1>4, <1>5, <1>7, <1>8, GivesBack

(* A program closes the file it has written to.                            *)
LEMMA CloseDestHolds ==
    ASSUME FilesInv, NEW p \in Processes, CloseDest(p)
    PROVE  FilesInv'
<1> DEFINE r == [prog[p] EXCEPT !.dest = NoHandle]
           h == prog[p].dest
           s == IF Copies(r) THEN Idle ELSE NextName(r, "openDest")
<1>1. /\ prog[p] \in Program /\ InCommand(prog[p]) /\ InPlace(prog[p])
      /\ prog[p].at = "closeDest" /\ prog[p].src = NoHandle
  BY DEF FilesInv, CloseDest, InPlace
<1>2. /\ r \in Program /\ r.at = "closeDest" /\ r.i = prog[p].i /\ r.cmd = prog[p].cmd
      /\ r.src = NoHandle /\ r.dest = NoHandle
  BY <1>1 DEF Program, Descriptors
<1>3. CloseFile(h) /\ (h \in Handles => h \in HeldIn(prog[p]))
  BY DEF CloseDest, HeldIn
<1>4. prog' = [prog EXCEPT ![p] = s]
  BY DEF CloseDest, Become
<1> HIDE DEF r
<1>5. InCommand(r) /\ InPlace(r)
  BY <1>1, <1>2, FileProgramsAssumption DEF InCommand, InPlace, HasDest, Copies
<1>6. HeldIn(r) = {} /\ HeldIn(prog[p]) \ {h} = {}
  BY <1>1, <1>2, FileProgramsAssumption DEF HeldIn
<1>7. s \in Program /\ InCommand(s) /\ InPlace(s) /\ HeldIn(s) = {}
  <2>1. CASE Copies(r)
    BY <2>1, IdleHolds
  <2>2. CASE ~Copies(r)
    BY <1>1, <1>2, <1>5, <1>6, <2>2, NextNameHolds DEF Copies, InPlace
  <2> QED
    BY <2>1, <2>2
<1> HIDE DEF s
<1> QED
  BY <1>3, <1>4, <1>6, <1>7, GivesBack

(* rm removes the next of its files.                                       *)
LEMMA RemoveHolds ==
    ASSUME FilesInv, NEW p \in Processes, Remove(p)
    PROVE  FilesInv'
<1> DEFINE r == prog[p]
<1>1. /\ r \in Program /\ InCommand(r) /\ InPlace(r) /\ r.at = "rm" /\ r.cmd.do = "rm"
      /\ r.src = NoHandle /\ r.dest = NoHandle
  BY DEF FilesInv, Remove, InPlace
<1>2. Input(r) \in Names
  BY <1>1, InputsAreNames DEF Copies
<1>3. Inv' /\ open_files' = open_files
  <2>1. CASE UNCHANGED filesystem
    BY <2>1, FilesystemStays DEF FilesInv, filesystem
  <2>2. CASE Unlink(Input(r))
    BY <1>2, <2>2, UnlinkStep DEF FilesInv, Unlink
  <2> QED
    BY <2>1, <2>2 DEF Remove
<1>4. prog' = [prog EXCEPT ![p] = NextName(r, "rm")]
  BY DEF Remove, Become
<1> HIDE DEF r
<1>5. /\ NextName(r, "rm") \in Program /\ InCommand(NextName(r, "rm")) /\ InPlace(NextName(r, "rm"))
      /\ HeldIn(NextName(r, "rm")) = HeldIn(r)
  BY <1>1, NextNameHolds
<1> QED
  BY <1>3, <1>4, <1>5, GoesOn DEF r

(* mv gives a file another name.                                           *)
LEMMA MoveHolds ==
    ASSUME FilesInv, NEW p \in Processes, Move(p)
    PROVE  FilesInv'
<1> DEFINE r == prog[p]
<1>1. /\ r \in Program /\ InCommand(r) /\ InPlace(r) /\ r.at = "mv" /\ r.cmd.do = "mv"
      /\ r.src = NoHandle /\ r.dest = NoHandle
  BY DEF FilesInv, Move, InPlace
<1>2. Input(r) \in Names
  BY <1>1, InputsAreNames DEF Copies
<1>3. r.cmd.inputs[2] \in Names
  BY <1>1, CommandsAssumption DEF InCommand, Commands
<1>4. Inv' /\ open_files' = open_files
  <2>1. CASE UNCHANGED filesystem
    BY <2>1, FilesystemStays DEF FilesInv, filesystem
  <2>2. CASE Rename(Input(r), r.cmd.inputs[2])
    BY <1>2, <1>3, <2>2, RenameStep DEF FilesInv, Rename
  <2> QED
    BY <2>1, <2>2 DEF Move
<1>5. prog' = [prog EXCEPT ![p] = Idle]
  BY DEF Move, Become
<1>6. HeldIn(r) = {}
  BY <1>1, FileProgramsAssumption DEF HeldIn
<1> HIDE DEF r
<1> QED
  BY <1>4, <1>5, <1>6, IdleHolds, GoesOn DEF r

(* A program that is killed keeps what it holds.                           *)
LEMMA KillHolds ==
    ASSUME FilesInv, NEW p \in Processes, Kill(p)
    PROVE  FilesInv'
<1> DEFINE r == prog[p]
           s == [r EXCEPT !.at = "killed"]
<1>1. r \in Program /\ InCommand(r) /\ InPlace(r) /\ r.at # "idle"
  BY DEF FilesInv, Kill
<1>2. prog' = [prog EXCEPT ![p] = s]
  BY DEF Kill, Become
<1>3. Inv' /\ open_files' = open_files
  BY FilesystemStays DEF Kill, FilesInv, filesystem
<1> HIDE DEF r
<1>4. /\ s \in Program /\ s.at = "killed" /\ s.i = r.i
      /\ s.src = r.src /\ s.dest = r.dest /\ s.cmd = r.cmd
  BY <1>1 DEF Program, Labels
<1> HIDE DEF s
<1>5. InCommand(s) /\ InPlace(s) /\ HeldIn(s) = HeldIn(r)
  BY <1>1, <1>4 DEF InCommand, InPlace, HasDest, HeldIn
<1> QED
  BY <1>2, <1>3, <1>4, <1>5, GoesOn DEF r

-----------------------------------------------------------------------------
(* Nothing is open when no program runs.                                   *)
LEMMA NothingOpen ==
    ASSUME FilesInv, \A p \in Processes : prog[p].at = "idle"
    PROVE  /\ open_files = <<>> /\ \A h \in Handles : ~IsOpen(h)
           /\ \A p \in Processes : HeldIn(prog[p]) = {}
<1>1. \A p \in Processes : HeldIn(prog[p]) = {}
  BY FileProgramsAssumption DEF FilesInv, InPlace, HeldIn
<1>2. \A h \in Handles : ~IsOpen(h)
  BY <1>1 DEF FilesInv, ListedIsHeld
<1>3. open_files \in Seq(Handles)
  BY DEF FilesInv, Inv, TypeOK
<1>4. Len(open_files) = 0
  BY <1>2, <1>3 DEF IsOpen, OpenIndices
<1> QED
  BY <1>1, <1>2, <1>3, <1>4

(* The filesystem is mounted, or the machine has been started again.       *)
LEMMA MountedHolds ==
    ASSUME FilesInv, Remount, prog' \in [Processes -> Program],
           \A p \in Processes : /\ InCommand(prog'[p]) /\ InPlace(prog'[p])
                                /\ HeldIn(prog'[p]) = {}
    PROVE  FilesInv'
<1>1. Inv'
  BY RemountStep DEF FilesInv
<1>2. \A h \in Handles : ~IsOpen(h)'
  BY DEF Remount, IsOpen, OpenIndices
<1> QED
  BY <1>1, <1>2 DEF FilesInv, ListedIsHeld

(* mkfs empties the table and the directory while nothing is open.         *)
LEMMA MkfsHolds ==
    ASSUME FilesInv, Mkfs
    PROVE  FilesInv'
<1>1. open_files = <<>> /\ open_files' = <<>> /\ prog' = prog /\ file' = file
  BY NothingOpen DEF Mkfs, Alone
<1>2. dir' = EmptyBlock /\ dir' \in Seq(Entry) /\ \A e \in DOMAIN dir' : dir'[e].state = "end"
  <2>1. EmptyBlock \in Seq(Entry)
    BY EntryTypes, FatAssumption DEF EmptyBlock
  <2>2. \A e \in DOMAIN EmptyBlock : EmptyBlock[e].state = "end"
    BY DEF EmptyBlock, EmptyEntry
  <2> QED
    BY <2>1, <2>2 DEF Mkfs
<1>3. fat' \in Tables /\ fault' = fault
  BY DEF Mkfs, Tables
<1>4. TypeOK'
  BY <1>1, <1>2, <1>3 DEF FilesInv, Inv, TypeOK, Tables
<1>5. HandlesAlive' /\ LocksExclusive'
  BY <1>1 DEF HandlesAlive, LocksExclusive, OpenIndices
<1>6. NamesUnique'
  BY <1>2 DEF NamesUnique
<1>7. \A h \in Handles : IsOpen(h)' <=> IsOpen(h)
  BY <1>1 DEF IsOpen, OpenIndices
<1> QED
  BY <1>1, <1>4, <1>5, <1>6, <1>7 DEF FilesInv, Inv, ListedIsHeld

(* One step of one program.                                                *)
LEMMA StepHolds ==
    ASSUME FilesInv, NEW p \in Processes, Step(p)
    PROVE  FilesInv'
BY OpenSrcHolds, OpenDestHolds, ReadSrcHolds, WriteDestHolds, SetPermissionHolds,
   CloseSrcHolds, CloseDestHolds, RemoveHolds, MoveHolds DEF Step

(* Every step of the programs and of the machine keeps the invariant.      *)
LEMMA FilesNextInv == FilesInv /\ [FilesNext]_allVars => FilesInv'
<1> SUFFICES ASSUME FilesInv, [FilesNext]_allVars PROVE FilesInv'
  OBVIOUS
<1>1. ASSUME NEW p \in Processes, Start(p) PROVE FilesInv'
  BY <1>1, StartHolds
<1>2. ASSUME NEW p \in Processes, Step(p) PROVE FilesInv'
  BY <1>2, StepHolds
<1>3. ASSUME NEW p \in Processes, Kill(p) PROVE FilesInv'
  BY <1>3, KillHolds
<1>4. CASE Mount
  <2>1. \A p \in Processes : HeldIn(prog[p]) = {}
    BY <1>4, NothingOpen DEF Mount, Alone
  <2>2. Remount /\ prog' = prog
    BY <1>4 DEF Mount
  <2> QED
    BY <2>1, <2>2, MountedHolds DEF FilesInv
<1>5. CASE UNCHANGED <<filesystem, prog>>
  <2>1. Inv' /\ open_files' = open_files /\ prog' = prog
    BY <1>5, FilesystemStays DEF FilesInv, filesystem
  <2>2. \A h \in Handles : IsOpen(h)' <=> IsOpen(h)
    BY <2>1 DEF IsOpen, OpenIndices
  <2> QED
    BY <2>1, <2>2 DEF FilesInv, ListedIsHeld
<1>6. CASE Mkfs
  BY <1>6, MkfsHolds
<1>7. CASE Restart
  <2>1. Remount /\ prog' = [p \in Processes |-> Idle]
    BY <1>7 DEF Restart
  <2>2. prog' \in [Processes -> Program] /\ \A p \in Processes : prog'[p] = Idle
    BY <2>1, IdleHolds
  <2> QED
    BY <2>1, <2>2, IdleHolds, MountedHolds
<1>8. Umount \/ UNCHANGED allVars => UNCHANGED <<filesystem, prog>>
  BY DEF Umount, allVars, filesystem
<1> QED
  BY <1>1, <1>2, <1>3, <1>4, <1>5, <1>6, <1>7, <1>8 DEF FilesNext

(* The inductive invariant holds always.                                   *)
THEOREM FilesInvariance == FilesSpec => []FilesInv
<1>1. FilesInit => FilesInv
  BY FilesInitInv
<1>2. FilesInv /\ [FilesNext]_allVars => FilesInv'
  BY FilesNextInv
<1> QED
  BY <1>1, <1>2, PTL DEF FilesSpec

(* What the invariant says of the list of open files: every place of it    *)
(* holds another handle, and these are the programs'.                      *)
LEMMA HeldOnce == FilesInv => NoLeak
<1> SUFFICES ASSUME FilesInv PROVE NoLeak
  OBVIOUS
<1> DEFINE Held == UNION {HeldBy(p) : p \in Processes}
           Listed == {open_files[i] : i \in OpenIndices}
<1>1. \A p \in Processes : HeldBy(p) = HeldIn(prog[p])
  BY DEF HeldBy, HeldIn
<1>2. open_files \in Seq(Handles)
  BY DEF FilesInv, Inv, TypeOK
<1>3. Listed = Held
  <2>1. \A h \in Handles : h \in Listed <=> IsOpen(h)
    BY DEF IsOpen
  <2>2. \A h \in Handles : h \in Held <=> \E p \in Processes : h \in HeldIn(prog[p])
    BY <1>1
  <2>3. Listed \subseteq Handles /\ Held \subseteq Handles
    BY <1>2 DEF OpenIndices, HeldBy
  <2>4. \A h \in Handles : IsOpen(h) <=> \E p \in Processes : h \in HeldIn(prog[p])
    BY DEF FilesInv, ListedIsHeld
  <2> QED
    BY <2>1, <2>2, <2>3, <2>4
<1>4. Cardinality(Listed) = Len(open_files)
  <2>1. \A i, j \in OpenIndices : open_files[i] = open_files[j] => i = j
    BY DEF FilesInv, Inv, HandlesAlive
  <2> DEFINE places == 1..Len(open_files)
             at == [i \in places |-> open_files[i]]
  <2>2. Len(open_files) \in Nat
    BY <1>2
  <2>3. IsFiniteSet(places) /\ Cardinality(places) = Len(open_files)
    <3>1. IsFiniteSet(1..Len(open_files))
          /\ Cardinality(1..Len(open_files)) =
                 IF 1 > Len(open_files) THEN 0 ELSE Len(open_files) - 1 + 1
      BY <2>2, FS_Interval
    <3> QED
      BY <2>2, <3>1
  <2>4. ExistsBijection(places, Listed)
    <3>1. at \in [places -> Listed]
      BY DEF OpenIndices
    <3>2. \A i, j \in places : at[i] = at[j] => i = j
      BY <2>1 DEF OpenIndices
    <3>3. \A x \in Listed : \E i \in places : at[i] = x
      BY DEF OpenIndices
    <3> HIDE DEF at, Listed, places
    <3> QED
      BY <3>1, <3>2, <3>3 DEF ExistsBijection, Bijection, Injection, Surjection, IsInjective
  <2> HIDE DEF places, at, Listed
  <2> QED
    BY <2>3, <2>4, FS_Bijection
<1>5. \A p, q \in Processes : p # q => HeldBy(p) \cap HeldBy(q) = {}
  BY <1>1 DEF FilesInv, ListedIsHeld
<1>6. \A p \in Processes : prog[p].at = "idle" => HeldBy(p) = {}
  BY FileProgramsAssumption DEF FilesInv, InPlace, HeldBy
<1> QED
  BY <1>3, <1>4, <1>5, <1>6 DEF NoLeak

(* Nothing leaks: on every path through cat, cp, touch and chmod, in any   *)
(* interleaving with other programs, and also when the machine stops, what *)
(* fs_open has handed out is closed once, and what only a killed program   *)
(* held is all that stays open.                                            *)
THEOREM NothingLeaks == FilesSpec => []NoLeak
<1>1. FilesInv => NoLeak
  BY HeldOnce
<1>2. FilesSpec => []FilesInv
  BY FilesInvariance
<1> QED
  BY <1>1, <1>2, PTL

-----------------------------------------------------------------------------
(* The image holds a filesystem as fs_mount expects it, every file with a  *)
(* chain of its own, and nobody renames a file to the name it has, which   *)
(* the code does by deleting it.                                           *)
NoSelfMove == \A c \in Commands : c.do = "mv" => c.inputs[1] # c.inputs[2]
ImageLaid ==
    /\ Owns(Image.fat, Image.dir, {})
    /\ Len(Image.dir) = EntriesPerBlock * Cardinality(Chain(Image.fat, 1))

-----------------------------------------------------------------------------
(* What a call leaves of an open handle and of its file.                   *)
Undisturbed(h) ==
    LET e == file[h].entry IN
    /\ file'[h] = file[h]
    /\ dir'[e].size = dir[e].size
    /\ dir'[e].blockno = dir[e].blockno
    /\ dir'[e].writable = dir[e].writable
    /\ Chain(fat', dir[e].blockno) = Chain(fat, dir[e].blockno)

(* Every open handle but those of G is left alone, with its file.          *)
Leaves(G) == \A h \in Handles : IsOpen(h) /\ h \notin G => Undisturbed(h)

(* A call that keeps a file's entry and the links of its chain.            *)
LEMMA KeptFile ==
    ASSUME Inv, NEW h \in Handles, IsOpen(h), file'[h] = file[h],
           dir'[file[h].entry].size = dir[file[h].entry].size,
           dir'[file[h].entry].blockno = dir[file[h].entry].blockno,
           dir'[file[h].entry].writable = dir[file[h].entry].writable,
           KeepsBlocks(file[h].entry)
    PROVE  Undisturbed(h)
<1> DEFINE b == dir[file[h].entry].blockno
<1>1. \A c \in Chain(fat, b) : fat'[c] = fat[c]
  BY HandlesHead DEF KeepsBlocks
<1>2. Chain(fat', b) = Chain(fat, b)
  BY <1>1, ChainSame
<1> QED
  BY <1>2 DEF Undisturbed

(* A call that leaves the table laid out does so for the next.             *)
LEMMA StaysLaid == LaidAfter({}) => Laid'
BY DEF LaidAfter, Laid, LaidOver

(* A handle that may write is alone on its entry.                          *)
LEMMA WriterIsAlone ==
    ASSUME Inv, NEW g \in Handles, IsOpen(g), file[g].mode # "F_READ",
           NEW h \in Handles, IsOpen(h), g # h
    PROVE  file[g].entry # file[h].entry
<1>1. PICK i \in OpenIndices : open_files[i] = g /\ EntryOf(i) = file[g].entry /\ ModeOf(i) # "F_READ"
  BY ReadersEntry
<1>2. PICK j \in OpenIndices : open_files[j] = h /\ EntryOf(j) = file[h].entry
  BY ReadersEntry
<1>3. i # j
  BY <1>1, <1>2
<1> QED
  BY <1>1, <1>2, <1>3 DEF Inv, LocksExclusive

(* fs_open of a file that exists truncates what nobody has open.           *)
LEMMA OpenExistingLeaves ==
    ASSUME ChainInv, NEW g \in Handles, NEW name \in Names, NEW mode \in Modes,
           OpenExisting(g, name, mode)
    PROVE  Laid' /\ Leaves({g})
<1> DEFINE e == First(Found(name))
<1>1. Inv /\ LaidOver({})
  BY DEF ChainInv, Laid
<1>2. Touches(e, {}) /\ (mode # "F_WRITE" => TouchesNothing({}))
  BY <1>1, OpenTouches
<1>3. Laid'
  BY <1>2, StaysLaid DEF Touches
<1>4. ASSUME NEW h \in Handles, IsOpen(h), h # g PROVE Undisturbed(h)
  <2> DEFINE r == file[h].entry
  <2>1. r \in Nat /\ r \in DOMAIN dir /\ dir[r] \in Entry
    BY <1>1, <1>4, OpenHandle, HandlesHead DEF Inv, TypeOK
  <2>2. file'[h] = file[h]
    BY <1>1, <1>4 DEF OpenExisting, Inv, TypeOK
  <2>3. CASE mode = "F_WRITE"
    <3>1. e # r
      BY <1>1, <1>4, <2>3, ReadersEntry DEF OpenExisting, Locked
    <3>2. dir' = dir \/ dir' = [dir EXCEPT ![e].blockno = 0, ![e].size = 0]
      BY DEF OpenExisting
    <3>3. KeepsBlocks(r)
      BY <1>2, <2>1, <3>1 DEF Touches
    <3> HIDE DEF e
    <3>4. dir'[r] = dir[r]
      BY <2>1, <3>1, <3>2
    <3> QED
      BY <1>1, <1>4, <2>2, <3>3, <3>4, KeptFile
  <2>4. CASE mode # "F_WRITE"
    <3>1. dir' = dir
      BY <2>4 DEF OpenExisting
    <3>2. KeepsBlocks(r)
      BY <1>2, <2>1, <2>4 DEF TouchesNothing
    <3> QED
      BY <1>1, <1>4, <2>2, <3>1, <3>2, KeptFile
  <2> QED
    BY <2>3, <2>4
<1> QED
  BY <1>3, <1>4 DEF Leaves

(* fs_makefile takes an entry, and perhaps a block, that nobody has.       *)
LEMMA MakingLeaves ==
    ASSUME ChainInv, NEW g \in Handles, NEW name \in Names, NEW mode \in Modes,
           MakeFile(g, name, mode)
    PROVE  Laid' /\ Leaves({g})
<1>1. Inv /\ LaidOver({})
  BY DEF ChainInv, Laid
<1>2. TouchesNothing({})
  BY <1>1, MakeFileTouches
<1>3. Laid'
  BY <1>2, StaysLaid DEF TouchesNothing
<1>4. ASSUME NEW h \in Handles, IsOpen(h) PROVE Undisturbed(h)
  <2>1. KeepsBlocks(file[h].entry)
    BY <1>1, <1>2, <1>4, HandlesHead DEF TouchesNothing
  <2>2. file'[h] = file[h] /\ dir'[file[h].entry] = dir[file[h].entry]
    BY <1>1, <1>4, MakeFileLeaves
  <2> QED
    BY <1>1, <1>4, <2>1, <2>2, KeptFile
<1> QED
  BY <1>3, <1>4 DEF Leaves

(* fs_write changes the file of the writer, which nobody else has open.    *)
LEMMA WriteLeaves ==
    ASSUME ChainInv, NEW g \in Handles, NEW len \in Nat, Write(g, len)
    PROVE  Laid' /\ Leaves({g})
<1>1. Inv /\ LaidOver({})
  BY DEF ChainInv, Laid
<1>2. Touches(file[g].entry, {})
  BY <1>1, WriteTouches
<1>3. Laid'
  BY <1>2, StaysLaid DEF Touches
<1>4. ASSUME NEW h \in Handles, IsOpen(h), h # g PROVE Undisturbed(h)
  <2> DEFINE r == file[h].entry
  <2>1. r \in Nat /\ r \in DOMAIN dir
    BY <1>1, <1>4, OpenHandle, HandlesHead
  <2>2. r # file[g].entry
    BY <1>1, <1>4, WriterIsAlone DEF Write
  <2>3. \/ dir' = dir
        \/ \E new : dir' = [dir EXCEPT ![file[g].entry] = new]
    BY WriteChanges
  <2>4. \/ file' = file
        \/ \E offset : file' = [file EXCEPT ![g].offset = offset]
    BY WriteChanges
  <2>5. dir'[r] = dir[r]
    BY <1>1, <2>1, <2>2, <2>3 DEF Inv, TypeOK
  <2>6. file'[h] = file[h]
    BY <1>1, <1>4, <2>4 DEF Inv, TypeOK
  <2>7. KeepsBlocks(r)
    BY <1>2, <2>1, <2>2 DEF Touches
  <2> QED
    BY <1>1, <1>4, <2>5, <2>6, <2>7, KeptFile
<1> QED
  BY <1>3, <1>4 DEF Leaves

(* fs_read changes the offset of its handle.                               *)
LEMMA ReadLeaves ==
    ASSUME ChainInv, NEW g \in Handles, NEW len \in Nat, Read(g, len)
    PROVE  Laid' /\ Leaves({g})
<1>1. Inv /\ LaidOver({})
  BY DEF ChainInv, Laid
<1>2. TouchesNothing({})
  BY <1>1, ReadTouches
<1>3. Laid'
  BY <1>2, StaysLaid DEF TouchesNothing
<1>4. ASSUME NEW h \in Handles, IsOpen(h), h # g PROVE Undisturbed(h)
  <2>1. KeepsBlocks(file[h].entry)
    BY <1>1, <1>2, <1>4, HandlesHead DEF TouchesNothing
  <2>2. file' = file \/ \E offset : file' = [file EXCEPT ![g].offset = offset]
    BY DEF Read
  <2>3. file'[h] = file[h]
    BY <1>1, <1>4, <2>2 DEF Inv, TypeOK
  <2>4. dir' = dir
    BY DEF Read
  <2> QED
    BY <1>1, <1>4, <2>1, <2>3, <2>4, KeptFile
<1> QED
  BY <1>3, <1>4 DEF Leaves

(* f_chmod changes the permission of a file that nobody else has open.     *)
LEMMA ChmodLeaves ==
    ASSUME ChainInv, NEW g \in Handles, Chmod(g), file[g].mode # "F_READ"
    PROVE  Laid' /\ Leaves({g})
<1>1. Inv /\ LaidOver({})
  BY DEF ChainInv, Laid
<1>2. TouchesNothing({})
  BY <1>1, ChmodTouches
<1>3. Laid'
  BY <1>2, StaysLaid DEF TouchesNothing
<1>4. ASSUME NEW h \in Handles, IsOpen(h), h # g PROVE Undisturbed(h)
  <2> DEFINE r == file[h].entry
  <2>1. KeepsBlocks(r) /\ r \in DOMAIN dir
    BY <1>1, <1>2, <1>4, OpenHandle, HandlesHead DEF TouchesNothing
  <2>2. r # file[g].entry
    BY <1>1, <1>4, WriterIsAlone DEF Chmod
  <2>3. dir'[r] = dir[r] /\ file' = file
    BY <1>1, <2>1, <2>2 DEF Chmod, Inv, TypeOK
  <2> QED
    BY <1>1, <1>4, <2>1, <2>3, KeptFile
<1> QED
  BY <1>3, <1>4 DEF Leaves

(* fs_close deletes what nobody else has open.                             *)
LEMMA ClosingLeaves ==
    ASSUME ChainInv, NEW g \in Handles, Close(g)
    PROVE  Laid' /\ Leaves({g})
<1>1. Inv /\ LaidOver({})
  BY DEF ChainInv, Laid
<1>2. LaidAfter({}) /\ \A r \in OpenEntries' : KeepsBlocks(r)
  BY <1>1, CloseTouches
<1>3. Laid'
  BY <1>2, StaysLaid
<1>4. ASSUME NEW h \in Handles, IsOpen(h), h # g PROVE Undisturbed(h)
  <2>1. file'[h] = file[h] /\ dir'[file[h].entry] = dir[file[h].entry]
    BY <1>1, <1>4, CloseLeaves
  <2>2. IsOpen(h)'
    BY <1>1, <1>4, CloseTakes
  <2>3. file[h].entry \in OpenEntries'
    BY <2>1, <2>2 DEF IsOpen, OpenEntries, EntryOf
  <2> QED
    BY <1>1, <1>2, <1>4, <2>1, <2>3, KeptFile
<1> QED
  BY <1>3, <1>4 DEF Leaves

(* fs_unlink keeps what is open.                                           *)
LEMMA UnlinkLeaves ==
    ASSUME ChainInv, NEW name \in Names, Unlink(name)
    PROVE  Laid' /\ Leaves({})
<1>1. Inv /\ LaidOver({})
  BY DEF ChainInv, Laid
<1>2. LaidAfter({}) /\ \A f \in OpenEntries : KeepsBlocks(f)
  BY <1>1, UnlinkTouches
<1>3. Laid'
  BY <1>2, StaysLaid
<1>4. ASSUME NEW h \in Handles, IsOpen(h) PROVE Undisturbed(h)
  <2> DEFINE r == file[h].entry
             e == First(Found(name))
  <2>1. r \in OpenEntries
    BY <1>1, <1>4, ReadersEntry
  <2>2. e \in DOMAIN dir /\ dir[e].state = "live"
    BY <1>1, FoundEntry DEF Inv, TypeOK, Unlink
  <2>3. dir' = UnlinkedEntries(e) /\ file' = file
    BY DEF Unlink
  <2>4. dir'[r].size = dir[r].size /\ dir'[r].blockno = dir[r].blockno /\ dir'[r].writable = dir[r].writable
    BY <1>1, <2>1, <2>2, <2>3, UnlinkKeepsReaders
  <2> QED
    BY <1>1, <1>2, <1>4, <2>1, <2>3, <2>4, KeptFile
<1> QED
  BY <1>3, <1>4 DEF Leaves

(* fs_rename, between two names, as well.                                  *)
LEMMA RenamingLeaves ==
    ASSUME ChainInv, NEW old \in Names, NEW new \in Names, old # new, Rename(old, new)
    PROVE  Laid' /\ Leaves({})
<1>1. Inv /\ LaidOver({})
  BY DEF ChainInv, Laid
<1>2. LaidAfter({}) /\ \A f \in OpenEntries : KeepsBlocks(f)
  BY <1>1, RenameTouches
<1>3. Laid'
  BY <1>2, StaysLaid
<1>4. ASSUME NEW h \in Handles, IsOpen(h) PROVE Undisturbed(h)
  <2> DEFINE r == file[h].entry
  <2>1. r \in OpenEntries
    BY <1>1, <1>4, ReadersEntry
  <2>2. dir'[r].size = dir[r].size /\ dir'[r].blockno = dir[r].blockno /\ dir'[r].writable = dir[r].writable
    BY <1>1, <2>1, RenameLeaves
  <2>3. file' = file
    BY DEF Rename
  <2> QED
    BY <1>1, <1>2, <1>4, <2>1, <2>2, <2>3, KeptFile
<1> QED
  BY <1>3, <1>4 DEF Leaves

(* Nobody touches the filesystem, or only the offset of one handle.        *)
LEMMA NothingLeaves ==
    ASSUME ChainInv, UNCHANGED <<fat, dir, fault>>, NEW G,
           \A h \in Handles \ G : file'[h] = file[h]
    PROVE  Laid' /\ Leaves(G)
<1>1. Laid'
  BY DEF ChainInv, Laid, LaidOver
<1>2. \A h \in Handles \ G : Undisturbed(h)
  BY DEF Undisturbed
<1> QED
  BY <1>1, <1>2 DEF Leaves

-----------------------------------------------------------------------------
(* The length of the file that is written, and what of the source has not  *)
(* been read, of which a part may be in the buffer.                        *)
Target(r) == dir[file[r.dest].entry].size
Left(r) ==
    IF r.src \in Handles THEN ToRead(dir[file[r.src].entry]) - file[r.src].offset ELSE 0
Unwritten(r) ==
    CASE r.at = "read" -> Left(r)
      [] r.at = "write" -> Left(r) + r.bytes
      [] OTHER -> 0

(* What a program that copies has got so far, what is still to come and    *)
(* what there was add up, as long as nothing has failed; and the offset is *)
(* at the end of what is written.                                          *)
AddsUp(r) ==
    r.dest \in Handles /\ r.ok /\ r.at \in {"openSrc", "read", "write", "closeSrc"} =>
        /\ r.due = Target(r) + Unwritten(r)
        /\ dir[file[r.dest].entry].writable => file[r.dest].offset = Target(r)

CopyState(r) ==
    /\ r.dest \in Handles => file[r.dest].mode # "F_READ"
    /\ r.at = "mv" => r.i = 1
    /\ Copies(r) =>
           /\ r.at \in {"openSrc", "openDest", "read", "write"} => r.ok
           /\ r.at \in {"openDest", "read", "write"} => Left(r) >= 0
           /\ r.at = "openSrc" /\ r.cmd.do = "cp" => r.due = 0
           /\ r.at = "openDest" => r.due = Left(r)
           /\ r.at = "write" => r.bytes <= Chunk /\ (r.bytes = 0 => Left(r) = 0)
           /\ AddsUp(r)

(* The inductive invariant.                                                *)
CopyInv == FilesInv /\ Laid /\ \A p \in Processes : CopyState(prog[p])

(* The numbers of a copy are those of the files it has open.               *)
LEMMA StateSame ==
    ASSUME NEW r, CopyState(r), \A h \in HeldIn(r) : Undisturbed(h)
    PROVE  CopyState(r)'
<1>1. Left(r)' = Left(r)
  BY DEF HeldIn, Left, Undisturbed, ToRead
<1>2. r.dest \in Handles =>
          /\ Target(r)' = Target(r) /\ file'[r.dest] = file[r.dest]
          /\ dir'[file'[r.dest].entry].writable = dir[file[r.dest].entry].writable
  BY DEF HeldIn, Target, Undisturbed
<1>3. Unwritten(r)' = Unwritten(r)
  BY <1>1 DEF Unwritten
<1>4. AddsUp(r) => AddsUp(r)'
  BY <1>2, <1>3 DEF AddsUp
<1> QED
  BY <1>1, <1>2, <1>4 DEF CopyState

(* A program that is not on its way through a copy, or has failed.         *)
LEMMA StateOver ==
    ASSUME NEW r, CopyState(r), NEW s,
           s.dest \in Handles => s.dest = r.dest /\ file'[r.dest].mode = file[r.dest].mode,
           s.at \notin {"openSrc", "openDest", "read", "write"} \/ ~Copies(s),
           s.at = "closeSrc" => ~s.ok, s.at # "mv"
    PROVE  CopyState(s)'
BY DEF CopyState, AddsUp

(* One program makes a step that leaves the files of the others alone.     *)
LEMMA CopyMoves ==
    ASSUME CopyInv, FilesInv', Laid', NEW p \in Processes, NEW r, prog' = [prog EXCEPT ![p] = r],
           NEW G, Leaves(G), \A g \in G : g \in HeldIn(prog[p]) \/ ~IsOpen(g), CopyState(r)'
    PROVE  CopyInv'
<1>1. ASSUME NEW q \in Processes PROVE CopyState(prog[q])'
  <2>1. CASE q = p
    BY <2>1 DEF CopyInv, FilesInv
  <2>2. CASE q # p
    <3>1. prog'[q] = prog[q]
      BY <2>2 DEF CopyInv, FilesInv
    <3>2. \A h \in HeldIn(prog[q]) : h \in Handles /\ IsOpen(h) /\ h \notin HeldIn(prog[p])
      BY <2>2 DEF CopyInv, FilesInv, ListedIsHeld, HeldIn
    <3>3. \A h \in HeldIn(prog[q]) : Undisturbed(h)
      BY <3>2 DEF Leaves
    <3>4. \A r0 : r0 = prog[q] => CopyState(r0)'
      <4> TAKE r0
      <4> HAVE r0 = prog[q]
      <4> QED
        BY <3>3, StateSame DEF CopyInv
    <3> QED
      BY <3>1, <3>4
  <2> QED
    BY <2>1, <2>2
<1> QED
  BY <1>1 DEF CopyInv

(* A step that touches no file.                                            *)
LEMMA CopyGoesOn ==
    ASSUME CopyInv, FilesInv', UNCHANGED filesystem, NEW p \in Processes, NEW r,
           prog' = [prog EXCEPT ![p] = r], CopyState(r)'
    PROVE  CopyInv'
<1>1. Laid' /\ Leaves({})
  BY NothingLeaves DEF CopyInv, ChainInv, FilesInv, filesystem
<1> QED
  BY <1>1, CopyMoves

(* A program that begins has nothing to account for.                       *)
LEMMA StartCopies ==
    ASSUME CopyInv, NEW p \in Processes, Start(p)
    PROVE  CopyInv'
<1>1. PICK c \in Commands : prog' = [prog EXCEPT ![p] = [Idle EXCEPT !.at = FirstStep(c), !.cmd = c]]
  BY DEF Start, Commands
<1> DEFINE r == [Idle EXCEPT !.at = FirstStep(c), !.cmd = c]
<1>2. c.do \in {"cat", "cp", "touch", "chmod", "rm", "mv"}
  BY CommandsAssumption DEF Commands, Command
<1>3. FirstStep(c) \in {"openSrc", "openDest", "rm", "mv"}
  BY <1>2 DEF FirstStep
<1>4. /\ r.at = FirstStep(c) /\ r.src = NoHandle /\ r.dest = NoHandle
      /\ r.ok = TRUE /\ r.due = 0 /\ r.i = 1
  BY DEF Idle
<1>5. UNCHANGED filesystem /\ FilesInv'
  BY StartHolds DEF Start, CopyInv
<1> HIDE DEF r
<1>6. CopyState(r)'
  BY <1>3, <1>4, FileProgramsAssumption DEF CopyState, AddsUp, Left
<1> QED
  BY <1>1, <1>5, <1>6, CopyGoesOn DEF r

(* What is known of a program at one of its steps.                         *)
LEMMA CopyFacts ==
    ASSUME CopyInv, NEW p \in Processes
    PROVE  /\ FilesInv /\ ChainInv /\ Inv
           /\ prog[p] \in Program /\ InCommand(prog[p]) /\ InPlace(prog[p]) /\ CopyState(prog[p])
           /\ \A h \in Handles : h \in HeldIn(prog[p]) => IsOpen(h)
BY HeldIsOpen DEF CopyInv, FilesInv, ChainInv

(* A file opened for reading is at its start.                              *)
LEMMA OpensToRead ==
    ASSUME Inv, NEW h \in Handles, NEW name \in Names, OpenExisting(h, name, "F_READ")
    PROVE  /\ dir' = dir /\ fat' = fat
           /\ file'[h].entry = First(Found(name)) /\ file'[h].offset = 0
           /\ \A g \in Handles \ {h} : file'[g] = file[g]
BY DEF OpenExisting, Inv, TypeOK

(* A file opened for writing is at its end, unless it may not be written.  *)
LEMMA OpensToWrite ==
    ASSUME Inv, NEW h \in Handles, NEW name \in Names, NEW mode \in {"F_WRITE", "F_APPEND"},
           OpenExisting(h, name, mode) \/ MakeFile(h, name, mode)
    PROVE  /\ file'[h].mode = mode
           /\ dir'[file'[h].entry].writable => file'[h].offset = dir'[file'[h].entry].size
<1>1. CASE OpenExisting(h, name, mode)
  <2> DEFINE e == First(Found(name))
  <2>1. e \in DOMAIN dir /\ dir[e] \in Entry
    BY <1>1, FoundEntry DEF OpenExisting, Inv, TypeOK
  <2>2. /\ file' = [file EXCEPT ![h] = [entry |-> e, mode |-> mode,
                                        offset |-> IF mode = "F_APPEND" THEN dir[e].size ELSE 0]]
        /\ dir' = IF mode = "F_WRITE" /\ dir[e].writable
                  THEN [dir EXCEPT ![e].blockno = 0, ![e].size = 0] ELSE dir
    BY <1>1 DEF OpenExisting
  <2> HIDE DEF e
  <2>3. /\ file'[h].entry = e /\ file'[h].mode = mode
        /\ file'[h].offset = IF mode = "F_APPEND" THEN dir[e].size ELSE 0
    BY <2>2 DEF Inv, TypeOK
  <2>4. CASE mode = "F_WRITE" /\ dir[e].writable
    <3>1. dir' = [dir EXCEPT ![e].blockno = 0, ![e].size = 0]
      BY <2>2, <2>4
    <3>2. dir'[e].size = 0
      BY <2>1, <3>1 DEF Entry
    <3> QED
      BY <2>3, <2>4, <3>2
  <2>5. CASE ~(mode = "F_WRITE" /\ dir[e].writable)
    BY <2>2, <2>3, <2>5
  <2> QED
    BY <2>4, <2>5
<1>2. CASE MakeFile(h, name, mode)
  <2> DEFINE e == IF FreeEntries = {} THEN Len(dir) + 1 ELSE First(FreeEntries)
             entries == IF FreeEntries = {} THEN dir \o EmptyBlock ELSE dir
             new == [EmptyEntry EXCEPT !.state = "live", !.name = name]
  <2>1. file'[h].entry = e /\ file'[h].mode = mode /\ file'[h].offset = 0
    BY <1>2 DEF MakeFile, Inv, TypeOK
  <2>2. dir' = [entries EXCEPT ![e] = new]
    BY <1>2 DEF MakeFile
  <2>3. e \in DOMAIN entries
    <3>1. CASE FreeEntries = {}
      <4>1. entries = dir \o EmptyBlock /\ e = Len(dir) + 1
        BY <3>1
      <4> HIDE DEF e, entries
      <4> QED
        BY <4>1, GrownDirectory
    <3>2. CASE FreeEntries # {}
      <4>1. FreeEntries \in SUBSET Nat
        BY DEF FreeEntries, Inv, TypeOK
      <4>2. First(FreeEntries) \in FreeEntries
        BY <3>2, <4>1, FirstElement
      <4> QED
        BY <3>2, <4>2 DEF FreeEntries
    <3> QED
      BY <3>1, <3>2
  <2>4. new.size = 0
    BY DEF EmptyEntry
  <2> HIDE DEF e, entries, new
  <2>5. dir'[e] = new
    BY <2>2, <2>3
  <2> QED
    BY <2>1, <2>4, <2>5
<1> QED
  BY <1>1, <1>2

(* A program that holds no file to write to, or is not on its way through  *)
(* a copy, has nothing to account for.                                     *)
LEMMA NothingToCopy ==
    ASSUME NEW s, s.dest \notin Handles,
           ~Copies(s) \/ s.at \notin {"openSrc", "openDest", "read", "write"}, s.at # "mv"
    PROVE  CopyState(s)'
BY DEF CopyState, AddsUp

(* A program that has opened its source.                                   *)
SrcOpened(r, h, n) ==
    [r EXCEPT !.at = IF r.cmd.do = "cp" THEN "openDest" ELSE "read", !.src = h, !.due = @ + n]
(* The rest of what it knows stays.                                        *)
LEMMA SourceOpened ==
    ASSUME NEW r \in Program, NEW h, NEW n \in Nat, NEW s, s = SrcOpened(r, h, n)
    PROVE  /\ s.at = IF r.cmd.do = "cp" THEN "openDest" ELSE "read"
           /\ s.src = h /\ s.dest = r.dest /\ s.due = r.due + n
           /\ s.ok = r.ok /\ s.cmd = r.cmd
BY DEF Program, SrcOpened

(* cat and cp open their source: what there is to read is still to come.   *)
LEMMA SourceIsDue ==
    ASSUME NEW r \in Program, InPlace(r), CopyState(r), r.at = "openSrc", Inv,
           \A h \in Handles : h \in HeldIn(r) => IsOpen(h) /\ Undisturbed(h),
           NEW h, NEW n \in Nat, NEW s, s = SrcOpened(r, h, n), Left(s)' = n
    PROVE  CopyState(s)'
<1>1. Copies(r) /\ r.ok /\ (r.cmd.do = "cp" => r.dest \notin Handles /\ r.due = 0)
  BY FileProgramsAssumption DEF InPlace, CopyState
<1>2. r.due \in Nat
  BY DEF Program
<1>3. r.dest \in Handles => IsOpen(r.dest) /\ Undisturbed(r.dest)
  BY DEF HeldIn
<1>4. /\ s.at = IF r.cmd.do = "cp" THEN "openDest" ELSE "read"
      /\ s.src = h /\ s.dest = r.dest /\ s.due = r.due + n
      /\ s.ok = r.ok /\ s.cmd = r.cmd
  BY SourceOpened
<1>5. r.dest \in Handles => Target(r) \in Nat
  BY <1>3, OpenHandle DEF Target, Entry, Offsets
<1>6. r.dest \in Handles =>
          /\ Target(s)' = Target(r) /\ file'[s.dest] = file[r.dest]
          /\ dir'[file'[s.dest].entry].writable = dir[file[r.dest].entry].writable
  BY <1>3, <1>4 DEF Target, Undisturbed
<1>7. r.dest \in Handles => s.at = "read" /\ r.due = Target(r)
  <2>1. Unwritten(r) = 0
    BY DEF Unwritten
  <2>2. r.dest \in Handles => r.due = Target(r) + Unwritten(r) /\ r.cmd.do # "cp"
    BY <1>1 DEF CopyState, AddsUp
  <2> QED
    BY <1>4, <1>5, <2>1, <2>2
<1>8. s.at = "read" => Unwritten(s)' = n
  BY <1>4 DEF Unwritten
<1>9. AddsUp(s)'
  <2>1. s.dest \in Handles => s.due = Target(s)' + Unwritten(s)'
    BY <1>6, <1>7, <1>8, <1>4, <1>5
  <2>2. r.dest \in Handles /\ dir[file[r.dest].entry].writable => file[r.dest].offset = Target(r)
    BY <1>1 DEF CopyState, AddsUp
  <2> QED
    BY <1>6, <1>4, <2>1, <2>2 DEF AddsUp
<1> QED
  BY <1>1, <1>2, <1>6, <1>9, <1>4 DEF CopyState, Copies

(* OpenSrc keeps the accounts.                                             *)
LEMMA OpenSrcCopies ==
    ASSUME CopyInv, NEW p \in Processes, OpenSrc(p)
    PROVE  CopyInv'
<1> SUFFICES ASSUME NEW r, r = prog[p] PROVE CopyInv'
  OBVIOUS
<1> DEFINE name == Input(r)
           refused == IF r.cmd.do = "cp" THEN Idle
                      ELSE [r EXCEPT !.at = "closeDest", !.ok = FALSE]
<1>1. /\ FilesInv /\ ChainInv /\ Inv
      /\ r \in Program /\ InCommand(r) /\ InPlace(r) /\ CopyState(r)
      /\ \A h \in Handles : h \in HeldIn(r) => IsOpen(h)
  BY CopyFacts
<1>2. r.at = "openSrc" /\ r.src = NoHandle /\ Copies(r)
  BY <1>1 DEF OpenSrc, InPlace
<1>3. FilesInv'
  BY <1>1, OpenSrcHolds
<1>4. name \in Names \cup {Host}
  BY <1>1, <1>2, CommandsAssumption DEF Input, InCommand, Commands, Command
<1>5. \/ UNCHANGED filesystem /\ prog' = [prog EXCEPT ![p] = SrcOpened(r, Host, 0)]
      \/ UNCHANGED filesystem /\ prog' = [prog EXCEPT ![p] = refused]
      \/ /\ name # Host /\ fs_open(name, "F_READ")
         /\ prog' = [prog EXCEPT ![p] = SrcOpened(r, NewHandle, ToRead(dir[First(Found(name))]))]
  BY DEF OpenSrc, Become, SrcOpened
<1>6. ASSUME UNCHANGED filesystem, prog' = [prog EXCEPT ![p] = SrcOpened(r, Host, 0)]
      PROVE  CopyInv'
  <2> SUFFICES ASSUME NEW s, s = SrcOpened(r, Host, 0) PROVE CopyInv'
    OBVIOUS
  <2>1. s.src = Host
    BY <1>1, SourceOpened
  <2>2. Left(s)' = 0
    BY <2>1, FileProgramsAssumption DEF Left
  <2>3. \A h \in Handles : h \in HeldIn(r) => IsOpen(h) /\ Undisturbed(h)
    BY <1>1, <1>6 DEF Undisturbed, filesystem
  <2>4. CopyState(s)'
    BY <1>1, <1>2, <2>1, <2>2, <2>3, SourceIsDue
  <2> QED
    BY <1>3, <1>6, <2>4, CopyGoesOn
<1>7. ASSUME UNCHANGED filesystem, prog' = [prog EXCEPT ![p] = refused]
      PROVE  CopyInv'
  <2> SUFFICES ASSUME NEW s, s = refused PROVE CopyInv'
    OBVIOUS
  <2>1. s.at \in {"idle", "closeDest"} /\ (s.dest \in Handles => s.dest = r.dest)
    <3>1. Idle.at = "idle" /\ Idle.dest = NoHandle /\ NoHandle \notin Handles
      BY FileProgramsAssumption DEF Idle
    <3> QED
      BY <1>1, <3>1 DEF Program
  <2>2. CopyState(s)'
    BY <1>1, <1>7, <2>1, StateOver DEF filesystem
  <2> QED
    BY <1>3, <1>7, <2>2, CopyGoesOn
<1>8. ASSUME name # Host, fs_open(name, "F_READ"),
             prog' = [prog EXCEPT ![p] = SrcOpened(r, NewHandle, ToRead(dir[First(Found(name))]))]
      PROVE  CopyInv'
  <2> SUFFICES ASSUME NEW h, h = NewHandle, NEW e, e = First(Found(name)),
                      NEW n, n = ToRead(dir[e]), NEW s, s = SrcOpened(r, h, n)
               PROVE  CopyInv'
    OBVIOUS
  <2>1. h \in Handles /\ ~IsOpen(h)
    BY <1>1, <1>2, HandleLeft
  <2>2. OpenExisting(h, name, "F_READ") /\ name \in Names /\ "F_READ" \in Modes
    BY <1>4, <1>8 DEF fs_open, MakeFile, Modes
  <2>3. Laid' /\ Leaves({h})
    BY <1>1, <2>1, <2>2, OpenExistingLeaves
  <2>4. dir' = dir /\ fat' = fat /\ file'[h].entry = e /\ file'[h].offset = 0
    BY <1>1, <2>1, <2>2, OpensToRead
  <2>5. n \in Nat
    <3>1. Found(name) # {}
      BY <2>2 DEF OpenExisting
    <3> QED
      BY <1>1, <3>1, FoundEntry, ToReadType DEF Inv
  <2>6. \A g \in Handles : g \in HeldIn(r) => IsOpen(g) /\ Undisturbed(g)
    BY <1>1, <2>1, <2>3 DEF Leaves
  <2>7. s.src = h
    BY <1>1, <2>5, SourceOpened
  <2>8. Left(s)' = n
    <3>1. ToRead(dir[e])' = n
      BY <2>4 DEF ToRead
    <3>2. Left(s)' = n - 0
      BY <2>1, <2>4, <2>7, <3>1 DEF Left, ToRead
    <3> QED
      BY <2>5, <3>2
  <2>9. CopyState(s)'
    BY <1>1, <1>2, <2>5, <2>6, <2>7, <2>8, SourceIsDue
  <2>10. prog' = [prog EXCEPT ![p] = s]
    BY <1>8
  <2>11. \A g \in {h} : ~IsOpen(g)
    BY <2>1
  <2> QED
    BY <1>3, <2>3, <2>9, <2>10, <2>11, CopyMoves
<1> QED
  BY <1>5, <1>6, <1>7, <1>8

(* What is left to read is a number.                                       *)
LEMMA LeftIsNumber ==
    ASSUME Inv, NEW r, r.src \in Handles => IsOpen(r.src)
    PROVE  Left(r) \in Int
<1>1. CASE r.src \in Handles
  <2>1. dir[file[r.src].entry] \in Entry /\ file[r.src] \in File
    BY <1>1, OpenHandle
  <2>2. ToRead(dir[file[r.src].entry]) \in Nat
    BY <2>1, ToReadType
  <2> QED
    BY <1>1, <2>1, <2>2 DEF Left, File, Offsets
<1>2. CASE r.src \notin Handles
  BY <1>2 DEF Left
<1> QED
  BY <1>1, <1>2

(* A program that has opened the file it writes to.                        *)
DestOpened(r, h, n) ==
    [r EXCEPT !.at = AfterDest(r.cmd.do), !.dest = h, !.due = @ + n]
(* It goes on as its command does.                                         *)
LEMMA DestinationOpened ==
    ASSUME NEW r \in Program, NEW h, NEW n \in Nat, NEW s, s = DestOpened(r, h, n)
    PROVE  /\ s.src = r.src /\ s.dest = h /\ s.due = r.due + n /\ s.ok = r.ok /\ s.cmd = r.cmd
           /\ r.cmd.do = "cat" => s.at = "openSrc"
           /\ r.cmd.do \in {"cat", "cp", "touch", "chmod"} => s.at # "mv"
           /\ r.cmd.do = "cp" => s.at = "read"
<1>1. /\ s.src = r.src /\ s.dest = h /\ s.due = r.due + n /\ s.ok = r.ok /\ s.cmd = r.cmd
      /\ s.at = AfterDest(r.cmd.do)
  BY DEF Program, DestOpened
<1> QED
  BY <1>1 DEF AfterDest

(* cat and cp open what they write to: it counts with what is in it.       *)
LEMMA OpenDestCopies ==
    ASSUME CopyInv, NEW p \in Processes, OpenDest(p)
    PROVE  CopyInv'
<1> SUFFICES ASSUME NEW r, r = prog[p] PROVE CopyInv'
  OBVIOUS
<1> DEFINE name == Output(r)
           mode == OutputMode(r)
<1>1. /\ FilesInv /\ ChainInv /\ Inv
      /\ r \in Program /\ InCommand(r) /\ InPlace(r) /\ CopyState(r)
      /\ \A h \in Handles : h \in HeldIn(r) => IsOpen(h)
  BY CopyFacts
<1>2. /\ r.at = "openDest" /\ r.dest = NoHandle /\ r.cmd.do \in {"cat", "cp", "touch", "chmod"}
      /\ (r.src = NoHandle <=> r.cmd.do # "cp") /\ NoHandle \notin Handles /\ Host \notin Handles
      /\ r.due \in Nat /\ (Copies(r) => r.ok /\ r.due = Left(r) /\ Left(r) >= 0)
  BY <1>1, FileProgramsAssumption DEF OpenDest, InPlace, CopyState, Program
<1>3. FilesInv'
  BY <1>1, OpenDestHolds
<1>4. name \in Names \cup {Host} /\ (name # Host => mode \in {"F_WRITE", "F_APPEND"})
  BY <1>1, <1>2, OutputIs
<1>5. \/ UNCHANGED filesystem /\ prog' = [prog EXCEPT ![p] = DestOpened(r, Host, 0)]
      \/ UNCHANGED filesystem /\ prog' = [prog EXCEPT ![p] = WithoutDest(r)]
      \/ /\ name # Host /\ fs_open(name, mode)
         /\ prog' = [prog EXCEPT ![p] = DestOpened(r, NewHandle, dir'[file'[NewHandle].entry].size)]
  BY DEF OpenDest, Become, DestOpened
<1>7. ASSUME NEW n \in Nat, NEW s, s.src = r.src, s.due = r.due + n, s.ok = r.ok, s.cmd = r.cmd,
             s.at # "mv", r.cmd.do = "cat" => s.at = "openSrc", r.cmd.do = "cp" => s.at = "read",
             r.src \in Handles => Undisturbed(r.src),
             s.dest \in Handles =>
                 /\ file'[s.dest].mode # "F_READ" /\ Target(s)' = n
                 /\ dir'[file'[s.dest].entry].writable => file'[s.dest].offset = n
      PROVE  CopyState(s)'
  <2>1. Left(s)' = Left(r)
    BY <1>7 DEF Left, Undisturbed, ToRead
  <2>2. r.cmd.do = "cat" => Left(r) = 0 /\ Unwritten(s)' = 0
    BY <1>2, <1>7 DEF Left, Unwritten
  <2>3. r.cmd.do = "cp" => Unwritten(s)' = Left(r)
    BY <1>7, <2>1 DEF Unwritten
  <2>4. CASE ~Copies(s)
    BY <1>7, <2>4 DEF CopyState, AddsUp, Copies
  <2>5. CASE Copies(s)
    <3>1. Copies(r) /\ r.ok /\ r.due = Left(r) /\ Left(r) >= 0
      BY <1>2, <1>7, <2>5 DEF Copies
    <3>2. s.dest \in Handles => s.due = Target(s)' + Unwritten(s)'
      BY <1>2, <1>7, <2>2, <2>3, <3>1 DEF Copies
    <3>3. AddsUp(s)'
      BY <1>7, <3>2 DEF AddsUp
    <3> QED
      BY <1>7, <2>1, <3>1, <3>3 DEF CopyState, Copies
  <2> QED
    BY <2>4, <2>5
<1>8. ASSUME UNCHANGED filesystem, prog' = [prog EXCEPT ![p] = DestOpened(r, Host, 0)]
      PROVE  CopyInv'
  <2> SUFFICES ASSUME NEW s, s = DestOpened(r, Host, 0) PROVE CopyInv'
    OBVIOUS
  <2>1. /\ s.at # "mv" /\ s.src = r.src /\ s.dest = Host /\ s.due = r.due + 0 /\ s.ok = r.ok /\ s.cmd = r.cmd
        /\ r.cmd.do = "cat" => s.at = "openSrc"
        /\ r.cmd.do = "cp" => s.at = "read"
    BY <1>1, <1>2, DestinationOpened
  <2>2. r.src \in Handles => Undisturbed(r.src)
    BY <1>8 DEF Undisturbed, filesystem
  <2>3. CopyState(s)'
    BY <1>2, <1>7, <2>1, <2>2
  <2> QED
    BY <1>3, <1>8, <2>3, CopyGoesOn
<1>9. ASSUME UNCHANGED filesystem, prog' = [prog EXCEPT ![p] = WithoutDest(r)]
      PROVE  CopyInv'
  <2> SUFFICES ASSUME NEW s, s = WithoutDest(r) PROVE CopyInv'
    OBVIOUS
  <2>1. Idle.at = "idle" /\ Idle.dest = NoHandle
    BY DEF Idle
  <2>2. ASSUME r.cmd.do = "cp" PROVE CopyState(s)'
    <3>1. s = [r EXCEPT !.at = "closeSrc", !.ok = FALSE]
      BY <2>2 DEF WithoutDest
    <3>2. s.at = "closeSrc" /\ s.dest = r.dest
      BY <1>1, <3>1 DEF Program
    <3> QED
      BY <1>2, <3>2, NothingToCopy
  <2>3. ASSUME r.cmd.do = "touch" PROVE CopyState(s)'
    <3>1. s = NextName(r, "openDest")
      BY <2>3 DEF WithoutDest
    <3>2. s = Idle \/ s = [r EXCEPT !.at = "openDest", !.i = r.i + 1]
      BY <3>1 DEF NextName
    <3>3. s = Idle \/ (s.at = "openDest" /\ s.dest = r.dest /\ s.cmd = r.cmd)
      BY <1>1, <3>2 DEF Program
    <3> QED
      BY <1>2, <2>1, <2>3, <3>3, NothingToCopy DEF Copies
  <2>4. ASSUME r.cmd.do \in {"cat", "chmod"} PROVE CopyState(s)'
    <3>1. s = Idle
      BY <2>4 DEF WithoutDest
    <3> QED
      BY <1>2, <2>1, <3>1, NothingToCopy
  <2>5. CopyState(s)'
    BY <1>2, <2>2, <2>3, <2>4
  <2> QED
    BY <1>3, <1>9, <2>5, CopyGoesOn
<1>10. ASSUME name # Host, fs_open(name, mode),
              prog' = [prog EXCEPT ![p] = DestOpened(r, NewHandle, dir'[file'[NewHandle].entry].size)]
       PROVE  CopyInv'
  <2> SUFFICES ASSUME NEW h, h = NewHandle, NEW n, n = dir'[file'[h].entry].size,
                      NEW s, s = DestOpened(r, h, n)
               PROVE  CopyInv'
    OBVIOUS
  <2>1. h \in Handles /\ ~IsOpen(h)
    BY <1>1, <1>2, HandleLeft
  <2>2. /\ OpenExisting(h, name, mode) \/ MakeFile(h, name, mode)
        /\ name \in Names /\ mode \in {"F_WRITE", "F_APPEND"} /\ mode \in Modes
    BY <1>4, <1>10 DEF fs_open, Modes
  <2> HIDE DEF name, mode
  <2>3. Laid' /\ Leaves({h})
    BY <1>1, <2>1, <2>2, OpenExistingLeaves, MakingLeaves
  <2>4. /\ file'[h].mode = mode
        /\ dir'[file'[h].entry].writable => file'[h].offset = dir'[file'[h].entry].size
    BY <1>1, <2>1, <2>2, OpensToWrite
  <2>5. n \in Nat
    <3>1. IsOpen(h)'
      BY <1>1, <1>10, <2>1, OpensFile, <2>2
    <3>2. Inv'
      BY <1>3 DEF FilesInv
    <3>3. (dir[file[h].entry] \in Entry)'
      BY <2>1, <3>1, <3>2 DEF Inv, TypeOK, HandlesAlive, IsOpen, OpenEntries, EntryOf
    <3> QED
      BY <3>3 DEF Entry, Offsets
  <2>6. r.src \in Handles => Undisturbed(r.src)
    <3>1. r.src \in Handles => IsOpen(r.src)
      BY <1>1 DEF HeldIn
    <3> QED
      BY <2>1, <2>3, <3>1 DEF Leaves
  <2>7. /\ s.at # "mv" /\ s.src = r.src /\ s.dest = h /\ s.due = r.due + n /\ s.ok = r.ok /\ s.cmd = r.cmd
        /\ r.cmd.do = "cat" => s.at = "openSrc"
        /\ r.cmd.do = "cp" => s.at = "read"
    BY <1>1, <1>2, <2>5, DestinationOpened
  <2>8. Target(s)' = n
    BY <2>7 DEF Target
  <2>9. CopyState(s)'
    BY <1>7, <2>2, <2>4, <2>5, <2>6, <2>7, <2>8
  <2>10. prog' = [prog EXCEPT ![p] = s]
    BY <1>10
  <2>11. \A g \in {h} : ~IsOpen(g)
    BY <2>1
  <2> QED
    BY <1>3, <2>3, <2>9, <2>10, <2>11, CopyMoves
<1> QED
  BY <1>5, <1>8, <1>9, <1>10

-----------------------------------------------------------------------------
(* A read that advances does so by what it has put into the buffer, and    *)
(* not beyond what there is to read.                                       *)
LEMMA ReadAdvances ==
    ASSUME ChainInv, NEW h \in Handles, NEW len \in Nat, Read(h, len),
           file'[h].offset > file[h].offset
    PROVE  /\ file'[h].offset \in Nat
           /\ file'[h].offset - file[h].offset \in 1..len
           /\ file'[h].offset <= ToRead(dir[file[h].entry])
           /\ file'[h].entry = file[h].entry
<1> DEFINE e == dir[file[h].entry]
           at == file[h].offset
           inFile == e.size - at
           there == BlockSize * Cardinality(Chain(fat, e.blockno))
           inChain == there - at
           wanted == First({len, inFile})
           n == First({wanted, inChain})
           runsOff == RunsOff(fat, e.blockno, BlocksFor(at + wanted))
<1>1. /\ Inv /\ LaidOver({}) /\ IsOpen(h)
      /\ e \in Entry /\ file[h] \in File /\ file \in [Handles -> File]
  BY OpenHandle DEF ChainInv, Laid, Read, Inv, TypeOK
<1>2. at \in Nat /\ e.size \in Nat /\ e.size < UINT /\ UINT \in Nat /\ inFile \in Int
  BY <1>1, UintPositive DEF File, Entry, Offsets
<1>3. ~runsOff
  BY <1>1, HandlesHead, OwnedHead DEF LaidOver
<1>4. inFile > 0 /\ (inChain > 0 \/ runsOff)
  BY DEF Read
<1>5. inChain > 0
  BY <1>3, <1>4
<1>6. file' = [file EXCEPT ![h].offset = OffsetAfter(at, n, ~runsOff)]
  BY <1>5 DEF Read
<1>7. there \in Nat
  <2>1. Cardinality(Chain(fat, e.blockno)) \in Nat
    BY BlocksFinite, FS_Subset, FS_CardinalityType DEF Chain
  <2> QED
    BY <2>1, FatAssumption
<1> HIDE DEF e, at, there
<1>8. wanted \in {len, inFile} /\ wanted <= len /\ wanted <= inFile
  <2>1. {len, inFile} \in SUBSET Nat /\ {len, inFile} # {}
    BY <1>2, <1>4
  <2> QED
    BY <2>1, FirstElement
<1>9. n \in {wanted, inChain} /\ n <= wanted /\ n <= inChain
  <2>1. {wanted, inChain} \in SUBSET Nat /\ {wanted, inChain} # {}
    BY <1>2, <1>4, <1>5, <1>7, <1>8
  <2> HIDE DEF wanted
  <2> QED
    BY <2>1, FirstElement
<1> HIDE DEF wanted, n, runsOff
<1>10. n \in Nat /\ n <= len /\ at + n <= e.size /\ at + n <= there
  BY <1>2, <1>4, <1>5, <1>7, <1>8, <1>9
<1>11. file'[h].offset = (at + n) % UINT /\ file'[h].entry = file[h].entry
  BY <1>1, <1>3, <1>6 DEF OffsetAfter, File
<1>12. (at + n) % UINT = at + n
  BY <1>2, <1>10
<1>13. ToRead(e) = e.size \/ ToRead(e) = there
  BY <1>1, ToReadType DEF e, there
<1> QED
  BY <1>2, <1>10, <1>11, <1>12, <1>13 DEF e, at

(* At its end a file has nothing left to read.                             *)
LEMMA EndHasNothingLeft ==
    ASSUME Inv, NEW h \in Handles, IsOpen(h), AtEnd(h)
    PROVE  ToRead(dir[file[h].entry]) - file[h].offset <= 0
<1>1. dir[file[h].entry] \in Entry /\ file[h] \in File
  BY OpenHandle
<1>2. ToRead(dir[file[h].entry]) \in Nat /\ ToRead(dir[file[h].entry]) <= dir[file[h].entry].size
  BY <1>1, ToReadType
<1> QED
  BY <1>1, <1>2 DEF AtEnd, Entry, File, Offsets

(* A program with n bytes in its buffer, and one whose read failed.        *)
Filled(r, n, more) == [r EXCEPT !.at = "write", !.bytes = n, !.due = @ + more]
(* It is about to write what it has read.                                  *)
LEMMA BufferFilled ==
    ASSUME NEW r \in Program, NEW n \in Nat, NEW more \in Nat, NEW s, s = Filled(r, n, more)
    PROVE  /\ s.at = "write" /\ s.bytes = n /\ s.due = r.due + more
           /\ s.src = r.src /\ s.dest = r.dest /\ s.ok = r.ok /\ s.cmd = r.cmd
BY DEF Program, Filled
Failed(r) == [r EXCEPT !.at = "closeSrc", !.ok = FALSE]

(* cat and cp read: what is in the buffer is no longer to be read.         *)
LEMMA ReadSrcCopies ==
    ASSUME CopyInv, NEW p \in Processes, ReadSrc(p)
    PROVE  CopyInv'
<1> SUFFICES ASSUME NEW r, r = prog[p] PROVE CopyInv'
  OBVIOUS
<1> DEFINE h == r.src
<1>1. /\ FilesInv /\ ChainInv /\ Inv
      /\ r \in Program /\ InCommand(r) /\ InPlace(r) /\ CopyState(r)
      /\ \A g \in Handles : g \in HeldIn(r) => IsOpen(g)
  BY CopyFacts
<1>2. /\ r.at = "read" /\ Copies(r) /\ r.ok /\ Left(r) >= 0 /\ h \in Handles \cup {Host}
      /\ Host \notin Handles /\ r.due \in Nat /\ (h \in Handles => h # r.dest)
  BY <1>1, FileProgramsAssumption DEF ReadSrc, InPlace, CopyState, Program, Descriptors
<1>3. FilesInv'
  BY <1>1, ReadSrcHolds
<1>4. \/ UNCHANGED filesystem /\ prog' = [prog EXCEPT ![p] = Failed(r)]
      \/ /\ h = Host /\ UNCHANGED filesystem
         /\ \E n \in 0..Chunk : prog' = [prog EXCEPT ![p] = Filled(r, n, n)]
      \/ h # Host /\ AtEnd(h) /\ UNCHANGED filesystem /\ prog' = [prog EXCEPT ![p] = Filled(r, 0, 0)]
      \/ /\ h # Host /\ Read(h, Chunk)
         /\ IF file'[h].offset > file[h].offset
            THEN prog' = [prog EXCEPT ![p] = Filled(r, file'[h].offset - file[h].offset, 0)]
            ELSE prog' = [prog EXCEPT ![p] = Failed(r)]
  BY DEF ReadSrc, ReadFails, HasRead, Become, Filled, Failed
<1>5. ASSUME NEW s, s = Failed(r), r.dest \in Handles => file'[r.dest].mode = file[r.dest].mode
      PROVE  CopyState(s)'
  <2>1. s.at = "closeSrc" /\ s.dest = r.dest /\ s.ok = FALSE
    BY <1>1, <1>5 DEF Program, Failed
  <2> QED
    BY <1>1, <1>5, <2>1, StateOver
<1>6. ASSUME NEW n \in 0..Chunk, NEW more \in Nat, NEW s, s = Filled(r, n, more),
             r.dest \in Handles => Undisturbed(r.dest), Left(s)' >= 0, Left(s)' \in Int,
             Left(s)' + n = Left(r) + more, n = 0 => Left(s)' = 0
      PROVE  CopyState(s)'
  <2>1. /\ s.at = "write" /\ s.bytes = n /\ s.due = r.due + more
        /\ s.src = h /\ s.dest = r.dest /\ s.ok = r.ok /\ s.cmd = r.cmd
    BY <1>1, <1>6, BufferFilled, FileProgramsAssumption
  <2>2. Unwritten(s)' = Left(s)' + n /\ Unwritten(r) = Left(r)
    BY <1>2, <2>1 DEF Unwritten
  <2>3. r.dest \in Handles =>
            /\ Target(s)' = Target(r) /\ file'[s.dest] = file[r.dest]
            /\ dir'[file'[s.dest].entry].writable = dir[file[r.dest].entry].writable
    BY <1>6, <2>1 DEF Target, Undisturbed
  <2>4. r.dest \in Handles =>
            /\ r.due = Target(r) + Left(r)
            /\ dir[file[r.dest].entry].writable => file[r.dest].offset = Target(r)
    BY <1>1, <1>2, <2>2 DEF CopyState, AddsUp
  <2>5. r.dest \in Handles => Target(r) \in Nat
    BY <1>1, OpenHandle DEF HeldIn, Target, Entry, Offsets
  <2>6. r.dest \in Handles => s.due = Target(s)' + Unwritten(s)'
    <3>1. Left(r) \in Int
      BY <1>1, LeftIsNumber DEF HeldIn
    <3> QED
      BY <1>2, <1>6, <2>1, <2>2, <2>3, <2>4, <2>5, <3>1
  <2>7. AddsUp(s)'
    BY <2>1, <2>3, <2>4, <2>6 DEF AddsUp
  <2> QED
    BY <1>1, <1>2, <1>6, <2>1, <2>3, <2>7 DEF CopyState, Copies
<1>7. UNCHANGED filesystem => \A g \in Handles : Undisturbed(g)
  BY DEF Undisturbed, filesystem
<1>8. ASSUME UNCHANGED filesystem, prog' = [prog EXCEPT ![p] = Failed(r)] PROVE CopyInv'
  <2> SUFFICES ASSUME NEW s, s = Failed(r) PROVE CopyInv'
    OBVIOUS
  <2>1. CopyState(s)'
    BY <1>5, <1>8 DEF filesystem
  <2> QED
    BY <1>3, <1>8, <2>1, CopyGoesOn
<1>9. ASSUME h = Host, UNCHANGED filesystem, NEW n \in 0..Chunk,
              prog' = [prog EXCEPT ![p] = Filled(r, n, n)]
       PROVE  CopyInv'
  <2> SUFFICES ASSUME NEW s, s = Filled(r, n, n) PROVE CopyInv'
    OBVIOUS
  <2>1. n \in Nat /\ s.src = h
    BY <1>1, BufferFilled, FileProgramsAssumption
  <2>2. Left(s)' = 0 /\ Left(r) = 0
    BY <1>2, <1>9, <2>1 DEF Left
  <2>3. CopyState(s)'
    BY <1>6, <1>7, <1>9, <2>1, <2>2
  <2> QED
    BY <1>3, <1>9, <2>3, CopyGoesOn
<1>10. ASSUME h # Host, AtEnd(h), UNCHANGED filesystem, prog' = [prog EXCEPT ![p] = Filled(r, 0, 0)]
       PROVE  CopyInv'
  <2> SUFFICES ASSUME NEW s, s = Filled(r, 0, 0) PROVE CopyInv'
    OBVIOUS
  <2>1. s.src = h /\ h \in Handles /\ IsOpen(h)
    BY <1>1, <1>2, <1>10, BufferFilled DEF HeldIn
  <2>2. Left(r) \in Int /\ Left(r) <= 0
    BY <1>1, <1>10, <2>1, EndHasNothingLeft, LeftIsNumber DEF Left
  <2>3. Left(s)' = Left(r)
    BY <1>10, <2>1 DEF Left, ToRead, filesystem
  <2>4. 0 \in 0..Chunk
    BY FileProgramsAssumption
  <2>5. CopyState(s)'
    BY <1>2, <1>6, <1>7, <1>10, <2>2, <2>3, <2>4
  <2> QED
    BY <1>3, <1>10, <2>5, CopyGoesOn
<1>11. ASSUME h # Host, Read(h, Chunk) PROVE h \in Handles /\ IsOpen(h) /\ Laid' /\ Leaves({h})
  BY <1>1, <1>2, <1>11, ReadLeaves, FileProgramsAssumption DEF HeldIn
<1>12. ASSUME h # Host, Read(h, Chunk) PROVE r.dest \in Handles => Undisturbed(r.dest)
  BY <1>1, <1>2, <1>11, <1>12 DEF Leaves, HeldIn
<1>13. ASSUME NEW s, prog' = [prog EXCEPT ![p] = s], h # Host, Read(h, Chunk), CopyState(s)'
       PROVE  CopyInv'
  <2>1. \A g \in {h} : g \in HeldIn(prog[p]) \/ ~IsOpen(g)
    BY <1>11, <1>13 DEF HeldIn
  <2> QED
    BY <1>3, <1>11, <1>13, <2>1, CopyMoves
<1>14. ASSUME h # Host, Read(h, Chunk), file'[h].offset > file[h].offset,
              prog' = [prog EXCEPT ![p] = Filled(r, file'[h].offset - file[h].offset, 0)]
       PROVE  CopyInv'
  <2> SUFFICES ASSUME NEW n, n = file'[h].offset - file[h].offset, NEW s, s = Filled(r, n, 0)
               PROVE  CopyInv'
    OBVIOUS
  <2>1. /\ n \in 1..Chunk /\ file'[h].offset \in Nat
        /\ file'[h].offset <= ToRead(dir[file[h].entry]) /\ file'[h].entry = file[h].entry
    BY <1>1, <1>11, <1>14, ReadAdvances, FileProgramsAssumption
  <2>2. s.src = h /\ n \in Nat
    BY <1>1, <2>1, BufferFilled, FileProgramsAssumption
  <2>3. dir' = dir /\ fat' = fat
    BY <1>14 DEF Read
  <2>4. Left(s)' = ToRead(dir[file[h].entry]) - file'[h].offset
    BY <1>11, <1>14, <2>1, <2>2, <2>3 DEF Left, ToRead
  <2>5. Left(r) = ToRead(dir[file[h].entry]) - file[h].offset
    BY <1>11, <1>14 DEF Left
  <2>6. ToRead(dir[file[h].entry]) \in Nat /\ file[h].offset \in Nat
    BY <1>1, <1>11, <1>14, OpenHandle, ToReadType DEF File, Offsets
  <2>7. Left(s)' >= 0 /\ Left(s)' \in Int /\ Left(s)' + n = Left(r) + 0 /\ n # 0 /\ n \in 0..Chunk
    BY <2>1, <2>4, <2>5, <2>6, FileProgramsAssumption
  <2>8. CopyState(s)'
    BY <1>6, <1>12, <1>14, <2>7
  <2>9. prog' = [prog EXCEPT ![p] = s]
    BY <1>14
  <2> QED
    BY <1>13, <1>14, <2>8, <2>9
<1>15. ASSUME h # Host, Read(h, Chunk), prog' = [prog EXCEPT ![p] = Failed(r)]
       PROVE  CopyInv'
  <2> SUFFICES ASSUME NEW s, s = Failed(r) PROVE CopyInv'
    OBVIOUS
  <2>1. CopyState(s)'
    BY <1>5, <1>12, <1>15 DEF Undisturbed
  <2>2. prog' = [prog EXCEPT ![p] = s]
    BY <1>15
  <2> QED
    BY <1>13, <1>15, <2>1, <2>2
<1> QED
  BY <1>4, <1>8, <1>9, <1>10, <1>14, <1>15

-----------------------------------------------------------------------------
(* What fits into the chain and the free blocks is shorter than UINT.      *)
LEMMA FitsWithin ==
    ASSUME NEW table \in Tables, NEW base \in Blocks, EndsInEOF(table, base),
           NEW bytes \in Nat, CanExtend(table, base, BlocksFor(bytes))
    PROVE  bytes < UINT
<1> DEFINE C == Chain(table, base)
           F == Free(table)
           q == BlocksFor(bytes)
<1>1. C \subseteq Blocks /\ IsFiniteSet(C) /\ C \cap F = {}
  BY ChainLinks
<1>2. F \subseteq Blocks /\ IsFiniteSet(F)
  BY BlocksFinite, FS_Subset DEF Free
<1>3. Cardinality(Blocks) = NEntries - 1
  BY FS_Interval, FatAssumption DEF Blocks
<1> HIDE DEF C, F
<1>4. Cardinality(C \cup F) = Cardinality(C) + Cardinality(F)
  <2>1. Cardinality({}) = 0
    BY FS_EmptySet
  <2>2. Cardinality(C) \in Nat /\ Cardinality(F) \in Nat
    BY <1>1, <1>2, FS_CardinalityType
  <2>3. Cardinality(C \cup F) = Cardinality(C) + Cardinality(F) - Cardinality(C \cap F)
    BY <1>1, <1>2, FS_Union
  <2>4. Cardinality(C \cap F) = 0
    BY <1>1, <2>1, Zenon
  <2> QED
    BY <2>2, <2>3, <2>4
<1>5. Cardinality(C \cup F) <= NEntries - 1
  <2>1. C \cup F \in SUBSET Blocks
    BY <1>1, <1>2
  <2>2. Cardinality(C \cup F) <= Cardinality(Blocks)
    BY <2>1, BlocksFinite, FS_Subset
  <2> QED
    BY <1>3, <2>2
<1>6. q - Cardinality(C) <= Cardinality(F)
  BY DEF CanExtend, C, F
<1>7. q \in Int /\ bytes <= q * BlockSize
  <2>1. ASSUME NEW a \in Nat, NEW b \in Nat \ {0}
        PROVE  a \div b \in Int /\ a < (a \div b) * b + b
    BY <2>1, Z3
  <2>2. bytes + BlockSize - 1 \in Nat /\ BlockSize \in Nat \ {0}
    BY FatAssumption
  <2>3. q \in Int /\ bytes + BlockSize - 1 < q * BlockSize + BlockSize
    BY <2>1, <2>2 DEF BlocksFor
  <2> HIDE DEF q
  <2>4. q * BlockSize \in Int
    BY <2>2, <2>3
  <2> QED
    BY <2>2, <2>3, <2>4
<1> HIDE DEF q
<1>8. q <= NEntries
  <2>1. Cardinality(C) \in Nat /\ Cardinality(F) \in Nat
    BY <1>1, <1>2, FS_CardinalityType
  <2> QED
    BY <1>4, <1>5, <1>6, <1>7, <2>1, FatAssumption
<1>9. q * BlockSize <= NEntries * BlockSize
  <2>1. ASSUME NEW a \in Int, NEW b \in Nat, a <= b, NEW c \in Nat PROVE a * c <= b * c
    BY <2>1
  <2> QED
    BY <1>7, <1>8, <2>1, FatAssumption
<1>10. NEntries * BlockSize < UINT
  BY FatAssumption
<1>11. q * BlockSize \in Int /\ NEntries * BlockSize \in Int /\ UINT \in Int
  BY <1>7, FatAssumption
<1> QED
  BY <1>7, <1>9, <1>10, <1>11

(* An offset that is not moved, or moved by -1, is not the one behind len  *)
(* bytes.                                                                  *)
LEMMA Elsewhere ==
    ASSUME NEW at \in Offsets, NEW len \in Nat, len > 0, len + 1 < UINT
    PROVE  /\ at # (at + len) % UINT
           /\ (at - 1) % UINT # (at + len) % UINT
<1>1. UINT \in Nat /\ at \in Nat /\ at < UINT
  BY UintPositive DEF Offsets
<1>2. (at + len) % UINT = IF at + len < UINT THEN at + len ELSE at + len - UINT
  BY <1>1
<1>3. (at - 1) % UINT = IF at = 0 THEN UINT - 1 ELSE at - 1
  BY <1>1
<1> QED
  BY <1>1, <1>2, <1>3

(* A free block that is marked as the end is a chain.                      *)
LEMMA FirstBlock ==
    ASSUME NEW base \in Free(fat), Owns(fat, dir, {})
    PROVE  /\ MarkEnd(fat, base) \in Tables /\ base \in Blocks
           /\ EndsInEOF(MarkEnd(fat, base), base)
<1> DEFINE B == HeadSet(dir) \cup {}
           u == MarkEnd(fat, base)
<1>1. Layout(fat, B)
  BY DEF Owns
<1> HIDE DEF B
<1>2. Layout(u, B \cup {base}) /\ base \in Blocks
  BY <1>1, LayoutNew
<1> QED
  BY <1>2 DEF Layout

(* The chain fs_write extends: the file's, or a free block for its first.  *)
LEMMA WriteBase ==
    ASSUME ChainInv, NEW h \in Handles, IsOpen(h), NEW b, NEW base, NEW table,
           b = dir[file[h].entry].blockno,
           base = IF b = 0 THEN First(Free(fat)) ELSE b,
           table = IF b = 0 THEN [fat EXCEPT ![base] = FAT_EOF] ELSE fat,
           ~(b = 0 /\ Free(fat) = {})
    PROVE  table \in Tables /\ base \in Blocks /\ EndsInEOF(table, base)
<1>1. Inv /\ Owns(fat, dir, {})
  BY DEF ChainInv, Laid, LaidOver
<1>2. CASE b = 0
  <2>1. base \in Free(fat)
    BY <1>2, BlocksFinite, FirstElement DEF Free
  <2>2. table = MarkEnd(fat, base)
    BY <1>2 DEF MarkEnd
  <2> QED
    BY <1>1, <2>1, <2>2, FirstBlock, Zenon
<1>3. CASE b # 0
  BY <1>1, <1>3, HandlesHead, OwnedHead
<1> QED
  BY <1>2, <1>3

(* A write at the end of a file makes it longer by what is written, when   *)
(* it says that all was written.                                           *)
LEMMA WriteAppends ==
    ASSUME ChainInv, NEW h \in Handles, NEW len \in Nat, len > 0, len + 1 < UINT, Write(h, len),
           NEW size, size = dir[file[h].entry].size, file[h].offset = size,
           file'[h].offset = (size + len) % UINT
    PROVE  file'[h].offset = size + len /\ dir'[file[h].entry].size = size + len
<1> SUFFICES ASSUME NEW e, e = file[h].entry, NEW b, b = dir[e].blockno,
                    NEW base, base = IF b = 0 THEN First(Free(fat)) ELSE b,
                    NEW table, table = IF b = 0 THEN [fat EXCEPT ![base] = FAT_EOF] ELSE fat
             PROVE  file'[h].offset = size + len /\ dir'[e].size = size + len
  OBVIOUS
<1>1. /\ Inv /\ IsOpen(h) /\ dir[e] \in Entry /\ file[h] \in File
      /\ e \in DOMAIN dir /\ file \in [Handles -> File]
  BY OpenHandle DEF ChainInv, Write, Inv, TypeOK
<1>2. size \in Offsets /\ size \in Nat /\ UINT \in Nat
  BY <1>1, UintPositive DEF Entry, Offsets
<1>3. file'[h].offset # size /\ (size - 1) % UINT # file'[h].offset
  BY <1>2, Elsewhere
<1>4. /\ ~(b = 0 /\ Free(fat) = {})
      /\ WriteTo(h, size, base, table, len)
  <2>1. (IF file[h].mode = "F_APPEND" THEN dir[e].size ELSE file[h].offset) = size
    OBVIOUS
  <2>2. \/ b = 0 /\ Free(fat) = {} /\ file' = [file EXCEPT ![h].offset = size]
        \/ ~(b = 0 /\ Free(fat) = {}) /\ file' = file
        \/ ~(b = 0 /\ Free(fat) = {}) /\ WriteTo(h, size, base, table, len)
    BY <2>1 DEF Write
  <2>3. file' # file
    BY <1>3
  <2>4. file' # [file EXCEPT ![h].offset = size]
    <3>1. [file EXCEPT ![h].offset = size][h].offset = size
      BY <1>1 DEF File
    <3> QED
      BY <1>3, <3>1, Zenon
  <2> QED
    BY <2>2, <2>3, <2>4
<1>5. table \in Tables /\ base \in Blocks /\ EndsInEOF(table, base)
  BY <1>1, <1>4, WriteBase
<1> DEFINE fits == CanExtend(table, base, BlocksFor(size + len))
           end == OffsetAfter(size, len, fits)
<1>6. /\ file' = [file EXCEPT ![h].offset = end]
      /\ dir' = [dir EXCEPT ![e].blockno = base,
                            ![e].size = IF end > size THEN end ELSE size]
  BY <1>2, <1>4 DEF WriteTo
<1> HIDE DEF end
<1>7. file'[h].offset = end
  BY <1>1, <1>6
<1>8. fits /\ end = (size + len) % UINT
  BY <1>3, <1>7 DEF OffsetAfter, end
<1>9. size + len < UINT
  <2>1. size + len \in Nat /\ CanExtend(table, base, BlocksFor(size + len))
    BY <1>2, <1>8
  <2> HIDE DEF fits
  <2> QED
    BY <1>5, <2>1, FitsWithin
<1>10. end = size + len
  BY <1>2, <1>8, <1>9
<1>11. dir'[e].size = IF end > size THEN end ELSE size
  BY <1>1, <1>6 DEF Entry
<1> QED
  BY <1>2, <1>7, <1>10, <1>11

(* A write leaves what the writer is, and whether the file may be written. *)
LEMMA WriteStays ==
    ASSUME Inv, NEW h \in Handles, NEW len \in Nat, Write(h, len)
    PROVE  /\ file'[h].mode = file[h].mode /\ file'[h].entry = file[h].entry
           /\ dir'[file[h].entry].writable = dir[file[h].entry].writable
<1>1. file[h] \in File /\ dir[file[h].entry] \in Entry /\ file \in [Handles -> File]
  BY OpenHandle DEF Write, Inv, TypeOK
<1>2. file' = file \/ \E offset : file' = [file EXCEPT ![h].offset = offset]
  BY WriteChanges
<1>3. file'[h].mode = file[h].mode /\ file'[h].entry = file[h].entry
  BY <1>1, <1>2 DEF File
<1>4. \/ dir' = dir
      \/ \E base, size : dir' = [dir EXCEPT ![file[h].entry].blockno = base,
                                            ![file[h].entry].size = size]
  <2>1. dir' = dir \/ \E at, base, table : WriteTo(h, at, base, table, len)
    BY SMTT(30) DEF Write
  <2>2. ASSUME NEW at, NEW base, NEW table, WriteTo(h, at, base, table, len)
        PROVE  \E size : dir' = [dir EXCEPT ![file[h].entry].blockno = base,
                                            ![file[h].entry].size = size]
    BY <2>2 DEF WriteTo
  <2> QED
    BY <2>1, <2>2
<1>5. file[h].entry \in DOMAIN dir
  BY OpenHandle DEF Write
<1>6. dir'[file[h].entry].writable = dir[file[h].entry].writable
  <2>1. ASSUME NEW e, e = file[h].entry, NEW base, NEW size,
               dir' = [dir EXCEPT ![e].blockno = base, ![e].size = size]
        PROVE  dir'[e].writable = dir[e].writable
    <3>1. e \in DOMAIN dir /\ dir[e] \in Entry
      BY <1>1, <1>5, <2>1
    <3>2. dir'[e] = [dir[e] EXCEPT !.blockno = base, !.size = size]
      BY <2>1, <3>1
    <3> QED
      BY <3>1, <3>2 DEF Entry
  <2> QED
    BY <1>4, <2>1
<1> QED
  BY <1>3, <1>6

(* The fields of a program after a write.                                  *)
LEMMA WriteDone ==
    ASSUME NEW r \in Program, NEW written \in BOOLEAN, NEW s, s = AfterWrite(r, written)
    PROVE  /\ s.src = r.src /\ s.dest = r.dest /\ s.due = r.due /\ s.cmd = r.cmd
           /\ ~Copies(r) => s.at = "closeDest"
           /\ Copies(r) => s.ok = written
           /\ Copies(r) => s.at = IF written /\ r.bytes > 0 THEN "read" ELSE "closeSrc"
<1>1. CASE Copies(r)
  <2>1. s = [r EXCEPT !.at = IF written /\ r.bytes > 0 THEN "read" ELSE "closeSrc",
                      !.ok = written]
    BY <1>1 DEF AfterWrite
  <2> QED
    BY <1>1, <2>1 DEF Program
<1>2. CASE ~Copies(r)
  <2>1. s = [r EXCEPT !.at = "closeDest"]
    BY <1>2 DEF AfterWrite
  <2> QED
    BY <1>2, <2>1 DEF Program
<1> QED
  BY <1>1, <1>2

(* A copy whose write did not fail: what was in the buffer is in the file. *)
LEMMA WriteIsDue ==
    ASSUME NEW r \in Program, InPlace(r), CopyState(r), r.at = "write",
           Inv, r.dest \in Handles => IsOpen(r.dest),
           NEW written \in BOOLEAN, NEW s, s = AfterWrite(r, written),
           r.src \in Handles => Undisturbed(r.src), Left(r) \in Int,
           r.dest \in Handles =>
               /\ file'[r.dest].mode = file[r.dest].mode
               /\ dir'[file'[r.dest].entry].writable = dir[file[r.dest].entry].writable,
           r.dest \in Handles /\ written /\ Copies(r) =>
               /\ Target(s)' = Target(r) + r.bytes
               /\ dir[file[r.dest].entry].writable => file'[r.dest].offset = Target(r) + r.bytes
    PROVE  CopyState(s)'
<1>1. /\ s.src = r.src /\ s.dest = r.dest /\ s.due = r.due /\ s.cmd = r.cmd
      /\ ~Copies(r) => s.at = "closeDest"
      /\ Copies(r) => s.ok = written
      /\ Copies(r) => s.at = IF written /\ r.bytes > 0 THEN "read" ELSE "closeSrc"
  BY WriteDone
<1> HIDE DEF AfterWrite
<1>2. CASE ~Copies(r) \/ ~written
  BY <1>1, <1>2, StateOver DEF Copies
<1>3. CASE Copies(r) /\ written
  <2>1. /\ r.ok /\ Left(r) >= 0 /\ (r.bytes = 0 => Left(r) = 0) /\ r.bytes \in Nat /\ r.due \in Nat
        /\ Unwritten(r) = Left(r) + r.bytes
    BY <1>3 DEF CopyState, Program, Unwritten
  <2>2. Left(s)' = Left(r)
    BY <1>1 DEF Left, Undisturbed, ToRead
  <2>3. s.ok /\ s.at = IF r.bytes > 0 THEN "read" ELSE "closeSrc"
    BY <1>1, <1>3
  <2>4. Unwritten(s)' = Left(r)
    BY <2>1, <2>2, <2>3 DEF Unwritten
  <2>5. r.dest \in Handles =>
            /\ r.due = Target(r) + (Left(r) + r.bytes)
    BY <1>3, <2>1 DEF CopyState, AddsUp
  <2>6. r.dest \in Handles => Target(r) \in Nat
    BY OpenHandle DEF Target, Entry, Offsets
  <2>7. s.dest \in Handles => s.due = Target(s)' + Unwritten(s)'
    <3> SUFFICES ASSUME r.dest \in Handles PROVE s.due = Target(s)' + Unwritten(s)'
      BY <1>1
    <3>1. Target(s)' = Target(r) + r.bytes
      BY <1>3
    <3>2. s.due = Target(r) + (Left(r) + r.bytes)
      BY <1>1, <2>5
    <3> QED
      BY <2>1, <2>4, <2>6, <3>1, <3>2
  <2>8. AddsUp(s)'
    BY <1>1, <1>3, <2>7 DEF AddsUp
  <2> QED
    BY <1>1, <1>3, <2>1, <2>2, <2>3, <2>8 DEF CopyState, Copies
<1> QED
  BY <1>2, <1>3

(* What is in the buffer is less than the offsets.                         *)
LEMMA ShortBuffer == \A n \in Nat : n <= Chunk => n + 1 < UINT
BY FileProgramsAssumption, UintPositive

(* A write of a program: all its cases.                                    *)
LEMMA WriteDestCopies ==
    ASSUME CopyInv, NEW p \in Processes, WriteDest(p)
    PROVE  CopyInv'
<1> SUFFICES ASSUME NEW r, r = prog[p] PROVE CopyInv'
  OBVIOUS
<1> SUFFICES ASSUME NEW h, h = r.dest, NEW writable, writable = dir[file[h].entry].writable,
                    NEW size, size = dir[file[h].entry].size,
                    NEW from, from = IF file[h].mode = "F_APPEND" THEN size ELSE file[h].offset
             PROVE  CopyInv'
  OBVIOUS
<1>1. /\ FilesInv /\ ChainInv /\ Inv
      /\ r \in Program /\ InCommand(r) /\ InPlace(r) /\ CopyState(r)
      /\ \A g \in Handles : g \in HeldIn(r) => IsOpen(g)
  BY CopyFacts
<1>2. /\ r.at = "write" /\ r.bytes \in Nat /\ (r.src \in Handles => r.src # h)
      /\ (Copies(r) => r.ok /\ r.bytes <= Chunk) /\ Left(r) \in Int
      /\ (r.dest \in Handles => IsOpen(r.dest)) /\ (r.src \in Handles => IsOpen(r.src))
  <2>1. (r.dest \in Handles => IsOpen(r.dest)) /\ (r.src \in Handles => IsOpen(r.src))
    BY <1>1 DEF HeldIn
  <2> QED
    BY <1>1, <2>1, LeftIsNumber DEF WriteDest, InPlace, CopyState, Program
<1>3. FilesInv'
  BY <1>1, WriteDestHolds
<1>4. \/ /\ r.cmd.output = Host /\ Copies(r) /\ UNCHANGED filesystem
         /\ \E written \in BOOLEAN : prog' = [prog EXCEPT ![p] = AfterWrite(r, written)]
      \/ /\ h \in Handles /\ writable /\ r.bytes > 0 /\ Write(h, r.bytes)
         /\ prog' = [prog EXCEPT ![p] = AfterWrite(r, file'[h].offset = (from + r.bytes) % UINT)]
      \/ /\ h \in Handles /\ (~writable \/ r.bytes = 0)
         /\ prog' = [prog EXCEPT ![p] = AfterWrite(r, writable)]
         /\ file' = [file EXCEPT ![h].offset = IF writable THEN from ELSE @]
         /\ UNCHANGED <<fat, dir, open_files, fault>>
  <2>1. r.cmd.output = Host /\ Copies(r) <=> h \notin Handles
    BY <1>1, <1>2 DEF InPlace, HasDest
  <2>2. CASE r.cmd.output = Host /\ Copies(r)
    BY <2>1, <2>2 DEF WriteDest, Become
  <2>3. CASE h \in Handles /\ writable /\ r.bytes > 0
    <3>1. r.bytes # 0
      BY <1>2, <2>3
    <3> QED
      BY <2>1, <2>3, <3>1 DEF WriteDest, Become
  <2>4. CASE h \in Handles /\ (~writable \/ r.bytes = 0)
    <3>1. ~(writable /\ r.bytes > 0)
      BY <1>2, <2>4
    <3> QED
      BY <2>1, <2>4, <3>1 DEF WriteDest, Become
  <2>5. \/ r.cmd.output = Host /\ Copies(r)
        \/ h \in Handles /\ writable /\ r.bytes > 0
        \/ h \in Handles /\ (~writable \/ r.bytes = 0)
    BY <1>2, <2>1
  <2> QED
    BY <2>2, <2>3, <2>4, <2>5
<1>5. Copies(r) /\ h \in Handles /\ writable => from = Target(r) /\ file[h].offset = size /\ Target(r) = size
  BY <1>1, <1>2 DEF CopyState, AddsUp, Target
<1>6. h \in Handles => /\ file[h] \in File /\ dir[file[h].entry] \in Entry
                       /\ writable \in BOOLEAN /\ size \in Nat /\ file \in [Handles -> File]
  <2>1. h \in Handles => file[h] \in File /\ dir[file[h].entry] \in Entry
    BY <1>1, <1>2, OpenHandle
  <2> QED
    BY <1>1, <2>1 DEF Entry, Offsets, Inv, TypeOK
<1>7. ASSUME UNCHANGED filesystem, r.cmd.output = Host, Copies(r), NEW written \in BOOLEAN,
             prog' = [prog EXCEPT ![p] = AfterWrite(r, written)]
      PROVE  CopyInv'
  <2> SUFFICES ASSUME NEW s, s = AfterWrite(r, written) PROVE CopyInv'
    OBVIOUS
  <2>1. r.dest \notin Handles
    BY <1>1, <1>2, <1>7 DEF InPlace, HasDest
  <2>2. r.src \in Handles => Undisturbed(r.src)
    BY <1>7 DEF Undisturbed, filesystem
  <2>3. CopyState(s)'
    BY <1>1, <1>2, <2>1, <2>2, WriteIsDue
  <2> QED
    BY <1>3, <1>7, <2>3, CopyGoesOn
<1>8. ASSUME h \in Handles, Laid', Leaves({h}), NEW s, prog' = [prog EXCEPT ![p] = s], CopyState(s)'
      PROVE  CopyInv'
  <2>1. \A g \in {h} : g \in HeldIn(prog[p]) \/ ~IsOpen(g)
    BY <1>8 DEF HeldIn
  <2> QED
    BY <1>3, <1>8, <2>1, CopyMoves
<1>9. ASSUME h \in Handles, Leaves({h}) PROVE r.src \in Handles => Undisturbed(r.src)
  BY <1>2, <1>9 DEF Leaves
<1>10. ASSUME h \in Handles, writable, r.bytes > 0, Write(h, r.bytes),
              prog' = [prog EXCEPT ![p] = AfterWrite(r, file'[h].offset = (from + r.bytes) % UINT)]
       PROVE  CopyInv'
  <2> SUFFICES ASSUME NEW written, written = (file'[h].offset = (from + r.bytes) % UINT),
                      NEW s, s = AfterWrite(r, written)
               PROVE  CopyInv'
    OBVIOUS
  <2>1. Laid' /\ Leaves({h})
    BY <1>1, <1>2, <1>10, WriteLeaves
  <2>2. /\ file'[h].mode = file[h].mode /\ file'[h].entry = file[h].entry
        /\ dir'[file[h].entry].writable = dir[file[h].entry].writable
    BY <1>1, <1>2, <1>10, WriteStays
  <2>3. ASSUME written, Copies(r)
        PROVE  /\ dir'[file[h].entry].size = size + r.bytes
               /\ file'[h].offset = size + r.bytes
    <3>1. file[h].offset = size /\ file'[h].offset = (size + r.bytes) % UINT
      BY <1>5, <1>10, <2>3
    <3>2. r.bytes + 1 < UINT
      <4>1. r.bytes <= Chunk /\ r.bytes \in Nat
        BY <1>2, <2>3
      <4> QED
        BY <4>1, ShortBuffer
    <3> QED
      BY <1>1, <1>2, <1>10, <3>1, <3>2, WriteAppends
  <2>4. s.dest = h /\ written \in BOOLEAN
    BY <1>1, WriteDone
  <2>5. written /\ Copies(r) =>
            /\ Target(s)' = Target(r) + r.bytes
            /\ file'[r.dest].offset = Target(r) + r.bytes
    <3>1. Target(s)' = dir'[file[h].entry].size
      BY <2>2, <2>4 DEF Target
    <3>2. Copies(r) => Target(r) = size
      BY <1>5, <1>10
    <3> QED
      BY <2>3, <3>1, <3>2
  <2>6. CopyState(s)'
    BY <1>1, <1>2, <1>9, <1>10, <2>1, <2>2, <2>4, <2>5, WriteIsDue
  <2>7. prog' = [prog EXCEPT ![p] = s]
    BY <1>10
  <2> QED
    BY <1>8, <1>10, <2>1, <2>6, <2>7
<1>11. ASSUME h \in Handles, ~writable \/ r.bytes = 0,
              prog' = [prog EXCEPT ![p] = AfterWrite(r, writable)],
              file' = [file EXCEPT ![h].offset = IF writable THEN from ELSE @],
              UNCHANGED <<fat, dir, open_files, fault>>
       PROVE  CopyInv'
  <2> SUFFICES ASSUME NEW s, s = AfterWrite(r, writable) PROVE CopyInv'
    OBVIOUS
  <2>1. Laid' /\ Leaves({h})
    <3>1. \A g \in Handles \ {h} : file'[g] = file[g]
      BY <1>6, <1>11
    <3> QED
      BY <1>1, <1>11, <3>1, NothingLeaves
  <2>2. /\ file'[h].mode = file[h].mode /\ file'[h].entry = file[h].entry
        /\ writable => file'[h].offset = from
    BY <1>6, <1>11 DEF File
  <2>3. s.dest = h /\ writable \in BOOLEAN
    <3>1. writable \in BOOLEAN
      BY <1>6, <1>11
    <3> QED
      BY <1>1, <3>1, WriteDone
  <2>4. writable /\ Copies(r) =>
            /\ Target(s)' = Target(r) + r.bytes
            /\ file'[r.dest].offset = Target(r) + r.bytes
    BY <1>5, <1>6, <1>11, <2>2, <2>3 DEF Target
  <2>5. CopyState(s)'
    BY <1>1, <1>2, <1>9, <1>11, <2>1, <2>2, <2>3, <2>4, WriteIsDue
  <2>6. prog' = [prog EXCEPT ![p] = s]
    BY <1>11
  <2> QED
    BY <1>8, <1>11, <2>1, <2>5, <2>6
<1> QED
  BY <1>4, <1>7, <1>10, <1>11

-----------------------------------------------------------------------------
(* chmod is no copy, and nobody else has its file open.                    *)
LEMMA SetPermissionCopies ==
    ASSUME CopyInv, NEW p \in Processes, SetPermission(p)
    PROVE  CopyInv'
<1> SUFFICES ASSUME NEW r, r = prog[p], NEW s, s = [r EXCEPT !.at = "closeDest"] PROVE CopyInv'
  OBVIOUS
<1>1. /\ FilesInv /\ ChainInv /\ Inv
      /\ r \in Program /\ InCommand(r) /\ InPlace(r) /\ CopyState(r)
      /\ \A g \in Handles : g \in HeldIn(r) => IsOpen(g)
  BY CopyFacts
<1>2. r.at = "chmod" /\ prog' = [prog EXCEPT ![p] = s]
  BY DEF SetPermission, Become
<1>3. s.at = "closeDest" /\ s.dest = r.dest
  BY <1>1 DEF Program
<1>4. r.dest \in Handles /\ r.dest \in HeldIn(r) /\ IsOpen(r.dest)
  BY <1>1, <1>2 DEF InPlace, HasDest, HeldIn, Copies
<1>5. FilesInv'
  BY <1>1, SetPermissionHolds
<1>6. Laid' /\ Leaves({r.dest}) /\ file' = file
  <2>1. CASE UNCHANGED filesystem
    BY <1>1, <2>1, NothingLeaves DEF filesystem
  <2>2. CASE Chmod(r.dest)
    BY <1>1, <1>4, <2>2, ChmodLeaves DEF CopyState, Chmod
  <2> QED
    BY <2>1, <2>2 DEF SetPermission
<1>7. CopyState(s)'
  BY <1>1, <1>3, <1>6, StateOver
<1>8. \A g \in {r.dest} : g \in HeldIn(prog[p]) \/ ~IsOpen(g)
  BY <1>4
<1> QED
  BY <1>2, <1>5, <1>6, <1>7, <1>8, CopyMoves

(* Closing leaves what is open besides.                                    *)
LEMMA CloseFileLeaves ==
    ASSUME ChainInv, NEW h, CloseFile(h)
    PROVE  Laid' /\ Leaves({h})
<1>1. CASE h \in Handles
  BY <1>1, ClosingLeaves DEF CloseFile
<1>2. CASE h \notin Handles
  BY <1>2, NothingLeaves DEF CloseFile, filesystem
<1> QED
  BY <1>1, <1>2

(* What NextName makes of a program.                                       *)
LEMMA NextNameIs ==
    ASSUME NEW r \in Program, NEW at \in Labels, NEW s, s = NextName(r, at)
    PROVE  \/ s.at = "idle" /\ s.dest = NoHandle
           \/ /\ s.at = at /\ s.src = r.src /\ s.dest = r.dest /\ s.due = r.due
              /\ s.ok = r.ok /\ s.cmd = r.cmd /\ r.i < Len(r.cmd.inputs)
<1>1. CASE r.i < Len(r.cmd.inputs)
  <2>1. s = [r EXCEPT !.at = at, !.i = r.i + 1]
    BY <1>1 DEF NextName
  <2> QED
    BY <1>1, <2>1 DEF Program
<1>2. CASE ~(r.i < Len(r.cmd.inputs))
  BY <1>2 DEF NextName, Idle
<1> QED
  BY <1>1, <1>2

(* A program without its source, and one without what it wrote to.         *)
SrcClosed(r) == [r EXCEPT !.src = NoHandle]
DestClosed(r) == [r EXCEPT !.dest = NoHandle]

(* cat and cp close their source; cat goes on with the next.               *)
LEMMA CloseSrcCopies ==
    ASSUME CopyInv, NEW p \in Processes, CloseSrc(p)
    PROVE  CopyInv'
<1> SUFFICES ASSUME NEW r, r = prog[p], NEW r0, r0 = SrcClosed(r),
                    NEW h, h = r.src
             PROVE  CopyInv'
  OBVIOUS
<1>1. /\ FilesInv /\ ChainInv /\ Inv
      /\ r \in Program /\ InCommand(r) /\ InPlace(r) /\ CopyState(r)
      /\ \A g \in Handles : g \in HeldIn(r) => IsOpen(g)
  BY CopyFacts
<1>2. /\ r.at = "closeSrc" /\ Copies(r) /\ (h \in Handles => h # r.dest /\ h \in HeldIn(r))
      /\ NoHandle \notin Handles
  BY <1>1, FileProgramsAssumption DEF CloseSrc, InPlace, HeldIn
<1>3. /\ r0 \in Program /\ r0.dest = r.dest /\ r0.due = r.due /\ r0.ok = r.ok /\ r0.cmd = r.cmd
      /\ r0.src = NoHandle
  BY <1>1 DEF Program, Descriptors, SrcClosed
<1>4. FilesInv'
  BY <1>1, CloseSrcHolds
<1>5. CloseFile(h)
  BY DEF CloseSrc
<1>6. Laid' /\ Leaves({h})
  BY <1>1, <1>5, CloseFileLeaves
<1>7. r.dest \in Handles => IsOpen(r.dest) /\ Undisturbed(r.dest)
  BY <1>1, <1>2, <1>6 DEF Leaves, HeldIn
<1>8. \/ r0.cmd.do = "cat" /\ r0.ok /\ prog' = [prog EXCEPT ![p] = NextName(r0, "openSrc")]
      \/ prog' = [prog EXCEPT ![p] = [r0 EXCEPT !.at = "closeDest"]]
  BY DEF CloseSrc, Become, SrcClosed
<1>9. ASSUME NEW s, prog' = [prog EXCEPT ![p] = s], CopyState(s)' PROVE CopyInv'
  <2>1. \A g \in {h} : g \in HeldIn(prog[p]) \/ ~IsOpen(g)
    <3>1. h \notin Handles => ~IsOpen(h)
      BY <1>1 DEF Inv, TypeOK, IsOpen, OpenIndices
    <3> QED
      BY <1>2, <3>1
  <2> QED
    BY <1>4, <1>6, <1>9, <2>1, CopyMoves
<1>10. ASSUME prog' = [prog EXCEPT ![p] = [r0 EXCEPT !.at = "closeDest"]] PROVE CopyInv'
  <2> SUFFICES ASSUME NEW s, s = [r0 EXCEPT !.at = "closeDest"] PROVE CopyInv'
    OBVIOUS
  <2>1. s.at = "closeDest" /\ s.dest = r.dest
    BY <1>3 DEF Program
  <2>2. CopyState(s)'
    BY <1>1, <1>7, <2>1, StateOver DEF Undisturbed
  <2> QED
    BY <1>9, <1>10, <2>2
<1>11. ASSUME r0.cmd.do = "cat", r0.ok, prog' = [prog EXCEPT ![p] = NextName(r0, "openSrc")]
       PROVE  CopyInv'
  <2> SUFFICES ASSUME NEW s, s = NextName(r0, "openSrc") PROVE CopyInv'
    OBVIOUS
  <2>1. \/ s.at = "idle" /\ s.dest = NoHandle
        \/ /\ s.at = "openSrc" /\ s.src = NoHandle /\ s.dest = r.dest /\ s.due = r.due
           /\ s.ok = r.ok /\ s.cmd = r.cmd
    <3>1. "openSrc" \in Labels
      BY DEF Labels
    <3> QED
      BY <1>3, <3>1, NextNameIs
  <2>2. CASE s.at = "idle" /\ s.dest = NoHandle
    <3>1. CopyState(s)'
      BY <1>2, <2>2, NothingToCopy
    <3> QED
      BY <1>9, <1>11, <3>1
  <2>3. CASE /\ s.at = "openSrc" /\ s.src = NoHandle /\ s.dest = r.dest /\ s.due = r.due
             /\ s.ok = r.ok /\ s.cmd = r.cmd
    <3>1. r.ok /\ r.cmd.do = "cat"
      BY <1>3, <1>11
    <3>2. Unwritten(r) = 0 /\ Unwritten(s)' = 0
      BY <1>2, <2>3 DEF Unwritten
    <3>3. r.dest \in Handles =>
              /\ Target(s)' = Target(r) /\ file'[s.dest] = file[r.dest]
              /\ dir'[file'[s.dest].entry].writable = dir[file[r.dest].entry].writable
      BY <1>7, <2>3 DEF Target, Undisturbed
    <3>4. r.dest \in Handles =>
              /\ r.due = Target(r) + Unwritten(r)
              /\ dir[file[r.dest].entry].writable => file[r.dest].offset = Target(r)
      BY <1>1, <1>2, <3>1 DEF CopyState, AddsUp
    <3>5. AddsUp(s)'
      BY <2>3, <3>2, <3>3, <3>4 DEF AddsUp
    <3>6. CopyState(s)'
      BY <1>1, <2>3, <3>1, <3>3, <3>5 DEF CopyState, Copies
    <3> QED
      BY <1>9, <1>11, <3>6
  <2> QED
    BY <2>1, <2>2, <2>3
<1> QED
  BY <1>8, <1>10, <1>11

(* A program that closes what it wrote to has nothing to account for.      *)
LEMMA CloseDestCopies ==
    ASSUME CopyInv, NEW p \in Processes, CloseDest(p)
    PROVE  CopyInv'
<1> SUFFICES ASSUME NEW r, r = prog[p], NEW r0, r0 = DestClosed(r),
                    NEW s, s = IF Copies(r0) THEN Idle ELSE NextName(r0, "openDest"),
                    NEW h, h = r.dest
             PROVE  CopyInv'
  OBVIOUS
<1>1. /\ FilesInv /\ ChainInv /\ Inv
      /\ r \in Program /\ InCommand(r) /\ InPlace(r) /\ CopyState(r)
      /\ \A g \in Handles : g \in HeldIn(r) => IsOpen(g)
  BY CopyFacts
<1>2. r0 \in Program /\ r0.dest = NoHandle /\ NoHandle \notin Handles
  BY <1>1, FileProgramsAssumption DEF Program, Descriptors, DestClosed
<1>3. FilesInv'
  BY <1>1, CloseDestHolds
<1>4. CloseFile(h) /\ prog' = [prog EXCEPT ![p] = s]
  BY DEF CloseDest, Become, DestClosed
<1>5. Laid' /\ Leaves({h})
  BY <1>1, <1>4, CloseFileLeaves
<1>6. CopyState(s)'
  <2>1. CASE Copies(r0)
    <3>1. s.at = "idle" /\ s.dest = NoHandle
      BY <2>1 DEF Idle
    <3> QED
      BY <1>2, <3>1, NothingToCopy
  <2>2. CASE ~Copies(r0)
    <3>1. "openDest" \in Labels /\ s = NextName(r0, "openDest")
      BY <2>2 DEF Labels
    <3>2. \/ s.at = "idle" /\ s.dest = NoHandle
          \/ s.at = "openDest" /\ s.dest = NoHandle /\ s.cmd = r0.cmd
      BY <1>2, <3>1, NextNameIs
    <3> QED
      BY <1>2, <2>2, <3>2, NothingToCopy DEF Copies
  <2> QED
    BY <2>1, <2>2
<1>7. \A g \in {h} : g \in HeldIn(prog[p]) \/ ~IsOpen(g)
  <2>1. h \notin Handles => ~IsOpen(h)
    BY <1>1 DEF Inv, TypeOK, IsOpen, OpenIndices
  <2> QED
    BY <2>1 DEF HeldIn
<1> QED
  BY <1>3, <1>4, <1>5, <1>6, <1>7, CopyMoves

(* rm leaves what is open as it is.                                        *)
LEMMA RemoveCopies ==
    ASSUME CopyInv, NEW p \in Processes, Remove(p)
    PROVE  CopyInv'
<1> SUFFICES ASSUME NEW r, r = prog[p], NEW s, s = NextName(r, "rm") PROVE CopyInv'
  OBVIOUS
<1>1. /\ FilesInv /\ ChainInv /\ Inv
      /\ r \in Program /\ InCommand(r) /\ InPlace(r) /\ CopyState(r)
  BY CopyFacts
<1>2. /\ r.at = "rm" /\ r.dest = NoHandle /\ ~Copies(r) /\ NoHandle \notin Handles
      /\ prog' = [prog EXCEPT ![p] = s]
  BY <1>1, FileProgramsAssumption DEF Remove, Become, InPlace, Copies
<1>3. FilesInv'
  BY <1>1, RemoveHolds
<1>4. Laid' /\ Leaves({})
  <2>1. CASE UNCHANGED filesystem
    BY <1>1, <2>1, NothingLeaves DEF filesystem
  <2>2. CASE Unlink(Input(r))
    <3>1. Input(r) \in Names
      BY <1>1, <1>2, InputsAreNames
    <3> QED
      BY <1>1, <2>2, <3>1, UnlinkLeaves
  <2> QED
    BY <2>1, <2>2 DEF Remove
<1>5. CopyState(s)'
  <2>1. "rm" \in Labels
    BY DEF Labels
  <2>2. s.dest = NoHandle /\ s.at \in {"idle", "rm"}
    BY <1>1, <1>2, <2>1, NextNameIs
  <2> QED
    BY <1>2, <2>2, NothingToCopy
<1> QED
  BY <1>2, <1>3, <1>4, <1>5, CopyMoves

(* So does mv between two names.                                           *)
LEMMA MoveCopies ==
    ASSUME CopyInv, NoSelfMove, NEW p \in Processes, Move(p)
    PROVE  CopyInv'
<1> SUFFICES ASSUME NEW r, r = prog[p], NEW s, s = Idle, NEW new, new = r.cmd.inputs[2]
             PROVE  CopyInv'
  OBVIOUS
<1>1. /\ FilesInv /\ ChainInv /\ Inv
      /\ r \in Program /\ InCommand(r) /\ InPlace(r) /\ CopyState(r)
  BY CopyFacts
<1>2. r.at = "mv" /\ r.cmd.do = "mv" /\ ~Copies(r) /\ prog' = [prog EXCEPT ![p] = s]
  BY <1>1 DEF Move, Become, InPlace, Copies
<1>3. FilesInv'
  BY <1>1, MoveHolds
<1>4. Laid' /\ Leaves({})
  <2>1. CASE UNCHANGED filesystem
    BY <1>1, <2>1, NothingLeaves DEF filesystem
  <2>2. CASE new \in ValidNames /\ Rename(Input(r), new)
    <3>1. Input(r) \in Names /\ new \in Names
      BY <1>1, <1>2, <2>2, InputsAreNames, FatAssumption
    <3>2. Input(r) # new
      BY <1>1, <1>2 DEF NoSelfMove, InCommand, Input, CopyState
    <3> QED
      BY <1>1, <2>2, <3>1, <3>2, RenamingLeaves
  <2> QED
    BY <2>1, <2>2 DEF Move
<1>5. CopyState(s)'
  <2>1. s.dest \notin Handles /\ s.at = "idle"
    BY FileProgramsAssumption DEF Idle
  <2> QED
    BY <2>1, NothingToCopy
<1> QED
  BY <1>2, <1>3, <1>4, <1>5, CopyMoves

(* A program that is killed copies no more.                                *)
LEMMA KillCopies ==
    ASSUME CopyInv, NEW p \in Processes, Kill(p)
    PROVE  CopyInv'
<1> SUFFICES ASSUME NEW r, r = prog[p], NEW s, s = [r EXCEPT !.at = "killed"] PROVE CopyInv'
  OBVIOUS
<1>1. /\ FilesInv /\ r \in Program /\ CopyState(r)
  BY CopyFacts
<1>2. /\ prog' = [prog EXCEPT ![p] = s] /\ UNCHANGED filesystem
  BY DEF Kill, Become
<1>3. FilesInv'
  BY <1>1, KillHolds
<1>4. s.at = "killed" /\ s.dest = r.dest /\ file' = file
  BY <1>1, <1>2 DEF Program, filesystem
<1>5. CopyState(s)'
  BY <1>1, <1>4, StateOver
<1> QED
  BY <1>2, <1>3, <1>5, CopyGoesOn

(* Nothing is copied while no program runs.                                *)
LEMMA RestingCopies ==
    ASSUME FilesInv', Laid', \A p \in Processes : prog'[p].at = "idle"
    PROVE  CopyInv'
<1>1. ASSUME NEW p \in Processes PROVE CopyState(prog[p])'
  <2>1. prog'[p].dest = NoHandle /\ prog'[p].at = "idle"
    BY DEF FilesInv, InPlace
  <2>2. \A s : s = prog'[p] => CopyState(s)'
    BY <2>1, NothingToCopy, FileProgramsAssumption
  <2> QED
    BY <2>2
<1> QED
  BY <1>1 DEF CopyInv

(* Every step of the programs and of the machine keeps the accounts.       *)
LEMMA CopyNextInv == NoSelfMove /\ CopyInv /\ [FilesNext]_allVars => CopyInv'
<1> SUFFICES ASSUME NoSelfMove, CopyInv, [FilesNext]_allVars PROVE CopyInv'
  OBVIOUS
<1>1. FilesInv /\ Laid /\ FilesInv'
  BY FilesNextInv DEF CopyInv
<1>2. ASSUME NEW p \in Processes, Start(p) PROVE CopyInv'
  BY <1>2, StartCopies
<1>3. ASSUME NEW p \in Processes, Step(p) PROVE CopyInv'
  BY <1>3, OpenSrcCopies, OpenDestCopies, ReadSrcCopies, WriteDestCopies, SetPermissionCopies,
     CloseSrcCopies, CloseDestCopies, RemoveCopies, MoveCopies DEF Step
<1>4. ASSUME NEW p \in Processes, Kill(p) PROVE CopyInv'
  BY <1>4, KillCopies
<1>5. CASE Mount \/ Restart
  <2>1. UNCHANGED <<fat, dir, fault>>
    BY <1>5 DEF Mount, Restart, Remount
  <2>2. Laid'
    BY <1>1, <2>1 DEF Laid, LaidOver
  <2>3. \A p \in Processes : prog'[p].at = "idle"
    BY <1>5 DEF Mount, Restart, Alone, Idle
  <2> QED
    BY <1>1, <2>2, <2>3, RestingCopies
<1>6. CASE Mkfs
  <2>1. fat' = FreshTable /\ dir' = EmptyBlock /\ fault' = fault
    BY <1>6 DEF Mkfs, FreshTable
  <2>2. Laid'
    BY <1>1, <2>1, FreshLaid DEF Laid, LaidOver
  <2>3. \A p \in Processes : prog'[p].at = "idle"
    BY <1>6 DEF Mkfs, Alone
  <2> QED
    BY <1>1, <2>2, <2>3, RestingCopies
<1>7. CASE Umount \/ UNCHANGED allVars
  <2>1. UNCHANGED <<fat, dir, file, fault>> /\ prog' = prog
    BY <1>7 DEF Umount, allVars, filesystem
  <2>2. Laid'
    BY <1>1, <2>1 DEF Laid, LaidOver
  <2>3. \A h : Undisturbed(h)
    BY <2>1 DEF Undisturbed
  <2>4. ASSUME NEW p \in Processes PROVE CopyState(prog[p])'
    <3>1. \A r : r = prog[p] => CopyState(r)'
      BY <2>3, StateSame DEF CopyInv
    <3> QED
      BY <2>1, <3>1
  <2> QED
    BY <1>1, <2>2, <2>4 DEF CopyInv
<1> QED
  BY <1>2, <1>3, <1>4, <1>5, <1>6, <1>7 DEF FilesNext

(* Nothing is copied in the image.                                         *)
LEMMA CopyInitInv == ImageLaid /\ FilesInit => CopyInv
<1> SUFFICES ASSUME ImageLaid, FilesInit PROVE CopyInv
  OBVIOUS
<1>1. FilesInv
  BY FilesInitInv
<1>2. Laid
  BY DEF FilesInit, ImageLaid, Laid, LaidOver
<1>3. ASSUME NEW p \in Processes PROVE CopyState(prog[p])
  <2>1. prog[p].dest = NoHandle /\ prog[p].at = "idle"
    BY DEF FilesInit, Idle
  <2> QED
    BY <2>1, FileProgramsAssumption DEF CopyState, AddsUp
<1> QED
  BY <1>1, <1>2, <1>3 DEF CopyInv

(* At the end of the source there is nothing left to write.                *)
LEMMA NothingMissing == CopyInv => CopyComplete
<1> SUFFICES ASSUME CopyInv, NEW p \in Processes, NEW r, r = prog[p],
                    r.at = "closeSrc", r.ok, r.dest \in Handles
             PROVE  Target(r) = r.due
  BY DEF CopyComplete, Target
<1>1. /\ Inv /\ InPlace(r) /\ CopyState(r)
      /\ \A h \in Handles : h \in HeldIn(r) => IsOpen(h)
  BY CopyFacts
<1>2. Target(r) \in Nat
  BY <1>1, OpenHandle DEF HeldIn, Target, Entry, Offsets
<1>3. Unwritten(r) = 0
  BY DEF Unwritten
<1>4. r.due = Target(r) + Unwritten(r)
  BY <1>1 DEF InPlace, CopyState, AddsUp
<1> QED
  BY <1>2, <1>3, <1>4

(* Copies are complete: when cat or cp has come to the end of its source   *)
(* without an error, it has written what there was to copy when it opened  *)
(* the files, whatever the other programs did to the filesystem between    *)
(* any two of its calls, and wherever the disk or an offset was at its     *)
(* limit, which ends the program with an error instead.                    *)
THEOREM CopiesAreComplete == NoSelfMove /\ ImageLaid => (FilesSpec => []CopyComplete)
<1> SUFFICES ASSUME NoSelfMove, ImageLaid PROVE FilesSpec => []CopyComplete
  OBVIOUS
<1>1. FilesInit => CopyInv
  BY CopyInitInv
<1>2. CopyInv /\ [FilesNext]_allVars => CopyInv'
  BY CopyNextInv
<1>3. CopyInv => CopyComplete
  BY NothingMissing
<1> QED
  BY <1>1, <1>2, <1>3, PTL DEF FilesSpec

(* Whatever the programs do, and in any interleaving of their calls, every *)
(* chain of the filesystem ends in the end mark and no two share a block,  *)
(* so no program ever reads or frees what is another file's.               *)
THEOREM ProgramsKeepChains == NoSelfMove /\ ImageLaid => (FilesSpec => []ChainsIntact)
<1> SUFFICES ASSUME NoSelfMove, ImageLaid PROVE FilesSpec => []ChainsIntact
  OBVIOUS
<1>1. FilesInit => CopyInv
  BY CopyInitInv
<1>2. CopyInv /\ [FilesNext]_allVars => CopyInv'
  BY CopyNextInv
<1>3. CopyInv => ChainsIntact
  BY OwnedIntact DEF CopyInv, FilesInv, Laid
<1> QED
  BY <1>1, <1>2, <1>3, PTL DEF FilesSpec
=============================================================================
