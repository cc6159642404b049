------------------------------ MODULE FileLocks ------------------------------
(***************************************************************************)
(* What the filesystem promises its callers, without tables, entries and   *)
(* lists: names refer to files, handles refer to files.  Any number of     *)
(* readers or one writer have a file open; a name that is removed or given *)
(* to another file leaves the handles alone; a new file is one that no     *)
(* name and no handle refers to.                                           *)
(***************************************************************************)
CONSTANTS Names,     \* file names
          Handles,   \* what opening a file returns
          Files,     \* identities of files
          NoFile     \* a name without a file, a handle that is not open

Modes == {"F_READ", "F_WRITE", "F_APPEND"}

VARIABLES named,     \* name -> file
          held       \* handle -> file and mode

vars == <<named, held>>

Closed == [file |-> NoFile, mode |-> "F_READ"]
Open == {h \in Handles : held[h] # Closed}
Used == {named[n] : n \in Names} \cup {held[h].file : h \in Open}

Init == /\ named = [n \in Names |-> NoFile]
        /\ held = [h \in Handles |-> Closed]

(* A reader excludes writers, a writer everyone.                           *)
Excluded(f, mode) ==
    \E h \in Open : held[h].file = f /\ (held[h].mode # "F_READ" \/ mode # "F_READ")

Grant(h, f, mode) == /\ held[h] = Closed
                     /\ held' = [held EXCEPT ![h] = [file |-> f, mode |-> mode]]

OpenFile(h, n, mode) ==
    /\ named[n] # NoFile
    /\ Grant(h, named[n], mode)
    /\ ~Excluded(named[n], mode)
    /\ UNCHANGED named

(* named'[n] is any file that is not in use.                               *)
Create(h, n, mode) ==
    /\ named[n] = NoFile /\ mode # "F_READ"
    /\ named'[n] \in Files \ Used
    /\ named' = [named EXCEPT ![n] = named'[n]]
    /\ Grant(h, named'[n], mode)

Close(h) == /\ held[h] # Closed
            /\ held' = [held EXCEPT ![h] = Closed]
            /\ UNCHANGED named

Unlink(n) == /\ named[n] # NoFile
             /\ named' = [named EXCEPT ![n] = NoFile]
             /\ UNCHANGED held

Rename(old, new) ==
    /\ named[old] # NoFile
    /\ named' = [named EXCEPT ![old] = NoFile, ![new] = named[old]]
    /\ UNCHANGED held

(* The filesystem is unmounted, or the machine stops: the names stay.      *)
Restart == /\ held' = [h \in Handles |-> Closed]
           /\ UNCHANGED named

Next ==
    \/ \E h \in Handles, n \in Names, mode \in Modes :
           OpenFile(h, n, mode) \/ Create(h, n, mode)
    \/ \E h \in Handles : Close(h)
    \/ \E n \in Names : Unlink(n)
    \/ \E old, new \in Names : Rename(old, new)
    \/ Restart

Spec == Init /\ [][Next]_vars
=============================================================================
