------------------------------ MODULE JobTable ------------------------------
(***************************************************************************)
(* What the shell's job list promises the user: a job has a number no      *)
(* other job has, keeps it until it leaves the table, and a command that   *)
(* names a number is about that job and no other.                          *)
(***************************************************************************)
EXTENDS Naturals

CONSTANTS Pids,       \* processes
          Statuses    \* what the shell knows of a job's process

VARIABLE table        \* job number -> process and status

Numbers == DOMAIN table
Listed(p) == \E n \in Numbers : table[n].pid = p

Init == table = [n \in {} |-> 0]

(* A job gets a number that is not in use, and gets no one else's.         *)
Add(p, status) ==
    /\ ~Listed(p)
    /\ \E n \in DOMAIN table' \ Numbers :
          table' = [m \in Numbers \cup {n} |->
                      IF m = n THEN [pid |-> p, status |-> status] ELSE table[m]]

SetStatus(n, status) == table' = [table EXCEPT ![n].status = status]

Remove(n) == table' = [m \in Numbers \ {n} |-> table[m]]

Next == \/ \E p \in Pids, status \in Statuses : Add(p, status)
        \/ \E n \in Numbers, status \in Statuses : SetStatus(n, status)
        \/ \E n \in Numbers : Remove(n)

Spec == Init /\ [][Next]_table
=============================================================================
