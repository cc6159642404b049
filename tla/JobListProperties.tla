-------------------------- MODULE JobListProperties --------------------------
(***************************************************************************)
(* What the job list promises: the properties of module JobList.           *)
(***************************************************************************)
EXTENDS JobList

(* The types of the variables.                                             *)
TypeOK ==
    /\ head \in Pids \cup {NULL}
    /\ next \in [Pids -> Pids \cup {NULL}]
    /\ job \in [Pids -> [number : 0..MaxPid, status : Statuses, bg : BOOLEAN]]
    /\ news \in Seq(Pids)
    /\ proc \in [Pids -> {"none", "RUNNING", "STOPPED", "TERMINATED"}]
    /\ at \in {"poll", "command"}
    /\ fault \in {"none", "segv", "hang", "exit"}

(* The list ends, and the numbers grow along it: the loop of addJob that   *)
(* looks for a gap, and every search for a number, rely on it.  No command *)
(* of a careful user ends the shell.                                       *)
ListIntact ==
    /\ fault = "none"
    /\ ~Cyclic
    /\ \A i, j \in Positions : i < j => number(nth[i]) < number(nth[j])

(* The shell and the news agree: what polling is going to report is a job  *)
(* of the list that the shell thinks is running, reported once; a process  *)
(* that has ended otherwise is a job the shell thinks is stopped.          *)
NewsHasJob ==
    /\ \A i, j \in DOMAIN news : news[i] = news[j] => i = j
    /\ \A p \in Range(news) : p \in Listed /\ job[p].status = "RUNNING"
    /\ \A p \in Listed \ Range(news) :
          job[p].status = "STOPPED" <=> proc[p] \in {"STOPPED", "TERMINATED"}

(* Without a number, bg and fg are about the job stopped last, or the last *)
(* one when none is stopped.                                               *)
CurrentIsLast ==
    head # NULL /\ next[head] # NULL =>
        LET stopped == {p \in Listed : job[p].status = "STOPPED"}
            among == IF stopped = {} THEN Listed ELSE stopped
        IN  getCurrentJob = Max({number(p) : p \in among})

(* The table without its links: numbers refer to jobs.                     *)
ByNumber(n) == CHOOSE p \in Listed : number(p) = n
Jobs == [n \in {number(p) : p \in Listed} |->
            [pid |-> ByNumber(n), status |-> job[ByNumber(n)].status]]
Table == INSTANCE JobTable WITH table <- Jobs

(* The linked list implements the table: adding a job takes no other job's *)
(* number and loses no job, and fg, bg and polling change or remove the    *)
(* one job they are about.  A pid is a job once.                           *)
ImplementsJobTable == Table!Spec

(* A gap in the numbers is filled "and both ends of the new job" are       *)
(* linked: no command makes the list endless.                              *)
GapsAreLinked == ~Cyclic
=============================================================================
