------------------------------ MODULE JobList ------------------------------
(***************************************************************************)
(* The shell's list of jobs (shell.c), at the level of its head and next   *)
(* pointers and its job numbers.  Module Kernel keeps a map from pid to    *)
(* status in the place of this list; here the processes are reduced to     *)
(* what the shell hears of them.                                           *)
(*                                                                         *)
(* A job is named by the pid of its process, NULL is 0.  fault records     *)
(* what the C code does instead of going on: "segv" for a dereference of   *)
(* NULL, "hang" for a walk round a cyclic list, "exit" for a p_exit of the *)
(* shell.                                                                  *)
(***************************************************************************)
EXTENDS Integers, Sequences, FiniteSetsExt, Functions

CONSTANTS MaxPid,     \* bound on pids: how many jobs are ever created
          Careful     \* whether the user avoids what the list cannot do

ASSUME JobListAssumption == MaxPid \in Nat \ {0} /\ Careful \in BOOLEAN

Pids == 1..MaxPid
NULL == 0
Statuses == {"RUNNING", "STOPPED"}            \* of a job

VARIABLES
    head, next,   \* the list: the first job, and each job's successor
    job,          \* pid -> JobNumber, status, bgFlag
    news,         \* changes of status p_waitpid(-1) has yet to report, in order
    proc,         \* pid -> what its process does
    at,           \* where pennShell is: "poll" or "command"
    fault

list == <<head, next, job>>
vars == <<list, news, proc, at, fault>>

NoJob == [number |-> 0, status |-> "RUNNING", bg |-> FALSE]

Init ==
    /\ head = NULL
    /\ next = [p \in Pids |-> NULL]
    /\ job = [p \in Pids |-> NoJob]
    /\ news = <<>>
    /\ proc = [p \in Pids |-> "none"]
    /\ at = "command"
    /\ fault = "none"

-----------------------------------------------------------------------------
(* Walking the list: nth[i] is the i-th job.                               *)
nth == LET walk[i \in 1..MaxPid + 1] ==
               IF i = 1 THEN head
               ELSE IF walk[i - 1] = NULL THEN NULL ELSE next[walk[i - 1]]
       IN  walk
Cyclic == nth[MaxPid + 1] # NULL
Positions == {i \in 1..MaxPid : nth[i] # NULL}
Listed == {nth[i] : i \in Positions}
number(p) == job[p].number

(* addJob: the number the new job p gets and where it is linked.  Gaps are *)
(* looked for from the second job on, and are wherever two numbers do not  *)
(* follow one another; if the second is not larger the job is dropped.  A  *)
(* job that fills a gap becomes its own successor, because the link to     *)
(* what follows is read after it has been overwritten.                     *)
Step(i) == number(nth[i + 1]) - number(nth[i])
Gaps == {i \in Positions \ {1, Max(Positions)} : Step(i) # 1}
BeforeNew == nth[IF Gaps = {} THEN Max(Positions) ELSE Min(Gaps)]

Bug_SkipsNumber(p) == number(p) + 2
Bug_CountsJobs(p) == Cardinality(Listed)
NumberAfter(p) == number(p) + 1

addJob(p, new) ==
    LET Numbered(n) == job' = [job EXCEPT ![p] = [new EXCEPT !.number = n]]
        first  == head = NULL
        second == Positions = {1}
        before == ~first /\ ~second /\ number(head) > 1
        after  == ~first /\ ~second /\ ~before
        drops  == Gaps # {} /\ Step(Min(Gaps)) < 1
    IN  IF after /\ Cyclic /\ Gaps = {}
        THEN fault' = "hang" /\ UNCHANGED list
        ELSE /\ \/ first  /\ head' = p /\ Numbered(1) /\ UNCHANGED next
                \/ second /\ next' = [next EXCEPT ![head] = p] /\ Numbered(2)
                          /\ UNCHANGED head
                \/ before /\ next' = [next EXCEPT ![p] = head] /\ head' = p
                          /\ Numbered(1)
                \/ after  /\ drops /\ UNCHANGED list
                \/ after  /\ ~drops /\ next' = [next EXCEPT ![BeforeNew] = p,
                                                  ![p] = IF Gaps = {} THEN NULL ELSE p]
                          /\ Numbered(NumberAfter(BeforeNew)) /\ UNCHANGED head
             /\ UNCHANGED fault

(* Where the jobs of a number are, behind the head.                        *)
Behind(n) == {i \in Positions \ {1} : number(nth[i]) = n}

(* removeJob: the first job of that number is cut out of the list.         *)
Bug_WithoutRelinking(n) == next
Bug_CutsRest(n) ==
    LET found == Behind(n)
    IN  IF number(head) = n \/ found = {} THEN next
        ELSE [next EXCEPT ![nth[Min(found) - 1]] = NULL]
NextWithout(n) ==
    LET found == Behind(n)
    IN  IF number(head) = n \/ found = {} THEN next
        ELSE [next EXCEPT ![nth[Min(found) - 1]] = next[nth[Min(found)]]]
removeJob(n) ==
    /\ head' = IF number(head) = n THEN next[head] ELSE head
    /\ next' = NextWithout(n)

(* getJob: number 1 is the head, whatever its number; any other number is  *)
(* looked for behind the head, and if it is not there the shell exits.     *)
getJob(n) == IF n = 1 THEN head
             ELSE IF Behind(n) # {} THEN nth[Min(Behind(n))] ELSE NULL

(* getCurrentJob: the last stopped job, or the last background job.        *)
Bug_FirstStopped(S) == nth[Min(S)]
LastOf(S) == nth[Max(S)]
getCurrentJob ==
    LET stopped == {i \in Positions : job[nth[i]].status = "STOPPED"}
        inBg    == {i \in Positions : job[nth[i]].bg}
    IN  CASE Positions = {1} -> number(head)
          [] Positions # {1} /\ stopped # {} -> number(LastOf(stopped))
          [] Positions # {1} /\ stopped = {} /\ inBg # {} -> number(LastOf(inBg))
          [] OTHER -> 0

(* changeStatus and changeFGBG: every job of that number behind the head,  *)
(* or the head for number 1.                                               *)
Changed(n) == IF n = 1 THEN {head} ELSE {nth[i] : i \in Behind(n)}
Change(n, status, bg) ==
    job' = [p \in Pids |-> IF p \in Changed(n)
                           THEN [job[p] EXCEPT !.status = status, !.bg = bg]
                           ELSE job[p]]

-----------------------------------------------------------------------------
(* A careful user adds no job while a gap in the numbers makes addJob use  *)
(* a number twice or lose the list, names no job getJob cannot find, and   *)
(* none whose process has ended.                                           *)
CanAdd == \/ head = NULL
          \/ Positions = {1} /\ number(head) = 1
          \/ 2 \in Positions /\ (number(head) > 1 \/ Gaps = {})
CanName(n) == /\ \E p \in Listed : number(p) = n /\ getJob(n) = p
              /\ proc[getJob(n)] # "TERMINATED"

Command == at = "command" /\ fault = "none" /\ at' = "poll"

Unused(p) == proc[p] = "none" /\ \A q \in 1..p - 1 : proc[q] # "none"

(* A command line that ends in &.                                          *)
RunInBackground(p) ==
    /\ Command /\ Unused(p)
    /\ Careful => CanAdd
    /\ proc' = [proc EXCEPT ![p] = "RUNNING"]
    /\ addJob(p, [number |-> 0, status |-> "RUNNING", bg |-> TRUE])
    /\ UNCHANGED news

(* A foreground command that is stopped becomes a job.                     *)
RunAndStop(p) ==
    /\ Command /\ Unused(p)
    /\ Careful => CanAdd
    /\ proc' = [proc EXCEPT ![p] = "STOPPED"]
    /\ addJob(p, [number |-> 0, status |-> "STOPPED", bg |-> TRUE])
    /\ UNCHANGED news

(* A command the shell does not survive.                                   *)
Fails(how) == fault' = how /\ UNCHANGED <<list, news, proc>>

(* The number a bg or fg is given, or none: 0 stands for one that no job   *)
(* has.                                                                    *)
NoNumber == -1
Arguments == 0..MaxPid \cup {NoNumber}
Number(arg) == IF arg = NoNumber THEN getCurrentJob ELSE arg
SearchHangs(arg) == Cyclic /\ (arg = NoNumber \/ getJob(arg) = NULL)

(* bg: only a stopped job is changed.                                      *)
Bg(arg) ==
    /\ Command /\ head # NULL
    /\ Careful => CanName(Number(arg))
    /\ LET n == Number(arg)
           p == getJob(n)
       IN  CASE SearchHangs(arg) -> Fails("hang")
             [] ~SearchHangs(arg) /\ p = NULL -> Fails("exit")
             [] ~SearchHangs(arg) /\ p # NULL /\ job[p].status = "STOPPED" ->
                    IF Cyclic THEN Fails("hang")
                    ELSE /\ Change(n, "RUNNING", TRUE)
                         /\ proc' = [proc EXCEPT ![p] = IF @ = "STOPPED" THEN "RUNNING" ELSE @]
                         /\ UNCHANGED <<head, next, news, fault>>
             [] OTHER -> UNCHANGED <<list, news, proc, fault>>

(* A process no queue of the kernel holds: p_waitpid dereferences NULL.    *)
Vanished(p) == proc[p] = "TERMINATED" /\ p \notin Range(news)

(* fg: the job leaves the list before the shell waits for its process,     *)
(* which ends or stops, or has ended and is still in a queue.              *)
Fg(arg) ==
    /\ Command /\ head # NULL
    /\ Careful => CanName(Number(arg))
    /\ LET n == Number(arg)
           p == getJob(n)
       IN  CASE SearchHangs(arg) \/ (p # NULL /\ Cyclic) -> Fails("hang")
             [] ~Cyclic /\ p = NULL -> Fails("exit")
             [] ~Cyclic /\ p # NULL /\ Vanished(p) -> Fails("segv")
             [] OTHER ->
                    /\ \E outcome \in {"STOPPED", "TERMINATED"} :
                          /\ proc[p] = "TERMINATED" => outcome = proc[p]
                          /\ proc' = [proc EXCEPT ![p] = outcome]
                          /\ Change(n, IF outcome = "STOPPED" THEN outcome ELSE "RUNNING", FALSE)
                    /\ removeJob(number(p))
                    /\ UNCHANGED <<news, fault>>

(* jobs, which walks the list; any other command is like it for the list. *)
OtherCommand == /\ Command
                /\ fault' = IF Cyclic THEN "hang" ELSE fault
                /\ UNCHANGED <<list, news, proc>>

(* One turn of pennShell's polling loop.  A change is acted on if the      *)
(* shell thinks the job runs; a job that is not there is dereferenced.     *)
Poll ==
    /\ at = "poll" /\ fault = "none"
    /\ IF head = NULL \/ news = <<>>
       THEN at' = "command" /\ UNCHANGED <<list, news, fault>>
       ELSE LET p == Head(news) IN
            /\ news' = Tail(news)
            /\ UNCHANGED at
            /\ IF p \notin Listed
               THEN fault' = (IF Cyclic THEN "hang" ELSE "segv") /\ UNCHANGED list
               ELSE /\ UNCHANGED fault
                    /\ CASE job[p].status = "RUNNING" /\ proc[p] = "STOPPED" ->
                                job' = [job EXCEPT ![p].status = "STOPPED"]
                                /\ UNCHANGED <<head, next>>
                         [] job[p].status = "RUNNING" /\ proc[p] # "STOPPED" ->
                                removeJob(number(p)) /\ UNCHANGED job
                         [] OTHER -> UNCHANGED list
    /\ UNCHANGED proc

(* A process ends or is killed.  A stopped one that is killed does not     *)
(* become a zombie, so the shell does not hear of it.                      *)
Ends(p) ==
    /\ fault = "none"
    /\ proc[p] \in {"RUNNING", "STOPPED"}
    /\ proc' = [proc EXCEPT ![p] = "TERMINATED"]
    /\ news' = IF proc[p] = "RUNNING" THEN Append(news, p) ELSE news
    /\ UNCHANGED <<list, at, fault>>

Next ==
    \/ \E p \in Pids : RunInBackground(p) \/ RunAndStop(p)
    \/ \E arg \in Arguments : Bg(arg) \/ Fg(arg)
    \/ OtherCommand \/ Poll
    \/ \E p \in Pids : Ends(p)

Spec == Init /\ [][Next]_vars
=============================================================================
