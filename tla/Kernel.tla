------------------------------- MODULE Kernel -------------------------------
(***************************************************************************)
(* PennOS as a running system: the shell, the programs it starts, the      *)
(* timer and the keyboard, all on one host thread.                         *)
(*                                                                         *)
(* One ucontext runs at a time.  The host's SIGALRM may arrive at any      *)
(* instruction of it and hands the thread to the scheduler; SIGINT and     *)
(* SIGTSTP run their handler on top of it.  pc[p] is where process p will  *)
(* go on.  The instructions at which a signal makes a difference are       *)
(* labels of their own, and PreemptPoints and KeyPoints say at which of    *)
(* them an instance lets the timer and the keyboard in.                    *)
(***************************************************************************)
EXTENDS KernelCalls, FiniteSets

CONSTANTS Menu,           \* the command lines the user may type
          PreemptPoints,  \* labels at which SIGALRM may arrive
          KeyPoints,      \* labels at which a key may arrive
          PatientUser     \* whether keys and commands come at quiet times only

ShellLabels == {"read", "poll", "exec", "nice", "wait", "waitBlock",
                "waitYield", "waitResume"}
ProgramLabels == {"user", "sleepBlock", "sleepYield", "sleepResume", "spin"}
Labels == ShellLabels \cup ProgramLabels \cup {"none", "exit", "dead"}
Points == Labels \cup {"idle"}     \* "idle": the context for when all work is blocked

ASSUME PointsAssumption == /\ PreemptPoints \subseteq Points
                           /\ KeyPoints \subseteq Points
                           /\ PatientUser \in BOOLEAN

VARIABLES
    kern,           \* queues and process control blocks (ProcQueues)
    pidCounter,     \* the next pid
    activeProcess,  \* the process the kernel believes is running
    activeContext,  \* the context that is running: a pid, Idle or Halted
    listPointer,    \* position in schedulerList
    fgpid,          \* the foreground process; 1, the shell, when there is none
    curr_pid,       \* the process the shell started last
    IS_BG,          \* whether new processes are background processes
    retFlag,        \* set by man and logout
    flag_spaces,    \* set by a blank line
    jobs,           \* the job list: pid -> status the shell has for the job
    cmd,            \* the command line the shell is at
    prog,           \* the program each process runs
    pc              \* where each process goes on

globals == <<fgpid, curr_pid, IS_BG, retFlag, flag_spaces, jobs, cmd>>
vars == <<kern, pidCounter, activeProcess, activeContext, listPointer, globals,
          prog, pc>>

Shell == 1
Idle == 0
Halted == -1
Contexts == Pids \cup {Idle, Halted}

Programs == [kind : {"echo", "busy", "sleep", "kill", "zombify", "orphanify"},
             ticks : Nat, signal : {"S_SIGTERM", "S_SIGSTOP", "S_SIGCONT"},
             pid : Pids]
NoProgram == [kind |-> "echo", ticks |-> 0, signal |-> "S_SIGTERM", pid |-> 1]
NoCommand == [op |-> "none"]

(* The label a program starts at.  echo has no effect on the kernel, nor   *)
(* has any program that only prints: it runs straight to its end.          *)
EntryLabel(program) == CASE program.kind = "echo" -> "exit"
                         [] program.kind = "busy" -> "spin"
                         [] OTHER                 -> "user"

(* main has spawned the shell, installed the handlers, started the timer   *)
(* and entered the scheduler, which has chosen the shell.                  *)
Init ==
    /\ kern = [head  |-> [q \in Queues |-> IF q = "high" THEN Shell ELSE NULL],
               tail  |-> [q \in Queues |-> IF q = "high" THEN Shell ELSE NULL],
               next  |-> [p \in Pids |-> NULL],
               pcb   |-> [p \in Pids |-> createPcb(Shell, -1, FALSE)],
               fault |-> "none"]
    /\ pidCounter = 2
    /\ activeProcess = Shell
    /\ activeContext = Shell
    /\ listPointer = 1
    /\ fgpid = 1
    /\ curr_pid = 0
    /\ IS_BG = FALSE
    /\ retFlag = FALSE
    /\ flag_spaces = FALSE
    /\ jobs = <<>>
    /\ cmd = NoCommand
    /\ prog = [p \in Pids |-> NoProgram]
    /\ pc = [p \in Pids |-> IF p = Shell THEN "read" ELSE "none"]

-----------------------------------------------------------------------------
(* scheduler(): give the thread to the head of the first queue the list    *)
(* finds work in, to the idle context when all work is blocked, or end.    *)
Dispatch(k) ==
    IF Faulty(k)
    THEN kern' = k /\ UNCHANGED <<activeProcess, activeContext, listPointer>>
    ELSE IF NothingReady(k)
    THEN /\ kern' = k
         /\ activeContext' = IF k.head["blocked"] = NULL THEN Halted ELSE Idle
         /\ UNCHANGED <<activeProcess, listPointer>>
    ELSE    LET n    == SkippedSlots(k, listPointer)
                q    == SlotQueue(listPointer, n)
                next == k.head[q]
            IN  /\ kern' = Rotate([k EXCEPT !.pcb[next].status = "RUNNING"], q)
                /\ activeProcess' = next
                /\ activeContext' = next
                /\ listPointer' = NextPosition(listPointer, n)

-----------------------------------------------------------------------------
(* Running p at label: its context has the thread.                         *)
At(p, label) == activeContext = p /\ pc[p] = label /\ ~Faulty(kern)
Goto(p, label) == pc' = [pc EXCEPT ![p] = label]

(* A step of process p that keeps the thread.                              *)
KeepsThread == UNCHANGED <<activeProcess, activeContext, listPointer>>

Spawn(p, program, isBg) ==
    /\ pidCounter \in Pids
    /\ kern' = p_spawn(kern, p, pidCounter, isBg)
    /\ prog' = [prog EXCEPT ![pidCounter] = program]
    /\ pidCounter' = pidCounter + 1

SpawnCount(c) == IF c.op # "run" THEN 0
                 ELSE IF c.program.kind \in {"zombify", "orphanify"} THEN 2 ELSE 1

(* Pids spoken for by programs that have yet to spawn their child.         *)
Reserved == Cardinality({p \in Pids : /\ pc[p] = "user"
                                      /\ prog[p].kind \in {"zombify", "orphanify"}})

Ended == {"TERMINATED", "SIG_TERMINATED"}

(* The user types a command.  The bound on pids ends the session's supply  *)
(* of new processes, not the session.  A patient user who has logged out   *)
(* types nothing more in the rest of the shell's last quantum.             *)
Type(c) ==
    /\ At(Shell, "read")
    /\ PatientUser => kern.pcb[Shell].status \notin Ended
    /\ pidCounter + Reserved + SpawnCount(c) <= MaxPid + 1
    /\ cmd' = c
    /\ Goto(Shell, "poll")
    /\ KeepsThread
    /\ UNCHANGED <<kern, pidCounter, fgpid, curr_pid, IS_BG, retFlag,
                   flag_spaces, jobs, prog>>

(* The childPids entry of a child that has been waited for.                *)
Forget(k, p, child) ==
    LET kids == k.pcb[p].childPids
        mine == {i \in DOMAIN kids : kids[i] = child}
    IN  IF mine = {} THEN k
        ELSE [k EXCEPT !.pcb[p].childPids[Min(mine)] = Reaped]

(* pennShell's poll: p_waitpid(-1, nohang) reaps the head of the zombie    *)
(* queue, whoever's child it is; the shell then looks for the job, and     *)
(* reads the status of the job it has found, or of no job at all.          *)
ReapZombie(z) ==
    LET status == kern.pcb[z].status
        k1 == [kern EXCEPT !.pcb[z].changedStatus = FALSE]
        k2 == Forget(dequeueZombie(k1, z), Shell, z)
        reported == status \in Ended \cup {"STOPPED"}
        known    == z \in DOMAIN jobs
    IN  /\ kern' = IF reported /\ ~known THEN Fault(k2, "segv") ELSE k2
        /\ jobs' = CASE known /\ jobs[z] = "RUNNING" /\ status \in Ended ->
                            [p \in DOMAIN jobs \ {z} |-> jobs[p]]
                     [] known /\ jobs[z] = "RUNNING" /\ status = "STOPPED" ->
                            [jobs EXCEPT ![z] = "STOPPED"]
                     [] OTHER -> jobs

Poll ==
    /\ At(Shell, "poll")
    /\ IF DOMAIN jobs = {} \/ kern.head["zombie"] = NULL
       THEN Goto(Shell, "exec") /\ UNCHANGED <<kern, jobs>>
       ELSE ReapZombie(kern.head["zombie"]) /\ UNCHANGED pc
    /\ KeepsThread
    /\ UNCHANGED <<pidCounter, fgpid, curr_pid, IS_BG, retFlag, flag_spaces,
                   cmd, prog>>

(* A line of blanks; once one has been typed every line is taken for one.  *)
BlankLine ==
    /\ At(Shell, "exec")
    /\ cmd.op = "blank" \/ flag_spaces
    /\ flag_spaces' = TRUE
    /\ Goto(Shell, "read")
    /\ KeepsThread
    /\ UNCHANGED <<kern, pidCounter, fgpid, curr_pid, IS_BG, retFlag, jobs,
                   cmd, prog>>

(* End of input: pennShell returns and its context ends.                   *)
EndOfInput ==
    /\ At(Shell, "exec")
    /\ cmd.op = "eof" /\ ~flag_spaces
    /\ Goto(Shell, "exit")
    /\ KeepsThread
    /\ UNCHANGED <<kern, pidCounter, globals, prog>>

(* pennShredder starts here.                                               *)
Shred(op) == /\ At(Shell, "exec")
             /\ cmd.op = op /\ ~flag_spaces
             /\ IS_BG' = (op = "run" /\ cmd.bg)
             /\ KeepsThread
             /\ UNCHANGED <<cmd, flag_spaces>>

(* bg: a stopped job goes on in the background.                            *)
BgBuiltin ==
    /\ Shred("bg")
    /\ \/ \E j \in DOMAIN jobs :
             /\ jobs[j] = "STOPPED"
             /\ jobs' = [jobs EXCEPT ![j] = "RUNNING"]
             /\ kern' = p_kill(kern, j, "S_SIGCONT", fgpid)
       \/ /\ \A j \in DOMAIN jobs : jobs[j] # "STOPPED"
          /\ UNCHANGED <<kern, jobs>>
    /\ Goto(Shell, "read")
    /\ UNCHANGED <<pidCounter, fgpid, curr_pid, retFlag, prog>>

(* fg: a job leaves the job list, is continued and waited for.             *)
FgBuiltin ==
    /\ Shred("fg")
    /\ IF DOMAIN jobs = {}
       THEN Goto(Shell, "read") /\ UNCHANGED <<kern, jobs, fgpid, curr_pid>>
       ELSE \E j \in DOMAIN jobs :
                /\ fgpid' = j
                /\ curr_pid' = j
                /\ kern' = p_kill(kern, j, "S_SIGCONT", j)
                /\ jobs' = [p \in DOMAIN jobs \ {j} |-> jobs[p]]
                /\ Goto(Shell, "wait")
    /\ UNCHANGED <<pidCounter, retFlag, prog>>

(* nice_pid priority pid                                                   *)
NicePid ==
    /\ Shred("nice_pid")
    /\ kern' = p_nice(kern, cmd.pid, cmd.priority)
    /\ Goto(Shell, "read")
    /\ UNCHANGED <<pidCounter, fgpid, curr_pid, retFlag, jobs, prog>>

(* logout cleans the shell itself up and returns into it; man only prints. *)
(* Both set retFlag, which nothing resets.                                 *)
LogoutOrMan ==
    /\ \/ Shred("logout") /\ kern' = k_process_cleanup(kern, Shell)
       \/ Shred("man") /\ UNCHANGED kern
    /\ retFlag' = TRUE
    /\ Goto(Shell, "read")
    /\ UNCHANGED <<pidCounter, fgpid, curr_pid, jobs, prog>>

(* The job list with process p entered in it.                              *)
Filed(p, status) == [j \in DOMAIN jobs \cup {p} |->
                        IF j \in DOMAIN jobs THEN jobs[j] ELSE status]

(* A command line that starts a program: shellBFunc spawns it ...          *)
RunProgram ==
    /\ Shred("run")
    /\ Spawn(Shell, cmd.program, cmd.bg)
    /\ curr_pid' = pidCounter
    /\ pc' = [pc EXCEPT ![Shell] = "nice",
                        ![pidCounter] = EntryLabel(cmd.program)]
    /\ UNCHANGED <<fgpid, retFlag, jobs>>

(* ... a nice prefix then changes its priority, and the new process        *)
(* becomes the foreground process or a background job.                     *)
Launch ==
    /\ At(Shell, "nice")
    /\ kern' = IF cmd.niced THEN p_nice(kern, curr_pid, cmd.priority) ELSE kern
    /\ CASE retFlag -> Goto(Shell, "read") /\ UNCHANGED <<jobs, fgpid>>
         [] ~retFlag /\ IS_BG ->
                /\ jobs' = Filed(curr_pid, "RUNNING")
                /\ Goto(Shell, "read")
                /\ UNCHANGED fgpid
         [] ~retFlag /\ ~IS_BG ->
                /\ fgpid' = curr_pid
                /\ Goto(Shell, "wait")
                /\ UNCHANGED jobs
    /\ KeepsThread
    /\ UNCHANGED <<pidCounter, curr_pid, IS_BG, retFlag, flag_spaces, cmd, prog>>
-----------------------------------------------------------------------------
(* p_waitpid(curr_pid, hang), in the steps a signal can come between.      *)

(* What the shell does with the status of its foreground process: only the *)
(* command that started a process files it as a job when it has stopped,   *)
(* the fg builtin does not.                                                *)
Bug_FiledAsRunning(status) ==
    /\ jobs' = IF status = "STOPPED" /\ cmd.op = "run"
               THEN Filed(curr_pid, "RUNNING") ELSE jobs
    /\ fgpid' = 1
    /\ Goto(Shell, "read")
AfterWait(status) ==
    /\ jobs' = IF status = "STOPPED" /\ cmd.op = "run"
               THEN Filed(curr_pid, "STOPPED") ELSE jobs
    /\ fgpid' = 1
    /\ Goto(Shell, "read")

(* Collecting a change of status; a stopped child stays a child.           *)
Collect(k, child) ==
    LET k1 == [k EXCEPT !.pcb[child].changedStatus = FALSE]
    IN  IF k.pcb[child].status = "STOPPED" THEN k1 ELSE Forget(k1, Shell, child)

WaitUnchanged == UNCHANGED <<pidCounter, curr_pid, IS_BG, retFlag, flag_spaces,
                             cmd, prog>>

(* The call looks its child up and dereferences what it has found.  It     *)
(* returns at once if the child has changed status since it was last       *)
(* asked about; otherwise the shell leaves its ready queue ...             *)
Wait ==
    /\ At(Shell, "wait")
    /\ LET child == findProcessByPid(kern, curr_pid)
           k0    == Search(kern, curr_pid)
           k1    == OnProcess(k0, child, k0)
       IN  IF Faulty(k1) THEN kern' = k1 /\ UNCHANGED <<jobs, fgpid, pc>>
           ELSE IF kern.pcb[child].changedStatus
           THEN /\ kern' = Collect(kern, child)
                /\ AfterWait(kern.pcb[child].status)
           ELSE /\ kern' = dequeue([kern EXCEPT !.pcb[Shell].waitChild = child], Shell)
                /\ Goto(Shell, "waitBlock")
                /\ UNCHANGED <<jobs, fgpid>>
    /\ KeepsThread
    /\ WaitUnchanged

(* ... enters the blocked queue ...                                        *)
WaitBlock ==
    /\ At(Shell, "waitBlock")
    /\ kern' = enqueueBlocked(kern, Shell)
    /\ Goto(Shell, "waitYield")
    /\ KeepsThread
    /\ WaitUnchanged
    /\ UNCHANGED <<jobs, fgpid>>

(* ... and swaps to the scheduler.                                         *)
WaitYield ==
    /\ At(Shell, "waitYield")
    /\ Dispatch(kern)
    /\ Goto(Shell, "waitResume")
    /\ WaitUnchanged
    /\ UNCHANGED <<jobs, fgpid>>

(* Scheduled again, the shell reads the child through the pointer it kept. *)
(* A child whose status has not changed makes the call fail; the status    *)
(* variable then holds 0, TERMINATED, after a command and an arbitrary     *)
(* value after fg, which makes no difference to what either does.          *)
WaitResume ==
    /\ At(Shell, "waitResume")
    /\ IF kern.pcb[curr_pid].changedStatus
       THEN kern' = Collect(kern, curr_pid) /\ AfterWait(kern.pcb[curr_pid].status)
       ELSE UNCHANGED kern /\ AfterWait("TERMINATED")
    /\ KeepsThread
    /\ WaitUnchanged

-----------------------------------------------------------------------------
(* The programs.                                                           *)
User(p, kind) == At(p, "user") /\ prog[p].kind = kind

(* sleep: p_sleep takes the process off its ready queue ...                *)
Sleep(p) ==
    /\ User(p, "sleep")
    /\ kern' = LET k1 == dequeue(kern, p) IN
               OnProcess(k1, p, [k1 EXCEPT !.pcb[p].sleep = prog[p].ticks])
    /\ Goto(p, "sleepBlock")
    /\ KeepsThread
    /\ UNCHANGED <<pidCounter, globals, prog>>

(* ... blocks it ...                                                       *)
SleepBlock(p) ==
    /\ At(p, "sleepBlock")
    /\ kern' = enqueueBlocked(kern, p)
    /\ Goto(p, "sleepYield")
    /\ KeepsThread
    /\ UNCHANGED <<pidCounter, globals, prog>>

(* ... and swaps to the scheduler.                                         *)
SleepYield(p) ==
    /\ At(p, "sleepYield")
    /\ Dispatch(kern)
    /\ Goto(p, "sleepResume")
    /\ UNCHANGED <<pidCounter, globals, prog>>

(* Woken with ticks left it blocks again, but does not give the thread up. *)
SleepResume(p) ==
    /\ At(p, "sleepResume")
    /\ kern' = IF kern.pcb[p].sleep > 0
               THEN enqueueBlocked(dequeue(kern, p), p) ELSE kern
    /\ Goto(p, "exit")
    /\ KeepsThread
    /\ UNCHANGED <<pidCounter, globals, prog>>

(* kill: the signal is sent by the kill process, not by the shell.         *)
Kill(p) ==
    /\ User(p, "kill")
    /\ kern' = p_kill(kern, prog[p].pid, prog[p].signal, fgpid)
    /\ Goto(p, "exit")
    /\ KeepsThread
    /\ UNCHANGED <<pidCounter, globals, prog>>

(* zombify spawns a child that ends at once and loops; orphanify spawns a  *)
(* child that loops and ends.  The child is a background process if the    *)
(* shell's last command was one.                                           *)
SpawnChild(p, kind, child, after) ==
    /\ User(p, kind)
    /\ Spawn(p, [NoProgram EXCEPT !.kind = child], IS_BG)
    /\ pc' = [pc EXCEPT ![p] = after,
                        ![pidCounter] = EntryLabel([NoProgram EXCEPT !.kind = child])]
    /\ KeepsThread
    /\ UNCHANGED globals

Zombify(p) == SpawnChild(p, "zombify", "echo", "spin")
Orphanify(p) == SpawnChild(p, "orphanify", "busy", "exit")

(* A function that returns goes on in terminateContext, which cleans the   *)
(* active process up and enters the scheduler.                             *)
TerminateProcess(p) ==
    /\ At(p, "exit")
    /\ Dispatch(k_process_cleanup(kern, activeProcess))
    /\ Goto(p, "dead")
    /\ UNCHANGED <<pidCounter, globals, prog>>

-----------------------------------------------------------------------------
(* Host signals.                                                           *)
InterruptibleAt(points) ==
    /\ ~Faulty(kern)
    /\ \/ activeContext = Idle /\ "idle" \in points
       \/ activeContext \in Pids /\ pc[activeContext] \in points

(* SIGALRM: a tick for the sleepers, then the scheduler.                   *)
Alarm ==
    /\ InterruptibleAt(PreemptPoints)
    /\ Dispatch(WakeSleepers(kern))
    /\ UNCHANGED <<pidCounter, globals, prog, pc>>

(* A patient user presses a key only while the shell waits and the         *)
(* foreground process is asleep or busy, not when it is about to end.      *)
KeyPressed ==
    /\ InterruptibleAt(KeyPoints)
    /\ fgpid > 1
    /\ PatientUser => /\ kern.pcb[Shell].status = "BLOCKED"
                      /\ \/ kern.pcb[fgpid].status = "BLOCKED"
                         \/ kern.pcb[fgpid].status = "RUNNING" /\ pc[fgpid] = "spin"
    /\ UNCHANGED <<pidCounter, activeProcess, activeContext, listPointer,
                   globals, prog, pc>>

(* Ctrl-C terminates the foreground process.                               *)
CtrlC ==
    /\ KeyPressed
    /\ kern' = p_kill(kern, fgpid, "S_SIGTERM", fgpid)

(* Ctrl-Z stops it; if there is no such process, whichever process the     *)
(* signal has interrupted is cleaned up.                                   *)
CtrlZ ==
    /\ KeyPressed
    /\ LET k0 == Search(kern, fgpid) IN
       kern' = IF Faulty(k0) \/ findProcessByPid(kern, fgpid) # NULL
               THEN p_kill(kern, fgpid, "S_SIGSTOP", fgpid)
               ELSE k_process_cleanup(kern, activeProcess)

-----------------------------------------------------------------------------
ShellStep ==
    \/ Poll \/ BlankLine \/ EndOfInput \/ BgBuiltin \/ FgBuiltin \/ NicePid
    \/ LogoutOrMan \/ RunProgram \/ Launch
    \/ Wait \/ WaitBlock \/ WaitYield \/ WaitResume

ProgramStep(p) ==
    \/ Sleep(p) \/ SleepBlock(p) \/ SleepYield(p) \/ SleepResume(p)
    \/ Kill(p) \/ Zombify(p) \/ Orphanify(p)
    \/ TerminateProcess(p)

Next ==
    \/ \E c \in Menu : Type(c)
    \/ ShellStep
    \/ \E p \in Pids : ProgramStep(p)
    \/ Alarm
    \/ CtrlC
    \/ CtrlZ

Spec == Init /\ [][Next]_vars
-----------------------------------------------------------------------------
(* Fairness.  The host delivers SIGALRM every quantum, and one that arrives*)
(* between two labels that let it in is delivered at the next such label;  *)
(* a process that is given the thread again and again executes its next    *)
(* instruction some time.  Nothing makes the user type or press a key.     *)
(* This is strong fairness.  For the actions that enter the scheduler it   *)
(* is written with the states in which they are enabled spelled out, which *)
(* TLC evaluates faster than ENABLED.                                      *)
AlarmDue == /\ InterruptibleAt(PreemptPoints)
            /\ \/ activeContext # Idle
               \/ ~NothingReady(kern)
               \/ \E p \in Members(kern, "blocked") : kern.pcb[p].sleep >= 0
ProgramDue(p) == /\ activeContext = p /\ ~Faulty(kern)
                 /\ pc[p] \in (ProgramLabels \ {"spin"}) \cup {"exit"}

Fairness ==
    /\ SF_vars(ShellStep)
    /\ []<>AlarmDue => []<><<Alarm>>_vars
    /\ \A p \in Pids : []<>ProgramDue(p) => []<><<ProgramStep(p)>>_vars

FairSpec == Spec /\ Fairness

=============================================================================
