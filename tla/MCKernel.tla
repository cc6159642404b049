------------------------------ MODULE MCKernel ------------------------------
(***************************************************************************)
(* Instances of Kernel for TLC: the command lines the user may type and    *)
(* the points at which the timer and the keyboard are let in.              *)
(***************************************************************************)
EXTENDS KernelProofs

Program(kind) == [NoProgram EXCEPT !.kind = kind]
SleepFor(n) == [NoProgram EXCEPT !.kind = "sleep", !.ticks = n]
KillPid(sig, p) == [NoProgram EXCEPT !.kind = "kill", !.signal = sig, !.pid = p]

Fg(program) == [op |-> "run", program |-> program, bg |-> FALSE, niced |-> FALSE,
                priority |-> 0]
Bg(program) == [Fg(program) EXCEPT !.bg = TRUE]
Nice(priority, c) == [c EXCEPT !.niced = TRUE, !.priority = priority]
Builtin(op) == [op |-> op]
NicePidOf(p, priority) == [op |-> "nice_pid", pid |-> p, priority |-> priority]

(* The timer may interrupt everything but the steps between a spawn and    *)
(* the end of the shell's call of p_waitpid, and between the two halves of *)
(* blocking: the instances named Race... let it in there.                  *)
CalmPoints == Points \ {"nice", "wait", "waitBlock", "sleepBlock", "exec"}
NoKeys == {}
AllLabels == Points

(* Programs and sleepers in the foreground and the background, no keys.    *)
SchedMenu == {Fg(Program("echo")), Bg(Program("echo")), Bg(Program("busy")),
              Fg(SleepFor(1)), Bg(SleepFor(2)), Fg(Program("zombify"))}

(* A session as the theorems of KernelProofs suppose it (PlainSession).    *)
PlainMenu == {Fg(Program("echo")), Bg(Program("echo")), Fg(Program("busy")), Bg(Program("busy")),
              Fg(SleepFor(0)), Fg(SleepFor(1)), Bg(SleepFor(2)), Builtin("blank")}
PlainPoints == Points \ Critical

(* Job control with at most one process that does not end by itself within *)
(* a quantum: the dequeue functions drop the rest of a queue with its head,*)
(* so two of them are more than Ctrl-Z and Ctrl-C can handle (DocDequeueHead).   *)
JobMenu == {Fg(Program("echo")), Bg(Program("echo")), Fg(Program("busy")), Bg(Program("busy")),
            Fg(SleepFor(2)), Builtin("fg"), Builtin("bg"), Builtin("blank")}
LongRunners == {p \in Pids : prog[p].kind \in {"busy", "sleep"}}
OneLongRunner == \A p, r \in LongRunners : p = r
KeyLabels == ProgramLabels \cup {"idle"}

(* A kill process against a background sleeper, the first process started; *)
(* such a session has no other programs.  A second SIGSTOP (DocStopStopped)*)
(* and a signal to a sleeper that is ready again, at the head of the queue *)
(* its killer is in (DocDequeueHead), are left out.                        *)
KillMenu == {Bg(SleepFor(3)), Fg(KillPid("S_SIGTERM", 2)), Fg(KillPid("S_SIGSTOP", 2)),
             Fg(KillPid("S_SIGCONT", 2))}
SchedAndKillMenu == SchedMenu \cup KillMenu
Killers == {p \in Pids : prog[p].kind = "kill"}
KillsOrPrograms ==
    IF prog[2].ticks = 3
    THEN \A p \in Pids : p > 2 /\ p < pidCounter => p \in Killers
    ELSE \A p \in Pids : p \notin Killers /\ prog[p].ticks < 3
KilledAsleep ==
    \A p \in Killers : pc[p] = "user" => kern.pcb[2].status # "RUNNING"
StoppedOnce ==
    \A p \in Killers : pc[p] = "user" /\ prog[p].signal = "S_SIGSTOP" =>
        kern.pcb[2].status # "STOPPED"

(* Priorities of the shell itself, and the ways to end a session: before   *)
(* any program has been started, since the shell cannot end with childPids *)
(* that hold a pid (DocNullDereference).                                   *)
SessionMenu == {Builtin("man"), Builtin("logout"), Builtin("eof"),
                NicePidOf(1, 0), NicePidOf(1, -1)}
SessionOrPrograms ==
    pidCounter > 2 => /\ cmd.op \notin {"man", "logout", "eof", "nice_pid"}
                      /\ kern.pcb[Shell].priority = -1 /\ ~retFlag
JobAndSessionMenu == JobMenu \cup SessionMenu

LiveMenu == {Fg(Program("echo")), Fg(SleepFor(1)), Bg(Program("busy")),
             Bg(Program("orphanify"))}

-----------------------------------------------------------------------------
(* Sessions in which the program does not do what its documents say.       *)

(* Two programs that loop: Ctrl-Z takes the head of their queue.           *)
RaceHeadMenu == {Fg(Program("busy")), Bg(Program("busy"))}

(* A program started at low priority.                                      *)
NiceMenu == {Nice(1, Fg(Program("echo"))), Fg(Program("echo"))}

(* A command that ends before the shell has come to wait for it, and one   *)
(* that goes to sleep before.                                              *)
WaitPoints == CalmPoints \cup {"wait"}
EchoMenu == {Fg(Program("echo"))}
NapMenu == {Fg(SleepFor(2))}

(* The timer between the two halves of blocking.                           *)
BlockPoints == CalmPoints \cup {"waitBlock"}

(* Stopping a job twice, stopping a stopped process.                       *)
StopMenu == {Fg(Program("busy")), Builtin("fg")}
StopTwiceMenu == {Bg(SleepFor(3)), Fg(KillPid("S_SIGSTOP", 2)), NicePidOf(4, 0)}

ManMenu == {Builtin("man"), Fg(Program("echo"))}
BlankMenu == {Builtin("blank"), Fg(Program("echo"))}
OrphanMenu == {Fg(Program("orphanify"))}
ZombieMenu == {Bg(Program("zombify")), Builtin("bg")}
KillBgMenu == {Bg(SleepFor(1)), Bg(KillPid("S_SIGTERM", 2))}
=============================================================================
