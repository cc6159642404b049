-------------------------- MODULE KernelProperties --------------------------
(***************************************************************************)
(* What the kernel and the shell promise: the properties of module Kernel. *)
(***************************************************************************)
EXTENDS Kernel


PcbType == [ppid : Pids, status : Statuses, changedStatus : BOOLEAN,
            bgFlag : BOOLEAN, priority : Priorities, sleep : Int,
            childPids : Seq(Pids \cup {Reaped}), waitChild : Pids \cup {NULL}]

KernType == [head : [Queues -> Pids \cup {NULL}],
             tail : [Queues -> Pids \cup {NULL}],
             next : [Pids -> Pids \cup {NULL}],
             pcb : [Pids -> PcbType],
             fault : {"none", "segv", "hang", "overflow"}]

(* The types of the variables.                                             *)
TypeOK ==
    /\ kern \in KernType
    /\ pidCounter \in 2..MaxPid + 1
    /\ activeProcess \in Pids
    /\ activeContext \in Contexts
    /\ listPointer \in 0..17
    /\ fgpid \in Pids
    /\ curr_pid \in Pids \cup {NULL}
    /\ IS_BG \in BOOLEAN /\ retFlag \in BOOLEAN /\ flag_spaces \in BOOLEAN
    /\ DOMAIN jobs \subseteq Pids /\ \A j \in DOMAIN jobs : jobs[j] \in Statuses
    /\ cmd \in Menu \cup {NoCommand}
    /\ prog \in [Pids -> Programs]
    /\ pc \in [Pids -> Labels]

In(p, q) == p \in Members(kern, q)
Spawned == {p \in Pids : p < pidCounter}

(* The kernel never dereferences NULL, walks round a list for ever or      *)
(* writes past an array: the chain of calls that look a process up, unlink *)
(* it and use the result always finds what it looks for.                   *)
NoFault == kern.fault = "none"

(* The six lists that share the next field of a process stay separate      *)
(* lists: each ends at its tail and no process is in two of them.          *)
QueuesIntact ==
    /\ \A q \in Queues : QueueWellFormed(kern, q)
    /\ \A q, r \in Queues : q # r => Members(kern, q) \cap Members(kern, r) = {}

(* Where the scheduler and the signals look for a process of a status.     *)
Home(p) == CASE kern.pcb[p].status = "RUNNING" -> ReadyQueue(kern.pcb[p].priority)
             [] kern.pcb[p].status = "BLOCKED" -> "blocked"
             [] kern.pcb[p].status = "STOPPED" -> "stopped"
             [] kern.pcb[p].status \in Ended  -> "none"

(* No process is lost and none is in a queue it should have left: but for  *)
(* a process on its way from one queue to another, a process is in exactly *)
(* the queue of its status, and a terminated one is in none but the zombie *)
(* queue.  This is what the dequeue functions, which empty a queue when    *)
(* they remove its head, must not break.                                   *)
PlacedByStatus ==
    \A p \in Spawned : pc[p] \notin {"waitBlock", "sleepBlock"} =>
        \A q \in Queues \ {"zombie"} : In(p, q) <=> q = Home(p)

(* A process that has the thread is the last of its ready queue, so that   *)
(* taking it off the queue cannot drop the others; only a program that has *)
(* spawned a child stands before it.                                       *)
ActiveIsLast ==
    \A p \in Spawned :
        (/\ activeContext = p
         /\ kern.pcb[p].status = "RUNNING" /\ In(p, Home(p))
         /\ p = Shell \/ kern.pcb[p].childPids = <<>>)
            => kern.tail[Home(p)] = p

(* No wakeup is lost: whoever is blocked is asleep with ticks to come, or  *)
(* waits for a process that is still going to end or stop and that will    *)
(* tell it, as only foreground processes do.                               *)
BlockedHasWaker ==
    \A p \in Spawned : In(p, "blocked") =>
        \/ kern.pcb[p].sleep >= 0
        \/ LET child == kern.pcb[p].waitChild IN
           /\ child # NULL
           /\ kern.pcb[child].status \in {"RUNNING", "BLOCKED"}
           /\ ~kern.pcb[child].bgFlag

(* The job list and the kernel agree: a job is stopped for the shell if    *)
(* and only if it is stopped, and a job the shell has not heard the end of *)
(* can be found by pid; every zombie is a job, so that polling, which      *)
(* dereferences the job it finds, finds one.                               *)
JobsMatchProcesses ==
    /\ \A j \in DOMAIN jobs :
          /\ jobs[j] = "STOPPED" <=> kern.pcb[j].status = "STOPPED"
          /\ pc[j] # "sleepBlock" => \E q \in Queues : In(j, q)
    /\ \A z \in Members(kern, "zombie") :
          z \in DOMAIN jobs /\ kern.pcb[z].status \in Ended

(* Where a process is: its queue says whether it is ready, blocked or     *)
(* stopped.  A process that is in no queue, and neither on its way from    *)
(* one to another nor at its end, is lost.                                 *)
LifeOf(p) ==
    CASE p \notin Spawned -> "unborn"
      [] p \in Spawned /\ kern.pcb[p].status \in Ended -> "ended"
      [] p \in Spawned /\ kern.pcb[p].status \notin Ended ->
            CASE \E q \in ReadyQueues : In(p, q) -> "ready"
              [] In(p, "blocked") \/ pc[p] \in {"waitBlock", "sleepBlock"} -> "blocked"
              [] In(p, "stopped") -> "stopped"
              [] OTHER -> "lost"

Process == INSTANCE Lifecycle WITH life <- [p \in Pids |-> LifeOf(p)],
                                   running <- activeContext

(* Queues, control blocks and the scheduler implement the lives of the     *)
(* processes: whatever the timer, the keys and the signals interrupt, no   *)
(* process is lost, blocked by another or resurrected, and the thread goes *)
(* to a process that is ready, and to none only if none is.                *)
ImplementsLifecycle == Process!Spec

(* Every ready process gets the thread or leaves the ready queues.         *)
ReadyIsScheduled ==
    \A p \in Pids :
        (\E q \in ReadyQueues : In(p, q)) ~>
            (activeContext = p \/ ~\E q \in ReadyQueues : In(p, q))

(* A foreground command that ends by itself gives the prompt back.         *)
ForegroundReturns ==
    (pc[Shell] = "waitResume" /\ prog[curr_pid].kind # "busy") ~> (pc[Shell] = "read")

(* A sleeper ends, whatever else is running.                               *)
SleepersEnd == \A p \in Pids : (pc[p] = "sleepResume") ~> (pc[p] = "dead")

-----------------------------------------------------------------------------
(* What the repository's documents and comments say of the program, and    *)
(* some session of it contradicts.                                         *)

(* "If first job, set the new head to the next job": taking one process    *)
(* off a queue leaves the others there.  A ready process that is not on    *)
(* its way to the blocked queue and keeps its status and priority stays    *)
(* in its queue.                                                           *)
ReadyStaysQueued ==
    [][\A p \in Spawned :
          LET q == ReadyQueue(kern.pcb[p].priority) IN
          (/\ In(p, q)
           /\ kern'.pcb[p].status = "RUNNING"
           /\ kern'.pcb[p].priority = kern.pcb[p].priority
           /\ pc'[p] \notin {"waitBlock", "sleepBlock"})
              => p \in Members(kern', q)]_vars

(* k_process_cleanup clears "a process from any queues it is in to ensure  *)
(* it cannot be run again by the scheduler".                               *)
EndedNotReady ==
    \A p \in Spawned : kern.pcb[p].status \in Ended =>
        \A q \in ReadyQueues : ~In(p, q)

(* The shell "waits as normal for foreground processes": the wait for a    *)
(* process it has started is a wait, however soon that process ends.       *)
WaitFindsChild ==
    [][At(Shell, "wait") /\ activeContext' = Shell
         => ~Faulty(kern')]_vars

(* A blocking call blocks its caller until "it will resume": a process     *)
(* that does not have the thread and has not ended is in some queue.       *)
ParkedIsQueued ==
    \A p \in Spawned : activeContext # p /\ kern.pcb[p].status \notin Ended =>
        \E q \in Queues : In(p, q)

(* A hanging wait gives the status of a child that "has now changed        *)
(* status": the prompt comes back when the foreground process has ended or *)
(* stopped.                                                                *)
PromptAfterForeground ==
    [][pc[Shell] \in {"wait", "waitResume"} /\ pc'[Shell] = "read" =>
          kern'.pcb[curr_pid].status \in Ended \cup {"STOPPED"}]_vars

(* A stopped foreground process becomes a job: at the prompt every stopped *)
(* process is in the job list.                                             *)
StoppedIsJob ==
    pc[Shell] = "read" =>
        \A p \in Spawned : kern.pcb[p].status = "STOPPED" => p \in DOMAIN jobs

(* p_waitpid is "called for foreground jobs with nohang set to false": the *)
(* shell does not prompt again before it has waited.                       *)
ForegroundIsWaitedFor ==
    [][pc[Shell] = "nice" /\ pc'[Shell] = "read" => IS_BG]_vars

(* Only a line that "is all spaces or tabs" is skipped.                    *)
OnlyBlankIsSkipped ==
    [][pc[Shell] = "exec" /\ pc'[Shell] = "read" => cmd.op # "run"]_vars

(* findProcessByPid "is capable of iterating through every single queue".  *)
SearchEnds == kern.fault # "hang"

(* Killing children, polling for zombies and unblocking the parent never   *)
(* dereference NULL.                                                       *)
NoNullDereference == kern.fault # "segv"
=============================================================================
