----------------------------- MODULE KernelCalls -----------------------------
(***************************************************************************)
(* The kernel functions of kernel.c, the system calls of user.c and the    *)
(* choice the scheduler makes, as operators from a kernel state k to the   *)
(* next.  None of them blocks: the blocking calls (p_waitpid, p_sleep) are *)
(* steps of module Kernel built from these.                                *)
(***************************************************************************)
EXTENDS ProcQueues

(* dequeueBlocked followed by enqueue: how the kernel wakes a process.     *)
Bug_WakeStaysBlocked(k, p) == enqueue(k, p)
Wake(k, p) == enqueue(dequeueBlocked(k, p), p)

(* The kernel state after a findProcessByPid: the search never ends when   *)
(* it runs into a cyclic list before it finds the pid.                     *)
Search(k, pid) ==
    IF ~Faulty(k) /\ SearchHangs(k, pid) THEN Fault(k, "hang") ELSE k

(* What k_process_kill does to a process without children on SIGTERM.  The *)
(* parent is looked up while p is still queued and is woken whether or not *)
(* it waits for p; a stopped process is not made a zombie.                 *)
TerminateLeaf(k, p) ==
    OnProcess(k, p,
        LET ppid   == k.pcb[p].ppid
            parent == findProcessByPid(k, ppid)
            k0     == Search(k, ppid)
            Bury(k1) == IF k.pcb[p].bgFlag THEN enqueueZombie(k1, p) ELSE k1
            k2 == CASE k.pcb[p].status = "BLOCKED" ->
                           Wake(Bury(dequeueBlocked(k0, p)), parent)
                    [] k.pcb[p].status = "RUNNING" ->
                           Wake(Bury(dequeue(k0, p)), parent)
                    [] k.pcb[p].status = "STOPPED" -> dequeueStopped(k, p)
                    [] OTHER -> k
        IN  OnProcess(k2, p, [k2 EXCEPT !.pcb[p].status = "SIG_TERMINATED",
                                        !.pcb[p].changedStatus = TRUE]))

(* A process with children survives: the signal goes to the children only. *)
(* childPids keeps the entries of reaped children, and those of children   *)
(* that left every queue.  The recursion is unfolded to the depth of the   *)
(* deepest process tree: the shell, a zombify or orphanify, its child.     *)
TerminateParent(k, p) ==
    OnProcess(k, p,
        IF k.pcb[p].childPids = <<>> THEN TerminateLeaf(k, p)
        ELSE FoldLeft(LAMBDA k1, c : TerminateLeaf(Search(k1, c), findProcessByPid(k1, c)),
                      k, k.pcb[p].childPids))

SignalChildren(k, p) ==
    FoldLeft(LAMBDA k1, c : TerminateParent(Search(k1, c), findProcessByPid(k1, c)),
             k, k.pcb[p].childPids)

TerminateTree(k, p) ==
    OnProcess(k, p, IF k.pcb[p].childPids = <<>> THEN TerminateLeaf(k, p)
                                                 ELSE SignalChildren(k, p))

(* SIGSTOP: whatever p was doing, it goes to the stopped queue.            *)
Stop(k, p) ==
    OnProcess(k, p,
        LET ppid   == k.pcb[p].ppid
            parent == findProcessByPid(k, ppid)
            k0 == Search(k, ppid)
            k1 == CASE k.pcb[p].status = "RUNNING" -> dequeue(k0, p)
                    [] k.pcb[p].status = "BLOCKED" -> dequeueBlocked(k0, p)
                    [] OTHER -> k0
            k2 == enqueueStopped(k1, p)
            k3 == OnProcess(k2, parent,
                      IF k2.pcb[parent].status = "BLOCKED"
                      THEN Wake(k2, parent) ELSE k2)
        IN  OnProcess(k3, p, [k3 EXCEPT !.pcb[p].status = "STOPPED",
                                        !.pcb[p].changedStatus = TRUE,
                                        !.pcb[p].bgFlag = TRUE]))

(* Where a process goes on when it is continued: the bg builtin leaves the *)
(* shell the foreground process, the fg builtin makes it the continued one.*)
Bug_GoesOnInBackground(fgpid) == fgpid # 1
GoesOnInBackground(fgpid) == fgpid = 1

(* SIGCONT: whether p continues in the background depends on the global    *)
(* fgpid, not on the caller.  A process that has ever slept goes back to   *)
(* the blocked queue.                                                      *)
Continue(k, p, fgpid) ==
    OnProcess(k, p,
        LET k0 == [k EXCEPT !.pcb[p].changedStatus = FALSE]
            k1 == dequeueStopped(k0, p)
            bg == GoesOnInBackground(fgpid)
            k2 == OnProcess(k1, p, [k1 EXCEPT !.pcb[p].bgFlag = bg])
            k3 == enqueueBlocked(k2, p)
        IN  CASE k.pcb[p].status = "STOPPED" /\ k.pcb[p].sleep = -1 ->
                     enqueue(k2, p)
              [] k.pcb[p].status = "STOPPED" /\ k.pcb[p].sleep # -1 ->
                     OnProcess(k3, p, [k3 EXCEPT !.pcb[p].changedStatus = bg])
              [] \/ k.pcb[p].status = "BLOCKED" /\ k.pcb[p].sleep > 0
                 \/ k.pcb[p].status = "RUNNING" ->
                     [k0 EXCEPT !.pcb[p].bgFlag = FALSE]
              [] OTHER -> k0)

k_process_kill(k, p, signal, fgpid) ==
    CASE signal = "S_SIGTERM" -> TerminateTree(k, p)
      [] signal = "S_SIGSTOP" -> Stop(k, p)
      [] signal = "S_SIGCONT" -> Continue(k, p, fgpid)

(* p_kill fails, and nothing happens, when no queue holds the pid.         *)
Bug_p_killUnchecked(k, pid, signal, fgpid) ==
    k_process_kill(k, findProcessByPid(k, pid), signal, fgpid)
p_kill(k, pid, signal, fgpid) ==
    LET p  == findProcessByPid(k, pid)
        k0 == Search(k, pid)
    IN  IF Faulty(k0) \/ p = NULL THEN k0 ELSE k_process_kill(k0, p, signal, fgpid)

(* The parent is blocked in a wait for p.                                  *)
Bug_WaitsForItself(k, parent, p) ==
    parent \in Members(k, "blocked") /\ k.pcb[parent].waitChild = parent
WaitsFor(k, parent, p) ==
    parent \in Members(k, "blocked") /\ k.pcb[parent].waitChild = p

(* k_process_cleanup: the end of a process.  A background process becomes  *)
(* a zombie; a foreground one wakes its parent if that waits for it, and   *)
(* then terminates its own children.                                       *)
k_process_cleanup(k, p) ==
    LET ended == [k EXCEPT !.pcb[p].status = "TERMINATED",
                           !.pcb[p].changedStatus = TRUE]
        k1 == IF k.pcb[p].status = "BLOCKED" THEN dequeueBlocked(ended, p)
                                             ELSE dequeue(ended, p)
        parent == k.pcb[p].ppid
        waits  == WaitsFor(k1, parent, p)
        k2 == CASE waits -> Wake(k1, parent)
                [] ~waits /\ Cyclic(k1, "blocked") -> Fault(k1, "hang")
                [] OTHER -> k1
    IN  CASE Faulty(k1)        -> k1
          [] k.pcb[p].bgFlag   -> enqueueZombie(k1, p)
          [] OTHER             -> SignalChildren(k2, p)

(* p_spawn by process parent: the new process is made ready at once, with  *)
(* the priority 0 of every program but the shell.                          *)
Bug_spawnIgnoresBg(k, parent, pid, isBg) ==
    enqueue([k EXCEPT !.pcb[pid] = createPcb(parent, 0, FALSE),
                      !.pcb[parent].childPids = Append(@, pid)], pid)
p_spawn(k, parent, pid, isBg) ==
    IF Len(k.pcb[parent].childPids) >= ChildPidSlots THEN Fault(k, "overflow")
    ELSE enqueue([k EXCEPT !.pcb[pid] = createPcb(parent, 0, isBg),
                           !.pcb[parent].childPids = Append(@, pid)], pid)

(* p_nice: only a running process is moved to the queue of its priority.   *)
p_nice(k, pid, priority) ==
    LET p  == findProcessByPid(k, pid)
        k0 == Search(k, pid)
        k1 == dequeue(k0, p)
    IN  CASE Faulty(k0) \/ p = NULL -> k0
          [] ~Faulty(k0) /\ p # NULL /\ k.pcb[p].status = "RUNNING" ->
                 IF Faulty(k1) THEN k1
                 ELSE enqueue([k1 EXCEPT !.pcb[p].priority = priority], p)
          [] ~Faulty(k0) /\ p # NULL
                 /\ k.pcb[p].status \in {"BLOCKED", "STOPPED"} ->
                 [k0 EXCEPT !.pcb[p].priority = priority]
          [] OTHER -> k0

(* A tick for a sleeper.                                                   *)
Bug_LastTickKept(k, p) ==
    IF k.pcb[p].sleep > 1 THEN k.pcb[p].sleep - 1 ELSE k.pcb[p].sleep
Ticked(k, p) ==
    IF k.pcb[p].sleep > 0 /\ k.pcb[p].status # "STOPPED"
    THEN k.pcb[p].sleep - 1 ELSE k.pcb[p].sleep

(* A sleeper with no ticks left after this one is made ready.              *)
WakeIfDue(k, k1, p) ==
    IF p # NULL /\ Ticked(k, p) = 0 THEN Wake(Search(k1, p), p) ELSE k1

(* alarmHandler, up to its swapcontext: every sleeper of the blocked queue *)
(* loses a tick, and those with none left are made ready in queue order.   *)
WakeSleepers(k) ==
    LET at == Walk(k, "blocked")
        ticked == [k EXCEPT !.pcb = [p \in Pids |->
                      IF p \in Members(k, "blocked")
                      THEN [k.pcb[p] EXCEPT !.sleep = Ticked(k, p)] ELSE k.pcb[p]]]
        woken[i \in 0..MaxPid] ==
            IF i = 0 THEN ticked ELSE WakeIfDue(k, woken[i - 1], at[i])
    IN  IF Cyclic(k, "blocked") THEN Fault(k, "hang") ELSE woken[MaxPid]

-----------------------------------------------------------------------------
(* The scheduler walks this list of priorities, one entry per quantum.  As *)
(* written its fourth and fifth entries are one expression, 0 -1, and the  *)
(* array is filled up with a 0 at its end.                                 *)
schedulerList ==
    <<-1, 0, -1, 0-1, -1, 0, 1, -1, 1, 0, -1, 0, 1, 0, -1, -1, -1, 0>>

(* The list position after a quantum given to the entry n after lp.        *)
Bug_ListRunsOut(lp, n) == lp + n + 1
NextPosition(lp, n) == (lp + n + 1) % 18

(* The queue the scheduler looks at n entries after list position lp.      *)
SlotQueue(lp, n) == ReadyQueue(schedulerList[((lp + n) % 18) + 1])

(* The entries the scheduler passes over before one whose queue has work.  *)
SkippedSlots(k, lp) ==
    CHOOSE n \in 0..17 :
        /\ k.head[SlotQueue(lp, n)] # NULL
        /\ \A m \in 0..n - 1 : k.head[SlotQueue(lp, m)] = NULL

NothingReady(k) == \A q \in ReadyQueues : k.head[q] = NULL
=============================================================================
