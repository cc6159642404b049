----------------------------- MODULE ProcQueues -----------------------------
(***************************************************************************)
(* The kernel's process queues: the linked lists of scheduler.c at the     *)
(* level of their head, tail and next pointers.                            *)
(*                                                                         *)
(* A Process is named by its pid, NULL is 0.  The queues share the one     *)
(* next field a Process has, so putting a process in two queues, appending *)
(* it to itself or cutting a list short are all expressible, as in C.      *)
(*                                                                         *)
(* Every operator maps a kernel state k to the next one.  k.fault records  *)
(* what the C code would do instead of going on: "segv" for a dereference  *)
(* of NULL, "hang" for a walk round a cyclic list, "overflow" for a write  *)
(* past an array.  A faulted kernel state does not change any more.        *)
(***************************************************************************)
EXTENDS Integers, Sequences, SequencesExt

CONSTANTS MaxPid,         \* bound on pids: how many processes are ever created
          ChildPidSlots   \* entries of a childPids array (20 in pcb.c)

ASSUME PidsAssumption == MaxPid \in Nat \ {0} /\ ChildPidSlots \in Nat

Pids == 1..MaxPid
NULL == 0
Reaped == -2              \* what a childPids entry is overwritten with

Statuses == {"TERMINATED", "SIG_TERMINATED", "RUNNING", "STOPPED", "BLOCKED"}
Priorities == {-1, 0, 1}

(* The queues, in the order findProcessByPid searches them.  The orphan    *)
(* queue is left out: no statement of the program ever links into it.      *)
SearchOrder == <<"high", "med", "low", "blocked", "stopped", "zombie">>
Queues == {"high", "med", "low", "blocked", "stopped", "zombie"}
ReadyQueues == {"high", "med", "low"}
ReadyQueue(priority) == CASE priority = -1 -> "high"
                          [] priority = 1  -> "low"
                          [] OTHER         -> "med"

(* Operators named Bug_... are not part of the model: each is a definition  *)
(* with a plausible mistake in it, and the runs show that the properties   *)
(* notice the mistake.                                                     *)

(* createPcb: a new process control block.                                 *)
createPcb(parent, priority, bg) ==
    [ppid |-> parent, status |-> "RUNNING", changedStatus |-> FALSE,
     bgFlag |-> bg, priority |-> priority, sleep |-> -1,
     childPids |-> <<>>, waitChild |-> NULL]

Fault(k, kind) == [k EXCEPT !.fault = kind]
Faulty(k) == k.fault # "none"

(* What a function that dereferences its Process argument p does: k2,      *)
(* unless p is NULL or the program has already stopped on a fault.         *)
OnProcess(k, p, k2) ==
    IF Faulty(k) THEN k ELSE IF p = NULL THEN Fault(k, "segv") ELSE k2

-----------------------------------------------------------------------------
(* Walking a list: at[i] is the i-th Process reached from the head.        *)
Walk(k, q) ==
    LET at[i \in 1..MaxPid + 1] ==
            IF i = 1 THEN k.head[q]
            ELSE IF at[i - 1] = NULL THEN NULL ELSE k.next[at[i - 1]]
    IN  at

Members(k, q) == {Walk(k, q)[i] : i \in 1..MaxPid} \ {NULL}
Cyclic(k, q) == Walk(k, q)[MaxPid + 1] # NULL

(* findProcessByPid: the first queue that holds pid, in search order.      *)
findProcessByPid(k, pid) ==
    IF \E q \in Queues : pid \in Members(k, q) THEN pid ELSE NULL
SearchHangs(k, pid) ==
    \E i \in DOMAIN SearchOrder :
        /\ Cyclic(k, SearchOrder[i])
        /\ \A j \in 1..i : pid \notin Members(k, SearchOrder[j])

-----------------------------------------------------------------------------
(* Appending at the tail: the body every enqueue function repeats.         *)
Bug_LinkWithoutTail(k, q, p) ==
    IF k.head[q] = NULL
    THEN [k EXCEPT !.head[q] = p, !.tail[q] = p]
    ELSE [k EXCEPT !.next[k.tail[q]] = p]
Link(k, q, p) ==
    IF k.head[q] = NULL
    THEN [k EXCEPT !.head[q] = p, !.tail[q] = p]
    ELSE [k EXCEPT !.next[k.tail[q]] = p, !.tail[q] = p]

(* enqueue: the LOW case has no break and goes on into the MED case.       *)
enqueue(k, p) ==
    OnProcess(k, p,
        LET q  == ReadyQueue(k.pcb[p].priority)
            k1 == Link([k EXCEPT !.pcb[p].status = "RUNNING"], q, p)
        IN  IF q = "low" THEN Link(k1, "med", p) ELSE k1)

enqueueBlocked(k, p) ==
    OnProcess(k, p, Link([k EXCEPT !.pcb[p].status = "BLOCKED",
                                   !.pcb[p].changedStatus = TRUE],
                         "blocked", p))

enqueueStopped(k, p) ==
    OnProcess(k, p, Link([k EXCEPT !.pcb[p].status = "STOPPED",
                                   !.pcb[p].changedStatus = TRUE],
                         "stopped", p))

Bug_ZombieForgotten(k, p) == k
enqueueZombie(k, p) ==
    OnProcess(k, p, Link([k EXCEPT !.pcb[p].changedStatus = TRUE],
                         "zombie", p))

-----------------------------------------------------------------------------
(* The loop every dequeue function runs when p is not the head: cut p out  *)
(* behind the Process that precedes it; nothing happens if p is not there. *)
UnlinkAfterHead(k, q, p) ==
    LET at  == Walk(k, q)
        pos == {i \in 2..MaxPid : at[i] = p}
    IN  IF pos # {}
        THEN LET before == at[Min(pos) - 1]
             IN  [k EXCEPT !.tail[q] = IF k.next[p] = NULL THEN before ELSE @,
                           !.next = [@ EXCEPT ![before] = k.next[p],
                                              ![p] = NULL]]
        ELSE IF Cyclic(k, q) THEN Fault(k, "hang") ELSE k

Bug_HeadIsKept(k, q, p) ==
    OnProcess(k, p, IF k.head[q] \in {NULL, p} THEN k ELSE UnlinkAfterHead(k, q, p))

(* dequeueBlocked and dequeueZombie: the head is replaced by its successor.*)
UnlinkKeepingRest(k, q, p) ==
    OnProcess(k, p,
        CASE k.head[q] = NULL -> Fault(k, "segv")
          [] k.head[q] = p    -> [k EXCEPT !.head[q] = k.next[p],
                                           !.next[p] = NULL]
          [] OTHER            -> UnlinkAfterHead(k, q, p))

(* dequeue and dequeueStopped: the head's next is cleared before the head  *)
(* is replaced by it, so that the list is empty afterwards.                *)
UnlinkHeadLast(k, q, p) ==
    OnProcess(k, p,
        CASE k.head[q] = NULL -> Fault(k, "segv")
          [] k.head[q] = p    -> [k EXCEPT !.head[q] = NULL, !.next[p] = NULL]
          [] OTHER            -> UnlinkAfterHead(k, q, p))

Bug_RestOfBlockedLost(k, p) == UnlinkHeadLast(k, "blocked", p)
dequeueBlocked(k, p) == UnlinkKeepingRest(k, "blocked", p)
dequeueZombie(k, p)  == UnlinkKeepingRest(k, "zombie", p)
Bug_StaysStopped(k, p) == k
dequeueStopped(k, p) == UnlinkHeadLast(k, "stopped", p)
dequeue(k, p) ==
    OnProcess(k, p, UnlinkHeadLast(k, ReadyQueue(k.pcb[p].priority), p))

(* The scheduler's rotation: the head becomes the tail.  The order of the  *)
(* four assignments matters when the tail is not the last Process.         *)
Bug_NoRotation(k, q) == k
Bug_RotateDropsHead(k, q) ==
    LET h == k.head[q] IN
    IF h = k.tail[q] THEN k
    ELSE [k EXCEPT !.head[q] = k.next[h], !.next[h] = NULL]
Bug_RotateKeepsNext(k, q) ==
    LET h == k.head[q] IN
    IF h = k.tail[q] THEN k
    ELSE [k EXCEPT !.next[k.tail[q]] = h, !.head[q] = k.next[h], !.tail[q] = h]
Rotate(k, q) ==
    LET h == k.head[q] IN
    IF h = k.tail[q] THEN k
    ELSE LET next1 == [k.next EXCEPT ![k.tail[q]] = h]
         IN  [k EXCEPT !.head[q] = next1[h], !.tail[q] = h,
                       !.next = [next1 EXCEPT ![h] = NULL]]

-----------------------------------------------------------------------------
(* Well-formedness of one queue: it ends, and its tail is its last member. *)
QueueWellFormed(k, q) ==
    \/ k.head[q] = NULL
    \/ /\ ~Cyclic(k, q)
       /\ k.tail[q] \in Members(k, q)
       /\ k.next[k.tail[q]] = NULL
=============================================================================
