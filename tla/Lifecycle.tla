------------------------------ MODULE Lifecycle ------------------------------
(***************************************************************************)
(* What the kernel promises of a process, without queues, contexts and     *)
(* signals: it is born once, moves between ready, blocked and stopped, is  *)
(* never lost on the way, and ends for ever.  One process at a time has    *)
(* the thread; it is idle only when no process is ready.                   *)
(***************************************************************************)
CONSTANTS Pids,   \* process numbers
          Shell   \* the process there is at the start

VARIABLES life,     \* pid -> where the process is in its life
          running   \* the process that has the thread, or no pid

vars == <<life, running>>

Init == /\ life = [p \in Pids |-> IF p = Shell THEN "ready" ELSE "unborn"]
        /\ running = Shell

Ready == {p \in Pids : life[p] = "ready"}

(* The process that has the thread starts another.                         *)
Spawn(child) == /\ running \in Pids /\ life[running] # "ended"
                /\ life[child] = "unborn"
                /\ life' = [life EXCEPT ![child] = "ready"]
                /\ UNCHANGED running

(* Nobody blocks but the process that has the thread.                      *)
Block == /\ running \in Ready
         /\ life' = [life EXCEPT ![running] = "blocked"]
         /\ UNCHANGED running

(* A signal, the end of a process or a tick of the clock: processes end,   *)
(* stop, go on where they were and wake up.                                *)
Turns == {<<"blocked", "ready">>,
          <<"ready", "stopped">>, <<"blocked", "stopped">>,
          <<"stopped", "ready">>, <<"stopped", "blocked">>,
          <<"ready", "ended">>, <<"blocked", "ended">>, <<"stopped", "ended">>}
Turn == \A p \in Pids : life'[p] # life[p] => <<life[p], life'[p]>> \in Turns

(* The thread goes to a process that is ready now.                         *)
Switch == IF running' \in Pids THEN running' \in Ready' ELSE Ready' = {}

Next == \/ \E child \in Pids : Spawn(child)
        \/ Block
        \/ Turn /\ UNCHANGED running
        \/ Turn /\ Switch

Spec == Init /\ [][Next]_vars
=============================================================================
