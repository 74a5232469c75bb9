--------------------------- MODULE CommandService ---------------------------
(***************************************************************************)
(* What the data path promises a caller of transfer(): every command a      *)
(* queue's producer builds is started by the controller in the order it     *)
(* was built, runs once, is completed once and is reaped once; transfer()   *)
(* returns when, and only when, every command has been reaped.              *)
(***************************************************************************)
EXTENDS Naturals

CONSTANTS Queues,   \* submission queues
          Work      \* Work[q]: number of commands of queue q

VARIABLES stage,    \* stage[q][k]: how far command k of queue q has come
          returned  \* the transfer has returned

vars == <<stage, returned>>

Stages == {"idle", "queued", "executing", "completed", "reaped"}

Cmds(q) == 1..Work[q]

Init ==
    /\ stage = [q \in Queues |-> [k \in Cmds(q) |-> "idle"]]
    /\ returned = FALSE

Move(q, k, from, to) ==
    /\ stage[q][k] = from
    /\ stage' = [stage EXCEPT ![q][k] = to]
    /\ UNCHANGED returned

\* Commands are built, and started, in order.
Queue(q, k) ==
    /\ \A j \in 1..(k - 1) : stage[q][j] # "idle"
    /\ Move(q, k, "idle", "queued")

Start(q, k) ==
    /\ \A j \in 1..(k - 1) : stage[q][j] \notin {"idle", "queued"}
    /\ Move(q, k, "queued", "executing")

\* They may complete, and be reaped, in any order.
Complete(q, k) == Move(q, k, "executing", "completed")

Reap(q, k) == Move(q, k, "completed", "reaped")

Return ==
    /\ ~returned
    /\ \A q \in Queues : \A k \in Cmds(q) : stage[q][k] = "reaped"
    /\ returned' = TRUE
    /\ UNCHANGED stage

Next ==
    \/ \E q \in Queues : \E k \in Cmds(q) :
         Queue(q, k) \/ Start(q, k) \/ Complete(q, k) \/ Reap(q, k)
    \/ Return

Spec == Init /\ [][Next]_vars
=============================================================================
