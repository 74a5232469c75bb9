----------------------------- MODULE MCIoQueues -----------------------------
(* Instances of IoQueues for TLC. *)
EXTENDS IoQueuesInv

\* One queue that goes round its rings more than twice.
LapsCmds == [q \in SQs |-> 9]

\* Two queues with unequal shares, each more than a queue holds.
UnevenCmds == [q \in SQs |-> IF q = 1 THEN 4 ELSE 3]
=============================================================================
