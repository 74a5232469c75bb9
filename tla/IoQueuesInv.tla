---------------------------- MODULE IoQueuesInv -----------------------------
(***************************************************************************)
(* The inductive invariant of IoQueues: where the positions the producer,   *)
(* the consumer and the controller keep in the two rings stand relative to  *)
(* each other, and what the slots between them hold.  Checked by TLC as an  *)
(* invariant, proved inductive in IoQueuesProofs.  Work, Once and Lists     *)
(* are what IoServiceProofs adds to it.                                     *)
(***************************************************************************)
EXTENDS IoQueues

\* The counters' range is a whole number of laps round a submission queue: the
\* case the full test of nvm_sq_enqueue is right in.
RingDivides == \E k \in Nat : Word = k * N

\* Producer q holds a slot it has not finished building.
Building(q) == ppc[q] \in {"fill", "flush"}

\* The consumer holds a pointer to an entry it has not handed back.
Held == cpc \in {"sq_update", "sq_wrap", "cq_update"}

Enqueued(q) == counter[q] + (IF Building(q) THEN 1 ELSE 0)

\* Head of queue q, the transient value read as the slot it stands for, and
\* the position of slot i counted from it.
SqHead(q) == IF sq[q].head = N THEN 0 ELSE sq[q].head
SqPos(q, i) == Dist(SqHead(q), i, N)

\* freed <= fetched <= submitted <= built <= freed + N - 1, each read off a ring
\* position, and every built slot from the head on holds its command.
SqPositions(q) ==
    /\ sq[q].head = N => cpc = "sq_wrap" /\ cqmem[cpl].sqid = q
    /\ sq[q].last = sqdb[q]
    /\ SqPos(q, sq[q].tail) = Enqueued(q) - freed[q]
    /\ SqPos(q, dsqhd[q]) = fetched[q] - freed[q]
    /\ SqPos(q, dsqhd[q]) <= SqPos(q, sqdb[q])
    /\ SqPos(q, sqdb[q]) <= counter[q] - freed[q]
    /\ Building(q) => SqPos(q, slot[q]) = counter[q] - freed[q]

SqContents(q) ==
    \A i \in Slots : SqPos(q, i) < counter[q] - freed[q]
                       => sqmem[q][i].cmd = freed[q] + SqPos(q, i) + 1

\* Position of slot i of the completion queue counted from its head, the slots
\* posted and not taken, and the tag a new entry would carry there.
CqPos(i) == Dist(cq.head, i, M)
Pending(i) == CqPos(i) < CqPos(dcqtl)
Expected(i) == IF i >= cq.head THEN cq.phase ELSE 1 - cq.phase

CqPositions ==
    /\ cq.head # M
    /\ cq.last = cqdb
    /\ Held => cpl = cqdb /\ cq.head = Advance(cqdb, M) /\ dcqtl # cqdb
    /\ ~Held => cqdb = cq.head
    /\ CqPos(dcqtl) = posted - Reaped
    /\ dphase = Expected(dcqtl)

\* Tags agree with the expected phase exactly on the pending slots, which hold
\* consecutive completions.
CqContents ==
    /\ \A i \in CqSlots : cqmem[i].phase = Expected(i) <=> Pending(i)
    /\ \A i \in CqSlots : Pending(i) => cqmem[i].no = Reaped + CqPos(i) + 1
    /\ Held => cqmem[cpl].no = Reaped /\ cqmem[cpl].sqid \in SQs

\* Completions that have not yet advanced an SQ head.
Unfreed(i) == Pending(i) \/ (cpc = "sq_update" /\ i = cpl)

\* Every one of them stands for a fetched command whose slot is not freed, and
\* those of one queue are in the order they were posted.
CplOrder ==
    /\ \A i \in CqSlots : Unfreed(i) =>
         LET e == cqmem[i] IN
         /\ e.sqid \in SQs
         /\ freed[e.sqid] < e.qno /\ e.qno <= completed[e.sqid]
    /\ \A i, j \in CqSlots :
         Unfreed(i) /\ Unfreed(j) /\ cqmem[i].sqid = cqmem[j].sqid
           /\ cqmem[i].no < cqmem[j].no => cqmem[i].qno < cqmem[j].qno

\* What the controller fetched and did not complete it is executing, and no
\* slot is freed before its completion.
Execution(q) ==
    /\ freed[q] <= completed[q]
    /\ IsFiniteSet(executing[q])
    /\ Cardinality(executing[q]) = fetched[q] - completed[q]
    /\ \A c \in executing[q] : c.cmd <= fetched[q]

\* The inductive invariant: the queue positions of the producers, the consumer
\* and the controller (nvm_sq_enqueue, nvm_sq_submit, nvm_sq_update,
\* nvm_cq_dequeue, nvm_cq_update) always delimit the same commands.
IInv ==
    /\ TypeOK
    /\ \A q \in SQs : SqPositions(q) /\ SqContents(q) /\ Execution(q)
    /\ CqPositions /\ CqContents /\ CplOrder

-----------------------------------------------------------------------------
(* The work: what has been counted is what has been done *)

\* The first f[q] commands of every queue q of Q
FirstOf(f, Q) == UNION {{q} \X (1..f[q]) : q \in Q}

Counts(n, f, Q) == IsFiniteSet(FirstOf(f, Q)) /\ Cardinality(FirstOf(f, Q)) = n

\* The consumer has freed a slot whose completion is not counted yet.
Uncounted == cpc \in {"sq_wrap", "cq_update", "count"}

\* How far a producer is in its share
Share(q) ==
    /\ counter[q] <= Total(q)
    /\ ppc[q] = "fill" => counter[q] < DataCmds[q]
    /\ ppc[q] = "flush" => Write /\ counter[q] = DataCmds[q]
    /\ ppc[q] = "done" => counter[q] = Total(q)

\* How far the main thread is in its joins and its wait
Waits ==
    /\ \A q \in joined : ppc[q] = "done"
    /\ mpc # "join" => joined = SQs
    /\ cancel <=> mpc \in {"cancelled", "done"}
    /\ cancel => counter[0] >= commands

\* The counters count heads moved, completions posted and commands produced.
Sums ==
    /\ Counts(counter[0] + (IF Uncounted THEN 1 ELSE 0), freed, SQs)
    /\ Counts(posted, completed, SQs)
    /\ Counts(commands, counter, joined)

Work == (\A q \in SQs : Share(q)) /\ Waits /\ Sums

-----------------------------------------------------------------------------
(* The commands: each is executed, completed and reaped once *)

\* No two commands in execution have the same number.
ExecutingOnce ==
    \A q \in SQs : \A c \in executing[q] :
        c.cmd \in 1..fetched[q] /\ \A d \in executing[q] : c.cmd = d.cmd => c = d

\* What is posted is not in execution and posted once.
PostedOnce ==
    \A i \in CqSlots : Pending(i) =>
        /\ cqmem[i].cmd \in 1..fetched[cqmem[i].sqid]
        /\ \A c \in executing[cqmem[i].sqid] : c.cmd # cqmem[i].cmd
        /\ \A j \in CqSlots :
              Pending(j) /\ cqmem[j].sqid = cqmem[i].sqid /\ cqmem[j].cmd = cqmem[i].cmd
                => i = j

Once == ExecutingOnce /\ PostedOnce

-----------------------------------------------------------------------------
(* PRP lists *)

\* The page of the PRP list for the command in slot i: its CID is the tail after the
\* enqueue.
PageOf(i) == Advance(i, N) + 1

\* A slot that is being built has got its CID, and a command in a slot that is in use
\* has its list in the slot's page.
Pages(q) ==
    /\ Building(q) => sqmem[q][slot[q]].cid % N = Advance(slot[q], N)
    /\ \A i \in Slots : SqPos(q, i) < counter[q] - freed[q] /\ sqmem[q][i].list # 0
          => sqmem[q][i].list = PageOf(i) /\ prp[q][PageOf(i)] = sqmem[q][i].cmd

\* A controller that completes in order executes only commands whose slot is in use.
InSlots(q) ==
    InOrder => \A c \in executing[q] :
        /\ completed[q] < c.cmd
        /\ \E i \in Slots : SqPos(q, i) < fetched[q] - freed[q] /\ sqmem[q][i] = c

Lists == \A q \in SQs : Pages(q) /\ InSlots(q)
=============================================================================
