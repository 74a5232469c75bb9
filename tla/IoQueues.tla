------------------------------ MODULE IoQueues ------------------------------
(***************************************************************************)
(* The data path of libnvm as its users drive it: one transfer of           *)
(* examples/integrity/transfer.c, with a producer thread per submission     *)
(* queue, one consumer thread reaping the completion queue all submission   *)
(* queues share, the main thread that waits for them, and the controller.   *)
(* examples/read-blocks/read.c is the same protocol with one submission     *)
(* queue and no flush (its producer is the main thread).                    *)
(*                                                                          *)
(* Commands of a queue are numbered 1, 2, ... in the order they are         *)
(* enqueued; the number stands for opcode, block range and data pointer.    *)
(* The controller (DevFetch, DevComplete) is not in the repository: it is   *)
(* modelled from the registers and queue memory the code shares with it.    *)
(***************************************************************************)
EXTENDS NvmQueue, FiniteSets

CONSTANTS
    SQs,             \* numbers of the submission queues (1..n_queues)
    CtrlMaxEntries,  \* ctrl->max_entries
    SqPerPage,       \* ctrl->page_size / sizeof(nvm_cmd_t)
    CqPerPage,       \* ctrl->page_size / sizeof(nvm_cpl_t)
    DataCmds,        \* DataCmds[q]: read/write commands queue q's share needs
    Write,           \* TRUE for disk_write, FALSE for disk_read
    InOrder,         \* TRUE if the controller completes each SQ in order
    Hoisted          \* TRUE if the compiler may read a spun-on plain field once

N == QueueSize(CtrlMaxEntries, SqPerPage)   \* entries of a submission queue
M == QueueSize(CtrlMaxEntries, CqPerPage)   \* entries of the completion queue

ASSUME QueuesAssumption == SQs \subseteq Nat \ {0} /\ IsFiniteSet(SQs) /\ SQs # {}
ASSUME SizesAssumption ==
    /\ CtrlMaxEntries \in Nat /\ SqPerPage \in Nat /\ CqPerPage \in Nat
    /\ N >= 2 /\ M >= 2
    /\ Word \in Nat /\ Word > N
ASSUME WorkAssumption ==
    /\ DataCmds \in [SQs -> Nat]
    /\ Write \in BOOLEAN /\ InOrder \in BOOLEAN /\ Hoisted \in BOOLEAN

VARIABLES
    sq,        \* sq[q]: descriptor of submission queue q (queues[q].queue)
    cq,        \* descriptor of the completion queue (queues[0].queue)
    counter,   \* counter[q], q > 0: commands produced; counter[0]: completions
    sqmem,     \* sqmem[q][i]: command in slot i of submission queue memory
    prp,       \* prp[q][p]: command whose PRP list was last built in page p
    cqmem,     \* cqmem[i]: entry in slot i of completion queue memory
    sqdb,      \* sqdb[q]: SQ tail doorbell register
    cqdb,      \* CQ head doorbell register
    ppc,       \* ppc[q]: where producer q is
    slot,      \* slot[q]: the slot producer q's cmd pointer points to
    cpc,       \* where the consumer is
    cpl,       \* the slot the consumer's cpl pointer points to
    cancel,    \* consumer.cancel
    mpc,       \* where the main thread is
    joined,    \* producers the main thread has joined
    commands,  \* main's sum of the joined producers' counters
    dsqhd,     \* dsqhd[q]: the controller's SQ head
    executing, \* executing[q]: commands the controller fetched, not completed
    dcqtl,     \* the controller's CQ tail
    dphase,    \* the phase tag the controller posts with
    \* history: per queue, the commands the controller fetched and completed
    \* and the heads the consumer advanced; completions posted in all
    fetched, completed, freed, posted

hostVars   == <<sq, cq, counter, sqmem, prp, sqdb, cqdb>>
threadVars == <<ppc, slot, cpc, cpl, cancel, mpc, joined, commands>>
devVars    == <<cqmem, dsqhd, executing, dcqtl, dphase, fetched, completed, posted>>
vars == <<hostVars, threadVars, devVars, freed>>

Slots   == 0..(N - 1)
CqSlots == 0..(M - 1)

Total(q) == DataCmds[q] + (IF Write THEN 1 ELSE 0)

\* Contents of submission and completion queue slots.
Command    == [cid : 0..(2*N - 1), cmd : Nat, list : 0..N]
Completion == [phase : Bit, sqid : SQs \cup {0}, cmd : Nat, no : Nat, qno : Nat]

\* A slot of zeroed queue memory (create_buffer clears it).
NoCommand    == [cid |-> 0, cmd |-> 0, list |-> 0]
NoCompletion == [phase |-> 0, sqid |-> 0, cmd |-> 0, no |-> 0, qno |-> 0]

Init ==
    /\ sq = [q \in SQs |-> nvm_queue_clear(N)]
    /\ cq = nvm_queue_clear(M)
    /\ counter = [q \in SQs \cup {0} |-> 0]
    /\ sqmem = [q \in SQs |-> [i \in Slots |-> NoCommand]]
    /\ prp = [q \in SQs |-> [p \in 1..N |-> 0]]
    /\ cqmem = [i \in CqSlots |-> NoCompletion]
    /\ sqdb = [q \in SQs |-> 0]
    /\ cqdb = 0
    /\ ppc = [q \in SQs |-> "enqueue"]
    /\ slot = [q \in SQs |-> 0]
    /\ cpc = "loop"
    /\ cpl = 0
    /\ cancel = FALSE
    /\ mpc = "join"
    /\ joined = {}
    /\ commands = 0
    /\ dsqhd = [q \in SQs |-> 0]
    /\ executing = [q \in SQs |-> {}]
    /\ dcqtl = 0
    /\ dphase = 1
    /\ fetched = [q \in SQs |-> 0]
    /\ completed = [q \in SQs |-> 0]
    /\ freed = [q \in SQs |-> 0]
    /\ posted = 0

-----------------------------------------------------------------------------
(* Producer threads (produce_commands) *)

\* nvm_sq_submit: ring the doorbell with the tail unless it already shows it.
Submit(q) ==
    /\ sq' = [sq EXCEPT ![q] = nvm_sq_submit(sq[q])]
    /\ sqdb' = [sqdb EXCEPT ![q] = SqDoorbell(sq[q], sqdb[q])]

\* A successful nvm_sq_enqueue stores the CID; the rest of the slot still
\* holds the command that used it before.
TakeSlot(q) ==
    /\ ~SqFull(sq[q])
    /\ slot' = [slot EXCEPT ![q] = SqSlot(sq[q])]
    /\ sq' = [sq EXCEPT ![q] = nvm_sq_enqueue(sq[q])]
    /\ sqmem' = [sqmem EXCEPT
                   ![q][SqSlot(sq[q])].cid = SqCid(nvm_sq_enqueue(sq[q]))]

\* The queue is full: submit what is enqueued, yield and try again.
EnqueueFull(q) ==
    /\ ppc[q] = "enqueue" /\ counter[q] < DataCmds[q]
    /\ SqFull(sq[q])
    /\ Submit(q)
    /\ UNCHANGED <<cq, counter, sqmem, prp, cqdb, threadVars, devVars, freed>>

Enqueue(q) ==
    /\ ppc[q] = "enqueue" /\ counter[q] < DataCmds[q]
    /\ TakeSlot(q)
    /\ ppc' = [ppc EXCEPT ![q] = "fill"]
    /\ UNCHANGED <<cq, counter, prp, sqdb, cqdb, cpc, cpl, cancel, mpc, joined,
                   commands, devVars, freed>>

\* Mutant: the PRP page is picked by division instead of remainder.
Fill_PageByDivision(q) ==
    LET list == (sqmem[q][slot[q]].cid \div N) + 1
        this == counter[q] + 1 IN
    /\ ppc[q] = "fill"
    /\ sqmem' = [sqmem EXCEPT ![q][slot[q]] = [@ EXCEPT !.cmd = this, !.list = list]]
    /\ prp' = [prp EXCEPT ![q][list] = this]
    /\ counter' = [counter EXCEPT ![q] = this]
    /\ ppc' = [ppc EXCEPT ![q] = "enqueue"]
    /\ UNCHANGED <<sq, cq, sqdb, cqdb, slot, cpc, cpl, cancel, mpc, joined,
                   commands, devVars, freed>>

\* Build the command in the slot and its PRP list in page CID % max_entries + 1.
Fill(q) ==
    LET list == (sqmem[q][slot[q]].cid % N) + 1
        this == counter[q] + 1 IN
    /\ ppc[q] = "fill"
    /\ sqmem' = [sqmem EXCEPT ![q][slot[q]] = [@ EXCEPT !.cmd = this, !.list = list]]
    /\ prp' = [prp EXCEPT ![q][list] = this]
    /\ counter' = [counter EXCEPT ![q] = this]
    /\ ppc' = [ppc EXCEPT ![q] = "enqueue"]
    /\ UNCHANGED <<sq, cq, sqdb, cqdb, slot, cpc, cpl, cancel, mpc, joined,
                   commands, devVars, freed>>

\* while ((cmd = nvm_sq_enqueue(sq)) == NULL); with the queue full.  If the
\* compiler reads head once, the loop may never see it change.
FlushSpin(q) ==
    /\ ppc[q] = "enqueue" /\ counter[q] = DataCmds[q] /\ Write
    /\ SqFull(sq[q])
    /\ ppc' \in {ppc} \cup (IF Hoisted THEN {[ppc EXCEPT ![q] = "hang"]} ELSE {})
    /\ UNCHANGED <<hostVars, slot, cpc, cpl, cancel, mpc, joined, commands,
                   devVars, freed>>

FlushEnqueue(q) ==
    /\ ppc[q] = "enqueue" /\ counter[q] = DataCmds[q] /\ Write
    /\ TakeSlot(q)
    /\ ppc' = [ppc EXCEPT ![q] = "flush"]
    /\ UNCHANGED <<cq, counter, prp, sqdb, cqdb, cpc, cpl, cancel, mpc, joined,
                   commands, devVars, freed>>

FlushFill(q) ==
    LET this == counter[q] + 1 IN
    /\ ppc[q] = "flush"
    /\ sqmem' = [sqmem EXCEPT ![q][slot[q]] = [@ EXCEPT !.cmd = this, !.list = 0]]
    /\ counter' = [counter EXCEPT ![q] = this]
    /\ ppc' = [ppc EXCEPT ![q] = "enqueue"]
    /\ UNCHANGED <<sq, cq, prp, sqdb, cqdb, slot, cpc, cpl, cancel, mpc, joined,
                   commands, devVars, freed>>

\* The last nvm_sq_submit; the thread returns.
ProducerReturn(q) ==
    /\ ppc[q] = "enqueue" /\ counter[q] = Total(q)
    /\ Submit(q)
    /\ ppc' = [ppc EXCEPT ![q] = "done"]
    /\ UNCHANGED <<cq, counter, sqmem, prp, cqdb, slot, cpc, cpl, cancel, mpc,
                   joined, commands, devVars, freed>>

Producer(q) ==
    \/ EnqueueFull(q) \/ Enqueue(q) \/ Fill(q)
    \/ FlushSpin(q) \/ FlushEnqueue(q) \/ FlushFill(q)
    \/ ProducerReturn(q)

-----------------------------------------------------------------------------
(* Consumer thread (consume_completions) *)

ConsumerLoop ==
    /\ cpc = "loop"
    /\ cpc' = IF cancel THEN "done" ELSE "dequeue"
    /\ UNCHANGED <<hostVars, ppc, slot, cpl, cancel, mpc, joined, commands,
                   devVars, freed>>

\* nvm_cq_dequeue_block finds an entry: the head moves past it at once, the
\* entry is read through the returned pointer afterwards.
ConsumerDequeue ==
    /\ cpc = "dequeue"
    /\ nvm_cq_poll(cq, cqmem)
    /\ cpl' = cq.head
    /\ cq' = nvm_cq_dequeue(cq)
    /\ cpc' = "sq_update"
    /\ UNCHANGED <<sq, counter, sqmem, prp, sqdb, cqdb, ppc, slot, cancel, mpc,
                   joined, commands, devVars, freed>>

\* nvm_cq_dequeue_block gives up after its last poll failed.
ConsumerTimeout ==
    /\ cpc = "dequeue"
    /\ ~nvm_cq_poll(cq, cqmem)
    /\ cpc' = "loop"
    /\ UNCHANGED <<hostVars, ppc, slot, cpl, cancel, mpc, joined, commands,
                   devVars, freed>>

\* nvm_sq_update on the queue the entry names, in two visible stores.
ConsumerSqIncrement ==
    LET q == cqmem[cpl].sqid IN
    /\ cpc = "sq_update"
    /\ sq' = [sq EXCEPT ![q] = SqHeadIncrement(sq[q])]
    /\ freed' = [freed EXCEPT ![q] = freed[q] + 1]
    /\ cpc' = "sq_wrap"
    /\ UNCHANGED <<cq, counter, sqmem, prp, sqdb, cqdb, ppc, slot, cpl, cancel,
                   mpc, joined, commands, devVars>>

ConsumerSqWrap ==
    LET q == cqmem[cpl].sqid IN
    /\ cpc = "sq_wrap"
    /\ sq' = [sq EXCEPT ![q] = SqHeadWrap(sq[q])]
    /\ cpc' = "cq_update"
    /\ UNCHANGED <<cq, counter, sqmem, prp, sqdb, cqdb, ppc, slot, cpl, cancel,
                   mpc, joined, commands, devVars, freed>>

\* Read the entry's status, then nvm_cq_update: hand its slot back.
ConsumerCqUpdate ==
    /\ cpc = "cq_update"
    /\ cqdb' = CqDoorbell(cq, cqdb)
    /\ cq' = nvm_cq_update(cq)
    /\ cpc' = "count"
    /\ UNCHANGED <<sq, counter, sqmem, prp, sqdb, ppc, slot, cpl, cancel, mpc,
                   joined, commands, devVars, freed>>

ConsumerCount ==
    /\ cpc = "count"
    /\ counter' = [counter EXCEPT ![0] = counter[0] + 1]
    /\ cpc' = "loop"
    /\ UNCHANGED <<sq, cq, sqmem, prp, sqdb, cqdb, ppc, slot, cpl, cancel, mpc,
                   joined, commands, devVars, freed>>

Consumer ==
    \/ ConsumerLoop \/ ConsumerDequeue \/ ConsumerTimeout
    \/ ConsumerSqIncrement \/ ConsumerSqWrap
    \/ ConsumerCqUpdate \/ ConsumerCount

-----------------------------------------------------------------------------
(* Main thread (transfer) *)

\* Join the producers in queue order and sum what they produced.
MainJoin(q) ==
    /\ mpc = "join" /\ ppc[q] = "done"
    /\ joined = {p \in SQs : p < q}
    /\ joined' = joined \cup {q}
    /\ commands' = commands + counter[q]
    /\ mpc' = IF joined' = SQs THEN "wait" ELSE "join"
    /\ UNCHANGED <<hostVars, ppc, slot, cpc, cpl, cancel, devVars, freed>>

\* Mutant: the wait ends one completion early.
MainWait_OneEarly ==
    /\ mpc = "wait"
    /\ counter[0] + 1 >= commands
    /\ mpc' = "cancelled"
    /\ cancel' = TRUE
    /\ UNCHANGED <<hostVars, ppc, slot, cpc, cpl, joined, commands, devVars,
                   freed>>

\* while (queues[0].counter < commands); then cancel the consumer.
MainWait ==
    /\ mpc = "wait"
    /\ IF counter[0] < commands
         THEN /\ mpc' \in {"wait"} \cup (IF Hoisted THEN {"hang"} ELSE {})
              /\ UNCHANGED cancel
         ELSE /\ mpc' = "cancelled"
              /\ cancel' = TRUE
    /\ UNCHANGED <<hostVars, ppc, slot, cpc, cpl, joined, commands, devVars,
                   freed>>

\* Join the consumer; transfer returns.
MainReturn ==
    /\ mpc = "cancelled" /\ cpc = "done"
    /\ mpc' = "done"
    /\ UNCHANGED <<hostVars, ppc, slot, cpc, cpl, cancel, joined, commands,
                   devVars, freed>>

Main == (\E q \in SQs : MainJoin(q)) \/ MainWait \/ MainReturn

-----------------------------------------------------------------------------
(* The controller (external) *)

\* Fetch the next command the tail doorbell exposes.
DevFetch(q) ==
    /\ dsqhd[q] # sqdb[q]
    /\ executing' = [executing EXCEPT ![q] = @ \cup {sqmem[q][dsqhd[q]]}]
    /\ dsqhd' = [dsqhd EXCEPT ![q] = Advance(dsqhd[q], N)]
    /\ fetched' = [fetched EXCEPT ![q] = fetched[q] + 1]
    /\ UNCHANGED <<hostVars, threadVars, cqmem, dcqtl, dphase, completed, posted,
                   freed>>

\* Post a completion; the ring is full when its tail would meet the head
\* doorbell.  no and qno number the completions, in all and of the queue; they
\* are history, like cmd, and no part of the entry the host reads.
DevComplete(q) ==
    \E c \in executing[q] :
        /\ InOrder => \A d \in executing[q] : c.cmd <= d.cmd
        /\ Advance(dcqtl, M) # cqdb
        /\ executing' = [executing EXCEPT ![q] = executing[q] \ {c}]
        /\ cqmem' = [cqmem EXCEPT ![dcqtl] =
                       [phase |-> dphase, sqid |-> q, cmd |-> c.cmd,
                        no |-> posted + 1, qno |-> completed[q] + 1]]
        /\ dcqtl' = Advance(dcqtl, M)
        /\ dphase' = IF dcqtl + 1 = M THEN 1 - dphase ELSE dphase
        /\ completed' = [completed EXCEPT ![q] = completed[q] + 1]
        /\ posted' = posted + 1
        /\ UNCHANGED <<hostVars, threadVars, dsqhd, fetched, freed>>

Device(q) == DevFetch(q) \/ DevComplete(q)

-----------------------------------------------------------------------------
\* The program has ended; the controller has nothing left to do.
Finished == mpc = "done" /\ UNCHANGED vars

Next ==
    \/ \E q \in SQs : Producer(q) \/ Device(q)
    \/ Consumer
    \/ Main
    \/ Finished

Spec == Init /\ [][Next]_vars

\* Every thread is scheduled again and again (they are pthreads of one
\* process), and the controller processes what it is given.
Fairness ==
    /\ \A q \in SQs : WF_vars(Producer(q)) /\ WF_vars(DevFetch(q))
                      /\ WF_vars(DevComplete(q))
    /\ WF_vars(Consumer)
    /\ WF_vars(Main)

FairSpec == Spec /\ Fairness

-----------------------------------------------------------------------------
(* Properties *)

\* Completions the consumer has taken off the completion queue.
Reaped == counter[0] + (IF cpc \in {"sq_update", "sq_wrap", "cq_update", "count"}
                          THEN 1 ELSE 0)

\* Every variable stays in its range: queue positions inside their ring (but
\* for the transient head), counters within the work there is.
TypeOK ==
    /\ sq \in [SQs -> Descriptor(N)]
    /\ cq \in Descriptor(M)
    /\ counter \in [SQs \cup {0} -> Nat]
    /\ sqmem \in [SQs -> [Slots -> Command]]
    /\ prp \in [SQs -> [1..N -> Nat]]
    /\ cqmem \in [CqSlots -> Completion]
    /\ sqdb \in [SQs -> Slots]
    /\ cqdb \in CqSlots
    /\ ppc \in [SQs -> {"enqueue", "fill", "flush", "hang", "done"}]
    /\ slot \in [SQs -> Slots]
    /\ cpc \in {"loop", "dequeue", "sq_update", "sq_wrap", "cq_update", "count", "done"}
    /\ cpl \in CqSlots
    /\ cancel \in BOOLEAN
    /\ mpc \in {"join", "wait", "hang", "cancelled", "done"}
    /\ joined \in SUBSET SQs
    /\ commands \in Nat
    /\ dsqhd \in [SQs -> Slots]
    /\ executing \in [SQs -> SUBSET Command]
    /\ dcqtl \in CqSlots
    /\ dphase \in Bit
    /\ fetched \in [SQs -> Nat]
    /\ completed \in [SQs -> Nat]
    /\ freed \in [SQs -> Nat]
    /\ posted \in Nat

\* The slots the tail doorbell has exposed and the controller has not fetched
\* hold exactly the next commands of the queue, in order and completely built:
\* nvm_sq_enqueue never hands out a slot whose command is still to be fetched,
\* although its full test reads a head the consumer is moving, and
\* nvm_sq_submit never exposes a half-built one.
CommandIntegrity ==
    \A q \in SQs : \A i \in Slots :
        Dist(dsqhd[q], i, N) < Dist(dsqhd[q], sqdb[q], N)
            => sqmem[q][i].cmd = fetched[q] + Dist(dsqhd[q], i, N) + 1

\* nvm_cq_poll sees an entry at the head exactly when a completion is posted
\* that has not been taken, and it is the oldest such: the phase tag never
\* makes the consumer take an entry of an earlier lap, or miss a new one.
PhaseTagSound ==
    /\ nvm_cq_poll(cq, cqmem) <=> Reaped < posted
    /\ nvm_cq_poll(cq, cqmem) => cqmem[cq.head].no = Reaped + 1

\* While the consumer reads through the pointer nvm_cq_dequeue returned, the
\* entry is still the one it dequeued and names one of the submission queues:
\* the controller gets the slot back only by nvm_cq_update.
HeldCompletion ==
    cpc \in {"sq_update", "sq_wrap", "cq_update"}
        => cqmem[cpl].no = Reaped /\ cqmem[cpl].sqid \in SQs

\* With a controller that completes each queue in order, the PRP list page
\* picked by CID is not rewritten while the controller may still read it for
\* a command it was given.
PrpListIntact ==
    InOrder => \A q \in SQs : \A c \in executing[q] :
                   c.list # 0 => prp[q][c.list] = c.cmd

\* transfer() cancels the consumer and returns only when every command has
\* been executed and its completion taken, and the consumer is not cancelled
\* with an entry in hand.
ReturnsAfterAll ==
    cancel => /\ \A q \in SQs : /\ fetched[q] = Total(q) /\ executing[q] = {}
                                /\ freed[q] = Total(q)
              /\ posted = counter[0]

\* The stage of command k of queue q, read off queue memory and registers.
Stage(q, k) ==
    IF k > counter[q] THEN "idle"
    ELSE IF k > fetched[q] THEN "queued"
    ELSE IF \E c \in executing[q] : c.cmd = k THEN "executing"
    ELSE IF \E i \in CqSlots :
              /\ Dist(cq.head, i, M) < Dist(cq.head, dcqtl, M)
              /\ cqmem[i].sqid = q /\ cqmem[i].cmd = k THEN "completed"
    ELSE "reaped"

Service == INSTANCE CommandService WITH
    Queues <- SQs,
    Work <- [q \in SQs |-> Total(q)],
    stage <- [q \in SQs |-> [k \in 1..Total(q) |-> Stage(q, k)]],
    returned <- (mpc = "done")

\* The threads and the controller together implement the command service:
\* each command is started once and in order, completed once, reaped once,
\* and the transfer returns after that.
ImplementsService == Service!Spec

\* Every transfer ends.
TransferEnds == <>(mpc = "done")
=============================================================================
