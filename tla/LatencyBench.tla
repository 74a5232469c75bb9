---------------------------- MODULE LatencyBench ----------------------------
(***************************************************************************)
(* The latency benchmark (benchmarks/latency): the plan of transfers per    *)
(* queue (createQueues, prepareRange), the set-up of the queue pairs with   *)
(* admin commands (Queue, src/admin.c), and one thread per queue that sends *)
(* its transfers in windows of at most depth commands, meeting the other    *)
(* threads at a spinning barrier before each window.                        *)
(*                                                                          *)
(* Blocks and pages are numbers; a page holds BlocksPerPage blocks.  The    *)
(* controller fetches in order and completes in any order; it works with    *)
(* the queue sizes the create commands gave it.                             *)
(*                                                                          *)
(* Nothing protects a queue pair that two threads work on, which LateStart  *)
(* allows: see Shared.                                                      *)
(***************************************************************************)
EXTENDS NvmQueue, Sequences, FiniteSets

CONSTANTS
    Requested,       \* --queues
    Granted,         \* numbers of queues the controller may allocate
    Depth,           \* --depth, at most what fits in a page (settings.cu)
    CtrlEntries,     \* CAP.MQES + 1 of the controllers considered
    PageEntries,     \* entries that fit in a page (64 commands in 4 KB)
    BlocksPerPage,
    Mdts,            \* log2 of what a command may transfer, in the controller's smallest pages
    PageRatio,       \* page size in use (the host's) / the controller's smallest (MPSMIN)
    Patterns,        \* --pattern
    NumBlocks,       \* --blocks
    StartBlocks,     \* --offset
    RandBlocks,      \* values of rand() % maxBlock considered
    Repetitions,     \* --repeat
    SizeWord,        \* range of size_t (2^64)
    BlkWord,         \* range of a command's block count (2^16)
    LateStart        \* TRUE: a thread may start after the loop has moved on

ASSUME BenchAssumption ==
    /\ {Requested, Depth, PageEntries, BlocksPerPage} \subseteq Nat \ {0}
    /\ Depth < PageEntries /\ Mdts \in Nat /\ Repetitions \in Nat
    /\ Granted \subseteq Nat \ {0} /\ NumBlocks \subseteq Nat \ {0}
    /\ CtrlEntries \subseteq Nat \ {0} /\ StartBlocks \subseteq Nat
    /\ {Word, SizeWord, BlkWord, PageRatio} \subseteq Nat \ {0}
    /\ 2^Mdts \div PageRatio \in Nat \ {0}     \* else prepareRange does not end
    /\ \A blocks \in NumBlocks : blocks < SizeWord         \* a size_t
    /\ Patterns \subseteq {"sequential", "linear", "random"} /\ LateStart \in BOOLEAN

-----------------------------------------------------------------------------
(* The plan *)

MinOf(a, b)      == IF a <= b THEN a ELSE b
Pages(blocks)    == (blocks + BlocksPerPage - 1) \div BlocksPerPage
PageToBlock(p)   == p * BlocksPerPage           \* NVM_PAGE_TO_BLOCK

\* nvm_admin_ctrl_info: max_data_size / page_size
max_data_pages   == 2^Mdts \div PageRatio

\* Mutant: one block too many.
BlocksLeft_Plus1(numBlocks, startBlock) == (numBlocks - startBlock + 1) % SizeWord

\* std::min(numBlocks - t.startBlock, ...): numBlocks counts from the range's start,
\* t.startBlock from the disk's.
BlocksLeft(numBlocks, startBlock) == (numBlocks - startBlock) % SizeWord

prepareRange(pageOff, startBlock, numBlocks) ==
    LET total == Pages(numBlocks)
    IN [k \in 1..((total + max_data_pages - 1) \div max_data_pages) |->
           LET page  == (k - 1) * max_data_pages
               pages == MinOf(max_data_pages, total - page)
               first == startBlock + PageToBlock(page)
           IN [startBlock |-> first,
               numBlocks  |-> MinOf(BlocksLeft(numBlocks, first), PageToBlock(pages)),
               startPage  |-> pageOff + page,
               numPages   |-> pages]]

\* Controller: the smaller of what was asked for and what either kind was granted
NumQueues(cqs, sqs) == MinOf(MinOf(cqs, Requested), MinOf(sqs, Requested))

maxDataBlock == PageToBlock(max_data_pages)

\* createQueues: the transfers of queue i of n; rand gives the random start blocks.
Transfers(pattern, start, blocks, n, rand, i) ==
    LET perQueue == Pages(blocks) \div n
        pageOff  == perQueue * (i - 1)
        first    == start + PageToBlock(pageOff)
        draws    == blocks \div maxDataBlock
    IN CASE pattern = "sequential" -> prepareRange((i - 1) * Pages(blocks), start, blocks)
         [] pattern = "linear" ->
               prepareRange(pageOff, first, IF i = n THEN (blocks - first) % SizeWord
                                                     ELSE PageToBlock(perQueue))
         [] pattern = "random" ->
               [k \in 1..draws |->
                   prepareRange(((i - 1) * draws + k - 1) * max_data_pages,
                                rand[(i - 1) * draws + k], maxDataBlock)[1]]

\* rand() % maxBlock, for every command of every queue
Draws(pattern, blocks, n) ==
    IF pattern = "random" THEN [1..(n * (blocks \div maxDataBlock)) -> RandBlocks] ELSE {<<>>}

Plans ==
    UNION {{[n |-> n, pattern |-> pattern, start |-> start, blocks |-> blocks, entries |-> entries,
             transfers |-> [i \in 1..n |-> Transfers(pattern, start, blocks, n, rand, i)]]
              : rand \in Draws(pattern, blocks, n)}
           : n \in {NumQueues(c, s) : c \in Granted, s \in Granted}, pattern \in Patterns,
             start \in StartBlocks, blocks \in NumBlocks,
             entries \in {QueueSize(e, PageEntries) : e \in CtrlEntries}}

-----------------------------------------------------------------------------
VARIABLES
    plan,                            \* settings, transfers and size of the queues
    mpc, made,                       \* main: where it is, queues or threads it has made
    pc, mine,                        \* threads: where they are, the queue each works on
    rep, pos, count, reaped,         \* repetition, transfers sent, commands of the window,
                                     \* completions of the window
    arrived, flag, localFlag,        \* the barrier
    sq, cq, sqmem, cqmem, prp,       \* queue pairs and their memory
    sqdb, cqdb,                      \* doorbells
    dev,                             \* dev[j]: queue pair j as the controller has it
    meets, sent                      \* history: barriers reached, windows submitted

mainVars    == <<plan, mpc, made>>
threadVars  == <<pc, mine, rep, pos, count, reaped>>
barrierVars == <<arrived, flag, localFlag>>
queueVars   == <<sq, cq, sqmem, cqmem, prp, sqdb, cqdb>>
history     == <<meets, sent>>
vars == <<mainVars, threadVars, barrierVars, queueVars, dev, history>>

Queues == 1..plan.n
Slots  == 0..(plan.entries - 1)
Per(v) == [i \in 1..plan.n |-> v]

NoId    == <<0, 0, 0>>
NoQueue == [cqsize |-> 0, sqsize |-> 0, head |-> 0, tail |-> 0, phase |-> 1, executing |-> {}]

Init ==
    /\ plan \in Plans
    /\ mpc = "queues" /\ made = 0
    /\ pc = Per("none") /\ mine = Per(0)
    /\ rep = Per(0) /\ pos = Per(0) /\ count = Per(0) /\ reaped = Per(0)
    /\ arrived = 0 /\ flag = 0 /\ localFlag = Per(0)
    /\ sq = Per(nvm_queue_clear(plan.entries)) /\ cq = Per(nvm_queue_clear(plan.entries))
    /\ sqmem = Per([k \in Slots |-> [id |-> NoId, list |-> 0]])
    /\ cqmem = Per([k \in Slots |-> [phase |-> 0]])
    /\ prp = Per([k \in 1..Depth |-> NoId])
    /\ sqdb = Per(0) /\ cqdb = Per(0)
    /\ dev = Per(NoQueue)
    /\ meets = Per(0) /\ sent = Per(0)

-----------------------------------------------------------------------------
(* main: queue pairs, threads, join *)

\* _nvm_admin_cq_create, _nvm_admin_sq_create: sizes are 0's based in the commands
_nvm_admin_cq_create(queue) == [size |-> queue.max_entries - 1]
_nvm_admin_sq_create(queue) == [size |-> queue.max_entries - 1]

\* The constructor of Queue: the completion queue, then the submission queue.
CreateCq ==
    /\ mpc = "queues" /\ made < plan.n /\ dev[made + 1].cqsize = 0
    /\ dev' = [dev EXCEPT ![made + 1].cqsize = _nvm_admin_cq_create(cq[made + 1]).size + 1]
    /\ UNCHANGED <<mainVars, threadVars, barrierVars, queueVars, history>>

CreateSq ==
    /\ mpc = "queues" /\ made < plan.n /\ dev[made + 1].cqsize # 0
    /\ dev' = [dev EXCEPT ![made + 1].sqsize = _nvm_admin_sq_create(sq[made + 1]).size + 1]
    /\ made' = made + 1
    /\ UNCHANGED <<plan, mpc, threadVars, barrierVars, queueVars, history>>

\* An admin command or an allocation fails: the exception ends main.
CreateFails ==
    /\ mpc = "queues" /\ mpc' = "failed"
    /\ UNCHANGED <<plan, made, threadVars, barrierVars, queueVars, dev, history>>

QueuesMade ==
    /\ mpc = "queues" /\ made = plan.n
    /\ mpc' = "threads" /\ made' = 0
    /\ UNCHANGED <<plan, threadVars, barrierVars, queueVars, dev, history>>

MakeThread ==
    /\ mpc = "threads" /\ made < plan.n
    /\ made' = made + 1
    /\ pc' = [pc EXCEPT ![made + 1] = "new"]
    /\ UNCHANGED <<plan, mpc, mine, rep, pos, count, reaped, barrierVars, queueVars, dev, history>>

\* Both loops over the threads are done: buffers, queues and the controller are released.
Join ==
    /\ mpc = "threads" /\ made = plan.n /\ \A i \in Queues : pc[i] = "done"
    /\ mpc' = "exit"
    /\ UNCHANGED <<plan, made, threadVars, barrierVars, queueVars, dev, history>>

-----------------------------------------------------------------------------
(* Threads: measure, sendWindow, flush *)

Goto(i, to) == pc' = [pc EXCEPT ![i] = to]

\* The lambda holds a reference to the loop's q: it is copied when the thread starts.  A late
\* thread finds a later queue here; the loop may also be between two queues, or over, when q
\* no longer exists: what such a thread does is undefined, and not modelled.
Start(i) ==
    /\ pc[i] = "new"
    /\ \E j \in IF LateStart THEN i..made ELSE {i} : mine' = [mine EXCEPT ![i] = j]
    /\ Goto(i, "repeat")
    /\ UNCHANGED <<mainVars, rep, pos, count, reaped, barrierVars, queueVars, dev, history>>

Work(i) == plan.transfers[mine[i]]

Repeat(i) ==
    /\ pc[i] = "repeat"
    /\ IF rep[i] < Repetitions
       THEN Goto(i, "window") /\ rep' = [rep EXCEPT ![i] = @ + 1]
       ELSE Goto(i, "done") /\ UNCHANGED rep
    /\ pos' = [pos EXCEPT ![i] = 0]
    /\ UNCHANGED <<mainVars, mine, count, reaped, barrierVars, queueVars, dev, history>>

Window(i) ==
    /\ pc[i] = "window"
    /\ Goto(i, IF pos[i] < Len(Work(i)) THEN "fill" ELSE "flush")
    /\ count' = [count EXCEPT ![i] = 0] /\ reaped' = [reaped EXCEPT ![i] = 0]
    /\ UNCHANGED <<mainVars, mine, rep, pos, barrierVars, queueVars, dev, history>>

\* A thread works on the queue of another.  The operations of nvm_queue.h are plain tests and
\* read-modify-writes of the descriptor: two threads may both find room for one command, take
\* one slot, or step over the wrap so that tail or head leaves the ring.  From then on the
\* queues are not followed: a thread may find its queue full or not, and a completion or
\* none, at any time, and what it writes there is anything (left as it was here); a command
\* written past the queue's memory is taken to reach neither the threads nor the barrier.
Shared == \E i \in Queues : mine[i] \notin {0, i}

\* The test of nvm_sq_enqueue
MayBeFull(j) == Shared \/ SqFull(sq[j])
MayFit(j)    == Shared \/ ~SqFull(sq[j])

\* A command in the queue the thread works on; list is the PRP list page, or 0.
Enqueue(j, id, list) ==
    IF Shared THEN UNCHANGED <<sqmem, sq>>
    ELSE /\ sqmem' = [sqmem EXCEPT ![j][SqSlot(sq[j])] = [id |-> id, list |-> list]]
         /\ sq' = [sq EXCEPT ![j] = nvm_sq_enqueue(@)]

\* Identifies the command: thread, repetition and transfer (0: the flush)
Id(i, t) == <<i, rep[i], t>>

\* Mutant: all commands of a window share a PRP list.
ListOf_First(i) == 1

\* The page of the queue's memory a command's PRP list is built in
ListOf(i) == 1 + count[i]

\* Only transfers of more than two pages have a PRP list.
nvm_cmd_data(t, list) == IF t.numPages > 2 THEN list ELSE 0

\* One turn of the loop that fills the window
Fill(i) ==
    LET j == mine[i]
        t == Work(i)[pos[i] + 1]
        list == nvm_cmd_data(t, ListOf(i))
    IN /\ pc[i] = "fill" /\ count[i] < Depth /\ pos[i] < Len(Work(i)) /\ MayFit(j)
       /\ Enqueue(j, Id(i, pos[i] + 1), list)
       /\ prp' = IF list = 0 \/ Shared THEN prp ELSE [prp EXCEPT ![j][list] = Id(i, pos[i] + 1)]
       /\ count' = [count EXCEPT ![i] = @ + 1] /\ pos' = [pos EXCEPT ![i] = @ + 1]
       /\ UNCHANGED <<mainVars, pc, mine, rep, reaped, barrierVars, cq, cqmem, sqdb, cqdb, dev, history>>

\* "Queue is full, should not happen!": nobody catches the exception in a thread, the
\* process is terminated.
Full(i) ==
    /\ \/ pc[i] = "fill" /\ count[i] < Depth /\ pos[i] < Len(Work(i))
       \/ pc[i] = "flush"
    /\ MayBeFull(mine[i])
    /\ mpc' = "terminated"
    /\ UNCHANGED <<plan, made, threadVars, barrierVars, queueVars, dev, history>>

Filled(i) ==
    /\ pc[i] = "fill" /\ ~(count[i] < Depth /\ pos[i] < Len(Work(i)))
    /\ Goto(i, "wait")
    /\ UNCHANGED <<mainVars, mine, rep, pos, count, reaped, barrierVars, queueVars, dev, history>>

\* nvm_sq_submit
Submit(j) ==
    IF Shared THEN UNCHANGED <<sqdb, sq>>
    ELSE /\ sqdb' = [sqdb EXCEPT ![j] = SqDoorbell(sq[j], @)]
         /\ sq' = [sq EXCEPT ![j] = nvm_sq_submit(@)]

SubmitWindow(i) ==
    /\ pc[i] = "submit" /\ Submit(mine[i])
    /\ Goto(i, "reap")
    /\ sent' = [sent EXCEPT ![i] = @ + 1]
    /\ UNCHANGED <<mainVars, mine, rep, pos, count, reaped, barrierVars, cq, sqmem, cqmem, prp, cqdb, dev, meets>>

\* Mutant: nvm_sq_update is forgotten.
TakeCompletion_NoSqUpdate(j) ==
    LET after == nvm_cq_dequeue(cq[j])
    IN IF Shared THEN UNCHANGED <<cqdb, cq, sq>>
       ELSE /\ nvm_cq_poll(cq[j], cqmem[j])
            /\ cqdb' = [cqdb EXCEPT ![j] = CqDoorbell(after, @)]
            /\ cq' = [cq EXCEPT ![j] = nvm_cq_update(after)]
            /\ UNCHANGED sq

\* nvm_cq_dequeue finds a completion; nvm_sq_update; nvm_cq_update
TakeCompletion(j) ==
    LET after == nvm_cq_dequeue(cq[j])
    IN IF Shared THEN UNCHANGED <<cqdb, cq, sq>>
       ELSE /\ nvm_cq_poll(cq[j], cqmem[j])
            /\ cqdb' = [cqdb EXCEPT ![j] = CqDoorbell(after, @)]
            /\ cq' = [cq EXCEPT ![j] = nvm_cq_update(after)]
            /\ sq' = [sq EXCEPT ![j] = nvm_sq_update(@)]

Reap(i) ==
    /\ pc[i] = "reap" /\ reaped[i] < count[i] /\ TakeCompletion(mine[i])
    /\ reaped' = [reaped EXCEPT ![i] = @ + 1]
    /\ UNCHANGED <<mainVars, pc, mine, rep, pos, count, barrierVars, sqmem, cqmem, prp, sqdb, dev, history>>

Reaped(i) ==
    /\ pc[i] = "reap" /\ reaped[i] = count[i]
    /\ Goto(i, "window")
    /\ UNCHANGED <<mainVars, mine, rep, pos, count, reaped, barrierVars, queueVars, dev, history>>

Flush(i) ==
    /\ pc[i] = "flush" /\ MayFit(mine[i])
    /\ Enqueue(mine[i], Id(i, 0), 0)
    /\ Goto(i, "flushed")
    /\ UNCHANGED <<mainVars, mine, rep, pos, count, reaped, barrierVars, cq, cqmem, prp, sqdb, cqdb, dev, history>>

FlushSubmit(i) ==
    /\ pc[i] = "flushed" /\ Submit(mine[i])
    /\ Goto(i, "flushing")
    /\ UNCHANGED <<mainVars, mine, rep, pos, count, reaped, barrierVars, cq, sqmem, cqmem, prp, cqdb, dev, history>>

FlushReap(i) ==
    /\ pc[i] = "flushing" /\ TakeCompletion(mine[i])
    /\ Goto(i, "repeat")
    /\ UNCHANGED <<mainVars, mine, rep, pos, count, reaped, barrierVars, sqmem, cqmem, prp, sqdb, dev, history>>

-----------------------------------------------------------------------------
(* Barrier::wait *)

\* Under the mutex; reset is the number of queues.
Arrive(i) ==
    /\ pc[i] = "wait"
    /\ localFlag' = [localFlag EXCEPT ![i] = 1 - flag]
    /\ arrived' = arrived + 1
    /\ Goto(i, IF arrived + 1 = plan.n THEN "zero" ELSE "spin")
    /\ meets' = [meets EXCEPT ![i] = @ + 1]
    /\ UNCHANGED <<mainVars, mine, rep, pos, count, reaped, flag, queueVars, dev, sent>>

\* Mutant: arrived is not reset.
Zero_NoReset(i) ==
    /\ pc[i] = "zero"
    /\ Goto(i, "raise")
    /\ UNCHANGED <<mainVars, mine, rep, pos, count, reaped, barrierVars, queueVars, dev, history>>

\* The last one, the mutex unlocked: two plain stores, in this order.
Zero(i) ==
    /\ pc[i] = "zero"
    /\ arrived' = 0
    /\ Goto(i, "raise")
    /\ UNCHANGED <<mainVars, mine, rep, pos, count, reaped, flag, localFlag, queueVars, dev, history>>

\* Mutant: the flag is raised, not turned.
Raise_Always1(i) ==
    /\ pc[i] = "raise"
    /\ flag' = 1
    /\ Goto(i, "submit")
    /\ UNCHANGED <<mainVars, mine, rep, pos, count, reaped, arrived, localFlag, queueVars, dev, history>>

Raise(i) ==
    /\ pc[i] = "raise"
    /\ flag' = localFlag[i]
    /\ Goto(i, "submit")
    /\ UNCHANGED <<mainVars, mine, rep, pos, count, reaped, arrived, localFlag, queueVars, dev, history>>

\* Mutant: waits for the flag it has seen, not for its change.
Spin_OldFlag(i) ==
    /\ pc[i] = "spin" /\ flag # localFlag[i]
    /\ Goto(i, "submit")
    /\ UNCHANGED <<mainVars, mine, rep, pos, count, reaped, barrierVars, queueVars, dev, history>>

Spin(i) ==
    /\ pc[i] = "spin" /\ flag = localFlag[i]
    /\ Goto(i, "submit")
    /\ UNCHANGED <<mainVars, mine, rep, pos, count, reaped, barrierVars, queueVars, dev, history>>

-----------------------------------------------------------------------------
(* The controller, as long as the queues are followed *)

Fetch(j) ==
    /\ ~Shared /\ dev[j].sqsize # 0 /\ dev[j].head # sqdb[j]
    /\ dev' = [dev EXCEPT ![j].head = Advance(@, dev[j].sqsize),
                          ![j].executing = @ \union {sqmem[j][dev[j].head]}]
    /\ UNCHANGED <<mainVars, threadVars, barrierVars, queueVars, history>>

Complete(j) ==
    /\ ~Shared /\ Advance(dev[j].tail, dev[j].cqsize) # cqdb[j]
    /\ \E c \in dev[j].executing :
          /\ cqmem' = [cqmem EXCEPT ![j][dev[j].tail] = [phase |-> dev[j].phase]]
          /\ dev' = [dev EXCEPT ![j].executing = @ \ {c},
                                ![j].tail = Advance(@, dev[j].cqsize),
                                ![j].phase = IF dev[j].tail + 1 = dev[j].cqsize THEN 1 - @ ELSE @]
    /\ UNCHANGED <<mainVars, threadVars, barrierVars, sq, cq, sqmem, prp, sqdb, cqdb, history>>

-----------------------------------------------------------------------------

MainStep   == CreateCq \/ CreateSq \/ QueuesMade \/ MakeThread \/ Join
Thread(i)  == \/ Start(i) \/ Repeat(i) \/ Window(i) \/ Fill(i) \/ Full(i) \/ Filled(i)
              \/ Arrive(i) \/ Zero(i) \/ Raise(i) \/ Spin(i)
              \/ SubmitWindow(i) \/ Reap(i) \/ Reaped(i)
              \/ Flush(i) \/ FlushSubmit(i) \/ FlushReap(i)
Running    == mpc \notin {"exit", "failed", "terminated"}

\* A thread that waits polls again; or the program has ended.
Idle == ~Running \/ \E i \in Queues : pc[i] \in {"spin", "reap", "flushing"}

Next ==
    \/ Running /\ (MainStep \/ CreateFails \/ \E i \in Queues : Thread(i))
    \/ \E j \in Queues : Fetch(j) \/ Complete(j)
    \/ Idle /\ UNCHANGED vars

\* The threads are scheduled and the controller makes progress.
Fairness ==
    /\ WF_vars(Running /\ MainStep)
    /\ \A i \in 1..Requested :
          /\ WF_vars(i \in Queues /\ Running /\ Thread(i))
          /\ WF_vars(i \in Queues /\ (Fetch(i) \/ Complete(i)))

Spec == Init /\ [][Next]_vars /\ Fairness

-----------------------------------------------------------------------------
(* Properties *)

\* Type invariant: positions in the transfers and the window and the barrier's counter are
\* in range; queue descriptors and the controller's positions too, unless two threads work
\* on one queue, which nothing protects (nvm_queue.h).
TypeOK ==
    /\ \A i \in Queues :
          /\ pos[i] # 0 => pos[i] \in 1..Len(Work(i))
          /\ count[i] \in 0..Depth /\ reaped[i] \in 0..count[i] /\ localFlag[i] \in Bit
          /\ ~Shared => /\ sq[i] \in Descriptor(plan.entries) /\ cq[i] \in Descriptor(plan.entries)
                        /\ dev[i].head \in Slots /\ dev[i].tail \in Slots
    /\ arrived \in 0..plan.n /\ flag \in Bit

\* The barrier: no thread submits its k-th window before every thread has filled its own,
\* whichever queues they work on and whatever they find there.
InStep == \A i, j \in Queues : sent[i] <= meets[j]

\* The memory of a command is left alone until the controller is done with it: its PRP
\* list is the one it was built with, a thread that goes on to its next window, or to the
\* next repetition, has nothing left with the controller, and when main unmaps the queues
\* and the buffer nothing is being executed.
CommandMemory ==
    ~Shared => \A j \in Queues :
        /\ \A c \in dev[j].executing : c.list # 0 => prp[j][c.list] = c.id
        /\ (mpc = "exit" \/ pc[j] \in {"window", "repeat", "fill", "flush"}) => dev[j].executing = {}

\* The queue is never full, as the program says, if each thread has its own queue, the
\* queue has more entries than the depth asked for (settings.cu compares the depth with
\* what fits in a page, not with the controller's limit), and the number of entries
\* divides the range of the queue's counters.
FullOnlyWhere ==
    mpc = "terminated" => Shared \/ Depth >= plan.entries \/ Word % plan.entries # 0

\* The disk blocks a command transfers: the count of 0 that nvm_cmd_rw_blks stores for one
\* block; a transfer of 0 blocks becomes one of BlkWord.
nvm_cmd_rw_blks(t) == t.startBlock..(t.startBlock + ((t.numBlocks - 1) % BlkWord))

PagesOf(t) == t.startPage..(t.startPage + t.numPages - 1)

\* The transfers of the plan, and the pages of the buffer (as many as createQueues returns)
Planned     == UNION {{i} \X DOMAIN plan.transfers[i] : i \in Queues}
Transfer(x) == plan.transfers[x[1]][x[2]]
Used        == UNION {PagesOf(Transfer(x)) : x \in Planned}

PagesApart    == \A x, y \in Planned : x # y => PagesOf(Transfer(x)) \intersect PagesOf(Transfer(y)) = {}
PagesInBuffer == \A x \in Planned : PagesOf(Transfer(x)) \subseteq 0..(Cardinality(Used) - 1)

\* The blocks of queue i: every one asked for, and each command's within its pages
BlocksCovered(i) ==
    LET list    == plan.transfers[i]
        Page(k) == list[k].startPage - (i - 1) * Pages(plan.blocks)
    IN /\ UNION {nvm_cmd_rw_blks(list[k]) : k \in DOMAIN list} = 0..(plan.blocks - 1)
       /\ \A k \in DOMAIN list : nvm_cmd_rw_blks(list[k]) \subseteq
             PageToBlock(Page(k))..(PageToBlock(Page(k) + list[k].numPages) - 1)
       /\ \A k, l \in DOMAIN list :
             k # l => nvm_cmd_rw_blks(list[k]) \intersect nvm_cmd_rw_blks(list[l]) = {}

\* The plan: the pages transfers read into lie in the buffer, no two transfers share one;
\* and with the sequential pattern from block 0 every queue's commands together cover the
\* blocks asked for, each once, and no more than fit in their pages.
PlanCovers ==
    /\ PagesApart /\ PagesInBuffer
    /\ plan.pattern = "sequential" /\ plan.start = 0 => \A i \in Queues : BlocksCovered(i)

\* settings.cu of the linear pattern: "linear sequential access pattern, queues do not
\* access same blocks".
LinearDisjoint ==
    LET BlocksOf(i) == UNION {nvm_cmd_rw_blks(plan.transfers[i][k]) : k \in 1..Len(plan.transfers[i])}
    IN plan.pattern = "linear" =>
          \A i, j \in Queues : i # j => BlocksOf(i) \intersect BlocksOf(j) = {}

Windows(i) == (Len(plan.transfers[i]) + Depth - 1) \div Depth

\* The benchmark ends, if every queue has as many windows as the others: a thread that has
\* more of them than another waits at the barrier for ever (the linear pattern, when the
\* pages do not divide by the queues).
BenchmarkEnds ==
    (\A i, j \in Queues : Windows(i) = Windows(j)) /\ []~Shared => <>~Running

=============================================================================
