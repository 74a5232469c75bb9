------------------------------ MODULE NvmQueue ------------------------------
(***************************************************************************)
(* The queue descriptor of libnvm (nvm_queue_t, include/nvm_types.h) and    *)
(* the inline operations on it (include/nvm_queue.h, src/queue.c), as       *)
(* operators from a descriptor to the descriptor the call leaves behind.    *)
(*                                                                          *)
(* The same type describes submission queues (head advanced by the reaper,  *)
(* tail by the enqueuer) and completion queues (head advanced by the        *)
(* reaper, tail unused).  Queue memory and the doorbell register belong to  *)
(* the modules that use a queue: the operators below only say which slot    *)
(* an operation addresses and what it writes to the doorbell.               *)
(***************************************************************************)
EXTENDS Integers

CONSTANT Word   \* size of the range of the head/tail counters (2^32 in the code)

Bit == {0, 1}

\* What a queue descriptor with room for n entries may hold.  The transient
\* head n is explained at SqHeadIncrement.
Descriptor(n) ==
    [max_entries : {n}, head : 0..n, tail : 0..(n-1), phase : Bit, last : 0..(n-1)]

\* What it holds between two operations
InRing(n) ==
    [max_entries : {n}, head : 0..(n-1), tail : 0..(n-1), phase : Bit, last : 0..(n-1)]

\* The smaller of the controller's limit and what fits in a single page.
QueueSize(ctrl_max_entries, entries_per_page) ==
    IF ctrl_max_entries <= entries_per_page THEN ctrl_max_entries
                                            ELSE entries_per_page

nvm_queue_clear(n) ==
    [max_entries |-> n, head |-> 0, tail |-> 0, phase |-> 1, last |-> 0]

-----------------------------------------------------------------------------
(* Submission side *)

\* Mutant: the last free slot is handed out too.
SqFull_OneLate(sq) ==
    ((sq.tail - sq.head) % Word) % sq.max_entries = sq.max_entries

\* head and tail are uint32_t: their difference wraps modulo Word before it
\* is reduced modulo the number of entries.
SqFull(sq) ==
    ((sq.tail - sq.head) % Word) % sq.max_entries = sq.max_entries - 1

\* The slot the command is built in is the one tail addressed before the call.
SqSlot(sq) == sq.tail

nvm_sq_enqueue(sq) ==
    IF sq.tail + 1 = sq.max_entries
      THEN [sq EXCEPT !.tail = 0, !.phase = 1 - sq.phase]
      ELSE [sq EXCEPT !.tail = sq.tail + 1]

\* Command identifier stored by an enqueue; sq is the descriptor after it.
SqCid(sq) == sq.tail + (1 - sq.phase) * sq.max_entries

\* Mutant: the submitted tail is not remembered.
nvm_sq_submit_Forgets(sq) == sq

nvm_sq_submit(sq) == [sq EXCEPT !.last = sq.tail]

\* The SQ tail doorbell after nvm_sq_submit, db being its value before.
SqDoorbell(sq, db) == IF sq.last # sq.tail THEN sq.tail ELSE db

\* nvm_sq_update is "if (++head == max_entries) head = 0" on a plain field that
\* another thread reads: the compiler may store the incremented head before
\* it stores 0, so that max_entries itself is visible for a moment.
SqHeadIncrement(sq) == [sq EXCEPT !.head = sq.head + 1]

\* Mutant: the head is never brought back into the ring.
SqHeadWrap_Missing(sq) == sq

SqHeadWrap(sq) ==
    IF sq.head = sq.max_entries THEN [sq EXCEPT !.head = 0] ELSE sq

nvm_sq_update(sq) == SqHeadWrap(SqHeadIncrement(sq))

-----------------------------------------------------------------------------
(* Completion side *)

\* nvm_cq_poll finds an entry iff the tag in memory equals the phase.
nvm_cq_poll(cq, mem) == mem[cq.head].phase = cq.phase

\* Mutant: the phase is not flipped when the head wraps.
nvm_cq_dequeue_KeepsPhase(cq) ==
    [cq EXCEPT !.head = IF cq.head + 1 = cq.max_entries THEN 0 ELSE cq.head + 1]

\* nvm_cq_dequeue after a successful poll.
nvm_cq_dequeue(cq) ==
    IF cq.head + 1 = cq.max_entries
      THEN [cq EXCEPT !.head = 0, !.phase = 1 - cq.phase]
      ELSE [cq EXCEPT !.head = cq.head + 1]

nvm_cq_update(cq) == [cq EXCEPT !.last = cq.head]

\* Mutant: the doorbell write is lost.
CqDoorbell_NotRung(cq, db) == db

\* The CQ head doorbell after nvm_cq_update, db being its value before.
CqDoorbell(cq, db) == IF cq.last # cq.head THEN cq.head ELSE db

-----------------------------------------------------------------------------
(* Ring geometry: what the host and the controller agree on *)

\* Successor of slot i in a ring of n slots.
Advance(i, n) == IF i + 1 = n THEN 0 ELSE i + 1

\* Number of steps from slot a to slot b in a ring of n slots.
Dist(a, b, n) == IF b >= a THEN b - a ELSE b - a + n
=============================================================================
