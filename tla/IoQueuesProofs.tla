--------------------------- MODULE IoQueuesProofs ---------------------------
(***************************************************************************)
(* Proofs about IoQueues for every number of submission queues, every queue *)
(* size, every amount of work and both completion orders.                   *)
(***************************************************************************)
EXTENDS IoQueuesInv, NvmQueueProofs, FiniteSetTheorems, TLAPS

-----------------------------------------------------------------------------
(* Arithmetic *)

\* The sizes QueueSize computes are at least two.
LEMMA SizeFacts == N \in Nat /\ N >= 2 /\ M \in Nat /\ M >= 2
  BY SizesAssumption DEF N, M, QueueSize

\* When the ring divides the counters' range, the full test of nvm_sq_enqueue
\* on wrapping unsigned counters computes the number of slots in use, also
\* for the transient head N.
LEMMA FullTest ==
    ASSUME RingDivides, NEW h \in 0..N, NEW t \in 0..(N - 1)
    PROVE  ((t - h) % Word) % N = Dist(IF h = N THEN 0 ELSE h, t, N)
  <1>1. PICK k \in Nat : Word = k * N
    BY DEF RingDivides
  <1>2. N \in Nat /\ N >= 2 /\ Word \in Nat /\ Word > N
    BY SizeFacts, SizesAssumption
  <1>3. CASE t >= h
    <2>1. (t - h) % Word = t - h
      BY <1>2, <1>3
    <2>2. (t - h) % N = t - h
      BY <1>2, <1>3
    <2> QED  BY <1>2, <1>3, <2>1, <2>2 DEF Dist
  <1>4. CASE t < h
    <2>1. (t - h) % Word = t - h + Word
      BY <1>2, <1>4
    <2>2. k >= 1
      BY <1>1, <1>2
    <2>3. t - h + Word = (k - 1) * N + (t - h + N)
      BY <1>1, <1>2
    <2>4. k - 1 \in Nat /\ t - h + N \in 0..(N - 1)
      BY <1>2, <1>4, <2>2
    <2>5. \A j \in Nat, r \in 0..(N - 1) : (j * N + r) % N = r
      BY <1>2, ModMultiple
    <2>6. ((k - 1) * N + (t - h + N)) % N = t - h + N
      BY <2>4, <2>5
    <2> QED  BY <1>2, <1>4, <2>1, <2>3, <2>6 DEF Dist
  <1> QED  BY <1>2, <1>3, <1>4

\* The types of one submission queue's positions and counters.
LEMMA QueueFacts ==
    ASSUME TypeOK, NEW q \in SQs
    PROVE  /\ sq[q] \in Descriptor(N) /\ sq[q].max_entries = N
           /\ sq[q].head \in 0..N /\ sq[q].tail \in Slots /\ sq[q].last \in Slots
           /\ SqHead(q) \in Slots
           /\ sqdb[q] \in Slots /\ dsqhd[q] \in Slots /\ slot[q] \in Slots
           /\ counter[q] \in Nat /\ freed[q] \in Nat /\ fetched[q] \in Nat
           /\ q # 0
  <1>1. sq[q] \in Descriptor(N)
    BY DEF TypeOK
  <1>2. sq[q].head \in 0..N /\ sq[q].tail \in Slots /\ sq[q].last \in Slots
    BY <1>1 DEF Descriptor, Slots
  <1>3. SqHead(q) \in Slots
    BY <1>2, SizeFacts DEF SqHead, Slots
  <1>4. sq[q].max_entries = N /\ q # 0
    BY <1>1, QueuesAssumption DEF Descriptor
  <1>5. sqdb[q] \in Slots /\ dsqhd[q] \in Slots /\ slot[q] \in Slots
    BY DEF TypeOK
  <1>6. counter[q] \in Nat /\ freed[q] \in Nat /\ fetched[q] \in Nat
    BY DEF TypeOK
  <1> QED  BY <1>1, <1>2, <1>3, <1>4, <1>5, <1>6

\* A slot's position counted from the head is one of the ring's positions.
LEMMA SqPosRange ==
    ASSUME TypeOK, NEW q \in SQs, NEW i \in Slots
    PROVE  SqPos(q, i) \in 0..(N - 1) /\ (SqPos(q, i) = 0 <=> i = SqHead(q))
  BY QueueFacts, DistRange, SizeFacts DEF SqPos, Slots

-----------------------------------------------------------------------------
(* What a step leaves alone *)

\* A submission queue keeps its part of the invariant in a step that changes
\* neither its descriptor, memory and registers nor its producer's progress.
LEMMA SqFrame ==
    ASSUME NEW q \in SQs, SqPositions(q), SqContents(q),
           sq'[q] = sq[q], sqmem'[q] = sqmem[q], sqdb'[q] = sqdb[q],
           counter'[q] = counter[q], freed'[q] = freed[q],
           fetched'[q] = fetched[q], dsqhd'[q] = dsqhd[q],
           slot'[q] = slot[q], Building(q)' = Building(q),
           sq[q].head = N => cpc' = "sq_wrap" /\ cqmem'[cpl'].sqid = q
    PROVE  SqPositions(q)' /\ SqContents(q)'
  BY DEF SqPositions, SqContents, SqPos, SqHead, Enqueued

\* The completion queue keeps its part of the invariant in a step that does
\* not move the consumer past an entry or touch the queue.
LEMMA CqFrame ==
    ASSUME CqPositions, CqContents, CplOrder, Reaped' = Reaped, Held' = Held,
           (cpc = "sq_update")' = (cpc = "sq_update"),
           UNCHANGED <<cq, cqmem, cqdb, dcqtl, dphase, posted, cpl, freed,
                       completed>>
    PROVE  CqPositions' /\ CqContents' /\ CplOrder'
  BY DEF CqPositions, CqContents, CplOrder, Unfreed, Pending, Expected, CqPos

\* So does a queue's execution state in a step of the host.
LEMMA ExecutionFrame ==
    ASSUME NEW q \in SQs, Execution(q), executing'[q] = executing[q],
           fetched'[q] = fetched[q], completed'[q] = completed[q],
           freed'[q] = freed[q]
    PROVE  Execution(q)'
  BY DEF Execution

-----------------------------------------------------------------------------
(* Producers *)

\* A successful enqueue moves the tail one slot on, short of the head.
LEMMA EnqueueMoves ==
    ASSUME RingDivides, NEW q \in SQs, TypeOK, ~SqFull(sq[q])
    PROVE  /\ SqPos(q, sq[q].tail) # N - 1
           /\ nvm_sq_enqueue(sq[q]).tail = Advance(sq[q].tail, N)
           /\ nvm_sq_enqueue(sq[q]).head = sq[q].head
           /\ nvm_sq_enqueue(sq[q]).last = sq[q].last
           /\ nvm_sq_enqueue(sq[q]) \in Descriptor(N)
           /\ SqCid(nvm_sq_enqueue(sq[q])) \in 0..(2*N - 1)
  <1>1. sq[q] \in Descriptor(N)
    BY DEF TypeOK
  <1>2. /\ sq[q].head \in 0..N /\ sq[q].tail \in 0..(N - 1)
        /\ sq[q].max_entries = N /\ sq[q].phase \in Bit
    BY <1>1 DEF Descriptor
  <1>3. SqPos(q, sq[q].tail) # N - 1
    <2>1. \A h \in 0..N, t \in 0..(N - 1) :
            ((t - h) % Word) % N = Dist(IF h = N THEN 0 ELSE h, t, N)
      BY FullTest
    <2>2. ((sq[q].tail - sq[q].head) % Word) % N
            = Dist(IF sq[q].head = N THEN 0 ELSE sq[q].head, sq[q].tail, N)
      BY <1>2, <2>1
    <2> QED  BY <1>2, <2>2 DEF SqFull, SqPos, SqHead
  <1>4. /\ nvm_sq_enqueue(sq[q]).tail = Advance(sq[q].tail, N)
        /\ nvm_sq_enqueue(sq[q]).head = sq[q].head
        /\ nvm_sq_enqueue(sq[q]).last = sq[q].last
        /\ nvm_sq_enqueue(sq[q]).max_entries = N
        /\ nvm_sq_enqueue(sq[q]).phase \in Bit
    BY <1>1, <1>2 DEF nvm_sq_enqueue, Advance, Descriptor, Bit
  <1>5. nvm_sq_enqueue(sq[q]) \in Descriptor(N)
    <2>1. CASE sq[q].tail + 1 = N
      <3>1. nvm_sq_enqueue(sq[q]) = [sq[q] EXCEPT !.tail = 0, !.phase = 1 - sq[q].phase]
        BY <1>2, <2>1 DEF nvm_sq_enqueue
      <3>2. 0 \in 0..(N - 1) /\ 1 - sq[q].phase \in Bit
        BY <1>2, SizeFacts DEF Bit
      <3> QED  BY <1>1, <3>1, <3>2 DEF Descriptor
    <2>2. CASE sq[q].tail + 1 # N
      <3>1. nvm_sq_enqueue(sq[q]) = [sq[q] EXCEPT !.tail = sq[q].tail + 1]
        BY <1>2, <2>2 DEF nvm_sq_enqueue
      <3>2. sq[q].tail + 1 \in 0..(N - 1)
        BY <1>2, <2>2, SizeFacts
      <3> QED  BY <1>1, <3>1, <3>2 DEF Descriptor
    <2> QED  BY <2>1, <2>2
  <1>6. SqCid(nvm_sq_enqueue(sq[q])) \in 0..(2*N - 1)
    <2>1. nvm_sq_enqueue(sq[q]).tail \in 0..(N - 1)
      BY <1>2, <1>4, AdvanceRange, SizeFacts
    <2>2. CASE nvm_sq_enqueue(sq[q]).phase = 0
      BY <1>4, <2>1, <2>2, SizeFacts DEF SqCid
    <2>3. CASE nvm_sq_enqueue(sq[q]).phase = 1
      BY <1>4, <2>1, <2>3, SizeFacts DEF SqCid
    <2> QED  BY <1>4, <2>2, <2>3 DEF Bit
  <1> QED  BY <1>3, <1>4, <1>5, <1>6

\* Both kinds of enqueue take the slot at the tail, short of the head, and
\* leave every built command where it is.
LEMMA TakeSlotStep ==
    ASSUME RingDivides, IInv, NEW p \in SQs, ppc[p] = "enqueue", TakeSlot(p),
           NEW s \in {"fill", "flush"}, ppc' = [ppc EXCEPT ![p] = s],
           UNCHANGED <<cq, counter, prp, sqdb, cqdb, cpc, cpl, cancel, mpc,
                       joined, commands, devVars, freed>>
    PROVE  IInv'
  <1> USE DEF IInv
  <1>1. /\ SqPos(p, sq[p].tail) # N - 1
        /\ nvm_sq_enqueue(sq[p]).tail = Advance(sq[p].tail, N)
        /\ nvm_sq_enqueue(sq[p]).head = sq[p].head
        /\ nvm_sq_enqueue(sq[p]).last = sq[p].last
        /\ nvm_sq_enqueue(sq[p]) \in Descriptor(N)
        /\ SqCid(nvm_sq_enqueue(sq[p])) \in 0..(2*N - 1)
    BY EnqueueMoves DEF TakeSlot
  <1>2. sq[p].tail \in Slots /\ SqHead(p) \in Slots
    <2>1. sq[p] \in Descriptor(N)
      BY DEF TypeOK
    <2> QED  BY <2>1, SizeFacts DEF Descriptor, Slots, SqHead
  <1> DEFINE i == sq[p].tail
             rec == [sqmem[p][i] EXCEPT !.cid = SqCid(nvm_sq_enqueue(sq[p]))]
  <1>3. /\ sq' = [sq EXCEPT ![p] = nvm_sq_enqueue(sq[p])]
        /\ slot' = [slot EXCEPT ![p] = i]
        /\ sqmem' = [sqmem EXCEPT ![p] = [sqmem[p] EXCEPT ![i] = rec]]
    BY DEF TakeSlot, SqSlot
  <1>4. rec \in Command /\ rec.cmd = sqmem[p][i].cmd
    <2>1. sqmem[p][i] \in Command
      BY <1>2 DEF TypeOK
    <2> QED  BY <1>1, <2>1 DEF Command
  <1>5. sq'[p] = nvm_sq_enqueue(sq[p]) /\ slot'[p] = i
    BY <1>3 DEF TypeOK
  <1>6. sqmem'[p] = [sqmem[p] EXCEPT ![i] = rec]
    BY <1>3 DEF TypeOK
  <1> HIDE DEF i, rec
  <1>7. TypeOK'
    <2>1. sq' \in [SQs -> Descriptor(N)] /\ slot' \in [SQs -> Slots]
      BY <1>1, <1>2, <1>3 DEF TypeOK, i
    <2>2. [sqmem[p] EXCEPT ![i] = rec] \in [Slots -> Command]
      BY <1>4 DEF TypeOK
    <2>3. sqmem' \in [SQs -> [Slots -> Command]]
      BY <1>3, <2>2 DEF TypeOK
    <2>4. ppc' \in [SQs -> {"enqueue", "fill", "flush", "hang", "done"}]
      BY DEF TypeOK
    <2> QED  BY <2>1, <2>3, <2>4 DEF TypeOK, devVars
  <1>8. SqPositions(p)' /\ SqContents(p)'
    <2>1. ~Building(p) /\ Building(p)' /\ SqHead(p)' = SqHead(p)
      BY <1>1, <1>5 DEF TypeOK, Building, SqHead
    <2>2. SqPos(p, i) = counter[p] - freed[p]
      BY <2>1 DEF SqPositions, SqPos, Enqueued, i, TypeOK
    <2>3. SqPos(p, Advance(i, N)) = SqPos(p, i) + 1
      BY <1>1, <1>2, DistAdvanceFar, SizeFacts DEF SqPos, Slots, i
    <2>4. \A j \in Slots : sqmem'[p][j].cmd = sqmem[p][j].cmd
      BY <1>2, <1>4, <1>6 DEF TypeOK, i
    <2>5. counter[p] \in Nat /\ freed[p] \in Nat
      BY DEF TypeOK
    <2> QED
      BY <1>1, <1>5, <2>1, <2>2, <2>3, <2>4, <2>5
      DEF SqPositions, SqContents, SqPos, Enqueued, devVars, i
  <1>9. ASSUME NEW q \in SQs, q # p
        PROVE  SqPositions(q)' /\ SqContents(q)'
    <2>1. /\ sq'[q] = sq[q] /\ sqmem'[q] = sqmem[q] /\ slot'[q] = slot[q]
          /\ Building(q)' = Building(q)
      BY <1>3, <1>9 DEF TypeOK, Building
    <2> QED  BY <2>1, SqFrame DEF devVars, SqPositions
  <1>10. \A q \in SQs : Execution(q)'
    BY ExecutionFrame DEF devVars
  <1>11. CqPositions' /\ CqContents' /\ CplOrder'
    BY CqFrame DEF devVars, Reaped, Held
  <1> QED  BY <1>7, <1>8, <1>9, <1>10, <1>11

\* A submit raises the doorbell to the tail: it exposes built commands only.
LEMMA SubmitStep ==
    ASSUME IInv, NEW p \in SQs, ppc[p] = "enqueue", Submit(p),
           NEW s \in {"enqueue", "done"}, ppc' = [ppc EXCEPT ![p] = s],
           UNCHANGED <<cq, counter, sqmem, prp, cqdb, slot, cpc, cpl, cancel,
                       mpc, joined, commands, devVars, freed>>
    PROVE  IInv'
  <1> USE DEF IInv
  <1>1. sq[p] \in Descriptor(N)
    BY DEF TypeOK
  <1>2. sq'[p] = [sq[p] EXCEPT !.last = sq[p].tail] /\ sqdb'[p] = sq[p].tail
    BY DEF Submit, nvm_sq_submit, SqDoorbell, TypeOK, SqPositions
  <1>3. /\ sq'[p] \in Descriptor(N) /\ sq'[p].head = sq[p].head
        /\ sq'[p].tail = sq[p].tail /\ sq'[p].last = sq[p].tail
        /\ sqdb'[p] \in Slots
    BY <1>1, <1>2 DEF Descriptor, Slots
  <1>4. TypeOK'
    <2>1. sq' \in [SQs -> Descriptor(N)] /\ sqdb' \in [SQs -> Slots]
      BY <1>3 DEF TypeOK, Submit
    <2>2. ppc' \in [SQs -> {"enqueue", "fill", "flush", "hang", "done"}]
      BY DEF TypeOK
    <2> QED  BY <2>1, <2>2 DEF TypeOK, devVars
  <1>5. ~Building(p) /\ ~Building(p)'
    BY DEF TypeOK, Building
  <1>6. SqPositions(p)' /\ SqContents(p)'
    <2>1. SqHead(p)' = SqHead(p)
      BY <1>3 DEF SqHead
    <2>2. counter[p] \in Nat /\ freed[p] \in Nat /\ fetched[p] \in Nat
      BY DEF TypeOK
    <2>3. SqPos(p, dsqhd[p]) <= SqPos(p, sq[p].tail)
      <3>1. SqPos(p, dsqhd[p]) \in Int /\ SqPos(p, sqdb[p]) \in Int
        BY QueueFacts, SqPosRange, SizeFacts
      <3> QED  BY <1>5, <2>2, <3>1 DEF SqPositions, Enqueued
    <2> QED
      BY <1>2, <1>3, <1>5, <2>1, <2>2, <2>3
      DEF SqPositions, SqContents, SqPos, Enqueued, devVars
  <1>7. ASSUME NEW q \in SQs, q # p
        PROVE  SqPositions(q)' /\ SqContents(q)'
    <2>1. sq'[q] = sq[q] /\ sqdb'[q] = sqdb[q] /\ Building(q)' = Building(q)
      BY <1>7 DEF TypeOK, Submit, Building
    <2> QED  BY <2>1, SqFrame DEF devVars, SqPositions
  <1>8. \A q \in SQs : Execution(q)'
    BY ExecutionFrame DEF devVars
  <1>9. CqPositions' /\ CqContents' /\ CplOrder'
    BY CqFrame DEF devVars, Reaped, Held
  <1> QED  BY <1>4, <1>6, <1>7, <1>8, <1>9

\* Building the command completes the slot that was taken last.
LEMMA BuildStep ==
    ASSUME IInv, NEW p \in SQs, Building(p), NEW rec \in Command,
           rec.cmd = counter[p] + 1,
           sqmem' = [sqmem EXCEPT ![p] = [sqmem[p] EXCEPT ![slot[p]] = rec]],
           counter' = [counter EXCEPT ![p] = counter[p] + 1],
           ppc' = [ppc EXCEPT ![p] = "enqueue"],
           prp' \in [SQs -> [1..N -> Nat]],
           UNCHANGED <<sq, cq, sqdb, cqdb, slot, cpc, cpl, cancel, mpc, joined,
                       commands, devVars, freed>>
    PROVE  IInv'
  <1> USE DEF IInv
  <1>1. /\ counter[p] \in Nat /\ freed[p] \in Nat /\ slot[p] \in Slots
        /\ p # 0 /\ SqHead(p) \in Slots
    BY QueueFacts
  <1>2. /\ sqmem'[p] = [sqmem[p] EXCEPT ![slot[p]] = rec]
        /\ counter'[p] = counter[p] + 1 /\ counter'[0] = counter[0]
        /\ ~Building(p)'
    BY <1>1 DEF TypeOK, Building
  <1>3. TypeOK'
    <2>1. [sqmem[p] EXCEPT ![slot[p]] = rec] \in [Slots -> Command]
      BY <1>1 DEF TypeOK
    <2>2. sqmem' \in [SQs -> [Slots -> Command]]
      BY <2>1 DEF TypeOK
    <2>3. counter' \in [SQs \cup {0} -> Nat]
      BY <1>1 DEF TypeOK
    <2>4. ppc' \in [SQs -> {"enqueue", "fill", "flush", "hang", "done"}]
      BY DEF TypeOK
    <2> QED  BY <2>2, <2>3, <2>4 DEF TypeOK, devVars
  <1>4. SqPositions(p)'
    <2>1. SqHead(p)' = SqHead(p) /\ sqdb[p] \in Slots
      BY DEF SqHead, TypeOK
    <2>2. SqPos(p, sqdb[p]) \in Int
      BY <1>1, <2>1, DistRange, SizeFacts DEF SqPos, Slots
    <2> QED
      BY <1>1, <1>2, <2>1, <2>2 DEF SqPositions, SqPos, Enqueued, devVars
  <1>5. SqContents(p)'
    <2>0. SUFFICES ASSUME NEW i \in Slots, SqPos(p, i) < counter[p] + 1 - freed[p]
                   PROVE  sqmem'[p][i].cmd = freed[p] + SqPos(p, i) + 1
      BY <1>1, <1>2 DEF SqContents, SqPos, SqHead
    <2>1. SqPos(p, i) \in 0..(N - 1)
      BY SqPosRange
    <2>2. SqPos(p, slot[p]) = counter[p] - freed[p]
      BY DEF SqPositions
    <2>3. CASE i = slot[p]
      BY <1>1, <1>2, <2>1, <2>2, <2>3 DEF TypeOK
    <2>4. CASE i # slot[p]
      <3>1. SqPos(p, i) # SqPos(p, slot[p])
        BY <1>1, <2>4, DistInjective, SizeFacts DEF SqPos, Slots
      <3>2. SqPos(p, i) < counter[p] - freed[p]
        BY <1>1, <2>0, <2>1, <2>2, <3>1, SizeFacts
      <3>3. sqmem'[p][i] = sqmem[p][i]
        BY <1>2, <2>4 DEF TypeOK
      <3> QED  BY <2>1, <3>2, <3>3 DEF SqContents
    <2> QED  BY <2>3, <2>4
  <1>6. ASSUME NEW q \in SQs, q # p
        PROVE  SqPositions(q)' /\ SqContents(q)'
    <2>1. /\ sqmem'[q] = sqmem[q] /\ counter'[q] = counter[q]
          /\ Building(q)' = Building(q)
      BY <1>6 DEF TypeOK, Building
    <2> QED  BY <2>1, SqFrame DEF devVars, SqPositions
  <1>7. \A q \in SQs : Execution(q)'
    BY ExecutionFrame DEF devVars
  <1>8. CqPositions' /\ CqContents' /\ CplOrder'
    BY <1>2, CqFrame DEF devVars, Reaped, Held
  <1> QED  BY <1>3, <1>4, <1>5, <1>6, <1>7, <1>8

\* Steps that only move a thread's control, and no thread into or out of the
\* middle of an operation.
LEMMA ControlStep ==
    ASSUME IInv, UNCHANGED <<hostVars, slot, cpl, devVars, freed>>, TypeOK',
           \A q \in SQs : Building(q)' = Building(q),
           cpc' = cpc \/ (cpc \in {"loop", "dequeue"} /\ cpc' \in {"loop", "dequeue", "done"})
    PROVE  IInv'
  <1> USE DEF IInv
  <1>1. /\ Reaped' = Reaped /\ Held' = Held
        /\ (cpc = "sq_update")' = (cpc = "sq_update")
    BY DEF Reaped, Held, hostVars
  <1>2. ASSUME NEW q \in SQs
        PROVE  SqPositions(q)' /\ SqContents(q)'
    BY SqFrame DEF devVars, hostVars, SqPositions
  <1>3. \A q \in SQs : Execution(q)'
    BY ExecutionFrame DEF devVars
  <1>4. CqPositions' /\ CqContents' /\ CplOrder'
    BY <1>1, CqFrame DEF devVars, hostVars
  <1> QED  BY <1>2, <1>3, <1>4

-----------------------------------------------------------------------------
(* Consumer *)

\* The types of the completion queue's positions and counters.
LEMMA CqFacts ==
    ASSUME IInv
    PROVE  /\ cq \in Descriptor(M) /\ cq.max_entries = M
           /\ cq.head \in CqSlots /\ cq.last \in CqSlots /\ cq.phase \in Bit
           /\ cqdb \in CqSlots /\ dcqtl \in CqSlots /\ cpl \in CqSlots
           /\ dphase \in Bit /\ posted \in Nat /\ Reaped \in Nat
           /\ \A i \in CqSlots : cqmem[i] \in Completion
           /\ \A i \in CqSlots : /\ cqmem[i].phase \in Bit /\ cqmem[i].no \in Nat
                                 /\ cqmem[i].qno \in Nat
  <1>1. TypeOK /\ cq.head # M
    BY DEF IInv, CqPositions
  <1>2. cq \in Descriptor(M)
    BY <1>1 DEF TypeOK
  <1>3. /\ cq.max_entries = M /\ cq.head \in CqSlots /\ cq.last \in CqSlots
        /\ cq.phase \in Bit
    BY <1>1, <1>2, SizeFacts DEF Descriptor, CqSlots
  <1>4. /\ cqdb \in CqSlots /\ dcqtl \in CqSlots /\ cpl \in CqSlots
        /\ dphase \in Bit /\ posted \in Nat
    BY <1>1 DEF TypeOK
  <1>5. Reaped \in Nat
    BY <1>1 DEF TypeOK, Reaped
  <1>6. \A i \in CqSlots : cqmem[i] \in Completion
    BY <1>1 DEF TypeOK
  <1>7. \A i \in CqSlots : /\ cqmem[i].phase \in Bit /\ cqmem[i].no \in Nat
                           /\ cqmem[i].qno \in Nat
    BY <1>6 DEF Completion
  <1> QED  BY <1>2, <1>3, <1>4, <1>5, <1>6, <1>7

\* A slot's position counted from the head is one of the ring's positions.
LEMMA CqPosRange ==
    ASSUME IInv, NEW i \in CqSlots
    PROVE  CqPos(i) \in 0..(M - 1) /\ (CqPos(i) = 0 <=> i = cq.head)
  BY CqFacts, DistRange, SizeFacts DEF CqPos, CqSlots

\* Outside nvm_sq_update no submission queue shows the transient head.
LEMMA NoTransient ==
    ASSUME IInv, NEW q \in SQs, cpc # "sq_wrap"
    PROVE  sq[q].head # N
  BY DEF IInv, SqPositions

\* nvm_cq_dequeue takes the oldest pending entry: the head moves past it and
\* the phase it will look for flips when the head wraps.
LEMMA DequeueStep ==
    ASSUME IInv, ConsumerDequeue
    PROVE  IInv'
  <1> DEFINE h == cq.head
  <1>1. /\ cpc = "dequeue" /\ cqmem[h].phase = cq.phase
        /\ cpl' = h /\ cq' = nvm_cq_dequeue(cq) /\ cpc' = "sq_update"
        /\ UNCHANGED <<sq, counter, sqmem, prp, sqdb, cqdb, ppc, slot, cancel,
                       mpc, joined, commands, devVars, freed>>
    BY DEF ConsumerDequeue, nvm_cq_poll
  <1>2. /\ h \in CqSlots /\ dcqtl \in CqSlots /\ cq.phase \in Bit
        /\ cq.max_entries = M /\ cq \in Descriptor(M) /\ Reaped \in Nat
    BY CqFacts
  <1>3. /\ cq'.head = Advance(h, M) /\ cq'.last = cq.last
        /\ cq'.phase = IF h + 1 = M THEN 1 - cq.phase ELSE cq.phase
        /\ cq' \in Descriptor(M)
    <2>1. CASE h + 1 = M
      <3>1. cq' = [cq EXCEPT !.head = 0, !.phase = 1 - cq.phase]
        BY <1>1, <1>2, <2>1 DEF nvm_cq_dequeue
      <3>2. 1 - cq.phase \in Bit /\ 0 \in 0..M
        BY <1>2, SizeFacts DEF Bit
      <3> QED  BY <1>2, <2>1, <3>1, <3>2 DEF Descriptor, Advance
    <2>2. CASE h + 1 # M
      <3>1. cq' = [cq EXCEPT !.head = h + 1]
        BY <1>1, <1>2, <2>2 DEF nvm_cq_dequeue
      <3>2. h + 1 \in 0..M
        BY <1>2, SizeFacts DEF CqSlots
      <3> QED  BY <1>2, <2>2, <3>1, <3>2 DEF Descriptor, Advance
    <2> QED  BY <2>1, <2>2
  <1>4. Pending(h) /\ dcqtl # h
    <2>1. Pending(h)
      BY <1>1, <1>2, SizeFacts DEF IInv, CqContents, Expected, CqSlots
    <2> QED  BY <1>2, <2>1, CqPosRange DEF Pending
  <1>5. ~Held /\ Held' /\ Reaped' = Reaped + 1 /\ cqdb = h
    <2>1. ~Held /\ Held'
      BY <1>1 DEF Held
    <2>2. Reaped' = Reaped + 1
      BY <1>1 DEF Reaped, IInv, TypeOK
    <2> QED  BY <2>1, <2>2 DEF IInv, CqPositions
  <1>6. \A i \in CqSlots :
          /\ CqPos(i)' = IF i = h THEN M - 1 ELSE CqPos(i) - 1
          /\ i # h => Expected(i)' = Expected(i)
          /\ i = h => Expected(i)' # cqmem[i].phase
    <2> SUFFICES ASSUME NEW i \in CqSlots
                 PROVE  /\ CqPos(i)' = IF i = h THEN M - 1 ELSE CqPos(i) - 1
                        /\ i # h => Expected(i)' = Expected(i)
                        /\ i = h => Expected(i)' # cqmem[i].phase
      OBVIOUS
    <2>1. CqPos(i)' = IF i = h THEN M - 1 ELSE CqPos(i) - 1
      BY <1>2, <1>3, DistAdvanceNear, SizeFacts DEF CqPos, CqSlots
    <2>2. CASE h + 1 = M
      BY <1>1, <1>2, <1>3, <2>1, <2>2, SizeFacts DEF Expected, Advance, CqSlots, Bit
    <2>3. CASE h + 1 # M
      BY <1>1, <1>2, <1>3, <2>1, <2>3, SizeFacts DEF Expected, Advance, CqSlots, Bit
    <2> QED  BY <2>1, <2>2, <2>3
  <1>7. \A i \in CqSlots : /\ CqPos(i) \in 0..(M - 1)
                           /\ CqPos(dcqtl) \in 0..(M - 1)
                           /\ Pending(i)' <=> (Pending(i) /\ i # h)
    <2> SUFFICES ASSUME NEW i \in CqSlots
                 PROVE  /\ CqPos(i) \in 0..(M - 1) /\ CqPos(dcqtl) \in 0..(M - 1)
                        /\ Pending(i)' <=> (Pending(i) /\ i # h)
      OBVIOUS
    <2>1. CqPos(i) \in 0..(M - 1) /\ CqPos(dcqtl) \in 0..(M - 1)
      BY <1>2, CqPosRange
    <2>2. CqPos(dcqtl)' = CqPos(dcqtl) - 1
      BY <1>1, <1>2, <1>4, <1>6 DEF CqPos, devVars
    <2>3. Pending(i)' <=> CqPos(i)' < CqPos(dcqtl)'
      BY DEF Pending
    <2>4. CqPos(i)' = IF i = h THEN M - 1 ELSE CqPos(i) - 1
      BY <1>6
    <2> QED  BY <2>1, <2>2, <2>3, <2>4, SizeFacts DEF Pending
  <1> HIDE DEF h
  <1>8. TypeOK'
    <2>1. cq' \in Descriptor(M) /\ cpl' \in CqSlots
      BY <1>1, <1>2, <1>3
    <2> QED  BY <1>1, <2>1 DEF IInv, TypeOK, devVars
  <1>9. ASSUME NEW q \in SQs
        PROVE  SqPositions(q)' /\ SqContents(q)'
    <2>1. sq[q].head # N
      BY <1>1, NoTransient
    <2> QED  BY <1>1, <2>1, SqFrame DEF devVars, IInv, Building
  <1>10. \A q \in SQs : Execution(q)'
    BY <1>1, ExecutionFrame DEF devVars, IInv
  <1>11. CqPositions'
    <2>1. cq'.head # M
      BY <1>2, <1>3, AdvanceRange, SizeFacts DEF CqSlots
    <2>2. CqPos(dcqtl)' = (posted - Reaped)'
      <3>1. CqPos(dcqtl)' = CqPos(dcqtl) - 1
        BY <1>1, <1>2, <1>4, <1>6 DEF CqPos, devVars
      <3>2. CqPos(dcqtl) = posted - Reaped /\ posted' = posted /\ posted \in Nat
        BY <1>1, CqFacts DEF IInv, CqPositions, devVars
      <3> QED  BY <1>2, <1>5, <3>1, <3>2
    <2>3. dphase' = Expected(dcqtl)'
      BY <1>1, <1>2, <1>4, <1>6 DEF IInv, CqPositions, devVars, Expected
    <2> QED
      BY <1>1, <1>3, <1>4, <1>5, <2>1, <2>2, <2>3
      DEF CqPositions, IInv, devVars
  <1>12. CqContents'
    <2>1. cqmem' = cqmem
      BY <1>1 DEF devVars
    <2>2. \A i \in CqSlots : cqmem[i].phase = Expected(i)' <=> Pending(i)'
      BY <1>6, <1>7 DEF IInv, CqContents
    <2>3. \A i \in CqSlots : Pending(i)' => cqmem[i].no = Reaped' + CqPos(i)' + 1
      BY <1>2, <1>5, <1>6, <1>7, SizeFacts DEF IInv, CqContents
    <2>4. cqmem[h].no = Reaped' /\ cqmem[h].sqid \in SQs
      <3>1. cqmem[h].no = Reaped + CqPos(h) + 1
        BY <1>2, <1>4 DEF IInv, CqContents
      <3>2. CqPos(h) = 0
        BY <1>2, CqPosRange DEF h
      <3>3. cqmem[h].sqid \in SQs
        BY <1>2, <1>4 DEF IInv, CplOrder, Unfreed
      <3> QED  BY <1>2, <1>5, <3>1, <3>2, <3>3
    <2> QED  BY <1>1, <2>1, <2>2, <2>3, <2>4 DEF CqContents
  <1>13. CplOrder'
    <2>1. \A i \in CqSlots : Unfreed(i)' = Unfreed(i)
      BY <1>1, <1>4, <1>7 DEF Unfreed
    <2> QED  BY <1>1, <2>1 DEF CplOrder, IInv, devVars
  <1> QED  BY <1>8, <1>9, <1>10, <1>11, <1>12, <1>13 DEF IInv

\* nvm_sq_update, first store: a completion stands for a fetched command, so
\* the slot given up is one the controller is done with.
LEMMA SqIncrementStep ==
    ASSUME IInv, ConsumerSqIncrement
    PROVE  IInv'
  <1>0. PICK p \in SQs : p = cqmem[cpl].sqid
    BY DEF ConsumerSqIncrement, IInv, CqContents, Held
  <1>1. /\ cpc = "sq_update" /\ cpc' = "sq_wrap"
        /\ sq' = [sq EXCEPT ![p] = SqHeadIncrement(sq[p])]
        /\ freed' = [freed EXCEPT ![p] = freed[p] + 1]
        /\ UNCHANGED <<cq, counter, sqmem, prp, sqdb, cqdb, ppc, slot, cpl,
                       cancel, mpc, joined, commands, devVars>>
    BY <1>0 DEF ConsumerSqIncrement
  <1>2. cpl \in CqSlots /\ Held /\ Held' /\ Reaped' = Reaped
    <2>1. cpl \in CqSlots /\ Held /\ Held'
      BY <1>1, CqFacts DEF Held
    <2>2. Reaped' = Reaped
      BY <1>1 DEF Reaped
    <2> QED  BY <2>1, <2>2
  <1>3. /\ cqmem[cpl].no = Reaped /\ freed[p] < cqmem[cpl].qno
        /\ cqmem[cpl].qno <= completed[p] /\ cqmem[cpl].qno \in Nat
    <2>1. Unfreed(cpl)
      BY <1>1 DEF Unfreed
    <2> QED  BY <1>0, <1>2, <2>1, CqFacts DEF IInv, CplOrder, CqContents
  <1>4. /\ freed[p] \in Nat /\ fetched[p] \in Nat /\ completed[p] \in Nat
        /\ completed[p] <= fetched[p] /\ freed[p] < fetched[p]
    <2>1. freed[p] \in Nat /\ fetched[p] \in Nat /\ completed[p] \in Nat
      BY <1>2 DEF IInv, TypeOK
    <2>2. Cardinality(executing[p]) \in Nat
      BY <1>2, FS_CardinalityType DEF IInv, Execution
    <2>3. Cardinality(executing[p]) = fetched[p] - completed[p]
      BY <1>2 DEF IInv, Execution
    <2> QED  BY <1>3, <2>1, <2>2, <2>3
  <1>5. /\ sq[p] \in Descriptor(N) /\ sq[p].head \in 0..N /\ sq[p].head # N
        /\ sq[p].tail \in Slots /\ dsqhd[p] \in Slots /\ sqdb[p] \in Slots
        /\ slot[p] \in Slots /\ counter[p] \in Nat /\ TypeOK
    BY <1>1, <1>2, QueueFacts, NoTransient DEF IInv
  <1>6. /\ sq'[p] = [sq[p] EXCEPT !.head = sq[p].head + 1]
        /\ sq'[p] \in Descriptor(N) /\ sq'[p].head = sq[p].head + 1
        /\ sq'[p].tail = sq[p].tail /\ sq'[p].last = sq[p].last
        /\ freed'[p] = freed[p] + 1
    <2>1. sq'[p] = [sq[p] EXCEPT !.head = sq[p].head + 1]
      BY <1>1, <1>2, <1>5 DEF SqHeadIncrement, TypeOK
    <2>2. freed'[p] = freed[p] + 1
      BY <1>1, <1>2, <1>5 DEF TypeOK
    <2>3. sq[p].head + 1 \in 0..N
      BY <1>5, SizeFacts
    <2> QED  BY <1>5, <2>1, <2>2, <2>3 DEF Descriptor
  <1>7. TypeOK'
    <2>1. sq' \in [SQs -> Descriptor(N)] /\ freed' \in [SQs -> Nat]
      BY <1>1, <1>2, <1>4, <1>5, <1>6 DEF TypeOK
    <2> QED  BY <1>1, <1>5, <2>1 DEF TypeOK, devVars
  <1>8. SqPositions(p)' /\ SqContents(p)'
    <2>1. SqHead(p) \in Slots /\ SqHead(p)' = Advance(SqHead(p), N)
      BY <1>5, <1>6, SizeFacts DEF SqHead, Advance, Slots
    <2>2. \A i \in Slots :
            SqPos(p, i)' = IF i = SqHead(p) THEN N - 1 ELSE SqPos(p, i) - 1
      BY <2>1, DistAdvanceNear, SizeFacts DEF SqPos, Slots
    <2>3. \A i \in Slots : SqPos(p, i) \in 0..(N - 1) /\ (SqPos(p, i) = 0 <=> i = SqHead(p))
      BY <1>2, <1>5, SqPosRange
    <2>4. SqPositions(p) /\ SqContents(p)
      BY <1>2 DEF IInv
    <2>5. Enqueued(p)' = Enqueued(p) /\ Enqueued(p) \in Nat /\ Building(p)' = Building(p)
          /\ counter[p] <= Enqueued(p)
      BY <1>1, <1>5 DEF Enqueued, Building
    <2>6. /\ SqPos(p, dsqhd[p]) >= 1 /\ SqPos(p, sqdb[p]) >= 1
          /\ SqPos(p, sq[p].tail) >= 1 /\ counter[p] - freed[p] >= 1
          /\ counter[p] - freed[p] <= N - 1
      <3>1. SqPos(p, dsqhd[p]) >= 1 /\ SqPos(p, sqdb[p]) >= 1
        BY <1>4, <1>5, <2>3, <2>4, SizeFacts DEF SqPositions
      <3> QED  BY <1>4, <1>5, <2>3, <2>4, <2>5, <3>1, SizeFacts DEF SqPositions
    <2>7. /\ SqPos(p, dsqhd[p])' = SqPos(p, dsqhd[p]) - 1
          /\ SqPos(p, sqdb[p])' = SqPos(p, sqdb[p]) - 1
          /\ SqPos(p, sq[p].tail)' = SqPos(p, sq[p].tail) - 1
          /\ Building(p) => SqPos(p, slot[p])' = SqPos(p, slot[p]) - 1
      <3>1. \A i \in Slots : SqPos(p, i) >= 1 => SqPos(p, i)' = SqPos(p, i) - 1
        BY <2>2, <2>3, SizeFacts
      <3>2. /\ dsqhd' = dsqhd /\ sqdb' = sqdb /\ slot' = slot /\ sq'[p].tail = sq[p].tail
        BY <1>1, <1>6 DEF devVars
      <3>3. Building(p) => SqPos(p, slot[p]) >= 1
        BY <2>4, <2>6 DEF SqPositions
      <3> QED  BY <1>5, <2>6, <3>1, <3>2, <3>3 DEF SqPos
    <2>8. SqPositions(p)'
      <3>1. fetched' = fetched /\ cqmem' = cqmem
        BY <1>1 DEF devVars
      <3> QED
        BY <1>0, <1>1, <1>4, <1>5, <1>6, <2>3, <2>4, <2>5, <2>6, <2>7, <3>1, SizeFacts
        DEF SqPositions
    <2>9. SqContents(p)'
      <3>1. sqmem' = sqmem /\ counter' = counter
        BY <1>1
      <3>2. SUFFICES ASSUME NEW i \in Slots, SqPos(p, i)' < counter[p] - (freed[p] + 1)
                     PROVE  sqmem[p][i].cmd = (freed[p] + 1) + SqPos(p, i)' + 1
        BY <1>6, <3>1 DEF SqContents
      <3>3. SqPos(p, i)' = SqPos(p, i) - 1
        BY <1>4, <1>5, <2>2, <2>6, <3>2, SizeFacts
      <3>4. SqPos(p, i) < counter[p] - freed[p]
        BY <1>4, <1>5, <2>3, <3>2, <3>3, SizeFacts
      <3> QED  BY <1>4, <2>3, <2>4, <3>3, <3>4, SizeFacts DEF SqContents
    <2> QED  BY <2>8, <2>9
  <1>9. ASSUME NEW q \in SQs, q # p
        PROVE  SqPositions(q)' /\ SqContents(q)'
    <2>1. sq'[q] = sq[q] /\ freed'[q] = freed[q] /\ sq[q].head # N
      BY <1>1, <1>5, <1>9, NoTransient DEF TypeOK
    <2> QED  BY <1>1, <2>1, SqFrame DEF devVars, IInv, Building
  <1>10. ASSUME NEW q \in SQs
         PROVE  Execution(q)'
    <2>1. CASE q = p
      <3>1. freed'[q] <= completed[q]
        BY <1>3, <1>4, <1>6, <2>1
      <3> QED  BY <1>1, <2>1, <3>1 DEF Execution, IInv, devVars
    <2>2. CASE q # p
      BY <1>1, <1>5, <2>2, ExecutionFrame DEF devVars, IInv, TypeOK
    <2> QED  BY <2>1, <2>2
  <1>11. \A i \in CqSlots : Pending(i)' = Pending(i) /\ Expected(i)' = Expected(i)
                            /\ CqPos(i)' = CqPos(i)
    BY <1>1 DEF Pending, Expected, CqPos, devVars
  <1>12. CqPositions' /\ CqContents'
    BY <1>1, <1>2, <1>11 DEF IInv, CqPositions, CqContents, CqPos, Expected, devVars
  <1>13. CplOrder'
    <2>1. cqmem' = cqmem /\ completed' = completed
      BY <1>1 DEF devVars
    <2>2. \A i \in CqSlots : Unfreed(i)' <=> Pending(i)
      BY <1>1, <1>11 DEF Unfreed
    <2>3. \A i \in CqSlots : Pending(i) => Unfreed(i)
      BY DEF Unfreed
    <2>4. ASSUME NEW i \in CqSlots, Pending(i)
          PROVE  /\ cqmem[i].sqid \in SQs
                 /\ freed'[cqmem[i].sqid] < cqmem[i].qno
                 /\ cqmem[i].qno <= completed[cqmem[i].sqid]
      <3>1. /\ cqmem[i].sqid \in SQs /\ freed[cqmem[i].sqid] < cqmem[i].qno
            /\ cqmem[i].qno <= completed[cqmem[i].sqid]
        BY <2>3, <2>4 DEF IInv, CplOrder
      <3>2. CASE cqmem[i].sqid = p
        <4>1. cqmem[i].no = Reaped + CqPos(i) + 1
          BY <2>4 DEF IInv, CqContents
        <4>2. cqmem[cpl].no < cqmem[i].no
          BY <1>3, <4>1, CqPosRange, CqFacts, SizeFacts
        <4>3. cqmem[cpl].qno < cqmem[i].qno
          BY <1>0, <1>1, <1>2, <2>3, <2>4, <3>2, <4>2 DEF IInv, CplOrder, Unfreed
        <4> QED  BY <1>3, <1>4, <1>6, <3>1, <3>2, <4>3, CqFacts
      <3>3. CASE cqmem[i].sqid # p
        BY <1>1, <1>5, <3>1, <3>3 DEF TypeOK
      <3> QED  BY <3>2, <3>3
    <2> QED  BY <2>1, <2>2, <2>3, <2>4 DEF CplOrder, IInv
  <1> QED  BY <1>7, <1>8, <1>9, <1>10, <1>12, <1>13 DEF IInv

\* nvm_sq_update, second store: the transient head becomes the slot it meant.
LEMMA SqWrapStep ==
    ASSUME IInv, ConsumerSqWrap
    PROVE  IInv'
  <1>0. PICK p \in SQs : p = cqmem[cpl].sqid
    BY DEF ConsumerSqWrap, IInv, CqContents, Held
  <1>1. /\ cpc = "sq_wrap" /\ cpc' = "cq_update"
        /\ sq' = [sq EXCEPT ![p] = SqHeadWrap(sq[p])]
        /\ UNCHANGED <<cq, counter, sqmem, prp, sqdb, cqdb, ppc, slot, cpl,
                       cancel, mpc, joined, commands, devVars, freed>>
    BY <1>0 DEF ConsumerSqWrap
  <1>2. TypeOK /\ sq[p] \in Descriptor(N) /\ sq[p].max_entries = N /\ sq[p].head \in 0..N
    BY QueueFacts DEF IInv
  <1>3. /\ sq'[p] = SqHeadWrap(sq[p]) /\ sq'[p] \in Descriptor(N)
        /\ sq'[p].head = SqHead(p) /\ sq'[p].head # N
        /\ sq'[p].tail = sq[p].tail /\ sq'[p].last = sq[p].last
    <2>1. sq'[p] = SqHeadWrap(sq[p])
      BY <1>1, <1>2 DEF TypeOK
    <2>2. CASE sq[p].head = N
      <3>1. sq'[p] = [sq[p] EXCEPT !.head = 0]
        BY <1>2, <2>1, <2>2 DEF SqHeadWrap
      <3> QED  BY <1>2, <2>1, <2>2, <3>1, SizeFacts DEF Descriptor, SqHead
    <2>3. CASE sq[p].head # N
      BY <1>2, <2>1, <2>3 DEF SqHeadWrap, SqHead
    <2> QED  BY <2>2, <2>3
  <1>4. TypeOK'
    <2>1. sq' \in [SQs -> Descriptor(N)]
      BY <1>1, <1>2, <1>3 DEF TypeOK
    <2> QED  BY <1>1, <1>2, <2>1 DEF TypeOK, devVars
  <1>5. SqPositions(p)' /\ SqContents(p)'
    <2>1. SqHead(p)' = SqHead(p) /\ Enqueued(p)' = Enqueued(p) /\ Building(p)' = Building(p)
      BY <1>1, <1>3 DEF SqHead, Enqueued, Building
    <2>2. \A i : SqPos(p, i)' = SqPos(p, i)
      BY <2>1 DEF SqPos
    <2>3. /\ SqPos(p, sq[p].tail)' = SqPos(p, sq[p].tail)
          /\ SqPos(p, dsqhd[p])' = SqPos(p, dsqhd[p])
          /\ SqPos(p, sqdb[p])' = SqPos(p, sqdb[p])
          /\ SqPos(p, slot[p])' = SqPos(p, slot[p])
      BY <1>1, <1>3, <2>1 DEF SqPos, devVars
    <2> QED
      BY <1>1, <1>3, <2>1, <2>2, <2>3
      DEF SqPositions, SqContents, IInv, devVars
  <1>6. ASSUME NEW q \in SQs, q # p
        PROVE  SqPositions(q)' /\ SqContents(q)'
    <2>1. sq'[q] = sq[q] /\ sq[q].head # N
      BY <1>0, <1>1, <1>2, <1>6 DEF TypeOK, IInv, SqPositions
    <2> QED  BY <1>1, <2>1, SqFrame DEF devVars, IInv, Building
  <1>7. \A q \in SQs : Execution(q)'
    BY <1>1, ExecutionFrame DEF devVars, IInv
  <1>8. CqPositions' /\ CqContents' /\ CplOrder'
    BY <1>1, CqFrame DEF devVars, IInv, Reaped, Held
  <1> QED  BY <1>4, <1>5, <1>6, <1>7, <1>8 DEF IInv

\* nvm_cq_update hands the held slot back to the controller.
LEMMA CqUpdateStep ==
    ASSUME IInv, ConsumerCqUpdate
    PROVE  IInv'
  <1>1. /\ cpc = "cq_update" /\ cpc' = "count"
        /\ cqdb' = CqDoorbell(cq, cqdb) /\ cq' = nvm_cq_update(cq)
        /\ UNCHANGED <<sq, counter, sqmem, prp, sqdb, ppc, slot, cpl, cancel,
                       mpc, joined, commands, devVars, freed>>
    BY DEF ConsumerCqUpdate
  <1>2. cq \in Descriptor(M) /\ cq.head \in CqSlots /\ cq.last = cqdb /\ cqdb \in CqSlots
    BY CqFacts DEF IInv, CqPositions
  <1>3. /\ cq' = [cq EXCEPT !.last = cq.head] /\ cqdb' = cq.head
        /\ cq'.head = cq.head /\ cq'.phase = cq.phase /\ cq'.last = cq.head
        /\ cq' \in Descriptor(M)
    <2>1. cq' = [cq EXCEPT !.last = cq.head] /\ cqdb' = cq.head
      BY <1>1, <1>2 DEF CqDoorbell, nvm_cq_update
    <2> QED  BY <1>2, <2>1 DEF Descriptor, CqSlots
  <1>4. TypeOK'
    BY <1>1, <1>2, <1>3 DEF IInv, TypeOK, devVars
  <1>5. ASSUME NEW q \in SQs
        PROVE  SqPositions(q)' /\ SqContents(q)'
    <2>1. sq[q].head # N
      BY <1>1, NoTransient
    <2> QED  BY <1>1, <2>1, SqFrame DEF devVars, IInv, Building
  <1>6. \A q \in SQs : Execution(q)'
    BY <1>1, ExecutionFrame DEF devVars, IInv
  <1>7. ~Held' /\ Reaped' = Reaped
    BY <1>1 DEF Held, Reaped
  <1>8. /\ dcqtl' = dcqtl /\ cqmem' = cqmem /\ posted' = posted /\ dphase' = dphase
        /\ completed' = completed
    BY <1>1 DEF devVars
  <1>9. \A i : CqPos(i)' = CqPos(i) /\ Expected(i)' = Expected(i)
    BY <1>3 DEF CqPos, Expected
  <1>10. CqPos(dcqtl)' = CqPos(dcqtl) /\ Expected(dcqtl)' = Expected(dcqtl)
    BY <1>3, <1>8 DEF CqPos, Expected
  <1>11. \A i : Pending(i)' = Pending(i) /\ Unfreed(i)' = Unfreed(i)
    BY <1>1, <1>9, <1>10 DEF Pending, Unfreed
  <1>12. CqPositions'
    BY <1>3, <1>7, <1>8, <1>10 DEF CqPositions, IInv
  <1>13. CqContents'
    BY <1>7, <1>8, <1>9, <1>11 DEF CqContents, IInv
  <1>14. CplOrder'
    BY <1>1, <1>8, <1>11 DEF CplOrder, IInv
  <1> QED  BY <1>4, <1>5, <1>6, <1>12, <1>13, <1>14 DEF IInv

\* Counting the completion moves it from held to counted.
LEMMA CountStep ==
    ASSUME IInv, ConsumerCount
    PROVE  IInv'
  <1>1. /\ cpc = "count" /\ cpc' = "loop"
        /\ counter' = [counter EXCEPT ![0] = counter[0] + 1]
        /\ UNCHANGED <<sq, cq, sqmem, prp, sqdb, cqdb, ppc, slot, cpl, cancel,
                       mpc, joined, commands, devVars, freed>>
    BY DEF ConsumerCount
  <1>2. counter \in [SQs \cup {0} -> Nat] /\ counter' \in [SQs \cup {0} -> Nat]
    BY <1>1 DEF IInv, TypeOK
  <1>3. TypeOK'
    BY <1>1, <1>2 DEF IInv, TypeOK, devVars
  <1>4. ASSUME NEW q \in SQs
        PROVE  SqPositions(q)' /\ SqContents(q)'
    <2>1. sq[q].head # N /\ counter'[q] = counter[q]
      BY <1>1, <1>2, NoTransient, QueuesAssumption
    <2> QED  BY <1>1, <2>1, SqFrame DEF devVars, IInv, Building
  <1>5. \A q \in SQs : Execution(q)'
    BY <1>1, ExecutionFrame DEF devVars, IInv
  <1>6. Reaped' = Reaped /\ Held' = Held /\ (cpc = "sq_update")' = (cpc = "sq_update")
    BY <1>1, <1>2 DEF Reaped, Held
  <1>7. CqPositions' /\ CqContents' /\ CplOrder'
    BY <1>1, <1>6, CqFrame DEF devVars, IInv
  <1> QED  BY <1>3, <1>4, <1>5, <1>7 DEF IInv

-----------------------------------------------------------------------------
(* Controller *)

\* The controller fetches the next command in order: the slot at its head
\* holds command fetched + 1.
LEMMA FetchStep ==
    ASSUME IInv, NEW p \in SQs, DevFetch(p)
    PROVE  IInv'
  <1> DEFINE c == sqmem[p][dsqhd[p]]
  <1>1. /\ dsqhd[p] # sqdb[p]
        /\ executing' = [executing EXCEPT ![p] = executing[p] \cup {c}]
        /\ dsqhd' = [dsqhd EXCEPT ![p] = Advance(dsqhd[p], N)]
        /\ fetched' = [fetched EXCEPT ![p] = fetched[p] + 1]
        /\ UNCHANGED <<hostVars, threadVars, cqmem, dcqtl, dphase, completed,
                       posted, freed>>
    BY DEF DevFetch
  <1>2. /\ TypeOK /\ SqPositions(p) /\ SqContents(p) /\ Execution(p)
        /\ dsqhd[p] \in Slots /\ sqdb[p] \in Slots /\ SqHead(p) \in Slots
        /\ counter[p] \in Nat /\ freed[p] \in Nat /\ fetched[p] \in Nat
        /\ completed[p] \in Nat
    BY QueueFacts DEF IInv, TypeOK
  <1>3. /\ dsqhd'[p] = Advance(dsqhd[p], N) /\ fetched'[p] = fetched[p] + 1
        /\ executing'[p] = executing[p] \cup {c} /\ dsqhd'[p] \in Slots
    BY <1>1, <1>2, AdvanceRange, SizeFacts DEF TypeOK, Slots
  <1>4. /\ SqPos(p, dsqhd[p]) \in 0..(N - 1) /\ SqPos(p, sqdb[p]) \in 0..(N - 1)
        /\ SqPos(p, dsqhd[p]) < SqPos(p, sqdb[p])
    <2>1. SqPos(p, dsqhd[p]) \in 0..(N - 1) /\ SqPos(p, sqdb[p]) \in 0..(N - 1)
      BY <1>2, SqPosRange
    <2>2. SqPos(p, dsqhd[p]) # SqPos(p, sqdb[p])
      BY <1>1, <1>2, DistInjective, SizeFacts DEF SqPos, Slots
    <2> QED  BY <1>2, <2>1, <2>2, SizeFacts DEF SqPositions
  <1>5. c \in Command /\ c.cmd = fetched[p] + 1
    <2>1. c \in Command
      BY <1>2 DEF TypeOK
    <2>2. SqPos(p, dsqhd[p]) < counter[p] - freed[p]
      BY <1>2, <1>4, SizeFacts DEF SqPositions
    <2>3. c.cmd = freed[p] + SqPos(p, dsqhd[p]) + 1
      BY <1>2, <2>2 DEF SqContents
    <2>4. SqPos(p, dsqhd[p]) = fetched[p] - freed[p]
      BY <1>2 DEF SqPositions
    <2> QED  BY <1>2, <2>1, <2>3, <2>4
  <1> HIDE DEF c
  <1>6. TypeOK'
    <2>1. /\ executing' \in [SQs -> SUBSET Command] /\ dsqhd' \in [SQs -> Slots]
          /\ fetched' \in [SQs -> Nat]
      BY <1>1, <1>2, <1>3, <1>5 DEF TypeOK
    <2> QED  BY <1>1, <1>2, <2>1 DEF TypeOK, hostVars, threadVars
  <1>7. SqPositions(p)' /\ SqContents(p)'
    <2>1. SqPos(p, Advance(dsqhd[p], N)) = SqPos(p, dsqhd[p]) + 1
      BY <1>2, <1>4, DistAdvanceFar, SizeFacts DEF SqPos, Slots
    <2>2. /\ UNCHANGED <<sq, cpc, cqmem, cpl, sqdb, counter, slot, freed, sqmem, ppc>>
          /\ SqHead(p)' = SqHead(p)
      BY <1>1 DEF SqHead, hostVars, threadVars
    <2>3. SqPos(p, dsqhd[p])' = SqPos(p, dsqhd[p]) + 1
      BY <1>3, <2>1, <2>2 DEF SqPos
    <2>4. \A i : SqPos(p, i)' = SqPos(p, i)
      BY <2>2 DEF SqPos
    <2>5. /\ SqPos(p, sq[p].tail)' = SqPos(p, sq[p].tail)
          /\ SqPos(p, sqdb[p])' = SqPos(p, sqdb[p])
          /\ SqPos(p, slot[p])' = SqPos(p, slot[p])
          /\ Enqueued(p)' = Enqueued(p) /\ Building(p)' = Building(p)
      BY <2>2 DEF SqPos, Enqueued, Building
    <2>6. SqPositions(p)'
      BY <1>2, <1>3, <1>4, <2>2, <2>3, <2>5, SizeFacts DEF SqPositions
    <2>7. SqContents(p)'
      BY <1>2, <2>2, <2>4 DEF SqContents
    <2> QED  BY <2>6, <2>7
  <1>8. Execution(p)'
    <2>1. c \notin executing[p]
      BY <1>2, <1>5 DEF Execution
    <2>2. /\ IsFiniteSet(executing[p] \cup {c})
          /\ Cardinality(executing[p] \cup {c}) = Cardinality(executing[p]) + 1
      BY <1>2, <2>1, FS_AddElement DEF Execution
    <2>3. completed' = completed /\ freed' = freed
      BY <1>1
    <2>4. \A d \in executing[p] : d.cmd \in Nat
      BY <1>2 DEF TypeOK, Command
    <2> QED  BY <1>2, <1>3, <1>5, <2>2, <2>3, <2>4 DEF Execution
  <1>9. ASSUME NEW q \in SQs, q # p
        PROVE  SqPositions(q)' /\ SqContents(q)' /\ Execution(q)'
    <2>1. /\ dsqhd'[q] = dsqhd[q] /\ fetched'[q] = fetched[q]
          /\ executing'[q] = executing[q]
      BY <1>1, <1>2, <1>9 DEF TypeOK
    <2>2. SqPositions(q)' /\ SqContents(q)'
      BY <1>1, <2>1, SqFrame DEF IInv, SqPositions, Building, hostVars, threadVars
    <2> QED  BY <1>1, <2>1, <2>2, ExecutionFrame DEF IInv
  <1>10. CqPositions' /\ CqContents' /\ CplOrder'
    BY <1>1, CqFrame DEF IInv, Reaped, Held, hostVars, threadVars
  <1> QED  BY <1>6, <1>7, <1>8, <1>9, <1>10 DEF IInv

\* The controller posts into a slot that is neither pending nor held, with the
\* tag the consumer will look for there.
LEMMA CompleteStep ==
    ASSUME IInv, NEW p \in SQs, DevComplete(p)
    PROVE  IInv'
  <1>1. PICK c \in executing[p] :
          /\ Advance(dcqtl, M) # cqdb
          /\ executing' = [executing EXCEPT ![p] = executing[p] \ {c}]
          /\ cqmem' = [cqmem EXCEPT ![dcqtl] =
                         [phase |-> dphase, sqid |-> p, cmd |-> c.cmd,
                          no |-> posted + 1, qno |-> completed[p] + 1]]
          /\ dcqtl' = Advance(dcqtl, M)
          /\ dphase' = IF dcqtl + 1 = M THEN 1 - dphase ELSE dphase
          /\ completed' = [completed EXCEPT ![p] = completed[p] + 1]
          /\ posted' = posted + 1
          /\ UNCHANGED <<hostVars, threadVars, dsqhd, fetched, freed>>
    BY DEF DevComplete
  <1>2. PICK t \in CqSlots : t = dcqtl
    BY CqFacts
  <1>3. PICK e \in Completion :
          /\ e = [phase |-> dphase, sqid |-> p, cmd |-> c.cmd,
                  no |-> posted + 1, qno |-> completed[p] + 1]
          /\ e.phase = dphase /\ e.sqid = p
          /\ e.no = posted + 1 /\ e.qno = completed[p] + 1
    <2>1. c.cmd \in Nat /\ completed[p] \in Nat
      BY DEF IInv, TypeOK, Command
    <2> DEFINE r == [phase |-> dphase, sqid |-> p, cmd |-> c.cmd,
                     no |-> posted + 1, qno |-> completed[p] + 1]
    <2>2. r \in Completion
      <3>1. dphase \in Bit /\ posted + 1 \in Nat /\ completed[p] + 1 \in Nat
        BY <2>1, CqFacts
      <3> QED  BY <2>1, <3>1 DEF Completion
    <2>3. /\ r.phase = dphase /\ r.sqid = p
          /\ r.no = posted + 1 /\ r.qno = completed[p] + 1
      OBVIOUS
    <2> QED  BY <2>2, <2>3
  <1>4. /\ UNCHANGED <<cq, cqdb, counter, sq, sqmem, sqdb, prp>>
        /\ UNCHANGED <<ppc, slot, cpc, cpl, cancel, mpc, joined, commands>>
    BY <1>1 DEF hostVars, threadVars
  <1>5. /\ cqmem'[t] = e /\ \A i \in CqSlots : i # t => cqmem'[i] = cqmem[i]
        /\ completed'[p] = completed[p] + 1 /\ executing'[p] = executing[p] \ {c}
    BY <1>1, <1>2, <1>3 DEF IInv, TypeOK
  <1>6. /\ cq.head \in CqSlots /\ cqdb \in CqSlots /\ cpl \in CqSlots
        /\ posted \in Nat /\ Reaped \in Nat /\ Reaped' = Reaped /\ Held' = Held
        /\ dphase \in Bit /\ cq.phase \in Bit
    BY <1>4, CqFacts DEF Reaped, Held
  <1>7. Held => t # cpl /\ Advance(t, M) # cpl
    BY <1>1, <1>2 DEF IInv, CqPositions
  <1>8. CqPos(t) \in 0..(M - 2)
    <2>1. CqPos(t) \in 0..(M - 1)
      BY CqPosRange
    <2>2. CASE Held
      <3>1. CqPos(cqdb) = M - 1
        BY <1>6, <2>2, DistAdvanceNear, SizeFacts
        DEF CqPos, IInv, CqPositions, CqSlots
      <3>2. t # cqdb
        BY <1>7, <2>2 DEF IInv, CqPositions
      <3>3. CqPos(t) # CqPos(cqdb)
        BY <1>6, <3>2, DistInjective, SizeFacts DEF CqPos, CqSlots
      <3> QED  BY <2>1, <3>1, <3>3, SizeFacts
    <2>3. CASE ~Held
      <3>1. Advance(t, M) # cq.head
        BY <1>1, <1>2, <2>3 DEF IInv, CqPositions
      <3> QED  BY <1>6, <2>1, <3>1, SizeFacts DEF CqPos, Dist, Advance, CqSlots
    <2> QED  BY <2>2, <2>3
  <1>9. Advance(t, M) \in CqSlots /\ CqPos(Advance(t, M)) = CqPos(t) + 1
    BY <1>6, <1>8, AdvanceRange, DistAdvanceFar, SizeFacts DEF CqPos, CqSlots
  <1>10. \A i \in CqSlots : CqPos(i)' = CqPos(i) /\ Expected(i)' = Expected(i)
                            /\ CqPos(i) \in 0..(M - 1)
    BY <1>4, CqPosRange DEF CqPos, Expected
  <1>11. CqPos(dcqtl)' = CqPos(t) + 1 /\ dcqtl' = Advance(t, M)
    BY <1>1, <1>2, <1>4, <1>9 DEF CqPos
  <1>12. \A i \in CqSlots : Pending(i)' <=> (Pending(i) \/ i = t)
    <2> SUFFICES ASSUME NEW i \in CqSlots
                 PROVE  Pending(i)' <=> (Pending(i) \/ i = t)
      OBVIOUS
    <2>1. Pending(i)' <=> CqPos(i) < CqPos(t) + 1
      BY <1>10, <1>11 DEF Pending
    <2>2. Pending(i) <=> CqPos(i) < CqPos(t)
      BY <1>2 DEF Pending
    <2>3. CqPos(i) = CqPos(t) <=> i = t
      BY <1>6, DistInjective, SizeFacts DEF CqPos, CqSlots
    <2> QED  BY <1>8, <1>10, <2>1, <2>2, <2>3, SizeFacts
  <1>13. ~Pending(t) /\ CqPos(t) = posted - Reaped /\ dphase = Expected(t)
    <2>1. CqPos(t) = posted - Reaped /\ dphase = Expected(t)
      BY <1>2 DEF IInv, CqPositions
    <2> QED  BY <1>2, <1>8, <2>1, SizeFacts DEF Pending
  <1>14. TypeOK'
    <2>1. cqmem' \in [CqSlots -> Completion] /\ dcqtl' \in CqSlots
      BY <1>1, <1>3, <1>9, <1>11 DEF IInv, TypeOK
    <2>2. executing' \in [SQs -> SUBSET Command]
      BY <1>1 DEF IInv, TypeOK
    <2>3. completed' \in [SQs -> Nat] /\ posted' \in Nat
      BY <1>1 DEF IInv, TypeOK
    <2>4. dphase' \in Bit
      BY <1>1, <1>6 DEF Bit
    <2> QED  BY <1>1, <1>4, <2>1, <2>2, <2>3, <2>4 DEF IInv, TypeOK
  <1>15. ASSUME NEW q \in SQs
         PROVE  SqPositions(q)' /\ SqContents(q)'
    <2>1. sq[q].head = N => cpc = "sq_wrap" /\ cqmem'[cpl].sqid = q
      BY <1>5, <1>6, <1>7 DEF IInv, SqPositions, Held
    <2> QED  BY <1>1, <1>4, <2>1, SqFrame DEF IInv, Building
  <1>16. ASSUME NEW q \in SQs
         PROVE  Execution(q)'
    <2>1. CASE q = p
      <3>1. /\ IsFiniteSet(executing[p]) /\ freed[p] <= completed[p]
            /\ Cardinality(executing[p]) = fetched[p] - completed[p]
            /\ \A d \in executing[p] : d.cmd <= fetched[p]
        BY DEF IInv, Execution
      <3>2. /\ IsFiniteSet(executing[p] \ {c})
            /\ Cardinality(executing[p] \ {c}) = Cardinality(executing[p]) - 1
        BY <3>1, FS_RemoveElement
      <3>3. /\ fetched[p] \in Nat /\ completed[p] \in Nat /\ freed[p] \in Nat
            /\ fetched' = fetched /\ freed' = freed
        BY <1>1 DEF IInv, TypeOK
      <3>4. /\ freed'[p] <= completed'[p]
            /\ Cardinality(executing'[p]) = fetched'[p] - completed'[p]
        BY <1>5, <3>1, <3>2, <3>3
      <3>5. /\ IsFiniteSet(executing'[p])
            /\ \A d \in executing'[p] : d.cmd <= fetched'[p]
        BY <1>5, <3>1, <3>2, <3>3
      <3> QED  BY <2>1, <3>4, <3>5 DEF Execution
    <2>2. CASE q # p
      <3>1. executing'[q] = executing[q] /\ completed'[q] = completed[q]
        BY <1>1, <2>2 DEF IInv, TypeOK
      <3> QED  BY <1>1, <3>1, ExecutionFrame DEF IInv
    <2> QED  BY <2>1, <2>2
  <1>17. CqPositions'
    <2>1. CqPos(dcqtl)' = (posted - Reaped)'
      BY <1>1, <1>6, <1>11, <1>13
    <2>2. dphase' = Expected(Advance(t, M))
      <3>1. CASE t + 1 = M
        BY <1>1, <1>2, <1>6, <1>8, <1>13, <3>1, SizeFacts
        DEF Expected, Advance, CqPos, Dist, CqSlots
      <3>2. CASE t + 1 # M
        BY <1>1, <1>2, <1>6, <1>8, <1>13, <3>2, SizeFacts
        DEF Expected, Advance, CqPos, Dist, CqSlots
      <3> QED  BY <3>1, <3>2
    <2>3. dphase' = Expected(dcqtl)'
      BY <1>4, <1>11, <2>2 DEF Expected
    <2>4. Held => Advance(t, M) # cqdb
      BY <1>1, <1>2
    <2> QED  BY <1>4, <1>6, <1>11, <2>1, <2>3, <2>4 DEF IInv, CqPositions
  <1>18. CqContents'
    <2>1. \A i \in CqSlots : cqmem'[i].phase = Expected(i)' <=> Pending(i)'
      BY <1>3, <1>5, <1>10, <1>12, <1>13 DEF IInv, CqContents
    <2>2. \A i \in CqSlots : Pending(i)' => cqmem'[i].no = Reaped' + CqPos(i)' + 1
      BY <1>3, <1>5, <1>6, <1>10, <1>12, <1>13 DEF IInv, CqContents
    <2>3. Held => cqmem'[cpl].no = Reaped /\ cqmem'[cpl].sqid \in SQs
      BY <1>5, <1>6, <1>7 DEF IInv, CqContents
    <2> QED  BY <1>4, <1>6, <2>1, <2>2, <2>3 DEF CqContents
  <1>19. CplOrder'
    <2>1. \A i \in CqSlots : Unfreed(i)' <=> (Unfreed(i) \/ i = t)
      BY <1>4, <1>12 DEF Unfreed
    <2>2. ASSUME NEW i \in CqSlots, Unfreed(i)
          PROVE  /\ i # t /\ cqmem'[i] = cqmem[i] /\ cqmem[i].no <= posted
                 /\ cqmem[i].no \in Nat /\ cqmem[i].qno \in Nat
      <3>1. i # t
        BY <1>7, <1>13, <2>2 DEF Unfreed, Held
      <3>2. CASE Pending(i)
        <4>1. cqmem[i].no = Reaped + CqPos(i) + 1 /\ CqPos(i) < CqPos(t)
          BY <1>2, <3>2 DEF IInv, CqContents, Pending
        <4> QED  BY <1>5, <1>6, <1>8, <1>10, <1>13, <3>1, <4>1, CqFacts, SizeFacts
      <3>3. CASE cpc = "sq_update" /\ i = cpl
        <4>1. cqmem[i].no = Reaped
          BY <3>3 DEF IInv, CqContents, Held
        <4> QED  BY <1>5, <1>6, <1>8, <1>13, <3>1, <4>1, CqFacts, SizeFacts
      <3> QED  BY <2>2, <3>2, <3>3 DEF Unfreed
    <2>3. /\ freed' = freed /\ freed \in [SQs -> Nat] /\ completed \in [SQs -> Nat]
          /\ \A q \in SQs : completed'[q] = IF q = p THEN completed[p] + 1 ELSE completed[q]
      BY <1>1 DEF IInv, TypeOK
    <2>4. ASSUME NEW i \in CqSlots, Unfreed(i)'
          PROVE  /\ cqmem'[i].sqid \in SQs
                 /\ freed'[cqmem'[i].sqid] < cqmem'[i].qno
                 /\ cqmem'[i].qno <= completed'[cqmem'[i].sqid]
      <3>1. CASE i = t
        BY <1>3, <1>5, <2>3, <3>1 DEF IInv, Execution
      <3>2. CASE Unfreed(i)
        <4>1. /\ cqmem[i].sqid \in SQs /\ freed[cqmem[i].sqid] < cqmem[i].qno
              /\ cqmem[i].qno <= completed[cqmem[i].sqid]
          BY <3>2 DEF IInv, CplOrder
        <4> QED  BY <2>2, <2>3, <3>2, <4>1
      <3> QED  BY <2>1, <2>4, <3>1, <3>2
    <2>5. ASSUME NEW i \in CqSlots, NEW j \in CqSlots, Unfreed(i)', Unfreed(j)',
                 cqmem'[i].sqid = cqmem'[j].sqid, cqmem'[i].no < cqmem'[j].no
          PROVE  cqmem'[i].qno < cqmem'[j].qno
      <3>1. CASE i = t /\ j = t
        BY <1>3, <1>5, <1>6, <2>5, <3>1
      <3>2. CASE i = t /\ Unfreed(j)
        BY <1>3, <1>5, <1>6, <2>2, <2>5, <3>2
      <3>3. CASE Unfreed(i) /\ j = t
        <4>1. cqmem[i].qno <= completed[p]
          BY <1>3, <1>5, <2>2, <2>5, <3>3 DEF IInv, CplOrder
        <4> QED  BY <1>3, <1>5, <2>2, <2>3, <3>3, <4>1
      <3>4. CASE Unfreed(i) /\ Unfreed(j)
        BY <2>2, <2>5, <3>4 DEF IInv, CplOrder
      <3> QED  BY <2>1, <2>5, <3>1, <3>2, <3>3, <3>4
    <2> QED  BY <2>4, <2>5 DEF CplOrder
  <1> QED  BY <1>14, <1>15, <1>16, <1>17, <1>18, <1>19 DEF IInv

-----------------------------------------------------------------------------
(* Invariance *)

\* Cleared descriptors and zeroed memory satisfy the invariant.
LEMMA InitInv == Init => IInv
  <1> SUFFICES ASSUME Init PROVE IInv
    OBVIOUS
  <1> USE SizeFacts
  <1>1. /\ nvm_queue_clear(N) \in Descriptor(N) /\ nvm_queue_clear(M) \in Descriptor(M)
        /\ 0 \in Slots /\ 0 \in CqSlots
    BY DEF nvm_queue_clear, Descriptor, Bit, Slots, CqSlots
  <1>2. NoCommand \in Command /\ NoCompletion \in Completion
    BY DEF NoCommand, Command, NoCompletion, Completion, Bit
  <1>3. TypeOK
    BY <1>1, <1>2, QueuesAssumption DEF Init, TypeOK, Bit
  <1>4. ASSUME NEW q \in SQs
        PROVE  SqPositions(q) /\ SqContents(q) /\ Execution(q)
    <2>1. /\ sq[q].head = 0 /\ sq[q].tail = 0 /\ sq[q].last = 0 /\ sqdb[q] = 0
          /\ dsqhd[q] = 0 /\ fetched[q] = 0 /\ freed[q] = 0 /\ completed[q] = 0
          /\ counter[q] = 0 /\ executing[q] = {} /\ ~Building(q)
      BY DEF Init, nvm_queue_clear, Building
    <2>2. SqPos(q, 0) = 0 /\ Enqueued(q) = 0
      BY <2>1 DEF SqPos, SqHead, Dist, Enqueued
    <2>3. \A i \in Slots : SqPos(q, i) >= 0
      BY <1>3, SqPosRange
    <2>4. SqPositions(q)
      BY <2>1, <2>2 DEF SqPositions
    <2>5. SqContents(q)
      BY <2>1, <2>3, <1>3, SqPosRange DEF SqContents
    <2>6. Execution(q)
      BY <2>1, FS_EmptySet DEF Execution
    <2> QED  BY <2>4, <2>5, <2>6
  <1>5. /\ cq.head = 0 /\ cq.phase = 1 /\ cq.last = 0 /\ dcqtl = 0 /\ cqdb = 0
        /\ posted = 0 /\ dphase = 1 /\ cpc = "loop" /\ Reaped = 0
        /\ \A i \in CqSlots : cqmem[i].phase = 0
    BY DEF Init, nvm_queue_clear, Reaped, NoCompletion
  <1>6. CqPos(dcqtl) = 0 /\ \A i \in CqSlots : CqPos(i) = i /\ Expected(i) = 1
    BY <1>5 DEF CqPos, Dist, Expected, CqSlots
  <1>7. ~Held /\ \A i \in CqSlots : ~Pending(i) /\ ~Unfreed(i)
    BY <1>5, <1>6 DEF Held, Pending, Unfreed, CqSlots
  <1>8. CqPositions
    BY <1>1, <1>5, <1>6, <1>7 DEF CqPositions
  <1>9. CqContents /\ CplOrder
    BY <1>5, <1>6, <1>7 DEF CqContents, CplOrder
  <1> QED  BY <1>3, <1>4, <1>8, <1>9 DEF IInv

\* Fill and FlushFill build the taken slot.
LEMMA FillStep ==
    ASSUME IInv, NEW p \in SQs, Fill(p) \/ FlushFill(p)
    PROVE  IInv'
  <1>1. /\ sqmem[p][slot[p]] \in Command /\ sqmem[p] \in [Slots -> Command]
        /\ slot[p] \in Slots /\ counter[p] + 1 \in Nat
        /\ sqmem[p][slot[p]].cid \in 0..(2*N - 1)
    <2>1. TypeOK /\ slot[p] \in Slots /\ counter[p] \in Nat
      BY QueueFacts DEF IInv
    <2>2. sqmem[p][slot[p]] \in Command /\ sqmem[p] \in [Slots -> Command]
      BY <2>1 DEF TypeOK
    <2> QED  BY <2>1, <2>2 DEF Command
  <1>2. CASE Fill(p)
    <2> DEFINE list == (sqmem[p][slot[p]].cid % N) + 1
               rec == [sqmem[p][slot[p]] EXCEPT !.cmd = counter[p] + 1, !.list = list]
    <2>1. list \in 1..N
      BY <1>1, SizeFacts
    <2>2. rec \in Command /\ rec.cmd = counter[p] + 1
      <3>1. list \in 0..N
        BY <2>1, SizeFacts
      <3> HIDE DEF list
      <3> DEFINE k == counter[p] + 1
      <3>2. k \in Nat
        BY <1>1
      <3> HIDE DEF k
      <3>3. [sqmem[p][slot[p]] EXCEPT !.cmd = k, !.list = list] \in Command
        BY <1>1, <3>1, <3>2 DEF Command
      <3>4. [sqmem[p][slot[p]] EXCEPT !.cmd = k, !.list = list].cmd = k
        BY <1>1 DEF Command
      <3> QED  BY <3>3, <3>4 DEF k
    <2>3. prp' = [prp EXCEPT ![p] = [prp[p] EXCEPT ![list] = counter[p] + 1]]
      BY <1>2 DEF Fill
    <2>4. prp' \in [SQs -> [1..N -> Nat]]
      <3>1. [prp[p] EXCEPT ![list] = counter[p] + 1] \in [1..N -> Nat]
        BY <1>1 DEF IInv, TypeOK
      <3> QED  BY <2>3, <3>1 DEF IInv, TypeOK
    <2>5. sqmem' = [sqmem EXCEPT ![p] = [sqmem[p] EXCEPT ![slot[p]] = rec]]
      BY <1>2 DEF Fill
    <2> HIDE DEF rec, list
    <2> QED  BY <1>2, <2>2, <2>4, <2>5, BuildStep DEF Fill, Building
  <1>3. CASE FlushFill(p)
    <2> DEFINE rec == [sqmem[p][slot[p]] EXCEPT !.cmd = counter[p] + 1, !.list = 0]
    <2>1. rec \in Command /\ rec.cmd = counter[p] + 1
      <3> DEFINE k == counter[p] + 1
      <3>1. k \in Nat /\ 0 \in 0..N
        BY <1>1, SizeFacts
      <3> HIDE DEF k
      <3>2. [sqmem[p][slot[p]] EXCEPT !.cmd = k, !.list = 0] \in Command
        BY <1>1, <3>1 DEF Command
      <3>3. [sqmem[p][slot[p]] EXCEPT !.cmd = k, !.list = 0].cmd = k
        BY <1>1 DEF Command
      <3> QED  BY <3>2, <3>3 DEF k
    <2>2. sqmem' = [sqmem EXCEPT ![p] = [sqmem[p] EXCEPT ![slot[p]] = rec]]
      BY <1>3 DEF FlushFill
    <2>3. prp' \in [SQs -> [1..N -> Nat]]
      BY <1>3 DEF FlushFill, IInv, TypeOK
    <2> HIDE DEF rec
    <2> QED  BY <1>3, <2>1, <2>2, <2>3, BuildStep DEF FlushFill, Building
  <1> QED  BY <1>2, <1>3

\* Every step of a producer thread (produce_commands) keeps the invariant.
LEMMA ProducerStep ==
    ASSUME RingDivides, IInv, NEW p \in SQs, Producer(p)
    PROVE  IInv'
  <1>1. CASE EnqueueFull(p)
    <2>1. ppc' = [ppc EXCEPT ![p] = "enqueue"]
      BY <1>1 DEF EnqueueFull, threadVars, IInv, TypeOK
    <2> QED  BY <1>1, <2>1, SubmitStep DEF EnqueueFull, threadVars
  <1>2. CASE Enqueue(p)
    BY <1>2, TakeSlotStep DEF Enqueue
  <1>3. CASE Fill(p) \/ FlushFill(p)
    BY <1>3, FillStep
  <1>4. CASE FlushSpin(p)
    <2>1. TypeOK'
      BY <1>4 DEF FlushSpin, hostVars, devVars, IInv, TypeOK
    <2>2. \A q \in SQs : Building(q)' = Building(q)
      BY <1>4 DEF FlushSpin, Building, IInv, TypeOK
    <2> QED  BY <1>4, <2>1, <2>2, ControlStep DEF FlushSpin
  <1>5. CASE FlushEnqueue(p)
    BY <1>5, TakeSlotStep DEF FlushEnqueue
  <1>6. CASE ProducerReturn(p)
    BY <1>6, SubmitStep DEF ProducerReturn
  <1> QED  BY <1>1, <1>2, <1>3, <1>4, <1>5, <1>6 DEF Producer

\* Every step of the consumer thread (consume_completions) keeps it.
LEMMA ConsumerStep ==
    ASSUME IInv, Consumer
    PROVE  IInv'
  <1>1. CASE ConsumerLoop
    <2>1. TypeOK'
      BY <1>1 DEF ConsumerLoop, hostVars, devVars, IInv, TypeOK
    <2>2. \A q \in SQs : Building(q)' = Building(q)
      BY <1>1 DEF ConsumerLoop, Building
    <2> QED  BY <1>1, <2>1, <2>2, ControlStep DEF ConsumerLoop
  <1>2. CASE ConsumerTimeout
    <2>1. TypeOK'
      BY <1>2 DEF ConsumerTimeout, hostVars, devVars, IInv, TypeOK
    <2>2. \A q \in SQs : Building(q)' = Building(q)
      BY <1>2 DEF ConsumerTimeout, Building
    <2> QED  BY <1>2, <2>1, <2>2, ControlStep DEF ConsumerTimeout
  <1> QED
    BY <1>1, <1>2, DequeueStep, SqIncrementStep, SqWrapStep, CqUpdateStep, CountStep
    DEF Consumer

\* Joining, waiting and returning (transfer) change no queue.
LEMMA MainStep ==
    ASSUME IInv, Main
    PROVE  IInv'
  <1>1. /\ UNCHANGED <<hostVars, slot, cpl, devVars, freed>>
        /\ cpc' = cpc /\ ppc' = ppc
    BY DEF Main, MainJoin, MainWait, MainReturn
  <1>2. \A q \in SQs : Building(q)' = Building(q)
    BY <1>1 DEF Building
  <1>3. /\ cancel' \in BOOLEAN /\ joined' \in SUBSET SQs /\ commands' \in Nat
        /\ mpc' \in {"join", "wait", "hang", "cancelled", "done"}
    <2>1. CASE \E q \in SQs : MainJoin(q)
      BY <2>1, QueueFacts DEF MainJoin, IInv, TypeOK
    <2>2. CASE MainWait
      BY <2>2 DEF MainWait, IInv, TypeOK
    <2>3. CASE MainReturn
      BY <2>3 DEF MainReturn, IInv, TypeOK
    <2> QED  BY <2>1, <2>2, <2>3 DEF Main
  <1>4. TypeOK'
    BY <1>1, <1>3 DEF hostVars, devVars, IInv, TypeOK
  <1> QED  BY <1>1, <1>2, <1>4, ControlStep

\* A step that changes nothing keeps the invariant.
LEMMA StutterStep ==
    ASSUME IInv, UNCHANGED vars
    PROVE  IInv'
  <1>1. TypeOK'
    BY DEF vars, hostVars, threadVars, devVars, IInv, TypeOK
  <1>2. \A q \in SQs : Building(q)' = Building(q)
    BY DEF vars, threadVars, Building
  <1> QED  BY <1>1, <1>2, ControlStep DEF vars, threadVars

\* Every step preserves the inductive invariant.
LEMMA NextInv == RingDivides /\ IInv /\ [Next]_vars => IInv'
  <1> SUFFICES ASSUME RingDivides, IInv, [Next]_vars PROVE IInv'
    OBVIOUS
  <1>1. CASE Next
    <2>1. CASE \E q \in SQs : Producer(q)
      BY <2>1, ProducerStep
    <2>2. CASE \E q \in SQs : Device(q)
      BY <2>2, FetchStep, CompleteStep DEF Device
    <2>3. CASE Consumer
      BY <2>3, ConsumerStep
    <2>4. CASE Main
      BY <2>4, MainStep
    <2>5. CASE Finished
      <3>1. UNCHANGED vars
        BY <2>5 DEF Finished
      <3> QED  BY <3>1, StutterStep
    <2> QED  BY <1>1, <2>1, <2>2, <2>3, <2>4, <2>5 DEF Next
  <1>2. CASE UNCHANGED vars
    BY <1>2, StutterStep
  <1> QED  BY <1>1, <1>2

\* IInv is an invariant of every behaviour of the threads and the controller.
THEOREM Invariance == RingDivides => (Spec => []IInv)
  <1> SUFFICES ASSUME RingDivides PROVE Spec => []IInv
    OBVIOUS
  <1>1. Init => IInv
    BY InitInv
  <1>2. IInv /\ [Next]_vars => IInv'
    BY NextInv
  <1> QED  BY <1>1, <1>2, PTL DEF Spec

\* Queue positions stay inside their rings, and all other state in its range,
\* for every number of queues, ring size and amount of work.
THEOREM TypeCorrect == RingDivides => (Spec => []TypeOK)
  <1>1. IInv => TypeOK
    BY DEF IInv
  <1> QED  BY <1>1, Invariance, PTL

\* What nvm_sq_submit has exposed and the controller has not fetched is the
\* next commands of the queue, in order and completely built.
THEOREM CommandsIntact == RingDivides => (Spec => []CommandIntegrity)
  <1>1. IInv => CommandIntegrity
    <2> SUFFICES ASSUME IInv, NEW q \in SQs, NEW i \in Slots,
                        Dist(dsqhd[q], i, N) < Dist(dsqhd[q], sqdb[q], N)
                 PROVE  sqmem[q][i].cmd = fetched[q] + Dist(dsqhd[q], i, N) + 1
      BY DEF CommandIntegrity
    <2> DEFINE h == SqHead(q)
               d == dsqhd[q]
               b == sqdb[q]
    <2>1. /\ SqPositions(q) /\ SqContents(q)
          /\ h \in 0..(N - 1) /\ d \in 0..(N - 1) /\ b \in 0..(N - 1) /\ i \in 0..(N - 1)
          /\ counter[q] \in Nat /\ freed[q] \in Nat /\ fetched[q] \in Nat
      BY QueueFacts DEF IInv, Slots
    <2>2. /\ Dist(h, d, N) = fetched[q] - freed[q] /\ Dist(h, d, N) <= Dist(h, b, N)
          /\ Dist(h, b, N) <= counter[q] - freed[q]
      BY <2>1 DEF SqPositions, SqPos
    <2>3. Dist(d, i, N) < Dist(d, b, N)
      OBVIOUS
    <2> HIDE DEF h, d, b
    <2>4. Dist(h, i, N) = Dist(h, d, N) + Dist(d, i, N) /\ Dist(h, i, N) < Dist(h, b, N)
      BY <2>1, <2>2, <2>3, SizeFacts DEF Dist
    <2>5. sqmem[q][i].cmd = freed[q] + Dist(h, i, N) + 1
      <3>1. Dist(h, i, N) \in 0..(N - 1) /\ Dist(h, b, N) \in 0..(N - 1)
        BY <2>1, DistRange, SizeFacts
      <3>2. Dist(h, i, N) < counter[q] - freed[q]
        BY <2>1, <2>2, <2>4, <3>1, SizeFacts
      <3> QED  BY <2>1, <3>2 DEF SqContents, SqPos, h
    <2>6. Dist(d, i, N) \in 0..(N - 1)
      BY <2>1, DistRange, SizeFacts
    <2>7. sqmem[q][i].cmd = fetched[q] + Dist(d, i, N) + 1
      BY <2>1, <2>2, <2>4, <2>5, <2>6, SizeFacts
    <2> QED  BY <2>7 DEF d
  <1> QED  BY <1>1, Invariance, PTL

\* nvm_cq_poll is right about the completion queue: it never takes an entry
\* twice or one of an earlier lap, and never misses a posted one.
THEOREM PhaseTags == RingDivides => (Spec => []PhaseTagSound)
  <1>1. IInv => PhaseTagSound
    <2> SUFFICES ASSUME IInv PROVE PhaseTagSound
      OBVIOUS
    <2>1. cq.head \in CqSlots /\ dcqtl \in CqSlots /\ posted \in Nat /\ Reaped \in Nat
      BY CqFacts
    <2>2. CqPos(cq.head) = 0 /\ CqPos(dcqtl) \in 0..(M - 1)
      BY <2>1, CqPosRange
    <2>3. Expected(cq.head) = cq.phase
      BY <2>1 DEF Expected, CqSlots
    <2>4. nvm_cq_poll(cq, cqmem) <=> Pending(cq.head)
      BY <2>1, <2>3 DEF nvm_cq_poll, IInv, CqContents
    <2>5. Pending(cq.head) <=> Reaped < posted
      BY <2>1, <2>2, SizeFacts DEF Pending, IInv, CqPositions
    <2>6. Pending(cq.head) => cqmem[cq.head].no = Reaped + 1
      BY <2>1, <2>2 DEF IInv, CqContents
    <2> QED  BY <2>4, <2>5, <2>6 DEF PhaseTagSound
  <1> QED  BY <1>1, Invariance, PTL

\* The entry the consumer reads through its pointer is the one it dequeued,
\* until nvm_cq_update hands the slot back.
THEOREM HeldEntryStable == RingDivides => (Spec => []HeldCompletion)
  <1>1. IInv => HeldCompletion
    BY DEF IInv, CqContents, Held, HeldCompletion
  <1> QED  BY <1>1, Invariance, PTL
=============================================================================
