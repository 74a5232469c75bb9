--------------------------- MODULE NvmQueueProofs ---------------------------
(***************************************************************************)
(* Facts about rings of n slots and about the operations on a queue         *)
(* descriptor, for the proofs about the modules that use queues.            *)
(***************************************************************************)
EXTENDS NvmQueue, TLAPS

-----------------------------------------------------------------------------
(* Distances in a ring *)

\* Reduction modulo n of a number written as a multiple of n plus a rest.
LEMMA ModMultiple ==
    ASSUME NEW n \in Nat, n > 0, NEW k \in Nat, NEW r \in 0..(n - 1)
    PROVE  (k * n + r) % n = r
  OBVIOUS

\* Facts about the distance from one slot of a ring of n to another.
LEMMA DistRange ==
    ASSUME NEW n \in Nat, NEW a \in 0..(n - 1), NEW b \in 0..(n - 1)
    PROVE  Dist(a, b, n) \in 0..(n - 1) /\ ((Dist(a, b, n) = 0) <=> (a = b))
  BY DEF Dist

\* The distance is 0 from a slot to itself only.
LEMMA DistZero ==
    ASSUME NEW n \in Nat, NEW a \in 0..(n - 1), NEW b \in 0..(n - 1)
    PROVE  (Dist(a, b, n) = 0) <=> (a = b)
  BY DEF Dist

\* The successor of a slot is a slot.
LEMMA AdvanceRange ==
    ASSUME NEW n \in Nat, NEW a \in 0..(n - 1)
    PROVE  Advance(a, n) \in 0..(n - 1)
  BY DEF Advance

\* Two slots at the same distance from a third are the same slot.
LEMMA DistInjective ==
    ASSUME NEW n \in Nat, NEW a \in 0..(n - 1), NEW b \in 0..(n - 1),
           NEW c \in 0..(n - 1), Dist(a, b, n) = Dist(a, c, n)
    PROVE  b = c
  BY DEF Dist

\* Moving the far end one slot on adds one, unless it meets the near end.
LEMMA DistAdvanceFar ==
    ASSUME NEW n \in Nat, NEW a \in 0..(n - 1), NEW b \in 0..(n - 1),
           Dist(a, b, n) # n - 1
    PROVE  Dist(a, Advance(b, n), n) = Dist(a, b, n) + 1
  BY DEF Dist, Advance

\* It meets the near end after a whole lap.
LEMMA DistLap ==
    ASSUME NEW n \in Nat, NEW a \in 0..(n - 1), NEW b \in 0..(n - 1)
    PROVE  /\ Dist(a, b, n) = n - 1 <=> Advance(b, n) = a
           /\ Dist(a, a, n) = 0
  BY DEF Dist, Advance

\* Moving the near end one slot on takes one off, or makes it a whole lap.
LEMMA DistAdvanceNear ==
    ASSUME NEW n \in Nat, NEW a \in 0..(n - 1), NEW b \in 0..(n - 1)
    PROVE  Dist(Advance(a, n), b, n) = IF a = b THEN n - 1 ELSE Dist(a, b, n) - 1
  BY DEF Dist, Advance

\* Distances along the ring add up for slots in order.
LEMMA DistAdds ==
    ASSUME NEW n \in Nat, NEW a \in 0..(n - 1), NEW b \in 0..(n - 1),
           NEW c \in 0..(n - 1), Dist(b, c, n) < n - Dist(a, b, n)
    PROVE  Dist(a, c, n) = Dist(a, b, n) + Dist(b, c, n)
  BY DEF Dist

\* When the ring divides the counters' range, the full test of nvm_sq_enqueue on wrapping
\* unsigned counters computes the number of slots in use.
LEMMA FullTestRing ==
    ASSUME NEW n \in Nat, NEW k \in Nat, Word \in Nat \ {0}, Word = k * n,
           NEW h \in 0..(n - 1), NEW t \in 0..(n - 1)
    PROVE  ((t - h) % Word) % n = Dist(h, t, n)
  <1>1. n > 0 /\ k >= 1 /\ Word >= n
    OBVIOUS
  <1>2. CASE t >= h
    <2>1. (t - h) % Word = t - h
      BY <1>1, <1>2
    <2>2. (t - h) % n = t - h
      BY <1>1, <1>2
    <2> QED  BY <1>2, <2>1, <2>2 DEF Dist
  <1>3. CASE t < h
    <2>1. (t - h) % Word = t - h + Word
      BY <1>1, <1>3
    <2>2. t - h + Word = (k - 1) * n + (t - h + n)
      BY <1>1
    <2>3. k - 1 \in Nat /\ t - h + n \in 0..(n - 1)
      BY <1>1, <1>3
    <2>4. \A j \in Nat, r \in 0..(n - 1) : (j * n + r) % n = r
      BY <1>1, ModMultiple
    <2>5. ((k - 1) * n + (t - h + n)) % n = t - h + n
      BY <2>3, <2>4
    <2> QED  BY <1>3, <2>1, <2>2, <2>5 DEF Dist
  <1> QED  BY <1>2, <1>3

\* A number without rest is a multiple.
LEMMA NoRest ==
    ASSUME NEW n \in Nat \ {0}, NEW w \in Nat, w % n = 0
    PROVE  \E k \in Nat : w = k * n
  <1>1. w = n * (w \div n) + (w % n) /\ w \div n \in Int
    OBVIOUS
  <1>2. w \div n >= 0
    OBVIOUS
  <1>3. PICK k : k = w \div n
    OBVIOUS
  <1>4. k \in Nat /\ w = n * k
    BY <1>1, <1>2, <1>3
  <1>5. n * k = k * n
    BY <1>4
  <1> QED  BY <1>4, <1>5

-----------------------------------------------------------------------------
(* Operations on a descriptor *)

\* The fields of a descriptor.
LEMMA RingFields ==
    ASSUME NEW n \in Nat, NEW q \in InRing(n)
    PROVE  /\ q.max_entries = n /\ q.head \in 0..(n - 1) /\ q.tail \in 0..(n - 1)
           /\ q.phase \in Bit /\ q.last \in 0..(n - 1) /\ n > 0
  <1>1. q.max_entries = n /\ q.head \in 0..(n - 1) /\ q.tail \in 0..(n - 1)
        /\ q.phase \in Bit /\ q.last \in 0..(n - 1)
    BY DEF InRing
  <1> QED  BY <1>1

\* The full test of nvm_sq_enqueue fails as long as a slot besides the one that is always
\* kept free is left.
LEMMA RingFull ==
    ASSUME NEW n \in Nat \ {0}, Word \in Nat \ {0}, Word % n = 0, NEW q \in InRing(n)
    PROVE  SqFull(q) <=> (Dist(q.head, q.tail, n) = n - 1)
  <1>1. q.max_entries = n /\ q.head \in 0..(n - 1) /\ q.tail \in 0..(n - 1) /\ n \in Nat
    BY RingFields
  <1>2. PICK k \in Nat : Word = k * n
    BY NoRest
  <1>3. PICK h, t : h = q.head /\ t = q.tail
    OBVIOUS
  <1>4. ((t - h) % Word) % n = Dist(h, t, n)
    <2>1. h \in 0..(n - 1) /\ t \in 0..(n - 1)
      BY <1>1, <1>3
    <2> QED  BY <1>1, <1>2, <2>1, FullTestRing
  <1> QED  BY <1>1, <1>3, <1>4 DEF SqFull

\* nvm_sq_enqueue moves the tail one slot on.
LEMMA EnqueueRing ==
    ASSUME NEW n \in Nat, NEW q \in InRing(n)
    PROVE  /\ nvm_sq_enqueue(q) \in InRing(n)
           /\ nvm_sq_enqueue(q).tail = Advance(q.tail, n)
           /\ nvm_sq_enqueue(q).head = q.head /\ nvm_sq_enqueue(q).last = q.last
  <1>1. /\ q.max_entries = n /\ q.head \in 0..(n - 1) /\ q.tail \in 0..(n - 1)
        /\ q.phase \in Bit /\ q.last \in 0..(n - 1) /\ n > 0
    BY RingFields
  <1>2. CASE q.tail + 1 = n
    <2>1. PICK e : e = [[q EXCEPT !.tail = 0] EXCEPT !.phase = 1 - q.phase]
      OBVIOUS
    <2>2. 1 - q.phase \in Bit /\ 0 \in 0..(n - 1)
      BY <1>1 DEF Bit
    <2>3. e \in InRing(n) /\ e.tail = 0 /\ e.head = q.head /\ e.last = q.last
      BY <2>1, <2>2 DEF InRing
    <2>4. nvm_sq_enqueue(q) = e
      BY <1>1, <1>2, <2>1 DEF nvm_sq_enqueue
    <2> QED  BY <1>2, <2>3, <2>4 DEF Advance
  <1>3. CASE q.tail + 1 # n
    <2>1. PICK e : e = [q EXCEPT !.tail = q.tail + 1]
      OBVIOUS
    <2>2. q.tail + 1 \in 0..(n - 1)
      BY <1>1, <1>3
    <2>3. e \in InRing(n) /\ e.tail = q.tail + 1 /\ e.head = q.head /\ e.last = q.last
      BY <2>1, <2>2 DEF InRing
    <2>4. nvm_sq_enqueue(q) = e
      BY <1>1, <1>3, <2>1 DEF nvm_sq_enqueue
    <2> QED  BY <1>3, <2>3, <2>4 DEF Advance
  <1> QED  BY <1>2, <1>3

\* nvm_sq_submit remembers the tail, which the doorbell then holds.
LEMMA SubmitRing ==
    ASSUME NEW n \in Nat, NEW q \in InRing(n)
    PROVE  /\ nvm_sq_submit(q) \in InRing(n)
           /\ nvm_sq_submit(q).last = q.tail
           /\ nvm_sq_submit(q).head = q.head /\ nvm_sq_submit(q).tail = q.tail
           /\ SqDoorbell(q, q.last) = q.tail
  <1>1. q.tail \in 0..(n - 1)
    BY RingFields
  <1>2. PICK e : e = [q EXCEPT !.last = q.tail]
    OBVIOUS
  <1>3. e \in InRing(n) /\ e.last = q.tail /\ e.head = q.head /\ e.tail = q.tail
    BY <1>1, <1>2 DEF InRing
  <1> QED  BY <1>2, <1>3 DEF nvm_sq_submit, SqDoorbell

\* nvm_sq_update moves the head one slot on.
LEMMA UpdateRing ==
    ASSUME NEW n \in Nat, NEW q \in InRing(n)
    PROVE  /\ nvm_sq_update(q) \in InRing(n)
           /\ nvm_sq_update(q).head = Advance(q.head, n)
           /\ nvm_sq_update(q).tail = q.tail /\ nvm_sq_update(q).last = q.last
  <1>1. /\ q.max_entries = n /\ q.head \in 0..(n - 1) /\ n > 0
    BY RingFields
  <1>2. PICK e : e = [q EXCEPT !.head = q.head + 1]
    OBVIOUS
  <1>3. e.max_entries = n /\ e.head = q.head + 1 /\ e.tail = q.tail /\ e.last = q.last
    BY <1>1, <1>2 DEF InRing
  <1>4. CASE q.head + 1 = n
    <2>1. PICK f : f = [e EXCEPT !.head = 0]
      OBVIOUS
    <2>2. f = [q EXCEPT !.head = 0]
      BY <1>2, <2>1 DEF InRing
    <2>3. 0 \in 0..(n - 1)
      BY <1>1
    <2>4. f \in InRing(n) /\ f.head = 0 /\ f.tail = q.tail /\ f.last = q.last
      BY <2>2, <2>3 DEF InRing
    <2>5. nvm_sq_update(q) = f
      BY <1>2, <1>3, <1>4, <2>1 DEF nvm_sq_update, SqHeadIncrement, SqHeadWrap
    <2> QED  BY <1>4, <2>4, <2>5 DEF Advance
  <1>5. CASE q.head + 1 # n
    <2>1. q.head + 1 \in 0..(n - 1)
      BY <1>1, <1>5
    <2>2. e \in InRing(n)
      BY <1>2, <2>1 DEF InRing
    <2>3. nvm_sq_update(q) = e
      BY <1>2, <1>3, <1>5 DEF nvm_sq_update, SqHeadIncrement, SqHeadWrap
    <2> QED  BY <1>3, <1>5, <2>2, <2>3 DEF Advance
  <1> QED  BY <1>4, <1>5

\* nvm_cq_dequeue moves the head one slot on and turns the phase with each lap.
LEMMA TakeRing ==
    ASSUME NEW n \in Nat, NEW q \in InRing(n)
    PROVE  /\ nvm_cq_dequeue(q) \in InRing(n)
           /\ nvm_cq_dequeue(q).head = Advance(q.head, n)
           /\ nvm_cq_dequeue(q).last = q.last
           /\ nvm_cq_dequeue(q).phase = IF q.head + 1 = n THEN 1 - q.phase ELSE q.phase
  <1>1. /\ q.max_entries = n /\ q.head \in 0..(n - 1) /\ q.phase \in Bit /\ n > 0
    BY RingFields
  <1>2. PICK d : d = nvm_cq_dequeue(q)
    OBVIOUS
  <1>3. CASE q.head + 1 = n
    <2>1. d = [[q EXCEPT !.head = 0] EXCEPT !.phase = 1 - q.phase]
      BY <1>1, <1>2, <1>3 DEF nvm_cq_dequeue
    <2>2. 1 - q.phase \in Bit /\ 0 \in 0..(n - 1)
      BY <1>1 DEF Bit
    <2>3. d \in InRing(n) /\ d.head = 0 /\ d.last = q.last /\ d.phase = 1 - q.phase
      BY <2>1, <2>2 DEF InRing
    <2> QED  BY <1>2, <1>3, <2>3 DEF Advance
  <1>4. CASE q.head + 1 # n
    <2>1. d = [q EXCEPT !.head = q.head + 1]
      BY <1>1, <1>2, <1>4 DEF nvm_cq_dequeue
    <2>2. q.head + 1 \in 0..(n - 1)
      BY <1>1, <1>4
    <2>3. d \in InRing(n) /\ d.head = q.head + 1 /\ d.last = q.last /\ d.phase = q.phase
      BY <2>1, <2>2 DEF InRing
    <2> QED  BY <1>2, <1>4, <2>3 DEF Advance
  <1> QED  BY <1>3, <1>4

\* nvm_cq_dequeue and nvm_cq_update move the head one slot on, turn the phase with each
\* lap and ring the doorbell.
LEMMA DequeueRing ==
    ASSUME NEW n \in Nat, NEW q \in InRing(n), q.last = q.head
    PROVE  /\ nvm_cq_update(nvm_cq_dequeue(q)) \in InRing(n)
           /\ nvm_cq_update(nvm_cq_dequeue(q)).head = Advance(q.head, n)
           /\ nvm_cq_update(nvm_cq_dequeue(q)).last = Advance(q.head, n)
           /\ nvm_cq_update(nvm_cq_dequeue(q)).phase
                = IF q.head + 1 = n THEN 1 - q.phase ELSE q.phase
           /\ CqDoorbell(nvm_cq_dequeue(q), q.head) = Advance(q.head, n)
  <1>1. /\ q.max_entries = n /\ q.head \in 0..(n - 1) /\ q.phase \in Bit /\ n > 0
    BY RingFields
  <1>2. PICK d : d = nvm_cq_dequeue(q)
    OBVIOUS
  <1>3. /\ d \in InRing(n) /\ d.head = Advance(q.head, n) /\ d.last = q.last
        /\ d.phase = IF q.head + 1 = n THEN 1 - q.phase ELSE q.phase
    BY <1>2, TakeRing
  <1>4. d.head \in 0..(n - 1)
    BY <1>3, RingFields
  <1>5. PICK u : u = [d EXCEPT !.last = d.head]
    OBVIOUS
  <1>6. u \in InRing(n) /\ u.head = d.head /\ u.last = d.head /\ u.phase = d.phase
    BY <1>3, <1>4, <1>5 DEF InRing
  <1>7. nvm_cq_update(nvm_cq_dequeue(q)) = u
    BY <1>2, <1>5 DEF nvm_cq_update
  <1>8. CqDoorbell(d, q.head) = Advance(q.head, n)
    BY <1>3 DEF CqDoorbell
  <1> QED  BY <1>2, <1>3, <1>6, <1>7, <1>8
=============================================================================
