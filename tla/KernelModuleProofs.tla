------------------------- MODULE KernelModuleProofs -------------------------
(***************************************************************************)
(* Proofs about KernelModule for every number of tasks, files, devices,     *)
(* reference slots and map descriptors.                                     *)
(***************************************************************************)
EXTENDS KernelModuleInv, FiniteSetTheorems, SequenceTheorems, WellFoundedInduction, TLAPS

\* Every set of naturals that is not empty has a least member.
LEMMA LeastNatural ==
    ASSUME NEW S, S \subseteq Nat, S # {}
    PROVE  \E k \in S : \A j \in S : k <= j
  <1>1. PICK R : IsWellFoundedOn(R, Nat) /\ \A x, y \in Nat : x < y => <<x, y>> \in R
    <2>1. \A x, y \in Nat : x < y => <<x, y>> \in OpToRel(<, Nat)
      BY DEF OpToRel
    <2> QED  BY <2>1, NatLessThanWellFounded
  <1>2. \E x \in S : \A y \in S : ~(<<y, x>> \in R)
    <2>1. IsWellFoundedOn(R, Nat) /\ S \subseteq Nat /\ S # {}
      BY <1>1
    <2> QED  BY <2>1, WFMin
  <1>3. \A x, y \in S : x \in Nat /\ y \in Nat /\ (~(<<y, x>> \in R) => x <= y)
    <2> SUFFICES ASSUME NEW x \in S, NEW y \in S
          PROVE x \in Nat /\ y \in Nat /\ (~(<<y, x>> \in R) => x <= y)
      OBVIOUS
    <2>1. x \in Nat /\ y \in Nat
      OBVIOUS
    <2>2. ~(y < x) => x <= y
      BY <2>1
    <2>3. y < x => <<y, x>> \in R
      BY <1>1, <2>1, Zenon
    <2> QED  BY <2>1, <2>2, <2>3
  <1> QED  BY <1>2, <1>3

\* What InsertAt returns.
LEMMA InsertFacts ==
    ASSUME NEW S, NEW s \in Seq(S), NEW e \in S, NEW k \in 1..(Len(s) + 1)
    PROVE  /\ InsertAt(s, k, e) \in Seq(S)
           /\ Len(InsertAt(s, k, e)) = Len(s) + 1
           /\ \A i \in 1..(Len(s) + 1) :
                 InsertAt(s, k, e)[i] = IF i < k THEN s[i] ELSE IF i = k THEN e ELSE s[i - 1]
  <1> DEFINE p == SubSeq(s, 1, k - 1)
             q == SubSeq(s, k, Len(s))
  <1>1. Len(s) \in Nat /\ k \in Nat /\ 1 <= k /\ k <= Len(s) + 1
    OBVIOUS
  <1>2. p \in Seq(S) /\ Len(p) = k - 1 /\ \A i \in 1..(k - 1) : p[i] = s[i]
    BY <1>1
  <1>3. q \in Seq(S) /\ Len(q) = Len(s) - k + 1
        /\ \A i \in 1..(Len(s) - k + 1) : q[i] = s[k + i - 1]
    BY <1>1
  <1>4. <<e>> \in Seq(S) /\ Len(<<e>>) = 1 /\ <<e>>[1] = e
    OBVIOUS
  <1> DEFINE pe == p \o <<e>>
  <1> HIDE DEF p, q
  <1>5. /\ pe \in Seq(S) /\ Len(pe) = k
        /\ \A i \in 1..k : pe[i] = IF i < k THEN p[i] ELSE e
    <2>1. p \o <<e>> \in Seq(S) /\ Len(p \o <<e>>) = Len(p) + Len(<<e>>) 
          /\ \A i \in 1..(Len(p) + Len(<<e>>)) : 
               (p \o <<e>>)[i] = IF i <= Len(p) THEN p[i] ELSE <<e>>[i - Len(p)]
      BY <1>2, <1>4, ConcatProperties
    <2> QED  BY <1>1, <1>2, <1>4, <2>1
  <1> HIDE DEF pe
  <1>6. /\ pe \o q \in Seq(S) /\ Len(pe \o q) = Len(pe) + Len(q)
        /\ \A i \in 1..(Len(pe) + Len(q)) :
              (pe \o q)[i] = IF i <= Len(pe) THEN pe[i] ELSE q[i - Len(pe)]
    BY <1>3, <1>5, ConcatProperties
  <1>7. InsertAt(s, k, e) = pe \o q
    BY DEF InsertAt, p, q, pe
  <1>8. ASSUME NEW i \in 1..(Len(s) + 1)
        PROVE  InsertAt(s, k, e)[i] = IF i < k THEN s[i] ELSE IF i = k THEN e ELSE s[i - 1]
    <2>1. i \in 1..(Len(pe) + Len(q)) /\ i \in Nat
      BY <1>1, <1>3, <1>5
    <2>2. CASE i <= k
      BY <1>1, <1>2, <1>5, <1>6, <1>7, <2>1, <2>2
    <2>3. CASE i > k
      <3>1. i - Len(pe) \in 1..(Len(s) - k + 1) /\ ~(i <= Len(pe)) /\ k + (i - Len(pe)) - 1 = i - 1
        BY <1>1, <1>5, <2>3
      <3>2. InsertAt(s, k, e)[i] = q[i - Len(pe)]
        BY <1>6, <1>7, <2>1, <3>1
      <3>3. q[i - Len(pe)] = s[i - 1]
        BY <1>3, <3>1
      <3> QED  BY <1>1, <2>1, <2>3, <3>2, <3>3
    <2> QED  BY <1>1, <2>1, <2>2, <2>3
  <1>9. InsertAt(s, k, e) \in Seq(S) /\ Len(InsertAt(s, k, e)) = Len(s) + 1
    <2>1. Len(pe) + Len(q) = Len(s) + 1
      BY <1>1, <1>3, <1>5
    <2> QED  BY <1>6, <1>7, <2>1
  <1> QED  BY <1>8, <1>9

\* SmallestOf and LargestOf pick a member.
LEMMA SmallestFacts ==
    ASSUME NEW S, S \subseteq Nat, S # {}
    PROVE  SmallestOf(S) \in S /\ \A j \in S : SmallestOf(S) <= j
  BY LeastNatural DEF SmallestOf

\* The same for the largest, in a bounded set.
LEMMA LargestFacts ==
    ASSUME NEW n \in Nat, NEW S, S \subseteq 0..n, S # {}
    PROVE  LargestOf(S) \in S /\ \A j \in S : j <= LargestOf(S)
  <1> DEFINE T == {n - k : k \in S}
  <1>1. T \subseteq Nat /\ T # {}
    OBVIOUS
  <1>2. PICK x \in T : \A y \in T : x <= y
    <2> HIDE DEF T
    <2> QED  BY <1>1, LeastNatural
  <1>3. PICK k \in S : x = n - k
    OBVIOUS
  <1>4. \A j \in S : j <= k
    <2> SUFFICES ASSUME NEW j \in S PROVE j <= k
      OBVIOUS
    <2>1. n - k <= n - j
      BY <1>2, <1>3
    <2>2. j \in Nat /\ k \in Nat
      OBVIOUS
    <2> QED  BY <2>1, <2>2
  <1>5. \E l \in S : \A j \in S : j <= l
    BY <1>4
  <1> QED  BY <1>5 DEF LargestOf

\* What RemoveAt returns.
LEMMA RemoveFacts ==
    ASSUME NEW S, NEW s \in Seq(S), NEW k \in 1..Len(s)
    PROVE  /\ RemoveAt(s, k) \in Seq(S) /\ Len(RemoveAt(s, k)) = Len(s) - 1
           /\ \A i \in 1..(Len(s) - 1) :
                 RemoveAt(s, k)[i] = IF i < k THEN s[i] ELSE s[i + 1]
  <1> DEFINE p == SubSeq(s, 1, k - 1)
             q == SubSeq(s, k + 1, Len(s))
  <1>1. Len(s) \in Nat /\ k \in Nat /\ 1 <= k /\ k <= Len(s)
    OBVIOUS
  <1>2. p \in Seq(S) /\ Len(p) = k - 1 /\ \A i \in 1..(k - 1) : p[i] = s[i]
    BY <1>1
  <1>3. q \in Seq(S) /\ Len(q) = Len(s) - k /\ \A i \in 1..(Len(s) - k) : q[i] = s[k + i]
    BY <1>1
  <1> HIDE DEF p, q
  <1>4. /\ p \o q \in Seq(S) /\ Len(p \o q) = Len(p) + Len(q)
        /\ \A i \in 1..(Len(p) + Len(q)) :
              (p \o q)[i] = IF i <= Len(p) THEN p[i] ELSE q[i - Len(p)]
    BY <1>2, <1>3, ConcatProperties
  <1>5. RemoveAt(s, k) = p \o q
    BY DEF RemoveAt, p, q
  <1>6. ASSUME NEW i \in 1..(Len(s) - 1)
        PROVE  RemoveAt(s, k)[i] = IF i < k THEN s[i] ELSE s[i + 1]
    <2>1. i \in 1..(Len(p) + Len(q))
      BY <1>1, <1>2, <1>3
    <2>2. CASE i < k
      BY <1>1, <1>2, <1>4, <1>5, <2>1, <2>2
    <2>3. CASE i >= k
      <3>1. i - Len(p) \in 1..(Len(s) - k) /\ ~(i <= Len(p)) /\ k + (i - Len(p)) = i + 1
        BY <1>1, <1>2, <2>3
      <3>2. RemoveAt(s, k)[i] = q[i - Len(p)]
        BY <1>4, <1>5, <2>1, <3>1
      <3>3. q[i - Len(p)] = s[i + 1]
        BY <1>3, <3>1
      <3> QED  BY <1>1, <2>3, <3>2, <3>3
    <2> QED  BY <1>1, <2>2, <2>3
  <1>7. RemoveAt(s, k) \in Seq(S) /\ Len(RemoveAt(s, k)) = Len(s) - 1
    <2>1. Len(p) + Len(q) = Len(s) - 1
      BY <1>1, <1>2, <1>3
    <2> QED  BY <1>4, <1>5, <2>1
  <1> QED  BY <1>6, <1>7

\* A list in which m is unlinked holds the others, in the same order.
LEMMA UnlinkFacts ==
    ASSUME NEW s \in Seq(MapIds), NEW m \in MapIds,
           \A i, j \in 1..Len(s) : s[i] = s[j] => i = j
    PROVE  /\ Unlink(s, m) \in Seq(MapIds)
           /\ ~Contains(s, m) => Unlink(s, m) = s
           /\ Contains(s, m) => Len(Unlink(s, m)) = Len(s) - 1
           /\ ~Contains(Unlink(s, m), m)
           /\ \A x \in MapIds : x # m => (Contains(Unlink(s, m), x) <=> Contains(s, x))
           /\ \A i \in 1..Len(Unlink(s, m)) : \E k \in 1..Len(s) :
                 Unlink(s, m)[i] = s[k] /\ s[k] # m
           /\ \A i, j \in 1..Len(Unlink(s, m)) : i < j =>
                 \E k, l \in 1..Len(s) : k < l /\ Unlink(s, m)[i] = s[k] /\ Unlink(s, m)[j] = s[l]
  <1>0. Len(s) \in Nat
    OBVIOUS
  <1>1. CASE ~Contains(s, m)
    <2>1. Unlink(s, m) = s
      BY <1>1 DEF Unlink
    <2> QED  BY <1>1, <2>1 DEF Contains
  <1>2. CASE Contains(s, m)
    <2>1. PICK c \in 1..Len(s) : s[c] = m
      BY <1>2 DEF Contains
    <2>2. (CHOOSE i \in 1..Len(s) : s[i] = m) = c
      BY <2>1
    <2>3. PICK u : u = RemoveAt(s, c)
      OBVIOUS
    <2>4. Unlink(s, m) = u
      BY <1>2, <2>2, <2>3 DEF Unlink
    <2>5. /\ u \in Seq(MapIds) /\ Len(u) = Len(s) - 1
          /\ \A i \in 1..(Len(s) - 1) : u[i] = IF i < c THEN s[i] ELSE s[i + 1]
      BY <2>1, <2>3, RemoveFacts
    <2>6. \A k \in 1..Len(s) : s[k] = m <=> k = c
      BY <2>1
    <2>7. \A i \in 1..Len(u) : \E k \in 1..Len(s) : u[i] = s[k] /\ k # c
          /\ k = (IF i < c THEN i ELSE i + 1)
      <3> SUFFICES ASSUME NEW i \in 1..Len(u)
                   PROVE  \E k \in 1..Len(s) : u[i] = s[k] /\ k # c
                         /\ k = (IF i < c THEN i ELSE i + 1)
        OBVIOUS
      <3>1. i \in 1..(Len(s) - 1) /\ i \in 1..Len(s) /\ i + 1 \in 1..Len(s) /\ i \in Nat
            /\ c \in Nat
        BY <1>0, <2>5
      <3>2. CASE i < c
        BY <2>5, <3>1, <3>2
      <3>3. CASE ~(i < c)
        <4>1. u[i] = s[i + 1] /\ i + 1 # c
          BY <2>5, <3>1, <3>3
        <4> QED  BY <3>1, <3>3, <4>1
      <3> QED  BY <3>2, <3>3
    <2>8. \A i, j \in 1..Len(u) : i < j
          => \E k, l \in 1..Len(s) : k < l /\ u[i] = s[k] /\ u[j] = s[l]
      <3> SUFFICES ASSUME NEW i \in 1..Len(u), NEW j \in 1..Len(u), i < j
                   PROVE  \E k, l \in 1..Len(s) : k < l /\ u[i] = s[k] /\ u[j] = s[l]
        OBVIOUS
      <3>1. PICK k \in 1..Len(s) : u[i] = s[k] /\ k = (IF i < c THEN i ELSE i + 1)
        BY <2>7
      <3>2. PICK l \in 1..Len(s) : u[j] = s[l] /\ l = (IF j < c THEN j ELSE j + 1)
        BY <2>7
      <3>3. k < l
        BY <1>0, <2>5, <3>1, <3>2
      <3> QED  BY <3>1, <3>2, <3>3
    <2>9. ASSUME NEW x \in MapIds, x # m PROVE Contains(u, x) <=> Contains(s, x)
      <3>1. ASSUME Contains(u, x) PROVE Contains(s, x)
        BY <2>7, <3>1 DEF Contains
      <3>2. ASSUME Contains(s, x) PROVE Contains(u, x)
        <4>1. PICK k \in 1..Len(s) : s[k] = x
          BY <3>2 DEF Contains
        <4>2. k # c
          BY <2>9, <2>6, <4>1
        <4>3. CASE k < c
          <5>1. k \in 1..Len(u) /\ u[k] = s[k]
            BY <1>0, <2>5, <4>3
          <5> QED  BY <4>1, <5>1 DEF Contains
        <4>4. CASE k > c
          <5>1. k - 1 \in 1..Len(u) /\ ~(k - 1 < c) /\ (k - 1) + 1 = k
            BY <1>0, <2>5, <4>4
          <5>2. u[k - 1] = s[k]
            BY <2>5, <5>1
          <5> QED  BY <4>1, <5>1, <5>2 DEF Contains
        <4> QED  BY <1>0, <4>2, <4>3, <4>4
      <3> QED  BY <3>1, <3>2
    <2>10. ~Contains(u, m)
      BY <2>6, <2>7 DEF Contains
    <2> QED  BY <1>2, <2>4, <2>5, <2>6, <2>7, <2>8, <2>9, <2>10
  <1> QED  BY <1>1, <1>2

\* list_insert puts a node before the first that does not have a smaller address.
LEMMA ListInsertFacts ==
    ASSUME NEW s \in Seq(MapIds), NEW m \in MapIds, heap[m].vaddr \in Nat,
           \A i \in 1..Len(s) : heap[s[i]].vaddr \in Nat
    PROVE  \E k \in 1..(Len(s) + 1) :
              /\ list_insert(s, m) = InsertAt(s, k, m)
              /\ \A i \in 1..(k - 1) : heap[s[i]].vaddr < heap[m].vaddr
              /\ k <= Len(s) => heap[m].vaddr <= heap[s[k]].vaddr
  <1> DEFINE va == heap[m].vaddr
  <1>1. PICK S : S = Before(s, va)
    OBVIOUS
  <1>2. Len(s) \in Nat /\ S \subseteq 0..Len(s) /\ 0 \in S
    BY <1>1 DEF Before
  <1>3. PICK l : l = LargestOf(S)
    OBVIOUS
  <1>4. l \in S /\ \A j \in S : j <= l
    BY <1>2, <1>3, LargestFacts
  <1>5. l \in 0..Len(s) /\ \A i \in 1..l : heap[s[i]].vaddr < va
    BY <1>1, <1>4 DEF Before
  <1>6. ASSUME l + 1 <= Len(s) PROVE va <= heap[s[l + 1]].vaddr
    <2>1. l + 1 \in 0..Len(s) /\ l + 1 \in 1..Len(s) /\ ~(l + 1 <= l)
      BY <1>2, <1>5, <1>6
    <2>2. l + 1 \notin S
      BY <1>4, <2>1
    <2>3. PICK i \in 1..(l + 1) : ~(heap[s[i]].vaddr < va)
      BY <1>1, <2>1, <2>2 DEF Before
    <2>4. i = l + 1
      BY <1>5, <2>3
    <2> QED  BY <2>1, <2>3, <2>4
  <1>7. list_insert(s, m) = InsertAt(s, l + 1, m)
    BY <1>1, <1>3 DEF list_insert
  <1>8. l + 1 \in 1..(Len(s) + 1) /\ (l + 1) - 1 = l
    BY <1>2, <1>5
  <1> QED  BY <1>5, <1>6, <1>7, <1>8

-----------------------------------------------------------------------------
(* Types, and what the steps do to references and descriptors *)

\* Slots are numbered from 1.
LEMMA SlotFacts ==
    /\ NumDevs \in Nat /\ NumRefs \in Nat /\ MaxPages \in Nat /\ 1 \in RefSlots
    /\ \A r \in RefSlots : r \in Nat /\ r # 0 /\ r \in 0..NumRefs
    /\ \A d \in DevSlots : d \in Nat /\ d # 0 /\ d \in 0..NumDevs
    /\ VAddrs \subseteq Nat
  <1>1. NumDevs \in Nat /\ NumRefs \in Nat /\ NumRefs # 0 /\ MaxPages \in Nat
        /\ VAddrs \subseteq Nat
    BY KernelAssumption DEF VAddrs
  <1> QED  BY <1>1 DEF RefSlots, DevSlots

\* The fields of a reference.
LEMMA RefFacts ==
    ASSUME TypeOK, NEW r \in RefSlots
    PROVE  /\ refs[r] \in RefType
           /\ refs[r].used \in BOOLEAN /\ refs[r].ctrl \in 0..NumDevs
           /\ refs[r].owner \in Tasks \union {NoTask}
           /\ \A k \in Kinds : MapList(r, k) \in Seq(MapIds)
  <1>1. refs[r] \in RefType
    BY DEF TypeOK
  <1> QED  BY <1>1 DEF RefType, MapList, Kinds

\* The fields of an actor's place.
LEMMA ActFacts ==
    ASSUME TypeOK, NEW a \in Actors
    PROVE  /\ act[a] \in Place
           /\ act[a].pc \in Pcs /\ act[a].file \in Files \union {NoId}
           /\ act[a].dev \in 0..NumDevs /\ act[a].ref \in 0..NumRefs
           /\ act[a].map \in MapIds \union {NoId}
  <1>1. act[a] \in Place
    BY DEF TypeOK
  <1> QED  BY <1>1 DEF Place

\* Two sequences of references agree where records do.
LEMMA SameLists ==
    ASSUME NEW r \in RefSlots, refs'[r].user = refs[r].user, refs'[r].gpu = refs[r].gpu
    PROVE  \A k \in Kinds : MapList(r, k)' = MapList(r, k)
  BY DEF MapList

\* find_ref returns a slot that leads to the device and has the owner, or there is none.
LEMMA FindRefFacts ==
    ASSUME NEW d, NEW O
    PROVE  /\ find_ref(d, O) # 0 =>
                 /\ find_ref(d, O) \in RefSlots
                 /\ refs[find_ref(d, O)].ctrl = d /\ refs[find_ref(d, O)].owner \in O
           /\ find_ref(d, O) = 0 => \A r \in RefSlots : ~(refs[r].ctrl = d /\ refs[r].owner \in O)
  <1> DEFINE found == {r \in RefSlots : refs[r].ctrl = d /\ refs[r].owner \in O}
  <1>1. CASE found = {}
    BY <1>1 DEF find_ref
  <1>2. CASE found # {}
    <2>0. \A r \in RefSlots : r \in Nat /\ r # 0
      BY SlotFacts
    <2>1. found \subseteq Nat /\ 0 \notin found
      BY <2>0
    <2>2. SmallestOf(found) \in found
      BY <1>2, <2>1, SmallestFacts
    <2>3. find_ref(d, O) = SmallestOf(found)
      BY <1>2 DEF find_ref
    <2> QED  BY <2>1, <2>2, <2>3
  <1> QED  BY <1>1, <1>2

\* OpenClaim marks the slot and stores the device.
LEMMA ClaimEffect ==
    ASSUME TypeOK, Pointers, NEW t \in Tasks, OpenClaim(t), NEW r, r = act[t].ref
    PROVE  /\ r \in RefSlots
           /\ refs' \in [RefSlots -> RefType]
           /\ refs'[r].used /\ refs'[r].ctrl = act[t].dev
           /\ refs'[r].owner = refs[r].owner
           /\ \A s \in RefSlots : s # r => refs'[s] = refs[s]
           /\ \A s \in RefSlots, k \in Kinds : MapList(s, k)' = MapList(s, k)
  <1>1. act[t].ref \in RefSlots /\ act[t].dev \in 0..NumDevs
    BY ActFacts DEF OpenClaim, Pointers, PlaceOK, Actors
  <1>3. refs[r] \in RefType /\ r \in RefSlots
    BY <1>1, RefFacts
  <1>4. PICK new : new = [[refs[r] EXCEPT !.used = TRUE] EXCEPT !.ctrl = act[t].dev]
    OBVIOUS
  <1>5. /\ new \in RefType /\ new.used /\ new.ctrl = act[t].dev /\ new.owner = refs[r].owner
        /\ new.user = refs[r].user /\ new.gpu = refs[r].gpu
    BY <1>1, <1>3, <1>4 DEF RefType
  <1>6. refs \in [RefSlots -> RefType]
    BY DEF TypeOK
  <1>7. refs' = [refs EXCEPT ![r] = new]
    BY <1>3, <1>4, <1>6 DEF OpenClaim
  <1>8. refs' \in [RefSlots -> RefType] /\ refs'[r] = new /\ \A s \in RefSlots : s # r
        => refs'[s] = refs[s]
    BY <1>3, <1>5, <1>6, <1>7
  <1>9. \A s \in RefSlots, k \in Kinds : MapList(s, k)' = MapList(s, k)
    BY <1>5, <1>8 DEF MapList
  <1> QED  BY <1>3, <1>5, <1>8, <1>9

\* OpenInit makes the task its owner, with no maps.
LEMMA InitEffect ==
    ASSUME TypeOK, Pointers, NEW t \in Tasks, OpenInit(t), NEW r, r = act[t].ref
    PROVE  /\ r \in RefSlots
           /\ refs' \in [RefSlots -> RefType]
           /\ refs'[r].used = refs[r].used
           /\ refs'[r].ctrl = refs[r].ctrl
           /\ refs'[r].owner = t
           /\ \A s \in RefSlots : s # r => refs'[s] = refs[s]
           /\ \A k \in Kinds : MapList(r, k)' = <<>>
           /\ \A s \in RefSlots, k \in Kinds : s # r => MapList(s, k)' = MapList(s, k)
  <1>1. act[t].ref \in RefSlots
    BY DEF OpenInit, Pointers, PlaceOK, Actors
  <1>3. refs[r] \in RefType /\ r \in RefSlots
    BY <1>1, RefFacts
  <1>4. PICK new : new = [[[refs[r] EXCEPT !.owner = t] EXCEPT !.user = <<>>] EXCEPT !.gpu = <<>>]
    OBVIOUS
  <1>5. /\ new \in RefType /\ new.used = refs[r].used /\ new.ctrl = refs[r].ctrl /\ new.owner = t
        /\ new.user = <<>> /\ new.gpu = <<>>
    <2>1. <<>> \in Seq(MapIds)
      OBVIOUS
    <2> QED  BY <1>3, <1>4, <2>1 DEF RefType
  <1>6. refs \in [RefSlots -> RefType]
    BY DEF TypeOK
  <1>7. refs' = [refs EXCEPT ![r] = new]
    BY <1>3, <1>4, <1>6 DEF OpenInit
  <1>8. refs' \in [RefSlots -> RefType] /\ refs'[r] = new /\ \A s \in RefSlots : s # r
        => refs'[s] = refs[s]
    BY <1>3, <1>5, <1>6, <1>7
  <1>9. \A k \in Kinds : MapList(r, k)' = <<>>
    BY <1>5, <1>8 DEF MapList
  <1>10. \A s \in RefSlots, k \in Kinds : s # r => MapList(s, k)' = MapList(s, k)
    BY <1>8 DEF MapList
  <1> QED  BY <1>3, <1>5, <1>8, <1>9, <1>10

\* MapInsert puts the descriptor into the list of its kind.
LEMMA InsertEffect ==
    ASSUME TypeOK, Pointers, BuiltAlone, ListsAllocated, NEW t \in Tasks, MapInsert(t),
           NEW r, r = act[t].ref, NEW m, m = act[t].map, NEW k, k = heap[m].type
    PROVE  /\ r \in RefSlots /\ m \in MapIds /\ k \in Kinds /\ heap[m] \in MapType
           /\ refs' \in [RefSlots -> RefType]
           /\ \A q \in RefSlots : /\ refs'[q].used = refs[q].used /\ refs'[q].ctrl = refs[q].ctrl
                                  /\ refs'[q].owner = refs[q].owner
           /\ \A q \in RefSlots, l \in Kinds : q # r \/ l # k => MapList(q, l)' = MapList(q, l)
           /\ \E i \in 1..(Len(MapList(r, k)) + 1) :
                 /\ MapList(r, k)' = InsertAt(MapList(r, k), i, m)
                 /\ \A j \in 1..(i - 1) : heap[MapList(r, k)[j]].vaddr < heap[m].vaddr
                 /\ i <= Len(MapList(r, k)) => heap[m].vaddr <= heap[MapList(r, k)[i]].vaddr
  <1>3. t \in Actors /\ Building(t) /\ r \in RefSlots /\ m \in MapIds /\ heap[m] # NoMap
    BY DEF MapInsert, Pointers, PlaceOK, Actors, Has, Building, Halfway, BuiltAlone,
        Stage
  <1>4. heap[m] \in MapType /\ heap[m].type \in Kinds /\ heap[m].vaddr \in Nat
    <2>1. heap[m] \in MapType
      BY <1>3 DEF TypeOK
    <2> QED  BY <2>1, SlotFacts DEF MapType, Kinds
  <1>6. PICK s : s = list_insert(MapList(r, k), m)
    OBVIOUS
  <1>1. MapList(r, k) \in Seq(MapIds)
    BY <1>3, <1>4, RefFacts
  <1>2. \A i \in 1..Len(MapList(r, k)) : heap[MapList(r, k)[i]].vaddr \in Nat
    <2> SUFFICES ASSUME NEW i \in 1..Len(MapList(r, k)) PROVE heap[MapList(r, k)[i]].vaddr \in Nat
      OBVIOUS
    <2>1. MapList(r, k)[i] \in MapIds
      BY <1>1
    <2>2. heap[MapList(r, k)[i]] # NoMap
      BY <1>3, <1>4 DEF ListsAllocated
    <2>3. heap[MapList(r, k)[i]] \in MapType
      BY <2>1, <2>2 DEF TypeOK
    <2> QED  BY <2>3, SlotFacts DEF MapType
  <1>5. \E i \in 1..(Len(MapList(r, k)) + 1) :
           /\ s = InsertAt(MapList(r, k), i, m)
           /\ \A j \in 1..(i - 1) : heap[MapList(r, k)[j]].vaddr < heap[m].vaddr
           /\ i <= Len(MapList(r, k)) => heap[m].vaddr <= heap[MapList(r, k)[i]].vaddr
    BY <1>1, <1>2, <1>3, <1>4, <1>6, ListInsertFacts
  <1>7. s \in Seq(MapIds)
    BY <1>1, <1>3, <1>5, InsertFacts
  <1>8. refs[r] \in RefType /\ refs \in [RefSlots -> RefType]
    BY <1>3 DEF TypeOK
  <1>9. CASE k = "user"
    <2>1. PICK new : new = [refs[r] EXCEPT !.user = s]
      OBVIOUS
    <2>2. /\ new \in RefType /\ new.used = refs[r].used /\ new.ctrl = refs[r].ctrl
          /\ new.owner = refs[r].owner /\ new.user = s /\ new.gpu = refs[r].gpu
      BY <1>7, <1>8, <2>1 DEF RefType
    <2>3. refs' = [refs EXCEPT ![r] = new]
      BY <1>3, <1>6, <1>8, <1>9, <2>1 DEF MapInsert, MapList
    <2>4. refs' \in [RefSlots -> RefType] /\ refs'[r] = new /\ \A q \in RefSlots : q # r
          => refs'[q] = refs[q]
      BY <1>3, <1>8, <2>2, <2>3
    <2>5. \A q \in RefSlots : refs'[q].used = refs[q].used /\ refs'[q].ctrl = refs[q].ctrl
          /\ refs'[q].owner = refs[q].owner
      BY <2>2, <2>4
    <2>6. MapList(r, k)' = s /\ \A q \in RefSlots, l \in Kinds : q # r \/ l # k
          => MapList(q, l)' = MapList(q, l)
      BY <1>9, <2>2, <2>4 DEF MapList, Kinds
    <2> QED  BY <1>3, <1>4, <1>5, <2>4, <2>5, <2>6
  <1>10. CASE k = "gpu"
    <2>1. PICK new : new = [refs[r] EXCEPT !.gpu = s]
      OBVIOUS
    <2>2. /\ new \in RefType /\ new.used = refs[r].used /\ new.ctrl = refs[r].ctrl
          /\ new.owner = refs[r].owner /\ new.gpu = s /\ new.user = refs[r].user
      BY <1>7, <1>8, <2>1 DEF RefType
    <2>3. refs' = [refs EXCEPT ![r] = new]
      BY <1>3, <1>6, <1>8, <1>10, <2>1 DEF MapInsert, MapList
    <2>4. refs' \in [RefSlots -> RefType] /\ refs'[r] = new /\ \A q \in RefSlots : q # r
          => refs'[q] = refs[q]
      BY <1>3, <1>8, <2>2, <2>3
    <2>5. \A q \in RefSlots : refs'[q].used = refs[q].used /\ refs'[q].ctrl = refs[q].ctrl
          /\ refs'[q].owner = refs[q].owner
      BY <2>2, <2>4
    <2>6. MapList(r, k)' = s /\ \A q \in RefSlots, l \in Kinds : q # r \/ l # k
          => MapList(q, l)' = MapList(q, l)
      BY <1>10, <2>2, <2>4 DEF MapList, Kinds
    <2> QED  BY <1>3, <1>4, <1>5, <2>4, <2>5, <2>6
  <1> QED  BY <1>4, <1>9, <1>10 DEF Kinds

\* Clearing a reference leaves its lists alone.
LEMMA ClearEffect ==
    ASSUME TypeOK, Pointers, NEW a \in Actors, PutClear(a), NEW r, r = act[a].ref
    PROVE  /\ r \in RefSlots
           /\ refs' \in [RefSlots -> RefType]
           /\ refs'[r].used = refs[r].used /\ refs'[r].ctrl = 0 /\ refs'[r].owner = NoTask
           /\ \A s \in RefSlots : s # r => refs'[s] = refs[s]
           /\ \A s \in RefSlots, k \in Kinds : MapList(s, k)' = MapList(s, k)
           /\ \A k \in Kinds : MapList(r, k) = <<>>
  <1>1. r \in RefSlots
    BY DEF PutClear, Pointers, PlaceOK
  <1>2. refs[r] \in RefType /\ refs \in [RefSlots -> RefType] /\ refs[r].user \in Seq(MapIds)
                             /\ refs[r].gpu \in Seq(MapIds)
    <2>1. refs[r] \in RefType
      BY <1>1, RefFacts
    <2> QED  BY <2>1 DEF TypeOK, RefType
  <1>3. PICK new : new = [[refs[r] EXCEPT !.owner = NoTask] EXCEPT !.ctrl = 0]
    OBVIOUS
  <1>4. /\ new \in RefType /\ new.used = refs[r].used /\ new.ctrl = 0 /\ new.owner = NoTask
        /\ new.user = refs[r].user /\ new.gpu = refs[r].gpu
    <2>1. 0 \in 0..NumDevs
      BY SlotFacts
    <2> QED  BY <1>2, <1>3, <2>1 DEF RefType
  <1>5. refs' = [refs EXCEPT ![r] = new]
    BY <1>1, <1>2, <1>3 DEF PutClear
  <1>6. refs' \in [RefSlots -> RefType] /\ refs'[r] = new /\ \A s \in RefSlots : s # r
        => refs'[s] = refs[s]
    BY <1>1, <1>2, <1>4, <1>5
  <1>7. \A s \in RefSlots, k \in Kinds : MapList(s, k)' = MapList(s, k)
    BY <1>4, <1>6 DEF MapList
  <1>8. refs[r].gpu = <<>> /\ refs[r].user = <<>>
    <2>1. refs[r].gpu \o refs[r].user = <<>>
      BY DEF PutClear
    <2>2. Len(refs[r].gpu) + Len(refs[r].user) = 0
      BY <1>2, <2>1, ConcatProperties
    <2>3. Len(refs[r].gpu) \in Nat /\ Len(refs[r].user) \in Nat
      BY <1>2, LenProperties
    <2>4. Len(refs[r].gpu) = 0 /\ Len(refs[r].user) = 0
      <3>1. \A x, y \in Nat : x + y = 0 => x = 0 /\ y = 0
        OBVIOUS
      <3> QED  BY <2>2, <2>3, <3>1, Zenon
    <2> QED  BY <1>2, <2>4, EmptySeq
  <1>9. \A k \in Kinds : MapList(r, k) = <<>>
    BY <1>8 DEF MapList
  <1> QED  BY <1>1, <1>4, <1>6, <1>7, <1>9

\* The slot's bit is cleared last.
LEMMA DoneEffect ==
    ASSUME TypeOK, Pointers, NEW a \in Actors, PutDone(a), NEW r, r = act[a].ref
    PROVE  /\ r \in RefSlots
           /\ refs' \in [RefSlots -> RefType]
           /\ ~refs'[r].used /\ refs'[r].ctrl = refs[r].ctrl /\ refs'[r].owner = refs[r].owner
           /\ \A s \in RefSlots : s # r => refs'[s] = refs[s]
           /\ \A s \in RefSlots, k \in Kinds : MapList(s, k)' = MapList(s, k)
  <1>1. r \in RefSlots
    BY DEF PutDone, Pointers, PlaceOK
  <1>2. refs[r] \in RefType /\ refs \in [RefSlots -> RefType]
    BY <1>1 DEF TypeOK
  <1>3. PICK new : new = [refs[r] EXCEPT !.used = FALSE]
    OBVIOUS
  <1>4. /\ new \in RefType /\ ~new.used /\ new.ctrl = refs[r].ctrl /\ new.owner = refs[r].owner
        /\ new.user = refs[r].user /\ new.gpu = refs[r].gpu
    BY <1>2, <1>3 DEF RefType
  <1>5. refs' = [refs EXCEPT ![r] = new]
    BY <1>1, <1>2, <1>3 DEF PutDone
  <1>6. refs' \in [RefSlots -> RefType] /\ refs'[r] = new /\ \A s \in RefSlots : s # r
        => refs'[s] = refs[s]
    BY <1>1, <1>2, <1>4, <1>5
  <1>7. \A s \in RefSlots, k \in Kinds : MapList(s, k)' = MapList(s, k)
    BY <1>4, <1>6 DEF MapList
  <1> QED  BY <1>1, <1>4, <1>6, <1>7

\* Loading clears all slots, or leaves them alone.
LEMMA EntryEffect ==
    ASSUME TypeOK, EntryStep
    PROVE  /\ refs' \in [RefSlots -> RefType]
           /\ \/ /\ refs' = refs /\ \A s \in RefSlots, k \in Kinds : MapList(s, k)' = MapList(s, k)
              \/ \A s \in RefSlots : /\ ~refs'[s].used /\ refs'[s].ctrl = 0
                                        /\ refs'[s].owner = NoTask
                                     /\ \A k \in Kinds : MapList(s, k)' = <<>>
  <1>1. CASE refs' = refs
    <2>1. \A s \in RefSlots, k \in Kinds : MapList(s, k)' = MapList(s, k)
      BY <1>1 DEF MapList
    <2> QED  BY <1>1, <2>1 DEF TypeOK
  <1>2. CASE refs' = [r \in RefSlots |-> NoRef]
    <2>1. NoRef \in RefType
      <3>1. 0 \in 0..NumDevs /\ <<>> \in Seq(MapIds)
        BY SlotFacts
      <3> QED  BY <3>1 DEF NoRef, RefType
    <2>2. \A s \in RefSlots : refs'[s] = NoRef
      BY <1>2
    <2>3. \A s \in RefSlots, k \in Kinds : MapList(s, k)' = <<>>
      BY <2>2 DEF MapList, NoRef
    <2>4. refs' \in [RefSlots -> RefType]
      BY <1>2, <2>1
    <2>5. \A s \in RefSlots : ~refs'[s].used /\ refs'[s].ctrl = 0 /\ refs'[s].owner = NoTask
      BY <2>2 DEF NoRef
    <2> QED  BY <2>3, <2>4, <2>5
  <1> QED  BY <1>1, <1>2 DEF EntryStep

\* Releasing a map: it is unlinked and freed, and nothing of it is left, or the pages of
\* a GPU are to be unmapped first, unless it is already gone.
LEMMA UnmapEffect ==
    ASSUME TypeOK, FieldsSettled, ListedOnce,
           NEW a \in Actors, NEW m \in MapIds, Unmap(a, m)
    PROVE  \/ Again(a, m) /\ fault' # "none" /\ Goto(a, "dead")
              /\ UNCHANGED <<mod, held, devs, refs, heap, pci, file>> /\ Note
           \/ /\ ~Again(a, m)
              /\ refs' \in [RefSlots -> RefType]
              /\ \A s \in RefSlots : /\ refs'[s].used = refs[s].used /\ refs'[s].ctrl = refs[s].ctrl
                                     /\ refs'[s].owner = refs[s].owner
              /\ \A s \in RefSlots, k \in Kinds : MapList(s, k)' = Unlink(MapList(s, k), m)
              /\ \/ heap' = [heap EXCEPT ![m] = NoMap] /\ act' = [act EXCEPT ![a] = Return(a)]
                 \/ UNCHANGED heap /\ heap[m].type = "gpu" /\ Goto(a, "dma")
              /\ UNCHANGED <<mod, held, devs, pci, file, fault>> /\ Note
  <1>1. CASE Again(a, m)
    BY <1>1 DEF Unmap, Crash
  <1>2. CASE ~Again(a, m)
    <2>1. heap[m] # NoMap /\ heap[m] \in MapType /\ Settled(heap[m])
      BY <1>2 DEF TypeOK, FieldsSettled, Again
    <2>2. PICK d : d = heap[m]
      OBVIOUS
    <2>3. /\ d.pages \in Nat /\ d.pinned \in Nat /\ d.addrs \in Nat /\ d.mapped \in Nat
          /\ d.pages = d.pinned
          /\ d.type = "user" => d.addrs = d.mapped
          /\ d.type = "gpu" /\ d.mappings = "null" => d.pinned = 0 /\ d.mapped = 0
      BY <2>1, <2>2, SlotFacts DEF MapType, Settled
    <2>4. /\ refs' = list_remove(m) /\ UNCHANGED <<mod, held, devs, pci, file>> /\ Note
      BY <1>2 DEF Unmap, UnmapUser, UnmapGpu
    <2>5. /\ \/ heap' = [heap EXCEPT ![m] = NoMap] /\ act' = [act EXCEPT ![a] = Return(a)]
             \/ UNCHANGED heap /\ heap[m].type = "gpu" /\ Goto(a, "dma")
          /\ UNCHANGED fault
      <3>1. CASE UnmapUser(a, m)
        <4>1. PICK e : e
              = [[d EXCEPT !.mapped = d.mapped - d.addrs] EXCEPT !.pinned = d.pinned - d.pages]
          OBVIOUS
        <4>2. e.mapped = d.mapped - d.addrs /\ e.pinned = d.pinned - d.pages
          BY <2>1, <2>2, <4>1 DEF MapType
        <4>3. e.mapped = 0 /\ e.pinned = 0
          BY <2>2, <2>3, <3>1, <4>2 DEF UnmapUser
        <4>4. Freed(m, e)
          BY <2>1, <2>2, <3>1, <4>1 DEF UnmapUser, MapType
        <4> QED  BY <3>1, <4>3, <4>4 DEF UnmapUser, Freed
      <3>2. CASE UnmapGpu(a, m)
        BY <2>2, <2>3, <3>2 DEF UnmapGpu, Freed
      <3> QED  BY <1>2, <3>1, <3>2 DEF Unmap
    <2>7. ASSUME NEW s \in RefSlots
          PROVE  /\ refs'[s] \in RefType /\ refs'[s].used = refs[s].used
                    /\ refs'[s].ctrl = refs[s].ctrl
                 /\ refs'[s].owner = refs[s].owner
                 /\ refs'[s].user = Unlink(refs[s].user, m) /\ refs'[s].gpu = Unlink(refs[s].gpu, m)
      <3>1. PICK u, g : u = Unlink(refs[s].user, m) /\ g = Unlink(refs[s].gpu, m)
        OBVIOUS
      <3>2. u \in Seq(MapIds) /\ g \in Seq(MapIds)
        <4>1. \A k \in Kinds : Unlink(MapList(s, k), m) \in Seq(MapIds)
          BY RefFacts, UnlinkFacts DEF ListedOnce
        <4>2. refs[s].user = MapList(s, "user") /\ refs[s].gpu = MapList(s, "gpu")
          BY DEF MapList
        <4> QED  BY <3>1, <4>1, <4>2 DEF Kinds
      <3>3. refs'[s] = [[refs[s] EXCEPT !.user = u] EXCEPT !.gpu = g]
        BY <2>4, <3>1, RefFacts DEF list_remove, RefType
      <3> QED  BY <3>1, <3>2, <3>3, RefFacts DEF RefType
    <2>8. refs' \in [RefSlots -> RefType]
      <3>1. refs' = [s \in RefSlots |-> refs'[s]]
        BY <2>4 DEF list_remove
      <3> QED  BY <2>7, <3>1
    <2>9. \A s \in RefSlots, k \in Kinds : MapList(s, k)' = Unlink(MapList(s, k), m)
      BY <2>7 DEF MapList
    <2> QED  BY <1>2, <2>4, <2>5, <2>7, <2>8, <2>9
  <1> QED  BY <1>1, <1>2

\* Each step of the map ioctl crashes, or frees the descriptor and ends, or goes on
\* with one whose fields are true.
LEMMA BuildEffect ==
    ASSUME TypeOK, Pointers, FieldsSettled, BuiltAlone,
           NEW t \in Tasks, MapPin(t) \/ MapUser(t) \/ MapGpu(t), NEW m, m = act[t].map
    PROVE  /\ m \in MapIds /\ heap[m] \in MapType /\ act[t].pc \in {"pin", "map"}
           /\ UNCHANGED <<mod, held, devs, refs, pci, file>> /\ Note
           /\ \/ fault' # "none" /\ Goto(t, "dead") /\ UNCHANGED heap
                 /\ (NullCtrl(t) \/ (act[t].pc = "map" /\ heap[m].pinned = 0))
              \/ heap' = [heap EXCEPT ![m] = NoMap] /\ Finish(t) /\ UNCHANGED fault
              \/ \E d \in MapType :
                    /\ heap' = [heap EXCEPT ![m] = d] /\ UNCHANGED fault
                    /\ d.type = heap[m].type /\ d.vaddr = heap[m].vaddr
                    /\ d.pages <= d.asked /\ d.addrs <= d.asked /\ Settled(d)
                    /\ \/ act[t].pc = "pin" /\ Goto(t, "map") /\ d.pinned # 0
                       \/ act[t].pc = "map" /\ Goto(t, "insert") /\ d.mappings # "junk"
                          /\ d.pinned = heap[m].pinned
  <1>1. t \in Actors /\ Has(t) /\ act[t].pc \in {"pin", "map"}
    BY DEF MapPin, MapUser, MapGpu, Actors, Has, Building, Halfway
  <1>2. m \in MapIds /\ heap[m] # NoMap
    BY <1>1 DEF Pointers, PlaceOK, BuiltAlone, Stage
  <1>3. /\ heap[m] \in MapType /\ Settled(heap[m]) /\ heap[m].pages <= heap[m].asked
        /\ heap[m].addrs <= heap[m].asked
        /\ act[t].pc = "pin" => /\ heap[m].pinned = 0
                                /\ heap[m].type = "gpu" => heap[m].mappings = "junk"
    BY <1>1, <1>2 DEF TypeOK, FieldsSettled, BuiltAlone, Stage
  <1>4. PICK old : old = heap[m]
    OBVIOUS
  <1>5. /\ old.type \in {"user", "gpu"} /\ old.asked \in 1..MaxPages
        /\ old.pages \in Nat /\ old.pages = old.pinned /\ old.addrs \in 0..MaxPages
              /\ old.mapped \in 0..MaxPages
        /\ old.type = "user" => old.mappings = "null"
    BY <1>3, <1>4, SlotFacts DEF MapType, Settled
  <1>6. heap \in [MapIds -> MapType \union {NoMap}]
    BY DEF TypeOK
  <1>7. CASE MapPin(t)
    <2>1. CASE Crash(t, "null controller") /\ NullCtrl(t)
      BY <1>1, <1>2, <1>3, <2>1 DEF Crash
    <2>2. CASE /\ heap' = [heap EXCEPT ![m] = NoMap] /\ Finish(t)
               /\ UNCHANGED <<mod, held, devs, refs, pci, file, fault>> /\ Note
      BY <1>1, <1>2, <1>3, <2>2
    <2>3. ASSUME NEW k \in 1..old.asked, heap' = [heap EXCEPT ![m].pages = k, ![m].pinned = k],
                 Goto(t, "map"), UNCHANGED <<mod, held, devs, refs, pci, file, fault>> /\ Note
          PROVE  \E d \in MapType :
                    /\ heap' = [heap EXCEPT ![m] = d]
                    /\ d.type = heap[m].type /\ d.vaddr = heap[m].vaddr
                    /\ d.pages <= d.asked /\ d.addrs <= d.asked /\ Settled(d) /\ d.pinned # 0
      <3>1. PICK d : d = [[old EXCEPT !.pages = k] EXCEPT !.pinned = k]
        OBVIOUS
      <3>2. k \in 0..MaxPages /\ k # 0 /\ k <= old.asked
        BY <1>5, SlotFacts
      <3>3. /\ d \in MapType /\ d.type = old.type /\ d.vaddr = old.vaddr /\ d.pages = k
               /\ d.pinned = k
            /\ d.asked = old.asked /\ d.addrs = old.addrs /\ d.mapped = old.mapped
            /\ d.mappings = old.mappings
        BY <1>3, <1>4, <3>1, <3>2 DEF MapType
      <3>4. Settled(d)
        BY <1>3, <1>4, <1>7, <3>3 DEF Settled, MapPin
      <3>5. heap' = [heap EXCEPT ![m] = d]
        BY <1>2, <1>4, <1>6, <2>3, <3>1
      <3> QED  BY <1>3, <1>4, <3>2, <3>3, <3>4, <3>5
    <2>4. CASE \E k \in 1..old.asked :
                 /\ heap' = [heap EXCEPT ![m].pages = k, ![m].pinned = k]
                 /\ Goto(t, "map") /\ UNCHANGED <<mod, held, devs, refs, pci, file, fault>> /\ Note
      <3>1. Goto(t, "map") /\ UNCHANGED <<mod, held, devs, refs, pci, file, fault>> /\ Note
        BY <2>4
      <3> QED  BY <1>1, <1>2, <1>3, <1>7, <2>3, <2>4, <3>1 DEF MapPin
    <2> QED  BY <1>4, <1>7, <2>1, <2>2, <2>4 DEF MapPin
  <1>8. CASE MapUser(t)
    <2>1. CASE Crash(t, "null controller") /\ NullCtrl(t)
      BY <1>1, <1>2, <1>3, <2>1 DEF Crash
    <2>2. CASE ~NullCtrl(t)
      <3>1. PICK k \in 0..old.pages : heap' = [heap EXCEPT ![m].addrs = k, ![m].mapped = k]
        BY <1>4, <1>8, <2>2 DEF MapUser
      <3>2. PICK d : d = [[old EXCEPT !.addrs = k] EXCEPT !.mapped = k]
        OBVIOUS
      <3>3. k \in 0..MaxPages /\ k <= old.asked
        BY <1>3, <1>4, <1>5, SlotFacts
      <3>4. /\ d \in MapType /\ d.type = old.type /\ d.vaddr = old.vaddr /\ d.pages = old.pages
            /\ d.pinned = old.pinned /\ d.asked = old.asked /\ d.addrs = k /\ d.mapped = k
            /\ d.mappings = old.mappings
        BY <1>3, <1>4, <3>2, <3>3 DEF MapType
      <3>5. old.type = "user"
        BY <1>4, <1>8 DEF MapUser
      <3>6. Settled(d) /\ d.mappings # "junk"
        BY <1>5, <3>4, <3>5 DEF Settled
      <3>7. heap' = [heap EXCEPT ![m] = d]
        BY <1>2, <1>4, <1>6, <3>1, <3>2
      <3>8. act[t].pc = "map" /\ Goto(t, "insert")
            /\ UNCHANGED <<mod, held, devs, refs, pci, file, fault>> /\ Note
        BY <1>8, <2>2 DEF MapUser
      <3> QED  BY <1>2, <1>3, <1>4, <3>3, <3>4, <3>6, <3>7, <3>8
    <2> QED  BY <1>8, <2>1, <2>2 DEF MapUser
  <1>9. CASE MapGpu(t)
    <2>1. CASE Crash(t, "page table gone") /\ heap[m].pinned = 0
      BY <1>1, <1>2, <1>3, <1>9, <2>1 DEF Crash, MapGpu
    <2>2. CASE /\ heap' = [heap EXCEPT ![m] = NoMap] /\ Finish(t)
               /\ UNCHANGED <<mod, held, devs, refs, pci, file, fault>> /\ Note
      BY <1>1, <1>2, <1>3, <2>2
    <2>3. CASE /\ heap' = [heap EXCEPT ![m].addrs = heap[m].pages, ![m].mapped = heap[m].pages,
                                       ![m].mappings = "set"]
               /\ Goto(t, "insert")
               /\ UNCHANGED <<mod, held, devs, refs, pci, file, fault>> /\ Note
      <3>1. PICK d : d
            = [[[old EXCEPT !.addrs = old.pages] EXCEPT !.mapped = old.pages] EXCEPT !.mappings
                  = "set"]
        OBVIOUS
      <3>2. old.pages \in 0..MaxPages
        BY <1>3, <1>4 DEF MapType
      <3>3. /\ d \in MapType /\ d.type = old.type /\ d.vaddr = old.vaddr /\ d.pages = old.pages
            /\ d.pinned = old.pinned /\ d.asked = old.asked /\ d.addrs = old.pages
            /\ d.mapped = old.pages /\ d.mappings = "set"
        BY <1>3, <1>4, <3>1, <3>2 DEF MapType
      <3>4. Settled(d)
        BY <1>4, <1>5, <1>9, <3>3 DEF Settled, MapGpu
      <3>5. heap' = [heap EXCEPT ![m] = d]
        BY <1>2, <1>4, <1>6, <2>3, <3>1
      <3>6. act[t].pc = "map"
        BY <1>9 DEF MapGpu
      <3> QED  BY <1>2, <1>3, <1>4, <2>3, <3>3, <3>4, <3>5, <3>6
    <2> QED  BY <1>9, <2>1, <2>2, <2>3 DEF MapGpu
  <1> QED  BY <1>7, <1>8, <1>9

\* The ioctl allocates a descriptor nobody points to.
LEMMA IoctlEffect ==
    ASSUME TypeOK, NEW t \in Tasks, NEW f \in Files, IoctlMap(t, f)
    PROVE  \E m \in MapIds, d \in MapType, r \in RefSlots :
              /\ heap[m] = NoMap /\ \A a \in Actors : act[a].map # m
              /\ heap' = [heap EXCEPT ![m] = d]
              /\ d.pages <= d.asked /\ d.addrs <= d.asked /\ Settled(d) /\ Stage("pin", d)
              /\ refs[r].ctrl = file[f] /\ refs[r].owner = t /\ file[f] \in DevSlots
              /\ act' = [act EXCEPT ![t] = [pc |-> "pin", file |-> f, dev |-> file[f], ref |-> r,
                    map |-> m]]
              /\ UNCHANGED <<mod, held, devs, refs, pci, file, fault>> /\ Note
  <1>1. PICK m \in MapIds, va \in VAddrs, n \in 1..(MaxPages - 1) :
          /\ heap[m] = NoMap /\ \A a \in Actors : act[a].map # m
          /\ heap' = [heap EXCEPT ![m] =
                [type |-> IF va \in GpuAddrs THEN "gpu" ELSE "user", vaddr |-> va, asked |-> n,
                      pages |-> 0, pinned |-> 0,
                 addrs |-> 0, mapped |-> 0,
                 mappings |-> IF va \in GpuAddrs THEN "junk" ELSE "null"]]
          /\ act' = [act EXCEPT ![t] = [pc |-> "pin", file |-> f, dev |-> file[f],
                                        ref |-> find_ref(file[f], {t}), map |-> m]]
    BY DEF IoctlMap
  <1>2. PICK d : d = [type |-> IF va \in GpuAddrs THEN "gpu" ELSE "user", vaddr |-> va,
        asked |-> n, pages |-> 0,
                      pinned |-> 0, addrs |-> 0, mapped |-> 0,
                      mappings |-> IF va \in GpuAddrs THEN "junk" ELSE "null"]
    OBVIOUS
  <1>3. n \in 1..MaxPages /\ 0 \in 0..MaxPages /\ 0 <= n
    BY SlotFacts
  <1>4. d \in MapType /\ d.pages <= d.asked /\ d.addrs <= d.asked /\ Settled(d) /\ Stage("pin", d)
    BY <1>2, <1>3 DEF MapType, Settled, Stage, NoMap
  <1>5. PICK r : r = find_ref(file[f], {t})
    OBVIOUS
  <1>6. r \in RefSlots /\ refs[r].ctrl = file[f] /\ refs[r].owner = t
    BY <1>5, FindRefFacts DEF IoctlMap
  <1>7. file[f] \in DevSlots
    <2>1. file[f] \in 0..NumDevs /\ file[f] # 0
      BY DEF TypeOK, IoctlMap
    <2> QED  BY <2>1, SlotFacts DEF DevSlots
  <1>8. UNCHANGED <<mod, held, devs, refs, pci, file, fault>> /\ Note
    BY DEF IoctlMap
  <1> QED  BY <1>1, <1>2, <1>4, <1>5, <1>6, <1>7, <1>8

\* When GPU memory is freed the descriptor stays, with nothing mapped.
LEMMA FreedEffect ==
    ASSUME TypeOK, FieldsSettled, NEW m \in MapIds, free_callback(m)
    PROVE  /\ heap[m] \in MapType /\ heap[m].type = "gpu" /\ heap[m].pinned # 0
           /\ UNCHANGED <<mod, held, devs, refs, pci, file, act>> /\ Note
           /\ heap[m].mappings # "junk" /\ (~\E a \in Actors : Halfway(a) /\ act[a].map = m)
                 => fault' = fault
           /\ \E d \in MapType :
                 /\ heap' = [heap EXCEPT ![m] = d] /\ d.type = heap[m].type
                       /\ d.vaddr = heap[m].vaddr
                 /\ d.pages <= d.asked /\ d.addrs <= d.asked /\ Settled(d) /\ d.pinned = 0
                 /\ d.mapped = 0 /\ d.mappings = "null"
  <1>1. heap[m] # NoMap
    <2>1. NoMap.type # "gpu"
      BY DEF NoMap
    <2> QED  BY <2>1 DEF free_callback
  <1>2. heap[m] \in MapType /\ heap[m].pages <= heap[m].asked /\ heap[m].addrs <= heap[m].asked
        /\ heap \in [MapIds -> MapType \union {NoMap}]
    BY <1>1 DEF TypeOK
  <1>3. PICK old : old = heap[m]
    OBVIOUS
  <1>4. PICK d : d
        = [[[[old EXCEPT !.pages = 0] EXCEPT !.pinned = 0] EXCEPT !.mappings
              = "null"] EXCEPT !.mapped = 0]
    OBVIOUS
  <1>5. 0 \in 0..MaxPages
    BY SlotFacts
  <1>6. /\ d \in MapType /\ d.type = old.type /\ d.vaddr = old.vaddr /\ d.asked = old.asked
        /\ d.pages = 0 /\ d.pinned = 0 /\ d.addrs = old.addrs /\ d.mapped = 0 /\ d.mappings = "null"
    BY <1>2, <1>3, <1>4, <1>5 DEF MapType
  <1>7. d.asked \in Nat
    BY <1>6, SlotFacts DEF MapType
  <1>8. Settled(d)
    BY <1>3, <1>6 DEF Settled, free_callback
  <1>9. heap' = [heap EXCEPT ![m] = d]
    BY <1>2, <1>3, <1>4 DEF free_callback
  <1>10. 0 <= d.asked
    BY <1>7
  <1>11. heap[m].mappings # "junk" /\ (~\E a \in Actors : Halfway(a) /\ act[a].map = m)
            => fault' = fault
    BY DEF free_callback, Halfway
  <1>12. /\ heap[m].type = "gpu" /\ heap[m].pinned # 0
         /\ UNCHANGED <<mod, held, devs, refs, pci, file, act>> /\ Note
    BY DEF free_callback
  <1> QED  BY <1>2, <1>3, <1>6, <1>8, <1>9, <1>10, <1>11, <1>12

-----------------------------------------------------------------------------
(* Places *)

\* Only the actor that takes the step is elsewhere afterwards.
LEMMA PlaceEffect ==
    ASSUME TypeOK, Pointers, NEW a \in Actors, NEW new \in Place, PlaceOK(a, new),
           act' = [act EXCEPT ![a] = new]
    PROVE  /\ act' \in [Actors -> Place] /\ Pointers'
           /\ act'[a] = new /\ \A b \in Actors : b # a => act'[b] = act[b]
  <1>1. act \in [Actors -> Place]
    BY DEF TypeOK
  <1>2. act' \in [Actors -> Place] /\ act'[a] = new /\ \A b \in Actors : b # a => act'[b] = act[b]
    BY <1>1
  <1>3. \A b \in Actors : PlaceOK(b, act'[b])
    BY <1>2 DEF Pointers
  <1>4. Pointers'
    BY <1>3 DEF Pointers, PlaceOK
  <1> QED  BY <1>2, <1>4

\* The same for a step that goes on in the code and keeps its pointers.
LEMMA GotoEffect ==
    ASSUME TypeOK, Pointers, NEW a \in Actors, NEW p \in Pcs, Goto(a, p),
           PlaceOK(a, [act[a] EXCEPT !.pc = p])
    PROVE  /\ act' \in [Actors -> Place] /\ Pointers'
           /\ act'[a].pc = p /\ act'[a].file = act[a].file /\ act'[a].dev = act[a].dev
           /\ act'[a].ref = act[a].ref /\ act'[a].map = act[a].map
           /\ \A b \in Actors : b # a => act'[b] = act[b]
  <1>1. PICK new : new = [act[a] EXCEPT !.pc = p]
    OBVIOUS
  <1>2. /\ new \in Place /\ new.pc = p /\ new.file = act[a].file /\ new.dev = act[a].dev
        /\ new.ref = act[a].ref /\ new.map = act[a].map
    BY <1>1, ActFacts DEF Place
  <1>3. act' = [act EXCEPT ![a] = new]
    BY <1>1 DEF Goto, TypeOK
  <1>4. PlaceOK(a, new)
    BY <1>1
  <1> QED  BY <1>2, <1>3, <1>4, PlaceEffect

\* Places at the start of a call, in the call that returns, and of a device.
LEMMA AtFacts ==
    ASSUME NEW p \in Pcs
    PROVE  /\ At(p) \in Place /\ At(p).pc = p /\ At(p).file = NoId /\ At(p).dev = 0
           /\ At(p).ref = 0 /\ At(p).map = NoId
  <1>1. 0 \in 0..NumDevs /\ 0 \in 0..NumRefs
    BY SlotFacts
  <1> QED  BY <1>1 DEF At, Place

\* A task that finishes is idle and points to nothing.
LEMMA FinishEffect ==
    ASSUME TypeOK, Pointers, NEW t \in Tasks, Finish(t)
    PROVE  /\ act' \in [Actors -> Place] /\ Pointers'
           /\ act'[t].pc = "idle" /\ act'[t].file = NoId /\ act'[t].map = NoId
           /\ \A b \in Actors : b # t => act'[b] = act[b]
  <1>1. t \in Actors /\ "idle" \in Pcs
    BY DEF Actors, Pcs
  <1>2. PICK new : new = At("idle")
    OBVIOUS
  <1>3. new \in Place /\ new.pc = "idle" /\ new.file = NoId /\ new.map = NoId
    BY <1>1, <1>2, AtFacts
  <1>4. PlaceOK(t, new)
    BY <1>3 DEF PlaceOK, TaskPcs
  <1>5. act' = [act EXCEPT ![t] = new]
    BY <1>2 DEF Finish
  <1> QED  BY <1>1, <1>3, <1>4, <1>5, PlaceEffect

\* remove_pci_dev finds the slot probe has taken.
LEMMA FindDev ==
    ASSUME TypeOK, Pointers, DevSlotsOwned, NEW p \in Pdevs, act[p].pc # "unbound"
    PROVE  find_dev_by_pdev(p) = act[p].dev /\ act[p].dev \in DevSlots
  <1>1. p \in Actors /\ p \notin Tasks /\ p # NoPdev
    BY KernelAssumption DEF Actors, NoPdev
  <1>2. act[p].dev \in DevSlots
    BY <1>1 DEF Pointers, PlaceOK, DevicePcs
  <1>3. devs[act[p].dev].pdev = p
    <2>1. devs[act[p].dev] = [used |-> TRUE, pdev |-> p, chr |-> Visible(p)]
      BY DEF DevSlotsOwned, SlotOf
    <2> QED  BY <2>1
  <1>4. \A d \in DevSlots : devs[d].pdev = p => d = act[p].dev
    <2> SUFFICES ASSUME NEW d \in DevSlots, devs[d].pdev = p PROVE d = act[p].dev
      OBVIOUS
    <2>1. devs[d] # NoDev
      <3>1. NoDev.pdev = NoPdev
        BY DEF NoDev
      <3> QED  BY <1>1, <3>1
    <2> QED  BY <2>1 DEF DevSlotsOwned
  <1> QED  BY <1>2, <1>3, <1>4 DEF find_dev_by_pdev

\* open starts at the first slot, for a device that has a character device.
LEMMA OpenFindEffect ==
    ASSUME TypeOK, Pointers, NEW t \in Tasks, NEW f \in Files, OpenFind(t, f)
    PROVE  /\ act' \in [Actors -> Place] /\ Pointers'
           /\ \A b \in Actors : b # t => act'[b] = act[b]
           /\ act[t].pc = "idle" /\ act'[t].pc = "claim" /\ act'[t].map = NoId
           /\ act'[t].dev \in DevSlots /\ devs[act'[t].dev].chr
           /\ mod = Loaded /\ UNCHANGED <<mod, held, devs, refs, heap, pci, file, fault>> /\ Note
  <1>1. PICK d \in DevSlots : devs[d].chr /\ act' = [act EXCEPT ![t] =
                                 [At("claim") EXCEPT !.file = f, !.dev = d, !.ref = 1]]
    BY DEF OpenFind
  <1>2. PICK new : new = [[[At("claim") EXCEPT !.file = f] EXCEPT !.dev = d] EXCEPT !.ref = 1]
    OBVIOUS
  <1>3. At("claim") \in Place /\ At("claim").pc = "claim" /\ At("claim").map = NoId
    BY AtFacts DEF Pcs
  <1>4. 1 \in RefSlots /\ 1 \in 0..NumRefs /\ d \in 0..NumDevs
    BY SlotFacts
  <1>5. new \in Place /\ new.pc = "claim" /\ new.map = NoId /\ new.dev = d /\ new.ref = 1
    BY <1>2, <1>3, <1>4 DEF Place
  <1>6. PlaceOK(t, new) /\ t \in Actors
    BY <1>4, <1>5 DEF PlaceOK, TaskPcs, Actors
  <1>7. act' = [act EXCEPT ![t] = new]
    BY <1>1, <1>2
  <1>8. /\ act' \in [Actors -> Place] /\ Pointers' /\ act'[t] = new
        /\ \A b \in Actors : b # t => act'[b] = act[b]
    BY <1>5, <1>6, <1>7, PlaceEffect
  <1> QED  BY <1>1, <1>5, <1>8 DEF OpenFind, Idle

\* The next slot, or ENOSPC.
LEMMA OpenNextEffect ==
    ASSUME TypeOK, Pointers, NEW t \in Tasks, OpenNext(t)
    PROVE  /\ act' \in [Actors -> Place] /\ Pointers'
           /\ \A b \in Actors : b # t => act'[b] = act[b]
           /\ act[t].pc = "claim" /\ act'[t].pc \in {"idle", "claim"}
                 /\ act'[t].map \in {NoId, act[t].map}
           /\ act'[t].pc = "claim" => act'[t].dev = act[t].dev
           /\ UNCHANGED <<mod, held, devs, refs, heap, pci, file, fault>> /\ Note
  <1>1. t \in Actors
    BY DEF Actors
  <1>2. CASE act[t].ref = NumRefs
    <2>1. Finish(t)
      BY <1>2 DEF OpenNext
    <2> QED  BY <2>1, FinishEffect DEF OpenNext
  <1>3. CASE act[t].ref # NumRefs
    <2>1. act[t].ref \in RefSlots /\ act[t].pc = "claim" /\ act[t].dev \in DevSlots
      BY <1>1 DEF OpenNext, Pointers, PlaceOK
    <2>2. act[t].ref + 1 \in RefSlots /\ act[t].ref + 1 \in 0..NumRefs
      BY <1>3, <2>1, SlotFacts DEF RefSlots
    <2>3. PICK new : new = [act[t] EXCEPT !.ref = act[t].ref + 1]
      OBVIOUS
    <2>4. new \in Place /\ new.pc = "claim" /\ new.map = act[t].map /\ new.dev = act[t].dev
          /\ new.ref = act[t].ref + 1
      BY <1>1, <2>1, <2>2, <2>3, ActFacts DEF Place
    <2>5. PlaceOK(t, new)
      BY <2>1, <2>2, <2>4 DEF PlaceOK, TaskPcs
    <2>6. act' = [act EXCEPT ![t] = new]
      BY <1>3, <2>3 DEF OpenNext
    <2>7. /\ act' \in [Actors -> Place] /\ Pointers' /\ act'[t] = new
          /\ \A b \in Actors : b # t => act'[b] = act[b]
      BY <1>1, <2>4, <2>5, <2>6, PlaceEffect
    <2> QED  BY <2>1, <2>4, <2>7 DEF OpenNext
  <1> QED  BY <1>2, <1>3

\* What a list search returns is in the list.
LEMMA ListFindFacts ==
    ASSUME NEW s \in Seq(MapIds), NEW va, list_find(s, va) # NoId
    PROVE  list_find(s, va) \in MapIds /\ Contains(s, list_find(s, va))
  <1> DEFINE hits == {i \in 1..Len(s) : /\ heap[s[i]].vaddr = va
                                        /\ \A j \in 1..(i - 1) : heap[s[j]].vaddr < va}
  <1>1. hits # {} /\ list_find(s, va) = s[SmallestOf(hits)]
    BY DEF list_find
  <1>2. hits \subseteq Nat
    OBVIOUS
  <1>3. SmallestOf(hits) \in hits
    <2> HIDE DEF hits
    <2> QED  BY <1>1, <1>2, SmallestFacts
  <1>4. PICK i : i = SmallestOf(hits)
    OBVIOUS
  <1>5. i \in 1..Len(s)
    BY <1>3, <1>4
  <1> HIDE DEF hits
  <1>6. list_find(s, va) = s[i] /\ s[i] \in MapIds
    BY <1>1, <1>4, <1>5
  <1> QED  BY <1>5, <1>6 DEF Contains

\* The unmap ioctl points to a map in a list of a reference of its own.
LEMMA UnmapFindEffect ==
    ASSUME TypeOK, Pointers, NEW t \in Tasks, NEW f \in Files, UnmapFind(t, f)
    PROVE  /\ act' \in [Actors -> Place] /\ Pointers'
           /\ \A b \in Actors : b # t => act'[b] = act[b]
           /\ act[t].pc = "idle" /\ act'[t].pc = "unmap" /\ act'[t].dev = file[f] /\ file[f] # 0
           /\ act'[t].dev \in DevSlots /\ act'[t].ref \in RefSlots /\ act'[t].map \in MapIds
           /\ refs[act'[t].ref].ctrl = file[f] /\ refs[act'[t].ref].owner = t
           /\ \E k \in Kinds : Contains(MapList(act'[t].ref, k), act'[t].map)
           /\ UNCHANGED <<mod, held, devs, refs, heap, pci, file, fault>> /\ Note
  <1>1. PICK r : r = find_ref(file[f], {t})
    OBVIOUS
  <1>2. PICK va, m :
          /\ va \in VAddrs
          /\ m = IF find_user_page_map(r, va) # NoId THEN find_user_page_map(r,
                va) ELSE find_gpu_map(r, va)
          /\ r # 0 /\ m # NoId
          /\ act' = [act EXCEPT ![t] = [pc |-> "unmap", file |-> f, dev |-> file[f], ref |-> r,
                map |-> m]]
    BY <1>1 DEF UnmapFind
  <1>3. r \in RefSlots /\ refs[r].ctrl = file[f] /\ refs[r].owner = t
    BY <1>1, <1>2, FindRefFacts
  <1>4. \A k \in Kinds : MapList(r, k) \in Seq(MapIds)
    BY <1>3, RefFacts
  <1>5. /\ find_user_page_map(r, va) = list_find(MapList(r, "user"), va)
        /\ find_gpu_map(r, va) = list_find(MapList(r, "gpu"), va)
    BY DEF find_user_page_map, find_gpu_map, MapList
  <1>6. m \in MapIds /\ \E k \in Kinds : Contains(MapList(r, k), m)
    BY <1>2, <1>4, <1>5, ListFindFacts DEF Kinds
  <1>7. file[f] \in DevSlots /\ file[f] # 0
    <2>1. file[f] \in 0..NumDevs /\ file[f] # 0
      BY DEF TypeOK, UnmapFind
    <2> QED  BY <2>1, SlotFacts DEF DevSlots
  <1>8. PICK new : new = [pc |-> "unmap", file |-> f, dev |-> file[f], ref |-> r, map |-> m]
    OBVIOUS
  <1>9. new \in Place
    BY <1>3, <1>6, <1>7, <1>8, SlotFacts DEF Place, Pcs
  <1>10. PlaceOK(t, new) /\ t \in Actors
    BY <1>3, <1>6, <1>7, <1>8 DEF PlaceOK, TaskPcs, Actors
  <1>11. /\ act' \in [Actors -> Place] /\ Pointers' /\ act'[t] = new
         /\ \A b \in Actors : b # t => act'[b] = act[b]
    BY <1>2, <1>8, <1>9, <1>10, PlaceEffect
  <1>12. new.pc = "unmap" /\ new.dev = file[f] /\ new.ref = r /\ new.map = m
    BY <1>8
  <1> QED  BY <1>3, <1>6, <1>7, <1>11, <1>12 DEF UnmapFind, Idle

\* release finds a reference of the task's own, or leaves the task idle.
LEMMA ReleaseEffect ==
    ASSUME TypeOK, Pointers, NEW t \in Tasks, NEW f \in Files, Release(t, f)
    PROVE  /\ act' \in [Actors -> Place] /\ Pointers'
           /\ \A b \in Actors : b # t => act'[b] = act[b]
           /\ act[t].pc = "idle"
           /\ \/ act' = act
              \/ /\ act'[t].pc = "put" /\ act'[t].dev \in DevSlots /\ act'[t].ref \in RefSlots
                 /\ act'[t].map = NoId
                 /\ refs[act'[t].ref].ctrl = act'[t].dev /\ refs[act'[t].ref].owner = t
           /\ file[f] # 0 /\ file' = [file EXCEPT ![f] = 0]
           /\ UNCHANGED <<mod, held, devs, refs, heap, pci, fault>> /\ Note
  <1>1. PICK r : r = find_ref(file[f], {t})
    OBVIOUS
  <1>2. CASE r = 0
    <2>1. act' = act
      BY <1>1, <1>2 DEF Release
    <2>2. Pointers'
      BY <2>1 DEF Pointers
    <2> QED  BY <2>1, <2>2 DEF TypeOK, Release, Idle
  <1>3. CASE r # 0
    <2>1. r \in RefSlots /\ refs[r].ctrl = file[f] /\ refs[r].owner = t
      BY <1>1, <1>3, FindRefFacts
    <2>2. file[f] \in DevSlots /\ file[f] \in 0..NumDevs
      <3>1. file[f] \in 0..NumDevs /\ file[f] # 0
        BY DEF TypeOK, Release
      <3> QED  BY <3>1, SlotFacts DEF DevSlots
    <2>3. PICK new : new = [[At("put") EXCEPT !.dev = file[f]] EXCEPT !.ref = r]
      OBVIOUS
    <2>4. At("put") \in Place /\ At("put").pc = "put" /\ At("put").map = NoId
      BY AtFacts DEF Pcs
    <2>5. new \in Place /\ new.pc = "put" /\ new.map = NoId /\ new.dev = file[f] /\ new.ref = r
      BY <2>1, <2>2, <2>3, <2>4, SlotFacts DEF Place
    <2>6. PlaceOK(t, new) /\ t \in Actors
      BY <2>1, <2>2, <2>5 DEF PlaceOK, TaskPcs, Actors
    <2>7. act' = [act EXCEPT ![t] = new]
      BY <1>1, <1>3, <2>3 DEF Release
    <2>8. /\ act' \in [Actors -> Place] /\ Pointers' /\ act'[t] = new
          /\ \A b \in Actors : b # t => act'[b] = act[b]
      BY <2>5, <2>6, <2>7, PlaceEffect
    <2> QED  BY <2>1, <2>2, <2>5, <2>8 DEF Release, Idle
  <1> QED  BY <1>2, <1>3

\* ctrl_ref_put points to a map of its reference.
LEMMA PutPickEffect ==
    ASSUME TypeOK, Pointers, NEW a \in Actors, PutPick(a)
    PROVE  /\ act' \in [Actors -> Place] /\ Pointers'
           /\ \A b \in Actors : b # a => act'[b] = act[b]
           /\ act[a].pc = "put" /\ act'[a].pc = "drop" /\ act'[a].dev = act[a].dev
           /\ act'[a].ref = act[a].ref /\ act[a].ref \in RefSlots /\ act'[a].map \in MapIds
           /\ \E k \in Kinds : Contains(MapList(act[a].ref, k), act'[a].map)
           /\ UNCHANGED <<mod, held, devs, refs, heap, pci, file, fault>> /\ Note
  <1>1. PICK r : r = act[a].ref
    OBVIOUS
  <1>2. act[a].pc = "put" /\ r \in RefSlots /\ act[a].dev \in DevSlots
    BY <1>1 DEF PutPick, Pointers, PlaceOK
  <1>3. PICK g, u : g = refs[r].gpu /\ u = refs[r].user
    OBVIOUS
  <1>4. g \in Seq(MapIds) /\ u \in Seq(MapIds)
    BY <1>2, <1>3, RefFacts DEF RefType
  <1>5. PICK m : m = Head(g \o u)
    OBVIOUS
  <1>6. g \o u # <<>>
    BY <1>1, <1>3 DEF PutPick
  <1>7. /\ g \o u \in Seq(MapIds) /\ Len(g \o u) = Len(g) + Len(u) /\ Len(g) \in Nat
           /\ Len(u) \in Nat
        /\ \A i \in 1..(Len(g) + Len(u)) : (g \o u)[i] = IF i <= Len(g) THEN g[i] ELSE u[i - Len(g)]
    BY <1>4, ConcatProperties, LenProperties
  <1>8. m = (g \o u)[1] /\ Len(g \o u) \in Nat /\ Len(g \o u) # 0
    BY <1>5, <1>6, <1>7, EmptySeq, HeadTailProperties
  <1>9. m \in MapIds /\ (Contains(g, m) \/ Contains(u, m))
    <2>1. CASE Len(g) >= 1
      <3>1. 1 \in 1..(Len(g) + Len(u)) /\ 1 <= Len(g) /\ 1 \in 1..Len(g)
        BY <1>7, <2>1
      <3>2. m = g[1] /\ g[1] \in MapIds
        BY <1>4, <1>7, <1>8, <3>1
      <3> QED  BY <3>1, <3>2 DEF Contains
    <2>2. CASE Len(g) = 0
      <3>1. 1 \in 1..(Len(g) + Len(u)) /\ ~(1 <= Len(g)) /\ 1 \in 1..Len(u) /\ 1 - Len(g) = 1
        BY <1>7, <1>8, <2>2
      <3>2. m = u[1] /\ u[1] \in MapIds
        BY <1>4, <1>7, <1>8, <3>1
      <3> QED  BY <3>1, <3>2 DEF Contains
    <2> QED  BY <1>7, <2>1, <2>2
  <1>10. \E k \in Kinds : Contains(MapList(r, k), m)
    BY <1>3, <1>9 DEF MapList, Kinds
  <1>11. PICK new : new = [[act[a] EXCEPT !.pc = "drop"] EXCEPT !.map = m]
    OBVIOUS
  <1>12. new \in Place /\ new.pc = "drop" /\ new.map = m /\ new.dev = act[a].dev /\ new.ref = r
    BY <1>1, <1>9, <1>11, ActFacts DEF Place, Pcs
  <1>13. PlaceOK(a, new)
    BY <1>2, <1>9, <1>12 DEF PlaceOK, TaskPcs, DevicePcs
  <1>14. act' = [act EXCEPT ![a] = new]
    BY <1>1, <1>3, <1>5, <1>11 DEF PutPick, TypeOK
  <1>15. /\ act' \in [Actors -> Place] /\ Pointers' /\ act'[a] = new
         /\ \A b \in Actors : b # a => act'[b] = act[b]
    BY <1>12, <1>13, <1>14, PlaceEffect
  <1> QED  BY <1>1, <1>2, <1>9, <1>10, <1>12, <1>15 DEF PutPick

\* Who has released a map returns, or looks for the next one.
LEMMA ReturnPlace ==
    ASSUME TypeOK, Pointers, NEW a \in Actors, act[a].pc \in {"unmap", "drop", "pages"},
           act' = [act EXCEPT ![a] = Return(a)]
    PROVE  /\ act' \in [Actors -> Place] /\ Pointers'
           /\ \A b \in Actors : b # a => act'[b] = act[b]
           /\ act'[a].map = NoId
           /\ \/ a \in Tasks /\ act'[a].pc = "idle"
              \/ act'[a].pc = "put" /\ act'[a].dev = act[a].dev /\ act'[a].ref = act[a].ref
  <1>1. act[a].dev \in DevSlots /\ act[a].ref \in RefSlots
    BY DEF Pointers, PlaceOK
  <1>2. PICK next : next = Return(a)
    OBVIOUS
  <1>3. /\ next \in Place /\ next.map = NoId /\ PlaceOK(a, next)
        /\ \/ a \in Tasks /\ next.pc = "idle"
           \/ next.pc = "put" /\ next.dev = act[a].dev /\ next.ref = act[a].ref
    <2>1. CASE a \in Tasks /\ next = At("idle")
      <3>1. next \in Place /\ next.map = NoId /\ next.pc = "idle"
        BY <2>1, AtFacts DEF Pcs
      <3> QED  BY <2>1, <3>1 DEF PlaceOK, TaskPcs
    <2>2. CASE next = [[act[a] EXCEPT !.pc = "put"] EXCEPT !.map = NoId]
      <3>1. next \in Place /\ next.map = NoId /\ next.pc = "put" /\ next.dev = act[a].dev
            /\ next.ref = act[a].ref
        BY <2>2, ActFacts DEF Place, Pcs
      <3> QED  BY <1>1, <2>2, <3>1 DEF PlaceOK, TaskPcs, DevicePcs
    <2> QED  BY <1>2, <2>1, <2>2 DEF Return
  <1>4. /\ act' \in [Actors -> Place] /\ Pointers' /\ act'[a] = next
        /\ \A b \in Actors : b # a => act'[b] = act[b]
    BY <1>2, <1>3, PlaceEffect
  <1> QED  BY <1>3, <1>4

\* Within unmap_gpu_memory an actor goes on, or dies.
LEMMA HalfPlace ==
    ASSUME TypeOK, Pointers, NEW a \in Actors, act[a].pc \in {"unmap", "drop", "dma"},
           NEW p \in {"dma", "pages", "dead"}, Goto(a, p)
    PROVE  /\ act' \in [Actors -> Place] /\ Pointers'
           /\ \A b \in Actors : b # a => act'[b] = act[b]
           /\ act'[a].pc = p /\ act'[a].dev = act[a].dev /\ act'[a].ref = act[a].ref
           /\ act'[a].map = act[a].map
  <1>1. act[a].dev \in DevSlots /\ act[a].ref \in RefSlots /\ act[a].map \in MapIds
    BY DEF Pointers, PlaceOK
  <1>2. PICK new : new = [act[a] EXCEPT !.pc = p]
    OBVIOUS
  <1>3. new.pc = p /\ new.dev = act[a].dev /\ new.ref = act[a].ref /\ new.map = act[a].map
    BY <1>2, ActFacts DEF Place
  <1>4. PlaceOK(a, new)
    BY <1>1, <1>3 DEF PlaceOK, TaskPcs, DevicePcs
  <1>5. p \in Pcs
    BY DEF Pcs
  <1> QED  BY <1>2, <1>4, <1>5, GotoEffect

\* A descriptor is released a second time, or taken out of its list and freed, or, for
\* a GPU's, about to be unmapped.
LEMMA DropEffect ==
    ASSUME TypeOK, Pointers, FieldsSettled, ListedOnce, NEW a \in Actors,
           (a \in Tasks /\ UnmapMemory(a)) \/ PutDrop(a), NEW m, m = act[a].map
    PROVE  /\ m \in MapIds /\ act[a].pc \in {"unmap", "drop"}
           /\ act' \in [Actors -> Place] /\ Pointers'
           /\ \A b \in Actors : b # a => act'[b] = act[b]
           /\ UNCHANGED <<mod, held, devs, pci, file>> /\ Note
           /\ \/ /\ Again(a, m) /\ fault' # "none" /\ UNCHANGED <<refs, heap>>
                 /\ act'[a].pc = "dead" /\ act'[a].dev = act[a].dev /\ act'[a].map = act[a].map
              \/ /\ ~Again(a, m) /\ UNCHANGED fault
                 /\ refs' \in [RefSlots -> RefType]
                 /\ \A s \in RefSlots : /\ refs'[s].used = refs[s].used
                                           /\ refs'[s].ctrl = refs[s].ctrl
                                        /\ refs'[s].owner = refs[s].owner
                 /\ \A s \in RefSlots, k \in Kinds : MapList(s, k)' = Unlink(MapList(s, k), m)
                 /\ \/ /\ heap' = [heap EXCEPT ![m] = NoMap] /\ act'[a].map = NoId
                       /\ \/ a \in Tasks /\ act'[a].pc = "idle"
                          \/ /\ act'[a].pc = "put" /\ act'[a].dev = act[a].dev
                             /\ act'[a].ref = act[a].ref
                    \/ /\ UNCHANGED heap /\ heap[m].type = "gpu" /\ act'[a].map = m
                       /\ act'[a].pc = "dma" /\ act'[a].dev = act[a].dev
                       /\ act'[a].ref = act[a].ref
  <1>1. /\ act[a].pc \in {"unmap", "drop"} /\ m \in MapIds /\ Unmap(a, m)
    BY DEF UnmapMemory, PutDrop, Pointers, PlaceOK
  <1>2. CASE /\ Again(a, m) /\ fault' # "none" /\ Goto(a, "dead")
             /\ UNCHANGED <<mod, held, devs, refs, heap, pci, file>> /\ Note
    <2>1. /\ act' \in [Actors -> Place] /\ Pointers' /\ act'[a].pc = "dead"
             /\ act'[a].dev = act[a].dev
          /\ act'[a].map = act[a].map /\ \A b \in Actors : b # a => act'[b] = act[b]
      BY <1>1, <1>2, HalfPlace
    <2> QED  BY <1>1, <1>2, <2>1
  <1>3. CASE ~(/\ Again(a, m) /\ fault' # "none" /\ Goto(a, "dead")
               /\ UNCHANGED <<mod, held, devs, refs, heap, pci, file>> /\ Note)
    <2>1. /\ ~Again(a, m)
          /\ refs' \in [RefSlots -> RefType]
          /\ \A s \in RefSlots : /\ refs'[s].used = refs[s].used /\ refs'[s].ctrl = refs[s].ctrl
                                 /\ refs'[s].owner = refs[s].owner
          /\ \A s \in RefSlots, k \in Kinds : MapList(s, k)' = Unlink(MapList(s, k), m)
          /\ \/ heap' = [heap EXCEPT ![m] = NoMap] /\ act' = [act EXCEPT ![a] = Return(a)]
             \/ UNCHANGED heap /\ heap[m].type = "gpu" /\ Goto(a, "dma")
          /\ UNCHANGED <<mod, held, devs, pci, file, fault>> /\ Note
      BY <1>1, <1>3, UnmapEffect
    <2>2. CASE heap' = [heap EXCEPT ![m] = NoMap] /\ act' = [act EXCEPT ![a] = Return(a)]
      <3>1. /\ act' \in [Actors -> Place] /\ Pointers'
            /\ \A b \in Actors : b # a => act'[b] = act[b]
            /\ act'[a].map = NoId
            /\ \/ a \in Tasks /\ act'[a].pc = "idle"
               \/ act'[a].pc = "put" /\ act'[a].dev = act[a].dev /\ act'[a].ref = act[a].ref
        BY <1>1, <2>2, ReturnPlace
      <3> QED  BY <1>1, <2>1, <2>2, <3>1
    <2>3. CASE UNCHANGED heap /\ heap[m].type = "gpu" /\ Goto(a, "dma")
      <3>1. /\ act' \in [Actors -> Place] /\ Pointers'
            /\ \A b \in Actors : b # a => act'[b] = act[b]
            /\ act'[a].pc = "dma" /\ act'[a].dev = act[a].dev /\ act'[a].ref = act[a].ref
            /\ act'[a].map = m
        BY <1>1, <2>3, HalfPlace
      <3> QED  BY <1>1, <2>1, <2>3, <3>1
    <2> QED  BY <2>1, <2>2, <2>3
  <1> QED  BY <1>2, <1>3

\* The place of who has cleared a reference.
LEMMA PutDonePlace ==
    ASSUME TypeOK, Pointers, NEW a \in Actors, PutDone(a)
    PROVE  /\ act' \in [Actors -> Place] /\ Pointers'
           /\ \A b \in Actors : b # a => act'[b] = act[b]
           /\ act[a].pc = "clear" /\ act'[a].map = NoId
           /\ \/ a \in Tasks /\ act'[a].pc = "idle"
              \/ a \notin Tasks /\ act'[a].pc = "scan" /\ act'[a].dev = act[a].dev
           /\ UNCHANGED <<mod, held, devs, heap, pci, file, fault>> /\ Note
  <1>1. act[a].pc = "clear" /\ act[a].dev \in DevSlots /\ act[a].dev \in 0..NumDevs
    BY SlotFacts DEF PutDone, Pointers, PlaceOK
  <1>2. PICK new : new = IF a \in Tasks THEN At("idle") ELSE [At("scan") EXCEPT !.dev = act[a].dev]
    OBVIOUS
  <1>3. /\ new \in Place /\ new.map = NoId
        /\ \/ a \in Tasks /\ new.pc = "idle"
           \/ a \notin Tasks /\ new.pc = "scan" /\ new.dev = act[a].dev
    <2>1. /\ At("idle") \in Place /\ At("idle").pc = "idle" /\ At("idle").map = NoId
          /\ At("scan") \in Place /\ At("scan").pc = "scan" /\ At("scan").map = NoId
      BY AtFacts DEF Pcs
    <2>2. CASE a \in Tasks
      BY <1>2, <2>1, <2>2
    <2>3. CASE a \notin Tasks
      BY <1>1, <1>2, <2>1, <2>3 DEF Place
    <2> QED  BY <2>2, <2>3
  <1>4. PlaceOK(a, new)
    BY <1>1, <1>3 DEF PlaceOK, TaskPcs, DevicePcs
  <1>5. act' = [act EXCEPT ![a] = new]
    BY <1>2 DEF PutDone
  <1> QED  BY <1>1, <1>3, <1>4, <1>5, PlaceEffect DEF PutDone

\* The place of who has emptied a reference.
LEMMA PutClearPlace ==
    ASSUME TypeOK, Pointers, NEW a \in Actors, PutClear(a)
    PROVE  /\ act' \in [Actors -> Place] /\ Pointers'
           /\ \A b \in Actors : b # a => act'[b] = act[b]
           /\ act[a].pc = "put" /\ act'[a].pc = "clear" /\ act'[a].dev = act[a].dev
           /\ act'[a].ref = act[a].ref /\ act'[a].map = act[a].map
           /\ UNCHANGED <<mod, held, devs, heap, pci, file, fault>> /\ Note
  <1>1. act[a].pc = "put" /\ act[a].dev \in DevSlots /\ act[a].ref \in RefSlots
    BY DEF PutClear, Pointers, PlaceOK
  <1>2. PICK new : new = [act[a] EXCEPT !.pc = "clear"]
    OBVIOUS
  <1>3. new.pc = "clear" /\ new.dev = act[a].dev /\ new.ref = act[a].ref
    BY <1>2, ActFacts DEF Place
  <1>4. PlaceOK(a, new)
    BY <1>1, <1>3 DEF PlaceOK, TaskPcs, DevicePcs
  <1> QED  BY <1>1, <1>2, <1>4, GotoEffect DEF PutClear, Pcs

\* The places of open and map.
LEMMA OpenPlaces ==
    ASSUME TypeOK, Pointers, NEW t \in Tasks,
           OpenClaim(t) \/ OpenInit(t) \/ MapInsert(t)
    PROVE  /\ act' \in [Actors -> Place] /\ Pointers' /\ t \in Actors
           /\ \A b \in Actors : b # t => act'[b] = act[b]
           /\ OpenClaim(t)
                 => /\ act[t].pc = "claim" /\ act'[t].pc = "init" /\ act'[t].ref = act[t].ref
                              /\ act'[t].dev = act[t].dev /\ act'[t].map = act[t].map
           /\ OpenInit(t) \/ MapInsert(t) => act'[t].pc = "idle" /\ act'[t].map = NoId
           /\ OpenInit(t) => act[t].pc = "init"
           /\ MapInsert(t) => act[t].pc = "insert"
  <1>1. t \in Actors
    BY DEF Actors
  <1>2. CASE OpenClaim(t)
    <2>1. act[t].pc = "claim" /\ act[t].dev \in DevSlots /\ act[t].ref \in RefSlots
      BY <1>1, <1>2 DEF OpenClaim, Pointers, PlaceOK
    <2>2. PICK new : new = [act[t] EXCEPT !.pc = "init"]
      OBVIOUS
    <2>3. new.pc = "init" /\ new.dev = act[t].dev /\ new.ref = act[t].ref
      BY <1>1, <2>2, ActFacts DEF Place
    <2>4. PlaceOK(t, new)
      BY <2>1, <2>3 DEF PlaceOK, TaskPcs
    <2>5. Goto(t, "init") /\ ~OpenInit(t) /\ ~MapInsert(t)
      BY <1>2, <2>1 DEF OpenClaim, OpenInit, MapInsert
    <2> QED  BY <1>1, <2>1, <2>2, <2>4, <2>5, GotoEffect DEF Pcs
  <1>3. CASE OpenInit(t) \/ MapInsert(t)
    <2>1. Finish(t) /\ ~OpenClaim(t)
      BY <1>3 DEF OpenInit, MapInsert, OpenClaim
    <2> QED  BY <1>1, <1>3, <2>1, FinishEffect DEF OpenInit, MapInsert
  <1> QED  BY <1>2, <1>3


-----------------------------------------------------------------------------
(* What a step leaves alone *)

\* Only actor a moves.
Moves(a) == /\ act' \in [Actors -> Place] /\ Pointers'
            /\ \A b \in Actors : b # a => act'[b] = act[b]

\* Reference s stays as it is.
SameRef(s) ==
    /\ refs'[s].used = refs[s].used /\ refs'[s].ctrl = refs[s].ctrl
    /\ refs'[s].owner = refs[s].owner
    /\ \A k \in Kinds : MapList(s, k)' = MapList(s, k)

\* What a step notes of races.
LEMMA NoteFacts ==
    ASSUME TypeOK, Note
    PROVE  /\ fault = "none" /\ after' \in 0..MaxAfterRace
           /\ ~Raced' => ~Raced /\ ~Racing'
  <1>1. MaxAfterRace \in Nat
    BY KernelAssumption
  <1>2. after \in 0..MaxAfterRace
    BY DEF TypeOK
  <1> QED  BY <1>1, <1>2 DEF Note, Raced

\* A step keeps the invariant when it keeps its first half and, as long as there was
\* no race, its second.
LEMMA Combine ==
    ASSUME IInv, Note, Always', Quiet /\ ~Racing' => Quiet'
    PROVE  IInv'
  <1>1. ~Raced' => ~Raced /\ ~Racing'
    BY NoteFacts DEF IInv, Always
  <1> QED  BY <1>1 DEF IInv

\* Descriptors have the types they had when one of them is replaced.
LEMMA HeapStep ==
    ASSUME TypeOK, FieldsSettled, NEW m \in MapIds, NEW d \in MapType \union {NoMap},
           heap' = [heap EXCEPT ![m] = d],
           d # NoMap => d.pages <= d.asked /\ d.addrs <= d.asked /\ Settled(d)
    PROVE  /\ heap' \in [MapIds -> MapType \union {NoMap}]
           /\ \A x \in MapIds : heap'[x] # NoMap =>
                 heap'[x].pages <= heap'[x].asked /\ heap'[x].addrs <= heap'[x].asked
           /\ FieldsSettled'
           /\ heap'[m] = d /\ \A x \in MapIds : x # m => heap'[x] = heap[x]
  <1>1. heap \in [MapIds -> MapType \union {NoMap}]
    BY DEF TypeOK
  <1>2. heap'[m] = d /\ \A x \in MapIds : x # m => heap'[x] = heap[x]
    BY <1>1
  <1>3. heap' \in [MapIds -> MapType \union {NoMap}]
    BY <1>1
  <1>4. \A x \in MapIds : heap'[x] # NoMap =>
                 heap'[x].pages <= heap'[x].asked /\ heap'[x].addrs <= heap'[x].asked
    BY <1>2 DEF TypeOK
  <1>5. FieldsSettled'
    BY <1>2 DEF FieldsSettled
  <1> QED  BY <1>2, <1>3, <1>4, <1>5

\* The lists stay sound when they are kept or emptied and what they hold keeps its
\* kind and address.
LEMMA ListFrame ==
    ASSUME TypeOK, ListsAllocated, ListsSorted, ListedOnce,
           \A r \in RefSlots, k \in Kinds : MapList(r, k)' \in {MapList(r, k), <<>>},
           \A m \in MapIds : (\E r \in RefSlots, k \in Kinds : Listed(m, r, k))
                 /\ heap'[m] # heap[m] =>
               /\ heap'[m] # NoMap /\ heap'[m].mappings # "junk"
               /\ heap'[m].type = heap[m].type /\ heap'[m].vaddr = heap[m].vaddr
    PROVE  ListsAllocated' /\ ListsSorted' /\ ListedOnce'
  <1>0. \A r \in RefSlots, k \in Kinds : MapList(r, k) \in Seq(MapIds)
    BY RefFacts
  <1>1. ASSUME NEW r \in RefSlots, NEW k \in Kinds, NEW i \in 1..Len(MapList(r, k)')
        PROVE  /\ MapList(r, k)' = MapList(r, k) /\ i \in 1..Len(MapList(r, k))
               /\ MapList(r, k)[i] \in MapIds /\ Listed(MapList(r, k)[i], r, k)
               /\ heap'[MapList(r, k)[i]] # NoMap /\ heap'[MapList(r, k)[i]].mappings # "junk"
               /\ heap'[MapList(r, k)[i]].type = k
               /\ heap'[MapList(r, k)[i]].vaddr = heap[MapList(r, k)[i]].vaddr
    <2>1. MapList(r, k)' = MapList(r, k)
      <3>1. MapList(r, k)' # <<>>
        BY <1>1
      <3> QED  BY <3>1
    <2>2. i \in 1..Len(MapList(r, k))
      BY <1>1, <2>1
    <2>3. MapList(r, k)[i] \in MapIds
      BY <1>0, <2>2
    <2>4. Listed(MapList(r, k)[i], r, k)
      BY <2>2 DEF Listed, Contains
    <2>5. /\ heap[MapList(r, k)[i]] # NoMap /\ heap[MapList(r, k)[i]].type = k
          /\ heap[MapList(r, k)[i]].mappings # "junk"
      BY <2>2 DEF ListsAllocated
    <2> QED  BY <2>1, <2>2, <2>3, <2>4, <2>5
  <1>2. ListsAllocated'
    BY <1>1 DEF ListsAllocated
  <1>3. ListsSorted'
    <2> SUFFICES ASSUME NEW r \in RefSlots, NEW k \in Kinds, NEW i \in 1..Len(MapList(r, k)'),
                        NEW j \in 1..Len(MapList(r, k)'), i < j
                 PROVE  heap'[MapList(r, k)'[i]].vaddr <= heap'[MapList(r, k)'[j]].vaddr
      BY DEF ListsSorted
    <2>1. heap[MapList(r, k)[i]].vaddr <= heap[MapList(r, k)[j]].vaddr
      BY <1>1 DEF ListsSorted
    <2> QED  BY <1>1, <2>1
  <1>4. \A r \in RefSlots, k \in Kinds : \A i, j \in 1..Len(MapList(r, k)') :
          MapList(r, k)'[i] = MapList(r, k)'[j] => i = j
    BY <1>1 DEF ListedOnce
  <1>5. \A m \in MapIds, r \in RefSlots, k \in Kinds : Listed(m, r, k)' => Listed(m, r, k)
    <2> SUFFICES ASSUME NEW m \in MapIds, NEW r \in RefSlots, NEW k \in Kinds, Listed(m, r, k)'
                 PROVE  Listed(m, r, k)
      OBVIOUS
    <2>1. PICK i \in 1..Len(MapList(r, k)') : MapList(r, k)'[i] = m
      BY DEF Listed, Contains
    <2> QED  BY <1>1, <2>1
  <1>6. \A m \in MapIds, r, s \in RefSlots, k, l \in Kinds :
          Listed(m, r, k)' /\ Listed(m, s, l)' => r = s /\ k = l
    BY <1>5 DEF ListedOnce
  <1>7. ListedOnce'
    BY <1>4, <1>6 DEF ListedOnce
  <1> QED  BY <1>2, <1>3, <1>7

\* Who builds a descriptor still has it alone when another actor has moved, unless that
\* one starts to build, or changes more descriptors and lists than the one it works on.
LEMMA BuiltFrame ==
    ASSUME TypeOK, Pointers, BuiltAlone, NEW a \in Actors, Moves(a), ~Has(a)',
           \/ act'[a].map \in {NoId, act[a].map}
           \/ \E r \in RefSlots, k \in Kinds : Listed(act'[a].map, r, k),
           \A x \in MapIds : heap'[x] = heap[x] \/ x = act[a].map,
           \A x \in MapIds, r \in RefSlots, k \in Kinds :
               Listed(x, r, k)' => Listed(x, r, k) \/ x = act[a].map,
           \/ Has(a)
           \/ \A b \in Actors : b # a /\ Halfway(b) => act[b].map # act[a].map
           \/ /\ \A x \in MapIds : heap'[x] = heap[x]
              /\ \A x \in MapIds, r \in RefSlots, k \in Kinds : Listed(x, r, k)' => Listed(x, r, k)
    PROVE  BuiltAlone'
  <1> SUFFICES ASSUME NEW t \in Actors, Has(t)'
               PROVE  /\ Stage(act'[t].pc, heap'[act'[t].map])
                      /\ \A b \in Actors : b # t /\ (Building(t)' \/ Has(b)')
                            => act'[b].map # act'[t].map
                      /\ \A r \in RefSlots, k \in Kinds : ~Listed(act[t].map, r, k)'
    BY DEF BuiltAlone
  <1>1. t # a /\ act'[t] = act[t]
    BY DEF Moves
  <1>2. PICK m : m = act[t].map
    OBVIOUS
  <1>3. Has(t) /\ Building(t)' = Building(t)
    BY <1>1 DEF Has, Building, Halfway
  <1>4. m \in MapIds /\ m # NoId
    BY <1>2, <1>3, KernelAssumption DEF Has, Building, Halfway, Pointers, PlaceOK, NoId
  <1>5. /\ Stage(act[t].pc, heap[m])
        /\ (\A b \in Actors : b # t /\ (Building(t) \/ Has(b)) => act[b].map # m)
        /\ \A r \in RefSlots, k \in Kinds : ~Listed(m, r, k)
    BY <1>2, <1>3 DEF BuiltAlone
  <1>6. Building(t) => act[a].map # m /\ act'[a].map # m
    BY <1>1, <1>4, <1>5
  <1>7. heap'[m] = heap[m] /\ \A r \in RefSlots, k \in Kinds : ~Listed(m, r, k)'
    <2>1. CASE act[a].map # m
      BY <1>4, <1>5, <2>1
    <2>2. CASE act[a].map = m
      <3>1. ~Has(a) /\ Halfway(t)
        BY <1>1, <1>3, <1>5, <2>2 DEF Has
      <3> QED  BY <1>1, <1>2, <1>4, <1>5, <2>2, <3>1
    <2> QED  BY <2>1, <2>2
  <1>8. \A b \in Actors : b # t /\ (Building(t) \/ Has(b)') => act'[b].map # m
    <2> SUFFICES ASSUME NEW b \in Actors, b # t, Building(t) \/ Has(b)' PROVE act'[b].map # m
      OBVIOUS
    <2>1. CASE b = a
      BY <1>6, <2>1
    <2>2. CASE b # a
      <3>1. act'[b] = act[b]
        BY <2>2 DEF Moves
      <3>2. Has(b)' = Has(b)
        BY <3>1 DEF Has, Building, Halfway
      <3> QED  BY <1>5, <3>1, <3>2
    <2> QED  BY <2>1, <2>2
  <1>9. act'[t].map = m /\ act'[t].pc = act[t].pc
    BY <1>1, <1>2
  <1>10. \A r \in RefSlots, k \in Kinds : Listed(act[t].map, r, k)' = Listed(m, r, k)'
    BY <1>9 DEF Listed
  <1> QED  BY <1>3, <1>5, <1>7, <1>8, <1>9, <1>10

\* Tasks, and devices that put references, leave the device slots alone.
LEMMA DevFrame ==
    ASSUME Pointers, DevSlotsOwned, PciTaken, LoadedInOrder,
           NEW a \in Actors, Moves(a), UNCHANGED <<mod, held, devs, pci>>,
           \/ a \in Tasks /\ mod = Loaded
           \/ /\ a \in Pdevs /\ UNCHANGED file /\ act'[a].dev = act[a].dev
              /\ act[a].pc \in {"scan", "put", "drop", "dma", "pages", "clear"}
              /\ act'[a].pc \in {"scan", "put", "drop", "dma", "pages", "clear", "dead"}
    PROVE  DevSlotsOwned' /\ PciTaken' /\ LoadedInOrder'
  <1>0. Tasks \cap Pdevs = {}
    BY KernelAssumption
  <1>1. \A p \in Pdevs : \/ act'[p] = act[p]
                         \/ /\ act[p].pc \in {"scan", "put", "drop", "dma", "pages", "clear"}
                            /\ act'[p].pc \in {"scan", "put", "drop", "dma", "pages", "clear", "dead"}
                            /\ act'[p].dev = act[p].dev
    BY <1>0 DEF Moves, Actors
  <1>2. \A p \in Pdevs : /\ act'[p].dev = act[p].dev /\ Visible(p)' = Visible(p)
                         /\ act'[p].pc = "unbound" <=> act[p].pc = "unbound"
    <2> SUFFICES ASSUME NEW p \in Pdevs
                 PROVE  /\ act'[p].dev = act[p].dev /\ Visible(p)' = Visible(p)
                        /\ act'[p].pc = "unbound" <=> act[p].pc = "unbound"
      OBVIOUS
    <2>1. CASE act'[p] = act[p]
      BY <2>1 DEF Visible
    <2>2. CASE act'[p] # act[p]
      BY <1>1, <2>2 DEF Visible
    <2> QED  BY <2>1, <2>2
  <1>3. DevSlotsOwned'
    <2>1. \A p \in Pdevs : SlotOf(p)'
      <3> SUFFICES ASSUME NEW p \in Pdevs PROVE SlotOf(p)'
        OBVIOUS
      <3>1. SlotOf(p)
        BY DEF DevSlotsOwned
      <3>2. act'[p].dev = act[p].dev /\ Visible(p)' = Visible(p)
            /\ (act'[p].pc = "unbound" <=> act[p].pc = "unbound")
        BY <1>2
      <3> QED  BY <3>1, <3>2 DEF SlotOf
    <2>2. \A d \in DevSlots : devs'[d] = NoDev \/
             (devs'[d].pdev \in Pdevs /\ act'[devs'[d].pdev].pc # "unbound"
                   /\ act'[devs'[d].pdev].dev = d)
      BY <1>2 DEF DevSlotsOwned
    <2> QED  BY <2>1, <2>2 DEF DevSlotsOwned
  <1>4. PciTaken'
    BY <1>1 DEF PciTaken
  <1>5. LoadedInOrder'
    <2>1. CASE mod = Loaded
      BY <2>1 DEF LoadedInOrder, Loaded
    <2>2. CASE mod # Loaded
      <3>1. a \in Pdevs /\ UNCHANGED file /\ act[a].pc # "unbound"
        BY <2>2
      <3>2. \A t \in Tasks : act'[t] = act[t]
        BY <1>0, <3>1 DEF Moves, Actors
      <3>3. mod \in {Loaded, Exiting}
        BY <3>1 DEF LoadedInOrder
      <3> QED  BY <2>2, <3>1, <3>2, <3>3 DEF LoadedInOrder, Idle, Loaded, Exiting
    <2> QED  BY <2>1, <2>2
  <1> QED  BY <1>3, <1>4, <1>5

\* What the others know of their references, when actor a works on reference r alone.
LEMMA KnowsFrame ==
    ASSUME Pointers, \A b \in Actors : Knows(b), OneHolder, NEW a \in Actors, NEW r, Moves(a),
           \A s \in RefSlots : s # r => SameRef(s),
           \A b \in Actors : b # a /\ Holding(b) => act[b].ref # r,
           Holding(a)' => act'[a].ref = r, Knows(a)'
    PROVE  (\A b \in Actors : Knows(b)') /\ OneHolder'
  <1>1. ASSUME NEW b \in Actors, b # a PROVE Knows(b)'
    <2>1. act'[b] = act[b] /\ Knows(b)
      BY <1>1 DEF Moves
    <2>2. CASE ~Holding(b)
      <3>1. act[b].pc \notin {"init", "pin", "map", "insert", "unmap", "put", "drop", "dma", "pages", "clear"}
        BY <2>2 DEF Holding
      <3> QED  BY <2>1, <3>1 DEF Knows, Holding, Owning, Dropping
    <2>3. CASE Holding(b)
      <3>1. PICK s : s = act[b].ref
        OBVIOUS
      <3>2. s \in RefSlots /\ s # r
        BY <1>1, <2>3, <3>1 DEF Holding, Pointers, PlaceOK
      <3>3. SameRef(s)
        BY <3>2
      <3>4. \A k \in Kinds : MapList(act[b].ref, k)' = MapList(act[b].ref, k)
        BY <2>1, <3>1, <3>3 DEF SameRef, MapList
      <3>5. \A k \in Kinds : Listed(act[b].map, act[b].ref, k)' = Listed(act[b].map, act[b].ref, k)
        BY <2>1, <3>4 DEF Listed
      <3>6. /\ refs'[act'[b].ref].used = refs[act[b].ref].used
            /\ refs'[act'[b].ref].ctrl = refs[act[b].ref].ctrl
            /\ refs'[act'[b].ref].owner = refs[act[b].ref].owner
        BY <2>1, <3>1, <3>3 DEF SameRef
      <3> QED  BY <2>1, <3>4, <3>5, <3>6 DEF Knows, Holding, Owning, Dropping
    <2> QED  BY <2>2, <2>3
  <1>2. OneHolder'
    <2> SUFFICES ASSUME NEW b \in Actors, NEW c \in Actors, Holding(b)', Holding(c)',
                        act'[b].ref = act'[c].ref
                 PROVE  b = c
      BY DEF OneHolder
    <2>1. \A x \in Actors : x # a => act'[x] = act[x]
      BY DEF Moves
    <2>2. CASE b # a /\ c # a
      BY <2>1, <2>2 DEF OneHolder, Holding
    <2>3. CASE b = a /\ c # a
      BY <2>1, <2>3 DEF Holding
    <2>4. CASE b # a /\ c = a
      BY <2>1, <2>4 DEF Holding
    <2> QED  BY <2>2, <2>3, <2>4
  <1> QED  BY <1>1, <1>2

\* No descriptor is lost when those that are left stay where they are.
LEMMA LostFrame ==
    ASSUME NoneLost, Pointers, NEW a \in Actors, Moves(a),
           \A x \in MapIds : heap'[x] # NoMap => heap[x] # NoMap,
           \A x \in MapIds, r \in RefSlots, k \in Kinds :
               heap'[x] # NoMap /\ Listed(x, r, k) =>
                   \/ \E s \in RefSlots, l \in Kinds : Listed(x, s, l)'
                   \/ Has(a)' /\ act'[a].map = x,
           Has(a) /\ heap'[act[a].map] # NoMap =>
               \/ Has(a)' /\ act'[a].map = act[a].map
               \/ \E s \in RefSlots, l \in Kinds : Contains(MapList(s, l)', act[a].map)
    PROVE  NoneLost'
  <1> SUFFICES ASSUME NEW m \in MapIds, heap'[m] # NoMap
               PROVE  \/ \E t \in Actors : Has(t)' /\ act'[t].map = m
                      \/ \E r \in RefSlots, k \in Kinds : Listed(m, r, k)'
    BY DEF NoneLost
  <1>1. heap[m] # NoMap
    OBVIOUS
  <1>2. CASE \E r \in RefSlots, k \in Kinds : Listed(m, r, k)
    BY <1>2
  <1>3. CASE \E t \in Actors : Has(t) /\ act[t].map = m
    <2>1. PICK t \in Actors : Has(t) /\ act[t].map = m
      BY <1>3
    <2>2. CASE t # a
      <3>1. act'[t] = act[t]
        BY <2>2 DEF Moves
      <3> QED  BY <2>1, <3>1 DEF Has, Building, Halfway
    <2>3. CASE t = a
      BY <2>1, <2>3 DEF Listed
    <2> QED  BY <2>2, <2>3
  <1> QED  BY <1>1, <1>2, <1>3 DEF NoneLost

\* The devices of calls in progress are there when no device's slot is cleared.
LEMMA ThereFrame ==
    ASSUME DevicesThere, Pointers, NEW a \in Actors, Moves(a),
           \A d \in DevSlots : devs[d].chr => devs'[d].chr,
           a \in Tasks /\ ~Idle(a)' => devs'[act'[a].dev].chr
    PROVE  DevicesThere'
  <1> SUFFICES ASSUME NEW t \in Tasks, ~Idle(t)' PROVE devs'[act'[t].dev].chr
    BY DEF DevicesThere
  <1>1. CASE t = a
    BY <1>1
  <1>2. CASE t # a
    <2>1. act'[t] = act[t] /\ t \in Actors
      BY <1>2 DEF Moves, Actors
    <2>2. ~Idle(t)
      BY <2>1 DEF Idle
    <2>3. act[t].dev \in DevSlots
      BY <2>1, <2>2, KernelAssumption DEF Idle, Pointers, PlaceOK, TaskPcs
    <2> QED  BY <2>1, <2>2, <2>3 DEF DevicesThere
  <1> QED  BY <1>1, <1>2


-----------------------------------------------------------------------------
(* Steps that only move an actor *)

\* Such a step keeps the invariant when the actor does not take over a reference that
\* somebody works on.
LEMMA PlaceOnly ==
    ASSUME IInv, Note, NEW a \in Actors, Moves(a),
           UNCHANGED <<mod, held, devs, refs, heap, pci, fault>>, file' \in [Files -> 0..NumDevs],
           \/ a \in Tasks /\ mod = Loaded
           \/ /\ a \in Pdevs /\ UNCHANGED file /\ act'[a].dev = act[a].dev
              /\ act[a].pc \in {"scan", "put", "drop", "dma", "pages", "clear"}
              /\ act'[a].pc \in {"scan", "put", "drop", "dma", "pages", "clear", "dead"},
           ~Has(a), ~Has(a)',
           \/ act'[a].map \in {NoId, act[a].map}
           \/ \E r \in RefSlots, k \in Kinds : Listed(act'[a].map, r, k),
           Quiet /\ ~Racing' =>
               /\ \A b \in Actors : b # a /\ Holding(b) /\ Holding(a)' => act[b].ref # act'[a].ref
               /\ Knows(a)' /\ (a \in Tasks /\ ~Idle(a)' => devs[act'[a].dev].chr)
    PROVE  IInv'
  <1>1. /\ TypeOK /\ Pointers /\ DevSlotsOwned /\ PciTaken /\ LoadedInOrder
        /\ FieldsSettled /\ ListsAllocated /\ ListsSorted /\ ListedOnce /\ BuiltAlone
    BY DEF IInv, Always
  <1>2. TypeOK'
    BY <1>1, NoteFacts DEF TypeOK, Moves
  <1>3. DevSlotsOwned' /\ PciTaken' /\ LoadedInOrder'
    BY <1>1, DevFrame
  <1>4. \A r \in RefSlots, k \in Kinds : MapList(r, k)' = MapList(r, k)
    BY DEF MapList
  <1>5. ListsAllocated' /\ ListsSorted' /\ ListedOnce'
    BY <1>1, <1>4, ListFrame
  <1>6. FieldsSettled'
    BY <1>1 DEF FieldsSettled
  <1>7. \A x \in MapIds, r \in RefSlots, k \in Kinds : Listed(x, r, k)' = Listed(x, r, k)
    BY <1>4 DEF Listed
  <1>8. BuiltAlone'
    BY <1>1, <1>7, BuiltFrame
  <1>9. Always'
    BY <1>2, <1>3, <1>5, <1>6, <1>8 DEF Always, Moves
  <1>10. ASSUME Quiet, ~Racing' PROVE Quiet'
    <2>1. /\ \A b \in Actors : b # a /\ Holding(b) /\ Holding(a)' => act[b].ref # act'[a].ref
          /\ Knows(a)' /\ (a \in Tasks /\ ~Idle(a)' => devs[act'[a].dev].chr)
      BY <1>10
    <2>2. PICK r : r = IF Holding(a)' THEN act'[a].ref ELSE 0
      OBVIOUS
    <2>3. \A b \in Actors : b # a /\ Holding(b) => act[b].ref # r
      <3> SUFFICES ASSUME NEW b \in Actors, b # a, Holding(b) PROVE act[b].ref # r
        OBVIOUS
      <3>1. act[b].ref \in RefSlots
        BY <1>1 DEF Holding, Pointers, PlaceOK
      <3>2. act[b].ref # 0
        BY <3>1, SlotFacts
      <3> QED  BY <2>1, <2>2, <3>2
    <2>4. \A s \in RefSlots : SameRef(s)
      BY <1>4 DEF SameRef
    <2>5. (\A b \in Actors : Knows(b)) /\ OneHolder /\ NoneLost /\ DevicesThere /\ RefsSound
          /\ fault = "none"
      BY <1>10 DEF Quiet
    <2>6. (\A b \in Actors : Knows(b)') /\ OneHolder'
      BY <1>1, <2>1, <2>2, <2>3, <2>4, <2>5, KnowsFrame
    <2>7. NoneLost'
      BY <1>1, <1>7, <2>5, LostFrame
    <2>8. DevicesThere'
      BY <1>1, <2>1, <2>5, ThereFrame
    <2>9. RefsSound'
      BY <1>4, <2>5 DEF RefsSound
    <2> QED  BY <1>10, <2>5, <2>6, <2>7, <2>8, <2>9 DEF Quiet
  <1> QED  BY <1>9, <1>10, Combine

\* A task that is in a call, or a file that is open, keeps the module loaded.
LEMMA InModule ==
    ASSUME LoadedInOrder
    PROVE  /\ \A t \in Tasks : act[t].pc # "idle" => mod = Loaded
           /\ \A f \in Files : file[f] # 0 => mod = Loaded
  BY DEF LoadedInOrder, Idle

\* open looks for a slot.
LEMMA OpenFindStep ==
    ASSUME IInv, NEW t \in Tasks, NEW f \in Files, OpenFind(t, f)
    PROVE  IInv'
  <1>1. TypeOK /\ Pointers
    BY DEF IInv, Always
  <1>2. /\ act' \in [Actors -> Place] /\ Pointers'
        /\ \A b \in Actors : b # t => act'[b] = act[b]
        /\ act[t].pc = "idle" /\ act'[t].pc = "claim" /\ act'[t].map = NoId
        /\ act'[t].dev \in DevSlots /\ devs[act'[t].dev].chr
        /\ mod = Loaded /\ UNCHANGED <<mod, held, devs, refs, heap, pci, file, fault>> /\ Note
    BY <1>1, OpenFindEffect
  <1>3. t \in Actors /\ Moves(t)
    BY <1>2 DEF Moves, Actors
  <1>4. ~Has(t) /\ ~Has(t)' /\ ~Holding(t)' /\ Knows(t)'
    BY <1>2 DEF Has, Building, Halfway, Holding, Knows, Owning, Dropping
  <1>5. file' \in [Files -> 0..NumDevs]
    BY <1>1, <1>2 DEF TypeOK
  <1> QED  BY <1>2, <1>3, <1>4, <1>5, PlaceOnly

\* It goes on to the next slot.
LEMMA OpenNextStep ==
    ASSUME IInv, NEW t \in Tasks, OpenNext(t)
    PROVE  IInv'
  <1>1. TypeOK /\ Pointers /\ LoadedInOrder
    BY DEF IInv, Always
  <1>2. /\ act' \in [Actors -> Place] /\ Pointers'
        /\ \A b \in Actors : b # t => act'[b] = act[b]
        /\ act[t].pc = "claim" /\ act'[t].pc \in {"idle", "claim"}
              /\ act'[t].map \in {NoId, act[t].map}
        /\ act'[t].pc = "claim" => act'[t].dev = act[t].dev
        /\ UNCHANGED <<mod, held, devs, refs, heap, pci, file, fault>> /\ Note
    BY <1>1, OpenNextEffect
  <1>3. t \in Actors /\ Moves(t)
    BY <1>2 DEF Moves, Actors
  <1>4. ~Has(t) /\ ~Has(t)' /\ ~Holding(t)' /\ Knows(t)'
    BY <1>2 DEF Has, Building, Halfway, Holding, Knows, Owning, Dropping
  <1>5. file' \in [Files -> 0..NumDevs] /\ mod = Loaded
    BY <1>1, <1>2, InModule DEF TypeOK
  <1>6. Quiet => (~Idle(t)' => devs[act'[t].dev].chr)
    BY <1>2 DEF Quiet, DevicesThere, Idle
  <1> QED  BY <1>2, <1>3, <1>4, <1>5, <1>6, PlaceOnly

\* A task that has found its own reference is alone with it.
LEMMA OwnAlone ==
    ASSUME Quiet, Pointers, ~Racing', NEW t \in Tasks, NEW r \in RefSlots, Moves(t),
           act[t].pc = "idle", ~Idle(t)', act'[t].dev = refs[r].ctrl, refs[r].owner = t,
                 refs[r].ctrl # 0
    PROVE  \A b \in Actors : b # t /\ Holding(b) => act[b].ref # r
  <1> SUFFICES ASSUME NEW b \in Actors, b # t, Holding(b), act[b].ref = r PROVE FALSE
    OBVIOUS
  <1>1. t # NoTask /\ Tasks \cap Pdevs = {}
    BY KernelAssumption DEF NoTask
  <1>2. Knows(b)
    BY DEF Quiet
  <1>3. Owning(b)
    BY <1>1, <1>2 DEF Knows, Holding, Owning
  <1>4. refs[r].ctrl = act[b].dev /\ b \notin Tasks
    BY <1>2, <1>3 DEF Knows
  <1>5. b \in Pdevs /\ act'[b] = act[b] /\ act[b].pc \in {"put", "drop", "dma", "pages"}
    <2>1. b \in Pdevs /\ act'[b] = act[b]
      BY <1>4 DEF Actors, Moves
    <2>2. act[b].pc \in DevicePcs
      BY <1>4 DEF Pointers, PlaceOK
    <2> QED  BY <1>3, <2>1, <2>2 DEF Owning, DevicePcs
  <1>6. Removing(b)' /\ act'[t].dev = act'[b].dev
    BY <1>4, <1>5 DEF Removing
  <1> QED  BY <1>5, <1>6 DEF Racing

\* The ioctl has found a map to release.
LEMMA UnmapFindStep ==
    ASSUME IInv, NEW t \in Tasks, NEW f \in Files, UnmapFind(t, f)
    PROVE  IInv'
  <1>1. TypeOK /\ Pointers /\ LoadedInOrder
    BY DEF IInv, Always
  <1>2. /\ act' \in [Actors -> Place] /\ Pointers'
        /\ \A b \in Actors : b # t => act'[b] = act[b]
        /\ act[t].pc = "idle" /\ act'[t].pc = "unmap" /\ act'[t].dev = file[f] /\ file[f] # 0
        /\ act'[t].dev \in DevSlots /\ act'[t].ref \in RefSlots /\ act'[t].map \in MapIds
        /\ refs[act'[t].ref].ctrl = file[f] /\ refs[act'[t].ref].owner = t
        /\ \E k \in Kinds : Contains(MapList(act'[t].ref, k), act'[t].map)
        /\ UNCHANGED <<mod, held, devs, refs, heap, pci, file, fault>> /\ Note
    BY <1>1, UnmapFindEffect
  <1>3. t \in Actors /\ Moves(t)
    BY <1>2 DEF Moves, Actors
  <1>4. ~Has(t) /\ ~Has(t)' /\ ~Idle(t)'
    BY <1>2 DEF Has, Building, Halfway, Idle
  <1>5. file' \in [Files -> 0..NumDevs] /\ mod = Loaded
    BY <1>1, <1>2, InModule DEF TypeOK
  <1>6. PICK r \in RefSlots : r = act'[t].ref
    BY <1>2
  <1>7. \E s \in RefSlots, k \in Kinds : Listed(act'[t].map, s, k)
    BY <1>2 DEF Listed
  <1>8. ASSUME Quiet, ~Racing'
        PROVE  /\ \A b \in Actors : b # t /\ Holding(b) => act[b].ref # r
               /\ Knows(t)' /\ devs[act'[t].dev].chr
    <2>1. \A b \in Actors : b # t /\ Holding(b) => act[b].ref # r
      BY <1>1, <1>2, <1>3, <1>4, <1>6, <1>8, OwnAlone
    <2>2. refs[r].used /\ devs[act'[t].dev].chr
      BY <1>2, <1>6, <1>8 DEF Quiet, RefsSound
    <2>3. \A k \in Kinds : MapList(act[t].ref, k)' = MapList(r, k)
      BY <1>2, <1>6 DEF MapList
    <2>4. \E k \in Kinds : Listed(act[t].map, act[t].ref, k)'
      BY <1>2, <1>6, <2>3 DEF Listed
    <2>5. Knows(t)'
      BY <1>2, <1>6, <2>2, <2>4 DEF Knows, Holding, Owning, Dropping
    <2> QED  BY <2>1, <2>2, <2>5
  <1> QED  BY <1>2, <1>3, <1>4, <1>5, <1>6, <1>7, <1>8, PlaceOnly

\* A file is closed.
LEMMA ReleaseStep ==
    ASSUME IInv, NEW t \in Tasks, NEW f \in Files, Release(t, f)
    PROVE  IInv'
  <1>1. TypeOK /\ Pointers /\ LoadedInOrder
    BY DEF IInv, Always
  <1>2. /\ act' \in [Actors -> Place] /\ Pointers'
        /\ \A b \in Actors : b # t => act'[b] = act[b]
        /\ act[t].pc = "idle"
        /\ \/ act' = act
           \/ /\ act'[t].pc = "put" /\ act'[t].dev \in DevSlots /\ act'[t].ref \in RefSlots
              /\ act'[t].map = NoId
              /\ refs[act'[t].ref].ctrl = act'[t].dev /\ refs[act'[t].ref].owner = t
        /\ file[f] # 0 /\ file' = [file EXCEPT ![f] = 0]
        /\ UNCHANGED <<mod, held, devs, refs, heap, pci, fault>> /\ Note
    BY <1>1, ReleaseEffect
  <1>3. t \in Actors /\ Moves(t)
    BY <1>2 DEF Moves, Actors
  <1>4. ~Has(t) /\ ~Has(t)'
    BY <1>2 DEF Has, Building, Halfway
  <1>5. file' \in [Files -> 0..NumDevs] /\ mod = Loaded
    <2>1. mod = Loaded /\ file \in [Files -> 0..NumDevs] /\ 0 \in 0..NumDevs
      BY <1>1, <1>2, InModule, SlotFacts DEF TypeOK
    <2> QED  BY <1>2, <2>1
  <1>6. CASE act' = act
    <2>1. ~Holding(t)' /\ Knows(t)' /\ Idle(t)'
      BY <1>2, <1>6 DEF Knows, Holding, Owning, Dropping, Idle
    <2> QED  BY <1>2, <1>3, <1>4, <1>5, <1>6, <2>1, PlaceOnly
  <1>7. CASE act' # act
    <2>1. PICK r \in RefSlots : r = act'[t].ref
      BY <1>2, <1>7
    <2>2. /\ act'[t].pc = "put" /\ act'[t].map = NoId /\ ~Idle(t)'
          /\ refs[r].ctrl = act'[t].dev /\ refs[r].owner = t /\ refs[r].ctrl # 0
      BY <1>2, <1>7, <2>1, SlotFacts DEF Idle
    <2>3. ASSUME Quiet, ~Racing'
          PROVE  /\ \A b \in Actors : b # t /\ Holding(b) => act[b].ref # r
                 /\ Knows(t)' /\ devs[act'[t].dev].chr
      <3>1. \A b \in Actors : b # t /\ Holding(b) => act[b].ref # r
        BY <1>1, <1>2, <1>3, <2>2, <2>3, OwnAlone
      <3>2. refs[r].used /\ devs[act'[t].dev].chr
        BY <2>2, <2>3 DEF Quiet, RefsSound
      <3>3. Knows(t)'
        BY <1>2, <2>1, <2>2, <3>2 DEF Knows, Holding, Owning, Dropping
      <3> QED  BY <3>1, <3>2, <3>3
    <2> QED  BY <1>2, <1>3, <1>4, <1>5, <2>1, <2>2, <2>3, PlaceOnly
  <1> QED  BY <1>6, <1>7

\* The next map of a reference is picked.
LEMMA PutPickStep ==
    ASSUME IInv, NEW a \in Actors, PutPick(a)
    PROVE  IInv'
  <1>1. TypeOK /\ Pointers /\ LoadedInOrder
    BY DEF IInv, Always
  <1>2. /\ act' \in [Actors -> Place] /\ Pointers'
        /\ \A b \in Actors : b # a => act'[b] = act[b]
        /\ act[a].pc = "put" /\ act'[a].pc = "drop" /\ act'[a].dev = act[a].dev
        /\ act'[a].ref = act[a].ref /\ act[a].ref \in RefSlots /\ act'[a].map \in MapIds
        /\ \E k \in Kinds : Contains(MapList(act[a].ref, k), act'[a].map)
        /\ UNCHANGED <<mod, held, devs, refs, heap, pci, file, fault>> /\ Note
    BY <1>1, PutPickEffect
  <1>3. Moves(a) /\ (a \in Tasks \/ a \in Pdevs)
    BY <1>2 DEF Moves, Actors
  <1>4. ~Has(a) /\ ~Has(a)' /\ (a \in Tasks => ~Idle(a)) /\ Holding(a)
    BY <1>2 DEF Has, Building, Halfway, Idle, Holding
  <1>5. file' \in [Files -> 0..NumDevs] /\ (a \in Tasks => mod = Loaded)
    BY <1>1, <1>2, InModule DEF TypeOK
  <1>6. \E s \in RefSlots, k \in Kinds : Listed(act'[a].map, s, k)
    BY <1>2 DEF Listed
  <1>7. ASSUME Quiet
        PROVE  /\ \A b \in Actors : b # a /\ Holding(b) => act[b].ref # act'[a].ref
               /\ Knows(a)' /\ (a \in Tasks => devs[act'[a].dev].chr)
    <2>1. \A b \in Actors : b # a /\ Holding(b) => act[b].ref # act'[a].ref
      BY <1>2, <1>4, <1>7 DEF Quiet, OneHolder
    <2>2. /\ refs[act[a].ref].used /\ refs[act[a].ref].ctrl = act[a].dev
          /\ (a \in Tasks => refs[act[a].ref].owner = a)
      BY <1>2, <1>7 DEF Quiet, Knows, Holding, Owning
    <2>3. \A k \in Kinds : MapList(act[a].ref, k)' = MapList(act[a].ref, k)
      BY <1>2 DEF MapList
    <2>4. \E k \in Kinds : Listed(act[a].map, act[a].ref, k)'
      BY <1>2, <2>3 DEF Listed
    <2>5. Knows(a)'
      BY <1>2, <2>2, <2>4 DEF Knows, Holding, Owning, Dropping
    <2>6. a \in Tasks => devs[act'[a].dev].chr
      BY <1>2, <1>4, <1>7 DEF Quiet, DevicesThere
    <2> QED  BY <2>1, <2>5, <2>6
  <1> QED  BY <1>2, <1>3, <1>4, <1>5, <1>6, <1>7, PlaceOnly

\* The removal of a device has found a reference that leads to it.
LEMMA RemoveRefStep ==
    ASSUME IInv, NEW p \in Pdevs, RemoveRef(p)
    PROVE  IInv'
  <1>1. TypeOK /\ Pointers /\ LoadedInOrder /\ DevSlotsOwned
    BY DEF IInv, Always
  <1>2. p \in Actors /\ p \notin Tasks
    BY KernelAssumption DEF Actors
  <1>3. PICK r : r = find_ref(act[p].dev, Anybody)
    OBVIOUS
  <1>4. /\ act[p].pc = "scan" /\ r # 0 /\ Note
        /\ UNCHANGED <<mod, held, devs, refs, heap, pci, file, fault>>
    BY <1>3 DEF RemoveRef
  <1>5. r \in RefSlots /\ refs[r].ctrl = act[p].dev
    BY <1>3, <1>4, FindRefFacts
  <1>6. act[p].dev \in DevSlots /\ r \in 0..NumRefs
    BY <1>1, <1>2, <1>4, <1>5, SlotFacts DEF Pointers, PlaceOK
  <1>7. PICK new : new = [[act[p] EXCEPT !.pc = "put"] EXCEPT !.ref = r]
    OBVIOUS
  <1>8. new \in Place /\ new.pc = "put" /\ new.ref = r /\ new.dev = act[p].dev
        /\ new.map = act[p].map
    BY <1>1, <1>2, <1>6, <1>7, ActFacts DEF Place, Pcs
  <1>9. PlaceOK(p, new)
    BY <1>2, <1>5, <1>6, <1>8 DEF PlaceOK, DevicePcs
  <1>10. act' = [act EXCEPT ![p] = new]
    BY <1>1, <1>2, <1>3, <1>7 DEF RemoveRef, TypeOK
  <1>11. /\ act' \in [Actors -> Place] /\ Pointers' /\ act'[p] = new
         /\ \A b \in Actors : b # p => act'[b] = act[b]
    BY <1>1, <1>2, <1>8, <1>9, <1>10, PlaceEffect
  <1>12. Moves(p) /\ ~Has(p) /\ ~Has(p)'
    BY <1>4, <1>8, <1>11 DEF Moves, Has, Building, Halfway
  <1>13. ASSUME Quiet
         PROVE  (\A b \in Actors : b # p /\ Holding(b) => act[b].ref # r) /\ Knows(p)'
    <2>1. refs[r].used
      BY <1>5, <1>6, <1>13, SlotFacts DEF Quiet, RefsSound
    <2>2. Knows(p)'
      BY <1>2, <1>4, <1>5, <1>8, <1>11, <2>1 DEF Knows, Holding, Owning, Dropping
    <2>3. ASSUME NEW b \in Actors, b # p, Holding(b), act[b].ref = r PROVE FALSE
      <3>1. Knows(b)
        BY <1>13 DEF Quiet
      <3>2. refs[r].ctrl # 0
        BY <1>5, <1>6, SlotFacts
      <3>3. act[b].dev = act[p].dev /\ act[b].pc \notin {"idle", "unbound", "clear"}
        BY <1>5, <2>3, <3>1, <3>2 DEF Knows, Holding, Owning
      <3>4. CASE b \in Tasks
        BY <1>4, <1>13, <3>3, <3>4 DEF Quiet, Racing, Removing, Idle
      <3>5. CASE b \in Pdevs
        <4>1. SlotOf(b) /\ SlotOf(p)
          BY <1>1, <3>5 DEF DevSlotsOwned
        <4>2. devs[act[b].dev] = [used |-> TRUE, pdev |-> b, chr |-> Visible(b)]
          BY <3>3, <4>1 DEF SlotOf
        <4>3. devs[act[p].dev] = [used |-> TRUE, pdev |-> p, chr |-> Visible(p)]
          BY <1>4, <4>1 DEF SlotOf
        <4>4. devs[act[b].dev].pdev = b
          BY <4>2
        <4>5. devs[act[p].dev].pdev = p
          BY <4>3
        <4> QED  BY <2>3, <3>3, <4>4, <4>5
      <3> QED  BY <3>4, <3>5 DEF Actors
    <2> QED  BY <2>2, <2>3
  <1>14. file' \in [Files -> 0..NumDevs]
    BY <1>1, <1>4 DEF TypeOK
  <1> QED  BY <1>2, <1>4, <1>8, <1>11, <1>12, <1>13, <1>14, PlaceOnly


-----------------------------------------------------------------------------
(* open, and the release of a reference *)

\* Steps that change reference r, on which nobody else works, and no descriptor.
LEMMA RefStep ==
    ASSUME IInv, Note, NEW a \in Actors, Moves(a), NEW r \in RefSlots,
           UNCHANGED <<mod, held, devs, heap, pci, fault>>, file' \in [Files -> 0..NumDevs],
           \/ a \in Tasks /\ mod = Loaded
           \/ /\ a \in Pdevs /\ UNCHANGED file /\ act'[a].dev = act[a].dev
              /\ act[a].pc \in {"scan", "put", "drop", "dma", "pages", "clear"}
              /\ act'[a].pc \in {"scan", "put", "drop", "dma", "pages", "clear", "dead"},
           ~Has(a), ~Has(a)', act'[a].map \in {NoId, act[a].map},
           refs' \in [RefSlots -> RefType],
           \A s \in RefSlots : s # r => SameRef(s),
           \A k \in Kinds : MapList(r, k)' \in {MapList(r, k), <<>>},
           Quiet =>
               /\ \A b \in Actors : b # a /\ Holding(b) => act[b].ref # r
               /\ Holding(a)' => act'[a].ref = r
               /\ \A k \in Kinds : MapList(r, k)' = MapList(r, k)
               /\ Knows(a)' /\ (a \in Tasks /\ ~Idle(a)' => devs[act'[a].dev].chr)
               /\ ~refs'[r].used => refs'[r].ctrl = 0
               /\ refs'[r].ctrl = 0
                     => refs'[r].owner = NoTask /\ \A k \in Kinds : MapList(r, k) = <<>>
               /\ refs'[r].ctrl # 0 => devs[refs'[r].ctrl].chr
    PROVE  IInv'
  <1>1. /\ TypeOK /\ Pointers /\ DevSlotsOwned /\ PciTaken /\ LoadedInOrder
        /\ FieldsSettled /\ ListsAllocated /\ ListsSorted /\ ListedOnce /\ BuiltAlone
    BY DEF IInv, Always
  <1>2. TypeOK'
    BY <1>1, NoteFacts DEF TypeOK, Moves
  <1>3. DevSlotsOwned' /\ PciTaken' /\ LoadedInOrder'
    BY <1>1, DevFrame
  <1>4. \A s \in RefSlots, k \in Kinds : MapList(s, k)' \in {MapList(s, k), <<>>}
    BY DEF SameRef
  <1>5. ListsAllocated' /\ ListsSorted' /\ ListedOnce'
    BY <1>1, <1>4, ListFrame
  <1>6. FieldsSettled'
    BY <1>1 DEF FieldsSettled
  <1>7. \A x \in MapIds, s \in RefSlots, k \in Kinds : Listed(x, s, k)' => Listed(x, s, k)
    <2> SUFFICES ASSUME NEW x \in MapIds, NEW s \in RefSlots, NEW k \in Kinds, Listed(x, s, k)'
                 PROVE  Listed(x, s, k)
      OBVIOUS
    <2>1. MapList(s, k)' # <<>>
      BY DEF Listed, Contains
    <2>2. MapList(s, k)' = MapList(s, k)
      BY <1>4, <2>1
    <2> QED  BY <2>2 DEF Listed
  <1>8. BuiltAlone'
    BY <1>1, <1>7, BuiltFrame
  <1>9. Always'
    BY <1>2, <1>3, <1>5, <1>6, <1>8 DEF Always, Moves
  <1>10. ASSUME Quiet, ~Racing' PROVE Quiet'
    <2>1. /\ \A b \in Actors : b # a /\ Holding(b) => act[b].ref # r
          /\ Holding(a)' => act'[a].ref = r
          /\ \A k \in Kinds : MapList(r, k)' = MapList(r, k)
          /\ Knows(a)' /\ (a \in Tasks /\ ~Idle(a)' => devs[act'[a].dev].chr)
      BY <1>10
    <2>2. /\ ~refs'[r].used => refs'[r].ctrl = 0
          /\ refs'[r].ctrl = 0 => refs'[r].owner = NoTask /\ \A k \in Kinds : MapList(r, k) = <<>>
          /\ refs'[r].ctrl # 0 => devs[refs'[r].ctrl].chr
      BY <1>10
    <2>3. \A s \in RefSlots, k \in Kinds : MapList(s, k)' = MapList(s, k)
      BY <2>1 DEF SameRef
    <2>4. (\A b \in Actors : Knows(b)) /\ OneHolder /\ NoneLost /\ DevicesThere /\ RefsSound
          /\ fault = "none"
      BY <1>10 DEF Quiet
    <2>5. (\A b \in Actors : Knows(b)') /\ OneHolder'
      BY <1>1, <2>1, <2>4, KnowsFrame
    <2>6. \A x \in MapIds, s \in RefSlots, k \in Kinds : Listed(x, s, k)' = Listed(x, s, k)
      BY <2>3 DEF Listed
    <2>7. NoneLost'
      BY <1>1, <2>4, <2>6, LostFrame
    <2>8. DevicesThere'
      BY <1>1, <2>1, <2>4, ThereFrame
    <2>9. RefsSound'
      <3> SUFFICES ASSUME NEW s \in RefSlots
                   PROVE  /\ ~refs'[s].used => refs'[s].ctrl = 0
                          /\ refs'[s].ctrl = 0 => refs'[s].owner = NoTask
                                                  /\ \A k \in Kinds : MapList(s, k)' = <<>>
                          /\ refs'[s].ctrl # 0 => devs'[refs'[s].ctrl].chr
        BY DEF RefsSound
      <3>1. CASE s = r
        BY <2>2, <2>3, <3>1
      <3>2. CASE s # r
        BY <2>3, <2>4, <3>2 DEF RefsSound, SameRef
      <3> QED  BY <3>1, <3>2
    <2> QED  BY <1>10, <2>4, <2>5, <2>7, <2>8, <2>9 DEF Quiet
  <1> QED  BY <1>9, <1>10, Combine

\* Other references than r have not changed at all.
LEMMA OthersSame ==
    ASSUME NEW r, \A s \in RefSlots : s # r => refs'[s] = refs[s],
           \A s \in RefSlots, k \in Kinds : s # r => MapList(s, k)' = MapList(s, k)
    PROVE  \A s \in RefSlots : s # r => SameRef(s)
  BY DEF SameRef

\* open takes a free slot.
LEMMA OpenClaimStep ==
    ASSUME IInv, NEW t \in Tasks, OpenClaim(t)
    PROVE  IInv'
  <1>1. TypeOK /\ Pointers /\ LoadedInOrder
    BY DEF IInv, Always
  <1>2. PICK r : r = act[t].ref
    OBVIOUS
  <1>3. /\ r \in RefSlots
        /\ refs' \in [RefSlots -> RefType]
        /\ refs'[r].used /\ refs'[r].ctrl = act[t].dev
        /\ refs'[r].owner = refs[r].owner
        /\ \A s \in RefSlots : s # r => refs'[s] = refs[s]
        /\ \A s \in RefSlots, k \in Kinds : MapList(s, k)' = MapList(s, k)
    BY <1>1, <1>2, ClaimEffect
  <1>4. /\ act' \in [Actors -> Place] /\ Pointers' /\ t \in Actors
        /\ \A b \in Actors : b # t => act'[b] = act[b]
        /\ act[t].pc = "claim" /\ act'[t].pc = "init" /\ act'[t].ref = act[t].ref
        /\ act'[t].dev = act[t].dev /\ act'[t].map = act[t].map
    BY <1>1, OpenPlaces
  <1>5. /\ UNCHANGED <<mod, held, devs, heap, pci, file, fault>> /\ Note
        /\ ~refs[r].used
    BY <1>2 DEF OpenClaim
  <1>6. Moves(t) /\ ~Has(t) /\ ~Has(t)' /\ ~Idle(t) /\ act[t].dev \in DevSlots
    BY <1>1, <1>4 DEF Moves, Has, Building, Halfway, Idle, Pointers, PlaceOK
  <1>7. file' \in [Files -> 0..NumDevs] /\ mod = Loaded
    BY <1>1, <1>4, <1>5, InModule DEF TypeOK
  <1>8. \A s \in RefSlots : s # r => SameRef(s)
    BY <1>3, OthersSame
  <1>9. ASSUME Quiet
        PROVE  /\ \A b \in Actors : b # t /\ Holding(b) => act[b].ref # r
               /\ Knows(t)' /\ devs[act[t].dev].chr
    <2>1. \A b \in Actors : Holding(b) => act[b].ref # r
      BY <1>5, <1>9 DEF Quiet, Knows
    <2>2. devs[act[t].dev].chr
      BY <1>6, <1>9 DEF Quiet, DevicesThere
    <2>3. refs[r].owner = NoTask /\ \A k \in Kinds : MapList(r, k) = <<>>
      BY <1>3, <1>5, <1>9 DEF Quiet, RefsSound
    <2>4. \A k \in Kinds : MapList(act[t].ref, k)' = <<>>
      BY <1>2, <1>3, <1>4, <2>3 DEF MapList
    <2>5. Knows(t)'
      BY <1>2, <1>3, <1>4, <2>3, <2>4 DEF Knows, Holding, Owning, Dropping
    <2> QED  BY <2>1, <2>2, <2>5
  <1>10. act[t].dev # 0
    BY <1>6, SlotFacts
  <1> QED  BY <1>2, <1>3, <1>4, <1>5, <1>6, <1>7, <1>8, <1>9, <1>10, RefStep

\* open sets up the reference.
LEMMA OpenInitStep ==
    ASSUME IInv, NEW t \in Tasks, OpenInit(t)
    PROVE  IInv'
  <1>1. TypeOK /\ Pointers /\ LoadedInOrder
    BY DEF IInv, Always
  <1>2. PICK r : r = act[t].ref
    OBVIOUS
  <1>3. /\ r \in RefSlots
        /\ refs' \in [RefSlots -> RefType]
        /\ refs'[r].used = refs[r].used
        /\ refs'[r].ctrl = refs[r].ctrl
        /\ refs'[r].owner = t
        /\ \A s \in RefSlots : s # r => refs'[s] = refs[s]
        /\ \A k \in Kinds : MapList(r, k)' = <<>>
        /\ \A s \in RefSlots, k \in Kinds : s # r => MapList(s, k)' = MapList(s, k)
    BY <1>1, <1>2, InitEffect
  <1>4. /\ act' \in [Actors -> Place] /\ Pointers' /\ t \in Actors
        /\ \A b \in Actors : b # t => act'[b] = act[b]
        /\ act[t].pc = "init" /\ act'[t].pc = "idle" /\ act'[t].map = NoId
    BY <1>1, OpenPlaces
  <1>5. /\ UNCHANGED <<mod, held, devs, heap, pci, fault>> /\ Note
        /\ file' = [file EXCEPT ![act[t].file] = act[t].dev]
    BY DEF OpenInit
  <1>6. Moves(t) /\ ~Has(t) /\ ~Has(t)' /\ Idle(t)' /\ Holding(t) /\ act[t].dev \in DevSlots
    BY <1>1, <1>4 DEF Moves, Has, Building, Halfway, Idle, Holding, Pointers, PlaceOK
  <1>7. file' \in [Files -> 0..NumDevs] /\ mod = Loaded
    <2>1. mod = Loaded /\ file \in [Files -> 0..NumDevs] /\ act[t].dev \in 0..NumDevs
      BY <1>1, <1>4, <1>6, InModule, SlotFacts DEF TypeOK
    <2> QED  BY <1>5, <2>1
  <1>8. \A s \in RefSlots : s # r => SameRef(s)
    BY <1>3, OthersSame
  <1>9. ~Holding(t)' /\ Knows(t)'
    BY <1>4 DEF Holding, Knows, Owning, Dropping
  <1>10. ASSUME Quiet
         PROVE  /\ \A b \in Actors : b # t /\ Holding(b) => act[b].ref # r
                /\ refs[r].used /\ refs[r].ctrl # 0 /\ devs[refs[r].ctrl].chr
                /\ \A k \in Kinds : MapList(r, k) = <<>>
    <2>1. \A b \in Actors : b # t /\ Holding(b) => act[b].ref # r
      BY <1>2, <1>4, <1>6, <1>10 DEF Quiet, OneHolder
    <2>2. Knows(t)
      BY <1>4, <1>10 DEF Quiet
    <2>3. refs[r].used /\ refs[r].ctrl = act[t].dev /\ \A k \in Kinds : MapList(r, k) = <<>>
      BY <1>2, <1>4, <1>6, <2>2 DEF Knows
    <2>4. refs[r].ctrl # 0
      BY <1>6, <2>3, SlotFacts
    <2>5. devs[refs[r].ctrl].chr
      BY <1>3, <1>10, <2>4 DEF Quiet, RefsSound
    <2> QED  BY <2>1, <2>3, <2>4, <2>5
  <1> QED  BY <1>3, <1>4, <1>5, <1>6, <1>7, <1>8, <1>9, <1>10, RefStep

\* The reference that is put leads nowhere any more.
LEMMA PutClearStep ==
    ASSUME IInv, NEW a \in Actors, PutClear(a)
    PROVE  IInv'
  <1>1. TypeOK /\ Pointers /\ LoadedInOrder
    BY DEF IInv, Always
  <1>2. PICK r : r = act[a].ref
    OBVIOUS
  <1>3. /\ r \in RefSlots
        /\ refs' \in [RefSlots -> RefType]
        /\ refs'[r].used = refs[r].used /\ refs'[r].ctrl = 0 /\ refs'[r].owner = NoTask
        /\ \A s \in RefSlots : s # r => refs'[s] = refs[s]
        /\ \A s \in RefSlots, k \in Kinds : MapList(s, k)' = MapList(s, k)
        /\ \A k \in Kinds : MapList(r, k) = <<>>
    BY <1>1, <1>2, ClearEffect
  <1>4. /\ act' \in [Actors -> Place] /\ Pointers'
        /\ \A b \in Actors : b # a => act'[b] = act[b]
        /\ act[a].pc = "put" /\ act'[a].pc = "clear" /\ act'[a].dev = act[a].dev
        /\ act'[a].ref = act[a].ref /\ act'[a].map = act[a].map
        /\ UNCHANGED <<mod, held, devs, heap, pci, file, fault>> /\ Note
    BY <1>1, PutClearPlace
  <1>5. Moves(a) /\ (a \in Tasks \/ a \in Pdevs)
    BY <1>4 DEF Moves, Actors
  <1>6. ~Has(a) /\ ~Has(a)' /\ ~Idle(a) /\ Holding(a)
    BY <1>4 DEF Has, Building, Halfway, Idle, Holding
  <1>7. file' \in [Files -> 0..NumDevs] /\ (a \in Tasks => mod = Loaded)
    BY <1>1, <1>4, InModule DEF TypeOK
  <1>8. \A s \in RefSlots : s # r => SameRef(s)
    BY <1>3, OthersSame
  <1>9. ASSUME Quiet
        PROVE  /\ \A b \in Actors : b # a /\ Holding(b) => act[b].ref # r
               /\ Knows(a)' /\ (a \in Tasks => devs[act'[a].dev].chr) /\ refs[r].used
    <2>1. \A b \in Actors : b # a /\ Holding(b) => act[b].ref # r
      BY <1>2, <1>6, <1>9 DEF Quiet, OneHolder
    <2>2. refs[r].used
      BY <1>2, <1>6, <1>9 DEF Quiet, Knows
    <2>3. a \in Tasks => devs[act'[a].dev].chr
      BY <1>4, <1>6, <1>9 DEF Quiet, DevicesThere
    <2>4. Knows(a)'
      BY <1>2, <1>3, <1>4, <2>2 DEF Knows, Holding, Owning, Dropping
    <2> QED  BY <2>1, <2>2, <2>3, <2>4
  <1> QED  BY <1>2, <1>3, <1>4, <1>5, <1>6, <1>7, <1>8, <1>9, RefStep

\* The slot is free again.
LEMMA PutDoneStep ==
    ASSUME IInv, NEW a \in Actors, PutDone(a)
    PROVE  IInv'
  <1>1. TypeOK /\ Pointers /\ LoadedInOrder
    BY DEF IInv, Always
  <1>2. PICK r : r = act[a].ref
    OBVIOUS
  <1>3. /\ r \in RefSlots
        /\ refs' \in [RefSlots -> RefType]
        /\ ~refs'[r].used /\ refs'[r].ctrl = refs[r].ctrl /\ refs'[r].owner = refs[r].owner
        /\ \A s \in RefSlots : s # r => refs'[s] = refs[s]
        /\ \A s \in RefSlots, k \in Kinds : MapList(s, k)' = MapList(s, k)
    BY <1>1, <1>2, DoneEffect
  <1>4. /\ act' \in [Actors -> Place] /\ Pointers'
        /\ \A b \in Actors : b # a => act'[b] = act[b]
        /\ act[a].pc = "clear" /\ act'[a].map = NoId
        /\ \/ a \in Tasks /\ act'[a].pc = "idle"
           \/ a \notin Tasks /\ act'[a].pc = "scan" /\ act'[a].dev = act[a].dev
        /\ UNCHANGED <<mod, held, devs, heap, pci, file, fault>> /\ Note
    BY <1>1, PutDonePlace
  <1>5. Moves(a) /\ (a \in Tasks \/ a \in Pdevs)
    BY <1>4 DEF Moves, Actors
  <1>6. ~Has(a) /\ ~Has(a)' /\ (a \in Tasks => Idle(a)') /\ Holding(a)
    BY <1>4 DEF Has, Building, Halfway, Idle, Holding
  <1>7. file' \in [Files -> 0..NumDevs] /\ (a \in Tasks => mod = Loaded)
    BY <1>1, <1>4, InModule DEF TypeOK
  <1>8. \A s \in RefSlots : s # r => SameRef(s)
    BY <1>3, OthersSame
  <1>9. ~Holding(a)' /\ Knows(a)'
    BY <1>4 DEF Holding, Knows, Owning, Dropping
  <1>10. ASSUME Quiet
         PROVE  /\ \A b \in Actors : b # a /\ Holding(b) => act[b].ref # r
                /\ refs[r].ctrl = 0 /\ refs[r].owner = NoTask
                      /\ \A k \in Kinds : MapList(r, k) = <<>>
    <2>1. \A b \in Actors : b # a /\ Holding(b) => act[b].ref # r
      BY <1>2, <1>6, <1>10 DEF Quiet, OneHolder
    <2>2. refs[r].ctrl = 0
      BY <1>2, <1>4, <1>10 DEF Quiet, Knows
    <2>3. refs[r].owner = NoTask /\ \A k \in Kinds : MapList(r, k) = <<>>
      BY <1>3, <1>10, <2>2 DEF Quiet, RefsSound
    <2> QED  BY <2>1, <2>2, <2>3
  <1> QED  BY <1>3, <1>4, <1>5, <1>6, <1>7, <1>8, <1>9, <1>10, RefStep


-----------------------------------------------------------------------------
(* the construction of descriptors *)

\* A descriptor that is allocated is of one of the two kinds.
LEMMA MapFacts ==
    ASSUME NEW d \in MapType
    PROVE  d # NoMap /\ d.type \in Kinds /\ d.vaddr \in Nat
  <1>1. d.type \in {"user", "gpu"} /\ d.vaddr \in VAddrs
    BY DEF MapType
  <1>2. NoMap.type = "none"
    BY DEF NoMap
  <1> QED  BY <1>1, <1>2, SlotFacts DEF Kinds

\* A list holds no descriptor that is not allocated.
LEMMA FreeUnlisted ==
    ASSUME ListsAllocated, NEW m \in MapIds, heap[m] = NoMap
    PROVE  \A r \in RefSlots, k \in Kinds : ~Listed(m, r, k)
  BY DEF ListsAllocated, Listed, Contains

\* Actor t builds descriptor m, which nobody else points to, or takes it down, which
\* nobody else does.
LEMMA BuiltStep ==
    ASSUME TypeOK, Pointers, BuiltAlone, NEW t \in Actors, Moves(t), NEW m \in MapIds,
           act'[t].map = m,
           \A b \in Actors : b # t /\ (Building(t)' \/ Has(b)) => act[b].map # m,
           \A r \in RefSlots, k \in Kinds : ~Listed(m, r, k)',
           \A x \in MapIds, r \in RefSlots, k \in Kinds : Listed(x, r, k)' => Listed(x, r, k),
           \A x \in MapIds : x # m => heap'[x] = heap[x], Stage(act'[t].pc, heap'[m])
    PROVE  BuiltAlone'
  <1> SUFFICES ASSUME NEW c \in Actors, Has(c)'
               PROVE  /\ Stage(act'[c].pc, heap'[act'[c].map])
                      /\ \A b \in Actors : b # c /\ (Building(c)' \/ Has(b)')
                            => act'[b].map # act'[c].map
                      /\ \A r \in RefSlots, k \in Kinds : ~Listed(act[c].map, r, k)'
    BY DEF BuiltAlone
  <1>1. ASSUME NEW b \in Actors, b # t
        PROVE  act'[b] = act[b] /\ Has(b)' = Has(b) /\ Building(b)' = Building(b)
    <2>1. act'[b] = act[b]
      BY <1>1 DEF Moves
    <2> QED  BY <2>1 DEF Has, Building, Halfway
  <1>2. CASE c = t
    <2>1. \A b \in Actors : b # c /\ (Building(c)' \/ Has(b)') => act'[b].map # m
      BY <1>1, <1>2
    <2>2. \A r \in RefSlots, k \in Kinds : Listed(act[c].map, r, k)' = Listed(m, r, k)'
      BY <1>2 DEF Listed
    <2> QED  BY <1>2, <2>1, <2>2
  <1>3. CASE c # t
    <2>1. act'[c] = act[c] /\ Has(c) /\ Building(c)' = Building(c)
      BY <1>1, <1>3
    <2>2. PICK n : n = act[c].map
      OBVIOUS
    <2>3. n \in MapIds /\ n # m
      BY <1>3, <2>1, <2>2 DEF Has, Building, Halfway, Pointers, PlaceOK
    <2>4. /\ Stage(act[c].pc, heap[n])
          /\ (\A b \in Actors : b # c /\ (Building(c) \/ Has(b)) => act[b].map # n)
          /\ \A r \in RefSlots, k \in Kinds : ~Listed(n, r, k)
      BY <2>1, <2>2 DEF BuiltAlone
    <2>5. heap'[n] = heap[n] /\ act'[c].map = n /\ act'[c].pc = act[c].pc
      BY <2>1, <2>2, <2>3
    <2>6. \A b \in Actors : b # c /\ (Building(c)' \/ Has(b)') => act'[b].map # n
      <3> SUFFICES ASSUME NEW b \in Actors, b # c, Building(c)' \/ Has(b)' PROVE act'[b].map # n
        OBVIOUS
      <3>1. CASE b = t
        BY <2>3, <3>1
      <3>2. CASE b # t
        BY <1>1, <2>1, <2>4, <3>2
      <3> QED  BY <3>1, <3>2
    <2>7. \A r \in RefSlots, k \in Kinds : ~Listed(n, r, k)'
      BY <2>3, <2>4
    <2>8. \A r \in RefSlots, k \in Kinds : Listed(act[c].map, r, k)' = Listed(n, r, k)'
      BY <2>5 DEF Listed
    <2> QED  BY <2>4, <2>5, <2>6, <2>7, <2>8
  <1> QED  BY <1>2, <1>3

\* Steps that change descriptor m, which is in no list.
LEMMA DescStep ==
    ASSUME IInv, Note, NEW t \in Actors, Moves(t),
           \/ t \in Tasks /\ mod = Loaded
           \/ /\ t \in Pdevs /\ act'[t].dev = act[t].dev
              /\ act[t].pc \in {"scan", "put", "drop", "dma", "pages", "clear"}
              /\ act'[t].pc \in {"scan", "put", "drop", "dma", "pages", "clear", "dead"},
           UNCHANGED <<mod, held, devs, refs, pci, file>>,
           NEW m \in MapIds, NEW d \in MapType \union {NoMap}, heap' = [heap EXCEPT ![m] = d],
           d # NoMap => d.pages <= d.asked /\ d.addrs <= d.asked /\ Settled(d),
           \A r \in RefSlots, k \in Kinds : ~Listed(m, r, k), BuiltAlone',
           Quiet /\ ~Racing' =>
               /\ fault' = "none" /\ Knows(t)'
                     /\ (t \in Tasks /\ ~Idle(t)' => devs[act'[t].dev].chr)
               /\ \A b \in Actors : b # t /\ Holding(b) /\ Holding(t)' => act[b].ref # act'[t].ref
               /\ d # NoMap => Has(t)' /\ act'[t].map = m
               /\ Has(t) => act[t].map = m
    PROVE  IInv'
  <1>1. /\ TypeOK /\ Pointers /\ DevSlotsOwned /\ PciTaken /\ LoadedInOrder
        /\ FieldsSettled /\ ListsAllocated /\ ListsSorted /\ ListedOnce /\ BuiltAlone
    BY DEF IInv, Always
  <1>2. /\ heap' \in [MapIds -> MapType \union {NoMap}]
        /\ \A x \in MapIds : heap'[x] # NoMap =>
              heap'[x].pages <= heap'[x].asked /\ heap'[x].addrs <= heap'[x].asked
        /\ FieldsSettled'
        /\ heap'[m] = d /\ \A x \in MapIds : x # m => heap'[x] = heap[x]
    BY <1>1, HeapStep
  <1>3. TypeOK'
    <2>1. after' \in 0..MaxAfterRace
      BY <1>1, NoteFacts
    <2> QED  BY <1>1, <1>2, <2>1 DEF TypeOK, Moves
  <1>4. DevSlotsOwned' /\ PciTaken' /\ LoadedInOrder'
    BY <1>1, DevFrame
  <1>5. \A r \in RefSlots, k \in Kinds : MapList(r, k)' = MapList(r, k)
    BY DEF MapList
  <1>6. ListsAllocated' /\ ListsSorted' /\ ListedOnce'
    <2>1. \A x \in MapIds : ~((\E r \in RefSlots, k \in Kinds : Listed(x, r, k))
          /\ heap'[x] # heap[x])
      BY <1>2
    <2> QED  BY <1>1, <1>5, <2>1, ListFrame
  <1>7. Always'
    BY <1>2, <1>3, <1>4, <1>6 DEF Always, Moves
  <1>8. ASSUME Quiet, ~Racing' PROVE Quiet'
    <2>1. /\ fault' = "none" /\ Knows(t)' /\ (t \in Tasks /\ ~Idle(t)' => devs[act'[t].dev].chr)
          /\ \A b \in Actors : b # t /\ Holding(b) /\ Holding(t)' => act[b].ref # act'[t].ref
          /\ d # NoMap => Has(t)' /\ act'[t].map = m
          /\ Has(t) => act[t].map = m
      BY <1>8
    <2>2. (\A b \in Actors : Knows(b)) /\ OneHolder /\ NoneLost /\ DevicesThere /\ RefsSound
      BY <1>8 DEF Quiet
    <2>3. PICK r : r = IF Holding(t)' THEN act'[t].ref ELSE 0
      OBVIOUS
    <2>4. \A b \in Actors : b # t /\ Holding(b) => act[b].ref # r
      <3> SUFFICES ASSUME NEW b \in Actors, b # t, Holding(b) PROVE act[b].ref # r
        OBVIOUS
      <3>1. act[b].ref \in RefSlots
        BY <1>1 DEF Holding, Pointers, PlaceOK
      <3>2. act[b].ref # 0
        BY <3>1, SlotFacts
      <3> QED  BY <2>1, <2>3, <3>2
    <2>5. \A s \in RefSlots : SameRef(s)
      BY <1>5 DEF SameRef
    <2>6. (\A b \in Actors : Knows(b)') /\ OneHolder'
      BY <1>1, <2>1, <2>2, <2>3, <2>4, <2>5, KnowsFrame
    <2>7. DevicesThere'
      BY <1>1, <2>1, <2>2, ThereFrame
    <2>8. RefsSound'
      BY <1>5, <2>2 DEF RefsSound
    <2>9. NoneLost'
      <3> SUFFICES ASSUME NEW x \in MapIds, heap'[x] # NoMap
                   PROVE  \/ \E c \in Actors : Has(c)' /\ act'[c].map = x
                          \/ \E s \in RefSlots, k \in Kinds : Contains(MapList(s, k)', x)
        BY DEF NoneLost, Listed
      <3>1. CASE x = m
        BY <1>2, <2>1, <3>1
      <3>2. CASE x # m
        <4>1. heap[x] # NoMap
          BY <1>2, <3>2
        <4>2. CASE \E c \in Actors : Has(c) /\ act[c].map = x
          <5>1. PICK c \in Actors : Has(c) /\ act[c].map = x
            BY <4>2
          <5>2. c # t
            BY <2>1, <3>2, <5>1
          <5>3. act'[c] = act[c]
            BY <5>2 DEF Moves
          <5> QED  BY <5>1, <5>3 DEF Has, Building, Halfway
        <4>3. CASE \E s \in RefSlots, k \in Kinds : Listed(x, s, k)
          BY <1>5, <4>3 DEF Listed
        <4> QED  BY <2>2, <4>1, <4>2, <4>3 DEF NoneLost
      <3> QED  BY <3>1, <3>2
    <2> QED  BY <1>8, <2>1, <2>6, <2>7, <2>8, <2>9 DEF Quiet
  <1> QED  BY <1>7, <1>8, Combine

\* The ioctl allocates a descriptor.
LEMMA IoctlMapStep ==
    ASSUME IInv, NEW t \in Tasks, NEW f \in Files, IoctlMap(t, f)
    PROVE  IInv'
  <1>1. TypeOK /\ Pointers /\ LoadedInOrder /\ ListsAllocated /\ BuiltAlone /\ FieldsSettled
    BY DEF IInv, Always
  <1>2. PICK m \in MapIds, d \in MapType, r \in RefSlots :
              /\ heap[m] = NoMap /\ \A a \in Actors : act[a].map # m
              /\ heap' = [heap EXCEPT ![m] = d]
              /\ d.pages <= d.asked /\ d.addrs <= d.asked /\ Settled(d) /\ Stage("pin", d)
              /\ refs[r].ctrl = file[f] /\ refs[r].owner = t /\ file[f] \in DevSlots
              /\ act' = [act EXCEPT ![t] = [pc |-> "pin", file |-> f, dev |-> file[f], ref |-> r,
                    map |-> m]]
              /\ UNCHANGED <<mod, held, devs, refs, pci, file, fault>> /\ Note
    BY <1>1, IoctlEffect
  <1>3. PICK new : new = [pc |-> "pin", file |-> f, dev |-> file[f], ref |-> r, map |-> m]
    OBVIOUS
  <1>4. new \in Place
    BY <1>2, <1>3, SlotFacts DEF Place, Pcs
  <1>5. new.pc = "pin" /\ new.dev = file[f] /\ new.ref = r /\ new.map = m
    BY <1>3
  <1>6. t \in Actors /\ PlaceOK(t, new)
    BY <1>2, <1>5 DEF PlaceOK, TaskPcs, Actors
  <1>7. /\ act' \in [Actors -> Place] /\ Pointers' /\ act'[t] = new
        /\ \A b \in Actors : b # t => act'[b] = act[b]
    BY <1>1, <1>2, <1>3, <1>4, <1>6, PlaceEffect
  <1>8. Moves(t) /\ Has(t)' /\ ~Idle(t)'
    BY <1>5, <1>7 DEF Moves, Has, Building, Halfway, Idle
  <1>9. act[t].pc = "idle" /\ ~Has(t)
    BY DEF IoctlMap, Idle, Has, Building, Halfway
  <1>10. mod = Loaded /\ file[f] # 0
    <2>1. file[f] # 0
      BY <1>2, SlotFacts
    <2> QED  BY <1>1, <2>1, InModule
  <1>11. \A s \in RefSlots, k \in Kinds : ~Listed(m, s, k)
    BY <1>1, <1>2, FreeUnlisted
  <1>12. d # NoMap
    BY MapFacts
  <1>13. heap'[m] = d /\ \A x \in MapIds : x # m => heap'[x] = heap[x]
    BY <1>1, <1>2 DEF TypeOK
  <1>14. BuiltAlone'
    <2>1. \A x \in MapIds, s \in RefSlots, k \in Kinds : Listed(x, s, k)' = Listed(x, s, k)
      BY <1>2 DEF Listed, MapList
    <2> QED  BY <1>1, <1>2, <1>5, <1>6, <1>7, <1>8, <1>11, <1>13, <2>1, BuiltStep
  <1>15. ASSUME Quiet, ~Racing'
         PROVE  /\ fault' = "none" /\ Knows(t)' /\ devs[act'[t].dev].chr
                /\ \A b \in Actors : b # t /\ Holding(b) => act[b].ref # act'[t].ref
    <2>1. \A b \in Actors : b # t /\ Holding(b) => act[b].ref # r
      BY <1>1, <1>2, <1>5, <1>7, <1>8, <1>9, <1>10, <1>15, OwnAlone
    <2>2. refs[r].used /\ devs[act'[t].dev].chr
      BY <1>2, <1>5, <1>7, <1>10, <1>15 DEF Quiet, RefsSound
    <2>3. Knows(t)'
      BY <1>2, <1>5, <1>7, <2>2 DEF Knows, Holding, Owning, Dropping
    <2>4. fault' = "none"
      BY <1>2, <1>15 DEF Quiet
    <2> QED  BY <1>5, <1>7, <2>1, <2>2, <2>3, <2>4
  <1> QED  BY <1>2, <1>5, <1>6, <1>7, <1>8, <1>9, <1>10, <1>11, <1>12, <1>14, <1>15,
      DescStep

\* A task that builds a descriptor can go on to these places.
LEMMA BuildPlaces ==
    ASSUME TypeOK, Pointers, NEW t \in Tasks, Building(t), NEW p \in {"map", "insert", "dead"},
           Goto(t, p)
    PROVE  /\ Moves(t) /\ act'[t].pc = p /\ act'[t].dev = act[t].dev
           /\ act'[t].ref = act[t].ref /\ act'[t].map = act[t].map
  <1>1. t \in Actors /\ p \in Pcs /\ p \in TaskPcs
    BY DEF Actors, Pcs, TaskPcs
  <1>2. act[t].dev \in DevSlots /\ act[t].ref \in RefSlots /\ act[t].map \in MapIds
    BY <1>1 DEF Has, Building, Halfway, Pointers, PlaceOK
  <1>3. PICK new : new = [act[t] EXCEPT !.pc = p]
    OBVIOUS
  <1>4. new.pc = p /\ new.dev = act[t].dev /\ new.ref = act[t].ref /\ new.map = act[t].map
    BY <1>1, <1>3, ActFacts DEF Place
  <1>5. PlaceOK(t, new)
    BY <1>1, <1>2, <1>4 DEF PlaceOK
  <1>6. /\ act' \in [Actors -> Place] /\ Pointers'
        /\ act'[t].pc = p /\ act'[t].file = act[t].file /\ act'[t].dev = act[t].dev
        /\ act'[t].ref = act[t].ref /\ act'[t].map = act[t].map
        /\ \A b \in Actors : b # t => act'[b] = act[b]
    BY <1>1, <1>3, <1>5, GotoEffect
  <1> QED  BY <1>6 DEF Moves

\* The pages are pinned and mapped, or the descriptor is freed again.
LEMMA BuildStep ==
    ASSUME IInv, NEW t \in Tasks, MapPin(t) \/ MapUser(t) \/ MapGpu(t)
    PROVE  IInv'
  <1>1. TypeOK /\ Pointers /\ LoadedInOrder /\ FieldsSettled /\ BuiltAlone
    BY DEF IInv, Always
  <1>2. PICK m : m = act[t].map
    OBVIOUS
  <1>3. /\ m \in MapIds /\ heap[m] \in MapType /\ act[t].pc \in {"pin", "map"}
        /\ UNCHANGED <<mod, held, devs, refs, pci, file>> /\ Note
        /\ \/ fault' # "none" /\ Goto(t, "dead") /\ UNCHANGED heap
              /\ (NullCtrl(t) \/ (act[t].pc = "map" /\ heap[m].pinned = 0))
           \/ heap' = [heap EXCEPT ![m] = NoMap] /\ Finish(t) /\ UNCHANGED fault
           \/ \E d \in MapType :
                 /\ heap' = [heap EXCEPT ![m] = d] /\ UNCHANGED fault
                 /\ d.type = heap[m].type /\ d.vaddr = heap[m].vaddr
                 /\ d.pages <= d.asked /\ d.addrs <= d.asked /\ Settled(d)
                 /\ \/ act[t].pc = "pin" /\ Goto(t, "map") /\ d.pinned # 0
                    \/ act[t].pc = "map" /\ Goto(t, "insert") /\ d.mappings # "junk"
                       /\ d.pinned = heap[m].pinned
    BY <1>1, <1>2, BuildEffect
  <1>4. t \in Actors /\ Building(t) /\ Has(t) /\ Holding(t) /\ Owning(t) /\ ~Idle(t)
    BY <1>3 DEF Actors, Has, Building, Halfway, Holding, Owning, Idle
  <1>5. mod = Loaded
    BY <1>1, <1>3, InModule
  <1>6. /\ \A b \in Actors : b # t => act[b].map # m
        /\ \A r \in RefSlots, k \in Kinds : ~Listed(m, r, k)
    BY <1>1, <1>2, <1>4 DEF BuiltAlone
  <1>7. \A r \in RefSlots, k \in Kinds : MapList(r, k)' = MapList(r, k)
    BY <1>3 DEF MapList
  <1>8. ASSUME Quiet
        PROVE  /\ fault = "none" /\ devs[act[t].dev].chr
               /\ \A b \in Actors : b # t /\ Holding(b) => act[b].ref # act[t].ref
               /\ refs[act[t].ref].used /\ refs[act[t].ref].owner = t
                     /\ refs[act[t].ref].ctrl = act[t].dev
    BY <1>4, <1>8 DEF Quiet, DevicesThere, OneHolder, Knows
  <1>9. heap \in [MapIds -> MapType \union {NoMap}]
    BY <1>1 DEF TypeOK
  <1>10. CASE fault' # "none" /\ Goto(t, "dead") /\ UNCHANGED heap
              /\ (NullCtrl(t) \/ (act[t].pc = "map" /\ heap[m].pinned = 0))
    <2>1. heap' = [heap EXCEPT ![m] = heap[m]]
      BY <1>3, <1>9, <1>10
    <2>2. heap[m].pages <= heap[m].asked /\ heap[m].addrs <= heap[m].asked /\ Settled(heap[m])
      BY <1>1, <1>3, MapFacts DEF TypeOK, FieldsSettled
    <2>3. Moves(t) /\ act'[t].pc = "dead" /\ act'[t].map = act[t].map
      BY <1>1, <1>4, <1>10, BuildPlaces
    <2>4. ~Has(t)'
      BY <2>3 DEF Has, Building, Halfway
    <2>5. BuiltAlone'
      <3>1. \A x \in MapIds, r \in RefSlots, k \in Kinds : Listed(x, r, k)' => Listed(x, r, k)
        BY <1>7 DEF Listed
      <3>2. \A x \in MapIds : heap'[x] = heap[x] \/ x = act[t].map
        BY <1>10
      <3> QED  BY <1>1, <1>4, <2>3, <2>4, <3>1, <3>2, BuiltFrame
    <2>6. ~Quiet
      <3>1. SUFFICES ASSUME Quiet PROVE FALSE
        OBVIOUS
      <3>2. act[t].dev # 0
        <4>1. act[t].dev \in DevSlots
          BY <1>1, <1>3, <1>4 DEF Pointers, PlaceOK
        <4> QED  BY <4>1, SlotFacts
      <3>3. ~NullCtrl(t)
        BY <1>8, <3>1, <3>2 DEF NullCtrl
      <3>4. act[t].pc = "map" /\ heap[act[t].map].pinned = 0
        BY <1>2, <1>10, <3>3
      <3> QED  BY <3>1, <3>4 DEF Quiet, Racing
    <2> QED  BY <1>3, <1>4, <1>5, <1>6, <2>1, <2>2, <2>3, <2>5, <2>6, DescStep
  <1>11. CASE heap' = [heap EXCEPT ![m] = NoMap] /\ Finish(t) /\ UNCHANGED fault
    <2>1. /\ Moves(t) /\ act'[t].pc = "idle" /\ act'[t].map = NoId
      BY <1>1, <1>11, FinishEffect DEF Moves
    <2>2. ~Has(t)' /\ Idle(t)' /\ ~Holding(t)' /\ Knows(t)'
      BY <2>1 DEF Has, Building, Halfway, Idle, Holding, Knows, Owning, Dropping
    <2>3. BuiltAlone'
      <3>1. \A x \in MapIds, r \in RefSlots, k \in Kinds : Listed(x, r, k)' => Listed(x, r, k)
        BY <1>7 DEF Listed
      <3>2. \A x \in MapIds : heap'[x] = heap[x] \/ x = act[t].map
        BY <1>2, <1>9, <1>11
      <3> QED  BY <1>1, <1>4, <2>1, <2>2, <3>1, <3>2, BuiltFrame
    <2> QED  BY <1>2, <1>3, <1>4, <1>5, <1>6, <1>8, <1>11, <2>1, <2>2, <2>3, DescStep
  <1>12. ASSUME NEW d \in MapType,
                /\ heap' = [heap EXCEPT ![m] = d] /\ UNCHANGED fault
                /\ d.pages <= d.asked /\ d.addrs <= d.asked /\ Settled(d),
                NEW p \in {"map", "insert"}, Goto(t, p), p = "insert" => d.mappings # "junk"
         PROVE  IInv'
    <2>1. /\ Moves(t) /\ act'[t].pc = p /\ act'[t].dev = act[t].dev
          /\ act'[t].ref = act[t].ref /\ act'[t].map = act[t].map
      BY <1>1, <1>4, <1>12, BuildPlaces
    <2>2. Has(t)' /\ Holding(t)'
      BY <2>1 DEF Has, Building, Halfway, Holding
    <2>3. heap'[m] = d /\ (\A x \in MapIds : x # m => heap'[x] = heap[x]) /\ d # NoMap
      BY <1>3, <1>9, <1>12, MapFacts
    <2>4. BuiltAlone'
      <3>1. \A x \in MapIds, r \in RefSlots, k \in Kinds : Listed(x, r, k)' = Listed(x, r, k)
        BY <1>7 DEF Listed
      <3>2. Stage(p, heap'[m])
        BY <1>12, <2>3 DEF Stage
      <3> QED  BY <1>1, <1>2, <1>3, <1>4, <1>6, <2>1, <2>3, <3>1, <3>2, BuiltStep
    <2>5. ASSUME Quiet PROVE Knows(t)'
      BY <1>3, <1>8, <2>1, <2>5 DEF Knows, Holding, Owning, Dropping
    <2>6. Quiet /\ ~Racing' =>
             /\ fault' = "none" /\ Knows(t)' /\ (t \in Tasks /\ ~Idle(t)' => devs[act'[t].dev].chr)
             /\ \A b \in Actors : b # t /\ Holding(b) /\ Holding(t)' => act[b].ref # act'[t].ref
             /\ d # NoMap => Has(t)' /\ act'[t].map = m
             /\ Has(t) => act[t].map = m
      BY <1>2, <1>8, <1>12, <2>1, <2>2, <2>5
    <2>7. d \in MapType \union {NoMap}
      OBVIOUS
    <2> QED  BY <1>3, <1>4, <1>5, <1>6, <1>12, <2>1, <2>4, <2>6, <2>7, DescStep
  <1>13. CASE \E d \in MapType :
                 /\ heap' = [heap EXCEPT ![m] = d] /\ UNCHANGED fault
                 /\ d.type = heap[m].type /\ d.vaddr = heap[m].vaddr
                 /\ d.pages <= d.asked /\ d.addrs <= d.asked /\ Settled(d)
                 /\ \/ act[t].pc = "pin" /\ Goto(t, "map") /\ d.pinned # 0
                    \/ act[t].pc = "map" /\ Goto(t, "insert") /\ d.mappings # "junk"
                       /\ d.pinned = heap[m].pinned
    BY <1>12, <1>13
  <1> QED  BY <1>3, <1>10, <1>11, <1>13


-----------------------------------------------------------------------------
(* the lists *)

\* A list that is sorted, whose descriptors are there once, and where m fits in.
Sorted(s)     == \A j, l \in 1..Len(s) : j < l => heap[s[j]].vaddr <= heap[s[l]].vaddr
OnceEach(s)   == \A j, l \in 1..Len(s) : s[j] = s[l] => j = l
Fits(s, i, m) == /\ \A j \in 1..Len(s) : heap[s[j]].vaddr \in Nat /\ s[j] # m
                 /\ \A j \in 1..(i - 1) : heap[s[j]].vaddr < heap[m].vaddr
                 /\ i <= Len(s) => heap[m].vaddr <= heap[s[i]].vaddr

\* The list into which a descriptor was inserted holds it and the others, each once,
\* and is sorted.
LEMMA InsertSorted ==
    ASSUME NEW s \in Seq(MapIds), NEW m \in MapIds, NEW i \in 1..(Len(s) + 1),
           NEW u, u = InsertAt(s, i, m), heap[m].vaddr \in Nat,
           Sorted(s), OnceEach(s), Fits(s, i, m)
    PROVE  /\ \A j \in 1..Len(u) : u[j] = m \/ Contains(s, u[j])
           /\ Sorted(u) /\ OnceEach(u)
           /\ \A x : Contains(u, x) <=> x = m \/ Contains(s, x)
  <1>0. /\ \A j \in 1..Len(s) : heap[s[j]].vaddr \in Nat /\ s[j] # m
        /\ \A j, l \in 1..Len(s) : j < l => heap[s[j]].vaddr <= heap[s[l]].vaddr
        /\ \A j, l \in 1..Len(s) : s[j] = s[l] => j = l
        /\ \A j \in 1..(i - 1) : heap[s[j]].vaddr < heap[m].vaddr
        /\ i <= Len(s) => heap[m].vaddr <= heap[s[i]].vaddr
    BY DEF Sorted, OnceEach, Fits
  <1>1. /\ Len(u) = Len(s) + 1 /\ Len(s) \in Nat /\ i \in Nat /\ i >= 1 /\ i <= Len(s) + 1
        /\ \A j \in 1..(Len(s) + 1) : u[j] = IF j < i THEN s[j] ELSE IF j = i THEN m ELSE s[j - 1]
    BY InsertFacts
  <1>2. ASSUME NEW j \in 1..Len(u)
        PROVE  \/ j < i /\ j \in 1..Len(s) /\ u[j] = s[j]
               \/ j = i /\ u[j] = m
               \/ j > i /\ j - 1 \in 1..Len(s) /\ u[j] = s[j - 1]
    <2>1. j \in 1..(Len(s) + 1) /\ j \in Nat
      BY <1>1
    <2>2. CASE j < i
      BY <1>1, <2>1, <2>2
    <2>3. CASE j = i
      BY <1>1, <2>1, <2>3
    <2>4. CASE j > i
      <3>1. ~(j < i) /\ j # i /\ j - 1 \in 1..Len(s)
        BY <1>1, <2>1, <2>4
      <3> QED  BY <1>1, <2>1, <2>4, <3>1
    <2> QED  BY <1>1, <2>1, <2>2, <2>3, <2>4
  <1>3. \A j \in 1..Len(u) : u[j] = m \/ \E l \in 1..Len(s) : u[j] = s[l]
    BY <1>2
  <1>4. \A j \in 1..Len(s) : j < i => heap[s[j]].vaddr < heap[m].vaddr
    BY <1>0, <1>1
  <1>5. \A j \in 1..Len(s) : j >= i => heap[m].vaddr <= heap[s[j]].vaddr
    <2> SUFFICES ASSUME NEW j \in 1..Len(s), j >= i PROVE heap[m].vaddr <= heap[s[j]].vaddr
      OBVIOUS
    <2>1. i \in 1..Len(s) /\ i <= Len(s)
      BY <1>1
    <2>2. heap[s[i]].vaddr \in Nat /\ heap[s[j]].vaddr \in Nat /\ heap[m].vaddr <= heap[s[i]].vaddr
      BY <1>0, <2>1
    <2>3. j = i \/ i < j
      BY <1>1
    <2>4. heap[s[i]].vaddr <= heap[s[j]].vaddr
      BY <1>0, <2>1, <2>2, <2>3
    <2> QED  BY <2>2, <2>4
  <1>6. ASSUME NEW j \in 1..Len(u), NEW l \in 1..Len(u), j < l
        PROVE  heap[u[j]].vaddr <= heap[u[l]].vaddr
    <2>1. CASE j < i /\ l < i
      BY <1>0, <1>1, <1>2, <1>6, <2>1
    <2>2. CASE j < i /\ l = i
      <3>1. j \in 1..Len(s) /\ u[j] = s[j] /\ u[l] = m
        BY <1>1, <1>2, <2>2
      <3> QED  BY <1>0, <1>4, <2>2, <3>1
    <2>3. CASE j < i /\ l > i
      <3>1. j \in 1..Len(s) /\ u[j] = s[j] /\ l - 1 \in 1..Len(s) /\ u[l] = s[l - 1]
        BY <1>1, <1>2, <2>3
      <3>2. j < l - 1
        BY <1>1, <2>3, <3>1
      <3> QED  BY <1>0, <3>1, <3>2
    <2>4. CASE j = i
      <3>1. u[j] = m /\ l > i /\ l - 1 \in 1..Len(s) /\ u[l] = s[l - 1] /\ l - 1 >= i
        BY <1>1, <1>2, <1>6, <2>4
      <3> QED  BY <1>5, <3>1
    <2>5. CASE j > i
      <3>1. /\ j - 1 \in 1..Len(s) /\ u[j] = s[j - 1] /\ l - 1 \in 1..Len(s) /\ u[l] = s[l - 1]
            /\ j - 1 < l - 1
        BY <1>1, <1>2, <1>6, <2>5
      <3> QED  BY <1>0, <3>1
    <2>6. j \in Nat /\ l \in Nat
      BY <1>1
    <2> QED  BY <1>1, <1>6, <2>1, <2>2, <2>3, <2>4, <2>5, <2>6
  <1>7. ASSUME NEW j \in 1..Len(u), NEW l \in 1..Len(u), u[j] = u[l]
        PROVE  j = l
    <2>0. j \in Nat /\ l \in Nat
      BY <1>1
    <2>1. CASE j = i
      BY <1>0, <1>2, <1>7, <2>1
    <2>2. CASE l = i
      BY <1>0, <1>2, <1>7, <2>2
    <2>3. CASE j # i /\ l # i
      <3>1. PICK y \in 1..Len(s) : u[j] = s[y] /\ y = IF j < i THEN j ELSE j - 1
        BY <1>1, <1>2, <2>0, <2>3
      <3>2. PICK z \in 1..Len(s) : u[l] = s[z] /\ z = IF l < i THEN l ELSE l - 1
        BY <1>1, <1>2, <2>0, <2>3
      <3>3. y = z
        BY <1>0, <1>7, <3>1, <3>2
      <3> QED  BY <1>1, <2>0, <2>3, <3>1, <3>2, <3>3
    <2> QED  BY <2>1, <2>2, <2>3
  <1>8. ASSUME NEW x PROVE Contains(u, x) <=> x = m \/ Contains(s, x)
    <2>1. ASSUME Contains(u, x) PROVE x = m \/ Contains(s, x)
      BY <1>3, <2>1 DEF Contains
    <2>2. ASSUME x = m PROVE Contains(u, x)
      <3>1. i \in 1..Len(u) /\ u[i] = m
        BY <1>1
      <3> QED  BY <2>2, <3>1 DEF Contains
    <2>3. ASSUME Contains(s, x) PROVE Contains(u, x)
      <3>1. PICK j \in 1..Len(s) : s[j] = x
        BY <2>3 DEF Contains
      <3>2. CASE j < i
        <4>1. j \in 1..Len(u) /\ u[j] = s[j]
          BY <1>1, <3>2
        <4> QED  BY <3>1, <4>1 DEF Contains
      <3>3. CASE ~(j < i)
        <4>1. j + 1 \in 1..Len(u) /\ ~(j + 1 < i) /\ j + 1 # i /\ (j + 1) - 1 = j
          BY <1>1, <3>3
        <4>2. u[j + 1] = s[j]
          BY <1>1, <4>1
        <4> QED  BY <3>1, <4>1, <4>2 DEF Contains
      <3> QED  BY <3>2, <3>3
    <2> QED  BY <2>1, <2>2, <2>3
  <1>9. \A j \in 1..Len(u) : u[j] = m \/ Contains(s, u[j])
    BY <1>3 DEF Contains
  <1>10. Sorted(u) /\ OnceEach(u)
    BY <1>6, <1>7 DEF Sorted, OnceEach
  <1> QED  BY <1>8, <1>9, <1>10

\* The lists after the ioctl has put its descriptor into one.
LEMMA ListsInserted ==
    ASSUME TypeOK, Pointers, BuiltAlone, ListsAllocated, ListsSorted, ListedOnce,
           NEW t \in Tasks, MapInsert(t), NEW r, r = act[t].ref, NEW m, m = act[t].map,
           NEW k, k = heap[m].type
    PROVE  /\ r \in RefSlots /\ m \in MapIds /\ k \in Kinds
           /\ refs' \in [RefSlots -> RefType]
           /\ \A q \in RefSlots : /\ refs'[q].used = refs[q].used /\ refs'[q].ctrl = refs[q].ctrl
                                  /\ refs'[q].owner = refs[q].owner
           /\ \A q \in RefSlots, l \in Kinds : q # r \/ l # k => MapList(q, l)' = MapList(q, l)
           /\ \A x \in MapIds : Contains(MapList(r, k)', x) <=> x = m \/ Contains(MapList(r, k), x)
           /\ ListsAllocated' /\ ListsSorted' /\ ListedOnce'
  <1>1. /\ r \in RefSlots /\ m \in MapIds /\ k \in Kinds /\ heap[m] \in MapType
        /\ refs' \in [RefSlots -> RefType]
        /\ \A q \in RefSlots : /\ refs'[q].used = refs[q].used /\ refs'[q].ctrl = refs[q].ctrl
                               /\ refs'[q].owner = refs[q].owner
        /\ \A q \in RefSlots, l \in Kinds : q # r \/ l # k => MapList(q, l)' = MapList(q, l)
    BY InsertEffect
  <1>0. \E i \in 1..(Len(MapList(r, k)) + 1) :
              /\ MapList(r, k)' = InsertAt(MapList(r, k), i, m)
              /\ \A j \in 1..(i - 1) : heap[MapList(r, k)[j]].vaddr < heap[m].vaddr
              /\ i <= Len(MapList(r, k)) => heap[m].vaddr <= heap[MapList(r, k)[i]].vaddr
    BY InsertEffect
  <1>a. r \in RefSlots /\ k \in Kinds /\ m \in MapIds
    BY <1>1
  <1>2. PICK s, u : s = MapList(r, k) /\ u = MapList(r, k)'
    OBVIOUS
  <1>3. PICK i \in 1..(Len(s) + 1) :
              /\ u = InsertAt(s, i, m)
              /\ \A j \in 1..(i - 1) : heap[s[j]].vaddr < heap[m].vaddr
              /\ i <= Len(s) => heap[m].vaddr <= heap[s[i]].vaddr
    BY <1>0, <1>2
  <1>4. s \in Seq(MapIds)
    BY <1>1, <1>2, RefFacts
  <1>5. t \in Actors /\ Has(t) /\ act[t].pc = "insert" /\ UNCHANGED heap
    BY DEF MapInsert, Has, Building, Halfway, Actors
  <1>6. /\ heap[m] # NoMap /\ heap[m].mappings # "junk"
        /\ \A q \in RefSlots, l \in Kinds : ~Listed(m, q, l)
    BY <1>5 DEF BuiltAlone, Stage
  <1>7. \A j \in 1..Len(s) : /\ heap[s[j]] # NoMap /\ heap[s[j]].type = k
                                /\ heap[s[j]].mappings # "junk"
    BY <1>1, <1>2 DEF ListsAllocated
  <1>8. heap[m].vaddr \in Nat /\ \A j \in 1..Len(s) : heap[s[j]].vaddr \in Nat /\ s[j] # m
    <2>1. heap[m].vaddr \in Nat
      BY <1>1, MapFacts
    <2>2. ASSUME NEW j \in 1..Len(s) PROVE heap[s[j]].vaddr \in Nat /\ s[j] # m
      <3>1. s[j] \in MapIds
        BY <1>4
      <3>2. heap[s[j]] \in MapType
        BY <1>7, <3>1 DEF TypeOK
      <3>3. Contains(s, s[j])
        BY DEF Contains
      <3> QED  BY <1>1, <1>2, <1>6, <3>2, <3>3, MapFacts DEF Listed
    <2> QED  BY <2>1, <2>2
  <1>9. /\ \A j, l \in 1..Len(s) : j < l => heap[s[j]].vaddr <= heap[s[l]].vaddr
        /\ \A j, l \in 1..Len(s) : s[j] = s[l] => j = l
    <2>1. \A j, l \in 1..Len(s) : j < l => heap[s[j]].vaddr <= heap[s[l]].vaddr
      <3>1. \A j, l \in 1..Len(MapList(r, k)) :
               j < l => heap[MapList(r, k)[j]].vaddr <= heap[MapList(r, k)[l]].vaddr
        BY <1>a DEF ListsSorted
      <3> QED  BY <1>2, <3>1
    <2>2. \A j, l \in 1..Len(s) : s[j] = s[l] => j = l
      <3>1. \A j, l \in 1..Len(MapList(r, k)) : MapList(r, k)[j] = MapList(r, k)[l] => j = l
        BY <1>a DEF ListedOnce
      <3> QED  BY <1>2, <3>1
    <2> QED  BY <2>1, <2>2
  <1>10. /\ \A j \in 1..Len(u) : u[j] = m \/ \E l \in 1..Len(s) : u[j] = s[l]
         /\ \A j, l \in 1..Len(u) : j < l => heap[u[j]].vaddr <= heap[u[l]].vaddr
         /\ \A j, l \in 1..Len(u) : u[j] = u[l] => j = l
         /\ \A x : Contains(u, x) <=> x = m \/ Contains(s, x)
    <2>1. Fits(s, i, m) /\ u = InsertAt(s, i, m) /\ m \in MapIds /\ heap[m].vaddr \in Nat
      BY <1>a, <1>3, <1>8 DEF Fits
    <2>2. Sorted(s) /\ OnceEach(s)
      BY <1>9 DEF Sorted, OnceEach
    <2>3. /\ \A j \in 1..Len(u) : u[j] = m \/ Contains(s, u[j])
          /\ Sorted(u) /\ OnceEach(u)
          /\ \A x : Contains(u, x) <=> x = m \/ Contains(s, x)
      BY <1>4, <2>1, <2>2, InsertSorted
    <2>4. \A j \in 1..Len(u) : u[j] = m \/ \E l \in 1..Len(s) : u[j] = s[l]
      BY <2>3 DEF Contains
    <2> QED  BY <2>3, <2>4 DEF Sorted, OnceEach
  <1>b. \A x : Contains(u, x) <=> x = m \/ Contains(s, x)
    BY <1>10
  <1>c. MapList(r, k)' = u /\ MapList(r, k) = s
    BY <1>2
  <1>11. \A j \in 1..Len(u) : heap[u[j]] # NoMap /\ heap[u[j]].type = k
        /\ heap[u[j]].mappings # "junk"
    BY <1>6, <1>7, <1>10
  <1>12. ListsAllocated'
    <2> SUFFICES ASSUME NEW q \in RefSlots, NEW l \in Kinds, NEW j \in 1..Len(MapList(q, l)')
                 PROVE  /\ heap'[MapList(q, l)'[j]] # NoMap /\ heap'[MapList(q, l)'[j]].type = l
                        /\ heap'[MapList(q, l)'[j]].mappings # "junk"
      BY DEF ListsAllocated
    <2>1. CASE q = r /\ l = k
      BY <1>2, <1>5, <1>11, <2>1
    <2>2. CASE q # r \/ l # k
      <3>1. MapList(q, l)' = MapList(q, l)
        BY <1>1, <2>2
      <3> QED  BY <1>5, <3>1 DEF ListsAllocated
    <2> QED  BY <2>1, <2>2
  <1>13. ListsSorted'
    <2> SUFFICES ASSUME NEW q \in RefSlots, NEW l \in Kinds, NEW j \in 1..Len(MapList(q, l)'),
                        NEW h \in 1..Len(MapList(q, l)'), j < h
                 PROVE  heap'[MapList(q, l)'[j]].vaddr <= heap'[MapList(q, l)'[h]].vaddr
      BY DEF ListsSorted
    <2>1. CASE q = r /\ l = k
      <3>1. MapList(q, l)' = u /\ heap' = heap
        BY <1>2, <1>5, <2>1
      <3>2. heap[u[j]].vaddr <= heap[u[h]].vaddr
        BY <1>10, <3>1
      <3> QED  BY <3>1, <3>2
    <2>2. CASE q # r \/ l # k
      <3>1. MapList(q, l)' = MapList(q, l)
        BY <1>1, <2>2
      <3> QED  BY <1>5, <3>1 DEF ListsSorted
    <2> QED  BY <2>1, <2>2
  <1>14. ASSUME NEW q \in RefSlots, NEW l \in Kinds, NEW x \in MapIds
         PROVE  Contains(MapList(q, l)', x) <=> (x = m /\ q = r /\ l = k) \/ Listed(x, q, l)
    <2>1. CASE q = r /\ l = k
      <3>1. MapList(q, l)' = u /\ MapList(q, l) = s
        BY <1>c, <2>1
      <3> QED  BY <1>b, <2>1, <3>1 DEF Listed
    <2>2. CASE q # r \/ l # k
      <3>1. MapList(q, l)' = MapList(q, l)
        BY <1>1, <2>2
      <3> QED  BY <2>2, <3>1 DEF Listed
    <2> QED  BY <2>1, <2>2
  <1>15. ListedOnce'
    <2>1. ASSUME NEW q \in RefSlots, NEW l \in Kinds, NEW j \in 1..Len(MapList(q, l)'),
                 NEW h \in 1..Len(MapList(q, l)'), MapList(q, l)'[j] = MapList(q, l)'[h]
          PROVE  j = h
      <3>1. CASE q = r /\ l = k
        <4>1. MapList(q, l)' = u
          BY <1>2, <3>1
        <4> QED  BY <1>10, <2>1, <4>1
      <3>2. CASE q # r \/ l # k
        <4>1. MapList(q, l)' = MapList(q, l)
          BY <1>1, <3>2
        <4> QED  BY <2>1, <4>1 DEF ListedOnce
      <3> QED  BY <3>1, <3>2
    <2>2. ASSUME NEW x \in MapIds, NEW q \in RefSlots, NEW p \in RefSlots, NEW l \in Kinds,
          NEW h \in Kinds,
                 Contains(MapList(q, l)', x), Contains(MapList(p, h)', x)
          PROVE  q = p /\ l = h
      <3>1. CASE x = m
        BY <1>6, <1>14, <2>2, <3>1
      <3>2. CASE x # m
        BY <1>14, <2>2, <3>2 DEF ListedOnce
      <3> QED  BY <3>1, <3>2
    <2> QED  BY <2>1, <2>2 DEF ListedOnce, Listed
  <1>16. \A x \in MapIds : Contains(MapList(r, k)', x) <=> x = m \/ Contains(MapList(r, k), x)
    BY <1>b, <1>c
  <1> QED  BY <1>1, <1>12, <1>13, <1>15, <1>16

\* The lists after descriptor m was taken out and freed.
LEMMA ListsUnlinked ==
    ASSUME TypeOK, ListsAllocated, ListsSorted, ListedOnce, NEW m \in MapIds,
           \A s \in RefSlots, k \in Kinds : MapList(s, k)' = Unlink(MapList(s, k), m),
           \A x \in MapIds : x # m => heap'[x] = heap[x]
    PROVE  /\ ListsAllocated' /\ ListsSorted' /\ ListedOnce'
           /\ \A s \in RefSlots, k \in Kinds, x \in MapIds :
                 Contains(MapList(s, k)', x) <=> x # m /\ Listed(x, s, k)
  <1>1. ASSUME NEW s \in RefSlots, NEW k \in Kinds
        PROVE  /\ MapList(s, k) \in Seq(MapIds) /\ MapList(s, k)' \in Seq(MapIds)
               /\ ~Contains(MapList(s, k)', m)
               /\ \A x \in MapIds : x # m
                     => (Contains(MapList(s, k)', x) <=> Contains(MapList(s, k), x))
               /\ \A i \in 1..Len(MapList(s, k)') : \E j \in 1..Len(MapList(s, k)) :
                     MapList(s, k)'[i] = MapList(s, k)[j] /\ MapList(s, k)[j] # m
               /\ \A i, j \in 1..Len(MapList(s, k)') : i < j =>
                     \E h, l \in 1..Len(MapList(s, k)) :
                         h < l /\ MapList(s, k)'[i] = MapList(s, k)[h]
                               /\ MapList(s, k)'[j] = MapList(s, k)[l]
    <2>1. PICK v, u : v = MapList(s, k) /\ u = MapList(s, k)'
      OBVIOUS
    <2>2. v \in Seq(MapIds) /\ u = Unlink(v, m)
      BY <2>1, RefFacts
    <2>3. \A i, j \in 1..Len(v) : v[i] = v[j] => i = j
      BY <2>1 DEF ListedOnce
    <2>4. /\ u \in Seq(MapIds) /\ ~Contains(u, m)
          /\ \A x \in MapIds : x # m => (Contains(u, x) <=> Contains(v, x))
          /\ \A i \in 1..Len(u) : \E j \in 1..Len(v) : u[i] = v[j] /\ v[j] # m
          /\ \A i, j \in 1..Len(u) : i < j
                => \E h, l \in 1..Len(v) : h < l /\ u[i] = v[h] /\ u[j] = v[l]
      <3>1. /\ Unlink(v, m) \in Seq(MapIds) /\ ~Contains(Unlink(v, m), m)
            /\ \A x \in MapIds : x # m => (Contains(Unlink(v, m), x) <=> Contains(v, x))
        BY <2>2, <2>3, UnlinkFacts
      <3>2. /\ \A i \in 1..Len(Unlink(v, m)) : \E j \in 1..Len(v) : Unlink(v, m)[i] = v[j]
               /\ v[j] # m
            /\ \A i, j \in 1..Len(Unlink(v, m)) : i < j =>
                  \E h, l \in 1..Len(v) : h < l /\ Unlink(v, m)[i] = v[h] /\ Unlink(v, m)[j] = v[l]
        BY <2>2, <2>3, UnlinkFacts
      <3>3. /\ u \in Seq(MapIds) /\ ~Contains(u, m)
            /\ \A x \in MapIds : x # m => (Contains(u, x) <=> Contains(v, x))
        BY <2>2, <3>1
      <3>4. \A i \in 1..Len(u) : \E j \in 1..Len(v) : u[i] = v[j] /\ v[j] # m
        BY <2>2, <3>2
      <3>5. \A i, j \in 1..Len(u) : i < j
            => \E h, l \in 1..Len(v) : h < l /\ u[i] = v[h] /\ u[j] = v[l]
        BY <2>2, <3>2
      <3> QED  BY <3>3, <3>4, <3>5
    <2> QED  BY <2>1, <2>2, <2>4
  <1>2. ListsAllocated'
    <2> SUFFICES ASSUME NEW q \in RefSlots, NEW l \in Kinds, NEW i \in 1..Len(MapList(q, l)')
                 PROVE  /\ heap'[MapList(q, l)'[i]] # NoMap /\ heap'[MapList(q, l)'[i]].type = l
                        /\ heap'[MapList(q, l)'[i]].mappings # "junk"
      BY DEF ListsAllocated
    <2>1. PICK j \in 1..Len(MapList(q, l)) : MapList(q, l)'[i] = MapList(q, l)[j]
          /\ MapList(q, l)[j] # m
      BY <1>1
    <2>2. MapList(q, l)[j] \in MapIds
      BY <1>1
    <2>3. heap'[MapList(q, l)[j]] = heap[MapList(q, l)[j]]
      BY <2>1, <2>2
    <2> QED  BY <2>1, <2>3 DEF ListsAllocated
  <1>3. ListsSorted'
    <2> SUFFICES ASSUME NEW q \in RefSlots, NEW l \in Kinds, NEW i \in 1..Len(MapList(q, l)'),
                        NEW j \in 1..Len(MapList(q, l)'), i < j
                 PROVE  heap'[MapList(q, l)'[i]].vaddr <= heap'[MapList(q, l)'[j]].vaddr
      BY DEF ListsSorted
    <2>1. PICK y, z \in 1..Len(MapList(q, l)) :
             y < z /\ MapList(q, l)'[i] = MapList(q, l)[y] /\ MapList(q, l)'[j] = MapList(q, l)[z]
      BY <1>1
    <2>2. MapList(q, l)[y] \in MapIds /\ MapList(q, l)[z] \in MapIds
      BY <1>1
    <2>3. MapList(q, l)[y] # m /\ MapList(q, l)[z] # m
      <3>1. ~Contains(MapList(q, l)', m)
        BY <1>1
      <3> QED  BY <2>1, <3>1 DEF Contains
    <2>4. heap[MapList(q, l)[y]].vaddr <= heap[MapList(q, l)[z]].vaddr
      BY <2>1 DEF ListsSorted
    <2> QED  BY <2>1, <2>2, <2>3, <2>4
  <1>4. \A s \in RefSlots, k \in Kinds, x \in MapIds :
            Contains(MapList(s, k)', x) <=> x # m /\ Listed(x, s, k)
    BY <1>1 DEF Listed
  <1>5. ListedOnce'
    <2>1. ASSUME NEW q \in RefSlots, NEW l \in Kinds, NEW i \in 1..Len(MapList(q, l)'),
                 NEW j \in 1..Len(MapList(q, l)'), i < j
          PROVE  MapList(q, l)'[i] # MapList(q, l)'[j]
      <3>1. PICK y, z \in 1..Len(MapList(q, l)) :
               y < z /\ MapList(q, l)'[i] = MapList(q, l)[y] /\ MapList(q, l)'[j] = MapList(q, l)[z]
        BY <1>1, <2>1
      <3>2. y # z
        BY <3>1
      <3>3. MapList(q, l)[y] # MapList(q, l)[z]
        BY <3>2 DEF ListedOnce
      <3> QED  BY <3>1, <3>3
    <2>2. ASSUME NEW q \in RefSlots, NEW l \in Kinds, NEW i \in 1..Len(MapList(q, l)'),
                 NEW j \in 1..Len(MapList(q, l)'), MapList(q, l)'[i] = MapList(q, l)'[j]
          PROVE  i = j
      <3>1. ~(i < j) /\ ~(j < i)
        BY <2>1, <2>2
      <3>2. i \in Nat /\ j \in Nat
        OBVIOUS
      <3> QED  BY <3>1, <3>2
    <2>3. \A x \in MapIds, q, p \in RefSlots, l, h \in Kinds :
             Contains(MapList(q, l)', x) /\ Contains(MapList(p, h)', x) => q = p /\ l = h
      BY <1>4 DEF ListedOnce
    <2> QED  BY <2>2, <2>3 DEF ListedOnce, Listed
  <1> QED  BY <1>2, <1>3, <1>4, <1>5


\* The descriptor that was built is put into its list.
LEMMA MapInsertStep ==
    ASSUME IInv, NEW t \in Tasks, MapInsert(t)
    PROVE  IInv'
  <1>1. /\ TypeOK /\ Pointers /\ DevSlotsOwned /\ PciTaken /\ LoadedInOrder
        /\ FieldsSettled /\ ListsAllocated /\ ListsSorted /\ ListedOnce /\ BuiltAlone
    BY DEF IInv, Always
  <1>2. PICK r, m : r = act[t].ref /\ m = act[t].map
    OBVIOUS
  <1>3. PICK k : k = heap[m].type
    OBVIOUS
  <1>4. /\ r \in RefSlots /\ m \in MapIds /\ k \in Kinds
        /\ refs' \in [RefSlots -> RefType]
        /\ \A q \in RefSlots : /\ refs'[q].used = refs[q].used /\ refs'[q].ctrl = refs[q].ctrl
                               /\ refs'[q].owner = refs[q].owner
        /\ \A q \in RefSlots, l \in Kinds : q # r \/ l # k => MapList(q, l)' = MapList(q, l)
        /\ \A x \in MapIds : Contains(MapList(r, k)', x) <=> x = m \/ Contains(MapList(r, k), x)
        /\ ListsAllocated' /\ ListsSorted' /\ ListedOnce'
    BY <1>1, <1>2, <1>3, ListsInserted
  <1>5. /\ act' \in [Actors -> Place] /\ Pointers' /\ t \in Actors
        /\ \A b \in Actors : b # t => act'[b] = act[b]
        /\ act[t].pc = "insert" /\ act'[t].pc = "idle" /\ act'[t].map = NoId
    BY <1>1, OpenPlaces
  <1>6. UNCHANGED <<mod, held, devs, heap, pci, file, fault>> /\ Note
    BY DEF MapInsert
  <1>7. /\ Moves(t) /\ Has(t) /\ ~Has(t)' /\ Idle(t)' /\ ~Idle(t)
        /\ Holding(t) /\ Owning(t) /\ ~Holding(t)'
    BY <1>5 DEF Moves, Has, Building, Halfway, Idle, Holding, Owning
  <1>8. Knows(t)' /\ mod = Loaded
    BY <1>1, <1>5, InModule DEF Knows, Holding, Owning, Dropping
  <1>9. TypeOK'
    BY <1>1, <1>4, <1>5, <1>6, NoteFacts DEF TypeOK
  <1>10. DevSlotsOwned' /\ PciTaken' /\ LoadedInOrder'
    BY <1>1, <1>5, <1>6, <1>7, <1>8, DevFrame
  <1>11. FieldsSettled'
    BY <1>1, <1>6 DEF FieldsSettled
  <1>12. ASSUME NEW x \in MapIds, NEW q \in RefSlots, NEW l \in Kinds
         PROVE  Listed(x, q, l)' <=> Listed(x, q, l) \/ (x = m /\ q = r /\ l = k)
    <2>1. CASE q = r /\ l = k
      BY <1>4, <2>1 DEF Listed
    <2>2. CASE q # r \/ l # k
      <3>1. MapList(q, l)' = MapList(q, l)
        BY <1>4, <2>2
      <3> QED  BY <2>2, <3>1 DEF Listed
    <2> QED  BY <2>1, <2>2
  <1>13. BuiltAlone'
    <2>1. \A x \in MapIds, q \in RefSlots, l \in Kinds : Listed(x, q, l)'
          => Listed(x, q, l) \/ x = act[t].map
      BY <1>2, <1>12
    <2> QED  BY <1>1, <1>5, <1>6, <1>7, <2>1, BuiltFrame
  <1>14. Always'
    BY <1>4, <1>5, <1>9, <1>10, <1>11, <1>13 DEF Always
  <1>15. ASSUME Quiet, ~Racing' PROVE Quiet'
    <2>1. (\A b \in Actors : Knows(b)) /\ OneHolder /\ NoneLost /\ DevicesThere /\ RefsSound
          /\ fault = "none"
      BY <1>15 DEF Quiet
    <2>2. \A s \in RefSlots : s # r => SameRef(s)
      BY <1>4 DEF SameRef
    <2>3. \A b \in Actors : b # t /\ Holding(b) => act[b].ref # r
      BY <1>2, <1>5, <1>7, <2>1 DEF OneHolder
    <2>4. (\A b \in Actors : Knows(b)') /\ OneHolder'
      BY <1>1, <1>5, <1>7, <1>8, <2>1, <2>2, <2>3, KnowsFrame
    <2>5. DevicesThere'
      BY <1>1, <1>5, <1>6, <1>7, <2>1, ThereFrame
    <2>6. NoneLost'
      <3>1. \A x \in MapIds, q \in RefSlots, l \in Kinds :
               heap'[x] # NoMap /\ Listed(x, q, l)
                     => \E s \in RefSlots, h \in Kinds : Listed(x, s, h)'
        BY <1>12
      <3>2. Contains(MapList(r, k)', act[t].map)
        BY <1>2, <1>4
      <3> QED  BY <1>1, <1>4, <1>5, <1>6, <1>7, <2>1, <3>1, <3>2, LostFrame
    <2>7. refs[r].ctrl # 0
      <3>1. refs[r].ctrl = act[t].dev
        BY <1>2, <1>5, <1>7, <2>1 DEF Knows
      <3>2. act[t].dev \in DevSlots
        BY <1>1, <1>5 DEF Pointers, PlaceOK
      <3> QED  BY <3>1, <3>2, SlotFacts
    <2>8. RefsSound'
      <3> SUFFICES ASSUME NEW s \in RefSlots
                   PROVE  /\ ~refs'[s].used => refs'[s].ctrl = 0
                          /\ refs'[s].ctrl = 0 => refs'[s].owner = NoTask
                                                  /\ \A l \in Kinds : MapList(s, l)' = <<>>
                          /\ refs'[s].ctrl # 0 => devs'[refs'[s].ctrl].chr
        BY DEF RefsSound
      <3>1. CASE s = r
        BY <1>4, <1>6, <2>1, <2>7, <3>1 DEF RefsSound
      <3>2. CASE s # r
        BY <1>4, <1>6, <2>1, <3>2 DEF RefsSound
      <3> QED  BY <3>1, <3>2
    <2> QED  BY <1>6, <1>15, <2>1, <2>4, <2>5, <2>6, <2>8 DEF Quiet
  <1> QED  BY <1>6, <1>14, <1>15, Combine

\* A descriptor is taken out of its list, and freed or about to be unmapped.
LEMMA DropStep ==
    ASSUME IInv, NEW a \in Actors, (a \in Tasks /\ UnmapMemory(a)) \/ PutDrop(a)
    PROVE  IInv'
  <1>1. /\ TypeOK /\ Pointers /\ DevSlotsOwned /\ PciTaken /\ LoadedInOrder
        /\ FieldsSettled /\ ListsAllocated /\ ListsSorted /\ ListedOnce /\ BuiltAlone
    BY DEF IInv, Always
  <1>2. PICK m, r : m = act[a].map /\ r = act[a].ref
    OBVIOUS
  <1>3. /\ m \in MapIds /\ act[a].pc \in {"unmap", "drop"}
        /\ act' \in [Actors -> Place] /\ Pointers'
        /\ \A b \in Actors : b # a => act'[b] = act[b]
        /\ UNCHANGED <<mod, held, devs, pci, file>> /\ Note
        /\ \/ /\ Again(a, m) /\ fault' # "none" /\ UNCHANGED <<refs, heap>>
              /\ act'[a].pc = "dead" /\ act'[a].dev = act[a].dev /\ act'[a].map = act[a].map
           \/ /\ ~Again(a, m) /\ UNCHANGED fault
              /\ refs' \in [RefSlots -> RefType]
              /\ \A s \in RefSlots : /\ refs'[s].used = refs[s].used /\ refs'[s].ctrl = refs[s].ctrl
                                     /\ refs'[s].owner = refs[s].owner
              /\ \A s \in RefSlots, k \in Kinds : MapList(s, k)' = Unlink(MapList(s, k), m)
              /\ \/ /\ heap' = [heap EXCEPT ![m] = NoMap] /\ act'[a].map = NoId
                    /\ \/ a \in Tasks /\ act'[a].pc = "idle"
                       \/ /\ act'[a].pc = "put" /\ act'[a].dev = act[a].dev
                          /\ act'[a].ref = act[a].ref
                 \/ /\ UNCHANGED heap /\ heap[m].type = "gpu" /\ act'[a].map = m
                    /\ act'[a].pc = "dma" /\ act'[a].dev = act[a].dev
                    /\ act'[a].ref = act[a].ref
    BY <1>1, <1>2, DropEffect
  <1>4. /\ Moves(a) /\ r \in RefSlots /\ act[a].dev \in DevSlots /\ (a \in Tasks \/ a \in Pdevs)
        /\ ~Has(a) /\ Dropping(a) /\ Holding(a) /\ Owning(a) /\ ~Idle(a)
    BY <1>1, <1>2, <1>3 DEF Moves, Pointers, PlaceOK, Actors, Has, Building, Halfway,
        Dropping,
        Holding, Owning, Idle
  <1>5. a \in Tasks => mod = Loaded
    BY <1>1, <1>3, InModule
  <1>6. a \in Pdevs => act[a].pc = "drop"
    <2>1. a \in Pdevs => act[a].pc \in DevicePcs
      BY <1>1, KernelAssumption DEF Pointers, PlaceOK, Actors
    <2> QED  BY <1>3, <2>1 DEF DevicePcs
  <1>7. after' \in 0..MaxAfterRace
    BY <1>1, <1>3, NoteFacts
  <1>8. CASE /\ Again(a, m) /\ fault' # "none" /\ UNCHANGED <<refs, heap>>
             /\ act'[a].pc = "dead" /\ act'[a].dev = act[a].dev /\ act'[a].map = act[a].map
    <2>1. TypeOK'
      BY <1>1, <1>3, <1>7, <1>8 DEF TypeOK
    <2>2. ~Has(a)'
      BY <1>8 DEF Has, Building, Halfway
    <2>3. DevSlotsOwned' /\ PciTaken' /\ LoadedInOrder'
      BY <1>1, <1>3, <1>4, <1>5, <1>6, <1>8, DevFrame
    <2>4. \A s \in RefSlots, k \in Kinds : MapList(s, k)' = MapList(s, k)
      BY <1>8 DEF MapList
    <2>5. ListsAllocated' /\ ListsSorted' /\ ListedOnce'
      BY <1>1, <1>8, <2>4, ListFrame
    <2>6. BuiltAlone'
      <3>1. \A x \in MapIds, s \in RefSlots, k \in Kinds : Listed(x, s, k)' => Listed(x, s, k)
        BY <2>4 DEF Listed
      <3> QED  BY <1>1, <1>4, <1>8, <2>2, <3>1, BuiltFrame
    <2>7. FieldsSettled'
      BY <1>1, <1>8 DEF FieldsSettled
    <2>8. Always'
      BY <1>3, <2>1, <2>3, <2>5, <2>6, <2>7 DEF Always
    <2>9. ~Quiet
      <3> SUFFICES ASSUME Quiet PROVE FALSE
        OBVIOUS
      <3>1. PICK k \in Kinds : Listed(m, r, k)
        BY <1>2, <1>4 DEF Quiet, Knows
      <3>2. CASE heap[m] = NoMap
        BY <1>1, <1>3, <1>4, <3>1, <3>2, FreeUnlisted
      <3>3. CASE \E b \in Actors : Halfway(b) /\ act[b].map = m
        <4>1. PICK b \in Actors : Halfway(b) /\ act[b].map = m
          BY <3>3
        <4>2. ~Listed(act[b].map, r, k)
          BY <1>1, <1>4, <4>1 DEF BuiltAlone, Has
        <4> QED  BY <3>1, <4>1, <4>2
      <3> QED  BY <1>8, <3>2, <3>3 DEF Again
    <2> QED  BY <1>3, <2>8, <2>9, Combine
  <1>9. CASE /\ ~Again(a, m) /\ UNCHANGED fault
             /\ refs' \in [RefSlots -> RefType]
             /\ \A s \in RefSlots : /\ refs'[s].used = refs[s].used /\ refs'[s].ctrl = refs[s].ctrl
                                    /\ refs'[s].owner = refs[s].owner
             /\ \A s \in RefSlots, k \in Kinds : MapList(s, k)' = Unlink(MapList(s, k), m)
             /\ \/ /\ heap' = [heap EXCEPT ![m] = NoMap] /\ act'[a].map = NoId
                   /\ \/ a \in Tasks /\ act'[a].pc = "idle"
                      \/ /\ act'[a].pc = "put" /\ act'[a].dev = act[a].dev
                         /\ act'[a].ref = act[a].ref
                \/ /\ UNCHANGED heap /\ heap[m].type = "gpu" /\ act'[a].map = m
                   /\ act'[a].pc = "dma" /\ act'[a].dev = act[a].dev
                   /\ act'[a].ref = act[a].ref
    <2>1. /\ heap' \in [MapIds -> MapType \union {NoMap}]
          /\ \A x \in MapIds : heap'[x] # NoMap =>
                heap'[x].pages <= heap'[x].asked /\ heap'[x].addrs <= heap'[x].asked
          /\ FieldsSettled'
          /\ \A x \in MapIds : x # m => heap'[x] = heap[x]
          /\ \A x \in MapIds : heap'[x] # NoMap => heap[x] # NoMap
          /\ heap'[m] = NoMap \/ act'[a].pc = "dma"
      <3>1. CASE heap' = [heap EXCEPT ![m] = NoMap]
        <4>1. /\ heap' \in [MapIds -> MapType \union {NoMap}]
              /\ \A x \in MapIds : heap'[x] # NoMap =>
                    heap'[x].pages <= heap'[x].asked /\ heap'[x].addrs <= heap'[x].asked
              /\ FieldsSettled'
              /\ heap'[m] = NoMap /\ \A x \in MapIds : x # m => heap'[x] = heap[x]
          BY <1>1, <1>3, <3>1, HeapStep
        <4> QED  BY <4>1
      <3>2. CASE UNCHANGED heap /\ act'[a].pc = "dma"
        BY <1>1, <3>2 DEF TypeOK, FieldsSettled
      <3> QED  BY <1>9, <3>1, <3>2
    <2>2. TypeOK'
      BY <1>1, <1>3, <1>7, <1>9, <2>1 DEF TypeOK
    <2>3. DevSlotsOwned' /\ PciTaken' /\ LoadedInOrder'
      BY <1>1, <1>3, <1>4, <1>5, <1>6, <1>9, DevFrame
    <2>4. /\ ListsAllocated' /\ ListsSorted' /\ ListedOnce'
          /\ \A s \in RefSlots, k \in Kinds, x \in MapIds :
                Contains(MapList(s, k)', x) <=> x # m /\ Listed(x, s, k)
      BY <1>1, <1>3, <1>9, <2>1, ListsUnlinked
    <2>5. \A b \in Actors : b # a /\ Has(b) => act[b].map # m
      BY <1>1, <1>2, <1>4, <1>9 DEF Again, BuiltAlone, Has
    <2>6. BuiltAlone'
      <3>1. \A x \in MapIds, s \in RefSlots, k \in Kinds : Listed(x, s, k)'
            => Listed(x, s, k) /\ x # m
        BY <2>4 DEF Listed
      <3>2. \A x \in MapIds : heap'[x] = heap[x] \/ x = act[a].map
        BY <1>2, <2>1
      <3>3. CASE act'[a].pc \in {"idle", "put"} /\ act'[a].map = NoId
        <4>1. ~Has(a)'
          BY <3>3 DEF Has, Building, Halfway
        <4>2. \A b \in Actors : b # a /\ Halfway(b) => act[b].map # act[a].map
          BY <1>2, <2>5 DEF Has
        <4> QED  BY <1>1, <1>4, <3>1, <3>2, <3>3, <4>1, <4>2, BuiltFrame
      <3>4. CASE UNCHANGED heap /\ heap[m].type = "gpu" /\ act'[a].map = m /\ act'[a].pc = "dma"
        <4>1. ~Building(a)'
          BY <3>4 DEF Building
        <4>2. heap[m] # NoMap
          BY <1>9 DEF Again
        <4>3. Stage(act'[a].pc, heap'[m])
          BY <3>4, <4>2 DEF Stage
        <4> QED  BY <1>1, <1>3, <1>4, <2>1, <2>5, <3>1, <3>4, <4>1, <4>3, BuiltStep
      <3> QED  BY <1>9, <3>3, <3>4
    <2>7. Always'
      BY <1>3, <2>1, <2>2, <2>3, <2>4, <2>6 DEF Always
    <2>8. ASSUME Quiet, ~Racing' PROVE Quiet'
      <3>1. (\A b \in Actors : Knows(b)) /\ OneHolder /\ NoneLost /\ DevicesThere /\ RefsSound
            /\ fault = "none"
        BY <2>8 DEF Quiet
      <3>2. PICK l \in Kinds : Listed(m, r, l)
        BY <1>2, <1>4, <3>1 DEF Knows
      <3>3. \A s \in RefSlots, k \in Kinds : MapList(s, k)' = MapList(s, k) \/ s = r
        <4> SUFFICES ASSUME NEW s \in RefSlots, NEW k \in Kinds, s # r
              PROVE MapList(s, k)' = MapList(s, k)
          OBVIOUS
        <4>1. ~Listed(m, s, k)
          BY <1>1, <1>3, <1>4, <3>2 DEF ListedOnce
        <4>2. ~Contains(MapList(s, k), m)
          BY <4>1 DEF Listed
        <4> QED  BY <1>9, <4>2 DEF Unlink
      <3>4. \A s \in RefSlots : s # r => SameRef(s)
        BY <1>9, <3>3 DEF SameRef
      <3>5. \A b \in Actors : b # a /\ Holding(b) => act[b].ref # r
        BY <1>2, <1>4, <3>1 DEF OneHolder
      <3>6. /\ refs[r].used /\ refs[r].ctrl = act[a].dev /\ (a \in Tasks => refs[r].owner = a)
        BY <1>2, <1>4, <3>1 DEF Knows
      <3>7. refs'[r].used /\ refs'[r].ctrl = act[a].dev /\ (a \in Tasks => refs'[r].owner = a)
        BY <1>4, <1>9, <3>6
      <3>8. Knows(a)' /\ (Holding(a)' => act'[a].ref = r)
        <4>1. CASE act'[a].pc = "idle"
          BY <4>1 DEF Knows, Holding, Owning, Dropping
        <4>2. CASE act'[a].pc = "put" /\ act'[a].dev = act[a].dev /\ act'[a].ref = act[a].ref
          BY <1>2, <3>7, <4>2 DEF Knows, Holding, Owning, Dropping
        <4>3. CASE act'[a].pc = "dma" /\ act'[a].dev = act[a].dev /\ act'[a].ref = act[a].ref
          BY <1>2, <3>7, <4>3 DEF Knows, Holding, Owning, Dropping
        <4> QED  BY <1>9, <4>1, <4>2, <4>3
      <3>9. (\A b \in Actors : Knows(b)') /\ OneHolder'
        BY <1>1, <1>4, <3>1, <3>4, <3>5, <3>8, KnowsFrame
      <3>10. DevicesThere'
        <4>1. a \in Tasks /\ ~Idle(a)' => devs'[act'[a].dev].chr
          BY <1>3, <1>4, <1>9, <3>1 DEF DevicesThere, Idle
        <4> QED  BY <1>1, <1>3, <1>4, <3>1, <4>1, ThereFrame
      <3>11. NoneLost'
        <4>1. ASSUME NEW x \in MapIds, NEW s \in RefSlots, NEW k \in Kinds,
                     heap'[x] # NoMap, Listed(x, s, k)
              PROVE  \/ \E q \in RefSlots, h \in Kinds : Listed(x, q, h)'
                     \/ Has(a)' /\ act'[a].map = x
          <5>1. CASE x # m
            BY <2>4, <4>1, <5>1 DEF Listed
          <5>2. CASE x = m
            <6>1. act'[a].pc = "dma" /\ act'[a].map = m
              BY <1>9, <2>1, <4>1, <5>2
            <6> QED  BY <5>2, <6>1 DEF Has, Halfway
          <5> QED  BY <5>1, <5>2
        <4> QED  BY <1>1, <1>4, <2>1, <3>1, <4>1, LostFrame
      <3>12. RefsSound'
        <4> SUFFICES ASSUME NEW s \in RefSlots
                     PROVE  /\ ~refs'[s].used => refs'[s].ctrl = 0
                            /\ refs'[s].ctrl = 0 => refs'[s].owner = NoTask
                                                    /\ \A k \in Kinds : MapList(s, k)' = <<>>
                            /\ refs'[s].ctrl # 0 => devs'[refs'[s].ctrl].chr
          BY DEF RefsSound
        <4>1. CASE s = r
          <5>1. refs'[r].ctrl # 0
            BY <1>4, <3>7, SlotFacts
          <5> QED  BY <1>3, <1>9, <3>1, <4>1, <5>1 DEF RefsSound
        <4>2. CASE s # r
          BY <1>3, <1>9, <3>1, <3>3, <4>2 DEF RefsSound
        <4> QED  BY <4>1, <4>2
      <3> QED  BY <1>9, <2>8, <3>1, <3>9, <3>10, <3>11, <3>12 DEF Quiet
    <2> QED  BY <1>3, <2>7, <2>8, Combine
  <1> QED  BY <1>3, <1>8, <1>9

\* The pages of a GPU's descriptor are unmapped, and put back: the actor has the
\* descriptor alone.
LEMMA HalfStep ==
    ASSUME IInv, NEW a \in Actors, UnmapDma(a) \/ UnmapPut(a)
    PROVE  IInv'
  <1>1. /\ TypeOK /\ Pointers /\ DevSlotsOwned /\ PciTaken /\ LoadedInOrder
        /\ FieldsSettled /\ ListsAllocated /\ ListsSorted /\ ListedOnce /\ BuiltAlone
    BY DEF IInv, Always
  <1>2. PICK m, r : m = act[a].map /\ r = act[a].ref
    OBVIOUS
  <1>3. /\ act[a].pc \in {"dma", "pages"} /\ UNCHANGED <<mod, held, devs, refs, pci, file>> /\ Note
    BY DEF UnmapDma, UnmapPut, Crash
  <1>4. /\ Has(a) /\ Halfway(a) /\ ~Building(a) /\ Holding(a) /\ Owning(a)
        /\ a \in Tasks => ~Idle(a) /\ mod = Loaded
    <2>1. a \in Tasks => mod = Loaded
      BY <1>1, <1>3, InModule
    <2> QED  BY <1>3, <2>1 DEF Has, Halfway, Building, Holding, Owning, Idle
  <1>5. m \in MapIds /\ r \in RefSlots /\ act[a].dev \in DevSlots
    BY <1>1, <1>2, <1>3 DEF Pointers, PlaceOK
  <1>6. /\ Stage(act[a].pc, heap[m])
        /\ \A b \in Actors : b # a /\ Has(b) => act[b].map # m
        /\ \A s \in RefSlots, k \in Kinds : ~Listed(m, s, k)
    BY <1>1, <1>2, <1>4 DEF BuiltAlone
  <1>7. heap[m] \in MapType /\ Settled(heap[m]) /\ heap[m].type = "gpu"
        /\ heap[m].pages <= heap[m].asked /\ heap[m].addrs <= heap[m].asked
    BY <1>1, <1>3, <1>5, <1>6 DEF TypeOK, FieldsSettled, Stage
  <1>8. \A s \in RefSlots, k \in Kinds : MapList(s, k)' = MapList(s, k)
    BY <1>3 DEF MapList
  <1>9. \A x \in MapIds, s \in RefSlots, k \in Kinds : Listed(x, s, k)' <=> Listed(x, s, k)
    BY <1>8 DEF Listed
  <1>10. a \in Tasks \/ a \in Pdevs
    BY DEF Actors
  <1>11. ASSUME Quiet, Moves(a), act'[a].dev = act[a].dev, act'[a].ref = r,
                act'[a].pc \in {"put", "pages"}
         PROVE  /\ Knows(a)' /\ (a \in Tasks => devs[act'[a].dev].chr)
                /\ \A b \in Actors : b # a /\ Holding(b) => act[b].ref # act'[a].ref
    <2>1. /\ refs[r].used /\ refs[r].ctrl = act[a].dev /\ (a \in Tasks => refs[r].owner = a)
      BY <1>2, <1>4, <1>11 DEF Quiet, Knows
    <2>2. Knows(a)'
      BY <1>3, <1>11, <2>1 DEF Knows, Holding, Owning, Dropping
    <2>3. a \in Tasks => devs[act'[a].dev].chr
      BY <1>4, <1>11 DEF Quiet, DevicesThere
    <2> QED  BY <1>2, <1>4, <1>11, <2>2, <2>3 DEF Quiet, OneHolder
  <1>12. CASE act[a].pc = "dma" /\ heap[m].pinned = 0 /\ Crash(a, "mapping gone")
    <2>1. /\ act' \in [Actors -> Place] /\ Pointers' /\ act'[a].pc = "dead"
             /\ act'[a].dev = act[a].dev
          /\ act'[a].map = act[a].map /\ \A b \in Actors : b # a => act'[b] = act[b]
      BY <1>1, <1>12, HalfPlace DEF Crash
    <2>2. /\ UNCHANGED heap /\ Moves(a) /\ ~Has(a)'
      BY <1>12, <2>1 DEF Crash, Moves, Has, Building, Halfway
    <2>3. heap' = [heap EXCEPT ![m] = heap[m]]
      BY <1>1, <1>5, <2>2 DEF TypeOK
    <2>4. BuiltAlone'
      BY <1>1, <1>4, <1>9, <2>1, <2>2, BuiltFrame
    <2>5. Racing
      BY <1>2, <1>4, <1>12 DEF Racing
    <2>6. ~Quiet
      BY <2>5 DEF Quiet
    <2>7. heap[m] \in MapType \union {NoMap}
      BY <1>7
    <2> QED  BY <1>3, <1>4, <1>5, <1>6, <1>7, <1>10, <2>1, <2>2, <2>3, <2>4, <2>6, <2>7,
        DescStep
  <1>13. CASE /\ act[a].pc = "dma" /\ heap[m].pinned # 0
              /\ heap' = [heap EXCEPT ![m].mapped = 0] /\ Goto(a, "pages") /\ UNCHANGED fault
    <2>1. /\ act' \in [Actors -> Place] /\ Pointers' /\ act'[a].pc = "pages"
             /\ act'[a].dev = act[a].dev
          /\ act'[a].map = act[a].map /\ act'[a].ref = act[a].ref
          /\ \A b \in Actors : b # a => act'[b] = act[b]
      BY <1>1, <1>13, HalfPlace
    <2>2. Moves(a) /\ Has(a)' /\ ~Building(a)'
      BY <2>1 DEF Moves, Has, Building, Halfway
    <2>3. PICK d : d = [heap[m] EXCEPT !.mapped = 0]
      OBVIOUS
    <2>4. /\ d \in MapType /\ d.mapped = 0 /\ d.type = "gpu" /\ d.pages = heap[m].pages
          /\ d.asked = heap[m].asked /\ d.addrs = heap[m].addrs /\ d.pinned = heap[m].pinned
          /\ d.mappings = heap[m].mappings
      <3>1. 0 \in 0..MaxPages
        BY SlotFacts
      <3> QED  BY <1>7, <2>3, <3>1 DEF MapType
    <2>5. d # NoMap /\ Settled(d) /\ d.pages <= d.asked /\ d.addrs <= d.asked
      BY <1>7, <2>4, MapFacts DEF Settled
    <2>6. heap' = [heap EXCEPT ![m] = d]
      BY <1>13, <2>3
    <2>7. heap'[m] = d /\ \A x \in MapIds : x # m => heap'[x] = heap[x]
      BY <1>1, <1>5, <2>6 DEF TypeOK
    <2>8. Stage(act'[a].pc, heap'[m])
      BY <2>1, <2>4, <2>5, <2>7 DEF Stage
    <2>9. BuiltAlone'
      BY <1>1, <1>2, <1>5, <1>6, <1>9, <2>1, <2>2, <2>7, <2>8, BuiltStep
    <2>10. ASSUME Quiet
           PROVE  /\ fault' = "none" /\ Knows(a)' /\ (a \in Tasks => devs[act'[a].dev].chr)
                  /\ \A b \in Actors : b # a /\ Holding(b) => act[b].ref # act'[a].ref
      <3>1. fault' = "none"
        BY <1>13, <2>10 DEF Quiet
      <3> QED  BY <1>2, <1>11, <2>1, <2>2, <2>10, <3>1
    <2>11. d \in MapType \union {NoMap}
      BY <2>4
    <2>12. act[a].pc \in {"scan", "put", "drop", "dma", "pages", "clear"}
           /\ act'[a].pc \in {"scan", "put", "drop", "dma", "pages", "clear", "dead"}
      BY <1>13, <2>1
    <2> QED  BY <1>2, <1>3, <1>4, <1>5, <1>6, <1>10, <2>1, <2>2, <2>5, <2>6, <2>9,
        <2>10, <2>11, <2>12, DescStep
  <1>14. CASE UnmapPut(a)
    <2>1. act[a].pc = "pages" /\ act' = [act EXCEPT ![a] = Return(a)]
          /\ heap' = [heap EXCEPT ![m] = NoMap]
      BY <1>2, <1>14 DEF UnmapPut, Freed
    <2>2. /\ act' \in [Actors -> Place] /\ Pointers'
          /\ \A b \in Actors : b # a => act'[b] = act[b]
          /\ act'[a].map = NoId
          /\ \/ a \in Tasks /\ act'[a].pc = "idle"
             \/ act'[a].pc = "put" /\ act'[a].dev = act[a].dev /\ act'[a].ref = act[a].ref
      BY <1>1, <2>1, ReturnPlace
    <2>3. Moves(a) /\ ~Has(a)'
      BY <2>2 DEF Moves, Has, Building, Halfway
    <2>4. UNCHANGED fault
      <3>1. PICK d : d = [heap[m] EXCEPT !.pinned = heap[m].pinned - heap[m].pages]
        OBVIOUS
      <3>2. d.pinned = heap[m].pinned - heap[m].pages /\ d.mapped = heap[m].mapped
        BY <1>7, <3>1 DEF MapType
      <3>3. heap[m].pinned = heap[m].pages /\ heap[m].mapped = 0 /\ heap[m].pages \in Int
        BY <1>6, <1>7, <2>1 DEF Settled, Stage, MapType
      <3>4. d.pinned = 0 /\ d.mapped = 0
        BY <3>2, <3>3
      <3>5. fault' = IF d.pinned = 0 /\ d.mapped = 0 THEN fault ELSE "pages lost"
        BY <1>2, <1>14, <3>1 DEF UnmapPut, Freed
      <3> QED  BY <3>4, <3>5
    <2>5. \A x \in MapIds : heap'[x] = heap[x] \/ x = act[a].map
      BY <1>1, <1>2, <2>1 DEF TypeOK
    <2>6. BuiltAlone'
      BY <1>1, <1>4, <1>9, <2>2, <2>3, <2>5, BuiltFrame
    <2>7. ASSUME Quiet
           PROVE  /\ fault' = "none" /\ Knows(a)'
                     /\ (a \in Tasks /\ ~Idle(a)' => devs[act'[a].dev].chr)
                  /\ \A b \in Actors : b # a /\ Holding(b) /\ Holding(a)'
                        => act[b].ref # act'[a].ref
      <3>1. fault' = "none"
        BY <2>4, <2>7 DEF Quiet
      <3>2. CASE act'[a].pc = "idle"
        BY <3>1, <3>2 DEF Knows, Holding, Owning, Dropping, Idle
      <3>3. CASE act'[a].pc = "put" /\ act'[a].dev = act[a].dev /\ act'[a].ref = act[a].ref
        BY <1>2, <1>11, <2>3, <2>7, <3>1, <3>3
      <3> QED  BY <2>2, <3>2, <3>3
    <2>8. NoMap \in MapType \union {NoMap}
      OBVIOUS
    <2>9. a \in Pdevs => a \notin Tasks
      BY KernelAssumption
    <2>10. act[a].pc \in {"scan", "put", "drop", "dma", "pages", "clear"}
      BY <2>1
    <2>11. \/ a \in Tasks /\ mod = Loaded
           \/ /\ a \in Pdevs /\ act'[a].dev = act[a].dev
              /\ act[a].pc \in {"scan", "put", "drop", "dma", "pages", "clear"}
              /\ act'[a].pc \in {"scan", "put", "drop", "dma", "pages", "clear", "dead"}
      BY <1>4, <1>10, <2>2, <2>9, <2>10
    <2> QED  BY <1>2, <1>3, <1>5, <1>6, <2>1, <2>2, <2>3, <2>6, <2>7, <2>8, <2>11,
        DescStep
  <1> QED  BY <1>2, <1>12, <1>13, <1>14 DEF UnmapDma

\* The GPU driver takes the pages of descriptor m back.
LEMMA FreedStep ==
    ASSUME IInv, NEW m \in MapIds, free_callback(m)
    PROVE  IInv'
  <1>1. /\ TypeOK /\ Pointers /\ DevSlotsOwned /\ PciTaken /\ LoadedInOrder
        /\ FieldsSettled /\ ListsAllocated /\ ListsSorted /\ ListedOnce /\ BuiltAlone
    BY DEF IInv, Always
  <1>2. /\ heap[m] \in MapType /\ heap[m].type = "gpu" /\ heap[m].pinned # 0
        /\ UNCHANGED <<mod, held, devs, refs, pci, file, act>> /\ Note
        /\ heap[m].mappings # "junk" /\ (~\E a \in Actors : Halfway(a) /\ act[a].map = m)
              => fault' = fault
    BY <1>1, FreedEffect
  <1>3. PICK d \in MapType :
           /\ heap' = [heap EXCEPT ![m] = d] /\ d.type = heap[m].type /\ d.vaddr = heap[m].vaddr
           /\ d.pages <= d.asked /\ d.addrs <= d.asked /\ Settled(d) /\ d.pinned = 0
           /\ d.mapped = 0 /\ d.mappings = "null"
    BY <1>1, FreedEffect
  <1>4. /\ heap' \in [MapIds -> MapType \union {NoMap}]
        /\ \A x \in MapIds : heap'[x] # NoMap =>
              heap'[x].pages <= heap'[x].asked /\ heap'[x].addrs <= heap'[x].asked
        /\ FieldsSettled'
        /\ heap'[m] = d /\ \A x \in MapIds : x # m => heap'[x] = heap[x]
    BY <1>1, <1>3, HeapStep
  <1>5. d # NoMap /\ heap[m] # NoMap
    BY <1>2, MapFacts
  <1>6. TypeOK'
    BY <1>1, <1>2, <1>4, NoteFacts DEF TypeOK
  <1>7. Pointers' /\ DevSlotsOwned' /\ PciTaken' /\ LoadedInOrder'
    <2>1. Pointers'
      BY <1>1, <1>2 DEF Pointers
    <2>2. DevSlotsOwned'
      BY <1>1, <1>2 DEF DevSlotsOwned, SlotOf, Visible
    <2>3. PciTaken'
      BY <1>1, <1>2 DEF PciTaken
    <2>4. LoadedInOrder'
      BY <1>1, <1>2 DEF LoadedInOrder, Idle
    <2> QED  BY <2>1, <2>2, <2>3, <2>4
  <1>8. \A s \in RefSlots, k \in Kinds : MapList(s, k)' = MapList(s, k)
    BY <1>2 DEF MapList
  <1>9. ListsAllocated' /\ ListsSorted' /\ ListedOnce'
    <2>1. \A x \in MapIds : heap'[x] # heap[x] =>
             /\ heap'[x] # NoMap /\ heap'[x].mappings # "junk"
             /\ heap'[x].type = heap[x].type /\ heap'[x].vaddr = heap[x].vaddr
      BY <1>3, <1>4, <1>5
    <2> QED  BY <1>1, <1>8, <2>1, ListFrame
  <1>10. \A x \in MapIds, s \in RefSlots, k \in Kinds : Listed(x, s, k)' <=> Listed(x, s, k)
    BY <1>8 DEF Listed
  <1>11. BuiltAlone'
    <2> SUFFICES ASSUME NEW t \in Actors, Has(t)'
                 PROVE  /\ Stage(act'[t].pc, heap'[act'[t].map])
                        /\ \A b \in Actors : b # t /\ (Building(t)' \/ Has(b)')
                              => act'[b].map # act'[t].map
                        /\ \A r \in RefSlots, k \in Kinds : ~Contains(MapList(r, k)', act'[t].map)
      BY DEF BuiltAlone, Listed
    <2>1. PICK n : n = act[t].map
      OBVIOUS
    <2>2. Has(t) /\ act'[t].map = n /\ act' = act
      BY <1>2, <2>1 DEF Has, Building, Halfway
    <2>3. n \in MapIds
      BY <1>1, <2>1, <2>2 DEF Has, Building, Halfway, Pointers, PlaceOK
    <2>4. /\ Stage(act[t].pc, heap[n])
          /\ (\A b \in Actors : b # t /\ (Building(t) \/ Has(b)) => act[b].map # n)
          /\ \A r \in RefSlots, k \in Kinds : ~Listed(n, r, k)
      BY <1>1, <2>1, <2>2 DEF BuiltAlone
    <2>5. Stage(act[t].pc, heap'[n])
      <3>1. CASE n # m
        BY <1>4, <2>3, <2>4, <3>1
      <3>2. CASE n = m
        <4>1. heap[m].pinned # 0 /\ heap'[n] = d
          BY <1>2, <1>4, <3>2
        <4> QED  BY <1>3, <1>5, <2>4, <3>2, <4>1 DEF Stage
      <3> QED  BY <3>1, <3>2
    <2>6. \A r \in RefSlots, k \in Kinds : ~Contains(MapList(r, k)', n)
      BY <1>8, <2>4 DEF Listed
    <2>7. \A b \in Actors : b # t /\ (Building(t)' \/ Has(b)') => act'[b].map # n
      BY <2>2, <2>4 DEF Has, Building, Halfway
    <2> QED  BY <2>2, <2>5, <2>6, <2>7
  <1>12. Always'
    BY <1>4, <1>6, <1>7, <1>9, <1>11 DEF Always
  <1>13. ASSUME Quiet, ~Racing' PROVE Quiet'
    <2>1. (\A b \in Actors : Knows(b)) /\ OneHolder /\ NoneLost /\ DevicesThere /\ RefsSound
          /\ fault = "none"
      BY <1>13 DEF Quiet
    <2>0. ~\E a \in Actors : Halfway(a) /\ act[a].map = m
      <3> SUFFICES ASSUME NEW a \in Actors, Halfway(a), act[a].map = m PROVE FALSE
        OBVIOUS
      <3>1. Halfway(a)' /\ heap'[act'[a].map].pinned = 0
        BY <1>2, <1>3, <1>4 DEF Halfway
      <3> QED  BY <1>13, <3>1 DEF Racing
    <2>2. heap[m].mappings # "junk"
      <3>1. CASE \E t \in Actors : Has(t) /\ act[t].map = m
        <4>1. PICK t \in Actors : Has(t) /\ act[t].map = m
          BY <3>1
        <4>2. act[t].pc \in {"pin", "map", "insert"}
          BY <2>0, <4>1 DEF Has, Building
        <4>3. Stage(act[t].pc, heap[m])
          BY <1>1, <4>1 DEF BuiltAlone
        <4>4. act[t].pc # "pin"
          BY <1>2, <4>3 DEF Stage
        <4>5. act[t].pc # "map"
          <5>1. heap'[act'[t].map].pinned = 0
            BY <1>2, <1>3, <1>4, <4>1
          <5>2. t \in Tasks \/ t \in Pdevs
            BY DEF Actors
          <5>3. t \in Tasks \/ act[t].pc \in DevicePcs
            BY <1>1, <5>2 DEF Pointers, PlaceOK
          <5>4. t \in Tasks
            BY <4>2, <5>3 DEF DevicePcs
          <5> QED  BY <1>2, <1>13, <5>1, <5>4 DEF Racing
        <4>6. act[t].pc = "insert"
          BY <4>2, <4>4, <4>5
        <4> QED  BY <4>3, <4>6 DEF Stage
      <3>2. CASE \E r \in RefSlots, k \in Kinds : Listed(m, r, k)
        <4>1. PICK r \in RefSlots, k \in Kinds : Contains(MapList(r, k), m)
          BY <3>2 DEF Listed
        <4>2. PICK i \in 1..Len(MapList(r, k)) : MapList(r, k)[i] = m
          BY <4>1 DEF Contains
        <4>3. heap[MapList(r, k)[i]].mappings # "junk"
          BY <1>1 DEF ListsAllocated
        <4> QED  BY <4>2, <4>3
      <3> QED  BY <1>5, <2>1, <3>1, <3>2 DEF NoneLost
    <2>3. fault' = "none"
      BY <1>2, <2>0, <2>1, <2>2
    <2>4. RefsSound'
      BY <1>2, <1>8, <2>1 DEF RefsSound
    <2>5. DevicesThere'
      BY <1>2, <2>1 DEF DevicesThere, Idle
    <2>6. OneHolder'
      BY <1>2, <2>1 DEF OneHolder, Holding
    <2>7. \A b \in Actors : Knows(b)'
      <3> SUFFICES ASSUME NEW b \in Actors PROVE Knows(b)'
        OBVIOUS
      <3>1. Knows(b) /\ act' = act /\ refs' = refs
        BY <1>2, <2>1
      <3>2. \A k \in Kinds : MapList(act[b].ref, k)' = MapList(act[b].ref, k)
        BY <3>1 DEF MapList
      <3>3. \A k \in Kinds : Listed(act[b].map, act[b].ref, k)' = Listed(act[b].map, act[b].ref, k)
        BY <3>1, <3>2 DEF Listed
      <3> QED  BY <3>1, <3>2, <3>3 DEF Knows, Holding, Owning, Dropping
    <2>8. NoneLost'
      <3> SUFFICES ASSUME NEW x \in MapIds, heap'[x] # NoMap
                   PROVE  \/ \E t \in Actors : Has(t)' /\ act'[t].map = x
                          \/ \E r \in RefSlots, k \in Kinds : Listed(x, r, k)'
        BY DEF NoneLost
      <3>1. heap[x] # NoMap
        BY <1>4, <1>5
      <3> QED  BY <1>2, <1>10, <2>1, <3>1 DEF NoneLost, Has, Building, Halfway
    <2> QED  BY <1>13, <2>3, <2>4, <2>5, <2>6, <2>7, <2>8 DEF Quiet
  <1> QED  BY <1>2, <1>12, <1>13, Combine


-----------------------------------------------------------------------------
(* probe and removal *)

\* A device that goes on with its probe.
LEMMA DeviceGoto ==
    ASSUME TypeOK, Pointers, NEW p \in Pdevs, act[p].pc # "unbound",
           NEW q \in {"enable", "chrdev", "bound"}, Goto(p, q)
    PROVE  Moves(p) /\ act'[p].pc = q /\ act'[p].dev = act[p].dev /\ act'[p].map = act[p].map
  <1>1. p \in Actors /\ p \notin Tasks /\ q \in Pcs /\ q \in DevicePcs
    BY KernelAssumption DEF Actors, Pcs, DevicePcs
  <1>2. act[p].dev \in DevSlots
    BY <1>1 DEF Pointers, PlaceOK, DevicePcs
  <1>3. PICK new : new = [act[p] EXCEPT !.pc = q]
    OBVIOUS
  <1>4. new.pc = q /\ new.dev = act[p].dev
    BY <1>1, <1>3, ActFacts DEF Place
  <1>5. PlaceOK(p, new)
    BY <1>1, <1>2, <1>4 DEF PlaceOK
  <1>6. /\ act' \in [Actors -> Place] /\ Pointers'
        /\ act'[p].pc = q /\ act'[p].file = act[p].file /\ act'[p].dev = act[p].dev
        /\ act'[p].ref = act[p].ref /\ act'[p].map = act[p].map
        /\ \A b \in Actors : b # p => act'[b] = act[b]
    BY <1>1, <1>3, <1>5, GotoEffect
  <1> QED  BY <1>6 DEF Moves

\* A device that starts a probe or a removal.
LEMMA DeviceAt ==
    ASSUME TypeOK, Pointers, NEW p \in Pdevs, NEW q \in {"region", "scan"}, NEW d \in DevSlots,
           act' = [act EXCEPT ![p] = [At(q) EXCEPT !.dev = d]]
    PROVE  Moves(p) /\ act'[p].pc = q /\ act'[p].dev = d /\ act'[p].map = NoId
  <1>1. p \in Actors /\ p \notin Tasks /\ q \in Pcs /\ q \in DevicePcs
    BY KernelAssumption DEF Actors, Pcs, DevicePcs
  <1>2. PICK new : new = [At(q) EXCEPT !.dev = d]
    OBVIOUS
  <1>3. new \in Place /\ new.pc = q /\ new.dev = d /\ new.map = NoId
    BY <1>1, <1>2, AtFacts, SlotFacts DEF Place
  <1>4. PlaceOK(p, new)
    BY <1>1, <1>3 DEF PlaceOK
  <1>5. /\ act' \in [Actors -> Place] /\ Pointers'
        /\ act'[p] = new /\ \A b \in Actors : b # p => act'[b] = act[b]
    BY <1>1, <1>2, <1>3, <1>4, PlaceEffect
  <1> QED  BY <1>3, <1>5 DEF Moves

\* A device that is not bound any more.
LEMMA DeviceOut ==
    ASSUME TypeOK, Pointers, NEW p \in Pdevs, act' = [act EXCEPT ![p] = At("unbound")]
    PROVE  Moves(p) /\ act'[p].pc = "unbound" /\ act'[p].map = NoId
  <1>1. p \in Actors /\ p \notin Tasks /\ "unbound" \in Pcs
    BY KernelAssumption DEF Actors, Pcs
  <1>2. PICK new : new = At("unbound")
    OBVIOUS
  <1>3. new \in Place /\ new.pc = "unbound" /\ new.map = NoId
    BY <1>1, <1>2, AtFacts
  <1>4. PlaceOK(p, new)
    BY <1>1, <1>3 DEF PlaceOK, DevicePcs
  <1>5. /\ act' \in [Actors -> Place] /\ Pointers'
        /\ act'[p] = new /\ \A b \in Actors : b # p => act'[b] = act[b]
    BY <1>1, <1>2, <1>3, <1>4, PlaceEffect
  <1> QED  BY <1>3, <1>5 DEF Moves

\* The slot of a device that is not unbound carries its name.
LEMMA SlotFields ==
    ASSUME DevSlotsOwned, NEW p \in Pdevs, act[p].pc # "unbound"
    PROVE  devs[act[p].dev].used /\ devs[act[p].dev].pdev = p /\ devs[act[p].dev].chr = Visible(p)
  <1>1. devs[act[p].dev] = [used |-> TRUE, pdev |-> p, chr |-> Visible(p)]
    BY DEF DevSlotsOwned, SlotOf
  <1> QED  BY <1>1

\* Slots stay owned when a device changes its own, or takes one that is free.
LEMMA SlotStep ==
    ASSUME TypeOK, Pointers, DevSlotsOwned, NEW p \in Pdevs, Moves(p), NEW d \in DevSlots, NEW new,
           devs' = [devs EXCEPT ![d] = new],
           \/ act[p].pc # "unbound" /\ act[p].dev = d
           \/ act[p].pc = "unbound" /\ devs[d] = NoDev,
           \/ act'[p].pc = "unbound" /\ new = NoDev
           \/ /\ act'[p].pc # "unbound" /\ act'[p].dev = d
              /\ new = [used |-> TRUE, pdev |-> p, chr |-> Visible(p)']
    PROVE  DevSlotsOwned'
  <1>1. devs'[d] = new /\ \A e \in DevSlots : e # d => devs'[e] = devs[e]
    BY DEF TypeOK
  <1>2. ASSUME NEW q \in Pdevs, q # p, act[q].pc # "unbound"
        PROVE  act[q].dev \in DevSlots /\ act[q].dev # d
    <2>1. act[q].dev \in DevSlots
      BY <1>2, KernelAssumption DEF Pointers, PlaceOK, Actors, DevicePcs
    <2>2. devs[act[q].dev].used /\ devs[act[q].dev].pdev = q
      BY <1>2, SlotFields
    <2>3. act[p].pc # "unbound" => devs[act[p].dev].pdev = p
      BY SlotFields
    <2>4. ~NoDev.used
      BY DEF NoDev
    <2> QED  BY <1>2, <2>1, <2>2, <2>3, <2>4
  <1>3. \A q \in Pdevs : q # p => act'[q] = act[q]
    BY DEF Moves, Actors
  <1>4. ASSUME NEW q \in Pdevs PROVE SlotOf(q)'
    <2>1. CASE q = p
      BY <1>1, <2>1 DEF SlotOf
    <2>2. CASE q # p
      <3>1. act'[q] = act[q] /\ SlotOf(q)
        BY <1>3, <2>2 DEF DevSlotsOwned
      <3>2. CASE act[q].pc = "unbound"
        BY <3>1, <3>2 DEF SlotOf
      <3>3. CASE act[q].pc # "unbound"
        <4>1. devs'[act[q].dev] = devs[act[q].dev]
          BY <1>1, <1>2, <2>2, <3>3
        <4>2. Visible(q)' = Visible(q)
          BY <3>1 DEF Visible
        <4> QED  BY <3>1, <3>3, <4>1, <4>2 DEF SlotOf
      <3> QED  BY <3>2, <3>3
    <2> QED  BY <2>1, <2>2
  <1>5. ASSUME NEW e \in DevSlots
        PROVE  devs'[e] = NoDev \/
                 (devs'[e].pdev \in Pdevs /\ act'[devs'[e].pdev].pc # "unbound"
                       /\ act'[devs'[e].pdev].dev = e)
    <2>1. CASE e = d
      <3>1. CASE new = NoDev
        BY <1>1, <2>1, <3>1
      <3>2. CASE /\ act'[p].pc # "unbound" /\ act'[p].dev = d
                 /\ new = [used |-> TRUE, pdev |-> p, chr |-> Visible(p)']
        <4>1. new.pdev = p
          BY <3>2
        <4> QED  BY <1>1, <2>1, <3>2, <4>1
      <3> QED  BY <3>1, <3>2
    <2>2. CASE e # d
      <3>1. devs'[e] = devs[e]
        BY <1>1, <2>2
      <3>2. CASE devs[e] = NoDev
        BY <3>1, <3>2
      <3>3. CASE devs[e] # NoDev
        <4>1. PICK q \in Pdevs : q = devs[e].pdev /\ act[q].pc # "unbound" /\ act[q].dev = e
          BY <3>3 DEF DevSlotsOwned
        <4>2. q # p
          BY <2>2, <4>1
        <4> QED  BY <1>3, <3>1, <4>1, <4>2
      <3> QED  BY <3>2, <3>3
    <2> QED  BY <2>1, <2>2
  <1> QED  BY <1>4, <1>5 DEF DevSlotsOwned

\* The slots' types.
DevTypes == [DevSlots -> [used : BOOLEAN, pdev : Pdevs \union {NoPdev}, chr : BOOLEAN]]
PciTypes == [Pdevs -> [region : BOOLEAN, enabled : BOOLEAN, master : BOOLEAN]]

\* Steps of a device that works on no reference.
LEMMA DeviceOnly ==
    ASSUME IInv, Note, NEW p \in Pdevs, Moves(p), UNCHANGED <<mod, held, refs, heap, file, fault>>,
           mod \in {Loaded, Exiting}, ~Holding(p), ~Holding(p)', act'[p].map \in {NoId, act[p].map},
           devs' \in DevTypes, pci' \in PciTypes, DevSlotsOwned', PciTaken',
           Quiet => \A d \in DevSlots : devs[d].chr => \/ devs'[d].chr
                                                       \/ /\ \A r \in RefSlots : refs[r].ctrl # d
                                                          /\ \A t \in Tasks : ~Idle(t)
                                                                => act[t].dev # d
    PROVE  IInv'
  <1>0. p \in Actors /\ p \notin Tasks
    BY KernelAssumption DEF Actors
  <1>1. /\ TypeOK /\ Pointers /\ DevSlotsOwned /\ PciTaken /\ LoadedInOrder
        /\ FieldsSettled /\ ListsAllocated /\ ListsSorted /\ ListedOnce /\ BuiltAlone
    BY DEF IInv, Always
  <1>2. TypeOK'
    BY <1>1, NoteFacts DEF TypeOK, Moves, DevTypes, PciTypes
  <1>3. \A t \in Tasks : act'[t] = act[t]
    BY <1>0 DEF Moves, Actors
  <1>4. LoadedInOrder'
    BY <1>1, <1>3 DEF LoadedInOrder, Idle, Loaded, Exiting
  <1>5. \A s \in RefSlots, k \in Kinds : MapList(s, k)' = MapList(s, k)
    BY DEF MapList
  <1>6. ListsAllocated' /\ ListsSorted' /\ ListedOnce'
    BY <1>1, <1>5, ListFrame
  <1>7. FieldsSettled'
    BY <1>1 DEF FieldsSettled
  <1>8. \A x \in MapIds, s \in RefSlots, k \in Kinds : Listed(x, s, k)' <=> Listed(x, s, k)
    BY <1>5 DEF Listed
  <1>9. ~Has(p) /\ ~Has(p)'
    BY DEF Has, Building, Halfway, Holding
  <1>10. BuiltAlone'
    BY <1>0, <1>1, <1>8, <1>9, BuiltFrame
  <1>11. Always'
    BY <1>2, <1>4, <1>6, <1>7, <1>10 DEF Always, Moves
  <1>12. ASSUME Quiet, ~Racing' PROVE Quiet'
    <2>1. (\A b \in Actors : Knows(b)) /\ OneHolder /\ NoneLost /\ DevicesThere /\ RefsSound
          /\ fault = "none"
      BY <1>12 DEF Quiet
    <2>2. \A s \in RefSlots : SameRef(s)
      BY <1>5 DEF SameRef
    <2>3. Knows(p)'
      <3>1. act'[p].pc \notin {"init", "pin", "map", "insert", "unmap", "put", "drop", "dma", "pages", "clear"}
        BY DEF Holding
      <3> QED  BY <3>1 DEF Knows, Holding, Owning, Dropping
    <2>4. \A b \in Actors : b # p /\ Holding(b) => act[b].ref # 0
      <3> SUFFICES ASSUME NEW b \in Actors, Holding(b) PROVE act[b].ref # 0
        OBVIOUS
      <3>1. act[b].ref \in RefSlots
        BY <1>1 DEF Holding, Pointers, PlaceOK
      <3> QED  BY <3>1, SlotFacts
    <2>5. (\A b \in Actors : Knows(b)') /\ OneHolder'
      BY <1>0, <1>1, <2>1, <2>2, <2>3, <2>4, KnowsFrame
    <2>6. NoneLost'
      BY <1>0, <1>1, <1>8, <1>9, <2>1, LostFrame
    <2>7. \A d \in DevSlots : devs[d].chr => \/ devs'[d].chr
                                             \/ /\ \A r \in RefSlots : refs[r].ctrl # d
                                                /\ \A t \in Tasks : ~Idle(t) => act[t].dev # d
      BY <1>12
    <2>8. DevicesThere'
      <3> SUFFICES ASSUME NEW t \in Tasks, ~Idle(t)' PROVE devs'[act'[t].dev].chr
        BY DEF DevicesThere
      <3>1. act'[t] = act[t] /\ ~Idle(t)
        BY <1>3 DEF Idle
      <3>2. act[t].dev \in DevSlots
        BY <1>1, <3>1 DEF Idle, Pointers, PlaceOK, TaskPcs, Actors
      <3>3. devs[act[t].dev].chr
        BY <2>1, <3>1 DEF DevicesThere
      <3> QED  BY <2>7, <3>1, <3>2, <3>3
    <2>9. RefsSound'
      <3> SUFFICES ASSUME NEW s \in RefSlots
                   PROVE  /\ ~refs'[s].used => refs'[s].ctrl = 0
                          /\ refs'[s].ctrl = 0 => refs'[s].owner = NoTask
                                                  /\ \A k \in Kinds : MapList(s, k)' = <<>>
                          /\ refs'[s].ctrl # 0 => devs'[refs'[s].ctrl].chr
        BY DEF RefsSound
      <3>1. /\ ~refs[s].used => refs[s].ctrl = 0
            /\ refs[s].ctrl = 0 => refs[s].owner = NoTask /\ \A k \in Kinds : MapList(s, k) = <<>>
            /\ refs[s].ctrl # 0 => devs[refs[s].ctrl].chr
        BY <2>1 DEF RefsSound
      <3>2. refs[s].ctrl # 0 => refs[s].ctrl \in DevSlots
        <4>1. refs[s].ctrl \in 0..NumDevs /\ NumDevs \in Nat
          BY <1>1, RefFacts, SlotFacts
        <4> QED  BY <4>1 DEF DevSlots
      <3>3. refs'[s].ctrl # 0 => devs'[refs'[s].ctrl].chr
        BY <2>7, <3>1, <3>2
      <3> QED  BY <1>5, <3>1, <3>3
    <2> QED  BY <1>12, <2>1, <2>5, <2>6, <2>8, <2>9 DEF Quiet
  <1> QED  BY <1>11, <1>12, Combine

\* probe takes the first free slot.
LEMMA ProbeStep ==
    ASSUME IInv, NEW p \in Pdevs, Probe(p)
    PROVE  IInv'
  <1>1. TypeOK /\ Pointers /\ DevSlotsOwned /\ PciTaken
    BY DEF IInv, Always
  <1>2. PICK free : free = {d \in DevSlots : ~devs[d].used}
    OBVIOUS
  <1>3. PICK d : d = SmallestOf(free)
    OBVIOUS
  <1>4. /\ mod = Loaded /\ act[p].pc = "unbound" /\ free # {}
        /\ devs' = [devs EXCEPT ![d].used = TRUE, ![d].pdev = p]
        /\ act' = [act EXCEPT ![p] = [At("region") EXCEPT !.dev = d]]
        /\ UNCHANGED <<mod, held, refs, heap, pci, file, fault>> /\ Note
    BY <1>2, <1>3 DEF Probe, ctrl_dev_get
  <1>5. d \in DevSlots /\ ~devs[d].used
    <2>1. free \subseteq Nat
      BY <1>2, SlotFacts
    <2>2. d \in free
      BY <1>3, <1>4, <2>1, SmallestFacts
    <2> QED  BY <1>2, <2>2
  <1>6. devs[d] = NoDev
    <2> SUFFICES ASSUME devs[d] # NoDev PROVE FALSE
      OBVIOUS
    <2>1. PICK q \in Pdevs : act[q].pc # "unbound" /\ act[q].dev = d
      BY <1>1, <1>5 DEF DevSlotsOwned
    <2>2. devs[act[q].dev].used
      BY <1>1, <2>1, SlotFields
    <2> QED  BY <1>5, <2>1, <2>2
  <1>7. Moves(p) /\ act'[p].pc = "region" /\ act'[p].dev = d /\ act'[p].map = NoId
    BY <1>1, <1>4, <1>5, DeviceAt
  <1>8. PICK new : new = [used |-> TRUE, pdev |-> p, chr |-> Visible(p)']
    OBVIOUS
  <1>9. ~Visible(p)' /\ ~Holding(p) /\ ~Holding(p)'
    BY <1>4, <1>7 DEF Visible, Holding
  <1>10. new = [used |-> TRUE, pdev |-> p, chr |-> FALSE]
    <2>1. Visible(p)' = FALSE
      BY <1>7 DEF Visible
    <2> QED  BY <1>8, <2>1
  <1>11. devs' = [devs EXCEPT ![d] = new]
    <2>1. [[devs[d] EXCEPT !.used = TRUE] EXCEPT !.pdev = p] = new
      <3>1. devs[d] \in [used : BOOLEAN, pdev : Pdevs \union {NoPdev}, chr : BOOLEAN]
        BY <1>1, <1>5 DEF TypeOK
      <3>2. PICK n2 : n2 = [[devs[d] EXCEPT !.used = TRUE] EXCEPT !.pdev = p]
        OBVIOUS
      <3>3. n2 = [[NoDev EXCEPT !.used = TRUE] EXCEPT !.pdev = p]
        BY <1>6, <3>2
      <3>4. n2 = [used |-> TRUE, pdev |-> p, chr |-> FALSE]
        BY <3>3 DEF NoDev
      <3> QED  BY <1>10, <3>2, <3>4
    <2>2. devs' = [devs EXCEPT ![d] = [[devs[d] EXCEPT !.used = TRUE] EXCEPT !.pdev = p]]
      BY <1>1, <1>4, <1>5 DEF TypeOK
    <2> QED  BY <2>1, <2>2
  <1>12. DevSlotsOwned'
    <2>1. act[p].pc = "unbound" /\ devs[d] = NoDev
      BY <1>4, <1>6
    <2>2. /\ act'[p].pc # "unbound" /\ act'[p].dev = d
          /\ new = [used |-> TRUE, pdev |-> p, chr |-> Visible(p)']
      BY <1>7, <1>8
    <2> QED  BY <1>1, <1>5, <1>7, <1>11, <2>1, <2>2, SlotStep
  <1>13. devs' \in DevTypes /\ pci' \in PciTypes /\ \A e \in DevSlots : e # d => devs'[e] = devs[e]
    <2>1. new \in [used : BOOLEAN, pdev : Pdevs \union {NoPdev}, chr : BOOLEAN]
      BY <1>10
    <2>2. devs \in DevTypes /\ pci \in PciTypes
      BY <1>1 DEF TypeOK, DevTypes, PciTypes
    <2> QED  BY <1>4, <1>5, <1>11, <2>1, <2>2 DEF DevTypes
  <1>14. PciTaken'
    <2>1. \A q \in Pdevs : q # p => act'[q] = act[q]
      BY <1>7 DEF Moves, Actors
    <2> QED  BY <1>1, <1>4, <1>7, <2>1 DEF PciTaken
  <1>15. ~devs[d].chr
    BY <1>6 DEF NoDev
  <1> QED  BY <1>4, <1>7, <1>9, <1>12, <1>13, <1>14, <1>15, DeviceOnly

\* The module is loaded, or being unloaded, when a device is not unbound.
LEMMA DeviceInModule ==
    ASSUME LoadedInOrder, NEW p \in Pdevs, act[p].pc # "unbound"
    PROVE  mod \in {Loaded, Exiting}
  BY DEF LoadedInOrder

\* The region is taken and the device enabled.
LEMMA ProbeGoStep ==
    ASSUME IInv, NEW p \in Pdevs, ProbeRegion(p) \/ ProbeEnable(p)
    PROVE  IInv'
  <1>1. TypeOK /\ Pointers /\ DevSlotsOwned /\ PciTaken /\ LoadedInOrder
    BY DEF IInv, Always
  <1>2. PICK q \in {"enable", "chrdev"} :
          /\ Goto(p, q) /\ act[p].pc \in {"region", "enable"}
          /\ UNCHANGED <<mod, held, devs, refs, heap, file, fault>> /\ Note
    BY DEF ProbeRegion, ProbeEnable
  <1>3. Moves(p) /\ act'[p].pc = q /\ act'[p].dev = act[p].dev /\ act'[p].map = act[p].map
    BY <1>1, <1>2, DeviceGoto
  <1>4. ~Visible(p)' /\ ~Visible(p) /\ ~Holding(p) /\ ~Holding(p)'
    BY <1>2, <1>3 DEF Visible, Holding
  <1>5. act[p].dev \in DevSlots
    BY <1>1, <1>2, KernelAssumption DEF Pointers, PlaceOK, Actors
  <1>6. devs[act[p].dev] = [used |-> TRUE, pdev |-> p, chr |-> Visible(p)]
    BY <1>1, <1>2 DEF DevSlotsOwned, SlotOf
  <1>7. devs[act[p].dev] = [used |-> TRUE, pdev |-> p, chr |-> Visible(p)']
    <2>1. Visible(p)' = FALSE /\ Visible(p) = FALSE
      BY <1>2, <1>3 DEF Visible
    <2> QED  BY <1>6, <2>1
  <1>8. devs' = [devs EXCEPT ![act[p].dev] = devs[act[p].dev]]
    BY <1>1, <1>2, <1>5 DEF TypeOK
  <1>9. DevSlotsOwned'
    BY <1>1, <1>2, <1>3, <1>5, <1>7, <1>8, SlotStep
  <1>10. /\ pci' \in PciTypes /\ ~pci'[p].master
         /\ \A x \in Pdevs : x # p => pci'[x] = pci[x]
    <2>1. pci \in PciTypes /\ ~pci[p].master
      BY <1>1, <1>2 DEF TypeOK, PciTaken, PciTypes
    <2>2. PICK new : /\ new \in [region : BOOLEAN, enabled : BOOLEAN, master : BOOLEAN]
                     /\ new.master = pci[p].master /\ pci' = [pci EXCEPT ![p] = new]
      <3>1. CASE ProbeRegion(p)
        <4>1. pci' = [pci EXCEPT ![p] = [pci[p] EXCEPT !.region = TRUE]]
          BY <2>1, <3>1 DEF ProbeRegion
        <4>2. /\ [pci[p] EXCEPT !.region = TRUE] \in [region : BOOLEAN, enabled : BOOLEAN,
                 master : BOOLEAN]
              /\ [pci[p] EXCEPT !.region = TRUE].master = pci[p].master
          BY <2>1 DEF PciTypes
        <4> QED  BY <4>1, <4>2
      <3>2. CASE ProbeEnable(p)
        <4>1. pci' = [pci EXCEPT ![p] = [pci[p] EXCEPT !.enabled = TRUE]]
          BY <2>1, <3>2 DEF ProbeEnable
        <4>2. /\ [pci[p] EXCEPT !.enabled = TRUE] \in [region : BOOLEAN, enabled : BOOLEAN,
                 master : BOOLEAN]
              /\ [pci[p] EXCEPT !.enabled = TRUE].master = pci[p].master
          BY <2>1 DEF PciTypes
        <4> QED  BY <4>1, <4>2
      <3> QED  BY <3>1, <3>2
    <2> QED  BY <2>1, <2>2 DEF PciTypes
  <1>11. PciTaken'
    <2>1. \A x \in Pdevs : x # p => act'[x] = act[x]
      BY <1>3 DEF Moves, Actors
    <2> QED  BY <1>1, <1>3, <1>10, <2>1 DEF PciTaken
  <1>12. devs' \in DevTypes /\ mod \in {Loaded, Exiting}
    BY <1>1, <1>2, DeviceInModule DEF TypeOK, DevTypes
  <1> QED  BY <1>2, <1>3, <1>4, <1>9, <1>10, <1>11, <1>12, DeviceOnly

\* The character device is created.
LEMMA ChrdevStep ==
    ASSUME IInv, NEW p \in Pdevs, ctrl_dev_chrdev_create(p)
    PROVE  IInv'
  <1>1. TypeOK /\ Pointers /\ DevSlotsOwned /\ PciTaken /\ LoadedInOrder
    BY DEF IInv, Always
  <1>2. PICK d : d = act[p].dev
    OBVIOUS
  <1>3. /\ Goto(p, "bound") /\ act[p].pc = "chrdev"
        /\ devs' = [devs EXCEPT ![d].chr = TRUE] /\ pci' = [pci EXCEPT ![p].master = TRUE]
        /\ UNCHANGED <<mod, held, refs, heap, file, fault>> /\ Note
    BY <1>2 DEF ctrl_dev_chrdev_create
  <1>4. Moves(p) /\ act'[p].pc = "bound" /\ act'[p].dev = d /\ act'[p].map = act[p].map
    BY <1>1, <1>2, <1>3, DeviceGoto
  <1>5. Visible(p)' /\ ~Holding(p) /\ ~Holding(p)'
    BY <1>3, <1>4 DEF Visible, Holding
  <1>6. d \in DevSlots
    BY <1>1, <1>2, <1>3, KernelAssumption DEF Pointers, PlaceOK, Actors
  <1>7. devs[d] = [used |-> TRUE, pdev |-> p, chr |-> Visible(p)]
    BY <1>1, <1>2, <1>3 DEF DevSlotsOwned, SlotOf
  <1>8. PICK new : new = [used |-> TRUE, pdev |-> p, chr |-> Visible(p)']
    OBVIOUS
  <1>9. new = [used |-> TRUE, pdev |-> p, chr |-> TRUE]
    <2>1. Visible(p)' = TRUE
      BY <1>5 DEF Visible
    <2> QED  BY <1>8, <2>1
  <1>10. devs' = [devs EXCEPT ![d] = new]
    <2>1. [devs[d] EXCEPT !.chr = TRUE] = new
      <3>1. Visible(p) = FALSE
        BY <1>3 DEF Visible
      <3>2. devs[d] = [used |-> TRUE, pdev |-> p, chr |-> FALSE]
        BY <1>7, <3>1
      <3>3. PICK n2 : n2 = [devs[d] EXCEPT !.chr = TRUE]
        OBVIOUS
      <3>4. n2 = [[used |-> TRUE, pdev |-> p, chr |-> FALSE] EXCEPT !.chr = TRUE]
        BY <3>2, <3>3
      <3>5. n2 = [used |-> TRUE, pdev |-> p, chr |-> TRUE]
        BY <3>4
      <3> QED  BY <1>9, <3>3, <3>5
    <2>2. devs' = [devs EXCEPT ![d] = [devs[d] EXCEPT !.chr = TRUE]]
      BY <1>1, <1>3, <1>6 DEF TypeOK
    <2> QED  BY <2>1, <2>2
  <1>11. DevSlotsOwned'
    <2>1. act[p].pc # "unbound" /\ act[p].dev = d
      BY <1>2, <1>3
    <2>2. /\ act'[p].pc # "unbound" /\ act'[p].dev = d
          /\ new = [used |-> TRUE, pdev |-> p, chr |-> Visible(p)']
      BY <1>4, <1>8
    <2> QED  BY <1>1, <1>4, <1>6, <1>10, <2>1, <2>2, SlotStep
  <1>12. /\ devs' \in DevTypes /\ devs'[d].chr /\ \A e \in DevSlots : e # d => devs'[e] = devs[e]
    <2>1. new \in [used : BOOLEAN, pdev : Pdevs \union {NoPdev}, chr : BOOLEAN] /\ new.chr
      BY <1>9
    <2>2. devs \in DevTypes
      BY <1>1 DEF TypeOK, DevTypes
    <2> QED  BY <1>6, <1>10, <2>1, <2>2 DEF DevTypes
  <1>13. pci' \in PciTypes /\ \A x \in Pdevs : x # p => pci'[x] = pci[x]
    <2>1. pci \in PciTypes
      BY <1>1 DEF TypeOK, PciTypes
    <2>2. [pci[p] EXCEPT !.master = TRUE] \in [region : BOOLEAN, enabled : BOOLEAN,
          master : BOOLEAN]
      BY <2>1 DEF PciTypes
    <2>3. pci' = [pci EXCEPT ![p] = [pci[p] EXCEPT !.master = TRUE]]
      BY <1>3, <2>1
    <2> QED  BY <2>1, <2>2, <2>3 DEF PciTypes
  <1>14. PciTaken'
    <2>1. \A x \in Pdevs : x # p => act'[x] = act[x]
      BY <1>4 DEF Moves, Actors
    <2> QED  BY <1>1, <1>4, <1>13, <2>1 DEF PciTaken
  <1>15. mod \in {Loaded, Exiting}
    BY <1>1, <1>3, DeviceInModule
  <1> QED  BY <1>3, <1>4, <1>5, <1>11, <1>12, <1>13, <1>14, <1>15, DeviceOnly

\* A probe that fails gives everything back.
LEMMA ProbeFailStep ==
    ASSUME IInv, NEW p \in Pdevs, ProbeFail(p)
    PROVE  IInv'
  <1>1. TypeOK /\ Pointers /\ DevSlotsOwned /\ PciTaken /\ LoadedInOrder
    BY DEF IInv, Always
  <1>2. PICK d : d = act[p].dev
    OBVIOUS
  <1>3. /\ act[p].pc \in {"region", "enable", "chrdev"}
        /\ act' = [act EXCEPT ![p] = At("unbound")]
        /\ devs' = [devs EXCEPT ![d] = NoDev]
        /\ pci' = [pci EXCEPT ![p].region = FALSE, ![p].enabled = FALSE]
        /\ UNCHANGED <<mod, held, refs, heap, file, fault>> /\ Note
    BY <1>2 DEF ProbeFail, ctrl_dev_put
  <1>4. Moves(p) /\ act'[p].pc = "unbound" /\ act'[p].map = NoId
    BY <1>1, <1>3, DeviceOut
  <1>5. ~Visible(p) /\ ~Holding(p) /\ ~Holding(p)'
    BY <1>3, <1>4 DEF Visible, Holding
  <1>6. d \in DevSlots
    BY <1>1, <1>2, <1>3, KernelAssumption DEF Pointers, PlaceOK, Actors
  <1>7. ~devs[d].chr
    BY <1>1, <1>2, <1>3, <1>5, SlotFields
  <1>8. DevSlotsOwned'
    BY <1>1, <1>2, <1>3, <1>4, <1>6, SlotStep
  <1>9. /\ devs' \in DevTypes /\ \A e \in DevSlots : e # d => devs'[e] = devs[e]
    <2>1. NoDev \in [used : BOOLEAN, pdev : Pdevs \union {NoPdev}, chr : BOOLEAN]
      BY DEF NoDev
    <2> QED  BY <1>1, <1>3, <1>6, <2>1 DEF TypeOK, DevTypes
  <1>10. pci' \in PciTypes /\ pci'[p] = Unbound /\ \A x \in Pdevs : x # p => pci'[x] = pci[x]
    <2>1. pci \in PciTypes /\ pci[p] \in [region : BOOLEAN, enabled : BOOLEAN, master : BOOLEAN]
      BY <1>1 DEF TypeOK, PciTypes
    <2>2. pci[p].master = FALSE
      BY <1>1, <1>3, <2>1 DEF PciTaken
    <2>3. PICK new : new = [[pci[p] EXCEPT !.region = FALSE] EXCEPT !.enabled = FALSE]
      OBVIOUS
    <2>4. new = Unbound
      BY <2>1, <2>2, <2>3 DEF Unbound
    <2>5. pci' = [pci EXCEPT ![p] = new]
      BY <1>3, <2>1, <2>3 DEF PciTypes
    <2>6. Unbound \in [region : BOOLEAN, enabled : BOOLEAN, master : BOOLEAN]
      BY DEF Unbound
    <2> QED  BY <2>1, <2>4, <2>5, <2>6 DEF PciTypes
  <1>11. PciTaken'
    <2>1. \A x \in Pdevs : x # p => act'[x] = act[x]
      BY <1>4 DEF Moves, Actors
    <2>2. ~Unbound.master
      BY DEF Unbound
    <2> QED  BY <1>1, <1>4, <1>10, <2>1, <2>2 DEF PciTaken
  <1>12. mod \in {Loaded, Exiting}
    BY <1>1, <1>3, DeviceInModule
  <1> QED  BY <1>3, <1>4, <1>5, <1>7, <1>8, <1>9, <1>10, <1>11, <1>12, DeviceOnly

\* The removal of a device starts.
LEMMA RemoveStep ==
    ASSUME IInv, NEW p \in Pdevs, remove_pci_dev(p)
    PROVE  IInv'
  <1>1. TypeOK /\ Pointers /\ DevSlotsOwned /\ PciTaken /\ LoadedInOrder
    BY DEF IInv, Always
  <1>2. /\ act[p].pc = "bound" /\ pci' = [pci EXCEPT ![p] = Unbound]
        /\ act' = [act EXCEPT ![p] = [At("scan") EXCEPT !.dev = find_dev_by_pdev(p)]]
        /\ UNCHANGED <<mod, held, devs, refs, heap, file, fault>> /\ Note
    BY DEF remove_pci_dev
  <1>3. PICK d : d = act[p].dev
    OBVIOUS
  <1>4. find_dev_by_pdev(p) = d /\ d \in DevSlots
    BY <1>1, <1>2, <1>3, FindDev
  <1>5. Moves(p) /\ act'[p].pc = "scan" /\ act'[p].dev = d /\ act'[p].map = NoId
    BY <1>1, <1>2, <1>4, DeviceAt
  <1>6. Visible(p)' = Visible(p) /\ ~Holding(p) /\ ~Holding(p)'
    BY <1>2, <1>5 DEF Visible, Holding
  <1>7. devs[d] = [used |-> TRUE, pdev |-> p, chr |-> Visible(p)']
    <2>1. devs[d] = [used |-> TRUE, pdev |-> p, chr |-> Visible(p)]
      BY <1>1, <1>2, <1>3 DEF DevSlotsOwned, SlotOf
    <2> QED  BY <1>6, <2>1
  <1>8. devs' = [devs EXCEPT ![d] = devs[d]]
    BY <1>1, <1>2, <1>4 DEF TypeOK
  <1>9. DevSlotsOwned'
    BY <1>1, <1>2, <1>3, <1>4, <1>5, <1>7, <1>8, SlotStep
  <1>10. pci' \in PciTypes /\ pci'[p] = Unbound /\ \A x \in Pdevs : x # p => pci'[x] = pci[x]
    <2>1. Unbound \in [region : BOOLEAN, enabled : BOOLEAN, master : BOOLEAN]
      BY DEF Unbound
    <2> QED  BY <1>1, <1>2, <2>1 DEF TypeOK, PciTypes
  <1>11. PciTaken'
    <2>1. \A x \in Pdevs : x # p => act'[x] = act[x]
      BY <1>5 DEF Moves, Actors
    <2>2. ~Unbound.master
      BY DEF Unbound
    <2> QED  BY <1>1, <1>5, <1>10, <2>1, <2>2 DEF PciTaken
  <1>12. devs' \in DevTypes /\ mod \in {Loaded, Exiting}
    BY <1>1, <1>2, DeviceInModule DEF TypeOK, DevTypes
  <1> QED  BY <1>2, <1>5, <1>6, <1>9, <1>10, <1>11, <1>12, DeviceOnly

\* No reference leads to the device any more: its slot is given back.
LEMMA RemoveDoneStep ==
    ASSUME IInv, NEW p \in Pdevs, RemoveDone(p)
    PROVE  IInv'
  <1>1. TypeOK /\ Pointers /\ DevSlotsOwned /\ PciTaken /\ LoadedInOrder
    BY DEF IInv, Always
  <1>2. PICK d : d = act[p].dev
    OBVIOUS
  <1>3. /\ act[p].pc = "scan" /\ find_ref(d, Anybody) = 0
        /\ act' = [act EXCEPT ![p] = At("unbound")]
        /\ devs' = [devs EXCEPT ![d] = NoDev]
        /\ UNCHANGED <<mod, held, refs, heap, pci, file, fault>> /\ Note
    BY <1>2 DEF RemoveDone, ctrl_dev_put
  <1>4. Moves(p) /\ act'[p].pc = "unbound" /\ act'[p].map = NoId
    BY <1>1, <1>3, DeviceOut
  <1>5. ~Holding(p) /\ ~Holding(p)'
    BY <1>3, <1>4 DEF Holding
  <1>6. d \in DevSlots
    BY <1>1, <1>2, <1>3, KernelAssumption DEF Pointers, PlaceOK, Actors
  <1>7. DevSlotsOwned'
    BY <1>1, <1>2, <1>3, <1>4, <1>6, SlotStep
  <1>8. /\ devs' \in DevTypes /\ \A e \in DevSlots : e # d => devs'[e] = devs[e]
    <2>1. NoDev \in [used : BOOLEAN, pdev : Pdevs \union {NoPdev}, chr : BOOLEAN]
      BY DEF NoDev
    <2> QED  BY <1>1, <1>3, <1>6, <2>1 DEF TypeOK, DevTypes
  <1>9. pci' \in PciTypes
    BY <1>1, <1>3 DEF TypeOK, PciTypes
  <1>10. PciTaken'
    <2>1. \A x \in Pdevs : x # p => act'[x] = act[x]
      BY <1>4 DEF Moves, Actors
    <2>2. pci[p] = Unbound /\ ~pci[p].master
      BY <1>1, <1>3 DEF PciTaken
    <2> QED  BY <1>1, <1>3, <1>4, <2>1, <2>2 DEF PciTaken
  <1>11. \A r \in RefSlots : refs[r].ctrl # d
    <2>1. \A r \in RefSlots : refs[r].owner \in Anybody
      BY <1>1, RefFacts DEF Anybody
    <2> QED  BY <1>3, <2>1, FindRefFacts
  <1>12. Quiet => \A t \in Tasks : ~Idle(t) => act[t].dev # d
    BY <1>2, <1>3 DEF Quiet, Racing, Removing
  <1>13. mod \in {Loaded, Exiting}
    BY <1>1, <1>3, DeviceInModule
  <1> QED  BY <1>3, <1>4, <1>5, <1>7, <1>8, <1>9, <1>10, <1>11, <1>12, <1>13, DeviceOnly


-----------------------------------------------------------------------------
(* loading and unloading *)

\* When slots, references, descriptors and places stay, so does what is said of them.
LEMMA Frozen ==
    ASSUME Always, UNCHANGED <<devs, refs, heap, pci, file, act, fault>>
    PROVE  /\ Pointers' /\ DevSlotsOwned' /\ PciTaken' /\ FieldsSettled' /\ ListsAllocated'
           /\ ListsSorted' /\ ListedOnce' /\ BuiltAlone'
           /\ Quiet => Quiet'
  <1>1. /\ TypeOK /\ Pointers /\ DevSlotsOwned /\ PciTaken /\ FieldsSettled /\ ListsAllocated
        /\ ListsSorted /\ ListedOnce /\ BuiltAlone
    BY DEF Always
  <1>2. \A r \in RefSlots, k \in Kinds : MapList(r, k)' = MapList(r, k)
    BY DEF MapList
  <1>3. ListsAllocated' /\ ListsSorted' /\ ListedOnce'
    BY <1>1, <1>2, ListFrame
  <1>4. Pointers' /\ PciTaken' /\ FieldsSettled'
    BY <1>1 DEF Pointers, PciTaken, FieldsSettled
  <1>5. DevSlotsOwned'
    BY <1>1 DEF DevSlotsOwned, SlotOf, Visible
  <1>6. \A m \in MapIds, r \in RefSlots, k \in Kinds : Listed(m, r, k)' = Listed(m, r, k)
    BY <1>2 DEF Listed
  <1>7. \A a \in Actors : /\ Building(a)' = Building(a) /\ Has(a)' = Has(a)
                             /\ Holding(a)' = Holding(a)
                          /\ Owning(a)' = Owning(a) /\ Dropping(a)' = Dropping(a)
    BY DEF Has, Building, Halfway, Holding, Owning, Dropping
  <1>8. BuiltAlone'
    <2>1. \A t \in Actors : \A r \in RefSlots, k \in Kinds :
             Listed(act[t].map, r, k)' = Listed(act[t].map, r, k)
      BY <1>2 DEF Listed
    <2> QED  BY <1>1, <1>7, <2>1 DEF BuiltAlone
  <1>9. ASSUME Quiet PROVE Quiet'
    <2>1. /\ (\A b \in Actors : Knows(b)) /\ OneHolder /\ NoneLost /\ DevicesThere /\ RefsSound
          /\ fault = "none" /\ ~Racing
      BY <1>9 DEF Quiet
    <2>2. ~Racing'
      BY <2>1 DEF Racing, Removing, Idle, Halfway
    <2>3. RefsSound'
      BY <1>2, <2>1 DEF RefsSound
    <2>4. DevicesThere' /\ OneHolder'
      BY <1>7, <2>1 DEF DevicesThere, Idle, OneHolder
    <2>5. \A a \in Actors : Knows(a)'
      <3> SUFFICES ASSUME NEW a \in Actors PROVE Knows(a)'
        OBVIOUS
      <3>1. Knows(a)
        BY <2>1
      <3>2. \A k \in Kinds : MapList(act[a].ref, k)' = MapList(act[a].ref, k)
        BY DEF MapList
      <3>3. \A k \in Kinds : Listed(act[a].map, act[a].ref, k)' = Listed(act[a].map, act[a].ref, k)
        BY <3>2 DEF Listed
      <3> QED  BY <1>7, <3>1, <3>2, <3>3 DEF Knows
    <2>6. NoneLost'
      BY <1>6, <1>7, <2>1 DEF NoneLost
    <2> QED  BY <2>1, <2>2, <2>3, <2>4, <2>5, <2>6 DEF Quiet
  <1> QED  BY <1>3, <1>4, <1>5, <1>8, <1>9

\* Steps of the module's entry and exit that touch neither slots nor references.
LEMMA ModuleOnly ==
    ASSUME IInv, Note, UNCHANGED <<devs, refs, heap, pci, file, act, fault>>,
           mod' \in 1..Exiting, held' \subseteq ToSet(EntryOrder), LoadedInOrder'
    PROVE  IInv'
  <1>1. Always /\ TypeOK
    BY DEF IInv, Always
  <1>2. /\ Pointers' /\ DevSlotsOwned' /\ PciTaken' /\ FieldsSettled' /\ ListsAllocated'
        /\ ListsSorted' /\ ListedOnce' /\ BuiltAlone'
        /\ Quiet => Quiet'
    BY <1>1, Frozen
  <1>3. TypeOK'
    BY <1>1, NoteFacts DEF TypeOK
  <1>4. Always'
    BY <1>2, <1>3 DEF Always
  <1> QED  BY <1>2, <1>4, Combine

\* The next thing the module needs is taken.
LEMMA EntryStepStep ==
    ASSUME IInv, EntryStep
    PROVE  IInv'
  <1>1. /\ TypeOK /\ Pointers /\ DevSlotsOwned /\ PciTaken /\ LoadedInOrder
        /\ FieldsSettled /\ ListsAllocated /\ ListsSorted /\ ListedOnce /\ BuiltAlone
    BY DEF IInv, Always
  <1>2. /\ mod \in 1..5 /\ held' = held \union {EntryOrder[mod]}
        /\ mod' = IF mod = 5 THEN Loaded ELSE mod + 1
        /\ devs' = devs \/ devs' = [d \in DevSlots |-> NoDev]
        /\ UNCHANGED <<heap, pci, file, act, fault>> /\ Note
    BY DEF EntryStep
  <1>3. /\ refs' \in [RefSlots -> RefType]
        /\ \/ /\ refs' = refs /\ \A s \in RefSlots, k \in Kinds : MapList(s, k)' = MapList(s, k)
           \/ \A s \in RefSlots : /\ ~refs'[s].used /\ refs'[s].ctrl = 0 /\ refs'[s].owner = NoTask
                                  /\ \A k \in Kinds : MapList(s, k)' = <<>>
    BY <1>1, EntryEffect
  <1>4. /\ (\A f \in Files : file[f] = 0) /\ (\A t \in Tasks : act[t].pc = "idle")
        /\ \A p \in Pdevs : act[p].pc = "unbound"
    BY <1>1, <1>2 DEF LoadedInOrder, Loaded, Exiting, Idle
  <1>5. \A d \in DevSlots : devs[d] = NoDev
    BY <1>1, <1>4 DEF DevSlotsOwned
  <1>6. \A d \in DevSlots : devs'[d] = NoDev
    BY <1>2, <1>5
  <1>7. held' \subseteq ToSet(EntryOrder) /\ mod' \in 1..Exiting
    <2>1. EntryOrder[mod] \in ToSet(EntryOrder)
      BY <1>2 DEF ToSet, EntryOrder
    <2>2. held \subseteq ToSet(EntryOrder)
      BY <1>1 DEF TypeOK
    <2>3. mod' \in 1..Exiting
      BY <1>2 DEF Loaded, Exiting
    <2> QED  BY <1>2, <2>1, <2>2, <2>3
  <1>8. TypeOK'
    <2>1. devs' \in [DevSlots -> [used : BOOLEAN, pdev : Pdevs \union {NoPdev}, chr : BOOLEAN]]
      <3>1. NoDev \in [used : BOOLEAN, pdev : Pdevs \union {NoPdev}, chr : BOOLEAN]
        BY DEF NoDev
      <3> QED  BY <1>1, <1>2, <3>1 DEF TypeOK
    <2> QED  BY <1>1, <1>2, <1>3, <1>7, <2>1, NoteFacts DEF TypeOK
  <1>9. Pointers' /\ PciTaken' /\ FieldsSettled'
    BY <1>1, <1>2 DEF Pointers, PciTaken, FieldsSettled
  <1>10. DevSlotsOwned'
    <2>1. \A p \in Pdevs : SlotOf(p)'
      BY <1>2, <1>4 DEF SlotOf
    <2> QED  BY <1>6, <2>1 DEF DevSlotsOwned
  <1>11. LoadedInOrder'
    <2>1. mod' \in 1..5 => held' = {EntryOrder[i] : i \in 1..(mod' - 1)}
      <3> SUFFICES ASSUME mod' \in 1..5 PROVE held' = {EntryOrder[i] : i \in 1..(mod' - 1)}
        OBVIOUS
      <3>1. mod \in 1..4 /\ mod' - 1 = mod
        BY <1>2 DEF Loaded
      <3>2. held = {EntryOrder[i] : i \in 1..(mod - 1)}
        BY <1>1, <1>2 DEF LoadedInOrder
      <3>3. \A i : i \in 1..mod <=> i \in 1..(mod - 1) \/ i = mod
        BY <3>1
      <3> QED  BY <1>2, <3>1, <3>2, <3>3
    <2>2. (\A f \in Files : file'[f] = 0) /\ (\A t \in Tasks : Idle(t)')
      BY <1>2, <1>4 DEF Idle
    <2>3. \A p \in Pdevs : act'[p].pc = "unbound"
      BY <1>2, <1>4
    <2> QED  BY <2>1, <2>2, <2>3 DEF LoadedInOrder
  <1>12. \A s \in RefSlots, k \in Kinds : MapList(s, k)' \in {MapList(s, k), <<>>}
    BY <1>3
  <1>13. ListsAllocated' /\ ListsSorted' /\ ListedOnce'
    BY <1>1, <1>2, <1>12, ListFrame
  <1>14. \A a \in Actors : ~Has(a)' /\ ~Holding(a)' /\ ~Owning(a)' /\ ~Dropping(a)'
         /\ act'[a].pc \in {"idle", "unbound"}
    BY <1>2, <1>4 DEF Actors, Has, Building, Halfway, Holding, Owning, Dropping
  <1>15. BuiltAlone'
    BY <1>14 DEF BuiltAlone
  <1>16. Always'
    BY <1>8, <1>9, <1>10, <1>11, <1>13, <1>15 DEF Always
  <1>17. ASSUME Quiet, ~Racing' PROVE Quiet'
    <2>1. RefsSound /\ NoneLost /\ fault = "none"
      BY <1>17 DEF Quiet
    <2>2. \A s \in RefSlots : refs[s].ctrl = 0
      <3> SUFFICES ASSUME NEW s \in RefSlots PROVE refs[s].ctrl = 0
        OBVIOUS
      <3>1. refs[s].ctrl # 0 => refs[s].ctrl \in DevSlots
        <4>1. refs[s].ctrl \in 0..NumDevs /\ NumDevs \in Nat
          BY <1>1, RefFacts, SlotFacts
        <4> QED  BY <4>1 DEF DevSlots
      <3>2. ~NoDev.chr
        BY DEF NoDev
      <3> QED  BY <1>5, <2>1, <3>1, <3>2 DEF RefsSound
    <2>3. \A s \in RefSlots : refs[s].owner = NoTask /\ \A k \in Kinds : MapList(s, k) = <<>>
      BY <2>1, <2>2 DEF RefsSound
    <2>4. \A s \in RefSlots : /\ refs'[s].ctrl = 0 /\ refs'[s].owner = NoTask
                              /\ \A k \in Kinds : MapList(s, k)' = <<>>
      BY <1>3, <2>2, <2>3
    <2>5. RefsSound'
      BY <2>4 DEF RefsSound
    <2>6. DevicesThere' /\ OneHolder' /\ \A a \in Actors : Knows(a)'
      <3>1. DevicesThere'
        BY <1>2, <1>4 DEF DevicesThere, Idle
      <3>2. OneHolder'
        BY <1>14 DEF OneHolder
      <3>3. \A a \in Actors : Knows(a)'
        BY <1>14 DEF Knows
      <3> QED  BY <3>1, <3>2, <3>3
    <2>7. \A m \in MapIds : heap[m] = NoMap
      <3>1. \A t \in Actors : ~Has(t)
        BY <1>4 DEF Actors, Has, Building, Halfway
      <3>2. \A m \in MapIds, r \in RefSlots, k \in Kinds : ~Listed(m, r, k)
        BY <2>3 DEF Listed, Contains
      <3> QED  BY <2>1, <3>1, <3>2 DEF NoneLost
    <2>8. NoneLost'
      BY <1>2, <2>7 DEF NoneLost
    <2> QED  BY <1>2, <1>17, <2>1, <2>5, <2>6, <2>8 DEF Quiet
  <1> QED  BY <1>2, <1>16, <1>17, Combine

\* What is given back when the load fails is what was taken.
LEMMA UndoAll ==
    ASSUME NEW n \in 1..5
    PROVE  {EntryOrder[i] : i \in 1..(n - 1)} \ EntryUndo[n] = {}
  <1>1. CASE n = 1
    BY <1>1
  <1>2. CASE n = 2
    BY <1>2 DEF EntryOrder, EntryUndo
  <1>3. CASE n = 3
    BY <1>3 DEF EntryOrder, EntryUndo
  <1>4. CASE n = 4
    BY <1>4 DEF EntryOrder, EntryUndo
  <1>5. CASE n = 5
    BY <1>5 DEF EntryOrder, EntryUndo
  <1> QED  BY <1>1, <1>2, <1>3, <1>4, <1>5

\* The load fails, or the module is unloaded.
LEMMA ModuleStep ==
    ASSUME IInv, Module
    PROVE  IInv'
  <1>1. TypeOK /\ LoadedInOrder
    BY DEF IInv, Always
  <1>2. {EntryOrder[i] : i \in 1..(1 - 1)} = {}
    OBVIOUS
  <1>3. CASE EntryStep
    BY <1>3, EntryStepStep
  <1>4. CASE EntryFail
    <2>1. /\ mod \in 1..5 /\ held' = held \ EntryUndo[mod] /\ mod' = 1
          /\ UNCHANGED <<devs, refs, heap, pci, file, act, fault>> /\ Note
      BY <1>4 DEF EntryFail
    <2>2. held' = {}
      <3>1. held = {EntryOrder[i] : i \in 1..(mod - 1)}
        BY <1>1, <2>1 DEF LoadedInOrder
      <3> QED  BY <2>1, <3>1, UndoAll
    <2>3. LoadedInOrder'
      <3>1. mod # Loaded /\ mod # Exiting
        BY <2>1 DEF Loaded, Exiting
      <3> QED  BY <1>1, <1>2, <2>1, <2>2, <3>1 DEF LoadedInOrder, Idle
    <2>4. mod' \in 1..Exiting /\ held' \subseteq ToSet(EntryOrder)
      BY <2>1, <2>2 DEF Exiting
    <2> QED  BY <2>1, <2>3, <2>4, ModuleOnly
  <1>5. CASE ExitStart
    <2>1. /\ \A f \in Files : file[f] = 0
          /\ \A t \in Tasks : Idle(t)
          /\ mod' = Exiting /\ UNCHANGED <<held, devs, refs, heap, pci, file, act, fault>> /\ Note
      BY <1>5 DEF ExitStart
    <2>2. LoadedInOrder'
      BY <2>1 DEF LoadedInOrder, Idle, Exiting
    <2>3. mod' \in 1..Exiting /\ held' \subseteq ToSet(EntryOrder)
      BY <1>1, <2>1 DEF Exiting, TypeOK
    <2> QED  BY <2>1, <2>2, <2>3, ModuleOnly
  <1>6. CASE ExitFree
    <2>1. /\ mod = Exiting /\ \A p \in Pdevs : act[p].pc = "unbound"
          /\ held' = {} /\ mod' = 1 /\ UNCHANGED <<devs, refs, heap, pci, file, act, fault>> /\ Note
      BY <1>6 DEF ExitFree
    <2>2. (\A f \in Files : file[f] = 0) /\ (\A t \in Tasks : Idle(t))
      BY <1>1, <2>1 DEF LoadedInOrder, Exiting, Loaded
    <2>3. LoadedInOrder'
      BY <1>2, <2>1, <2>2 DEF LoadedInOrder, Idle
    <2>4. mod' \in 1..Exiting /\ held' \subseteq ToSet(EntryOrder)
      BY <2>1 DEF Exiting
    <2> QED  BY <2>1, <2>3, <2>4, ModuleOnly
  <1> QED  BY <1>3, <1>4, <1>5, <1>6 DEF Module

-----------------------------------------------------------------------------
(* The theorems *)

\* The invariant holds before the module is loaded.
LEMMA InitInv ==
    ASSUME Init
    PROVE  IInv
  <1>1. MaxAfterRace \in Nat /\ NumDevs \in Nat /\ NumRefs \in Nat /\ Tasks \cap Pdevs = {}
    BY KernelAssumption
  <1>2. /\ mod = 1 /\ held = {} /\ fault = "none" /\ after = 0
        /\ \A d \in DevSlots : devs[d] = NoDev
        /\ \A r \in RefSlots : refs[r] = NoRef
        /\ \A m \in MapIds : heap[m] = NoMap
        /\ \A p \in Pdevs : pci[p] = Unbound
        /\ \A f \in Files : file[f] = 0
    BY DEF Init
  <1>3. \A a \in Actors : act[a] = At(IF a \in Tasks THEN "idle" ELSE "unbound")
    BY DEF Init
  <1>4. ASSUME NEW a \in Actors
        PROVE  act[a] \in Place /\ act[a].pc = IF a \in Tasks THEN "idle" ELSE "unbound"
    <2>1. CASE a \in Tasks
      <3>1. act[a] = At("idle")
        BY <1>3, <2>1
      <3> QED  BY <2>1, <3>1, AtFacts DEF Pcs
    <2>2. CASE a \notin Tasks
      <3>1. act[a] = At("unbound")
        BY <1>3, <2>2
      <3> QED  BY <2>2, <3>1, AtFacts DEF Pcs
    <2> QED  BY <2>1, <2>2
  <1>5. /\ \A t \in Tasks : act[t].pc = "idle"
        /\ \A p \in Pdevs : act[p].pc = "unbound"
        /\ \A a \in Actors : act[a].pc \in {"idle", "unbound"}
    BY <1>1, <1>4 DEF Actors
  <1>6. NoRef \in RefType
    <2>1. <<>> \in Seq(MapIds) /\ 0 \in 0..NumDevs
      BY <1>1
    <2> QED  BY <2>1 DEF NoRef, RefType
  <1>7. \A r \in RefSlots : /\ refs[r].used = FALSE /\ refs[r].ctrl = 0 /\ refs[r].owner = NoTask
                            /\ \A k \in Kinds : MapList(r, k) = <<>>
    BY <1>2 DEF NoRef, MapList
  <1>8. TypeOK
    <2>1. devs \in [DevSlots -> [used : BOOLEAN, pdev : Pdevs \union {NoPdev}, chr : BOOLEAN]]
      <3>1. NoDev \in [used : BOOLEAN, pdev : Pdevs \union {NoPdev}, chr : BOOLEAN]
        BY DEF NoDev
      <3> QED  BY <3>1 DEF Init
    <2>2. refs \in [RefSlots -> RefType]
      BY <1>6 DEF Init
    <2>3. heap \in [MapIds -> MapType \union {NoMap}]
      BY DEF Init
    <2>4. pci \in [Pdevs -> [region : BOOLEAN, enabled : BOOLEAN, master : BOOLEAN]]
      <3>1. Unbound \in [region : BOOLEAN, enabled : BOOLEAN, master : BOOLEAN]
        BY DEF Unbound
      <3> QED  BY <3>1 DEF Init
    <2>5. file \in [Files -> 0..NumDevs]
      BY <1>1 DEF Init
    <2>6. act \in [Actors -> Place]
      <3>1. act = [a \in Actors |-> act[a]]
        BY DEF Init
      <3> QED  BY <1>4, <3>1
    <2>7. mod \in 1..Exiting /\ held \subseteq ToSet(EntryOrder) /\ after \in 0..MaxAfterRace
      BY <1>1, <1>2 DEF Exiting
    <2> QED  BY <1>2, <2>1, <2>2, <2>3, <2>4, <2>5, <2>6, <2>7 DEF TypeOK
  <1>9. Pointers
    <2> SUFFICES ASSUME NEW a \in Actors PROVE PlaceOK(a, act[a])
      BY DEF Pointers
    <2>1. CASE a \in Tasks
      BY <1>4, <2>1 DEF PlaceOK, TaskPcs
    <2>2. CASE a \notin Tasks
      BY <1>4, <2>2 DEF PlaceOK, DevicePcs
    <2> QED  BY <2>1, <2>2
  <1>10. DevSlotsOwned
    BY <1>2, <1>5 DEF DevSlotsOwned, SlotOf
  <1>11. PciTaken
    <2>1. ~Unbound.master
      BY DEF Unbound
    <2> QED  BY <1>2, <2>1 DEF PciTaken
  <1>12. LoadedInOrder
    <2>1. {EntryOrder[i] : i \in 1..(1 - 1)} = {}
      OBVIOUS
    <2> QED  BY <1>2, <1>5, <2>1 DEF LoadedInOrder, Idle, Loaded
  <1>13. FieldsSettled
    BY <1>2 DEF FieldsSettled
  <1>14. \A m, r, k : r \in RefSlots /\ k \in Kinds => ~Listed(m, r, k)
    BY <1>7 DEF Listed, Contains
  <1>15. ListsAllocated /\ ListsSorted /\ ListedOnce
    <2>1. \A r \in RefSlots, k \in Kinds : 1..Len(MapList(r, k)) = {}
      BY <1>7
    <2> QED  BY <1>14, <2>1 DEF ListsAllocated, ListsSorted, ListedOnce
  <1>16. BuiltAlone
    BY <1>5 DEF BuiltAlone, Has, Building, Halfway
  <1>17. Always
    BY <1>8, <1>9, <1>10, <1>11, <1>12, <1>13, <1>15, <1>16 DEF Always
  <1>18. Quiet
    <2>1. ~Racing
      BY <1>5 DEF Racing, Removing, Halfway
    <2>2. RefsSound
      BY <1>7 DEF RefsSound
    <2>3. DevicesThere
      BY <1>5 DEF DevicesThere, Idle
    <2>4. \A a \in Actors : Knows(a)
      BY <1>5 DEF Knows, Holding, Owning, Dropping
    <2>5. OneHolder
      BY <1>5 DEF OneHolder, Holding
    <2>6. NoneLost
      BY <1>2 DEF NoneLost
    <2> QED  BY <1>2, <2>1, <2>2, <2>3, <2>4, <2>5, <2>6 DEF Quiet
  <1> QED  BY <1>17, <1>18 DEF IInv

\* Every step keeps it.
LEMMA StepInv ==
    ASSUME IInv, [Next \/ Halt]_vars
    PROVE  IInv'
  <1>1. CASE UNCHANGED vars
    <2>1. Always /\ TypeOK /\ LoadedInOrder
          /\ UNCHANGED <<mod, held, devs, refs, heap, pci, file, act, fault, after>>
      BY <1>1 DEF IInv, Always, vars
    <2>2. /\ Pointers' /\ DevSlotsOwned' /\ PciTaken' /\ FieldsSettled' /\ ListsAllocated'
          /\ ListsSorted' /\ ListedOnce' /\ BuiltAlone'
          /\ Quiet => Quiet'
      BY <2>1, Frozen
    <2>3. TypeOK'
      BY <2>1 DEF TypeOK
    <2>4. LoadedInOrder'
      BY <2>1 DEF LoadedInOrder, Idle
    <2>5. Raced' = Raced
      BY <2>1 DEF Raced
    <2> QED  BY <2>2, <2>3, <2>4, <2>5 DEF IInv, Always
  <1>2. ASSUME NEW a \in Actors, Put(a) PROVE IInv'
    BY <1>2, PutPickStep, DropStep, HalfStep, PutClearStep, PutDoneStep DEF Put
  <1>3. ASSUME NEW t \in Tasks, Task(t) PROVE IInv'
    <2>1. t \in Actors
      BY DEF Actors
    <2>2. CASE \E f \in Files : OpenFind(t, f) \/ IoctlMap(t, f) \/ UnmapFind(t, f) \/ Release(t, f)
      BY <2>2, OpenFindStep, IoctlMapStep, UnmapFindStep, ReleaseStep
    <2>3. CASE OpenNext(t) \/ OpenClaim(t) \/ OpenInit(t)
      BY <2>3, OpenNextStep, OpenClaimStep, OpenInitStep
    <2>4. CASE MapPin(t) \/ MapUser(t) \/ MapGpu(t) \/ MapInsert(t)
      BY <2>4, BuildStep, MapInsertStep
    <2>5. CASE UnmapMemory(t)
      BY <2>1, <2>5, DropStep
    <2> QED  BY <1>2, <1>3, <2>1, <2>2, <2>3, <2>4, <2>5 DEF Task
  <1>4. ASSUME NEW p \in Pdevs, Device(p) PROVE IInv'
    <2>1. p \in Actors
      BY DEF Actors
    <2>2. CASE Probe(p) \/ ProbeRegion(p) \/ ProbeEnable(p) \/ ctrl_dev_chrdev_create(p)
          \/ ProbeFail(p)
      BY <2>2, ProbeStep, ProbeGoStep, ChrdevStep, ProbeFailStep
    <2>3. CASE remove_pci_dev(p) \/ RemoveRef(p) \/ RemoveDone(p)
      BY <2>3, RemoveStep, RemoveRefStep, RemoveDoneStep
    <2> QED  BY <1>2, <1>4, <2>1, <2>2, <2>3 DEF Device
  <1>5. CASE Halt
    BY <1>1, <1>5 DEF Halt
  <1> QED  BY <1>1, <1>3, <1>4, <1>5, FreedStep, ModuleStep DEF Next

\* Every reachable state satisfies the inductive invariant: ownership of slots, sorted
\* lists, settled descriptors, and, until a race, exclusive work on references.
THEOREM Invariance == Spec => []IInv
  <1>1. Init => IInv
    BY InitInv
  <1>2. IInv /\ [Next \/ Halt]_vars => IInv'
    BY StepInv
  <1> QED  BY <1>1, <1>2, PTL DEF Spec

-----------------------------------------------------------------------------
(* The theorems *)

\* Slots, descriptors and places have the values the code gives them, and no descriptor
\* claims more pages than were asked for.
THEOREM TypeCorrect == Spec => []TypeOK
  <1>1. IInv => TypeOK
    BY DEF IInv, Always
  <1> QED  BY <1>1, Invariance, PTL

\* Without a lock, no descriptor, page or page table is released twice or used after it
\* was released, unless a removal met a call in progress or GPU memory was freed under
\* a call that maps it or takes its mapping down.
THEOREM Safe == Spec => []SafeUnlessRaced
  <1>1. IInv => SafeUnlessRaced
    BY DEF IInv, Quiet, SafeUnlessRaced
  <1> QED  BY <1>1, Invariance, PTL

\* Every allocated descriptor is in exactly one list, or in the hands of one call.
LEMMA ReachableByInv ==
    ASSUME IInv
    PROVE  MapsReachable
  <1> SUFFICES ASSUME ~Raced, NEW m \in MapIds, heap[m] # NoMap
               PROVE  /\ Cardinality(Lists(m)) + Cardinality(InHand(m)) = 1
                      /\ \A x \in Lists(m) : refs[x[1]].used /\ refs[x[1]].ctrl # 0
    BY DEF MapsReachable
  <1>1. TypeOK /\ ListedOnce /\ BuiltAlone /\ RefsSound /\ NoneLost
    BY DEF IInv, Always, Quiet
  <1>2. \A x : x \in Lists(m) <=> x \in RefSlots \X Kinds /\ Listed(m, x[1], x[2])
    BY DEF Lists, Listed
  <1>3. \A t : t \in InHand(m) <=> t \in Actors /\ Has(t) /\ act[t].map = m
    BY DEF InHand, Has, Building, Halfway
  <1>4. ASSUME NEW x \in Lists(m)
        PROVE  refs[x[1]].used /\ refs[x[1]].ctrl # 0
    <2>1. x[1] \in RefSlots /\ x[2] \in Kinds /\ Listed(m, x[1], x[2])
      BY <1>2
    <2>2. MapList(x[1], x[2]) # <<>>
      <3> SUFFICES ASSUME MapList(x[1], x[2]) = <<>> PROVE FALSE
        OBVIOUS
      <3> QED  BY <2>1 DEF Listed, Contains
    <2> QED  BY <1>1, <2>1, <2>2 DEF RefsSound
  <1>5. CASE \E t \in Actors : Has(t) /\ act[t].map = m
    <2>1. PICK t \in Actors : Has(t) /\ act[t].map = m
      BY <1>5
    <2>2. /\ \A a \in Actors : a # t /\ Has(a) => act[a].map # m
          /\ \A r \in RefSlots, k \in Kinds : ~Listed(m, r, k)
      BY <1>1, <2>1 DEF BuiltAlone
    <2>3. InHand(m) = {t}
      BY <1>3, <2>1, <2>2
    <2>4. Lists(m) = {}
      BY <1>2, <2>2
    <2>5. Cardinality(InHand(m)) = 1 /\ Cardinality(Lists(m)) = 0
      BY <2>3, <2>4, FS_Singleton, FS_EmptySet
    <2> QED  BY <1>4, <2>5
  <1>6. CASE ~\E t \in Actors : Has(t) /\ act[t].map = m
    <2>1. PICK r \in RefSlots, k \in Kinds : Listed(m, r, k)
      BY <1>1, <1>6 DEF NoneLost
    <2>2. Lists(m) = {<<r, k>>}
      <3>1. <<r, k>> \in Lists(m)
        BY <1>2, <2>1
      <3>2. ASSUME NEW x \in Lists(m) PROVE x = <<r, k>>
        <4>1. x = <<x[1], x[2]>> /\ x[1] \in RefSlots /\ x[2] \in Kinds /\ Listed(m, x[1], x[2])
          BY <1>2
        <4>2. x[1] = r /\ x[2] = k
          BY <1>1, <2>1, <4>1 DEF ListedOnce
        <4> QED  BY <4>1, <4>2
      <3> QED  BY <3>1, <3>2
    <2>3. InHand(m) = {}
      BY <1>3, <1>6
    <2>4. Cardinality(Lists(m)) = 1 /\ Cardinality(InHand(m)) = 0
      BY <2>2, <2>3, FS_Singleton, FS_EmptySet
    <2> QED  BY <1>4, <2>4
  <1> QED  BY <1>5, <1>6

\* No descriptor is lost, with its pinned pages, on any path through open, the ioctls,
\* release and removal, and none is in two lists.
THEOREM NoDescriptorLost == Spec => []MapsReachable
  <1>1. IInv => MapsReachable
    BY ReachableByInv
  <1> QED  BY <1>1, Invariance, PTL

\* list_find finds an address that is in a sorted list.
LEMMA FindsMember ==
    ASSUME NEW s \in Seq(MapIds), NEW i \in 1..Len(s),
           \A j \in 1..Len(s) : heap[s[j]].vaddr \in Nat,
           \A j, k \in 1..Len(s) : j < k => heap[s[j]].vaddr <= heap[s[k]].vaddr
    PROVE  list_find(s, heap[s[i]].vaddr) # NoId
  <1>1. PICK va : va = heap[s[i]].vaddr
    OBVIOUS
  <1>2. PICK same : same = {j \in 1..Len(s) : heap[s[j]].vaddr = va}
    OBVIOUS
  <1>3. same \subseteq Nat /\ same # {}
    BY <1>1, <1>2
  <1>4. PICK l \in same : \A j \in same : l <= j
    BY <1>3, LeastNatural
  <1>5. l \in 1..Len(s) /\ heap[s[l]].vaddr = va /\ Len(s) \in Nat
    BY <1>2, <1>4
  <1>6. ASSUME NEW j \in 1..(l - 1)
        PROVE  heap[s[j]].vaddr < va
    <2>1. j \in 1..Len(s) /\ j < l
      BY <1>5
    <2>2. heap[s[j]].vaddr # va
      BY <1>2, <1>4, <1>5, <2>1
    <2>3. heap[s[j]].vaddr <= va /\ heap[s[j]].vaddr \in Nat /\ va \in Nat
      BY <1>5, <2>1
    <2> QED  BY <2>2, <2>3
  <1>7. PICK hits : hits = {j \in 1..Len(s) : /\ heap[s[j]].vaddr = va
                                              /\ \A k \in 1..(j - 1) : heap[s[k]].vaddr < va}
    OBVIOUS
  <1>8. l \in hits /\ hits \subseteq 1..Len(s) /\ hits \subseteq Nat
    BY <1>5, <1>6, <1>7
  <1>9. SmallestOf(hits) \in hits
    BY <1>8, SmallestFacts
  <1>10. s[SmallestOf(hits)] \in MapIds
    <2>1. PICK h : h = SmallestOf(hits)
      OBVIOUS
    <2>2. h \in 1..Len(s)
      BY <1>8, <1>9, <2>1
    <2> QED  BY <2>1, <2>2
  <1>11. list_find(s, va) = s[SmallestOf(hits)]
    BY <1>7, <1>8 DEF list_find
  <1>12. NoId \notin MapIds
    BY KernelAssumption DEF NoId
  <1> QED  BY <1>1, <1>10, <1>11, <1>12

\* The lists are sorted, so that the searches of the unmap ioctl find what is in them.
LEMMA FindableByInv ==
    ASSUME IInv
    PROVE  MapsFindable
  <1>1. TypeOK /\ ListsAllocated /\ ListsSorted
    BY DEF IInv, Always
  <1>2. ASSUME NEW r \in RefSlots, NEW k \in Kinds, NEW i \in 1..Len(MapList(r, k))
        PROVE  list_find(MapList(r, k), heap[MapList(r, k)[i]].vaddr) # NoId
    <2>1. PICK s : s = MapList(r, k)
      OBVIOUS
    <2>2. s \in Seq(MapIds)
      BY <1>1, <2>1, RefFacts
    <2>3. ASSUME NEW j \in 1..Len(s) PROVE heap[s[j]].vaddr \in Nat
      <3>1. heap[s[j]] # NoMap
        BY <1>1, <2>1 DEF ListsAllocated
      <3>2. s[j] \in MapIds
        BY <2>2
      <3>3. heap[s[j]] \in MapType
        BY <1>1, <3>1, <3>2 DEF TypeOK
      <3> QED  BY <3>3, MapFacts
    <2>4. \A j, l \in 1..Len(s) : j < l => heap[s[j]].vaddr <= heap[s[l]].vaddr
      BY <1>1, <2>1 DEF ListsSorted
    <2>5. i \in 1..Len(s)
      BY <2>1
    <2>6. list_find(s, heap[s[i]].vaddr) # NoId
      BY <2>2, <2>3, <2>4, <2>5, FindsMember
    <2> QED  BY <2>1, <2>6
  <1>3. \A r : MapList(r, "user") = refs[r].user /\ MapList(r, "gpu") = refs[r].gpu
    BY DEF MapList
  <1>4. "user" \in Kinds /\ "gpu" \in Kinds
    BY DEF Kinds
  <1>5. ASSUME NEW r \in RefSlots, NEW i \in 1..Len(refs[r].user)
        PROVE  list_find(refs[r].user, heap[refs[r].user[i]].vaddr) # NoId
    BY <1>2, <1>3, <1>4
  <1>6. ASSUME NEW r \in RefSlots, NEW i \in 1..Len(refs[r].gpu)
        PROVE  list_find(refs[r].gpu, heap[refs[r].gpu[i]].vaddr) # NoId
    BY <1>2, <1>3, <1>4
  <1> QED  BY <1>5, <1>6 DEF MapsFindable, find_user_page_map, find_gpu_map

\* The unmap ioctl finds every mapping of a reference by its address, whatever
\* insertions, removals and races came before.
THEOREM MappingsFound == Spec => []MapsFindable
  <1>1. IInv => MapsFindable
    BY FindableByInv
  <1> QED  BY <1>1, Invariance, PTL

\* A slot that is not used is empty.
LEMMA UnusedSlot ==
    ASSUME DevSlotsOwned, NEW d \in DevSlots, ~devs[d].used
    PROVE  devs[d] = NoDev
  <1> SUFFICES ASSUME devs[d] # NoDev PROVE FALSE
    OBVIOUS
  <1>1. PICK q \in Pdevs : act[q].pc # "unbound" /\ act[q].dev = d
    BY DEF DevSlotsOwned
  <1>2. devs[act[q].dev].used
    BY <1>1, SlotFields
  <1> QED  BY <1>1, <1>2

\* While the module is being loaded no device has a slot and, unless there was a race,
\* no reference leads anywhere.
LEMMA EmptyModule ==
    ASSUME IInv, ~Raced, mod \in 1..5
    PROVE  /\ (\A t \in Tasks : Idle(t)) /\ (\A p \in Pdevs : act[p].pc = "unbound")
           /\ \A r \in RefSlots : refs[r].owner = NoTask /\ \A k \in Kinds : MapList(r, k) = <<>>
  <1>1. TypeOK /\ DevSlotsOwned /\ LoadedInOrder /\ RefsSound
    BY DEF IInv, Always, Quiet
  <1>2. (\A t \in Tasks : Idle(t)) /\ \A p \in Pdevs : act[p].pc = "unbound"
    BY <1>1 DEF LoadedInOrder, Loaded, Exiting
  <1>3. \A d \in DevSlots : ~devs[d].chr
    BY <1>1, <1>2 DEF DevSlotsOwned, NoDev
  <1>4. ASSUME NEW r \in RefSlots PROVE refs[r].ctrl = 0
    <2> SUFFICES ASSUME refs[r].ctrl # 0 PROVE FALSE
      OBVIOUS
    <2>1. refs[r].ctrl \in 0..NumDevs /\ NumDevs \in Nat
      BY <1>1, RefFacts, SlotFacts
    <2>2. refs[r].ctrl \in DevSlots
      BY <2>1 DEF DevSlots
    <2> QED  BY <1>1, <1>3, <2>2 DEF RefsSound
  <1> QED  BY <1>1, <1>2, <1>4 DEF RefsSound

\* What was taken is given back when a device is unbound or the module not loaded.
LEMMA NothingLeftByInv ==
    ASSUME IInv
    PROVE  NothingLeft
  <1>1. TypeOK /\ DevSlotsOwned /\ PciTaken /\ LoadedInOrder
    BY DEF IInv, Always
  <1>2. \A p \in Pdevs : act[p].pc = "unbound" => pci[p] = Unbound
    BY <1>1 DEF PciTaken
  <1>3. mod = 1 => held = {}
    <2>1. {EntryOrder[i] : i \in 1..(1 - 1)} = {}
      OBVIOUS
    <2> QED  BY <1>1, <2>1 DEF LoadedInOrder
  <1>4. ASSUME ~Raced, NEW d \in DevSlots, ~devs[d].used, NEW r \in RefSlots
        PROVE  refs[r].ctrl # d
    <2>1. ~devs[d].chr
      BY <1>1, <1>4, UnusedSlot DEF NoDev
    <2>2. RefsSound /\ d # 0
      BY <1>4, SlotFacts DEF IInv, Quiet
    <2> QED  BY <2>1, <2>2 DEF RefsSound
  <1>5. ASSUME ~Raced, mod = 1, NEW m \in MapIds
        PROVE  heap[m] = NoMap
    <2>1. /\ (\A t \in Tasks : Idle(t)) /\ (\A p \in Pdevs : act[p].pc = "unbound")
          /\ \A r \in RefSlots, k \in Kinds : MapList(r, k) = <<>>
      BY <1>5, EmptyModule
    <2>2. \A r \in RefSlots, k \in Kinds : ~Listed(m, r, k)
      BY <2>1 DEF Listed, Contains
    <2>3. \A a \in Actors : ~Has(a)
      BY <2>1 DEF Actors, Has, Building, Halfway, Idle
    <2>4. NoneLost
      BY <1>5 DEF IInv, Quiet
    <2> QED  BY <2>2, <2>3, <2>4 DEF NoneLost
  <1> QED  BY <1>2, <1>3, <1>4, <1>5 DEF NothingLeft

\* Unbinding a device, unloading the module and failing to load it leave nothing behind:
\* no region or enabled device, no reference to a freed slot, no pinned page.
THEOREM GivenBack == Spec => []NothingLeft
  <1>1. IInv => NothingLeft
    BY NothingLeftByInv
  <1> QED  BY <1>1, Invariance, PTL

\* A list gets shorter in a step.
Shorter(r) == Len(refs'[r].user) < Len(refs[r].user) \/ Len(refs'[r].gpu) < Len(refs[r].gpu)

\* A list that stays the same or grows does not get shorter.
LEMMA NotShorter ==
    ASSUME TypeOK, NEW r \in RefSlots,
           \A k \in Kinds : Len(MapList(r, k)') >= Len(MapList(r, k))
    PROVE  ~Shorter(r)
  <1>1. "user" \in Kinds /\ "gpu" \in Kinds
    BY DEF Kinds
  <1>2. /\ Len(refs'[r].user) >= Len(refs[r].user) /\ Len(refs'[r].gpu) >= Len(refs[r].gpu)
    <2>1. MapList(r, "user")' = refs'[r].user /\ MapList(r, "user") = refs[r].user
      BY DEF MapList
    <2>2. MapList(r, "gpu")' = refs'[r].gpu /\ MapList(r, "gpu") = refs[r].gpu
      BY DEF MapList
    <2> QED  BY <1>1, <2>1, <2>2
  <1>3. Len(refs[r].user) \in Nat /\ Len(refs[r].gpu) \in Nat
    BY RefFacts DEF RefType
  <1> QED  BY <1>2, <1>3 DEF Shorter

\* Where the references stay as they are, no list gets shorter.
LEMMA RefsKept ==
    ASSUME TypeOK, NEW r \in RefSlots, \A k \in Kinds : MapList(r, k)' = MapList(r, k)
    PROVE  ~Shorter(r)
  <1>1. ASSUME NEW k \in Kinds PROVE Len(MapList(r, k)') >= Len(MapList(r, k))
    <2>1. Len(MapList(r, k)) \in Nat
      BY RefFacts
    <2> QED  BY <2>1
  <1> QED  BY <1>1, NotShorter

\* A release shortens lists of the releasing task's reference, or a removal goes on.
LEMMA DropShortens ==
    ASSUME IInv, ~Raced, NEW a \in Actors, (a \in Tasks /\ UnmapMemory(a)) \/ PutDrop(a),
           NEW r \in RefSlots, Shorter(r)
    PROVE  \/ refs[r].owner = a /\ act'[a] # act[a]
           \/ \E p \in Pdevs : Removing(p)
  <1>1. TypeOK /\ Pointers /\ FieldsSettled /\ ListedOnce /\ Knows(a)
    BY DEF IInv, Always, Quiet
  <1>2. PICK m : m = act[a].map
    OBVIOUS
  <1>3. /\ m \in MapIds /\ act[a].pc \in {"unmap", "drop"}
        /\ \/ UNCHANGED refs
           \/ /\ \A s \in RefSlots, k \in Kinds : MapList(s, k)' = Unlink(MapList(s, k), m)
              /\ act'[a].pc \in {"idle", "put", "dma"}
    BY <1>1, <1>2, DropEffect
  <1>4. CASE UNCHANGED refs
    <2>1. \A k \in Kinds : MapList(r, k)' = MapList(r, k)
      BY <1>4 DEF MapList
    <2> QED  BY <1>1, <2>1, RefsKept
  <1>5. CASE /\ \A s \in RefSlots, k \in Kinds : MapList(s, k)' = Unlink(MapList(s, k), m)
             /\ act'[a].pc \in {"idle", "put", "dma"}
    <2>1. PICK k \in Kinds : Listed(m, r, k)
      <3> SUFFICES ASSUME \A k \in Kinds : ~Listed(m, r, k) PROVE FALSE
        OBVIOUS
      <3>1. ASSUME NEW k \in Kinds PROVE MapList(r, k)' = MapList(r, k)
        <4>1. ~Contains(MapList(r, k), m)
          BY DEF Listed
        <4>2. Unlink(MapList(r, k), m) = MapList(r, k)
          BY <4>1 DEF Unlink
        <4> QED  BY <1>5, <4>2
      <3> QED  BY <1>1, <3>1, RefsKept
    <2>2. PICK l \in Kinds : Listed(m, act[a].ref, l)
      BY <1>1, <1>2, <1>3 DEF Knows, Dropping
    <2>3. act[a].ref \in RefSlots
      BY <1>1, <1>3 DEF Pointers, PlaceOK
    <2>4. r = act[a].ref
      BY <1>1, <1>3, <2>1, <2>2, <2>3 DEF ListedOnce
    <2>5. CASE a \in Tasks
      <3>1. refs[r].owner = a
        BY <1>1, <1>3, <2>4, <2>5 DEF Knows, Owning
      <3>2. act'[a].pc # act[a].pc
        BY <1>3, <1>5
      <3> QED  BY <3>1, <3>2
    <2>6. CASE a \in Pdevs
      <3>1. act[a].pc \in DevicePcs
        BY <1>1, <2>6, KernelAssumption DEF Pointers, PlaceOK, Actors
      <3>2. Removing(a)
        BY <1>3, <3>1 DEF DevicePcs, Removing
      <3> QED  BY <2>6, <3>2
    <2> QED  BY <2>5, <2>6 DEF Actors
  <1> QED  BY <1>3, <1>4, <1>5

\* An insertion shortens no list.
LEMMA InsertLengthens ==
    ASSUME IInv, NEW t \in Tasks, MapInsert(t), NEW r \in RefSlots
    PROVE  ~Shorter(r)
  <1>1. TypeOK /\ Pointers /\ BuiltAlone /\ ListsAllocated
    BY DEF IInv, Always
  <1>2. PICK q, m, l : q = act[t].ref /\ m = act[t].map /\ l = heap[m].type
    OBVIOUS
  <1>3. /\ q \in RefSlots /\ m \in MapIds /\ l \in Kinds
        /\ \A s \in RefSlots, k \in Kinds : s # q \/ k # l => MapList(s, k)' = MapList(s, k)
        /\ \E i \in 1..(Len(MapList(q, l)) + 1) : MapList(q, l)' = InsertAt(MapList(q, l), i, m)
    BY <1>1, <1>2, InsertEffect
  <1>4. ASSUME NEW k \in Kinds PROVE Len(MapList(r, k)') >= Len(MapList(r, k))
    <2>1. MapList(r, k) \in Seq(MapIds) /\ Len(MapList(r, k)) \in Nat
      BY <1>1, RefFacts
    <2>2. CASE r # q \/ k # l
      <3>1. MapList(r, k)' = MapList(r, k)
        BY <1>3, <2>2
      <3> QED  BY <2>1, <3>1
    <2>3. CASE r = q /\ k = l
      <3>1. PICK i \in 1..(Len(MapList(r, k)) + 1) : MapList(r, k)' = InsertAt(MapList(r, k), i, m)
        BY <1>3, <2>3
      <3>2. Len(InsertAt(MapList(r, k), i, m)) = Len(MapList(r, k)) + 1
        BY <1>3, <2>1, InsertFacts
      <3> QED  BY <2>1, <3>1, <3>2
    <2> QED  BY <2>2, <2>3
  <1> QED  BY <1>1, <1>4, NotShorter

\* Only a release shortens the lists of a reference that has an owner.
LEMMA OwnerShortens ==
    ASSUME IInv, [Next \/ Halt]_vars, ~Raced, NEW r \in RefSlots, refs[r].owner # NoTask, Shorter(r)
    PROVE  \E a \in Actors : (a \in Tasks /\ UnmapMemory(a)) \/ PutDrop(a)
  <1>1. TypeOK /\ Pointers
    BY DEF IInv, Always
  <1>2. ASSUME UNCHANGED refs PROVE FALSE
    <2>1. \A k \in Kinds : MapList(r, k)' = MapList(r, k)
      BY <1>2 DEF MapList
    <2> QED  BY <1>1, <2>1, RefsKept
  <1>3. ASSUME NEW a \in Actors, Put(a) PROVE PutDrop(a)
    <2>1. CASE PutPick(a)
      BY <1>2, <2>1 DEF PutPick
    <2>2. CASE PutClear(a)
      <3>1. \A k \in Kinds : MapList(r, k)' = MapList(r, k)
        BY <1>1, <2>2, ClearEffect
      <3> QED  BY <1>1, <3>1, RefsKept
    <2>3. CASE PutDone(a)
      <3>1. \A k \in Kinds : MapList(r, k)' = MapList(r, k)
        BY <1>1, <2>3, DoneEffect
      <3> QED  BY <1>1, <3>1, RefsKept
    <2>4. CASE UnmapDma(a) \/ UnmapPut(a)
      BY <1>2, <2>4 DEF UnmapDma, UnmapPut, Crash
    <2> QED  BY <1>3, <2>1, <2>2, <2>3, <2>4 DEF Put
  <1>4. ASSUME NEW t \in Tasks, Task(t) PROVE UnmapMemory(t) \/ Put(t)
    <2>1. CASE \E f \in Files : OpenFind(t, f) \/ IoctlMap(t, f) \/ UnmapFind(t, f) \/ Release(t, f)
      BY <1>2, <2>1 DEF OpenFind, IoctlMap, UnmapFind, Release
    <2>2. CASE OpenNext(t) \/ MapPin(t) \/ MapUser(t) \/ MapGpu(t)
      BY <1>2, <2>2 DEF OpenNext, MapPin, MapUser, MapGpu, Crash
    <2>3. CASE OpenClaim(t)
      <3>1. \A k \in Kinds : MapList(r, k)' = MapList(r, k)
        BY <1>1, <2>3, ClaimEffect
      <3> QED  BY <1>1, <3>1, RefsKept
    <2>4. CASE OpenInit(t)
      <3>1. Knows(t) /\ act[t].pc = "init"
        BY <2>4 DEF IInv, Quiet, Actors, OpenInit
      <3>2. refs[act[t].ref].owner = NoTask
        BY <3>1 DEF Knows
      <3>3. \A k \in Kinds : MapList(r, k)' = MapList(r, k)
        BY <1>1, <2>4, <3>2, InitEffect
      <3> QED  BY <1>1, <3>3, RefsKept
    <2>5. CASE MapInsert(t)
      BY <2>5, InsertLengthens
    <2> QED  BY <1>4, <2>1, <2>2, <2>3, <2>4, <2>5 DEF Task
  <1>5. ASSUME NEW p \in Pdevs, Device(p) PROVE Put(p)
    BY <1>2, <1>5 DEF Device, Probe, ProbeRegion, ProbeEnable, ctrl_dev_chrdev_create,
        ProbeFail,
                      remove_pci_dev, RemoveRef, RemoveDone
  <1>6. ASSUME NEW m \in MapIds, free_callback(m) PROVE FALSE
    BY <1>2, <1>6 DEF free_callback
  <1>7. ASSUME Module PROVE FALSE
    <2>1. CASE EntryStep
      BY <2>1, EmptyModule DEF EntryStep
    <2>2. CASE EntryFail \/ ExitStart \/ ExitFree
      BY <1>2, <2>2 DEF EntryFail, ExitStart, ExitFree
    <2> QED  BY <1>7, <2>1, <2>2 DEF Module
  <1>8. ~UNCHANGED vars /\ ~Halt
    BY <1>2 DEF vars, Halt
  <1>9. (\E t \in Tasks : Task(t)) \/ (\E p \in Pdevs : Device(p))
    BY <1>6, <1>7, <1>8 DEF Next
  <1> QED  BY <1>3, <1>4, <1>5, <1>9 DEF Actors

\* A task's mappings leave its reference by a step of that task or by a removal: no
\* other task reaches them through a file it shares.
THEOREM OwnerUnmaps == Spec => OnlyOwnerUnmaps
  <1> DEFINE Kept == \A r \in RefSlots :
          (~Raced /\ refs[r].owner # NoTask /\ (Len(refs'[r].user) < Len(refs[r].user)
                                      \/ Len(refs'[r].gpu) < Len(refs[r].gpu)))
             => \/ act'[refs[r].owner] # act[refs[r].owner]
                \/ \E p \in Pdevs : Removing(p)
  <1>1. IInv /\ [Next \/ Halt]_vars => Kept
    <2> SUFFICES ASSUME IInv, [Next \/ Halt]_vars, NEW r \in RefSlots, ~Raced,
                        refs[r].owner # NoTask, Shorter(r)
                 PROVE  \/ act'[refs[r].owner] # act[refs[r].owner]
                        \/ \E p \in Pdevs : Removing(p)
      BY DEF Shorter
    <2>1. PICK a \in Actors : (a \in Tasks /\ UnmapMemory(a)) \/ PutDrop(a)
      BY OwnerShortens
    <2> QED  BY <2>1, DropShortens
  <1> HIDE DEF Kept
  <1>2. IInv /\ [Next \/ Halt]_vars => [Kept]_vars
    BY <1>1
  <1>3. Spec => [][Kept]_vars
    BY <1>2, Invariance, PTL DEF Spec
  <1> QED  BY <1>3 DEF OnlyOwnerUnmaps, Kept
=============================================================================
