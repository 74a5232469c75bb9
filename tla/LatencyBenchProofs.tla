------------------------- MODULE LatencyBenchProofs -------------------------
(***************************************************************************)
(* Proofs about LatencyBench for every number and size of queues, every     *)
(* depth and whatever transfers the plan gives them; and about the plan.    *)
(***************************************************************************)
EXTENDS LatencyBenchInv, NvmQueueProofs, FiniteSetTheorems, TLAPS

Waiting == {"spin", "zero", "raise", "submit"}

\* The number of queues is at least 1.
LEMMA PlanSize ==
    ASSUME NEW p \in Plans
    PROVE  p.n \in Nat \ {0}
  <1>1. PICK c \in Granted, s \in Granted : p.n = NumQueues(c, s)
    BY DEF Plans
  <1>2. c \in Nat \ {0} /\ s \in Nat \ {0} /\ Requested \in Nat \ {0}
    BY BenchAssumption
  <1> QED  BY <1>1, <1>2 DEF NumQueues, MinOf

\* A set of queues that has as many members as there are queues has all of them.
LEMMA AllInside ==
    ASSUME NEW n \in Nat, NEW S \in SUBSET (1..n), Cardinality(S) = n
    PROVE  S = 1..n
  <1>1. IsFiniteSet(1..n) /\ Cardinality(1..n) = n
    BY FS_Interval
  <1> QED  BY <1>1, FS_Subset

\* The threads inside are finitely many.
LEMMA InsidersFinite ==
    ASSUME BarrierType
    PROVE  IsFiniteSet(Insiders) /\ Cardinality(Insiders) \in Nat /\ Insiders \subseteq 1..plan.n
  <1>1. plan.n \in Nat /\ IsFiniteSet(1..plan.n)
    BY FS_Interval DEF BarrierType
  <1>2. Insiders \subseteq 1..plan.n
    BY DEF Insiders, Queues
  <1> QED  BY <1>1, <1>2, FS_Subset, FS_CardinalityType

\* Steps away from the barrier leave the invariant alone.
LEMMA PlainStep ==
    ASSUME BarrierInv, MadeInOrder', made' \in Nat, UNCHANGED <<plan, barrierVars, history>>,
           \/ UNCHANGED pc
           \/ \E i \in Queues, to \in ThreadPcs :
                 pc' = [pc EXCEPT ![i] = to] /\ pc[i] \notin Waiting /\ to \notin Waiting
    PROVE  BarrierInv'
  <1>1. UNCHANGED <<plan, arrived, flag, localFlag, meets, sent>> /\ Queues' = Queues
    BY DEF barrierVars, history, Queues
  <1>2. BarrierType'
    BY <1>1 DEF BarrierInv, BarrierType
  <1>3. \A k \in Queues : pc'[k] = pc[k] \/ (pc[k] \notin Waiting /\ pc'[k] \notin Waiting)
    BY DEF BarrierInv, BarrierType
  <1>4. \A k \in Queues : /\ Inside(k)' = Inside(k) /\ Ahead(k)' = Ahead(k)
                          /\ (pc'[k] = "raise") = (pc[k] = "raise")
    BY <1>1, <1>3 DEF Inside, Ahead, Waiting
  <1>5. Insiders' = Insiders
    BY <1>1, <1>4 DEF Insiders
  <1>6. LastOpens'
    BY <1>1, <1>3 DEF BarrierInv, LastOpens, Waiting
  <1>7. Counted'
    BY <1>1, <1>4, <1>5 DEF BarrierInv, Counted
  <1>8. EqualPasses' /\ SubmitsAfter'
    BY <1>1, <1>4 DEF BarrierInv, EqualPasses, SubmitsAfter, One
  <1> QED  BY <1>2, <1>6, <1>7, <1>8 DEF BarrierInv

\* A thread that takes a step has been made.
LEMMA Made ==
    ASSUME BarrierInv, NEW i \in Queues, pc[i] # "none", UNCHANGED <<plan, mpc, made>>,
           \A k \in Queues : k # i => pc'[k] = pc[k]
    PROVE  MadeInOrder' /\ made' \in Nat
  <1>1. BarrierType /\ MadeInOrder /\ Queues' = Queues
    BY DEF BarrierInv, Queues
  <1> QED  BY <1>1 DEF MadeInOrder, BarrierType

\* Nobody opens the barrier while a thread is elsewhere.
LEMMA NobodyOpens ==
    ASSUME LastOpens, NEW i \in Queues, pc[i] \notin {"spin", "zero", "raise"}
    PROVE  \A k \in Queues : pc[k] \notin {"zero", "raise"}
  BY DEF LastOpens

\* A thread arrives: the last one finds all others inside.
LEMMA ArriveStep ==
    ASSUME BarrierInv, NEW i \in Queues, Arrive(i)
    PROVE  BarrierInv'
  <1>1. BarrierType /\ LastOpens /\ Counted /\ EqualPasses /\ SubmitsAfter
    BY DEF BarrierInv
  <1>2. /\ pc[i] = "wait" /\ UNCHANGED <<plan, mpc, made, flag, sent>> /\ Queues' = Queues
        /\ localFlag' = [localFlag EXCEPT ![i] = 1 - flag]
        /\ arrived' = arrived + 1
        /\ pc' = [pc EXCEPT ![i] = IF arrived + 1 = plan.n THEN "zero" ELSE "spin"]
        /\ meets' = [meets EXCEPT ![i] = meets[i] + 1]
    BY DEF Arrive, Goto, mainVars, Queues
  <1>3. BarrierType'
    BY <1>1, <1>2 DEF BarrierType, ThreadPcs, Bit
  <1>4. /\ pc'[i] \in {"zero", "spin"} /\ localFlag'[i] # flag' /\ meets'[i] = meets[i] + 1
        /\ \A k \in Queues : k # i => pc'[k] = pc[k] /\ localFlag'[k] = localFlag[k] /\ meets'[k] = meets[k]
    BY <1>1, <1>2 DEF BarrierType, Bit
  <1>5. \A k \in Queues : pc[k] \notin {"zero", "raise"}
    BY <1>1, <1>2, NobodyOpens
  <1>6. ~Inside(i) /\ Inside(i)' /\ ~Ahead(i) /\ Ahead(i)'
    BY <1>2, <1>4 DEF Inside, Ahead
  <1>7. \A k \in Queues : k # i => Inside(k)' = Inside(k) /\ Ahead(k)' = Ahead(k)
    BY <1>2, <1>4 DEF Inside, Ahead
  <1>8. Insiders' = Insiders \union {i} /\ i \notin Insiders
    BY <1>2, <1>6, <1>7 DEF Insiders
  <1>9. arrived = Cardinality(Insiders) /\ Cardinality(Insiders') = Cardinality(Insiders) + 1
    <2>1. arrived = Cardinality(Insiders)
      BY <1>1, <1>5 DEF Counted
    <2>2. Cardinality(Insiders \union {i}) = Cardinality(Insiders) + 1
      BY <1>1, <1>8, InsidersFinite, FS_AddElement
    <2> QED  BY <1>8, <2>1, <2>2
  <1>10. Counted'
    <2>1. \A k \in Queues' : pc'[k] # "raise"
      BY <1>2, <1>4, <1>5
    <2>2. arrived' = Cardinality(Insiders')
      BY <1>2, <1>9
    <2> QED  BY <2>1, <2>2 DEF Counted
  <1>11. LastOpens'
    <2>1. CASE arrived + 1 # plan.n
      <3>1. pc'[i] = "spin"
        BY <1>1, <1>2, <2>1 DEF BarrierType
      <3>2. \A k \in Queues : pc'[k] \notin {"zero", "raise"}
        BY <1>4, <1>5, <3>1
      <3> QED  BY <1>2, <3>2 DEF LastOpens
    <2>2. CASE arrived + 1 = plan.n
      <3>1. PICK S : S = Insiders'
        OBVIOUS
      <3>2. plan.n \in Nat /\ S \subseteq 1..plan.n /\ Cardinality(S) = plan.n
        <4>1. S \subseteq Queues'
          BY <3>1 DEF Insiders
        <4> QED  BY <1>1, <1>2, <1>9, <2>2, <3>1, <4>1 DEF BarrierType, Queues
      <3>3. S = Queues
        BY <3>2, AllInside DEF Queues
      <3>4. \A k \in Queues : Inside(k)'
        BY <3>1, <3>3 DEF Insiders
      <3>5. \A k \in Queues : k # i => pc'[k] = "spin" /\ localFlag'[k] # flag'
        BY <1>4, <1>5, <3>4 DEF Inside
      <3>6. \A k \in Queues : pc'[k] \in {"zero", "raise"} => k = i
        BY <3>5
      <3> QED  BY <1>2, <1>4, <3>5, <3>6 DEF LastOpens
    <2> QED  BY <2>1, <2>2
  <1>12. ASSUME NEW k \in Queues
         PROVE  meets'[k] - One(Inside(k))' = meets[k] - One(Inside(k))
    <2>1. meets[k] \in Nat
      BY <1>1 DEF BarrierType
    <2>2. CASE k = i
      <3>1. One(Inside(i)) = 0 /\ One(Inside(i))' = 1
        BY <1>6 DEF One
      <3> QED  BY <1>4, <2>1, <2>2, <3>1
    <2>3. CASE k # i
      BY <1>4, <1>7, <2>3 DEF One
    <2> QED  BY <2>2, <2>3
  <1>13. EqualPasses'
    BY <1>1, <1>2, <1>12 DEF EqualPasses
  <1>14. SubmitsAfter'
    <2> SUFFICES ASSUME NEW k \in Queues PROVE sent'[k] = meets'[k] - One(Ahead(k))'
      BY <1>2 DEF SubmitsAfter
    <2>1. meets[k] \in Nat /\ sent'[k] = meets[k] - One(Ahead(k))
      BY <1>1, <1>2 DEF BarrierType, SubmitsAfter
    <2>2. CASE k = i
      <3>1. One(Ahead(i)) = 0 /\ One(Ahead(i))' = 1
        BY <1>6 DEF One
      <3> QED  BY <1>4, <2>1, <2>2, <3>1
    <2>3. CASE k # i
      BY <1>4, <1>7, <2>1, <2>3 DEF One
    <2> QED  BY <2>2, <2>3
  <1>20. MadeInOrder'
    BY <1>2, <1>4, Made
  <1> QED  BY <1>3, <1>10, <1>11, <1>13, <1>14, <1>20 DEF BarrierInv

\* The last thread resets the counter.
LEMMA ZeroStep ==
    ASSUME BarrierInv, NEW i \in Queues, Zero(i)
    PROVE  BarrierInv'
  <1>1. BarrierType /\ LastOpens /\ Counted /\ EqualPasses /\ SubmitsAfter
    BY DEF BarrierInv
  <1>2. /\ pc[i] = "zero" /\ UNCHANGED <<plan, mpc, made, flag, localFlag, meets, sent>> /\ Queues' = Queues
        /\ arrived' = 0 /\ pc' = [pc EXCEPT ![i] = "raise"]
    BY DEF Zero, Goto, mainVars, history, Queues
  <1>3. BarrierType'
    BY <1>1, <1>2 DEF BarrierType, ThreadPcs
  <1>4. pc'[i] = "raise" /\ \A k \in Queues : k # i => pc'[k] = pc[k]
    BY <1>1, <1>2 DEF BarrierType
  <1>5. LastOpens'
    BY <1>1, <1>2, <1>4 DEF LastOpens
  <1>6. Counted'
    BY <1>2, <1>4 DEF Counted
  <1>7. \A k \in Queues : Inside(k)' = Inside(k) /\ Ahead(k)' = Ahead(k)
    BY <1>2, <1>4 DEF Inside, Ahead
  <1>8. EqualPasses' /\ SubmitsAfter'
    BY <1>1, <1>2, <1>7 DEF EqualPasses, SubmitsAfter, One
  <1>20. MadeInOrder'
    BY <1>2, <1>4, Made
  <1> QED  BY <1>3, <1>5, <1>6, <1>8, <1>20 DEF BarrierInv

\* It turns the flag: everybody is outside at once.
LEMMA RaiseStep ==
    ASSUME BarrierInv, NEW i \in Queues, Raise(i)
    PROVE  BarrierInv'
  <1>1. BarrierType /\ LastOpens /\ Counted /\ EqualPasses /\ SubmitsAfter
    BY DEF BarrierInv
  <1>2. /\ pc[i] = "raise" /\ UNCHANGED <<plan, mpc, made, arrived, localFlag, meets, sent>> /\ Queues' = Queues
        /\ flag' = localFlag[i] /\ pc' = [pc EXCEPT ![i] = "submit"]
    BY DEF Raise, Goto, mainVars, history, Queues
  <1>3. BarrierType'
    BY <1>1, <1>2 DEF BarrierType, ThreadPcs
  <1>4. pc'[i] = "submit" /\ \A k \in Queues : k # i => pc'[k] = pc[k]
    BY <1>1, <1>2 DEF BarrierType
  <1>5. /\ \A k \in Queues : k # i => pc[k] = "spin" /\ localFlag[k] # flag
        /\ localFlag[i] # flag
    BY <1>1, <1>2 DEF LastOpens
  <1>6. \A k \in Queues : localFlag'[k] = flag'
    BY <1>1, <1>2, <1>5 DEF BarrierType, Bit
  <1>7. \A k \in Queues : Inside(k) /\ ~Inside(k)' /\ Ahead(k) /\ Ahead(k)'
    BY <1>2, <1>4, <1>5, <1>6 DEF Inside, Ahead
  <1>8. LastOpens'
    BY <1>2, <1>4, <1>5 DEF LastOpens
  <1>9. Counted'
    <2>1. Insiders' = {}
      BY <1>2, <1>7 DEF Insiders
    <2>2. arrived = 0
      BY <1>1, <1>2 DEF Counted
    <2>3. \A k \in Queues' : pc'[k] # "raise"
      BY <1>2, <1>4, <1>5
    <2> QED  BY <1>2, <2>1, <2>2, <2>3, FS_EmptySet DEF Counted
  <1>10. EqualPasses'
    <2> SUFFICES ASSUME NEW k \in Queues, NEW l \in Queues
                 PROVE  meets'[k] - One(Inside(k))' = meets'[l] - One(Inside(l))'
      BY <1>2 DEF EqualPasses
    <2>1. meets[k] \in Nat /\ meets[l] \in Nat /\ meets[k] - One(Inside(k)) = meets[l] - One(Inside(l))
      BY <1>1 DEF BarrierType, EqualPasses
    <2>2. /\ One(Inside(k)) = 1 /\ One(Inside(l)) = 1
          /\ One(Inside(k))' = 0 /\ One(Inside(l))' = 0
      BY <1>7 DEF One
    <2> QED  BY <1>2, <2>1, <2>2
  <1>11. SubmitsAfter'
    <2> SUFFICES ASSUME NEW k \in Queues PROVE sent'[k] = meets'[k] - One(Ahead(k))'
      BY <1>2 DEF SubmitsAfter
    <2>1. sent[k] = meets[k] - One(Ahead(k)) /\ One(Ahead(k))' = One(Ahead(k))
      BY <1>1, <1>7 DEF SubmitsAfter, One
    <2> QED  BY <1>2, <2>1
  <1>20. MadeInOrder'
    BY <1>2, <1>4, Made
  <1> QED  BY <1>3, <1>8, <1>9, <1>10, <1>11, <1>20 DEF BarrierInv

\* A waiting thread sees that the flag has turned.
LEMMA SpinStep ==
    ASSUME BarrierInv, NEW i \in Queues, Spin(i)
    PROVE  BarrierInv'
  <1>1. BarrierType /\ LastOpens /\ Counted /\ EqualPasses /\ SubmitsAfter
    BY DEF BarrierInv
  <1>2. /\ pc[i] = "spin" /\ flag = localFlag[i] /\ Queues' = Queues
        /\ UNCHANGED <<plan, mpc, made, arrived, flag, localFlag, meets, sent>>
        /\ pc' = [pc EXCEPT ![i] = "submit"]
    BY DEF Spin, Goto, mainVars, barrierVars, history, Queues
  <1>3. BarrierType'
    BY <1>1, <1>2 DEF BarrierType, ThreadPcs
  <1>4. pc'[i] = "submit" /\ \A k \in Queues : k # i => pc'[k] = pc[k]
    BY <1>1, <1>2 DEF BarrierType
  <1>5. \A k \in Queues : pc[k] \notin {"zero", "raise"}
    BY <1>1, <1>2 DEF LastOpens
  <1>6. \A k \in Queues : pc'[k] \notin {"zero", "raise"}
    BY <1>4, <1>5
  <1>7. \A k \in Queues : Inside(k)' = Inside(k) /\ Ahead(k)' = Ahead(k)
    BY <1>2, <1>4 DEF Inside, Ahead
  <1>8. Insiders' = Insiders
    BY <1>2, <1>7 DEF Insiders
  <1>9. LastOpens' /\ Counted'
    BY <1>1, <1>2, <1>5, <1>6, <1>8 DEF LastOpens, Counted
  <1>10. EqualPasses' /\ SubmitsAfter'
    BY <1>1, <1>2, <1>7 DEF EqualPasses, SubmitsAfter, One
  <1>20. MadeInOrder'
    BY <1>2, <1>4, Made
  <1> QED  BY <1>3, <1>9, <1>10, <1>20 DEF BarrierInv

\* The window is submitted.
LEMMA SubmitStep ==
    ASSUME BarrierInv, NEW i \in Queues, SubmitWindow(i)
    PROVE  BarrierInv'
  <1>1. BarrierType /\ LastOpens /\ Counted /\ EqualPasses /\ SubmitsAfter
    BY DEF BarrierInv
  <1>2. /\ pc[i] = "submit" /\ Queues' = Queues
        /\ UNCHANGED <<plan, mpc, made, arrived, flag, localFlag, meets>>
        /\ pc' = [pc EXCEPT ![i] = "reap"]
        /\ sent' = [sent EXCEPT ![i] = sent[i] + 1]
    BY DEF SubmitWindow, Goto, mainVars, barrierVars, Queues
  <1>3. BarrierType'
    BY <1>1, <1>2 DEF BarrierType, ThreadPcs
  <1>4. /\ pc'[i] = "reap" /\ sent'[i] = sent[i] + 1
        /\ \A k \in Queues : k # i => pc'[k] = pc[k] /\ sent'[k] = sent[k]
    BY <1>1, <1>2 DEF BarrierType
  <1>5. \A k \in Queues : pc[k] \notin {"zero", "raise"} /\ pc'[k] \notin {"zero", "raise"}
    BY <1>1, <1>2, <1>4, NobodyOpens
  <1>6. \A k \in Queues : Inside(k)' = Inside(k)
    BY <1>2, <1>4 DEF Inside
  <1>7. Insiders' = Insiders
    BY <1>2, <1>6 DEF Insiders
  <1>8. LastOpens' /\ Counted'
    BY <1>1, <1>2, <1>5, <1>7 DEF LastOpens, Counted
  <1>9. EqualPasses'
    BY <1>1, <1>2, <1>6 DEF EqualPasses, One
  <1>10. SubmitsAfter'
    <2> SUFFICES ASSUME NEW k \in Queues PROVE sent'[k] = meets'[k] - One(Ahead(k))'
      BY <1>2 DEF SubmitsAfter
    <2>1. meets[k] \in Nat /\ sent[k] \in Nat /\ sent[k] = meets[k] - One(Ahead(k))
      BY <1>1 DEF BarrierType, SubmitsAfter
    <2>2. CASE k = i
      <3>1. One(Ahead(i)) = 1 /\ One(Ahead(i))' = 0
        BY <1>2, <1>4 DEF One, Ahead
      <3> QED  BY <1>2, <1>4, <2>1, <2>2, <3>1
    <2>3. CASE k # i
      <3>1. One(Ahead(k))' = One(Ahead(k))
        BY <1>4, <2>3 DEF One, Ahead
      <3> QED  BY <1>2, <1>4, <2>1, <2>3, <3>1
    <2> QED  BY <2>2, <2>3
  <1>20. MadeInOrder'
    BY <1>2, <1>4, Made
  <1> QED  BY <1>3, <1>8, <1>9, <1>10, <1>20 DEF BarrierInv

\* The invariant holds at the start.
LEMMA BarrierInit ==
    ASSUME Init
    PROVE  BarrierInv
  <1>1. /\ plan.n \in Nat \ {0} /\ made = 0 /\ mpc = "queues" /\ arrived = 0 /\ flag = 0 /\ localFlag = [i \in Queues |-> 0]
        /\ pc = [i \in Queues |-> "none"]
        /\ meets = [i \in Queues |-> 0] /\ sent = [i \in Queues |-> 0]
    BY PlanSize DEF Init, Per, Queues
  <1>2. BarrierType
    BY <1>1 DEF BarrierType, ThreadPcs, Bit
  <1>3. \A i \in Queues : ~Inside(i) /\ ~Ahead(i) /\ pc[i] = "none"
    BY <1>1 DEF Inside, Ahead
  <1>4. Insiders = {}
    BY <1>3 DEF Insiders
  <1>5. LastOpens
    BY <1>3 DEF LastOpens
  <1>6. Counted
    BY <1>1, <1>3, <1>4, FS_EmptySet DEF Counted
  <1>7. EqualPasses /\ SubmitsAfter
    BY <1>1, <1>3 DEF EqualPasses, SubmitsAfter, One
  <1>8. MadeInOrder
    BY <1>1, <1>3 DEF MadeInOrder
  <1> QED  BY <1>2, <1>5, <1>6, <1>7, <1>8 DEF BarrierInv

\* Every step keeps it.
LEMMA BarrierSteps ==
    ASSUME BarrierInv, [Next]_vars
    PROVE  BarrierInv'
  <1>0. BarrierType /\ MadeInOrder
    BY DEF BarrierInv
  <1>1. CASE UNCHANGED vars
    <2>1. UNCHANGED <<plan, barrierVars, history, pc, mpc, made>>
      BY <1>1 DEF vars, mainVars, threadVars
    <2>2. MadeInOrder' /\ made' \in Nat
      BY <1>0, <2>1 DEF MadeInOrder, BarrierType, Queues
    <2> QED  BY <2>1, <2>2, PlainStep
  <1>2. CASE MainStep \/ CreateFails
    <2>1. CASE MakeThread
      <3>1. UNCHANGED <<plan, barrierVars, history, mpc>> /\ mpc = "threads" /\ made < plan.n
        BY <2>1 DEF MakeThread
      <3>2. PICK t : t = made + 1
        OBVIOUS
      <3>3. pc' = [pc EXCEPT ![t] = "new"] /\ made' = t
        BY <2>1, <3>2 DEF MakeThread
      <3>4. t \in Queues /\ t \in Nat /\ t > made /\ made \in Nat
        BY <1>0, <3>1, <3>2 DEF BarrierType, Queues
      <3>5. pc[t] = "none"
        BY <1>0, <3>1, <3>4 DEF MadeInOrder
      <3>6. MadeInOrder'
        <4> SUFFICES ASSUME NEW i \in Queues, i > t PROVE pc'[i] = "none"
          BY <3>1, <3>3 DEF MadeInOrder, Queues
        <4>1. i > made /\ i # t
          BY <1>0, <3>4 DEF BarrierType, Queues
        <4> QED  BY <1>0, <3>1, <3>3, <4>1 DEF MadeInOrder, BarrierType
      <3> QED  BY <3>1, <3>3, <3>4, <3>5, <3>6, PlainStep DEF Waiting, ThreadPcs
    <2>2. CASE CreateCq \/ CreateSq \/ QueuesMade \/ Join \/ CreateFails
      <3>1. UNCHANGED <<plan, barrierVars, history, pc>>
        BY <2>2 DEF CreateCq, CreateSq, QueuesMade, Join, CreateFails, mainVars,
            threadVars
      <3>2. made' \in Nat
        BY <1>0, <2>2 DEF CreateCq, CreateSq, QueuesMade, Join, CreateFails, mainVars,
            BarrierType
      <3>3. mpc' \in {"queues", "threads"} => mpc = "queues"
        BY <2>2 DEF CreateCq, CreateSq, QueuesMade, Join, CreateFails, mainVars
      <3>4. MadeInOrder'
        BY <1>0, <3>1, <3>3 DEF MadeInOrder, Queues
      <3> QED  BY <3>1, <3>2, <3>4, PlainStep
    <2> QED  BY <1>2, <2>1, <2>2 DEF MainStep
  <1>3. ASSUME NEW i \in Queues, Thread(i) PROVE BarrierInv'
    <2>1. CASE Start(i) \/ Repeat(i) \/ Window(i) \/ Filled(i) \/ Reaped(i) \/ Flush(i)
               \/ FlushSubmit(i) \/ FlushReap(i)
      <3>1. UNCHANGED <<plan, mpc, made, barrierVars, history>>
        BY <2>1 DEF Start, Repeat, Window, Filled, Reaped, Flush, FlushSubmit,
            FlushReap, mainVars
      <3>2. PICK to \in ThreadPcs :
              pc' = [pc EXCEPT ![i] = to] /\ pc[i] \notin Waiting /\ to \notin Waiting /\ pc[i] # "none"
        BY <2>1 DEF Start, Repeat, Window, Filled, Reaped, Flush, FlushSubmit,
            FlushReap, Goto, Waiting, ThreadPcs
      <3>3. MadeInOrder' /\ made' \in Nat
        BY <1>0, <3>1, <3>2, Made DEF BarrierType
      <3> QED  BY <3>1, <3>2, <3>3, PlainStep
    <2>2. CASE Fill(i) \/ Full(i) \/ Reap(i)
      <3>1. UNCHANGED <<plan, made, barrierVars, history, pc>> /\ (UNCHANGED mpc \/ mpc' = "terminated")
        BY <2>2 DEF Fill, Full, Reap, mainVars, threadVars
      <3>2. MadeInOrder' /\ made' \in Nat
        BY <1>0, <3>1 DEF MadeInOrder, BarrierType, Queues
      <3> QED  BY <3>1, <3>2, PlainStep
    <2> QED  BY <1>3, <2>1, <2>2, ArriveStep, ZeroStep, RaiseStep, SpinStep, SubmitStep
        DEF Thread
  <1>4. ASSUME NEW j \in Queues, Fetch(j) \/ Complete(j) PROVE BarrierInv'
    <2>1. UNCHANGED <<plan, mpc, made, barrierVars, history, pc>>
      BY <1>4 DEF Fetch, Complete, mainVars, threadVars
    <2>2. MadeInOrder' /\ made' \in Nat
      BY <1>0, <2>1 DEF MadeInOrder, BarrierType, Queues
    <2> QED  BY <2>1, <2>2, PlainStep
  <1> QED  BY <1>1, <1>2, <1>3, <1>4 DEF Next

-----------------------------------------------------------------------------
(* The queues: facts and frames *)

\* The positions of a queue and its fields.
LEMMA PositionFacts ==
    ASSUME QueueType, NEW j \in Queues
    PROVE  /\ N \in Nat /\ N > 0 /\ Slots = 0..(N - 1)
           /\ sq[j] \in InRing(N) /\ cq[j] \in InRing(N)
           /\ sq[j].head \in 0..(N - 1) /\ sq[j].tail \in 0..(N - 1) /\ sq[j].last \in 0..(N - 1)
           /\ cq[j].head \in 0..(N - 1) /\ cq[j].phase \in Bit
           /\ sq[j].max_entries = N /\ cq[j].max_entries = N
           /\ sqdb[j] \in 0..(N - 1) /\ cqdb[j] \in 0..(N - 1)
  <1>1. N \in Nat /\ N > 0 /\ Slots = 0..(N - 1) /\ sq[j] \in InRing(N) /\ cq[j] \in InRing(N)
        /\ sqdb[j] \in 0..(N - 1) /\ cqdb[j] \in 0..(N - 1)
    BY DEF QueueType, Slots, N
  <1> QED  BY <1>1, RingFields

\* The fields of a queue as the controller has it.
LEMMA DevFacts ==
    ASSUME QueueType, NEW j \in Queues
    PROVE  /\ dev[j] \in DevQueue
           /\ dev[j].head \in 0..(N - 1) /\ dev[j].tail \in 0..(N - 1) /\ dev[j].phase \in Bit
           /\ dev[j].cqsize \in {0, N} /\ dev[j].sqsize \in {0, N}
           /\ dev[j].executing \subseteq Command
  <1>1. dev[j] \in DevQueue
    BY DEF QueueType
  <1>2. Slots = 0..(N - 1)
    BY DEF Slots, N
  <1> QED  BY <1>1, <1>2 DEF DevQueue

\* The counters of a thread.
LEMMA ThreadFacts ==
    ASSUME ThreadType, NEW i \in Queues
    PROVE  /\ Depth \in Nat /\ count[i] \in 0..Depth /\ reaped[i] \in 0..Depth
           /\ count[i] \in Nat /\ reaped[i] \in Nat /\ rep[i] \in Nat /\ pos[i] \in Nat
  <1>1. Depth \in Nat
    BY BenchAssumption
  <1> QED  BY <1>1 DEF ThreadType

\* What is in flight is a number.
LEMMA FlightFacts ==
    ASSUME ThreadType, Places, NEW i \in Queues
    PROVE  /\ InFlight(i) \in Nat /\ Unsent(i) \in Nat
           /\ Unsent(i) < InFlight(i) => Unsent(i) = 0
  <1>1. count[i] \in Nat /\ reaped[i] \in Nat /\ reaped[i] <= count[i]
    BY ThreadFacts DEF Places
  <1> QED  BY <1>1 DEF InFlight, Unsent, Filling

\* What is with the controller is counted by numbers.
LEMMA AwaitedFacts ==
    ASSUME QueueType, Created, NEW j \in Queues
    PROVE  /\ Dist(dev[j].head, sqdb[j], N) \in Nat /\ Cardinality(dev[j].executing) \in Nat
           /\ Dist(cq[j].head, dev[j].tail, N) \in Nat /\ Dist(sqdb[j], sq[j].tail, N) \in Nat
  <1>1. IsFiniteSet(dev[j].executing)
    BY DEF Created
  <1>2. /\ N \in Nat /\ dev[j].head \in 0..(N - 1) /\ sqdb[j] \in 0..(N - 1)
        /\ cq[j].head \in 0..(N - 1) /\ dev[j].tail \in 0..(N - 1) /\ sq[j].tail \in 0..(N - 1)
    BY PositionFacts, DevFacts
  <1>3. Cardinality(dev[j].executing) \in Nat
    BY <1>1, FS_CardinalityType
  <1>4. /\ Dist(dev[j].head, sqdb[j], N) \in 0..(N - 1) /\ Dist(cq[j].head, dev[j].tail, N) \in 0..(N - 1)
        /\ Dist(sqdb[j], sq[j].tail, N) \in 0..(N - 1)
    BY <1>2, DistRange
  <1> QED  BY <1>2, <1>3, <1>4

\* A queue whose state and whose thread's counters stay keeps its part of the invariant.
LEMMA OwnFrame ==
    ASSUME NEW j \in Queues, OwnQueue(j), UNCHANGED plan,
           sq'[j] = sq[j], cq'[j] = cq[j], sqmem'[j] = sqmem[j], prp'[j] = prp[j],
           sqdb'[j] = sqdb[j], dev'[j] = dev[j],
           count'[j] = count[j], InFlight(j)' = InFlight(j), Unsent(j)' = Unsent(j)
    PROVE  OwnQueue(j)'
  <1>1. N' = N /\ Slots' = Slots
    BY DEF N, Slots
  <1>2. Awaited(j)' /\ Fits(j)'
    BY <1>1 DEF OwnQueue, Awaited, Fits
  <1>3. ListsKept(j)'
    BY <1>1 DEF OwnQueue, ListsKept, ListKept
  <1> QED  BY <1>2, <1>3 DEF OwnQueue

\* Counters of a thread that takes no step.
LEMMA FlightFrame ==
    ASSUME NEW j, pc'[j] = pc[j], count'[j] = count[j], reaped'[j] = reaped[j]
    PROVE  InFlight(j)' = InFlight(j) /\ Unsent(j)' = Unsent(j)
  BY DEF InFlight, Unsent

\* Steps that touch no queue keep what the queues' part says.
LEMMA QueuesKept ==
    ASSUME QueueType, Created, Rung, Tags, UNCHANGED <<plan, queueVars, dev>>
    PROVE  QueueType' /\ Created' /\ Rung' /\ Tags'
  <1>1. UNCHANGED <<plan, sq, cq, sqmem, cqmem, prp, sqdb, cqdb, dev>>
    BY DEF queueVars
  <1>2. Queues' = Queues /\ Slots' = Slots /\ N' = N /\ DevQueue' = DevQueue
    BY <1>1 DEF Queues, Slots, N, DevQueue
  <1>3. QueueType'
    BY <1>1, <1>2 DEF QueueType
  <1>4. Created' /\ Rung'
    BY <1>1, <1>2 DEF Created, Rung
  <1>5. Tags'
    BY <1>1, <1>2 DEF Tags, Tag
  <1> QED  BY <1>3, <1>4, <1>5

\* A thread past its start works on a queue, its own unless queues are shared.
LEMMA Works ==
    ASSUME Places, NEW i \in Queues, pc[i] \notin {"none", "new"}
    PROVE  mine[i] \in Queues /\ (~Shared => mine[i] = i)
  <1>1. mine[i] \in Queues /\ mine[i] # 0
    BY DEF Places, Queues
  <1> QED  BY <1>1 DEF Shared

-----------------------------------------------------------------------------
(* The queues: operations *)

\* A command is put into a queue: it is the last one between the controller's head and
\* the tail, and its PRP list is built where none of the window's is.
LEMMA EnqueueOwn ==
    ASSUME ThreadType, Places, ~Shared, QueueType, Created, NEW j \in Queues, OwnQueue(j),
           NEW id \in Ids, NEW list \in 0..Depth, Enqueue(j, id, list),
           UNCHANGED <<plan, cq, dev, sqdb>>,
           InFlight(j)' = InFlight(j) + 1, Unsent(j)' = Unsent(j) + 1,
           \/ list = 0 /\ prp'[j] = prp[j] /\ count'[j] \in Nat /\ count'[j] >= count[j]
           \/ /\ list = count[j] + 1 /\ count'[j] = count[j] + 1
              /\ prp'[j] = [prp[j] EXCEPT ![list] = id],
           Depth < N => InFlight(j) < N - 1
    PROVE  OwnQueue(j)'
  <1>1. /\ N \in Nat /\ N > 0 /\ Slots = 0..(N - 1) /\ N' = N /\ Slots' = Slots
        /\ sq[j] \in InRing(N) /\ sq[j].head \in 0..(N - 1) /\ sq[j].tail \in 0..(N - 1)
        /\ sqdb[j] \in 0..(N - 1) /\ dev[j].head \in 0..(N - 1) /\ dev[j].executing \subseteq Command
    BY PositionFacts, DevFacts DEF N, Slots
  <1>2. /\ sq'[j].tail = Advance(sq[j].tail, N) /\ sq'[j].head = sq[j].head
        /\ sqmem'[j] = [sqmem[j] EXCEPT ![sq[j].tail] = [id |-> id, list |-> list]]
    <2>1. sq'[j] = nvm_sq_enqueue(sq[j])
      BY DEF Enqueue, QueueType
    <2>2. sqmem'[j] = [sqmem[j] EXCEPT ![sq[j].tail] = [id |-> id, list |-> list]]
      BY DEF Enqueue, QueueType, SqSlot
    <2> QED  BY <1>1, <2>1, <2>2, EnqueueRing
  <1>3. /\ InFlight(j) \in Nat /\ Unsent(j) \in Nat /\ count[j] \in Nat /\ Depth \in Nat
    BY FlightFacts, ThreadFacts
  <1>4. PICK t, u : t = sq[j].tail /\ u = Advance(t, N)
    OBVIOUS
  <1>5. t \in 0..(N - 1) /\ u \in 0..(N - 1) /\ sq'[j].tail = u
    BY <1>1, <1>2, <1>4, AdvanceRange
  <1>6. ASSUME NEW a \in 0..(N - 1)
        PROVE  /\ Dist(a, u, N) \in 0..(N - 1) /\ Dist(a, t, N) \in 0..(N - 1)
               /\ \/ Dist(a, u, N) = 0
                  \/ Dist(a, u, N) = Dist(a, t, N) + 1
               /\ Dist(a, t, N) < N - 1 => Dist(a, u, N) = Dist(a, t, N) + 1
    <2>1. Dist(a, u, N) \in 0..(N - 1) /\ Dist(a, t, N) \in 0..(N - 1)
      BY <1>1, <1>5, DistRange
    <2>2. CASE Dist(a, t, N) = N - 1
      <3>1. u = a
        BY <1>1, <1>4, <1>5, <2>2, DistLap
      <3>2. Dist(a, u, N) = 0
        BY <1>1, <3>1, DistLap
      <3> QED  BY <1>1, <2>1, <2>2, <3>2
    <2>3. CASE Dist(a, t, N) # N - 1
      <3>1. Dist(a, u, N) = Dist(a, t, N) + 1
        BY <1>1, <1>4, <1>5, <2>3, DistAdvanceFar
      <3> QED  BY <2>1, <3>1
    <2> QED  BY <2>2, <2>3
  <1>7. Awaited(j)'
    <2>1. Dist(sqdb[j], u, N) <= Unsent(j) + 1
      <3>1. Dist(sqdb[j], t, N) <= Unsent(j)
        BY <1>4 DEF OwnQueue, Awaited
      <3>2. /\ Dist(sqdb[j], u, N) \in 0..(N - 1) /\ Dist(sqdb[j], t, N) \in 0..(N - 1)
            /\ Dist(sqdb[j], u, N) = 0 \/ Dist(sqdb[j], u, N) = Dist(sqdb[j], t, N) + 1
        BY <1>1, <1>6
      <3> QED  BY <1>1, <1>3, <3>1, <3>2
    <2>2. PICK x : x = Dist(dev[j].head, sqdb[j], N) + Cardinality(dev[j].executing)
                       + Dist(cq[j].head, dev[j].tail, N)
      OBVIOUS
    <2>3. x + Unsent(j) <= InFlight(j)
      BY <2>2 DEF OwnQueue, Awaited
    <2>4. Dist(dev[j].head, sqdb[j], N) \in Nat /\ Cardinality(dev[j].executing) \in Nat
          /\ Dist(cq[j].head, dev[j].tail, N) \in Nat
      BY AwaitedFacts
    <2>5. x + (Unsent(j) + 1) <= InFlight(j) + 1
      BY <1>3, <2>2, <2>3, <2>4
    <2> QED  BY <1>1, <1>5, <2>1, <2>2, <2>5 DEF Awaited
  <1>8. Fits(j)'
    <2> SUFFICES ASSUME Depth < N PROVE Dist(sq[j].head, u, N) = InFlight(j) + 1
      BY <1>1, <1>2, <1>5 DEF Fits
    <2>1. Dist(sq[j].head, t, N) = InFlight(j) /\ InFlight(j) < N - 1
      BY <1>4 DEF OwnQueue, Fits
    <2> QED  BY <1>1, <1>6, <2>1
  <1>9. ASSUME NEW c \in Command, ListKept(c, count[j], prp[j]) PROVE ListKept(c, count'[j], prp'[j])
    <2> SUFFICES ASSUME c.list # 0 PROVE c.list <= count'[j] /\ prp'[j][c.list] = c.id
      BY DEF ListKept
    <2>1. c.list <= count[j] /\ prp[j][c.list] = c.id /\ c.list \in 0..Depth
      BY <1>9 DEF ListKept, Command
    <2>2. prp[j] \in [1..Depth -> Ids]
      BY DEF QueueType
    <2>3. c.list <= count'[j]
      BY <1>3, <2>1
    <2>4. prp'[j][c.list] = prp[j][c.list]
      BY <1>3, <2>1, <2>2
    <2> QED  BY <2>1, <2>3, <2>4
  <1>10. ListsKept(j)'
    <2>1. \A c \in dev'[j].executing : ListKept(c, count'[j], prp'[j])
      BY <1>1, <1>9 DEF OwnQueue, ListsKept
    <2>2. ASSUME NEW k \in 0..(N - 1), Dist(dev[j].head, k, N) < Dist(dev[j].head, u, N)
          PROVE  ListKept(sqmem'[j][k], count'[j], prp'[j])
      <3>1. sqmem[j] \in [0..(N - 1) -> Command]
        BY <1>1 DEF QueueType
      <3>2. CASE k = t
        <4>1. sqmem'[j][k] = [id |-> id, list |-> list]
          BY <1>2, <1>4, <3>1, <3>2
        <4>2. prp[j] \in [1..Depth -> Ids]
          BY DEF QueueType
        <4>3. list # 0 => list <= count'[j] /\ prp'[j][list] = id
          BY <1>3, <4>2
        <4> QED  BY <4>1, <4>3 DEF ListKept
      <3>3. CASE k # t
        <4>1. sqmem'[j][k] = sqmem[j][k] /\ sqmem[j][k] \in Command
          BY <1>2, <1>4, <3>1, <3>3
        <4>2. Dist(dev[j].head, k, N) # Dist(dev[j].head, t, N)
          BY <1>1, <1>5, <3>3, DistInjective
        <4>3. Dist(dev[j].head, k, N) \in 0..(N - 1)
          BY <1>1, DistRange
        <4>4. Dist(dev[j].head, k, N) < Dist(dev[j].head, t, N)
          <5>1. /\ Dist(dev[j].head, u, N) \in 0..(N - 1) /\ Dist(dev[j].head, t, N) \in 0..(N - 1)
                /\ Dist(dev[j].head, u, N) = 0 \/ Dist(dev[j].head, u, N) = Dist(dev[j].head, t, N) + 1
            BY <1>1, <1>6
          <5> QED  BY <1>1, <2>2, <4>2, <4>3, <5>1
        <4>5. ListKept(sqmem[j][k], count[j], prp[j])
          BY <1>1, <1>4, <4>4 DEF OwnQueue, ListsKept
        <4> QED  BY <1>9, <4>1, <4>5
      <3> QED  BY <3>2, <3>3
    <2> QED  BY <1>1, <1>5, <2>1, <2>2 DEF ListsKept
  <1> QED  BY <1>7, <1>8, <1>10 DEF OwnQueue

-----------------------------------------------------------------------------
(* The queues: positions, doorbells and tags *)

\* A command is put into a queue.
LEMMA EnqueueQueues ==
    ASSUME ~Shared, QueueType, Created, Rung, Tags, NEW j \in Queues, NEW id \in Ids,
           NEW list \in 0..Depth, Enqueue(j, id, list), UNCHANGED <<plan, cq, cqmem, sqdb, cqdb, dev>>,
           prp' \in [Queues -> [1..Depth -> Ids]]
    PROVE  QueueType' /\ Created' /\ Rung' /\ Tags'
  <1>1. Queues' = Queues /\ Slots' = Slots /\ N' = N /\ DevQueue' = DevQueue
    BY DEF Queues, Slots, N, DevQueue
  <1>2. PICK e : e = nvm_sq_enqueue(sq[j])
    OBVIOUS
  <1>3. /\ N \in Nat /\ sq[j] \in InRing(N) /\ sq[j].tail \in Slots
        /\ sq' = [sq EXCEPT ![j] = e]
    BY <1>2, PositionFacts DEF Enqueue
  <1>4. e \in InRing(N) /\ e.last = sq[j].last
    BY <1>2, <1>3, EnqueueRing
  <1>5. sq' \in [Queues -> InRing(N)] /\ \A k \in Queues : sq'[k].last = sq[k].last
    BY <1>3, <1>4 DEF QueueType
  <1>6. sqmem' \in [Queues -> [Slots -> Command]]
    <2>1. PICK c : c = [id |-> id, list |-> list]
      OBVIOUS
    <2>2. c \in Command
      BY <2>1 DEF Command
    <2>3. sqmem \in [Queues -> [Slots -> Command]] /\ sqmem' = [sqmem EXCEPT ![j][sq[j].tail] = c]
      BY <2>1 DEF QueueType, Enqueue, SqSlot
    <2> QED  BY <1>3, <2>2, <2>3
  <1>7. QueueType'
    BY <1>1, <1>5, <1>6 DEF QueueType
  <1>8. Created'
    BY <1>1 DEF Created
  <1>9. Rung'
    BY <1>1, <1>5 DEF Rung
  <1>10. Tags'
    BY <1>1 DEF Tags, Tag
  <1> QED  BY <1>7, <1>8, <1>9, <1>10

\* The doorbell of a submission queue is rung.
LEMMA SubmitQueues ==
    ASSUME ~Shared, QueueType, Created, Rung, Tags, NEW j \in Queues, Submit(j),
           UNCHANGED <<plan, cq, sqmem, cqmem, prp, cqdb, dev>>
    PROVE  /\ QueueType' /\ Created' /\ Rung' /\ Tags'
           /\ sqdb'[j] = sq[j].tail /\ sq'[j].tail = sq[j].tail /\ sq'[j].head = sq[j].head
  <1>1. Queues' = Queues /\ Slots' = Slots /\ N' = N /\ DevQueue' = DevQueue
    BY DEF Queues, Slots, N, DevQueue
  <1>2. PICK e : e = nvm_sq_submit(sq[j])
    OBVIOUS
  <1>3. /\ N \in Nat /\ sq[j] \in InRing(N) /\ sq[j].tail \in Slots
        /\ sq' = [sq EXCEPT ![j] = e] /\ sqdb[j] = sq[j].last
    BY <1>2, PositionFacts DEF Submit, Rung
  <1>4. /\ e \in InRing(N) /\ e.last = sq[j].tail /\ e.tail = sq[j].tail /\ e.head = sq[j].head
        /\ SqDoorbell(sq[j], sqdb[j]) = sq[j].tail
    BY <1>2, <1>3, SubmitRing
  <1>5. sq' \in [Queues -> InRing(N)] /\ sq'[j] = e /\ \A k \in Queues : k # j => sq'[k] = sq[k]
    BY <1>3, <1>4 DEF QueueType
  <1>6. sqdb' = [sqdb EXCEPT ![j] = sq[j].tail]
    BY <1>4 DEF Submit
  <1>7. /\ sqdb' \in [Queues -> Slots] /\ sqdb'[j] = sq[j].tail
        /\ \A k \in Queues : k # j => sqdb'[k] = sqdb[k]
    BY <1>3, <1>6 DEF QueueType
  <1>8. QueueType'
    BY <1>1, <1>5, <1>7 DEF QueueType
  <1>9. Created'
    BY <1>1 DEF Created
  <1>10. Rung'
    BY <1>1, <1>4, <1>5, <1>7 DEF Rung
  <1>11. Tags'
    BY <1>1 DEF Tags, Tag
  <1> QED  BY <1>4, <1>5, <1>7, <1>8, <1>9, <1>10, <1>11

\* A poll that succeeds finds an entry the controller has written.
LEMMA PollFinds ==
    ASSUME QueueType, Tags, NEW j \in Queues, nvm_cq_poll(cq[j], cqmem[j])
    PROVE  cq[j].head # dev[j].tail
  <1>1. /\ cq[j].head \in 0..(N - 1) /\ dev[j].tail \in 0..(N - 1) /\ dev[j].phase \in Bit
        /\ Slots = 0..(N - 1) /\ N \in Nat
    BY PositionFacts, DevFacts
  <1>2. /\ cqmem[j][cq[j].head].phase = Tag(j, cq[j].head < dev[j].tail)
        /\ cq[j].phase = Tag(j, cq[j].head <= dev[j].tail)
    BY <1>1 DEF Tags
  <1>3. cqmem[j][cq[j].head].phase = cq[j].phase
    BY DEF nvm_cq_poll
  <1> QED  BY <1>1, <1>2, <1>3 DEF Tag, Bit

\* A completion is taken out of a queue.
LEMMA TakeQueues ==
    ASSUME ~Shared, QueueType, Created, Rung, Tags, NEW j \in Queues, TakeCompletion(j),
           UNCHANGED <<plan, sqmem, cqmem, prp, sqdb, dev>>
    PROVE  /\ QueueType' /\ Created' /\ Rung' /\ Tags'
           /\ cq[j].head # dev[j].tail /\ cq'[j].head = Advance(cq[j].head, N)
           /\ sq'[j].tail = sq[j].tail /\ sq'[j].head = Advance(sq[j].head, N)
  <1>1. Queues' = Queues /\ Slots' = Slots /\ N' = N /\ DevQueue' = DevQueue
    BY DEF Queues, Slots, N, DevQueue
  <1>2. PICK e, f : e = nvm_sq_update(sq[j]) /\ f = nvm_cq_update(nvm_cq_dequeue(cq[j]))
    OBVIOUS
  <1>3. /\ N \in Nat /\ N > 0 /\ Slots = 0..(N - 1) /\ sq[j] \in InRing(N) /\ cq[j] \in InRing(N)
        /\ cq[j].head \in 0..(N - 1) /\ cq[j].last = cq[j].head /\ cqdb[j] = cq[j].head
        /\ cq[j].phase \in Bit
        /\ dev[j].tail \in 0..(N - 1) /\ dev[j].phase \in Bit
    BY PositionFacts, DevFacts DEF Rung
  <1>4. /\ sq' = [sq EXCEPT ![j] = e] /\ cq' = [cq EXCEPT ![j] = f]
        /\ cqdb' = [cqdb EXCEPT ![j] = CqDoorbell(nvm_cq_dequeue(cq[j]), cqdb[j])]
    BY <1>2 DEF TakeCompletion
  <1>5. e \in InRing(N) /\ e.head = Advance(sq[j].head, N) /\ e.tail = sq[j].tail /\ e.last = sq[j].last
    BY <1>2, <1>3, UpdateRing
  <1>6. PICK h : h = Advance(cq[j].head, N)
    OBVIOUS
  <1>7. /\ f \in InRing(N) /\ f.head = h /\ f.last = h
        /\ f.phase = IF cq[j].head + 1 = N THEN 1 - cq[j].phase ELSE cq[j].phase
        /\ CqDoorbell(nvm_cq_dequeue(cq[j]), cqdb[j]) = h
    BY <1>2, <1>3, <1>6, DequeueRing
  <1>8. h \in Slots
    BY <1>3, <1>6, AdvanceRange
  <1>9. /\ sq' \in [Queues -> InRing(N)] /\ sq'[j] = e /\ \A k \in Queues : k # j => sq'[k] = sq[k]
    BY <1>4, <1>5 DEF QueueType
  <1>10. /\ cq' \in [Queues -> InRing(N)] /\ cq'[j] = f /\ \A k \in Queues : k # j => cq'[k] = cq[k]
    BY <1>4, <1>7 DEF QueueType
  <1>11. /\ cqdb' \in [Queues -> Slots] /\ cqdb'[j] = h /\ \A k \in Queues : k # j => cqdb'[k] = cqdb[k]
    BY <1>4, <1>7, <1>8 DEF QueueType
  <1>12. QueueType'
    BY <1>1, <1>9, <1>10, <1>11 DEF QueueType
  <1>13. Created'
    BY <1>1 DEF Created
  <1>14. Rung'
    BY <1>1, <1>5, <1>7, <1>9, <1>10, <1>11 DEF Rung
  <1>15. cq[j].head # dev[j].tail
    BY PollFinds DEF TakeCompletion
  <1>16. Tags'
    <2>1. ASSUME NEW k \in Queues
          PROVE  cq'[k].phase = Tag(k, cq'[k].head <= dev[k].tail)
      <3>1. CASE k # j
        BY <1>10, <3>1 DEF Tags
      <3>2. CASE k = j
        <4>1. cq[j].phase = Tag(j, cq[j].head <= dev[j].tail)
          BY DEF Tags
        <4>2. f.phase = Tag(j, h <= dev[j].tail)
          BY <1>3, <1>6, <1>7, <1>15, <4>1 DEF Tag, Advance, Bit
        <4> QED  BY <1>7, <1>10, <3>2, <4>2
      <3> QED  BY <3>1, <3>2
    <2> QED  BY <1>1, <2>1 DEF Tags, Tag
  <1> QED  BY <1>5, <1>6, <1>7, <1>9, <1>10, <1>12, <1>13, <1>14, <1>15, <1>16

\* The controller fetches a command.
LEMMA FetchQueues ==
    ASSUME QueueType, Created, Rung, Tags, NEW j \in Queues, Fetch(j)
    PROVE  /\ QueueType' /\ Created' /\ Rung' /\ Tags' /\ dev[j].head # sqdb[j]
           /\ dev'[j].head = Advance(dev[j].head, N) /\ dev'[j].tail = dev[j].tail
           /\ dev'[j].executing = dev[j].executing \union {sqmem[j][dev[j].head]}
           /\ sqmem[j][dev[j].head] \in Command
           /\ \A k \in Queues : k # j => dev'[k] = dev[k]
  <1>1. /\ Queues' = Queues /\ Slots' = Slots /\ N' = N /\ DevQueue' = DevQueue
        /\ UNCHANGED <<plan, sq, cq, sqmem, cqmem, prp, sqdb, cqdb>>
    BY DEF Fetch, mainVars, queueVars, Queues, Slots, N, DevQueue
  <1>2. PICK c, h, x : c = sqmem[j][dev[j].head] /\ h = Advance(dev[j].head, N)
                       /\ x = dev[j].executing \union {c}
    OBVIOUS
  <1>3. /\ dev[j] \in DevQueue /\ dev[j].head \in 0..(N - 1) /\ dev[j].tail \in 0..(N - 1)
        /\ N \in Nat /\ Slots = 0..(N - 1) /\ dev[j].sqsize = N
        /\ dev[j].executing \subseteq Command
    BY DevFacts, PositionFacts DEF Fetch
  <1>4. c \in Command /\ h \in Slots /\ x \subseteq Command
    <2>1. c \in Command
      BY <1>2, <1>3 DEF QueueType
    <2> QED  BY <1>2, <1>3, <2>1, AdvanceRange
  <1>5. PICK e : e = [[dev[j] EXCEPT !.head = h] EXCEPT !.executing = x]
    OBVIOUS
  <1>6. /\ e \in DevQueue /\ e.head = h /\ e.executing = x /\ e.tail = dev[j].tail
        /\ e.phase = dev[j].phase /\ e.sqsize = dev[j].sqsize /\ e.cqsize = dev[j].cqsize
    BY <1>3, <1>4, <1>5 DEF DevQueue
  <1>7. dev' = [dev EXCEPT ![j] = e]
    BY <1>2, <1>3, <1>5 DEF Fetch, QueueType, DevQueue
  <1>8. dev' \in [Queues -> DevQueue] /\ dev'[j] = e /\ \A k \in Queues : k # j => dev'[k] = dev[k]
    BY <1>6, <1>7 DEF QueueType
  <1>9. QueueType'
    BY <1>1, <1>8 DEF QueueType
  <1>10. Created'
    <2>1. IsFiniteSet(x)
      <3>1. IsFiniteSet(dev[j].executing)
        BY DEF Created
      <3> QED  BY <1>2, <3>1, FS_AddElement
    <2>2. dev[j].sqsize # 0
      BY DEF Fetch
    <2> QED  BY <1>1, <1>6, <1>8, <2>1, <2>2 DEF Created
  <1>11. Rung'
    BY <1>1 DEF Rung
  <1>12. Tags'
    BY <1>1, <1>6, <1>8 DEF Tags, Tag
  <1> QED  BY <1>2, <1>4, <1>6, <1>8, <1>9, <1>10, <1>11, <1>12 DEF Fetch

\* The controller completes a command.
LEMMA CompleteQueues ==
    ASSUME QueueType, Created, Rung, Tags, NEW j \in Queues, Complete(j)
    PROVE  /\ QueueType' /\ Created' /\ Rung' /\ Tags'
           /\ Advance(dev[j].tail, N) # cq[j].head
           /\ dev'[j].head = dev[j].head /\ dev'[j].tail = Advance(dev[j].tail, N)
           /\ \E c \in dev[j].executing : dev'[j].executing = dev[j].executing \ {c}
           /\ \A k \in Queues : k # j => dev'[k] = dev[k]
  <1>1. /\ Queues' = Queues /\ Slots' = Slots /\ N' = N /\ DevQueue' = DevQueue
        /\ UNCHANGED <<plan, sq, cq, sqmem, prp, sqdb, cqdb>>
    BY DEF Complete, mainVars, queueVars, Queues, Slots, N, DevQueue
  <1>2. PICK c \in dev[j].executing :
          /\ cqmem' = [cqmem EXCEPT ![j][dev[j].tail] = [phase |-> dev[j].phase]]
          /\ dev' = [dev EXCEPT ![j].executing = @ \ {c},
                                ![j].tail = Advance(@, dev[j].cqsize),
                                ![j].phase = IF dev[j].tail + 1 = dev[j].cqsize THEN 1 - @ ELSE @]
    BY DEF Complete
  <1>3. /\ dev[j] \in DevQueue /\ dev[j].head \in 0..(N - 1) /\ dev[j].tail \in 0..(N - 1)
        /\ N \in Nat /\ N > 0 /\ Slots = 0..(N - 1) /\ dev[j].phase \in Bit
        /\ dev[j].executing \subseteq Command /\ cq[j].head \in 0..(N - 1)
    BY DevFacts, PositionFacts
  <1>4. dev[j].cqsize = N
    BY <1>2, DevFacts DEF Created
  <1>5. PICK t, p, x : /\ t = Advance(dev[j].tail, N) /\ x = dev[j].executing \ {c}
                       /\ p = IF dev[j].tail + 1 = N THEN 1 - dev[j].phase ELSE dev[j].phase
    OBVIOUS
  <1>6. t \in Slots /\ p \in Bit /\ x \subseteq Command
    <2>1. t \in Slots
      BY <1>3, <1>5, AdvanceRange
    <2>2. p \in Bit
      BY <1>3, <1>5 DEF Bit
    <2> QED  BY <1>3, <1>5, <2>1, <2>2
  <1>7. PICK e : e = [[[dev[j] EXCEPT !.executing = x] EXCEPT !.tail = t] EXCEPT !.phase = p]
    OBVIOUS
  <1>8. /\ e \in DevQueue /\ e.head = dev[j].head /\ e.executing = x /\ e.tail = t
        /\ e.phase = p /\ e.sqsize = dev[j].sqsize /\ e.cqsize = dev[j].cqsize
    BY <1>3, <1>6, <1>7 DEF DevQueue
  <1>9. dev' = [dev EXCEPT ![j] = e]
    BY <1>2, <1>3, <1>4, <1>5, <1>7 DEF QueueType, DevQueue
  <1>10. dev' \in [Queues -> DevQueue] /\ dev'[j] = e /\ \A k \in Queues : k # j => dev'[k] = dev[k]
    BY <1>8, <1>9 DEF QueueType
  <1>11. cqmem' \in [Queues -> [Slots -> [phase : Bit]]]
    <2>1. PICK d : d = [phase |-> dev[j].phase]
      OBVIOUS
    <2>2. d \in [phase : Bit]
      BY <1>3, <2>1
    <2>3. cqmem \in [Queues -> [Slots -> [phase : Bit]]] /\ cqmem' = [cqmem EXCEPT ![j][dev[j].tail] = d]
      BY <1>2, <2>1 DEF QueueType
    <2> QED  BY <1>3, <2>2, <2>3
  <1>12. QueueType'
    BY <1>1, <1>10, <1>11 DEF QueueType
  <1>13. Created'
    <2>1. IsFiniteSet(x)
      <3>1. IsFiniteSet(dev[j].executing)
        BY DEF Created
      <3> QED  BY <1>5, <3>1, FS_RemoveElement
    <2>2. dev[j].sqsize # 0 /\ dev[j].cqsize # 0
      BY <1>2 DEF Created
    <2> QED  BY <1>1, <1>8, <1>10, <2>1, <2>2 DEF Created
  <1>14. Rung'
    BY <1>1 DEF Rung
  <1>15. t # cq[j].head
    BY <1>4, <1>5 DEF Complete, Rung
  <1>16. Tags'
    <2>1. /\ \A k \in Queues : k # j => cqmem'[k] = cqmem[k]
          /\ \A k \in Slots : cqmem'[j][k] = IF k = dev[j].tail THEN [phase |-> dev[j].phase] ELSE cqmem[j][k]
      BY <1>2, <1>3 DEF QueueType
    <2>2. ASSUME NEW k \in Slots
          PROVE  cqmem'[j][k].phase = IF k < t THEN p ELSE 1 - p
      <3>1. cqmem[j][k].phase = IF k < dev[j].tail THEN dev[j].phase ELSE 1 - dev[j].phase
        BY DEF Tags, Tag
      <3>2. cqmem'[j][k].phase = IF k = dev[j].tail THEN dev[j].phase ELSE cqmem[j][k].phase
        BY <2>1
      <3> QED  BY <1>3, <1>5, <3>1, <3>2 DEF Advance, Bit
    <2>3. cq[j].phase = IF cq[j].head <= t THEN p ELSE 1 - p
      <3>1. cq[j].phase = IF cq[j].head <= dev[j].tail THEN dev[j].phase ELSE 1 - dev[j].phase
        BY DEF Tags, Tag
      <3> QED  BY <1>3, <1>5, <1>15, <3>1 DEF Advance, Bit
    <2>4. ASSUME NEW k \in Queues
          PROVE  /\ \A s \in Slots : cqmem'[k][s].phase = IF s < dev'[k].tail THEN dev'[k].phase ELSE 1 - dev'[k].phase
                 /\ cq[k].phase = IF cq[k].head <= dev'[k].tail THEN dev'[k].phase ELSE 1 - dev'[k].phase
      <3>1. CASE k = j
        BY <1>8, <1>10, <2>2, <2>3, <3>1
      <3>2. CASE k # j
        BY <1>10, <2>1, <3>2 DEF Tags, Tag
      <3> QED  BY <3>1, <3>2
    <2> QED  BY <1>1, <2>4 DEF Tags, Tag
  <1> QED  BY <1>2, <1>5, <1>8, <1>10, <1>12, <1>13, <1>14, <1>15, <1>16

-----------------------------------------------------------------------------
(* The queues: what the threads wait for *)

\* Submitting hands the controller no more than the window.
LEMMA SubmitOwn ==
    ASSUME ThreadType, Places, QueueType, Created, NEW j \in Queues, OwnQueue(j),
           sqdb'[j] = sq[j].tail, sq'[j].tail = sq[j].tail, sq'[j].head = sq[j].head,
           UNCHANGED <<plan, cq, sqmem, prp, dev>>, count'[j] = count[j],
           Unsent(j) = InFlight(j), Unsent(j)' = 0, InFlight(j)' = InFlight(j)
    PROVE  OwnQueue(j)'
  <1>1. /\ N \in Nat /\ N > 0 /\ N' = N /\ Slots' = Slots /\ sq[j].tail \in 0..(N - 1)
        /\ sqdb[j] \in 0..(N - 1) /\ dev[j].head \in 0..(N - 1)
    BY PositionFacts, DevFacts DEF N, Slots
  <1>2. InFlight(j) \in Nat /\ Unsent(j) \in Nat
    BY FlightFacts
  <1>3. PICK a, x, b, d : /\ a = Dist(dev[j].head, sqdb[j], N) /\ x = Cardinality(dev[j].executing)
                          /\ b = Dist(cq[j].head, dev[j].tail, N) /\ d = Dist(sqdb[j], sq[j].tail, N)
    OBVIOUS
  <1>4. a \in Nat /\ x \in Nat /\ b \in Nat /\ d \in Nat
    BY <1>3, AwaitedFacts
  <1>5. a + x + b + Unsent(j) <= InFlight(j) /\ d <= Unsent(j)
    BY <1>3 DEF OwnQueue, Awaited
  <1>6. a = 0 /\ x = 0 /\ b = 0 /\ d <= InFlight(j)
    <2>1. PICK u : u = Unsent(j) /\ u = InFlight(j)
      OBVIOUS
    <2>2. u \in Nat /\ a + x + b + u <= u /\ d <= u
      BY <1>2, <1>5, <2>1
    <2> QED  BY <1>4, <2>1, <2>2
  <1>7. dev[j].head = sqdb[j] /\ Dist(sq[j].tail, sq[j].tail, N) = 0
    <2>1. Dist(dev[j].head, sqdb[j], N) = 0
      BY <1>3, <1>6
    <2> QED  BY <1>1, <2>1, DistZero
  <1>8. Dist(dev[j].head, sq[j].tail, N) + x + b + 0 <= InFlight(j)
    BY <1>2, <1>3, <1>4, <1>6, <1>7
  <1>9. Awaited(j)'
    BY <1>1, <1>3, <1>7, <1>8 DEF Awaited
  <1>10. ListsKept(j)' /\ Fits(j)'
    BY <1>1 DEF OwnQueue, ListsKept, Fits
  <1> QED  BY <1>9, <1>10 DEF OwnQueue

\* Reaping takes off one command of those the thread waits for.
LEMMA TakeOwn ==
    ASSUME ThreadType, Places, QueueType, Created, NEW j \in Queues, OwnQueue(j),
           cq[j].head # dev[j].tail, cq'[j].head = Advance(cq[j].head, N),
           sq'[j].tail = sq[j].tail, sq'[j].head = Advance(sq[j].head, N),
           UNCHANGED <<plan, sqmem, prp, sqdb, dev>>, count'[j] = count[j],
           Unsent(j)' = Unsent(j), InFlight(j)' = InFlight(j) - 1
    PROVE  OwnQueue(j)'
  <1>1. /\ N \in Nat /\ N > 0 /\ N' = N /\ Slots' = Slots /\ sq[j].tail \in 0..(N - 1)
        /\ sq[j].head \in 0..(N - 1) /\ cq[j].head \in 0..(N - 1) /\ dev[j].tail \in 0..(N - 1)
    BY PositionFacts, DevFacts DEF N, Slots
  <1>2. InFlight(j) \in Nat /\ Unsent(j) \in Nat
    BY FlightFacts
  <1>3. PICK a, x, b : /\ a = Dist(dev[j].head, sqdb[j], N) /\ x = Cardinality(dev[j].executing)
                       /\ b = Dist(cq[j].head, dev[j].tail, N)
    OBVIOUS
  <1>4. a \in Nat /\ x \in Nat /\ b \in Nat /\ b # 0
    BY <1>1, <1>3, AwaitedFacts, DistRange
  <1>5. a + x + b + Unsent(j) <= InFlight(j) /\ Dist(sqdb[j], sq[j].tail, N) <= Unsent(j)
    BY <1>3 DEF OwnQueue, Awaited
  <1>6. Dist(Advance(cq[j].head, N), dev[j].tail, N) = b - 1
    BY <1>1, <1>3, DistAdvanceNear
  <1>7. a + x + (b - 1) + Unsent(j) <= InFlight(j) - 1
    BY <1>2, <1>4, <1>5
  <1>8. Awaited(j)'
    BY <1>1, <1>3, <1>5, <1>6, <1>7 DEF Awaited
  <1>9. Fits(j)'
    <2> SUFFICES ASSUME Depth < N
                 PROVE  Dist(Advance(sq[j].head, N), sq[j].tail, N) = InFlight(j) - 1
      BY <1>1 DEF Fits
    <2>1. Dist(sq[j].head, sq[j].tail, N) = InFlight(j)
      BY DEF OwnQueue, Fits
    <2>2. sq[j].head # sq[j].tail
      <3>1. InFlight(j) # 0
        BY <1>2, <1>4, <1>5
      <3> QED  BY <1>1, <2>1, <3>1, DistZero
    <2> QED  BY <1>1, <2>1, <2>2, DistAdvanceNear
  <1>10. ListsKept(j)'
    BY <1>1 DEF OwnQueue, ListsKept
  <1> QED  BY <1>8, <1>9, <1>10 DEF OwnQueue

\* A fetched command is one of the submitted window's, with its PRP list intact.
LEMMA FetchOwn ==
    ASSUME ThreadType, Places, QueueType, Created, NEW j \in Queues, OwnQueue(j),
           dev[j].head # sqdb[j], dev'[j].head = Advance(dev[j].head, N), dev'[j].tail = dev[j].tail,
           dev'[j].executing = dev[j].executing \union {sqmem[j][dev[j].head]},
           UNCHANGED <<plan, sq, cq, sqmem, prp, sqdb>>, count'[j] = count[j],
           Unsent(j)' = Unsent(j), InFlight(j)' = InFlight(j)
    PROVE  OwnQueue(j)'
  <1>1. /\ N \in Nat /\ N > 0 /\ N' = N /\ Slots' = Slots /\ Slots = 0..(N - 1)
        /\ sq[j].tail \in 0..(N - 1) /\ sqdb[j] \in 0..(N - 1) /\ dev[j].head \in 0..(N - 1)
    BY PositionFacts, DevFacts DEF N, Slots
  <1>2. InFlight(j) \in Nat /\ Unsent(j) \in Nat /\ (Unsent(j) < InFlight(j) => Unsent(j) = 0)
    BY FlightFacts
  <1>3. PICK a, x, b, d : /\ a = Dist(dev[j].head, sqdb[j], N) /\ x = Cardinality(dev[j].executing)
                          /\ b = Dist(cq[j].head, dev[j].tail, N) /\ d = Dist(sqdb[j], sq[j].tail, N)
    OBVIOUS
  <1>4. a \in Nat /\ x \in Nat /\ b \in Nat /\ d \in Nat /\ a # 0
    BY <1>1, <1>3, AwaitedFacts, DistRange
  <1>5. a + x + b + Unsent(j) <= InFlight(j) /\ d <= Unsent(j)
    BY <1>3 DEF OwnQueue, Awaited
  <1>6. Unsent(j) = 0 /\ d = 0
    BY <1>2, <1>4, <1>5
  <1>7. sq[j].tail = sqdb[j]
    <2>1. Dist(sqdb[j], sq[j].tail, N) = 0
      BY <1>3, <1>6
    <2> QED  BY <1>1, <2>1, DistZero
  <1>8. PICK h, y : h = Advance(dev[j].head, N) /\ y = Cardinality(dev'[j].executing)
    OBVIOUS
  <1>9. Dist(h, sqdb[j], N) = a - 1
    BY <1>1, <1>3, <1>8, DistAdvanceNear
  <1>10. y \in Nat /\ y <= x + 1
    <2>1. IsFiniteSet(dev[j].executing)
      BY DEF Created
    <2>2. PICK c : c = sqmem[j][dev[j].head]
      OBVIOUS
    <2>3. y = Cardinality(dev[j].executing \union {c})
      BY <1>8, <2>2
    <2>4. y = IF c \in dev[j].executing THEN x ELSE x + 1
      BY <1>3, <2>1, <2>3, FS_AddElement
    <2> QED  BY <1>4, <2>4
  <1>11. (a - 1) + y + b + Unsent(j) <= InFlight(j)
    BY <1>2, <1>4, <1>5, <1>10
  <1>12. Awaited(j)'
    BY <1>1, <1>3, <1>5, <1>8, <1>9, <1>11 DEF Awaited
  <1>13. Fits(j)'
    BY <1>1 DEF OwnQueue, Fits
  <1>14. ListsKept(j)'
    <2>1. ASSUME NEW k \in Slots, Dist(dev[j].head, k, N) < Dist(dev[j].head, sq[j].tail, N)
          PROVE  ListKept(sqmem[j][k], count[j], prp[j])
      BY <2>1 DEF OwnQueue, ListsKept
    <2>2. Dist(dev[j].head, dev[j].head, N) = 0
      BY <1>1, DistRange
    <2>3. ListKept(sqmem[j][dev[j].head], count[j], prp[j])
      BY <1>1, <1>3, <1>4, <1>7, <2>1, <2>2
    <2>4. \A c \in dev'[j].executing : ListKept(c, count[j], prp[j])
      BY <2>3 DEF OwnQueue, ListsKept
    <2>5. ASSUME NEW k \in Slots, Dist(h, k, N) < Dist(h, sq[j].tail, N)
          PROVE  ListKept(sqmem[j][k], count[j], prp[j])
      <3>1. Dist(h, k, N) = IF dev[j].head = k THEN N - 1 ELSE Dist(dev[j].head, k, N) - 1
        BY <1>1, <1>8, DistAdvanceNear
      <3>2. Dist(h, sq[j].tail, N) = a - 1 /\ Dist(dev[j].head, sq[j].tail, N) = a
        BY <1>3, <1>7, <1>9
      <3>3. a \in 0..(N - 1) /\ Dist(dev[j].head, k, N) \in 0..(N - 1)
        BY <1>1, <1>3, DistRange
      <3>4. Dist(dev[j].head, k, N) < a
        BY <1>1, <2>5, <3>1, <3>2, <3>3
      <3> QED  BY <2>1, <3>2, <3>4
    <2> QED  BY <1>1, <1>8, <2>4, <2>5 DEF ListsKept
  <1> QED  BY <1>12, <1>13, <1>14 DEF OwnQueue

\* A completed command moves to the completion queue.
LEMMA CompleteOwn ==
    ASSUME ThreadType, Places, QueueType, Created, NEW j \in Queues, OwnQueue(j),
           Advance(dev[j].tail, N) # cq[j].head,
           dev'[j].head = dev[j].head, dev'[j].tail = Advance(dev[j].tail, N),
           NEW c \in dev[j].executing, dev'[j].executing = dev[j].executing \ {c},
           UNCHANGED <<plan, sq, cq, sqmem, prp, sqdb>>, count'[j] = count[j],
           Unsent(j)' = Unsent(j), InFlight(j)' = InFlight(j)
    PROVE  OwnQueue(j)'
  <1>1. /\ N \in Nat /\ N > 0 /\ N' = N /\ Slots' = Slots /\ Slots = 0..(N - 1)
        /\ cq[j].head \in 0..(N - 1) /\ dev[j].tail \in 0..(N - 1)
    BY PositionFacts, DevFacts DEF N, Slots
  <1>2. InFlight(j) \in Nat /\ Unsent(j) \in Nat
    BY FlightFacts
  <1>3. PICK a, x, b, y : /\ a = Dist(dev[j].head, sqdb[j], N) /\ x = Cardinality(dev[j].executing)
                          /\ b = Dist(cq[j].head, dev[j].tail, N) /\ y = Cardinality(dev'[j].executing)
    OBVIOUS
  <1>4. a \in Nat /\ x \in Nat /\ b \in Nat
    BY <1>3, AwaitedFacts
  <1>5. a + x + b + Unsent(j) <= InFlight(j) /\ Dist(sqdb[j], sq[j].tail, N) <= Unsent(j)
    BY <1>3 DEF OwnQueue, Awaited
  <1>6. Dist(cq[j].head, Advance(dev[j].tail, N), N) = b + 1
    BY <1>1, <1>3, DistLap, DistAdvanceFar
  <1>7. y = x - 1
    <2>1. IsFiniteSet(dev[j].executing)
      BY DEF Created
    <2> QED  BY <1>3, <2>1, FS_RemoveElement
  <1>8. a + y + (b + 1) + Unsent(j) <= InFlight(j)
    BY <1>2, <1>4, <1>5, <1>7
  <1>9. Awaited(j)'
    BY <1>1, <1>3, <1>5, <1>6, <1>8 DEF Awaited
  <1>10. Fits(j)'
    BY <1>1 DEF OwnQueue, Fits
  <1>11. ListsKept(j)'
    BY <1>1 DEF OwnQueue, ListsKept
  <1> QED  BY <1>9, <1>10, <1>11 DEF OwnQueue

\* A thread that starts its next window has nothing with the controller.
LEMMA Emptied ==
    ASSUME ThreadType, Places, QueueType, Created, NEW j \in Queues, OwnQueue(j),
           InFlight(j) = Unsent(j)
    PROVE  dev[j].executing = {} /\ dev[j].head = sqdb[j]
           /\ (Unsent(j) = 0 => dev[j].head = sq[j].tail)
  <1>1. /\ N \in Nat /\ sq[j].tail \in 0..(N - 1) /\ sqdb[j] \in 0..(N - 1) /\ dev[j].head \in 0..(N - 1)
    BY PositionFacts, DevFacts
  <1>2. InFlight(j) \in Nat /\ Unsent(j) \in Nat
    BY FlightFacts
  <1>3. PICK a, x, b, d : /\ a = Dist(dev[j].head, sqdb[j], N) /\ x = Cardinality(dev[j].executing)
                          /\ b = Dist(cq[j].head, dev[j].tail, N) /\ d = Dist(sqdb[j], sq[j].tail, N)
    OBVIOUS
  <1>4. a \in Nat /\ x \in Nat /\ b \in Nat /\ d \in Nat
    BY <1>3, AwaitedFacts
  <1>5. a + x + b + Unsent(j) <= InFlight(j) /\ d <= Unsent(j)
    BY <1>3 DEF OwnQueue, Awaited
  <1>6. a = 0 /\ x = 0 /\ (Unsent(j) = 0 => d = 0)
    <2>1. PICK u : u = Unsent(j) /\ u = InFlight(j)
      OBVIOUS
    <2>2. u \in Nat /\ a + x + b + u <= u /\ d <= u
      BY <1>2, <1>5, <2>1
    <2> QED  BY <1>4, <2>1, <2>2
  <1>7. dev[j].executing = {}
    <2>1. IsFiniteSet(dev[j].executing)
      BY DEF Created
    <2> QED  BY <1>3, <1>6, <2>1, FS_EmptySet
  <1>8. dev[j].head = sqdb[j]
    <2>1. Dist(dev[j].head, sqdb[j], N) = 0
      BY <1>3, <1>6
    <2> QED  BY <1>1, <2>1, DistZero
  <1>9. Unsent(j) = 0 => sqdb[j] = sq[j].tail
    <2>1. Unsent(j) = 0 => Dist(sqdb[j], sq[j].tail, N) = 0
      BY <1>3, <1>6
    <2> QED  BY <1>1, <2>1, DistZero
  <1> QED  BY <1>7, <1>8, <1>9

\* The next window may start to count from 0.
LEMMA WindowOwn ==
    ASSUME ThreadType, Places, QueueType, Created, NEW j \in Queues, OwnQueue(j),
           UNCHANGED <<plan, sq, cq, sqmem, prp, sqdb, dev>>,
           InFlight(j) = 0, Unsent(j) = 0, InFlight(j)' = 0, Unsent(j)' = 0
    PROVE  OwnQueue(j)'
  <1>1. /\ N' = N /\ Slots' = Slots /\ N \in Nat /\ Slots = 0..(N - 1) /\ dev[j].head \in 0..(N - 1)
    BY PositionFacts, DevFacts DEF N, Slots
  <1>2. dev[j].executing = {} /\ dev[j].head = sq[j].tail
    BY Emptied
  <1>3. Awaited(j)' /\ Fits(j)'
    BY <1>1 DEF OwnQueue, Awaited, Fits
  <1>4. \A k \in Slots : ~(Dist(dev[j].head, k, N) < Dist(dev[j].head, sq[j].tail, N))
    <2>1. Dist(dev[j].head, sq[j].tail, N) = 0
      BY <1>1, <1>2, DistZero
    <2>2. \A k \in 0..(N - 1) : Dist(dev[j].head, k, N) \in 0..(N - 1)
      BY <1>1, DistRange
    <2> QED  BY <1>1, <2>1, <2>2
  <1>5. ListsKept(j)'
    BY <1>1, <1>2, <1>4 DEF ListsKept
  <1> QED  BY <1>3, <1>5 DEF OwnQueue

-----------------------------------------------------------------------------
(* Steps *)

\* The other threads, and their queues, take no part in a step.
Apart(k) == /\ pc'[k] = pc[k] /\ count'[k] = count[k] /\ reaped'[k] = reaped[k]
            /\ sq'[k] = sq[k] /\ cq'[k] = cq[k] /\ sqmem'[k] = sqmem[k] /\ prp'[k] = prp[k]
            /\ sqdb'[k] = sqdb[k] /\ dev'[k] = dev[k]

\* Queues that take no part in a step keep their part of the invariant.
LEMMA OthersKeep ==
    ASSUME NEW i \in Queues, UNCHANGED plan, \A k \in Queues : k # i => Apart(k),
           \A k \in Queues : OwnQueue(k), OwnQueue(i)'
    PROVE  \A k \in Queues' : OwnQueue(k)'
  <1>1. Queues' = Queues
    BY DEF Queues
  <1>2. ASSUME NEW k \in Queues, k # i PROVE OwnQueue(k)'
    <2>1. /\ pc'[k] = pc[k] /\ count'[k] = count[k] /\ reaped'[k] = reaped[k]
          /\ sq'[k] = sq[k] /\ cq'[k] = cq[k] /\ sqmem'[k] = sqmem[k] /\ prp'[k] = prp[k]
          /\ sqdb'[k] = sqdb[k] /\ dev'[k] = dev[k]
      BY <1>2 DEF Apart
    <2>2. InFlight(k)' = InFlight(k) /\ Unsent(k)' = Unsent(k)
      BY <2>1, FlightFrame
    <2> QED  BY <1>2, <2>1, <2>2, OwnFrame
  <1> QED  BY <1>1, <1>2

\* A running program has not ended, and one that has ended stays as it is.
LEMMA EndFrame ==
    ASSUME FullOnlyWhere, Finished, UNCHANGED <<plan, mpc>>,
           Running \/ UNCHANGED <<mine, pc>>
    PROVE  FullOnlyWhere' /\ Finished'
  <1>1. Queues' = Queues /\ (UNCHANGED mine => Shared' = Shared)
    BY DEF Queues, Shared
  <1> QED  BY <1>1 DEF FullOnlyWhere, Finished, Running

\* Steps of a thread that touch no queue.
LEMMA ThreadOnly ==
    ASSUME QueueInv, BarrierType, NEW i \in Queues, Running, NEW to \in ThreadPcs,
           pc' = [pc EXCEPT ![i] = to], UNCHANGED <<mainVars, queueVars, dev>>,
           \A k \in Queues : k # i => count'[k] = count[k] /\ reaped'[k] = reaped[k],
           ThreadType', Places', ~Shared' => ~Shared,
           \/ InFlight(i)' = InFlight(i) /\ Unsent(i)' = Unsent(i) /\ count'[i] = count[i]
           \/ InFlight(i) = 0 /\ Unsent(i) = 0 /\ InFlight(i)' = 0 /\ Unsent(i)' = 0
    PROVE  QueueInv'
  <1>1. ThreadType /\ Places /\ Rings /\ Owned /\ FullOnlyWhere /\ Finished
    BY DEF QueueInv
  <1>2. UNCHANGED <<plan, mpc, made, sq, cq, sqmem, cqmem, prp, sqdb, cqdb, dev>>
    BY DEF mainVars, queueVars
  <1>3. Rings'
    <2> SUFFICES ASSUME ~Shared' PROVE QueueType' /\ Created' /\ Rung' /\ Tags'
      BY DEF Rings
    <2>1. QueueType /\ Created /\ Rung /\ Tags
      BY <1>1 DEF Rings
    <2> QED  BY <1>2, <2>1, QueuesKept
  <1>4. FullOnlyWhere' /\ Finished'
    BY <1>1, <1>2, EndFrame
  <1>5. Owned'
    <2> SUFFICES ASSUME ~Shared' PROVE \A k \in Queues' : OwnQueue(k)'
      BY DEF Owned
    <2>1. QueueType /\ Created /\ \A k \in Queues : OwnQueue(k)
      BY <1>1 DEF Owned, Rings
    <2>2. \A k \in Queues : k # i => Apart(k)
      BY <1>2 DEF Apart, BarrierType
    <2>3. OwnQueue(i)'
      <3>1. CASE InFlight(i)' = InFlight(i) /\ Unsent(i)' = Unsent(i) /\ count'[i] = count[i]
        BY <1>2, <2>1, <3>1, OwnFrame
      <3>2. CASE InFlight(i) = 0 /\ Unsent(i) = 0 /\ InFlight(i)' = 0 /\ Unsent(i)' = 0
        BY <1>1, <1>2, <2>1, <3>2, WindowOwn
      <3> QED  BY <3>1, <3>2
    <2> QED  BY <1>2, <2>1, <2>2, <2>3, OthersKeep
  <1> QED  BY <1>3, <1>4, <1>5 DEF QueueInv

\* Start: the thread gets a queue of those that have been made.
LEMMA StartQueues ==
    ASSUME QueueInv, BarrierType, NEW i \in Queues, Running, Start(i)
    PROVE  QueueInv'
  <1>1. ThreadType /\ Places /\ plan.n \in Nat
    BY DEF QueueInv, BarrierType
  <1>2. /\ pc[i] = "new" /\ pc' = [pc EXCEPT ![i] = "repeat"] /\ UNCHANGED <<mainVars, queueVars, dev>>
        /\ UNCHANGED <<plan, mpc, made, rep, pos, count, reaped>>
    BY DEF Start, Goto, mainVars
  <1>3. PICK j \in IF LateStart THEN i..made ELSE {i} : mine' = [mine EXCEPT ![i] = j]
    BY DEF Start
  <1>4. j \in Queues /\ Queues' = Queues
    BY <1>1, <1>2, <1>3 DEF ThreadType, Queues
  <1>5. mine[i] = 0 /\ pos[i] = 0 /\ reaped[i] <= count[i]
    BY <1>1, <1>2 DEF Places
  <1>6. ThreadType'
    BY <1>1, <1>2, <1>3, <1>4 DEF ThreadType, Queues
  <1>7. /\ pc'[i] = "repeat" /\ mine'[i] = j
        /\ \A k \in Queues : k # i => pc'[k] = pc[k] /\ mine'[k] = mine[k]
    BY <1>1, <1>2, <1>3 DEF BarrierType, ThreadType
  <1>8. Places'
    <2> SUFFICES ASSUME NEW k \in Queues
                 PROVE  /\ pc'[k] \in {"none", "new"} => mine'[k] = 0 /\ pos'[k] = 0
                        /\ pc'[k] \notin {"none", "new"} => mine'[k] \in Queues /\ pos'[k] <= Len(plan.transfers[mine'[k]])
                        /\ reaped'[k] <= count'[k] /\ (pc'[k] \in Filling => reaped'[k] = 0)
      BY <1>2, <1>4 DEF Places
    <2>1. CASE k = i
      BY <1>1, <1>2, <1>4, <1>5, <1>7, <2>1 DEF ThreadType, Filling
    <2>2. CASE k # i
      BY <1>1, <1>2, <1>7, <2>2 DEF Places
    <2> QED  BY <2>1, <2>2
  <1>9. ~Shared' => ~Shared
    BY <1>4, <1>5, <1>7 DEF Shared
  <1>10. InFlight(i)' = InFlight(i) /\ Unsent(i)' = Unsent(i) /\ count'[i] = count[i]
    BY <1>2, <1>7 DEF InFlight, Unsent, Filling
  <1>11. "repeat" \in ThreadPcs
    BY DEF ThreadPcs
  <1> QED  BY <1>2, <1>6, <1>8, <1>9, <1>10, <1>11, ThreadOnly

\* A thread that has started moves on among its transfers.
LEMMA PlaceStep ==
    ASSUME Places, BarrierType, NEW i \in Queues, pc[i] \notin {"none", "new"},
           NEW to \in ThreadPcs, to \notin {"none", "new"}, pc' = [pc EXCEPT ![i] = to],
           UNCHANGED <<plan, mine>>,
           \A k \in Queues : k # i => pos'[k] = pos[k] /\ count'[k] = count[k] /\ reaped'[k] = reaped[k],
           pos'[i] <= Len(plan.transfers[mine[i]]), reaped'[i] <= count'[i],
           to \in Filling => reaped'[i] = 0
    PROVE  Places'
  <1>1. Queues' = Queues
    BY DEF Queues
  <1> SUFFICES ASSUME NEW k \in Queues
               PROVE  /\ pc'[k] \in {"none", "new"} => mine'[k] = 0 /\ pos'[k] = 0
                      /\ pc'[k] \notin {"none", "new"} => mine'[k] \in Queues /\ pos'[k] <= Len(plan.transfers[mine'[k]])
                      /\ reaped'[k] <= count'[k] /\ (pc'[k] \in Filling => reaped'[k] = 0)
    BY <1>1 DEF Places
  <1>2. CASE k = i
    BY <1>2 DEF Places, BarrierType
  <1>3. CASE k # i
    BY <1>3 DEF Places, BarrierType
  <1> QED  BY <1>2, <1>3

\* The queue a thread works on stays the same.
LEMMA SharedKept ==
    ASSUME UNCHANGED <<plan, mine>>
    PROVE  Shared' = Shared
  BY DEF Shared, Queues

\* Repeat: the transfers of the next repetition start from the first one.
LEMMA RepeatQueues ==
    ASSUME QueueInv, BarrierType, NEW i \in Queues, Running, Repeat(i)
    PROVE  QueueInv'
  <1>1. ThreadType /\ Places
    BY DEF QueueInv
  <1>2. /\ pc[i] = "repeat" /\ UNCHANGED <<mainVars, queueVars, dev>>
        /\ UNCHANGED <<plan, mpc, made, mine, count, reaped>> /\ Queues' = Queues
        /\ pos' = [pos EXCEPT ![i] = 0] /\ rep' \in {rep, [rep EXCEPT ![i] = rep[i] + 1]}
    BY DEF Repeat, mainVars, Queues
  <1>3. PICK to \in {"window", "done"} : pc' = [pc EXCEPT ![i] = to]
    BY DEF Repeat, Goto
  <1>4. to \in ThreadPcs /\ to \notin {"none", "new"}
    BY DEF ThreadPcs
  <1>5. ThreadType'
    <2>1. rep' \in [Queues -> Nat]
      BY <1>1, <1>2 DEF ThreadType
    <2>2. pos' \in [Queues -> Nat]
      BY <1>1, <1>2 DEF ThreadType
    <2> QED  BY <1>1, <1>2, <2>1, <2>2 DEF ThreadType
  <1>6. /\ mine[i] \in Queues /\ Len(plan.transfers[mine[i]]) \in Nat /\ reaped[i] <= count[i]
        /\ pos'[i] = 0 /\ \A k \in Queues : k # i => pos'[k] = pos[k]
    BY <1>1, <1>2 DEF ThreadType, Places
  <1>7. Places'
    <2>1. pc[i] \notin {"none", "new"} /\ pos'[i] <= Len(plan.transfers[mine[i]]) /\ reaped'[i] <= count'[i]
      BY <1>2, <1>6
    <2>2. \A k \in Queues : k # i => pos'[k] = pos[k] /\ count'[k] = count[k] /\ reaped'[k] = reaped[k]
      BY <1>2, <1>6
    <2> QED  BY <1>1, <1>2, <1>3, <1>4, <2>1, <2>2, PlaceStep DEF Filling
  <1>8. InFlight(i)' = InFlight(i) /\ Unsent(i)' = Unsent(i) /\ count'[i] = count[i]
    <2>1. pc'[i] = to
      BY <1>3 DEF BarrierType
    <2> QED  BY <1>2, <1>3, <2>1 DEF InFlight, Unsent, Filling
  <1>9. \A k \in Queues : k # i => count'[k] = count[k] /\ reaped'[k] = reaped[k]
    BY <1>2
  <1>10. Shared' = Shared
    BY <1>2, SharedKept
  <1> QED  BY <1>2, <1>3, <1>4, <1>5, <1>7, <1>8, <1>9, <1>10, ThreadOnly

\* Window: nothing is in flight when the next window is begun.
LEMMA WindowQueues ==
    ASSUME QueueInv, BarrierType, NEW i \in Queues, Running, Window(i)
    PROVE  QueueInv'
  <1>1. ThreadType /\ Places
    BY DEF QueueInv
  <1>2. /\ pc[i] = "window" /\ UNCHANGED <<mainVars, queueVars, dev>>
        /\ UNCHANGED <<plan, mpc, made, mine, rep, pos>> /\ Queues' = Queues
        /\ count' = [count EXCEPT ![i] = 0] /\ reaped' = [reaped EXCEPT ![i] = 0]
    BY DEF Window, mainVars, Queues
  <1>3. PICK to \in {"fill", "flush"} : pc' = [pc EXCEPT ![i] = to]
    BY DEF Window, Goto
  <1>4. to \in ThreadPcs /\ to \notin {"none", "new"}
    BY DEF ThreadPcs
  <1>5. 0 \in 0..Depth
    BY BenchAssumption
  <1>6. ThreadType'
    BY <1>1, <1>2, <1>5 DEF ThreadType
  <1>7. /\ pos[i] <= Len(plan.transfers[mine[i]]) /\ count'[i] = 0 /\ reaped'[i] = 0
        /\ \A k \in Queues : k # i => count'[k] = count[k] /\ reaped'[k] = reaped[k]
    BY <1>1, <1>2 DEF ThreadType, Places
  <1>8. Places'
    <2>1. pc[i] \notin {"none", "new"} /\ pos'[i] <= Len(plan.transfers[mine[i]]) /\ reaped'[i] <= count'[i]
      BY <1>2, <1>7
    <2>2. \A k \in Queues : k # i => pos'[k] = pos[k] /\ count'[k] = count[k] /\ reaped'[k] = reaped[k]
      BY <1>2, <1>7
    <2> QED  BY <1>1, <1>2, <1>3, <1>4, <1>7, <2>1, <2>2, PlaceStep
  <1>9. InFlight(i) = 0 /\ Unsent(i) = 0 /\ InFlight(i)' = 0 /\ Unsent(i)' = 0
    <2>1. pc'[i] = to
      BY <1>3 DEF BarrierType
    <2> QED  BY <1>2, <1>3, <1>7, <2>1 DEF InFlight, Unsent, Filling
  <1>10. Shared' = Shared
    BY <1>2, SharedKept
  <1> QED  BY <1>2, <1>3, <1>4, <1>6, <1>7, <1>8, <1>9, <1>10, ThreadOnly

\* Steps of a window that only move the thread on.
LEMMA MoveQueues ==
    ASSUME QueueInv, BarrierType, NEW i \in Queues, Running,
           Filled(i) \/ Arrive(i) \/ Zero(i) \/ Raise(i) \/ Spin(i) \/ Reaped(i)
    PROVE  QueueInv'
  <1>1. ThreadType /\ Places
    BY DEF QueueInv
  <1>2. /\ UNCHANGED <<mainVars, queueVars, dev>> /\ Queues' = Queues
        /\ UNCHANGED <<plan, mpc, made, mine, rep, pos, count, reaped>>
    BY DEF Filled, Arrive, Zero, Raise, Spin, Reaped, mainVars, Queues
  <1>3. PICK to \in {"wait", "zero", "raise", "spin", "submit", "window"} :
          /\ pc' = [pc EXCEPT ![i] = to]
          /\ \/ pc[i] \in Filling /\ to \in Filling
             \/ pc[i] = "reap" /\ to = "window" /\ reaped[i] = count[i]
    BY DEF Filled, Arrive, Zero, Raise, Spin, Reaped, Goto, Filling
  <1>4. to \in ThreadPcs /\ to \notin {"none", "new"} /\ pc[i] \notin {"none", "new"}
    BY <1>3 DEF ThreadPcs, Filling
  <1>5. ThreadType'
    BY <1>1, <1>2 DEF ThreadType
  <1>6. /\ pos[i] <= Len(plan.transfers[mine[i]]) /\ reaped[i] <= count[i]
        /\ count[i] \in Nat /\ (to \in Filling => reaped[i] = 0)
    BY <1>1, <1>3, <1>4, ThreadFacts DEF Places, Filling
  <1>7. Places'
    BY <1>1, <1>2, <1>3, <1>4, <1>6, PlaceStep
  <1>8. InFlight(i)' = InFlight(i) /\ Unsent(i)' = Unsent(i) /\ count'[i] = count[i]
    <2>1. pc'[i] = to
      BY <1>3 DEF BarrierType
    <2> QED  BY <1>2, <1>3, <1>6, <2>1 DEF InFlight, Unsent, Filling
  <1>9. \A k \in Queues : k # i => count'[k] = count[k] /\ reaped'[k] = reaped[k]
    BY <1>2
  <1>10. Shared' = Shared
    BY <1>2, SharedKept
  <1> QED  BY <1>2, <1>3, <1>4, <1>5, <1>7, <1>8, <1>9, <1>10, ThreadOnly

\* The steps of threads that use a queue: what the operation keeps, and what its own
\* thread does with it, make up the whole; once queues are shared only the threads count.
LEMMA QueueUser ==
    ASSUME QueueInv, BarrierType, NEW i \in Queues, Running, UNCHANGED <<plan, mpc, mine>>,
           ThreadType', Places', ~Shared => QueueType' /\ Created' /\ Rung' /\ Tags',
           ~Shared => \A k \in Queues : k # i => Apart(k),
           ~Shared /\ OwnQueue(i) => OwnQueue(i)'
    PROVE  QueueInv'
  <1>1. Places /\ Owned /\ FullOnlyWhere /\ Finished
    BY DEF QueueInv
  <1>2. FullOnlyWhere' /\ Finished'
    BY <1>1, EndFrame
  <1>3. Owned'
    <2> SUFFICES ASSUME ~Shared' PROVE \A k \in Queues' : OwnQueue(k)'
      BY DEF Owned
    <2>1. ~Shared /\ \A k \in Queues : OwnQueue(k)
      BY <1>1, SharedKept DEF Owned
    <2> QED  BY <2>1, OthersKeep
  <1>4. Rings'
    BY SharedKept DEF Rings
  <1> QED  BY <1>2, <1>3, <1>4 DEF QueueInv

\* Fill: the next command of the window, and its PRP list.
LEMMA FillQueues ==
    ASSUME QueueInv, BarrierType, NEW i \in Queues, Running, Fill(i)
    PROVE  QueueInv'
  <1>1. /\ ThreadType /\ Places
        /\ ~Shared => QueueType /\ Created /\ Rung /\ Tags
    BY DEF QueueInv, Rings
  <1>2. PICK j, id, list : j = mine[i] /\ id = Id(i, pos[i] + 1)
                           /\ list = nvm_cmd_data(Work(i)[pos[i] + 1], ListOf(i))
    OBVIOUS
  <1>3. /\ pc[i] = "fill" /\ count[i] < Depth /\ pos[i] < Len(plan.transfers[mine[i]])
        /\ Enqueue(j, id, list)
        /\ prp' = IF list = 0 \/ Shared THEN prp ELSE [prp EXCEPT ![j][list] = id]
        /\ count' = [count EXCEPT ![i] = count[i] + 1] /\ pos' = [pos EXCEPT ![i] = pos[i] + 1]
        /\ UNCHANGED <<plan, mpc, made, pc, mine, rep, reaped, cq, cqmem, sqdb, cqdb, dev>>
        /\ Queues' = Queues
    BY <1>2 DEF Fill, Work, mainVars, Queues
  <1>4. /\ j \in Queues /\ mine[i] \in Queues /\ (~Shared => mine[i] = i)
    BY <1>1, <1>2, <1>3, Works
  <1>5. /\ count[i] \in Nat /\ pos[i] \in Nat /\ rep[i] \in Nat /\ reaped[i] \in Nat /\ Depth \in Nat
        /\ reaped[i] <= count[i] /\ reaped[i] = 0 /\ Len(plan.transfers[mine[i]]) \in Nat
    BY <1>1, <1>3, <1>4, ThreadFacts DEF Places, ThreadType, Filling
  <1>6. list \in {0, count[i] + 1} /\ list \in 0..Depth
    BY <1>2, <1>3, <1>5 DEF nvm_cmd_data, ListOf
  <1>7. id \in Ids
    <2>1. i \in Nat
      BY DEF Queues, BarrierType
    <2> QED  BY <1>2, <1>5, <2>1 DEF Id, Ids
  <1>8. ASSUME ~Shared
        PROVE  /\ prp' \in [Queues -> [1..Depth -> Ids]]
               /\ list = 0 => prp' = prp
               /\ list # 0 => prp'[j] = [prp[j] EXCEPT ![list] = id]
               /\ \A k \in Queues : k # j => prp'[k] = prp[k]
    <2>1. prp \in [Queues -> [1..Depth -> Ids]]
      BY <1>1, <1>8 DEF QueueType
    <2>2. CASE list = 0
      BY <1>3, <2>1, <2>2
    <2>3. CASE list # 0
      <3>1. list \in 1..Depth /\ prp[j] \in [1..Depth -> Ids]
        BY <1>4, <1>5, <1>6, <2>1, <2>3
      <3>2. PICK f : f = [prp[j] EXCEPT ![list] = id]
        OBVIOUS
      <3>3. f \in [1..Depth -> Ids]
        BY <1>7, <3>1, <3>2
      <3>4. prp' = [prp EXCEPT ![j] = f]
        BY <1>3, <1>8, <2>3, <3>2
      <3> QED  BY <1>4, <2>1, <2>3, <3>2, <3>3, <3>4
    <2> QED  BY <2>2, <2>3
  <1>9. ASSUME ~Shared PROVE QueueType' /\ Created' /\ Rung' /\ Tags'
    BY <1>1, <1>3, <1>4, <1>6, <1>7, <1>8, <1>9, EnqueueQueues
  <1>10. /\ count'[i] = count[i] + 1 /\ pos'[i] = pos[i] + 1 /\ reaped'[i] = reaped[i]
         /\ \A k \in Queues : k # i => count'[k] = count[k] /\ pos'[k] = pos[k] /\ reaped'[k] = reaped[k]
    BY <1>1, <1>3 DEF ThreadType
  <1>11. ThreadType'
    <2>1. count' \in [Queues -> 0..Depth]
      BY <1>1, <1>3, <1>5 DEF ThreadType
    <2>2. pos' \in [Queues -> Nat]
      BY <1>1, <1>3, <1>5 DEF ThreadType
    <2> QED  BY <1>1, <1>3, <2>1, <2>2 DEF ThreadType
  <1>12. Places'
    <2>1. pos'[i] <= Len(plan.transfers[mine[i]]) /\ reaped'[i] <= count'[i]
      BY <1>3, <1>5, <1>10
    <2>2. pc' = [pc EXCEPT ![i] = "fill"] /\ "fill" \in ThreadPcs
      BY <1>3 DEF BarrierType, ThreadPcs
    <2> QED  BY <1>1, <1>3, <1>5, <1>10, <2>1, <2>2, PlaceStep
  <1>13. ASSUME ~Shared PROVE \A k \in Queues : k # i => Apart(k)
    <2>1. \A k \in Queues : k # i => sq'[k] = sq[k] /\ sqmem'[k] = sqmem[k]
      BY <1>1, <1>2, <1>3, <1>4, <1>13 DEF Enqueue, QueueType
    <2> QED  BY <1>2, <1>3, <1>4, <1>8, <1>10, <1>13, <2>1 DEF Apart
  <1>14. ASSUME ~Shared, OwnQueue(i) PROVE OwnQueue(i)'
    <2>1. InFlight(i) = count[i] /\ Unsent(i) = count[i] /\ InFlight(i)' = count'[i] /\ Unsent(i)' = count'[i]
      BY <1>3 DEF InFlight, Unsent, Filling
    <2>2. InFlight(i)' = InFlight(i) + 1 /\ Unsent(i)' = Unsent(i) + 1
      BY <1>10, <2>1
    <2>3. N \in Nat
      BY <1>1, <1>14, PositionFacts
    <2>4. Depth < N => InFlight(i) < N - 1
      BY <1>3, <1>5, <2>1, <2>3
    <2>5. \/ list = 0 /\ prp'[i] = prp[i] /\ count'[i] \in Nat /\ count'[i] >= count[i]
          \/ list = count[i] + 1 /\ count'[i] = count[i] + 1 /\ prp'[i] = [prp[i] EXCEPT ![list] = id]
      BY <1>2, <1>4, <1>5, <1>6, <1>8, <1>10, <1>14
    <2>6. Enqueue(i, id, list)
      BY <1>2, <1>3, <1>4, <1>14
    <2> QED  BY <1>1, <1>3, <1>6, <1>7, <1>14, <2>2, <2>4, <2>5, <2>6, EnqueueOwn
  <1> QED  BY <1>3, <1>9, <1>11, <1>12, <1>13, <1>14, QueueUser

\* Flush: one command more, when the window is empty.
LEMMA FlushQueues ==
    ASSUME QueueInv, BarrierType, NEW i \in Queues, Running, Flush(i)
    PROVE  QueueInv'
  <1>1. /\ ThreadType /\ Places
        /\ ~Shared => QueueType /\ Created /\ Rung /\ Tags
    BY DEF QueueInv, Rings
  <1>2. PICK j, id : j = mine[i] /\ id = Id(i, 0)
    OBVIOUS
  <1>3. /\ pc[i] = "flush" /\ Enqueue(j, id, 0) /\ pc' = [pc EXCEPT ![i] = "flushed"]
        /\ UNCHANGED <<plan, mpc, made, mine, rep, pos, count, reaped, cq, cqmem, prp, sqdb, cqdb, dev>>
        /\ Queues' = Queues
    BY <1>2 DEF Flush, Goto, mainVars, Queues
  <1>4. j \in Queues /\ mine[i] \in Queues /\ (~Shared => mine[i] = i)
    BY <1>1, <1>2, <1>3, Works
  <1>5. /\ count[i] \in Nat /\ rep[i] \in Nat /\ reaped[i] <= count[i] /\ Depth \in Nat \ {0}
        /\ pos[i] <= Len(plan.transfers[mine[i]])
    BY <1>1, <1>3, ThreadFacts, BenchAssumption DEF Places
  <1>6. id \in Ids /\ 0 \in 0..Depth
    <2>1. i \in Nat
      BY DEF Queues, BarrierType
    <2> QED  BY <1>2, <1>5, <2>1 DEF Id, Ids
  <1>7. ~Shared => prp' \in [Queues -> [1..Depth -> Ids]]
    BY <1>1, <1>3 DEF QueueType
  <1>8. ASSUME ~Shared PROVE QueueType' /\ Created' /\ Rung' /\ Tags'
    BY <1>1, <1>3, <1>4, <1>6, <1>7, <1>8, EnqueueQueues
  <1>9. ThreadType'
    BY <1>1, <1>3 DEF ThreadType
  <1>10. Places'
    BY <1>1, <1>3, <1>5, PlaceStep DEF ThreadPcs, Filling
  <1>11. pc'[i] = "flushed" /\ \A k \in Queues : k # i => pc'[k] = pc[k]
    BY <1>3 DEF BarrierType
  <1>12. ASSUME ~Shared PROVE \A k \in Queues : k # i => Apart(k)
    <2>1. \A k \in Queues : k # i => sq'[k] = sq[k] /\ sqmem'[k] = sqmem[k]
      BY <1>1, <1>2, <1>3, <1>4, <1>12 DEF Enqueue, QueueType
    <2> QED  BY <1>3, <1>11, <2>1 DEF Apart
  <1>13. ASSUME ~Shared, OwnQueue(i) PROVE OwnQueue(i)'
    <2>1. InFlight(i) = 0 /\ Unsent(i) = 0 /\ InFlight(i)' = 1 /\ Unsent(i)' = 1
      BY <1>3, <1>11 DEF InFlight, Unsent, Filling
    <2>2. InFlight(i)' = InFlight(i) + 1 /\ Unsent(i)' = Unsent(i) + 1
      BY <2>1
    <2>3. N \in Nat
      BY <1>1, <1>13, PositionFacts
    <2>4. Depth < N => InFlight(i) < N - 1
      BY <1>5, <2>1, <2>3
    <2>5. prp'[i] = prp[i] /\ count'[i] \in Nat /\ count'[i] >= count[i]
      BY <1>3, <1>5
    <2>6. Enqueue(i, id, 0)
      BY <1>2, <1>3, <1>4, <1>13
    <2> QED  BY <1>1, <1>3, <1>6, <1>13, <2>2, <2>4, <2>5, <2>6, EnqueueOwn
  <1> QED  BY <1>3, <1>8, <1>9, <1>10, <1>12, <1>13, QueueUser

\* SubmitWindow and FlushSubmit ring the doorbell for everything that was put in.
LEMMA RingQueues ==
    ASSUME QueueInv, BarrierType, NEW i \in Queues, Running, SubmitWindow(i) \/ FlushSubmit(i)
    PROVE  QueueInv'
  <1>1. /\ ThreadType /\ Places
        /\ ~Shared => QueueType /\ Created /\ Rung /\ Tags
    BY DEF QueueInv, Rings
  <1>2. PICK j, to : j = mine[i] /\ to = IF pc[i] = "submit" THEN "reap" ELSE "flushing"
    OBVIOUS
  <1>3. /\ pc[i] \in {"submit", "flushed"} /\ Submit(j) /\ pc' = [pc EXCEPT ![i] = to]
        /\ UNCHANGED <<plan, mpc, made, mine, rep, pos, count, reaped, cq, sqmem, cqmem, prp, cqdb, dev>>
        /\ Queues' = Queues
    BY <1>2 DEF SubmitWindow, FlushSubmit, Goto, mainVars, Queues
  <1>4. j \in Queues /\ mine[i] \in Queues /\ (~Shared => mine[i] = i)
    BY <1>1, <1>2, <1>3, Works
  <1>5. /\ count[i] \in Nat /\ reaped[i] <= count[i] /\ pos[i] <= Len(plan.transfers[mine[i]])
        /\ (pc[i] = "submit" => reaped[i] = 0)
    BY <1>1, <1>3, ThreadFacts DEF Places, Filling
  <1>6. ASSUME ~Shared
        PROVE  /\ QueueType' /\ Created' /\ Rung' /\ Tags'
               /\ sqdb'[j] = sq[j].tail /\ sq'[j].tail = sq[j].tail /\ sq'[j].head = sq[j].head
    BY <1>1, <1>3, <1>4, <1>6, SubmitQueues
  <1>7. ThreadType'
    BY <1>1, <1>3 DEF ThreadType
  <1>8. to \in ThreadPcs /\ to \notin {"none", "new"} /\ to \notin Filling
    BY <1>2 DEF ThreadPcs, Filling
  <1>9. Places'
    BY <1>1, <1>3, <1>5, <1>8, PlaceStep
  <1>10. pc'[i] = to /\ \A k \in Queues : k # i => pc'[k] = pc[k]
    BY <1>3 DEF BarrierType
  <1>11. ASSUME ~Shared PROVE \A k \in Queues : k # i => Apart(k)
    <2>1. \A k \in Queues : k # i => sq'[k] = sq[k] /\ sqdb'[k] = sqdb[k]
      BY <1>1, <1>2, <1>3, <1>4, <1>11 DEF Submit, QueueType
    <2> QED  BY <1>3, <1>10, <2>1 DEF Apart
  <1>12. ASSUME ~Shared, OwnQueue(i) PROVE OwnQueue(i)'
    <2>1. Unsent(i) = InFlight(i) /\ Unsent(i)' = 0 /\ InFlight(i)' = InFlight(i)
      BY <1>2, <1>3, <1>5, <1>10 DEF InFlight, Unsent, Filling
    <2> QED  BY <1>1, <1>2, <1>3, <1>4, <1>6, <1>12, <2>1, SubmitOwn
  <1> QED  BY <1>3, <1>6, <1>7, <1>9, <1>11, <1>12, QueueUser

\* Reap and FlushReap take one completion and wait for one less.
LEMMA ReapQueues ==
    ASSUME QueueInv, BarrierType, NEW i \in Queues, Running, Reap(i) \/ FlushReap(i)
    PROVE  QueueInv'
  <1>1. /\ ThreadType /\ Places
        /\ ~Shared => QueueType /\ Created /\ Rung /\ Tags
    BY DEF QueueInv, Rings
  <1>2. PICK j, to : j = mine[i] /\ to = IF pc[i] = "reap" THEN "reap" ELSE "repeat"
    OBVIOUS
  <1>3. /\ TakeCompletion(j)
        /\ UNCHANGED <<plan, mpc, made, mine, rep, pos, count, sqmem, cqmem, prp, sqdb, dev>>
        /\ Queues' = Queues
    BY <1>2 DEF Reap, FlushReap, Goto, mainVars, Queues
  <1>4. \/ /\ pc[i] = "reap" /\ reaped[i] < count[i] /\ UNCHANGED pc
           /\ reaped' = [reaped EXCEPT ![i] = reaped[i] + 1]
        \/ pc[i] = "flushing" /\ pc' = [pc EXCEPT ![i] = "repeat"] /\ UNCHANGED reaped
    BY DEF Reap, FlushReap, Goto
  <1>5. pc[i] \in {"reap", "flushing"} /\ pc' = [pc EXCEPT ![i] = to]
    BY <1>2, <1>4 DEF BarrierType
  <1>6. j \in Queues /\ mine[i] \in Queues /\ (~Shared => mine[i] = i)
    BY <1>1, <1>2, <1>5, Works
  <1>7. /\ count[i] \in 0..Depth /\ reaped[i] \in Nat /\ reaped[i] <= count[i] /\ Depth \in Nat
        /\ pos[i] <= Len(plan.transfers[mine[i]])
    BY <1>1, <1>5, ThreadFacts DEF Places
  <1>8. ASSUME ~Shared
        PROVE  /\ QueueType' /\ Created' /\ Rung' /\ Tags'
               /\ cq[j].head # dev[j].tail /\ cq'[j].head = Advance(cq[j].head, N)
               /\ sq'[j].tail = sq[j].tail /\ sq'[j].head = Advance(sq[j].head, N)
    BY <1>1, <1>3, <1>6, <1>8, TakeQueues
  <1>9. /\ reaped' \in [Queues -> 0..Depth] /\ reaped'[i] <= count[i]
        /\ reaped'[i] = IF pc[i] = "reap" THEN reaped[i] + 1 ELSE reaped[i]
        /\ \A k \in Queues : k # i => reaped'[k] = reaped[k]
    <2>1. reaped \in [Queues -> 0..Depth]
      BY <1>1 DEF ThreadType
    <2>2. CASE pc[i] = "reap"
      <3>1. PICK q : q = reaped[i] + 1
        OBVIOUS
      <3>2. q \in 0..Depth /\ q <= count[i] /\ reaped' = [reaped EXCEPT ![i] = q]
        BY <1>4, <1>7, <2>2, <3>1
      <3> QED  BY <2>1, <2>2, <3>1, <3>2
    <2>3. CASE pc[i] # "reap"
      BY <1>4, <1>7, <2>1, <2>3
    <2> QED  BY <2>2, <2>3
  <1>10. ThreadType'
    BY <1>1, <1>3, <1>9 DEF ThreadType
  <1>11. to \in ThreadPcs /\ to \notin {"none", "new"} /\ to \notin Filling
    BY <1>2 DEF ThreadPcs, Filling
  <1>12. Places'
    <2>1. pc[i] \notin {"none", "new"} /\ pos'[i] <= Len(plan.transfers[mine[i]]) /\ reaped'[i] <= count'[i]
      BY <1>3, <1>5, <1>7, <1>9
    <2>2. \A k \in Queues : k # i => pos'[k] = pos[k] /\ count'[k] = count[k] /\ reaped'[k] = reaped[k]
      BY <1>3, <1>9
    <2> QED  BY <1>1, <1>3, <1>5, <1>11, <2>1, <2>2, PlaceStep
  <1>13. pc'[i] = to /\ \A k \in Queues : k # i => pc'[k] = pc[k]
    BY <1>5 DEF BarrierType
  <1>14. ASSUME ~Shared PROVE \A k \in Queues : k # i => Apart(k)
    <2>1. \A k \in Queues : k # i => sq'[k] = sq[k] /\ cq'[k] = cq[k]
      BY <1>1, <1>2, <1>3, <1>6, <1>14 DEF TakeCompletion, QueueType
    <2> QED  BY <1>3, <1>9, <1>13, <2>1 DEF Apart
  <1>15. ASSUME ~Shared, OwnQueue(i) PROVE OwnQueue(i)'
    <2>1. Unsent(i)' = Unsent(i) /\ InFlight(i)' = InFlight(i) - 1
      BY <1>2, <1>3, <1>5, <1>7, <1>9, <1>13 DEF InFlight, Unsent, Filling
    <2> QED  BY <1>1, <1>2, <1>3, <1>6, <1>8, <1>15, <2>1, TakeOwn
  <1> QED  BY <1>3, <1>5, <1>8, <1>10, <1>12, <1>14, <1>15, QueueUser

\* Full: where each thread has a queue of its own, deeper than the window, there is room.
LEMMA FullQueues ==
    ASSUME QueueInv, BarrierType, NEW i \in Queues, Full(i)
    PROVE  QueueInv'
  <1>1. ThreadType /\ Places /\ Rings /\ Owned
    BY DEF QueueInv
  <1>2. /\ UNCHANGED <<plan, made, pc, mine, rep, pos, count, reaped, queueVars, dev>>
        /\ UNCHANGED <<sq, cq, sqmem, cqmem, prp, sqdb, cqdb>> /\ mpc' = "terminated"
        /\ Queues' = Queues /\ pc[i] \in {"fill", "flush"} /\ (pc[i] = "fill" => count[i] < Depth)
        /\ Shared \/ SqFull(sq[mine[i]])
    BY DEF Full, MayBeFull, threadVars, queueVars, Queues
  <1>3. Shared' = Shared
    BY <1>2, SharedKept
  <1>4. Rings'
    BY <1>1, <1>2, <1>3, QueuesKept DEF Rings
  <1>5. ThreadType'
    BY <1>1, <1>2 DEF ThreadType
  <1>6. Places' /\ Finished'
    BY <1>1, <1>2 DEF Places, Finished
  <1>7. Owned'
    <2> SUFFICES ASSUME ~Shared PROVE \A k \in Queues : OwnQueue(k)'
      BY <1>2, <1>3 DEF Owned
    <2>1. ASSUME NEW k \in Queues PROVE OwnQueue(k)'
      <3>1. OwnQueue(k)
        BY <1>1 DEF Owned
      <3>2. InFlight(k)' = InFlight(k) /\ Unsent(k)' = Unsent(k)
        BY <1>2, FlightFrame
      <3> QED  BY <1>2, <3>1, <3>2, OwnFrame
    <2> QED  BY <2>1
  <1>8. FullOnlyWhere'
    <2> SUFFICES ASSUME ~Shared, Depth < N, Word % N = 0 PROVE FALSE
      <3>1. ~Shared => N \in Nat /\ Depth \in Nat
        BY <1>1, BenchAssumption DEF Rings, QueueType
      <3> QED  BY <1>2, <1>3, <3>1 DEF FullOnlyWhere, N
    <2>0. QueueType
      BY <1>1 DEF Rings
    <2>1. mine[i] = i /\ OwnQueue(i)
      BY <1>1, <1>2, Works DEF Owned
    <2>2. /\ N \in Nat \ {0} /\ Word \in Nat \ {0} /\ Depth \in Nat \ {0} /\ count[i] \in Nat
          /\ sq[i].head \in 0..(N - 1) /\ sq[i].tail \in 0..(N - 1) /\ sq[i].max_entries = N
      BY <1>1, <2>0, PositionFacts, ThreadFacts, BenchAssumption
    <2>3. sq[i] \in InRing(N) /\ SqFull(sq[i])
      BY <1>2, <2>0, <2>1, PositionFacts
    <2>5. Dist(sq[i].head, sq[i].tail, N) = N - 1
      BY <2>2, <2>3, RingFull
    <2>6. Dist(sq[i].head, sq[i].tail, N) = InFlight(i)
      BY <2>1 DEF OwnQueue, Fits
    <2>7. InFlight(i) < Depth
      BY <1>2, <2>2 DEF InFlight, Filling
    <2> QED  BY <2>2, <2>5, <2>6, <2>7
  <1> QED  BY <1>4, <1>5, <1>6, <1>7, <1>8 DEF QueueInv

\* The steps of main.
LEMMA MainQueues ==
    ASSUME QueueInv, BarrierType, MadeInOrder, Running, MainStep \/ CreateFails
    PROVE  QueueInv'
  <1>1. /\ ThreadType /\ Places /\ Owned /\ FullOnlyWhere /\ Finished
        /\ ~Shared => QueueType /\ Created /\ Rung /\ Tags
    BY DEF QueueInv, Rings
  <1>2. /\ UNCHANGED <<plan, mine, rep, pos, count, reaped, queueVars>> /\ Queues' = Queues
        /\ UNCHANGED <<sq, cq, sqmem, cqmem, prp, sqdb, cqdb>>
    BY DEF MainStep, CreateCq, CreateSq, CreateFails, QueuesMade, MakeThread, Join,
        mainVars,
           threadVars, queueVars, Queues
  <1>3. plan.n \in Nat /\ made \in 0..plan.n
    BY <1>1 DEF BarrierType, ThreadType
  <1>4. ThreadType'
    <2>1. made' \in 0..plan.n
      BY <1>3 DEF MainStep, CreateCq, CreateSq, CreateFails, QueuesMade, MakeThread,
          Join, mainVars
    <2> QED  BY <1>1, <1>2, <2>1 DEF ThreadType
  <1>5. Shared' = Shared
    BY <1>2, SharedKept
  <1>6. /\ \A k \in Queues : pc'[k] = pc[k] \/ (pc[k] = "none" /\ pc'[k] = "new")
        /\ mpc' # "terminated" /\ (mpc' = "exit" => \A k \in Queues : pc'[k] = "done")
    <2>1. CASE MakeThread
      <3>1. PICK t : t = made + 1
        OBVIOUS
      <3>2. t \in Queues /\ mpc = "threads" /\ mpc' = mpc /\ pc' = [pc EXCEPT ![t] = "new"]
        BY <1>3, <2>1, <3>1 DEF MakeThread, Queues
      <3>3. pc[t] = "none"
        BY <1>3, <3>1, <3>2 DEF MadeInOrder
      <3> QED  BY <3>2, <3>3 DEF BarrierType
    <2>2. CASE Join
      BY <2>2 DEF Join, threadVars
    <2>3. CASE CreateCq \/ CreateSq \/ CreateFails \/ QueuesMade
      BY <2>3 DEF CreateCq, CreateSq, CreateFails, QueuesMade, threadVars, mainVars,
          Running
    <2> QED  BY <2>1, <2>2, <2>3 DEF MainStep
  <1>7. Places'
    BY <1>1, <1>2, <1>6 DEF Places, Filling
  <1>8. FullOnlyWhere' /\ Finished'
    BY <1>2, <1>6 DEF FullOnlyWhere, Finished
  <1>9. ASSUME ~Shared
        PROVE  /\ QueueType' /\ Created' /\ Rung' /\ Tags'
               /\ \A k \in Queues : /\ dev'[k].head = dev[k].head /\ dev'[k].tail = dev[k].tail
                                    /\ dev'[k].executing = dev[k].executing
    <2>0. QueueType /\ Created /\ Rung /\ Tags
      BY <1>1, <1>9
    <2>1. CASE UNCHANGED dev
      BY <1>2, <2>0, <2>1, QueuesKept
    <2>2. CASE CreateCq \/ CreateSq
      <3>1. PICK t : t = made + 1
        OBVIOUS
      <3>2. t \in Queues /\ t \in Nat
        BY <1>3, <2>2, <3>1 DEF CreateCq, CreateSq, Queues
      <3>3. /\ N \in Nat /\ N > 0 /\ cq[t].max_entries = N /\ sq[t].max_entries = N
            /\ dev[t] \in DevQueue /\ dev \in [Queues -> DevQueue] /\ N - 1 + 1 = N
        <4>1. dev[t] \in DevQueue /\ dev \in [Queues -> DevQueue]
          BY <2>0, <3>2, DevFacts DEF QueueType
        <4>2. N \in Nat /\ N > 0 /\ cq[t].max_entries = N /\ sq[t].max_entries = N
          BY <2>0, <3>2, PositionFacts
        <4> QED  BY <4>1, <4>2
      <3>4. PICK e : \/ e = [dev[t] EXCEPT !.cqsize = N] /\ CreateCq
                     \/ e = [dev[t] EXCEPT !.sqsize = N] /\ CreateSq
        BY <2>2
      <3>5. /\ e \in DevQueue /\ e.head = dev[t].head /\ e.tail = dev[t].tail /\ e.phase = dev[t].phase
            /\ e.executing = dev[t].executing
            /\ e.sqsize # 0 => e.cqsize # 0
            /\ dev[t].sqsize # 0 => e.sqsize # 0
        <4>1. CASE e = [dev[t] EXCEPT !.cqsize = N]
          BY <3>3, <4>1 DEF DevQueue
        <4>2. CASE e = [dev[t] EXCEPT !.sqsize = N] /\ CreateSq
          <5>1. dev[t].cqsize # 0
            BY <3>1, <4>2 DEF CreateSq
          <5> QED  BY <3>3, <4>2, <5>1 DEF DevQueue
        <4> QED  BY <3>4, <4>1, <4>2
      <3>6. dev' = [dev EXCEPT ![t] = e]
        <4>1. CASE e = [dev[t] EXCEPT !.cqsize = N] /\ CreateCq
          BY <3>1, <3>2, <3>3, <4>1 DEF CreateCq, _nvm_admin_cq_create
        <4>2. CASE e = [dev[t] EXCEPT !.sqsize = N] /\ CreateSq
          BY <3>1, <3>2, <3>3, <4>2 DEF CreateSq, _nvm_admin_sq_create
        <4> QED  BY <3>4, <4>1, <4>2
      <3>7. dev' \in [Queues -> DevQueue] /\ dev'[t] = e /\ \A k \in Queues : k # t => dev'[k] = dev[k]
        BY <3>2, <3>3, <3>5, <3>6
      <3>8. \A k \in Queues : /\ dev'[k].head = dev[k].head /\ dev'[k].tail = dev[k].tail
                              /\ dev'[k].executing = dev[k].executing /\ dev'[k].phase = dev[k].phase
        BY <3>5, <3>7
      <3>9. N' = N /\ Slots' = Slots /\ DevQueue' = DevQueue
        BY <1>2 DEF N, Slots, DevQueue
      <3>10. QueueType'
        BY <1>2, <2>0, <3>7, <3>9 DEF QueueType
      <3>11. Created'
        BY <1>2, <2>0, <3>5, <3>7, <3>8 DEF Created
      <3>12. Rung'
        BY <1>2, <2>0 DEF Rung
      <3>13. Tags'
        BY <1>2, <2>0, <3>8, <3>9 DEF Tags, Tag
      <3> QED  BY <3>8, <3>10, <3>11, <3>12, <3>13
    <2>3. UNCHANGED dev \/ CreateCq \/ CreateSq
      BY DEF MainStep, CreateFails, QueuesMade, MakeThread, Join
    <2> QED  BY <2>1, <2>2, <2>3
  <1>10. Owned'
    <2> SUFFICES ASSUME ~Shared, NEW k \in Queues PROVE OwnQueue(k)'
      BY <1>2, <1>5 DEF Owned
    <2>1. OwnQueue(k)
      BY <1>1 DEF Owned
    <2>2. InFlight(k)' = InFlight(k) /\ Unsent(k)' = Unsent(k)
      BY <1>2, <1>6 DEF InFlight, Unsent, Filling
    <2>3. N' = N /\ Slots' = Slots
      BY <1>2 DEF N, Slots
    <2>4. Awaited(k)' /\ Fits(k)'
      BY <1>2, <1>9, <2>1, <2>2, <2>3 DEF OwnQueue, Awaited, Fits
    <2>5. ListsKept(k)'
      BY <1>2, <1>9, <2>1, <2>3 DEF OwnQueue, ListsKept
    <2> QED  BY <2>4, <2>5 DEF OwnQueue
  <1>11. Rings'
    BY <1>5, <1>9 DEF Rings
  <1> QED  BY <1>4, <1>7, <1>8, <1>10, <1>11 DEF QueueInv

\* The steps of the controller.
LEMMA DeviceQueues ==
    ASSUME QueueInv, BarrierType, NEW j \in Queues, Fetch(j) \/ Complete(j)
    PROVE  QueueInv'
  <1>0. ~Shared
    BY DEF Fetch, Complete
  <1>1. /\ ThreadType /\ Places /\ QueueType /\ Created /\ Rung /\ Tags /\ Owned
        /\ FullOnlyWhere /\ Finished
    BY <1>0 DEF QueueInv, Rings
  <1>2. /\ UNCHANGED <<plan, mpc, made, pc, mine, rep, pos, count, reaped>> /\ Queues' = Queues
        /\ UNCHANGED <<sq, cq, sqmem, prp, sqdb, cqdb>>
    BY DEF Fetch, Complete, mainVars, threadVars, queueVars, Queues
  <1>3. ThreadType'
    BY <1>1, <1>2 DEF ThreadType
  <1>4. Places'
    BY <1>1, <1>2 DEF Places
  <1>5. FullOnlyWhere' /\ Finished'
    BY <1>1, <1>2, EndFrame
  <1>6. Shared' = Shared
    BY <1>2, SharedKept
  <1>7. QueueType' /\ Created' /\ Rung' /\ Tags' /\ \A k \in Queues : k # j => dev'[k] = dev[k]
    BY <1>1, FetchQueues, CompleteQueues
  <1>8. Owned'
    <2> SUFFICES ASSUME ~Shared PROVE \A k \in Queues' : OwnQueue(k)'
      BY <1>6 DEF Owned
    <2>1. \A k \in Queues : OwnQueue(k)
      BY <1>1 DEF Owned
    <2>2. \A k \in Queues : k # j => Apart(k)
      BY <1>2, <1>7 DEF Apart
    <2>3. InFlight(j)' = InFlight(j) /\ Unsent(j)' = Unsent(j)
      BY <1>2, FlightFrame
    <2>4. OwnQueue(j)'
      <3>1. CASE Fetch(j)
        <4>1. /\ dev[j].head # sqdb[j]
              /\ dev'[j].head = Advance(dev[j].head, N) /\ dev'[j].tail = dev[j].tail
              /\ dev'[j].executing = dev[j].executing \union {sqmem[j][dev[j].head]}
          BY <1>1, <3>1, FetchQueues
        <4> QED  BY <1>1, <1>2, <2>1, <2>3, <4>1, FetchOwn
      <3>2. CASE Complete(j)
        <4>1. /\ Advance(dev[j].tail, N) # cq[j].head
              /\ dev'[j].head = dev[j].head /\ dev'[j].tail = Advance(dev[j].tail, N)
              /\ \E c \in dev[j].executing : dev'[j].executing = dev[j].executing \ {c}
          BY <1>1, <3>2, CompleteQueues
        <4>2. PICK c \in dev[j].executing : dev'[j].executing = dev[j].executing \ {c}
          BY <4>1
        <4> QED  BY <1>1, <1>2, <2>1, <2>3, <4>1, <4>2, CompleteOwn
      <3> QED  BY <3>1, <3>2
    <2> QED  BY <1>2, <2>1, <2>2, <2>4, OthersKeep
  <1> QED  BY <1>3, <1>4, <1>5, <1>7, <1>8 DEF QueueInv, Rings

-----------------------------------------------------------------------------
(* The start *)

\* Rounding up a quotient of naturals gives a natural.
LEMMA QuotientNat ==
    ASSUME NEW a \in Nat, NEW b \in Nat \ {0}
    PROVE  a \div b \in Nat /\ (a + b - 1) \div b \in Nat
  <1>1. a \div b \in Nat
    OBVIOUS
  <1>2. PICK c : c = a + b - 1
    OBVIOUS
  <1>3. c \in Nat
    BY <1>2
  <1>4. c \div b \in Nat
    BY <1>3
  <1> QED  BY <1>1, <1>2, <1>4

\* A product of naturals is one.
LEMMA ProductNat ==
    ASSUME NEW a \in Nat, NEW b \in Nat
    PROVE  a * b \in Nat /\ (a # 0 /\ b # 0 => a * b # 0)
  OBVIOUS

\* A sequence with m positions has a length.
LEMMA SequenceLen ==
    ASSUME NEW m \in Nat, NEW s, DOMAIN s = 1..m
    PROVE  Len(s) \in Nat
  OBVIOUS

\* prepareRange gives a sequence, whatever the range.
LEMMA RangeLen ==
    ASSUME NEW off, NEW first, NEW blocks \in Nat
    PROVE  Len(prepareRange(off, first, blocks)) \in Nat
  <1>1. BlocksPerPage \in Nat \ {0} /\ max_data_pages \in Nat \ {0}
    BY BenchAssumption DEF max_data_pages
  <1>2. PICK m : m = (Pages(blocks) + max_data_pages - 1) \div max_data_pages
    OBVIOUS
  <1>3. Pages(blocks) \in Nat
    BY <1>1, QuotientNat DEF Pages
  <1>4. m \in Nat
    BY <1>1, <1>2, <1>3, QuotientNat
  <1>5. DOMAIN prepareRange(off, first, blocks) = 1..m
    BY <1>2 DEF prepareRange
  <1> QED  BY <1>4, <1>5, SequenceLen

\* So does the plan for every queue, and its queues have at least one entry.
LEMMA PlanLens ==
    ASSUME NEW p \in Plans
    PROVE  /\ \A i \in 1..p.n : Len(p.transfers[i]) \in Nat
           /\ p.entries \in Nat \ {0}
  <1>0. PICK n \in {NumQueues(c, s) : c \in Granted, s \in Granted}, pattern \in Patterns,
             start \in StartBlocks, blocks \in NumBlocks,
             entries \in {QueueSize(x, PageEntries) : x \in CtrlEntries} :
          \E rand \in Draws(pattern, blocks, n) :
             p = [n |-> n, pattern |-> pattern, start |-> start, blocks |-> blocks, entries |-> entries,
                  transfers |-> [i \in 1..n |-> Transfers(pattern, start, blocks, n, rand, i)]]
    BY DEF Plans
  <1>1. PICK e \in CtrlEntries, rand \in Draws(pattern, blocks, n) :
          /\ p.entries = QueueSize(e, PageEntries)
          /\ p.transfers = [i \in 1..p.n |-> Transfers(pattern, start, blocks, p.n, rand, i)]
    BY <1>0
  <1>2. /\ blocks \in Nat \ {0} /\ start \in Nat /\ e \in Nat \ {0} /\ p.n \in Nat \ {0}
        /\ pattern \in {"sequential", "linear", "random"}
        /\ {BlocksPerPage, PageEntries, SizeWord, max_data_pages} \subseteq Nat \ {0}
    BY PlanSize, BenchAssumption DEF max_data_pages
  <1>3. p.entries \in Nat \ {0}
    BY <1>1, <1>2 DEF QueueSize
  <1>4. ASSUME NEW i \in 1..p.n PROVE Len(Transfers(pattern, start, blocks, p.n, rand, i)) \in Nat
    <2>1. PICK perQueue : perQueue = Pages(blocks) \div p.n
      OBVIOUS
    <2>2. PICK first : first = start + PageToBlock(perQueue * (i - 1))
      OBVIOUS
    <2>3. perQueue \in Nat /\ PageToBlock(perQueue) \in Nat
      <3>1. Pages(blocks) \in Nat
        BY <1>2, QuotientNat DEF Pages
      <3>2. perQueue \in Nat
        BY <1>2, <2>1, <3>1, QuotientNat
      <3> QED  BY <1>2, <3>2, ProductNat DEF PageToBlock
    <2>4. first \in Nat
      <3>1. i - 1 \in Nat
        BY <1>2
      <3>2. perQueue * (i - 1) \in Nat
        BY <2>3, <3>1, ProductNat
      <3>3. PageToBlock(perQueue * (i - 1)) \in Nat
        BY <1>2, <3>2, ProductNat DEF PageToBlock
      <3> QED  BY <1>2, <2>2, <3>3
    <2>5. CASE pattern = "sequential"
      BY <1>2, <2>5, RangeLen DEF Transfers
    <2>6. CASE pattern = "linear"
      <3>1. PICK b : b = IF i = p.n THEN (blocks - first) % SizeWord ELSE PageToBlock(perQueue)
        OBVIOUS
      <3>2. b \in Nat
        <4>1. (blocks - first) % SizeWord \in Nat
          BY <1>2, <2>4
        <4> QED  BY <2>3, <3>1, <4>1
      <3>3. Transfers(pattern, start, blocks, p.n, rand, i) = prepareRange(perQueue * (i - 1), first, b)
        BY <2>1, <2>2, <2>6, <3>1 DEF Transfers
      <3> QED  BY <3>2, <3>3, RangeLen
    <2>7. CASE pattern = "random"
      <3>1. PICK m : m = blocks \div maxDataBlock
        OBVIOUS
      <3>2. maxDataBlock \in Nat \ {0}
        BY <1>2, ProductNat DEF maxDataBlock, PageToBlock
      <3>3. m \in Nat
        BY <1>2, <3>1, <3>2, QuotientNat
      <3>4. DOMAIN Transfers(pattern, start, blocks, p.n, rand, i) = 1..m
        BY <2>7, <3>1 DEF Transfers
      <3> QED  BY <3>3, <3>4, SequenceLen
    <2> QED  BY <1>2, <2>5, <2>6, <2>7
  <1>5. \A i \in 1..p.n : Len(p.transfers[i]) \in Nat
    BY <1>1, <1>4
  <1> QED  BY <1>3, <1>5

\* The queues' part holds at the start.
LEMMA QueueInit ==
    ASSUME Init
    PROVE  QueueInv
  <1>1. /\ plan.n \in Nat \ {0} /\ N \in Nat \ {0} /\ \A i \in Queues : Len(plan.transfers[i]) \in Nat
    BY PlanSize, PlanLens DEF Init, N, Queues
  <1>2. /\ made = 0 /\ mpc = "queues"
        /\ pc = [i \in Queues |-> "none"] /\ mine = [i \in Queues |-> 0]
        /\ rep = [i \in Queues |-> 0] /\ pos = [i \in Queues |-> 0]
        /\ count = [i \in Queues |-> 0] /\ reaped = [i \in Queues |-> 0]
    BY DEF Init, Per, Queues
  <1>3. PICK q, c : q = nvm_queue_clear(N) /\ c = [id |-> NoId, list |-> 0]
    OBVIOUS
  <1>4. /\ sq = [i \in Queues |-> q] /\ cq = [i \in Queues |-> q]
        /\ sqmem = [i \in Queues |-> [k \in Slots |-> c]]
        /\ cqmem = [i \in Queues |-> [k \in Slots |-> [phase |-> 0]]]
        /\ prp = [i \in Queues |-> [k \in 1..Depth |-> NoId]]
        /\ sqdb = [i \in Queues |-> 0] /\ cqdb = [i \in Queues |-> 0]
        /\ dev = [i \in Queues |-> NoQueue]
    BY <1>3 DEF Init, Per, Queues, N
  <1>5. Depth \in Nat /\ 0 \in Slots /\ Slots = 0..(N - 1)
    BY <1>1, BenchAssumption DEF Slots, N
  <1>6. ThreadType
    BY <1>1, <1>2, <1>5 DEF ThreadType
  <1>7. Places
    BY <1>2 DEF Places, Filling
  <1>8. /\ q \in InRing(N) /\ q.head = 0 /\ q.tail = 0 /\ q.last = 0 /\ q.phase = 1
    BY <1>1, <1>3 DEF nvm_queue_clear, InRing, Bit
  <1>9. NoId \in Ids /\ c \in Command
    <2>1. NoId \in Ids
      BY DEF NoId, Ids
    <2> QED  BY <1>3, <1>5, <2>1 DEF Command
  <1>10. /\ NoQueue \in DevQueue /\ NoQueue.head = 0 /\ NoQueue.tail = 0 /\ NoQueue.phase = 1
         /\ NoQueue.executing = {} /\ NoQueue.sqsize = 0 /\ NoQueue.cqsize = 0
    BY <1>5 DEF NoQueue, DevQueue, Bit
  <1>11. QueueType
    <2>1. sq \in [Queues -> InRing(N)] /\ cq \in [Queues -> InRing(N)]
      BY <1>4, <1>8
    <2>2. sqmem \in [Queues -> [Slots -> Command]]
      BY <1>4, <1>9
    <2>3. cqmem \in [Queues -> [Slots -> [phase : Bit]]]
      BY <1>4 DEF Bit
    <2>4. prp \in [Queues -> [1..Depth -> Ids]]
      BY <1>4, <1>9
    <2>5. sqdb \in [Queues -> Slots] /\ cqdb \in [Queues -> Slots] /\ dev \in [Queues -> DevQueue]
      BY <1>4, <1>5, <1>10
    <2> QED  BY <1>1, <2>1, <2>2, <2>3, <2>4, <2>5 DEF QueueType
  <1>12. Created
    BY <1>4, <1>10, FS_EmptySet DEF Created
  <1>13. Rung
    BY <1>4, <1>8 DEF Rung
  <1>14. Tags
    <2>1. ASSUME NEW j \in Queues
          PROVE  /\ \A k \in Slots : cqmem[j][k].phase = 0 /\ ~(k < dev[j].tail)
                 /\ cq[j].phase = 1 /\ cq[j].head <= dev[j].tail /\ dev[j].phase = 1
      BY <1>1, <1>4, <1>5, <1>8, <1>10
    <2> QED  BY <2>1 DEF Tags, Tag
  <1>15. Owned
    <2> SUFFICES ASSUME NEW j \in Queues PROVE OwnQueue(j)
      BY DEF Owned
    <2>1. InFlight(j) = 0 /\ Unsent(j) = 0
      BY <1>2 DEF InFlight, Unsent, Filling
    <2>2. /\ sq[j].tail = 0 /\ sq[j].head = 0 /\ cq[j].head = 0 /\ sqdb[j] = 0
          /\ dev[j].head = 0 /\ dev[j].tail = 0 /\ dev[j].executing = {}
      BY <1>4, <1>8, <1>10
    <2>3. Dist(0, 0, N) = 0 /\ Cardinality({}) = 0
      BY <1>1, FS_EmptySet DEF Dist
    <2>4. Awaited(j) /\ Fits(j)
      BY <2>1, <2>2, <2>3 DEF Awaited, Fits
    <2>5. ASSUME NEW k \in Slots PROVE ~(Dist(0, k, N) < 0)
      BY <1>1, <1>5 DEF Dist
    <2>6. ListsKept(j)
      BY <2>2, <2>3, <2>5 DEF ListsKept
    <2> QED  BY <2>4, <2>6 DEF OwnQueue
  <1>16. FullOnlyWhere /\ Finished
    BY <1>2 DEF FullOnlyWhere, Finished
  <1> QED  BY <1>6, <1>7, <1>11, <1>12, <1>13, <1>14, <1>15, <1>16 DEF QueueInv, Rings

-----------------------------------------------------------------------------
(* Theorems *)

\* Every step keeps the queues' part.
LEMMA QueueSteps ==
    ASSUME BarrierInv, QueueInv, [Next]_vars
    PROVE  QueueInv'
  <1>0. BarrierType /\ MadeInOrder
    BY DEF BarrierInv
  <1>1. CASE UNCHANGED vars
    <2>1. /\ UNCHANGED <<plan, mpc, made, pc, mine, rep, pos, count, reaped, dev, queueVars>>
          /\ UNCHANGED <<sq, cq, sqmem, cqmem, prp, sqdb, cqdb>> /\ Queues' = Queues
      BY <1>1 DEF vars, mainVars, threadVars, queueVars, Queues
    <2>2. ThreadType /\ Places /\ Rings /\ Owned /\ FullOnlyWhere /\ Finished
      BY DEF QueueInv
    <2>3. Rings' /\ FullOnlyWhere' /\ Finished'
      <3>1. Shared' = Shared
        BY <2>1, SharedKept
      <3>2. Rings'
        BY <2>1, <2>2, <3>1, QueuesKept DEF Rings
      <3> QED  BY <2>1, <2>2, <3>2, EndFrame
    <2>4. ThreadType' /\ Places'
      BY <2>1, <2>2 DEF ThreadType, Places
    <2>5. Owned'
      <3> SUFFICES ASSUME ~Shared, NEW k \in Queues PROVE OwnQueue(k)'
        BY <2>1, SharedKept DEF Owned
      <3>1. OwnQueue(k)
        BY <2>2 DEF Owned
      <3>2. InFlight(k)' = InFlight(k) /\ Unsent(k)' = Unsent(k)
        BY <2>1, FlightFrame
      <3> QED  BY <2>1, <3>1, <3>2, OwnFrame
    <2> QED  BY <2>3, <2>4, <2>5 DEF QueueInv
  <1>2. CASE Running /\ (MainStep \/ CreateFails)
    BY <1>0, <1>2, MainQueues
  <1>3. ASSUME Running, NEW i \in Queues, Thread(i) PROVE QueueInv'
    <2>1. CASE Start(i) \/ Repeat(i) \/ Window(i)
      BY <1>0, <1>3, <2>1, StartQueues, RepeatQueues, WindowQueues
    <2>2. CASE Filled(i) \/ Arrive(i) \/ Zero(i) \/ Raise(i) \/ Spin(i) \/ Reaped(i)
      BY <1>0, <1>3, <2>2, MoveQueues
    <2>3. CASE Fill(i) \/ Flush(i) \/ Full(i)
      BY <1>0, <1>3, <2>3, FillQueues, FlushQueues, FullQueues
    <2>4. CASE SubmitWindow(i) \/ FlushSubmit(i)
      BY <1>0, <1>3, <2>4, RingQueues
    <2>5. CASE Reap(i) \/ FlushReap(i)
      BY <1>0, <1>3, <2>5, ReapQueues
    <2> QED  BY <1>3, <2>1, <2>2, <2>3, <2>4, <2>5 DEF Thread
  <1>4. ASSUME NEW j \in Queues, Fetch(j) \/ Complete(j) PROVE QueueInv'
    BY <1>0, <1>4, DeviceQueues
  <1> QED  BY <1>1, <1>2, <1>3, <1>4 DEF Next

\* The inductive invariant holds in every state the benchmark reaches, for every number of
\* queues, depth, queue size and plan.  What it says of the queues it says until a late
\* thread works on another's: the operations of nvm_queue.h are not made for that.
THEOREM Invariance == Spec => []IInv
  <1>1. Init => IInv
    BY BarrierInit, QueueInit DEF IInv
  <1>2. IInv /\ [Next]_vars => IInv'
    BY BarrierSteps, QueueSteps DEF IInv
  <1> QED  BY <1>1, <1>2, PTL DEF Spec

\* Type correctness: threads stay within their transfers and windows, arrived never exceeds
\* the number of queues, and descriptors stay in their rings as long as no two threads work
\* on one queue.
THEOREM TypeCorrect == Spec => []TypeOK
  <1>1. ASSUME IInv PROVE TypeOK
    <2>1. BarrierType /\ Counted /\ ThreadType /\ Rings /\ Places
      BY <1>1 DEF IInv, BarrierInv, QueueInv
    <2>2. ASSUME NEW i \in Queues
          PROVE  /\ pos[i] # 0 => pos[i] \in 1..Len(Work(i))
                 /\ count[i] \in 0..Depth /\ reaped[i] \in 0..count[i] /\ localFlag[i] \in Bit
                 /\ ~Shared => /\ sq[i] \in Descriptor(plan.entries) /\ cq[i] \in Descriptor(plan.entries)
                               /\ dev[i].head \in Slots /\ dev[i].tail \in Slots
      <3>1. ASSUME ~Shared
            PROVE  /\ sq[i] \in Descriptor(plan.entries) /\ cq[i] \in Descriptor(plan.entries)
                   /\ dev[i].head \in Slots /\ dev[i].tail \in Slots
        <4>0. QueueType
          BY <2>1, <3>1 DEF Rings
        <4>1. sq[i] \in InRing(N) /\ cq[i] \in InRing(N) /\ N \in Nat
          BY <4>0, PositionFacts
        <4>2. \A q \in InRing(N) : q \in Descriptor(plan.entries)
          BY <4>1 DEF InRing, Descriptor, N
        <4>3. dev[i].head \in Slots /\ dev[i].tail \in Slots
          BY <4>0, DevFacts DEF Slots, N
        <4> QED  BY <4>1, <4>2, <4>3
      <3>2. pos[i] # 0 => pos[i] \in 1..Len(Work(i))
        <4>1. SUFFICES ASSUME pos[i] # 0 PROVE pos[i] \in 1..Len(Work(i))
          OBVIOUS
        <4>2. mine[i] \in Queues /\ pos[i] <= Len(plan.transfers[mine[i]])
          BY <2>1, <4>1 DEF Places
        <4>3. Len(plan.transfers[mine[i]]) \in Nat /\ pos[i] \in Nat
          BY <2>1, <4>2 DEF ThreadType
        <4> QED  BY <4>1, <4>2, <4>3 DEF Work
      <3>3. count[i] \in 0..Depth /\ reaped[i] \in 0..count[i]
        <4>1. count[i] \in 0..Depth /\ count[i] \in Nat /\ reaped[i] \in Nat /\ reaped[i] <= count[i]
          BY <2>1, ThreadFacts DEF Places
        <4> QED  BY <4>1
      <3>4. localFlag[i] \in Bit
        BY <2>1 DEF BarrierType
      <3> QED  BY <3>1, <3>2, <3>3, <3>4
    <2>3. arrived \in 0..plan.n /\ flag \in Bit
      <3>1. PICK x : x = Cardinality(Insiders)
        OBVIOUS
      <3>2. x \in Nat /\ x <= plan.n /\ plan.n \in Nat
        <4>1. Insiders \subseteq 1..plan.n /\ plan.n \in Nat /\ x \in Nat
          BY <2>1, <3>1, InsidersFinite DEF BarrierType
        <4>2. IsFiniteSet(1..plan.n) /\ Cardinality(1..plan.n) = plan.n
          BY <4>1, FS_Interval
        <4>3. Cardinality(Insiders) <= Cardinality(1..plan.n)
          BY <4>1, <4>2, FS_Subset
        <4> QED  BY <3>1, <4>1, <4>2, <4>3
      <3>3. arrived \in {0, x}
        BY <2>1, <3>1 DEF Counted
      <3>4. flag \in Bit
        BY <2>1 DEF BarrierType
      <3> QED  BY <3>2, <3>3, <3>4
    <2> QED  BY <2>2, <2>3 DEF TypeOK
  <1> QED  BY <1>1, Invariance, PTL

\* The threads stay in step: nobody submits a window before all others have filled as
\* many, although the barrier's flag and counter are plain variables that are reset while
\* other threads still spin.
THEOREM WindowsInStep == Spec => []InStep
  <1>1. ASSUME BarrierInv PROVE InStep
    <2>1. BarrierType /\ EqualPasses /\ SubmitsAfter
      BY <1>1 DEF BarrierInv
    <2> SUFFICES ASSUME NEW i \in Queues, NEW j \in Queues PROVE sent[i] <= meets[j]
      BY DEF InStep
    <2>2. /\ meets[i] \in Nat /\ meets[j] \in Nat
          /\ meets[i] - One(Inside(i)) = meets[j] - One(Inside(j))
          /\ sent[i] = meets[i] - One(Ahead(i))
      BY <2>1 DEF BarrierType, EqualPasses, SubmitsAfter
    <2>3. One(Inside(i)) \in {0, 1} /\ One(Inside(j)) \in {0, 1} /\ One(Inside(i)) <= One(Ahead(i))
                             /\ One(Ahead(i)) \in {0, 1}
      BY DEF One, Inside, Ahead
    <2> QED  BY <2>2, <2>3
  <1>2. IInv => InStep
    BY <1>1 DEF IInv
  <1> QED  BY <1>2, Invariance, PTL

\* The memory of commands: a PRP list is not rebuilt while the controller may read it, and
\* a thread that starts its next window, or main when it unmaps, has nothing left there.
THEOREM CommandsKept == Spec => []CommandMemory
  <1>1. ASSUME IInv PROVE CommandMemory
    <2> SUFFICES ASSUME ~Shared, NEW j \in Queues
                 PROVE  /\ \A c \in dev[j].executing : c.list # 0 => prp[j][c.list] = c.id
                        /\ (mpc = "exit" \/ pc[j] \in {"window", "repeat", "fill", "flush"})
                              => dev[j].executing = {}
      BY DEF CommandMemory
    <2>1. ThreadType /\ QueueType /\ Places /\ Created /\ Owned /\ Finished
      BY <1>1 DEF IInv, QueueInv, Rings
    <2>2. OwnQueue(j)
      BY <2>1 DEF Owned
    <2>3. \A c \in dev[j].executing : c.list # 0 => prp[j][c.list] = c.id
      BY <2>2 DEF OwnQueue, ListsKept, ListKept
    <2>4. ASSUME mpc = "exit" \/ pc[j] \in {"window", "repeat", "fill", "flush"}
          PROVE  dev[j].executing = {}
      <3>1. pc[j] \in {"done", "window", "repeat", "fill", "flush"}
        BY <2>1, <2>4 DEF Finished
      <3>2. InFlight(j) = Unsent(j)
        BY <3>1 DEF InFlight, Unsent, Filling
      <3> QED  BY <2>1, <2>2, <3>2, Emptied
    <2> QED  BY <2>3, <2>4
  <1> QED  BY <1>1, Invariance, PTL

\* "Queue is full, should not happen!" is reached only where threads share a queue, the
\* depth is not below the queue's size, or the size does not divide the counters' range.
THEOREM QueueNotFull == Spec => []FullOnlyWhere
  <1>1. IInv => FullOnlyWhere
    BY DEF IInv, QueueInv
  <1> QED  BY <1>1, Invariance, PTL

-----------------------------------------------------------------------------
(* The plan *)

\* Multiples of d
LEMMA Multiples ==
    ASSUME NEW a \in Nat, NEW b \in Nat, NEW d \in Nat
    PROVE  /\ a * d \in Nat /\ (a < b => a * d + d <= b * d) /\ (a + 1) * d = a * d + d
           /\ (a <= b => a * d <= b * d)
  OBVIOUS

\* Division with remainder
LEMMA Remainder ==
    ASSUME NEW x \in Nat, NEW d \in Nat \ {0}
    PROVE  x \div d \in Nat /\ x % d \in 0..(d - 1) /\ x = (x \div d) * d + (x % d)
  <1>1. x \div d \in Nat
    OBVIOUS
  <1>2. x % d \in 0..(d - 1)
    OBVIOUS
  <1>3. x % d = x - d * (x \div d)
    OBVIOUS
  <1>4. (x \div d) * d \in Nat /\ (x \div d) * d = d * (x \div d)
    BY <1>1
  <1> DEFINE w == (x \div d) * d
             r == x % d
  <1> HIDE DEF w, r
  <1>5. r \in Nat /\ w \in Nat /\ r = x - w
    BY <1>2, <1>3, <1>4 DEF w, r
  <1>6. x = w + r
    BY <1>5
  <1>7. x = (x \div d) * d + (x % d)
    BY <1>6 DEF w, r
  <1> QED  BY <1>1, <1>2, <1>7

\* Rounding up: what is below the number of chunks starts below what is divided.
LEMMA Chunks ==
    ASSUME NEW size \in Nat, NEW d \in Nat \ {0}
    PROVE  /\ (size + d - 1) \div d \in Nat
           /\ \A k \in Nat : k < (size + d - 1) \div d <=> k * d < size
  <1> DEFINE x == size + d - 1
             q == x \div d
             r == x % d
  <1>1. x \in Nat
    OBVIOUS
  <1>2. q \in Nat /\ r \in 0..(d - 1) /\ x = q * d + r
    BY <1>1, Remainder
  <1> HIDE DEF q, r
  <1>3. ASSUME NEW k \in Nat PROVE k < q <=> k * d < size
    <2>1. k * d \in Nat /\ q * d \in Nat /\ (k < q => k * d + d <= q * d) /\ (q <= k => q * d <= k * d)
      BY <1>2, Multiples
    <2> DEFINE a == k * d
               b == q * d
    <2> HIDE DEF a, b
    <2>2. a \in Nat /\ b \in Nat /\ (k < q => a + d <= b) /\ (q <= k => b <= a) /\ x = b + r
      BY <1>2, <2>1 DEF a, b
    <2>3. k < q => a < size
      BY <2>2, <1>2
    <2>4. q <= k => ~(a < size)
      BY <2>2, <1>2
    <2>5. k < q <=> a < size
      BY <2>3, <2>4, <1>2
    <2> QED  BY <2>5 DEF a
  <1> QED  BY <1>2, <1>3 DEF q

\* Where pages of the plan lie: queue i has tot[i] pages from (i - 1) * W on, in chunks of
\* max_data_pages.
Laid(list, off, pages) ==
    /\ DOMAIN list = 1..((pages + max_data_pages - 1) \div max_data_pages)
    /\ \A k \in DOMAIN list :
          /\ list[k].startPage = off + (k - 1) * max_data_pages
          /\ list[k].numPages = MinOf(max_data_pages, pages - (k - 1) * max_data_pages)

Layout(p, W, tot) ==
    /\ W \in Nat /\ tot \in [1..p.n -> Nat]
    /\ \A i \in 1..p.n : i < p.n => tot[i] = W
    /\ \A i \in 1..p.n : Laid(p.transfers[i], (i - 1) * W, tot[i])

\* One transfer of such a plan
LEMMA OneTransfer ==
    ASSUME NEW n \in Nat \ {0}, plan.n = n, NEW W, NEW tot, Layout(plan, W, tot), NEW x \in Planned
    PROVE  LET i == x[1]
               k == x[2]
               a == (i - 1) * W
               b == (k - 1) * max_data_pages
           IN /\ i \in 1..n /\ k \in Nat \ {0} /\ k \in DOMAIN plan.transfers[i] /\ x = <<i, k>>
              /\ a \in Nat /\ b \in Nat /\ b < tot[i] /\ tot[i] \in Nat
              /\ PagesOf(Transfer(x)) = (a + b)..(a + b + MinOf(max_data_pages, tot[i] - b) - 1)
  <1> DEFINE i == x[1]
             k == x[2]
             M == max_data_pages
             a == (i - 1) * W
             b == (k - 1) * M
  <1>1. i \in 1..n /\ k \in DOMAIN plan.transfers[i] /\ x = <<i, k>>
    BY DEF Planned, Queues
  <1>2. M \in Nat \ {0}
    BY BenchAssumption DEF max_data_pages
  <1>3. W \in Nat /\ tot[i] \in Nat
    BY <1>1 DEF Layout, Laid
  <1>4. k \in 1..((tot[i] + M - 1) \div M)
    BY <1>1 DEF Layout, Laid
  <1>5. (tot[i] + M - 1) \div M \in Nat
    BY <1>2, <1>3, Chunks
  <1>6. k \in Nat \ {0} /\ k - 1 \in Nat /\ k - 1 < (tot[i] + M - 1) \div M
    BY <1>4, <1>5
  <1>7. b \in Nat /\ b < tot[i]
    BY <1>2, <1>3, <1>6, Chunks, Multiples
  <1>8. a \in Nat
    <2>1. i - 1 \in Nat
      BY <1>1
    <2> QED  BY <2>1, <1>3, Multiples
  <1>9. Transfer(x).startPage = a + b /\ Transfer(x).numPages = MinOf(M, tot[i] - b)
    BY <1>1 DEF Layout, Laid, Transfer
  <1> QED  BY <1>1, <1>3, <1>6, <1>7, <1>8, <1>9 DEF PagesOf

\* The pages of a transfer come after those of an earlier one.
LEMMA PagesBefore ==
    ASSUME NEW n \in Nat \ {0}, plan.n = n, NEW W, NEW tot, Layout(plan, W, tot),
           NEW x \in Planned, NEW y \in Planned, x[1] < y[1] \/ (x[1] = y[1] /\ x[2] < y[2]),
           NEW g \in PagesOf(Transfer(x)), NEW h \in PagesOf(Transfer(y))
    PROVE  g < h
  <1> DEFINE M == max_data_pages
             a == (x[1] - 1) * W
             b == (x[2] - 1) * M
             c == (y[1] - 1) * W
             d == (y[2] - 1) * M
             t == tot[x[1]]
             u == tot[y[1]]
  <1>1. M \in Nat \ {0} /\ W \in Nat
    BY BenchAssumption DEF max_data_pages, Layout
  <1>2. /\ x[1] \in 1..n /\ x[2] \in Nat \ {0} /\ a \in Nat /\ b \in Nat /\ b < t /\ t \in Nat
        /\ PagesOf(Transfer(x)) = (a + b)..(a + b + MinOf(M, t - b) - 1)
    BY OneTransfer
  <1>3. /\ y[1] \in 1..n /\ y[2] \in Nat \ {0} /\ c \in Nat /\ d \in Nat /\ d < u /\ u \in Nat
        /\ PagesOf(Transfer(y)) = (c + d)..(c + d + MinOf(M, u - d) - 1)
    BY OneTransfer
  <1>6. g \in (a + b)..(a + b + MinOf(M, t - b) - 1)
    BY <1>2
  <1>7. h \in (c + d)..(c + d + MinOf(M, u - d) - 1)
    BY <1>3
  <1>8. /\ x[1] \in 1..n /\ x[2] \in Nat \ {0} /\ y[1] \in 1..n /\ y[2] \in Nat \ {0}
    BY <1>2, <1>3
  <1>4. CASE x[1] < y[1]
    <2>1. t = W
      BY <1>2, <1>3, <1>4 DEF Layout
    <2>2. a + W <= c
      <3>1. x[1] - 1 \in Nat /\ y[1] - 1 \in Nat /\ x[1] - 1 < y[1] - 1
        BY <1>8, <1>4
      <3> QED  BY <3>1, <1>1, Multiples
    <2> HIDE DEF a, b, c, d, t, u, M
    <2> QED  BY <1>1, <1>2, <1>3, <1>6, <1>7, <2>1, <2>2 DEF MinOf
  <1>5. CASE x[1] = y[1] /\ x[2] < y[2]
    <2>1. a = c /\ t = u
      BY <1>5
    <2>2. b + M <= d
      <3>1. x[2] - 1 \in Nat /\ y[2] - 1 \in Nat /\ x[2] - 1 < y[2] - 1
        BY <1>8, <1>5
      <3> QED  BY <3>1, <1>1, Multiples
    <2> HIDE DEF a, b, c, d, t, u, M
    <2> QED  BY <1>1, <1>2, <1>3, <1>6, <1>7, <2>1, <2>2 DEF MinOf
  <1> QED  BY <1>4, <1>5

\* No two transfers have a page in common.
LEMMA PlanPagesApart ==
    ASSUME NEW n \in Nat \ {0}, plan.n = n, NEW W, NEW tot, Layout(plan, W, tot)
    PROVE  PagesApart
  <1> SUFFICES ASSUME NEW x \in Planned, NEW y \in Planned, x # y, NEW g,
                      g \in PagesOf(Transfer(x)), g \in PagesOf(Transfer(y))
               PROVE  FALSE
    BY DEF PagesApart
  <1>1. x[1] \in 1..n /\ x[2] \in Nat \ {0} /\ x = <<x[1], x[2]>>
    BY OneTransfer
  <1>2. y[1] \in 1..n /\ y[2] \in Nat \ {0} /\ y = <<y[1], y[2]>>
    BY OneTransfer
  <1>3. x[1] # y[1] \/ x[2] # y[2]
    BY <1>1, <1>2
  <1>4. \/ x[1] < y[1] \/ (x[1] = y[1] /\ x[2] < y[2])
        \/ y[1] < x[1] \/ (y[1] = x[1] /\ y[2] < x[2])
    BY <1>1, <1>2, <1>3
  <1>5. g \in Nat
    <2>1. PICK a \in Nat, b \in Nat, z \in Int : g \in (a + b)..z
      <3>1. /\ (x[1] - 1) * W \in Nat /\ (x[2] - 1) * max_data_pages \in Nat /\ tot[x[1]] \in Nat
            /\ PagesOf(Transfer(x)) = ((x[1] - 1) * W + (x[2] - 1) * max_data_pages)..
                 ((x[1] - 1) * W + (x[2] - 1) * max_data_pages
                    + MinOf(max_data_pages, tot[x[1]] - (x[2] - 1) * max_data_pages) - 1)
        BY OneTransfer
      <3>2. max_data_pages \in Nat
        BY BenchAssumption DEF max_data_pages
      <3> DEFINE a == (x[1] - 1) * W
                 b == (x[2] - 1) * max_data_pages
                 z == a + b + MinOf(max_data_pages, tot[x[1]] - b) - 1
      <3> HIDE DEF a, b
      <3>3. z \in Int
        BY <3>1, <3>2 DEF MinOf, a, b
      <3> QED  BY <3>1, <3>3 DEF a, b
    <2> QED  BY <2>1
  <1>6. ~(g < g)
    BY <1>5
  <1> QED  BY <1>4, <1>6, PagesBefore

\* Where a page of the plan lies
LEMMA PageFound ==
    ASSUME NEW n \in Nat \ {0}, NEW W \in Nat, NEW t \in Nat, NEW g \in Nat, g < (n - 1) * W + t
    PROVE  \E i \in 1..n : LET tot == IF i < n THEN W ELSE t
                           IN (i - 1) * W <= g /\ g < (i - 1) * W + tot
  <1>1. n - 1 \in Nat /\ (n - 1) * W \in Nat
    BY Multiples
  <1>2. CASE (n - 1) * W <= g
    <2>1. n \in 1..n /\ ~(n < n)
      OBVIOUS
    <2> QED  BY <1>2, <2>1
  <1>3. CASE g < (n - 1) * W
    <2>1. W # 0
      BY <1>1, <1>3
    <2> DEFINE q == g \div W
               r == g % W
    <2>2. q \in Nat /\ r \in 0..(W - 1) /\ g = q * W + r
      BY <2>1, Remainder
    <2> HIDE DEF q, r
    <2>3. q * W \in Nat /\ (n - 1 <= q => (n - 1) * W <= q * W)
      BY <2>2, <1>1, Multiples
    <2>4. q * W <= g /\ g < q * W + W
      <3> DEFINE w == q * W
      <3> HIDE DEF w
      <3>1. w \in Nat /\ g = w + r
        BY <2>2, <2>3 DEF w
      <3>2. w <= g /\ g < w + W
        BY <3>1, <2>2
      <3> QED  BY <3>2 DEF w
    <2>5. q < n - 1
      BY <2>2, <2>3, <2>4, <1>1, <1>3
    <2>6. q + 1 \in 1..n /\ q + 1 < n /\ (q + 1) - 1 = q
      BY <2>2, <2>5
    <2> QED  BY <2>4, <2>6
  <1>4. (n - 1) * W <= g \/ g < (n - 1) * W
    BY <1>1
  <1> QED  BY <1>2, <1>3, <1>4

\* The pages in use are the first ones.
LEMMA PlanPagesFilled ==
    ASSUME NEW n \in Nat \ {0}, plan.n = n, NEW W, NEW tot, Layout(plan, W, tot)
    PROVE  Used = 0..(((n - 1) * W + tot[n]) - 1)
  <1> DEFINE M == max_data_pages
             E == (n - 1) * W
             K == E + tot[n]
  <1>1. M \in Nat \ {0} /\ W \in Nat /\ n - 1 \in Nat
    BY BenchAssumption DEF max_data_pages, Layout
  <1>2. E \in Nat /\ tot[n] \in Nat
    BY <1>1, Multiples DEF Layout
  <1>3. K \in Nat
    BY <1>2
  <1>4. ASSUME NEW x \in Planned, NEW g \in PagesOf(Transfer(x)) PROVE g \in 0..(K - 1)
    <2> DEFINE i == x[1]
               a == (i - 1) * W
               b == (x[2] - 1) * M
               t == tot[i]
    <2>1. /\ i \in 1..n /\ a \in Nat /\ b \in Nat /\ b < t /\ t \in Nat
          /\ PagesOf(Transfer(x)) = (a + b)..(a + b + MinOf(M, t - b) - 1)
      BY OneTransfer
    <2>2. g \in (a + b)..(a + b + MinOf(M, t - b) - 1)
      BY <2>1
    <2>3. a + t <= K
      <3>1. CASE i = n
        BY <3>1, <2>1, <1>2
      <3>2. CASE i < n
        <4>1. i - 1 \in Nat /\ i - 1 < n - 1 /\ t = W
          <5>1. i \in 1..n
            BY <2>1
          <5>2. t = W
            BY <5>1, <3>2 DEF Layout
          <5> QED  BY <5>1, <5>2, <3>2
        <4>2. a + W <= E
          BY <4>1, <1>1, Multiples
        <4> HIDE DEF a, E, t
        <4> QED  BY <4>1, <4>2, <2>1, <1>1, <1>2
      <3>3. i = n \/ i < n
        <4>1. i \in 1..n
          BY <2>1
        <4> QED  BY <4>1
      <3> QED  BY <3>1, <3>2, <3>3
    <2> HIDE DEF a, b, t, K, M
    <2> QED  BY <1>1, <1>3, <2>1, <2>2, <2>3 DEF MinOf
  <1>5. ASSUME NEW g \in 0..(K - 1) PROVE g \in Used
    <2>1. g \in Nat /\ g < (n - 1) * W + tot[n]
      BY <1>3
    <2>2. PICK i \in 1..n : LET u == IF i < n THEN W ELSE tot[n]
                            IN (i - 1) * W <= g /\ g < (i - 1) * W + u
      BY <2>1, <1>1, <1>2, PageFound
    <2> DEFINE a == (i - 1) * W
               t == tot[i]
               q == g - a
    <2>3. t = (IF i < n THEN W ELSE tot[n]) /\ t \in Nat
      <3>1. CASE i < n
        BY <3>1 DEF Layout
      <3>2. CASE ~(i < n)
        <4>1. i = n
          BY <3>2
        <4> QED  BY <4>1, <1>2
      <3> QED  BY <3>1, <3>2
    <2>4. a \in Nat
      <3>1. i - 1 \in Nat
        OBVIOUS
      <3> QED  BY <3>1, <1>1, Multiples
    <2>5. q \in Nat /\ q < t /\ g = a + q
      <3>1. a <= g /\ g < a + t
        BY <2>2, <2>3
      <3> HIDE DEF a, t
      <3> QED  BY <3>1, <2>1, <2>3, <2>4
    <2> HIDE DEF q
    <2> DEFINE j == q \div M
               r == q % M
    <2>6. j \in Nat /\ r \in 0..(M - 1) /\ q = j * M + r /\ j * M \in Nat
      BY <2>5, <1>1, Remainder, Multiples
    <2> HIDE DEF j, r
    <2>7. j * M <= q /\ q < j * M + M
      <3> DEFINE w == j * M
      <3> HIDE DEF w
      <3>1. w \in Nat /\ q = w + r
        BY <2>6 DEF w
      <3>2. w <= q /\ q < w + M
        BY <3>1, <2>6, <1>1
      <3> QED  BY <3>2 DEF w
    <2>8. j < (t + M - 1) \div M /\ (t + M - 1) \div M \in Nat
      <3>1. j * M < t
        <4> DEFINE w == j * M
        <4>1. w \in Nat /\ w <= q
          BY <2>6, <2>7
        <4> HIDE DEF w, t
        <4>2. w < t
          BY <4>1, <2>3, <2>5
        <4> QED  BY <4>2 DEF w
      <3> QED  BY <3>1, <2>3, <2>6, <1>1, Chunks
    <2>9. j + 1 \in 1..((t + M - 1) \div M)
      <3> DEFINE w == (t + M - 1) \div M
      <3>1. w \in Nat /\ j < w
        BY <2>8
      <3> HIDE DEF w
      <3>2. j + 1 \in 1..w
        BY <3>1, <2>6
      <3> QED  BY <3>2 DEF w
    <2>10. j + 1 \in DOMAIN plan.transfers[i]
      BY <2>9 DEF Layout, Laid
    <2> DEFINE x == <<i, j + 1>>
    <2>11. x \in Planned
      BY <2>10 DEF Planned, Queues
    <2>12. x[1] = i /\ x[2] - 1 = j
      BY <2>6
    <2>13. PagesOf(Transfer(x)) = (a + j * M)..(a + j * M + MinOf(M, t - j * M) - 1)
      <3>1. PagesOf(Transfer(x)) = ((x[1] - 1) * W + (x[2] - 1) * M)..
                 ((x[1] - 1) * W + (x[2] - 1) * M + MinOf(M, tot[x[1]] - (x[2] - 1) * M) - 1)
        BY <2>11, OneTransfer
      <3> HIDE DEF x
      <3> QED  BY <3>1, <2>12
    <2>14. g \in PagesOf(Transfer(x))
      <3> DEFINE w == j * M
      <3>1. w \in Nat /\ w <= q /\ q < w + M
        BY <2>6, <2>7
      <3> HIDE DEF w, a, t, M
      <3>2. g \in (a + w)..(a + w + MinOf(M, t - w) - 1)
        BY <3>1, <2>3, <2>4, <2>5, <1>1 DEF MinOf
      <3> QED  BY <3>2, <2>13 DEF w
    <2> QED  BY <2>11, <2>14 DEF Used
  <1>6. Used \subseteq 0..(K - 1)
    BY <1>4 DEF Used
  <1>7. 0..(K - 1) \subseteq Used
    BY <1>5
  <1>8. Used = 0..(K - 1)
    <2> HIDE DEF K
    <2> QED  BY <1>6, <1>7
  <1> QED  BY <1>8

\* So the buffer, which has as many pages, holds all of them.
LEMMA PlanPagesInside ==
    ASSUME NEW n \in Nat \ {0}, plan.n = n, NEW W, NEW tot, Layout(plan, W, tot)
    PROVE  PagesInBuffer
  <1> DEFINE K == (n - 1) * W + tot[n]
  <1>1. Used = 0..(K - 1)
    BY PlanPagesFilled
  <1>2. K \in Nat
    <2>1. W \in Nat /\ n - 1 \in Nat /\ tot[n] \in Nat
      BY DEF Layout
    <2>2. (n - 1) * W \in Nat
      BY <2>1, Multiples
    <2> QED  BY <2>1, <2>2
  <1> HIDE DEF K
  <1>3. Cardinality(0..(K - 1)) = K
    <2>1. Cardinality(0..(K - 1)) = IF 0 > K - 1 THEN 0 ELSE (K - 1) - 0 + 1
      BY <1>2, FS_Interval
    <2> QED  BY <2>1, <1>2
  <1>4. Used = 0..(Cardinality(Used) - 1)
    BY <1>1, <1>3
  <1> QED  BY <1>4 DEF PagesInBuffer, Used

\* Rounding up whole pages
LEMMA Whole ==
    ASSUME NEW a \in Nat, NEW d \in Nat \ {0}
    PROVE  (a * d + d - 1) \div d = a
  <1> DEFINE w == a * d
             e == (w + d - 1) \div d
  <1>1. w \in Nat
    BY Multiples
  <1>2. e \in Nat /\ \A k \in Nat : k < e <=> k * d < w
    BY <1>1, Chunks
  <1>3. ~(a < e)
    BY <1>1, <1>2
  <1>4. ~(e < a)
    <2>1. e < a => e * d + d <= w
      BY <1>2, Multiples
    <2>2. ~(e < e) /\ e * d \in Nat
      BY <1>2, Multiples
    <2>3. ~(e * d < w)
      BY <1>2, <2>2
    <2> HIDE DEF e, w
    <2> QED  BY <1>1, <2>1, <2>2, <2>3
  <1>5. e = a
    <2> HIDE DEF e
    <2> QED  BY <1>2, <1>3, <1>4
  <1> QED  BY <1>5

\* A queue whose transfers prepareRange makes
LEMMA RangeLaid ==
    ASSUME NEW off, NEW first, NEW blocks
    PROVE  Laid(prepareRange(off, first, blocks), off, Pages(blocks))
  BY DEF prepareRange, Laid

\* A random transfer: it is as long as a command may be.
LEMMA DrawLaid ==
    ASSUME NEW off \in Nat, NEW first
    PROVE  LET t == prepareRange(off, first, maxDataBlock)[1]
           IN t.startPage = off /\ t.numPages = max_data_pages
  <1> DEFINE M == max_data_pages
             list == prepareRange(off, first, maxDataBlock)
  <1>1. M \in Nat \ {0} /\ BlocksPerPage \in Nat \ {0}
    BY BenchAssumption DEF max_data_pages
  <1>2. Pages(maxDataBlock) = M
    BY <1>1, Whole, Multiples DEF Pages, maxDataBlock, PageToBlock
  <1>3. (M + M - 1) \div M = 1
    <2>1. (1 * M + M - 1) \div M = 1
      BY <1>1, Whole
    <2>2. 1 * M = M
      BY <1>1
    <2> QED  BY <2>1, <2>2
  <1>4. Laid(list, off, M)
    BY <1>2, RangeLaid
  <1> HIDE DEF list
  <1>5. 1 \in DOMAIN list
    BY <1>3, <1>4 DEF Laid
  <1>6. list[1].startPage = off + (1 - 1) * M /\ list[1].numPages = MinOf(M, M - (1 - 1) * M)
    BY <1>4, <1>5 DEF Laid
  <1>7. (1 - 1) * M = 0 /\ MinOf(M, M - 0) = M /\ off + 0 = off
    BY <1>1 DEF MinOf
  <1> QED  BY <1>6, <1>7 DEF list

\* The random pattern: the transfers of all queues one after the other
LEMMA RandomLaid ==
    ASSUME NEW start, NEW blocks \in Nat, NEW n, NEW rand, NEW a \in Nat, NEW draws \in Nat,
           draws = blocks \div maxDataBlock
    PROVE  LET W == draws * max_data_pages
           IN Laid(Transfers("random", start, blocks, n, rand, a + 1), a * W, W)
  <1> DEFINE M == max_data_pages
             W == draws * M
             O(k) == (((a + 1) - 1) * draws + k - 1) * M
             D(k) == prepareRange(O(k), rand[((a + 1) - 1) * draws + k], maxDataBlock)[1]
             list == Transfers("random", start, blocks, n, rand, a + 1)
  <1>1. M \in Nat \ {0}
    BY BenchAssumption DEF max_data_pages
  <1>2. W \in Nat /\ (W + M - 1) \div M = draws
    BY <1>1, Multiples, Whole
  <1>3. list = [k \in 1..draws |-> D(k)]
    BY DEF Transfers
  <1>4. ASSUME NEW k \in 1..draws
        PROVE  D(k).startPage = a * W + (k - 1) * M /\ D(k).numPages = MinOf(M, W - (k - 1) * M)
    <2> DEFINE b == k - 1
               u == a * draws
    <2>1. b \in Nat /\ b < draws
      OBVIOUS
    <2> HIDE DEF b
    <2>2. u \in Nat /\ b * M \in Nat /\ b * M + M <= W
      BY <2>1, <1>1, Multiples
    <2>3. ((a + 1) - 1) * draws + k - 1 = u + b
      BY DEF b
    <2>4. (u + b) * M = u * M + b * M /\ u * M = a * W
      BY <2>1, <2>2, <1>1
    <2>5. O(k) = a * W + b * M
      BY <2>3, <2>4
    <2>6. O(k) \in Nat
      BY <2>1, <2>2, <2>3, <1>1, Multiples
    <2>7. D(k).startPage = O(k) /\ D(k).numPages = M
      <3> HIDE DEF O
      <3> QED  BY <2>6, DrawLaid
    <2>8. MinOf(M, W - b * M) = M
      <3> DEFINE v == b * M
      <3> HIDE DEF v, W
      <3>1. v \in Nat /\ v + M <= W
        BY <2>2 DEF v
      <3>2. MinOf(M, W - v) = M
        BY <3>1, <1>1, <1>2 DEF MinOf
      <3> QED  BY <3>2 DEF v
    <2> QED  BY <2>5, <2>7, <2>8 DEF b
  <1> HIDE DEF D, W, list
  <1>5. DOMAIN list = 1..((W + M - 1) \div M)
    BY <1>2, <1>3
  <1>6. ASSUME NEW k \in DOMAIN list
        PROVE  list[k].startPage = a * W + (k - 1) * M /\ list[k].numPages = MinOf(M, W - (k - 1) * M)
    <2>1. k \in 1..draws /\ list[k] = D(k)
      BY <1>3
    <2> QED  BY <2>1, <1>4
  <1>7. Laid(list, a * W, W)
    BY <1>5, <1>6 DEF Laid
  <1> QED  BY <1>7 DEF list, W

\* The linear pattern: every queue but the last has the same number of pages.
LEMMA LinearLaid ==
    ASSUME NEW start \in Nat, NEW blocks \in Nat, NEW n \in Nat \ {0}, NEW rand, NEW i \in 1..n,
           NEW W \in Nat, W = Pages(blocks) \div n
    PROVE  \E t \in Nat : /\ i < n => t = W
                          /\ Laid(Transfers("linear", start, blocks, n, rand, i), (i - 1) * W, t)
  <1> DEFINE F == start + PageToBlock(W * (i - 1))
             B == IF i = n THEN (blocks - F) % SizeWord ELSE PageToBlock(W)
  <1>1. BlocksPerPage \in Nat \ {0} /\ SizeWord \in Nat \ {0}
    BY BenchAssumption
  <1>2. Transfers("linear", start, blocks, n, rand, i) = prepareRange(W * (i - 1), F, B)
    BY DEF Transfers
  <1>3. W * (i - 1) = (i - 1) * W /\ W * (i - 1) \in Nat
    <2>1. i - 1 \in Nat
      OBVIOUS
    <2> QED  BY <2>1
  <1>4. F \in Nat
    BY <1>1, <1>3, Multiples DEF PageToBlock
  <1> HIDE DEF F
  <1>5. (blocks - F) % SizeWord \in Nat
    BY <1>1, <1>4
  <1>6. PageToBlock(W) \in Nat /\ Pages(PageToBlock(W)) = W
    BY <1>1, Whole, Multiples DEF Pages, PageToBlock
  <1>7. B \in Nat /\ (i < n => Pages(B) = W)
    BY <1>5, <1>6
  <1> HIDE DEF B
  <1>8. Pages(B) \in Nat
    BY <1>1, <1>7, Chunks DEF Pages
  <1>9. Laid(prepareRange(W * (i - 1), F, B), W * (i - 1), Pages(B))
    BY RangeLaid
  <1> QED  BY <1>2, <1>3, <1>7, <1>8, <1>9

\* Every plan is laid out so.
LEMMA PlanLaid ==
    ASSUME NEW p \in Plans
    PROVE  \E W, tot : Layout(p, W, tot)
  <1>0. PICK n \in {NumQueues(c, s) : c \in Granted, s \in Granted}, pattern \in Patterns,
             start \in StartBlocks, blocks \in NumBlocks,
             entries \in {QueueSize(x, PageEntries) : x \in CtrlEntries} :
          \E rand \in Draws(pattern, blocks, n) :
             p = [n |-> n, pattern |-> pattern, start |-> start, blocks |-> blocks, entries |-> entries,
                  transfers |-> [i \in 1..n |-> Transfers(pattern, start, blocks, n, rand, i)]]
    BY DEF Plans
  <1>1. PICK rand : /\ p.n = n
                    /\ p.transfers = [i \in 1..n |-> Transfers(pattern, start, blocks, n, rand, i)]
    BY <1>0
  <1>2. /\ blocks \in Nat /\ start \in Nat /\ n \in Nat \ {0}
        /\ pattern \in {"sequential", "linear", "random"}
    BY <1>1, PlanSize, BenchAssumption
  <1>3. BlocksPerPage \in Nat \ {0} /\ max_data_pages \in Nat \ {0}
    BY BenchAssumption DEF max_data_pages
  <1> DEFINE T(i) == Transfers(pattern, start, blocks, n, rand, i)
  <1>4. \A i \in 1..n : p.transfers[i] = T(i)
    BY <1>1
  <1>5. Pages(blocks) \in Nat
    BY <1>2, <1>3, Chunks DEF Pages
  <1>6. CASE pattern = "sequential"
    <2> DEFINE W   == Pages(blocks)
               tot == [i \in 1..n |-> W]
    <2>1. \A i \in 1..n : T(i) = prepareRange((i - 1) * W, start, blocks)
      BY <1>6 DEF Transfers
    <2>2. \A i \in 1..n : Laid(T(i), (i - 1) * W, tot[i])
      BY <2>1, RangeLaid
    <2>3. tot \in [1..n -> Nat] /\ \A i \in 1..n : i < n => tot[i] = W
      BY <1>5
    <2>4. Layout(p, W, tot)
      <3> HIDE DEF W, tot, T
      <3>1. W \in Nat
        BY <1>5 DEF W
      <3> QED  BY <2>2, <2>3, <3>1, <1>1, <1>4 DEF Layout
    <2> QED  BY <2>4
  <1>7. CASE pattern = "linear"
    <2> DEFINE W == Pages(blocks) \div n
    <2>1. W \in Nat
      BY <1>2, <1>5, QuotientNat
    <2> HIDE DEF W
    <2>2. \A i \in 1..n : \E t \in Nat : (i < n => t = W) /\ Laid(T(i), (i - 1) * W, t)
      BY <2>1, <1>2, <1>7, LinearLaid DEF W
    <2> DEFINE P(i, t) == (i < n => t = W) /\ Laid(T(i), (i - 1) * W, t)
               tot     == [i \in 1..n |-> CHOOSE t \in Nat : P(i, t)]
    <2>3. \A i \in 1..n : tot[i] \in Nat /\ P(i, tot[i])
      <3>1. \A i \in 1..n : \E t \in Nat : P(i, t)
        BY <2>2
      <3> HIDE DEF P
      <3> QED  BY <3>1
    <2>4. tot \in [1..n -> Nat] /\ \A i \in 1..n : i < n => tot[i] = W
      BY <2>3
    <2>5. \A i \in 1..n : Laid(T(i), (i - 1) * W, tot[i])
      BY <2>3
    <2>6. Layout(p, W, tot)
      <3> HIDE DEF tot, T
      <3> QED  BY <2>1, <2>4, <2>5, <1>1, <1>4 DEF Layout
    <2> QED  BY <2>6
  <1>8. CASE pattern = "random"
    <2> DEFINE draws == blocks \div maxDataBlock
               W     == draws * max_data_pages
               tot   == [i \in 1..n |-> W]
    <2>1. draws \in Nat
      <3>1. maxDataBlock \in Nat \ {0}
        BY <1>3 DEF maxDataBlock, PageToBlock
      <3> QED  BY <1>2, <3>1, QuotientNat
    <2> HIDE DEF draws
    <2>2. W \in Nat
      BY <1>3, <2>1, Multiples
    <2>3. ASSUME NEW i \in 1..n PROVE Laid(T(i), (i - 1) * W, W)
      <3>1. PICK a \in Nat : a = i - 1 /\ i = a + 1
        <4>1. i - 1 \in Nat /\ i = (i - 1) + 1
          OBVIOUS
        <4> QED  BY <4>1
      <3>2. Laid(Transfers("random", start, blocks, n, rand, a + 1), a * W, W)
        BY <1>2, <2>1, RandomLaid DEF draws
      <3> HIDE DEF W
      <3> QED  BY <1>8, <3>1, <3>2
    <2>4. \A i \in 1..n : Laid(T(i), (i - 1) * W, tot[i])
      BY <2>3
    <2>5. tot \in [1..n -> Nat] /\ \A i \in 1..n : i < n => tot[i] = W
      BY <2>2
    <2>6. Layout(p, W, tot)
      <3> HIDE DEF tot, W, T
      <3> QED  BY <2>2, <2>4, <2>5, <1>1, <1>4 DEF Layout
    <2> QED  BY <2>6
  <1> QED  BY <1>2, <1>6, <1>7, <1>8

\* Command k of a range from block 0: c is its first page.
LEMMA OneCommand ==
    ASSUME maxDataBlock <= BlkWord, NEW blocks \in Nat, blocks < SizeWord, NEW off,
           NEW k \in DOMAIN prepareRange(off, 0, blocks)
    PROVE  LET t == prepareRange(off, 0, blocks)[k]
               c == (k - 1) * max_data_pages
               f == (k - 1) * maxDataBlock
           IN /\ k \in Nat \ {0} /\ f \in Nat /\ f < blocks /\ c \in Nat /\ f = PageToBlock(c)
              /\ t.numPages \in Nat /\ f + MinOf(blocks - f, maxDataBlock) <= PageToBlock(c + t.numPages)
              /\ nvm_cmd_rw_blks(t) = f..(f + (MinOf(blocks - f, maxDataBlock) - 1))
  <1> DEFINE M == max_data_pages
             B == BlocksPerPage
             S == maxDataBlock
             tot == Pages(blocks)
             c == (k - 1) * M
             f == (k - 1) * S
             t == prepareRange(off, 0, blocks)[k]
             g == MinOf(M, tot - c)
  <1>1. M \in Nat \ {0} /\ B \in Nat \ {0} /\ SizeWord \in Nat \ {0} /\ BlkWord \in Nat \ {0}
    BY BenchAssumption DEF max_data_pages
  <1>2. S = M * B /\ S \in Nat \ {0}
    BY <1>1 DEF maxDataBlock, PageToBlock
  <1>3. tot \in Nat /\ \A e \in Nat : e < tot <=> e * B < blocks
    BY <1>1, Chunks DEF Pages
  <1>4. k \in 1..((tot + M - 1) \div M)
    BY DEF prepareRange
  <1>5. (tot + M - 1) \div M \in Nat /\ \A e \in Nat : e < (tot + M - 1) \div M <=> e * M < tot
    BY <1>1, <1>3, Chunks
  <1>6. k \in Nat \ {0} /\ k - 1 \in Nat /\ k - 1 < (tot + M - 1) \div M
    <2> DEFINE L == (tot + M - 1) \div M
    <2>1. L \in Nat /\ k \in 1..L
      BY <1>4, <1>5
    <2> HIDE DEF L
    <2>2. k \in Nat \ {0} /\ k - 1 \in Nat /\ k - 1 < L
      BY <2>1
    <2> QED  BY <2>2 DEF L
  <1>7. c \in Nat /\ c < tot
    BY <1>1, <1>5, <1>6, Multiples
  <1>8. f = c * B /\ f \in Nat
    <2> DEFINE j == k - 1
    <2>1. j \in Nat
      BY <1>6
    <2> HIDE DEF j
    <2>2. j * (M * B) = (j * M) * B /\ (j * M) * B \in Nat
      BY <1>1, <2>1
    <2> QED  BY <2>2, <1>2 DEF j
  <1>9. f < blocks
    BY <1>3, <1>7, <1>8
  <1>10. /\ t.startBlock = 0 + PageToBlock(c) /\ t.numPages = g
         /\ t.numBlocks = MinOf(BlocksLeft(blocks, 0 + PageToBlock(c)), PageToBlock(g))
    BY DEF prepareRange
  <1>11. 0 + PageToBlock(c) = f
    BY <1>8 DEF PageToBlock
  <1>12. BlocksLeft(blocks, f) = blocks - f
    <2> HIDE DEF f
    <2>1. blocks - f \in 0..(SizeWord - 1)
      BY <1>1, <1>8, <1>9
    <2> QED  BY <2>1, <1>1 DEF BlocksLeft
  <1>13. t.startBlock = f /\ t.numBlocks = MinOf(blocks - f, g * B)
    BY <1>10, <1>11, <1>12 DEF PageToBlock
  <1> HIDE DEF f, c, tot, S, M, B, t
  <1>14. g \in Nat /\ g * B \in Nat /\ (c + g) * B = f + g * B
    <2>1. g \in Nat
      BY <1>1, <1>3, <1>7 DEF MinOf
    <2> HIDE DEF g
    <2>2. (c + g) * B = c * B + g * B /\ g * B \in Nat
      BY <2>1, <1>1, <1>7
    <2> QED  BY <2>1, <2>2, <1>8
  <1>15. MinOf(blocks - f, g * B) = MinOf(blocks - f, S)
    <2>1. CASE M <= tot - c
      <3>1. g = M
        BY <2>1 DEF MinOf
      <3> HIDE DEF g
      <3> QED  BY <3>1, <1>2
    <2>2. CASE ~(M <= tot - c)
      <3>1. g = tot - c /\ c + g = tot /\ g <= M
        BY <2>2, <1>1, <1>3, <1>7 DEF MinOf
      <3> HIDE DEF g
      <3>2. ~(tot < tot) /\ tot * B \in Nat
        BY <1>1, <1>3, Multiples
      <3>3. blocks <= tot * B
        BY <3>2, <1>3
      <3>4. tot * B = f + g * B
        BY <3>1, <1>14
      <3>5. g * B <= S
        BY <3>1, <1>1, <1>2, <1>14, Multiples
      <3> DEFINE v == g * B
      <3> HIDE DEF v
      <3>6. v \in Nat /\ blocks <= f + v /\ v <= S
        BY <3>3, <3>4, <3>5, <1>14 DEF v
      <3>7. MinOf(blocks - f, v) = MinOf(blocks - f, S)
        BY <3>6, <1>2, <1>8, <1>9 DEF MinOf
      <3> QED  BY <3>7 DEF v
    <2> QED  BY <2>1, <2>2
  <1>16. MinOf(blocks - f, g * B) <= g * B
    <2> DEFINE v == g * B
    <2>1. v \in Nat
      BY <1>14
    <2> HIDE DEF v
    <2>2. MinOf(blocks - f, v) <= v
      BY <2>1, <1>8, <1>9 DEF MinOf
    <2> QED  BY <2>2 DEF v
  <1>17. f + MinOf(blocks - f, S) <= (c + g) * B
    <2> DEFINE v == g * B
               w == MinOf(blocks - f, S)
    <2>1. v \in Nat /\ w <= v /\ (c + g) * B = f + v
      BY <1>14, <1>15, <1>16
    <2>2. w \in Nat
      BY <1>2, <1>8, <1>9 DEF MinOf
    <2> HIDE DEF v, w
    <2>3. f + w <= f + v
      BY <2>1, <2>2, <1>8
    <2> QED  BY <2>1, <2>3 DEF w
  <1>18. nvm_cmd_rw_blks(t) = f..(f + (MinOf(blocks - f, S) - 1))
    <2>1. t.numBlocks - 1 \in 0..(S - 1)
      BY <1>2, <1>8, <1>9, <1>13, <1>15 DEF MinOf
    <2>2. S <= BlkWord
      BY DEF S
    <2>3. (t.numBlocks - 1) % BlkWord = t.numBlocks - 1
      <3> DEFINE w == t.numBlocks - 1
      <3> HIDE DEF w
      <3>1. w \in Nat /\ w < BlkWord
        BY <2>1, <2>2, <1>1, <1>2 DEF w
      <3>2. w % BlkWord = w
        BY <3>1, <1>1
      <3> QED  BY <3>2 DEF w
    <2> HIDE DEF g
    <2> QED  BY <2>3, <1>13, <1>15 DEF nvm_cmd_rw_blks
  <1>19. t.numPages \in Nat /\ PageToBlock(c + t.numPages) = (c + g) * B
    BY <1>10, <1>14 DEF PageToBlock, B
  <1>20. f = PageToBlock(c)
    BY <1>8 DEF PageToBlock, B
  <1> QED  BY <1>6, <1>7, <1>8, <1>9, <1>17, <1>18, <1>19, <1>20 DEF f, c, S, t, M

\* The sequential pattern from block 0
LEMMA SequentialCovers ==
    ASSUME maxDataBlock <= BlkWord, NEW i \in Nat \ {0}, NEW blocks \in Nat, blocks < SizeWord,
           plan.blocks = blocks, plan.transfers[i] = prepareRange((i - 1) * Pages(blocks), 0, blocks)
    PROVE  BlocksCovered(i)
  <1> DEFINE list == plan.transfers[i]
             M == max_data_pages
             S == maxDataBlock
             Page(k) == list[k].startPage - (i - 1) * Pages(blocks)
             lo(k) == (k - 1) * S
             len(k) == MinOf(blocks - lo(k), S)
  <1>1. M \in Nat \ {0} /\ BlocksPerPage \in Nat \ {0}
    BY BenchAssumption DEF max_data_pages
  <1>2. S \in Nat \ {0} /\ S = M * BlocksPerPage
    BY <1>1 DEF maxDataBlock, PageToBlock
  <1>3. Pages(blocks) \in Nat /\ (i - 1) * Pages(blocks) \in Nat
        /\ \A e \in Nat : e < Pages(blocks) <=> e * BlocksPerPage < blocks
    <2>1. i - 1 \in Nat
      OBVIOUS
    <2>2. Pages(blocks) \in Nat /\ \A e \in Nat : e < Pages(blocks) <=> e * BlocksPerPage < blocks
      BY <1>1, Chunks DEF Pages
    <2> QED  BY <2>1, <2>2, Multiples
  <1>4. Laid(list, (i - 1) * Pages(blocks), Pages(blocks))
    BY RangeLaid
  <1>5. ASSUME NEW k \in DOMAIN list
        PROVE  /\ k \in Nat \ {0} /\ lo(k) \in Nat /\ lo(k) < blocks
               /\ nvm_cmd_rw_blks(list[k]) = lo(k)..(lo(k) + (len(k) - 1))
    BY <1>5, OneCommand
  <1>6. ASSUME NEW k \in DOMAIN list
        PROVE  nvm_cmd_rw_blks(list[k]) \subseteq
                   PageToBlock(Page(k))..(PageToBlock(Page(k) + list[k].numPages) - 1)
    <2> DEFINE c == (k - 1) * M
               h == PageToBlock(c + list[k].numPages)
    <2>1. /\ c \in Nat /\ lo(k) = PageToBlock(c) /\ list[k].numPages \in Nat
          /\ lo(k) + len(k) <= h
      BY <1>6, OneCommand
    <2>2. Page(k) = c
      <3>1. list[k].startPage = (i - 1) * Pages(blocks) + c
        BY <1>4 DEF Laid
      <3> DEFINE o == (i - 1) * Pages(blocks)
      <3> HIDE DEF o, c, list
      <3> QED  BY <3>1, <2>1, <1>3 DEF o
    <2>3. h \in Nat
      <3> HIDE DEF c
      <3>1. c + list[k].numPages \in Nat
        BY <2>1
      <3> QED  BY <3>1, <1>1, Multiples DEF PageToBlock
    <2>4. lo(k) \in Nat /\ lo(k) < blocks /\ nvm_cmd_rw_blks(list[k]) = lo(k)..(lo(k) + (len(k) - 1))
      BY <1>5
    <2>5. len(k) \in Nat
      <3> HIDE DEF lo
      <3> QED  BY <2>4, <1>2 DEF MinOf
    <2> HIDE DEF len
    <2>6. lo(k)..(lo(k) + (len(k) - 1)) \subseteq lo(k)..(h - 1)
      <3> HIDE DEF lo, h
      <3> QED  BY <2>1, <2>3, <2>4, <2>5
    <2> HIDE DEF lo, c, list, Page
    <2> QED  BY <2>1, <2>2, <2>4, <2>6
  <1>7. ASSUME NEW k \in DOMAIN list, NEW l \in DOMAIN list, k < l
        PROVE  nvm_cmd_rw_blks(list[k]) \intersect nvm_cmd_rw_blks(list[l]) = {}
    <2>1. lo(k) + S <= lo(l)
      <3>1. k - 1 \in Nat /\ l - 1 \in Nat /\ k - 1 < l - 1
        <4>1. k \in Nat \ {0} /\ l \in Nat \ {0}
          BY <1>5
        <4> QED  BY <4>1, <1>7
      <3> QED  BY <3>1, <1>2, Multiples
    <2>2. /\ lo(k) \in Nat /\ lo(l) \in Nat /\ lo(k) < blocks /\ lo(l) < blocks
          /\ nvm_cmd_rw_blks(list[k]) = lo(k)..(lo(k) + (len(k) - 1))
          /\ nvm_cmd_rw_blks(list[l]) = lo(l)..(lo(l) + (len(l) - 1))
      BY <1>5
    <2>3. len(k) \in Nat /\ len(k) <= S /\ len(l) \in Nat
      <3> HIDE DEF lo
      <3> QED  BY <2>2, <1>2 DEF MinOf
    <2> HIDE DEF lo, len
    <2>4. (lo(k)..(lo(k) + (len(k) - 1))) \intersect (lo(l)..(lo(l) + (len(l) - 1))) = {}
      BY <2>1, <2>2, <2>3, <1>2
    <2> QED  BY <2>2, <2>4
  <1>8. ASSUME NEW k \in DOMAIN list, NEW l \in DOMAIN list, k # l
        PROVE  nvm_cmd_rw_blks(list[k]) \intersect nvm_cmd_rw_blks(list[l]) = {}
    <2>1. k < l \/ l < k
      <3>1. k \in Nat \ {0} /\ l \in Nat \ {0}
        BY <1>5
      <3> QED  BY <3>1, <1>8
    <2> HIDE DEF list
    <2> QED  BY <2>1, <1>7
  <1>9. ASSUME NEW k \in DOMAIN list, NEW b \in nvm_cmd_rw_blks(list[k]) PROVE b \in 0..(blocks - 1)
    <2>1. /\ lo(k) \in Nat /\ lo(k) < blocks /\ b \in lo(k)..(lo(k) + (len(k) - 1))
      BY <1>5, <1>9
    <2> HIDE DEF lo
    <2> QED  BY <2>1, <1>2 DEF MinOf
  <1>10. ASSUME NEW b \in 0..(blocks - 1) PROVE \E k \in DOMAIN list : b \in nvm_cmd_rw_blks(list[k])
    <2> DEFINE j == b \div S
               r == b % S
    <2>1. b \in Nat
      OBVIOUS
    <2>2. j \in Nat /\ r \in 0..(S - 1) /\ b = j * S + r /\ j * S \in Nat
      BY <2>1, <1>2, Remainder, Multiples
    <2> HIDE DEF j, r
    <2>3. j * S <= b /\ b < j * S + S
      <3> DEFINE w == j * S
      <3> HIDE DEF w
      <3>1. w \in Nat /\ b = w + r
        BY <2>2 DEF w
      <3>2. w <= b /\ b < w + S
        BY <3>1, <2>2, <1>2
      <3> QED  BY <3>2 DEF w
    <2>4. j * S = (j * M) * BlocksPerPage /\ j * M \in Nat
      BY <2>2, <1>1, <1>2
    <2>5. j * M < Pages(blocks)
      <3>1. j * S < blocks
        <4> DEFINE w == j * S
        <4>1. w \in Nat /\ w <= b
          BY <2>2, <2>3
        <4> HIDE DEF w
        <4>2. w < blocks
          BY <4>1
        <4> QED  BY <4>2 DEF w
      <3> QED  BY <3>1, <2>4, <1>3
    <2>6. j < (Pages(blocks) + M - 1) \div M /\ (Pages(blocks) + M - 1) \div M \in Nat
      BY <2>2, <2>5, <1>1, <1>3, Chunks
    <2>7. j + 1 \in 1..((Pages(blocks) + M - 1) \div M)
      <3> DEFINE L == (Pages(blocks) + M - 1) \div M
      <3>1. L \in Nat /\ j < L
        BY <2>6
      <3> HIDE DEF L
      <3>2. j + 1 \in 1..L
        BY <3>1, <2>2
      <3> QED  BY <3>2 DEF L
    <2>8. j + 1 \in DOMAIN list
      BY <2>7, <1>4 DEF Laid
    <2>9. lo(j + 1) = j * S
      <3>1. (j + 1) - 1 = j
        BY <2>2
      <3> QED  BY <3>1
    <2>10. /\ lo(j + 1) \in Nat
           /\ nvm_cmd_rw_blks(list[j + 1]) = lo(j + 1)..(lo(j + 1) + (len(j + 1) - 1))
      BY <2>8, <1>5
    <2>11. b \in lo(j + 1)..(lo(j + 1) + (len(j + 1) - 1))
      <3>1. lo(j + 1) <= b /\ b < lo(j + 1) + S
        BY <2>3, <2>9
      <3> HIDE DEF lo
      <3> QED  BY <3>1, <2>1, <2>10, <1>2 DEF MinOf
    <2> HIDE DEF lo, len, list
    <2> QED  BY <2>8, <2>10, <2>11
  <1>11. UNION {nvm_cmd_rw_blks(list[k]) : k \in DOMAIN list} = 0..(blocks - 1)
    <2> HIDE DEF list
    <2> QED  BY <1>9, <1>10
  <1> QED  BY <1>6, <1>8, <1>11 DEF BlocksCovered

\* What the plan says does not change.
LEMMA PlanKept ==
    ASSUME [Next]_vars
    PROVE  plan' = plan
  <1>1. CASE UNCHANGED vars
    BY <1>1 DEF vars, mainVars
  <1>2. CASE Running /\ (MainStep \/ CreateFails)
    BY <1>2 DEF MainStep, CreateCq, CreateSq, QueuesMade, MakeThread, Join, CreateFails, mainVars
  <1>3. ASSUME NEW i \in Queues, Thread(i) PROVE plan' = plan
    <2>1. CASE Start(i) \/ Repeat(i) \/ Window(i)
      BY <2>1 DEF Start, Repeat, Window, mainVars
    <2>2. CASE Filled(i) \/ Arrive(i) \/ Zero(i) \/ Raise(i) \/ Spin(i) \/ Reaped(i)
      BY <2>2 DEF Filled, Arrive, Zero, Raise, Spin, Reaped, mainVars
    <2>3. CASE Fill(i) \/ Flush(i) \/ Full(i)
      BY <2>3 DEF Fill, Flush, Full, mainVars
    <2>4. CASE SubmitWindow(i) \/ FlushSubmit(i)
      BY <2>4 DEF SubmitWindow, FlushSubmit, mainVars
    <2>5. CASE Reap(i) \/ FlushReap(i)
      BY <2>5 DEF Reap, FlushReap, mainVars
    <2> QED  BY <1>3, <2>1, <2>2, <2>3, <2>4, <2>5 DEF Thread
  <1>4. ASSUME NEW j \in Queues, Fetch(j) \/ Complete(j) PROVE plan' = plan
    BY <1>4 DEF Fetch, Complete, mainVars
  <1> QED  BY <1>1, <1>2, <1>3, <1>4 DEF Next

\* The plan, as createQueues makes it
LEMMA PlanMade ==
    ASSUME maxDataBlock <= BlkWord, plan \in Plans
    PROVE  PlanCovers
  <1>1. plan.n \in Nat \ {0}
    BY PlanSize
  <1>2. PICK W, tot : Layout(plan, W, tot)
    BY PlanLaid
  <1>3. PagesApart /\ PagesInBuffer
    BY <1>1, <1>2, PlanPagesApart, PlanPagesInside
  <1>4. ASSUME plan.pattern = "sequential", plan.start = 0, NEW i \in Queues PROVE BlocksCovered(i)
    <2>1. PICK n \in {NumQueues(c, s) : c \in Granted, s \in Granted}, pattern \in Patterns,
               start \in StartBlocks, blocks \in NumBlocks,
               entries \in {QueueSize(x, PageEntries) : x \in CtrlEntries} :
            \E rand \in Draws(pattern, blocks, n) :
               plan = [n |-> n, pattern |-> pattern, start |-> start, blocks |-> blocks,
                       entries |-> entries,
                       transfers |-> [k \in 1..n |-> Transfers(pattern, start, blocks, n, rand, k)]]
      BY DEF Plans
    <2>2. PICK rand : /\ plan.n = n /\ plan.pattern = pattern /\ plan.start = start /\ plan.blocks = blocks
                      /\ plan.transfers = [k \in 1..n |-> Transfers(pattern, start, blocks, n, rand, k)]
      BY <2>1
    <2>3. plan.transfers[i] = Transfers("sequential", 0, blocks, n, rand, i)
      BY <1>4, <2>2 DEF Queues
    <2>4. plan.transfers[i] = prepareRange((i - 1) * Pages(blocks), 0, blocks)
      BY <2>3 DEF Transfers
    <2>5. blocks \in Nat /\ blocks < SizeWord /\ i \in Nat \ {0}
      BY <1>1, <1>4, BenchAssumption DEF Queues
    <2> QED  BY <2>2, <2>4, <2>5, SequentialCovers
  <1> QED  BY <1>3, <1>4 DEF PlanCovers

\* The plan of createQueues: the pages of transfers lie in the buffer and no two transfers
\* share one, for every pattern; and the sequential pattern from block 0 reads every block
\* asked for once, into its pages.  A command must not be allowed more blocks than its 16-bit
\* count can say.
THEOREM PlanRight ==
    ASSUME maxDataBlock <= BlkWord
    PROVE  Spec => []PlanCovers
  <1>1. Init => plan \in Plans
    BY DEF Init
  <1>2. plan \in Plans /\ [Next]_vars => (plan \in Plans)'
    BY PlanKept
  <1>3. plan \in Plans => PlanCovers
    BY PlanMade
  <1> QED  BY <1>1, <1>2, <1>3, PTL DEF Spec

=============================================================================
