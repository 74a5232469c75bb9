-------------------------- MODULE IoServiceProofs ---------------------------
(***************************************************************************)
(* What the data path promises its caller, proved on top of the queue       *)
(* positions of IoQueuesProofs: a transfer returns after everything is      *)
(* executed and reaped (Work), PRP lists are not rebuilt in use (Lists),    *)
(* and every command goes through its stages once (Once), so that IoQueues  *)
(* implements CommandService.                                               *)
(***************************************************************************)
EXTENDS IoQueuesProofs

-----------------------------------------------------------------------------
(* Counting commands *)

\* What FirstOf contains.
LEMMA FirstOfMembers ==
    ASSUME NEW f, NEW Q, \A q \in Q : f[q] \in Nat
    PROVE  FirstOf(f, Q) = {c \in Q \X (Nat \ {0}) : c[2] <= f[c[1]]}
  <1>1. ASSUME NEW c \in FirstOf(f, Q)
        PROVE  c \in Q \X (Nat \ {0}) /\ c[2] <= f[c[1]]
    <2>1. PICK q \in Q : c \in {q} \X (1..f[q])
      BY DEF FirstOf
    <2>2. c = <<c[1], c[2]>> /\ c[1] = q /\ c[2] \in 1..f[q]
      BY <2>1
    <2> QED  BY <2>2
  <1>2. ASSUME NEW c \in Q \X (Nat \ {0}), c[2] <= f[c[1]]
        PROVE  c \in FirstOf(f, Q)
    <2>1. c = <<c[1], c[2]>> /\ c[1] \in Q /\ c[2] \in Nat \ {0}
      OBVIOUS
    <2>2. c[2] \in 1..f[c[1]]
      BY <1>2, <2>1
    <2>3. c \in {c[1]} \X (1..f[c[1]])
      BY <2>1, <2>2
    <2> QED  BY <2>1, <2>3 DEF FirstOf
  <1> QED  BY <1>1, <1>2

\* One more command of a queue is one more in all.
LEMMA OneMore ==
    ASSUME NEW Q, NEW f \in [Q -> Nat], NEW n \in Nat, NEW q \in Q, Counts(n, f, Q)
    PROVE  Counts(n + 1, [f EXCEPT ![q] = f[q] + 1], Q)
  <1> DEFINE g == [f EXCEPT ![q] = f[q] + 1]
             x == <<q, f[q] + 1>>
  <1>1. f[q] \in Nat /\ g[q] = f[q] + 1 /\ \A p \in Q : p # q => g[p] = f[p]
    OBVIOUS
  <1>g. \A p \in Q : g[p] \in Nat /\ f[p] \in Nat
    BY <1>1
  <1>2. \A p \in Q, k \in Nat \ {0} : k <= g[p] <=> (k <= f[p] \/ (p = q /\ k = f[q] + 1))
    BY <1>1
  <1>3. FirstOf(g, Q) = FirstOf(f, Q) \cup {x}
    <2>1. x \in Q \X (Nat \ {0}) /\ x[1] = q /\ x[2] = f[q] + 1
      BY <1>1
    <2>2. \A c \in Q \X (Nat \ {0}) : c = x <=> (c[1] = q /\ c[2] = f[q] + 1)
      OBVIOUS
    <2>3. \A c \in Q \X (Nat \ {0}) : c[1] \in Q /\ c[2] \in Nat \ {0}
      OBVIOUS
    <2> HIDE DEF g, x
    <2>4. \A c \in Q \X (Nat \ {0}) : c[2] <= g[c[1]] <=> (c[2] <= f[c[1]] \/ c = x)
      BY <1>2, <2>2, <2>3
    <2> QED  BY <2>1, <2>4, <1>g, FirstOfMembers
  <1>4. x \notin FirstOf(f, Q)
    <2>1. ~(f[q] + 1 <= f[q])
      BY <1>1
    <2> QED  BY <2>1, FirstOfMembers
  <1> HIDE DEF g, x
  <1>5. /\ IsFiniteSet(FirstOf(f, Q) \cup {x})
        /\ Cardinality(FirstOf(f, Q) \cup {x}) = Cardinality(FirstOf(f, Q)) + 1
    BY <1>4, FS_AddElement DEF Counts
  <1>6. Counts(n + 1, g, Q)
    BY <1>3, <1>5 DEF Counts
  <1> QED  BY <1>6 DEF g

\* The commands of one queue are as many as its counter says.
LEMMA OneQueue ==
    ASSUME NEW f, NEW q, f[q] \in Nat
    PROVE  Counts(f[q], f, {q})
  <1> DEFINE S == FirstOf(f, {q})
             b == [k \in 1..f[q] |-> <<q, k>>]
  <1>1. S = {q} \X (1..f[q])
    BY DEF FirstOf
  <1>2. b \in [1..f[q] -> S]
    BY <1>1
  <1>3. \A j, k \in 1..f[q] : b[j] = b[k] => j = k
    OBVIOUS
  <1>4. \A c \in S : \E k \in 1..f[q] : b[k] = c
    BY <1>1
  <1>5. b \in Bijection(1..f[q], S)
    <2> HIDE DEF S, b
    <2>1. b \in Injection(1..f[q], S)
      BY <1>2, <1>3 DEF Injection, IsInjective
    <2>2. b \in Surjection(1..f[q], S)
      BY <1>2, <1>4 DEF Surjection
    <2> QED  BY <2>1, <2>2 DEF Bijection
  <1>6. ExistsBijection(1..f[q], S)
    BY <1>5 DEF ExistsBijection
  <1>7. IsFiniteSet(1..f[q]) /\ Cardinality(1..f[q]) = f[q]
    BY FS_Interval
  <1>8. IsFiniteSet(S) /\ Cardinality(S) = Cardinality(1..f[q])
    BY <1>6, <1>7, FS_Bijection
  <1> QED  BY <1>7, <1>8 DEF Counts

\* Joining one more producer adds what it produced.
LEMMA OneQueueMore ==
    ASSUME NEW f, NEW Q, NEW q, q \notin Q, NEW n \in Nat, f[q] \in Nat, Counts(n, f, Q)
    PROVE  Counts(n + f[q], f, Q \cup {q})
  <1> DEFINE A == FirstOf(f, Q)
             B == FirstOf(f, {q})
  <1>1. FirstOf(f, Q \cup {q}) = A \cup B
    BY DEF FirstOf
  <1>2. A \cap B = {}
    BY DEF FirstOf
  <1>3. IsFiniteSet(A) /\ Cardinality(A) = n /\ IsFiniteSet(B) /\ Cardinality(B) = f[q]
    BY OneQueue DEF Counts
  <1> HIDE DEF A, B
  <1>4. /\ IsFiniteSet(A \cup B)
        /\ Cardinality(A \cup B) = Cardinality(A) + Cardinality(B) - Cardinality(A \cap B)
    BY <1>3, FS_Union
  <1>5. Cardinality(A \cap B) = 0
    BY <1>2, FS_EmptySet
  <1>6. Cardinality(A \cup B) = n + f[q]
    BY <1>3, <1>4, <1>5
  <1> QED  BY <1>1, <1>4, <1>6 DEF Counts

\* What is counted depends on the counters of these queues only.
LEMMA SameCounts ==
    ASSUME NEW f, NEW g, NEW Q, \A q \in Q : f[q] = g[q], NEW n, Counts(n, f, Q)
    PROVE  Counts(n, g, Q)
  <1>1. FirstOf(f, Q) = FirstOf(g, Q)
    BY DEF FirstOf
  <1> QED  BY <1>1 DEF Counts

\* If no queue did more than it was given and all together did as much, each did all.
LEMMA AllDone ==
    ASSUME NEW Q, NEW f \in [Q -> Nat], NEW g, \A q \in Q : g[q] \in Nat /\ f[q] <= g[q],
           NEW m \in Nat, NEW n \in Nat, m >= n, Counts(m, f, Q), Counts(n, g, Q)
    PROVE  m = n /\ \A q \in Q : f[q] = g[q]
  <1>0. \A q \in Q : f[q] \in Nat /\ g[q] \in Nat
    OBVIOUS
  <1>1. FirstOf(f, Q) \subseteq FirstOf(g, Q)
    <2> SUFFICES ASSUME NEW c \in Q \X (Nat \ {0}), c[2] <= f[c[1]] PROVE c[2] <= g[c[1]]
      BY <1>0, FirstOfMembers
    <2>1. c[1] \in Q /\ c[2] \in Nat
      OBVIOUS
    <2> QED  BY <2>1
  <1>2. /\ Cardinality(FirstOf(f, Q)) <= Cardinality(FirstOf(g, Q))
        /\ Cardinality(FirstOf(g, Q)) = Cardinality(FirstOf(f, Q)) => FirstOf(g, Q) = FirstOf(f, Q)
    BY <1>1, FS_Subset DEF Counts
  <1>3. m = n /\ FirstOf(g, Q) = FirstOf(f, Q)
    BY <1>2 DEF Counts
  <1>4. ASSUME NEW q \in Q PROVE f[q] = g[q]
    <2>1. f[q] \in Nat /\ g[q] \in Nat /\ f[q] <= g[q]
      OBVIOUS
    <2>2. CASE g[q] = 0
      BY <2>1, <2>2
    <2>3. CASE g[q] # 0
      <3>1. <<q, g[q]>> \in FirstOf(g, Q)
        BY <1>0, <2>1, <2>3, FirstOfMembers
      <3>2. g[q] <= f[q]
        BY <1>0, <1>3, <3>1, FirstOfMembers
      <3> QED  BY <2>1, <3>2
    <2> QED  BY <2>2, <2>3
  <1> QED  BY <1>3, <1>4

-----------------------------------------------------------------------------
(* The work *)

\* Facts about the shares and the counters.
LEMMA WorkTypes ==
    ASSUME TypeOK
    PROVE  /\ 0 \notin SQs /\ counter[0] \in Nat /\ posted \in Nat /\ commands \in Nat
           /\ joined \subseteq SQs /\ freed \in [SQs -> Nat] /\ completed \in [SQs -> Nat]
           /\ \A q \in SQs : counter[q] \in Nat /\ DataCmds[q] \in Nat /\ Total(q) \in Nat
                              /\ DataCmds[q] <= Total(q) /\ (Write => Total(q) = DataCmds[q] + 1)
                              /\ (~Write => Total(q) = DataCmds[q])
  <1>1. 0 \notin SQs
    BY QueuesAssumption
  <1>2. \A q \in SQs : DataCmds[q] \in Nat
    BY WorkAssumption
  <1>3. \A q \in SQs : /\ Total(q) \in Nat /\ DataCmds[q] <= Total(q)
                       /\ (Write => Total(q) = DataCmds[q] + 1)
                       /\ (~Write => Total(q) = DataCmds[q])
    BY <1>2 DEF Total
  <1>4. /\ counter \in [SQs \cup {0} -> Nat] /\ posted \in Nat /\ commands \in Nat
        /\ joined \subseteq SQs /\ freed \in [SQs -> Nat] /\ completed \in [SQs -> Nat]
    BY DEF TypeOK
  <1>5. counter[0] \in Nat /\ \A q \in SQs : counter[q] \in Nat
    BY <1>4
  <1> QED  BY <1>1, <1>2, <1>3, <1>4, <1>5

\* The sums depend on these variables only.
LEMMA SumsFrame ==
    ASSUME Sums, counter'[0] = counter[0], Uncounted' = Uncounted,
           UNCHANGED <<freed, posted, completed, commands, joined>>,
           \A q \in joined : counter'[q] = counter[q]
    PROVE  Sums'
  <1>1. Counts(commands, counter', joined)
    BY SameCounts DEF Sums
  <1> QED  BY <1>1 DEF Sums

\* A producer moves on in its share.
LEMMA ProducerWork ==
    ASSUME TypeOK, Work, NEW p \in SQs, Producer(p)
    PROVE  Work'
  <1>0. /\ UNCHANGED <<cpc, cancel, mpc, joined, commands, freed, posted, completed>>
        /\ ppc[p] # "done"
    BY DEF Producer, EnqueueFull, Enqueue, Fill, FlushSpin, FlushEnqueue, FlushFill,
           ProducerReturn, threadVars, devVars
  <1>1. PICK x \in {"enqueue", "fill", "flush", "hang", "done"} : ppc' = [ppc EXCEPT ![p] = x]
    <2>1. /\ ppc = [ppc EXCEPT ![p] = ppc[p]]
          /\ ppc[p] \in {"enqueue", "fill", "flush", "hang", "done"}
      BY DEF TypeOK
    <2> QED  BY <2>1 DEF Producer, EnqueueFull, Enqueue, Fill, FlushSpin, FlushEnqueue,
                         FlushFill, ProducerReturn, threadVars
  <1>2. ppc'[p] = x /\ \A q \in SQs : q # p => ppc'[q] = ppc[q]
    BY <1>1 DEF TypeOK
  <1>3. \A q \in SQs \cup {0} : q # p => counter'[q] = counter[q]
    BY DEF Producer, EnqueueFull, Enqueue, Fill, FlushSpin, FlushEnqueue, FlushFill,
           ProducerReturn, hostVars, TypeOK
  <1>4. p \notin joined /\ p # 0
    BY <1>0, WorkTypes DEF Work, Waits
  <1>5. Share(p)'
    <2>1. Share(p) /\ counter[p] \in Nat /\ DataCmds[p] \in Nat /\ Total(p) \in Nat
      BY WorkTypes DEF Work
    <2>2. /\ DataCmds[p] <= Total(p) /\ (Write => Total(p) = DataCmds[p] + 1)
          /\ (~Write => Total(p) = DataCmds[p])
      BY WorkTypes
    <2>3. CASE Fill(p) \/ FlushFill(p)
      <3>1. counter'[p] = counter[p] + 1 /\ ppc'[p] = "enqueue"
        BY <2>3 DEF Fill, FlushFill, TypeOK
      <3>2. counter[p] + 1 <= Total(p)
        BY <2>1, <2>2, <2>3 DEF Share, Fill, FlushFill
      <3> QED  BY <3>1, <3>2 DEF Share, Total
    <2>4. CASE EnqueueFull(p) \/ FlushSpin(p)
      <3>1. counter' = counter /\ ppc'[p] \in {"enqueue", "hang"}
        BY <2>4, <1>2 DEF EnqueueFull, FlushSpin, hostVars, threadVars, TypeOK
      <3> QED  BY <2>1, <3>1 DEF Share, Total
    <2>5. CASE Enqueue(p) \/ FlushEnqueue(p) \/ ProducerReturn(p)
      <3>1. /\ counter' = counter
            /\ \/ ppc'[p] = "fill" /\ counter[p] < DataCmds[p]
               \/ ppc'[p] = "flush" /\ Write /\ counter[p] = DataCmds[p]
               \/ ppc'[p] = "done" /\ counter[p] = Total(p)
        BY <2>5 DEF Enqueue, FlushEnqueue, ProducerReturn, TypeOK
      <3> QED  BY <2>1, <3>1 DEF Share, Total
    <2> QED  BY <2>3, <2>4, <2>5 DEF Producer
  <1>6. ASSUME NEW q \in SQs PROVE Share(q)'
    <2>1. CASE q # p
      BY <1>2, <1>3, <2>1 DEF Work, Share, Total
    <2> QED  BY <1>5, <2>1
  <1>7. Waits'
    <2>1. \A q \in joined : ppc'[q] = "done"
      BY <1>2, <1>4, WorkTypes DEF Work, Waits
    <2>2. counter'[0] = counter[0]
      BY <1>3, <1>4
    <2> QED  BY <1>0, <2>1, <2>2 DEF Work, Waits
  <1>8. Sums'
    <2>1. counter'[0] = counter[0] /\ \A q \in joined : counter'[q] = counter[q]
      BY <1>3, <1>4, WorkTypes
    <2>2. Uncounted' = Uncounted
      BY <1>0 DEF Uncounted
    <2> QED  BY <1>0, <2>1, <2>2, SumsFrame DEF Work
  <1> QED  BY <1>6, <1>7, <1>8 DEF Work

\* The consumer frees a slot and counts it.
LEMMA ConsumerWork ==
    ASSUME IInv, Work, Consumer
    PROVE  Work'
  <1>0. TypeOK /\ UNCHANGED <<ppc, cancel, mpc, joined, commands, posted, completed>>
    BY DEF IInv, Consumer, ConsumerLoop, ConsumerDequeue, ConsumerTimeout, ConsumerSqIncrement,
           ConsumerSqWrap, ConsumerCqUpdate, ConsumerCount, threadVars, devVars
  <1>1. \A q \in SQs : counter'[q] = counter[q]
    <2>1. CASE ConsumerCount
      BY <1>0, <2>1, WorkTypes DEF ConsumerCount, TypeOK
    <2>2. CASE ~ConsumerCount
      BY <2>2 DEF Consumer, ConsumerLoop, ConsumerDequeue, ConsumerTimeout, ConsumerSqIncrement,
                  ConsumerSqWrap, ConsumerCqUpdate, hostVars
    <2> QED  BY <2>1, <2>2
  <1>2. \A q \in SQs : Share(q)'
    BY <1>0, <1>1 DEF Work, Share, Total
  <1>3. counter'[0] \in Nat /\ counter'[0] >= counter[0]
    <2>1. counter[0] \in Nat
      BY <1>0, WorkTypes
    <2>2. CASE ConsumerCount
      <3>1. counter'[0] = counter[0] + 1
        BY <1>0, <2>2 DEF ConsumerCount, TypeOK
      <3> QED  BY <2>1, <3>1
    <2>3. CASE ~ConsumerCount
      <3>1. counter' = counter
        BY <2>3 DEF Consumer, ConsumerLoop, ConsumerDequeue, ConsumerTimeout,
                    ConsumerSqIncrement, ConsumerSqWrap, ConsumerCqUpdate, hostVars
      <3> QED  BY <2>1, <3>1
    <2> QED  BY <2>2, <2>3
  <1>4. Waits'
    <2>1. cancel => counter'[0] >= commands
      BY <1>0, <1>3, WorkTypes DEF Work, Waits
    <2> QED  BY <1>0, <2>1 DEF Work, Waits
  <1>5. Sums'
    <2>1. Counts(commands, counter', joined)
      BY <1>0, <1>1, WorkTypes, SameCounts DEF Work, Sums
    <2>2. Counts(counter'[0] + (IF Uncounted' THEN 1 ELSE 0), freed', SQs)
      <3>1. CASE ConsumerSqIncrement
        <4>1. PICK q \in SQs : q = cqmem[cpl].sqid
          BY <3>1 DEF ConsumerSqIncrement, IInv, CqContents, Held
        <4>2. /\ freed' = [freed EXCEPT ![q] = freed[q] + 1] /\ counter' = counter
              /\ ~Uncounted /\ Uncounted'
          BY <3>1, <4>1 DEF ConsumerSqIncrement, Uncounted
        <4>3. Counts(counter[0] + 0, freed, SQs)
          BY <4>2 DEF Work, Sums
        <4>4. counter[0] + 0 = counter[0] /\ counter[0] \in Nat /\ freed \in [SQs -> Nat]
          BY <1>0, WorkTypes
        <4>5. Counts(counter[0] + 1, freed', SQs)
          BY <4>1, <4>2, <4>3, <4>4, OneMore
        <4> QED  BY <4>2, <4>5
      <3>2. CASE ConsumerCount
        <4>1. counter'[0] = counter[0] + 1 /\ freed' = freed /\ Uncounted /\ ~Uncounted'
          BY <1>0, <3>2 DEF ConsumerCount, Uncounted, TypeOK
        <4>2. Counts(counter[0] + 1, freed, SQs)
          BY <4>1 DEF Work, Sums
        <4>3. (counter[0] + 1) + 0 = counter[0] + 1
          BY <1>0, WorkTypes
        <4> QED  BY <4>1, <4>2, <4>3
      <3>3. CASE ~ConsumerSqIncrement /\ ~ConsumerCount
        <4>1. counter' = counter /\ freed' = freed
          BY <3>3 DEF Consumer, ConsumerLoop, ConsumerDequeue, ConsumerTimeout, ConsumerSqWrap,
                      ConsumerCqUpdate, hostVars
        <4>2. Uncounted' <=> Uncounted
          BY <3>3 DEF Consumer, ConsumerLoop, ConsumerDequeue, ConsumerTimeout, ConsumerSqWrap,
                      ConsumerCqUpdate, Uncounted
        <4> QED  BY <4>1, <4>2 DEF Work, Sums
      <3> QED  BY <3>1, <3>2, <3>3
    <2> QED  BY <1>0, <2>1, <2>2 DEF Work, Sums
  <1> QED  BY <1>2, <1>4, <1>5 DEF Work

\* The main thread sums what the producers it joins have produced, and waits for as many
\* completions.
LEMMA MainWork ==
    ASSUME TypeOK, Work, Main
    PROVE  Work'
  <1>1. UNCHANGED <<counter, ppc, cpc, freed, posted, completed>>
    BY DEF Main, MainJoin, MainWait, MainReturn, hostVars, devVars
  <1>2. \A q \in SQs : Share(q)'
    BY <1>1 DEF Work, Share, Total
  <1>3. Uncounted' = Uncounted
    BY <1>1 DEF Uncounted
  <1>4. ASSUME NEW q \in SQs, MainJoin(q)
        PROVE  Waits' /\ Sums'
    <2>1. /\ ppc[q] = "done" /\ joined' = joined \cup {q} /\ commands' = commands + counter[q]
          /\ mpc = "join" /\ cancel' = cancel /\ mpc' \in {"join", "wait"}
          /\ mpc' # "join" => joined' = SQs
      BY <1>4 DEF MainJoin
    <2>2. q \notin joined
      <3>1. q \in Nat /\ joined = {r \in SQs : r < q}
        BY <1>4, QueuesAssumption DEF MainJoin
      <3> QED  BY <3>1
    <2>3. Waits'
      BY <1>1, <2>1 DEF Work, Waits
    <2>4. Counts(commands + counter[q], counter, joined \cup {q})
      BY <2>2, WorkTypes, OneQueueMore DEF Work, Sums
    <2> QED  BY <1>1, <1>3, <2>1, <2>3, <2>4 DEF Work, Sums
  <1>5. CASE MainWait \/ MainReturn
    <2>1. UNCHANGED <<joined, commands>>
      BY <1>5 DEF MainWait, MainReturn
    <2>2. Waits'
      <3>1. CASE MainReturn
        BY <1>1, <2>1, <3>1 DEF MainReturn, Work, Waits
      <3>2. CASE MainWait /\ counter[0] < commands
        BY <1>1, <2>1, <3>2 DEF MainWait, Work, Waits
      <3>3. CASE MainWait /\ ~(counter[0] < commands)
        <4>1. counter[0] >= commands
          BY <3>3, WorkTypes
        <4>2. mpc = "wait" /\ mpc' = "cancelled" /\ cancel'
          BY <3>3 DEF MainWait
        <4> QED  BY <1>1, <2>1, <4>1, <4>2 DEF Work, Waits
      <3> QED  BY <1>5, <3>1, <3>2, <3>3
    <2>3. Sums'
      BY <1>1, <1>3, <2>1 DEF Work, Sums
    <2> QED  BY <1>2, <2>2, <2>3 DEF Work
  <1> QED  BY <1>2, <1>4, <1>5 DEF Work, Main

\* The controller posts what it counts.
LEMMA DeviceWork ==
    ASSUME TypeOK, Work, NEW p \in SQs, Device(p)
    PROVE  Work'
  <1>1. UNCHANGED <<counter, ppc, cpc, freed, joined, commands, mpc, cancel>>
    BY DEF Device, DevFetch, DevComplete, hostVars, threadVars
  <1>2. (\A q \in SQs : Share(q)') /\ Waits' /\ Uncounted' = Uncounted
    BY <1>1 DEF Work, Share, Total, Waits, Uncounted
  <1>3. Counts(posted', completed', SQs)
    <2>1. CASE DevFetch(p)
      BY <2>1 DEF DevFetch, Work, Sums
    <2>2. CASE DevComplete(p)
      <3>1. posted' = posted + 1 /\ completed' = [completed EXCEPT ![p] = completed[p] + 1]
        BY <2>2 DEF DevComplete
      <3> QED  BY <3>1, WorkTypes, OneMore DEF Work, Sums
    <2> QED  BY <2>1, <2>2 DEF Device
  <1> QED  BY <1>1, <1>2, <1>3 DEF Work, Sums

\* Every step keeps the counts.
LEMMA WorkSteps ==
    ASSUME IInv, Work, [Next]_vars
    PROVE  Work'
  <1>1. TypeOK
    BY DEF IInv
  <1>2. CASE UNCHANGED vars
    <2>1. UNCHANGED <<counter, ppc, cpc, freed, joined, commands, mpc, cancel, posted, completed>>
      BY <1>2 DEF vars, hostVars, threadVars, devVars
    <2> QED  BY <2>1 DEF Work, Share, Total, Waits, Sums, Uncounted
  <1> QED  BY <1>1, <1>2, ProducerWork, ConsumerWork, MainWork, DeviceWork DEF Next, Finished

\* Nothing is counted at first.
LEMMA WorkInit == Init => Work
  <1> SUFFICES ASSUME Init PROVE Work
    OBVIOUS
  <1>1. TypeOK
    BY InitInv DEF IInv
  <1>2. \A f, Q : (\A q \in Q : f[q] = 0) => Counts(0, f, Q)
    <2> SUFFICES ASSUME NEW f, NEW Q, \A q \in Q : f[q] = 0 PROVE FirstOf(f, Q) = {}
      BY FS_EmptySet DEF Counts
    <2>1. \A q \in Q : 1..f[q] = {}
      OBVIOUS
    <2> QED  BY <2>1 DEF FirstOf
  <1>3. /\ \A q \in SQs : freed[q] = 0 /\ completed[q] = 0 /\ counter[q] = 0
        /\ counter[0] = 0 /\ posted = 0 /\ commands = 0 /\ joined = {} /\ ~Uncounted
    BY DEF Init, Uncounted
  <1>4. Sums
    <2>1. Counts(0, freed, SQs) /\ Counts(0, completed, SQs) /\ Counts(0, counter, joined)
      BY <1>2, <1>3
    <2> QED  BY <1>3, <2>1 DEF Sums
  <1>5. Waits
    BY <1>3 DEF Init, Waits
  <1>6. \A q \in SQs : Share(q)
    BY <1>1, <1>3, WorkTypes DEF Init, Share
  <1> QED  BY <1>4, <1>5, <1>6 DEF Work

\* When the consumer is cancelled all work is done.
LEMMA WorkDone ==
    ASSUME IInv, Work, cancel
    PROVE  /\ \A q \in SQs : /\ counter[q] = Total(q) /\ fetched[q] = Total(q)
                             /\ completed[q] = Total(q) /\ freed[q] = Total(q)
                             /\ executing[q] = {}
           /\ posted = counter[0]
  <1>1. TypeOK /\ joined = SQs /\ counter[0] >= commands
    BY DEF IInv, Work, Waits
  <1>2. \A q \in SQs : counter[q] = Total(q)
    BY <1>1 DEF Work, Waits, Share
  <1>3. \A q \in SQs : /\ freed[q] \in Nat /\ completed[q] \in Nat /\ fetched[q] \in Nat
                       /\ counter[q] \in Nat /\ IsFiniteSet(executing[q])
                       /\ Cardinality(executing[q]) \in Nat
                       /\ Cardinality(executing[q]) = fetched[q] - completed[q]
                       /\ freed[q] <= completed[q]
    <2>1. \A q \in SQs : /\ freed[q] \in Nat /\ completed[q] \in Nat /\ fetched[q] \in Nat
                         /\ counter[q] \in Nat
      BY <1>1 DEF TypeOK
    <2> QED  BY <2>1, FS_CardinalityType DEF IInv, Execution
  <1>4. \A q \in SQs : fetched[q] <= counter[q]
    <2> SUFFICES ASSUME NEW q \in SQs PROVE fetched[q] <= counter[q]
      OBVIOUS
    <2>1. /\ SqPos(q, dsqhd[q]) \in Int /\ SqPos(q, sqdb[q]) \in Int
      <3>1. dsqhd[q] \in Slots /\ sqdb[q] \in Slots
        BY <1>1 DEF TypeOK
      <3> QED  BY <1>1, <3>1, SqPosRange, SizeFacts
    <2> QED  BY <1>3, <2>1 DEF IInv, SqPositions
  <1>5. \A q \in SQs : freed[q] <= counter[q] /\ completed[q] <= counter[q]
    BY <1>3, <1>4
  <1>6. PICK n \in Nat : n = counter[0] + (IF Uncounted THEN 1 ELSE 0) /\ n >= counter[0]
    BY <1>1, WorkTypes
  <1>7. Counts(n, freed, SQs) /\ Counts(posted, completed, SQs) /\ Counts(commands, counter, SQs)
    BY <1>1, <1>6 DEF Work, Sums
  <1>8. n = commands /\ \A q \in SQs : freed[q] = counter[q]
    <2>1. n >= commands
      BY <1>1, <1>6, WorkTypes
    <2> QED  BY <1>1, <1>3, <1>5, <1>7, <2>1, WorkTypes, AllDone
  <1>9. counter[0] = commands
    BY <1>1, <1>6, <1>8, WorkTypes
  <1>10. \A q \in SQs : completed[q] = counter[q] /\ fetched[q] = counter[q]
    BY <1>3, <1>4, <1>5, <1>8
  <1>11. \A q \in SQs : executing[q] = {}
    BY <1>3, <1>10, FS_EmptySet
  <1>12. posted = commands
    <2>1. Counts(posted, counter, SQs)
      BY <1>7, <1>10, SameCounts
    <2> QED  BY <1>7, <2>1 DEF Counts
  <1> QED  BY <1>2, <1>8, <1>9, <1>10, <1>11, <1>12

-----------------------------------------------------------------------------
(* Steps seen from the queues *)

\* The controller fetches the next command of the queue.
LEMMA FetchedCommand ==
    ASSUME IInv, NEW p \in SQs, DevFetch(p)
    PROVE  /\ sqmem[p][dsqhd[p]].cmd = fetched[p] + 1
           /\ SqPos(p, dsqhd[p]) = fetched[p] - freed[p]
           /\ fetched[p] < counter[p]
           /\ executing' = [executing EXCEPT ![p] = executing[p] \cup {sqmem[p][dsqhd[p]]}]
  <1>1. /\ TypeOK /\ SqPositions(p) /\ SqContents(p)
        /\ dsqhd[p] \in Slots /\ sqdb[p] \in Slots /\ SqHead(p) \in Slots
        /\ counter[p] \in Nat /\ freed[p] \in Nat /\ fetched[p] \in Nat
    BY QueueFacts DEF IInv, TypeOK
  <1>2. SqPos(p, dsqhd[p]) \in 0..(N - 1) /\ SqPos(p, sqdb[p]) \in 0..(N - 1)
    BY <1>1, SqPosRange
  <1>3. SqPos(p, dsqhd[p]) # SqPos(p, sqdb[p])
    BY <1>1, DistInjective, SizeFacts DEF SqPos, Slots, DevFetch
  <1>4. SqPos(p, dsqhd[p]) < counter[p] - freed[p] /\ SqPos(p, dsqhd[p]) = fetched[p] - freed[p]
    BY <1>1, <1>2, <1>3, SizeFacts DEF SqPositions
  <1>5. sqmem[p][dsqhd[p]].cmd = freed[p] + SqPos(p, dsqhd[p]) + 1
    BY <1>1, <1>4 DEF SqContents
  <1>6. executing' = [executing EXCEPT ![p] = executing[p] \cup {sqmem[p][dsqhd[p]]}]
    BY DEF DevFetch
  <1> QED  BY <1>1, <1>4, <1>5, <1>6

\* A completion is posted behind those that are pending.
LEMMA PostedSlot ==
    ASSUME IInv, NEW p \in SQs, DevComplete(p)
    PROVE  /\ ~Pending(dcqtl)
           /\ \A i \in CqSlots : Pending(i)' <=> (i = dcqtl \/ Pending(i))
  <1>1. /\ cq.head \in CqSlots /\ dcqtl \in CqSlots /\ cqdb \in CqSlots
    BY CqFacts
  <1>2. cq' = cq /\ dcqtl' = Advance(dcqtl, M) /\ Advance(dcqtl, M) # cqdb
    BY DEF DevComplete, hostVars
  <1>3. CqPos(dcqtl) # M - 1
    <2>1. CASE Held
      <3>1. cq.head = Advance(cqdb, M) /\ dcqtl # cqdb
        BY <2>1 DEF IInv, CqPositions
      <3> QED  BY <1>1, <3>1, SizeFacts DEF CqPos, Dist, Advance, CqSlots
    <2>2. CASE ~Held
      <3>1. cqdb = cq.head
        BY <2>2 DEF IInv, CqPositions
      <3> QED  BY <1>1, <1>2, <3>1, DistLap, SizeFacts DEF CqPos, CqSlots
    <2> QED  BY <2>1, <2>2
  <1>4. CqPos(dcqtl)' = CqPos(dcqtl) + 1
    BY <1>1, <1>2, <1>3, DistAdvanceFar, SizeFacts DEF CqPos, CqSlots
  <1>5. \A i \in CqSlots : /\ CqPos(i)' = CqPos(i) /\ CqPos(i) \in 0..(M - 1)
                           /\ CqPos(i) = CqPos(dcqtl) => i = dcqtl
    <2>1. \A i \in CqSlots : CqPos(i)' = CqPos(i) /\ CqPos(i) \in 0..(M - 1)
      BY <1>2, CqPosRange DEF CqPos
    <2>2. \A i \in CqSlots : CqPos(i) = CqPos(dcqtl) => i = dcqtl
      BY <1>1, DistInjective, SizeFacts DEF CqPos, CqSlots
    <2> QED  BY <2>1, <2>2
  <1>6. ~Pending(dcqtl)
    BY <1>1, <1>5 DEF Pending
  <1>7. ASSUME NEW i \in CqSlots
        PROVE  Pending(i)' <=> (i = dcqtl \/ Pending(i))
    <2>1. Pending(i)' <=> CqPos(i) < CqPos(dcqtl) + 1
      BY <1>4, <1>5 DEF Pending
    <2>2. CqPos(i) \in Int /\ CqPos(dcqtl) \in Int /\ (CqPos(i) = CqPos(dcqtl) <=> i = dcqtl)
      BY <1>1, <1>5
    <2> QED  BY <2>1, <2>2 DEF Pending
  <1> QED  BY <1>6, <1>7

\* The consumer takes the oldest of those that are pending.
LEMMA TakenSlot ==
    ASSUME IInv, ConsumerDequeue
    PROVE  /\ cq.head \in CqSlots /\ Pending(cq.head)
           /\ \A i \in CqSlots : Pending(i)' <=> (i # cq.head /\ Pending(i))
  <1>1. /\ cq \in Descriptor(M) /\ cq.max_entries = M
        /\ cq.head \in CqSlots /\ dcqtl \in CqSlots
    BY CqFacts
  <1>2. /\ cqmem[cq.head].phase = cq.phase /\ cq' = nvm_cq_dequeue(cq) /\ dcqtl' = dcqtl
    BY DEF ConsumerDequeue, nvm_cq_poll, devVars
  <1>3. cq'.head = Advance(cq.head, M)
    BY <1>1, <1>2, SizeFacts DEF nvm_cq_dequeue, Descriptor, Advance, CqSlots
  <1>4. Pending(cq.head)
    <2>1. Expected(cq.head) = cq.phase
      BY <1>1, SizeFacts DEF Expected, CqSlots
    <2> QED  BY <1>1, <1>2, <2>1 DEF IInv, CqContents
  <1>5. \A i \in CqSlots : /\ CqPos(i) \in 0..(M - 1) /\ (CqPos(i) = 0 <=> i = cq.head)
                           /\ CqPos(i)' = IF i = cq.head THEN M - 1 ELSE CqPos(i) - 1
    <2>1. \A i \in CqSlots : CqPos(i)' = IF i = cq.head THEN M - 1 ELSE CqPos(i) - 1
      <3>1. \A i \in CqSlots : Dist(Advance(cq.head, M), i, M)
                                 = IF cq.head = i THEN M - 1 ELSE Dist(cq.head, i, M) - 1
        BY <1>1, DistAdvanceNear, SizeFacts DEF CqSlots
      <3> QED  BY <1>3, <3>1 DEF CqPos
    <2> QED  BY <2>1, CqPosRange
  <1>6. CqPos(cq.head) = 0 /\ CqPos(dcqtl) > 0 /\ dcqtl # cq.head
    BY <1>1, <1>4, <1>5 DEF Pending
  <1>7. CqPos(dcqtl)' = CqPos(dcqtl) - 1
    BY <1>1, <1>2, <1>5, <1>6 DEF CqPos
  <1>8. ASSUME NEW i \in CqSlots
        PROVE  Pending(i)' <=> (i # cq.head /\ Pending(i))
    <2>1. CqPos(i) \in Int /\ CqPos(dcqtl) \in Int /\ CqPos(dcqtl) <= M - 1 /\ M \in Int
      BY <1>1, <1>5, SizeFacts
    <2>2. CASE i = cq.head
      <3>1. CqPos(i)' = M - 1
        BY <1>5, <2>2
      <3> QED  BY <1>7, <2>1, <2>2, <3>1 DEF Pending
    <2>3. CASE i # cq.head
      <3>1. CqPos(i)' = CqPos(i) - 1
        BY <1>5, <2>3
      <3> QED  BY <1>7, <2>1, <2>3, <3>1 DEF Pending
    <2> QED  BY <2>2, <2>3
  <1> QED  BY <1>1, <1>4, <1>8

\* nvm_cq_update leaves the head where it is.
LEMMA UpdateKeepsHead ==
    ASSUME IInv, ConsumerCqUpdate
    PROVE  cq'.head = cq.head
  <1>1. cq \in Descriptor(M) /\ cq' = nvm_cq_update(cq)
    BY CqFacts DEF ConsumerCqUpdate
  <1> QED  BY <1>1 DEF nvm_cq_update, Descriptor

-----------------------------------------------------------------------------
(* The commands *)

\* The stages depend on these variables only.
LEMMA OnceFrame ==
    ASSUME Once, cq'.head = cq.head, UNCHANGED <<executing, fetched, cqmem, dcqtl>>
    PROVE  Once'
  <1>1. \A i \in CqSlots : Pending(i)' = Pending(i)
    BY DEF Pending, CqPos
  <1> QED  BY <1>1 DEF Once, ExecutingOnce, PostedOnce

\* A fetch brings the next number.
LEMMA FetchOnce ==
    ASSUME IInv, Once, NEW p \in SQs, DevFetch(p)
    PROVE  Once'
  <1>1. PICK c : /\ executing' = [executing EXCEPT ![p] = executing[p] \cup {c}]
                 /\ c.cmd = fetched[p] + 1
    BY FetchedCommand
  <1>2. /\ fetched' = [fetched EXCEPT ![p] = fetched[p] + 1]
        /\ UNCHANGED <<cq, cqmem, dcqtl>>
    BY DEF DevFetch, hostVars
  <1>3. TypeOK /\ \A q \in SQs : fetched[q] \in Nat
    BY DEF IInv, TypeOK
  <1>4. /\ executing'[p] = executing[p] \cup {c} /\ fetched'[p] = fetched[p] + 1
        /\ \A q \in SQs : q # p => executing'[q] = executing[q] /\ fetched'[q] = fetched[q]
    BY <1>1, <1>2, <1>3 DEF TypeOK
  <1>5. \A q \in SQs : \A k : k \in 1..fetched[q] => k \in 1..fetched'[q]
    BY <1>3, <1>4
  <1>6. \A k \in 1..fetched[p] : k # c.cmd
    BY <1>1, <1>3
  <1>7. ExecutingOnce'
    <2> SUFFICES ASSUME NEW q \in SQs, NEW e \in executing'[q]
                 PROVE  /\ e.cmd \in 1..fetched'[q]
                        /\ \A d \in executing'[q] : e.cmd = d.cmd => e = d
      BY DEF ExecutingOnce
    <2>1. CASE q # p
      BY <1>4, <2>1 DEF Once, ExecutingOnce
    <2>2. CASE q = p
      <3>1. \A d \in executing[p] : d.cmd \in 1..fetched[p] /\ d.cmd # c.cmd
        BY <1>6 DEF Once, ExecutingOnce
      <3>2. c.cmd \in 1..fetched'[p]
        BY <1>1, <1>3, <1>4
      <3>3. e.cmd \in 1..fetched'[p]
        BY <1>4, <1>5, <2>2, <3>1, <3>2
      <3> QED  BY <1>4, <2>2, <3>1, <3>3 DEF Once, ExecutingOnce
    <2> QED  BY <2>1, <2>2
  <1>8. PostedOnce'
    <2>1. \A i \in CqSlots : Pending(i)' = Pending(i)
      BY <1>2 DEF Pending, CqPos
    <2> SUFFICES ASSUME NEW i \in CqSlots, Pending(i)
                 PROVE  /\ cqmem[i].cmd \in 1..fetched'[cqmem[i].sqid]
                        /\ \A d \in executing'[cqmem[i].sqid] : d.cmd # cqmem[i].cmd
                        /\ \A j \in CqSlots :
                              Pending(j) /\ cqmem[j].sqid = cqmem[i].sqid
                                /\ cqmem[j].cmd = cqmem[i].cmd => i = j
      BY <1>2, <2>1 DEF PostedOnce
    <2>2. cqmem[i].sqid \in SQs
      BY DEF IInv, CplOrder, Unfreed
    <2>3. /\ cqmem[i].cmd \in 1..fetched[cqmem[i].sqid]
          /\ \A d \in executing[cqmem[i].sqid] : d.cmd # cqmem[i].cmd
      BY DEF Once, PostedOnce
    <2>4. cqmem[i].cmd \in 1..fetched'[cqmem[i].sqid]
      BY <1>5, <2>2, <2>3
    <2>5. \A d \in executing'[cqmem[i].sqid] : d.cmd # cqmem[i].cmd
      BY <1>4, <1>6, <2>2, <2>3
    <2> QED  BY <2>4, <2>5 DEF Once, PostedOnce
  <1> QED  BY <1>7, <1>8 DEF Once

\* A completion takes the number from execution to the completion queue.
LEMMA CompleteOnce ==
    ASSUME IInv, Once, NEW p \in SQs, DevComplete(p)
    PROVE  Once'
  <1>1. PICK c \in executing[p] :
           /\ executing' = [executing EXCEPT ![p] = executing[p] \ {c}]
           /\ cqmem' = [cqmem EXCEPT ![dcqtl] =
                          [phase |-> dphase, sqid |-> p, cmd |-> c.cmd,
                           no |-> posted + 1, qno |-> completed[p] + 1]]
    BY DEF DevComplete
  <1>2. fetched' = fetched
    BY DEF DevComplete
  <1>3. /\ executing'[p] = executing[p] \ {c}
        /\ \A q \in SQs : q # p => executing'[q] = executing[q]
    BY <1>1 DEF IInv, TypeOK
  <1>4. \A q \in SQs : executing'[q] \subseteq executing[q]
    BY <1>3
  <1>5. /\ dcqtl \in CqSlots /\ cqmem'[dcqtl].sqid = p /\ cqmem'[dcqtl].cmd = c.cmd
        /\ \A i \in CqSlots : i # dcqtl => cqmem'[i] = cqmem[i]
    BY <1>1 DEF IInv, TypeOK
  <1>6. ~Pending(dcqtl) /\ \A i \in CqSlots : Pending(i)' => i = dcqtl \/ Pending(i)
    BY PostedSlot
  <1>7. c.cmd \in 1..fetched[p] /\ \A d \in executing'[p] : d.cmd # c.cmd
    BY <1>3 DEF Once, ExecutingOnce
  <1>8. ExecutingOnce'
    BY <1>2, <1>4 DEF Once, ExecutingOnce
  <1>9. \A i \in CqSlots : Pending(i) => i # dcqtl /\ cqmem'[i] = cqmem[i] /\ cqmem[i].sqid \in SQs
    BY <1>5, <1>6 DEF IInv, CplOrder, Unfreed
  <1>10. ASSUME NEW i \in CqSlots, Pending(i), cqmem[i].sqid = p
         PROVE  cqmem[i].cmd # c.cmd
    BY <1>10 DEF Once, PostedOnce
  <1>11. ASSUME NEW i \in CqSlots, Pending(i)'
         PROVE  /\ cqmem'[i].cmd \in 1..fetched[cqmem'[i].sqid]
                /\ \A d \in executing'[cqmem'[i].sqid] : d.cmd # cqmem'[i].cmd
                /\ \A j \in CqSlots :
                      Pending(j)' /\ cqmem'[j].sqid = cqmem'[i].sqid
                        /\ cqmem'[j].cmd = cqmem'[i].cmd => i = j
    <2>1. CASE i = dcqtl
      <3>1. \A j \in CqSlots :
               Pending(j)' /\ cqmem'[j].sqid = p /\ cqmem'[j].cmd = c.cmd => j = dcqtl
        BY <1>6, <1>9, <1>10
      <3> QED  BY <1>5, <1>7, <2>1, <3>1
    <2>2. CASE i # dcqtl
      <3>1. Pending(i) /\ cqmem'[i] = cqmem[i] /\ cqmem[i].sqid \in SQs
        BY <1>6, <1>9, <1>11, <2>2
      <3>2. /\ cqmem[i].cmd \in 1..fetched[cqmem[i].sqid]
            /\ \A d \in executing[cqmem[i].sqid] : d.cmd # cqmem[i].cmd
        BY <3>1 DEF Once, PostedOnce
      <3>3. ASSUME NEW j \in CqSlots, Pending(j)', cqmem'[j].sqid = cqmem[i].sqid,
                   cqmem'[j].cmd = cqmem[i].cmd
            PROVE  i = j
        <4>1. CASE j = dcqtl
          BY <1>5, <1>10, <3>1, <3>3, <4>1
        <4>2. CASE j # dcqtl
          <5>1. Pending(j) /\ cqmem'[j] = cqmem[j]
            BY <1>6, <1>9, <3>3, <4>2
          <5> QED  BY <3>1, <3>3, <5>1 DEF Once, PostedOnce
        <4> QED  BY <4>1, <4>2
      <3> QED  BY <1>4, <3>1, <3>2, <3>3
    <2> QED  BY <2>1, <2>2
  <1>12. PostedOnce'
    BY <1>2, <1>11 DEF PostedOnce
  <1> QED  BY <1>8, <1>12 DEF Once

\* Every step keeps the stages apart.
LEMMA OnceSteps ==
    ASSUME IInv, Once, [Next]_vars
    PROVE  Once'
  <1>1. ASSUME NEW p \in SQs, Producer(p) PROVE Once'
    <2>1. UNCHANGED <<cq, executing, fetched, cqmem, dcqtl>>
      BY <1>1 DEF Producer, EnqueueFull, Enqueue, Fill, FlushSpin, FlushEnqueue, FlushFill,
                  ProducerReturn, hostVars, devVars
    <2> QED  BY <2>1, OnceFrame
  <1>2. CASE Consumer
    <2>1. UNCHANGED <<executing, fetched, cqmem, dcqtl>>
      BY <1>2 DEF Consumer, ConsumerLoop, ConsumerDequeue, ConsumerTimeout, ConsumerSqIncrement,
                  ConsumerSqWrap, ConsumerCqUpdate, ConsumerCount, devVars
    <2>2. CASE ConsumerDequeue
      <3>1. \A i \in CqSlots : Pending(i)' => Pending(i)
        BY <2>2, TakenSlot
      <3> QED  BY <2>1, <3>1 DEF Once, ExecutingOnce, PostedOnce
    <2>3. CASE ConsumerCqUpdate
      <3>1. cq'.head = cq.head
        BY <2>3, UpdateKeepsHead
      <3> QED  BY <2>1, <3>1, OnceFrame
    <2>4. CASE ~ConsumerDequeue /\ ~ConsumerCqUpdate
      <3>1. cq' = cq
        BY <1>2, <2>4 DEF Consumer, ConsumerLoop, ConsumerTimeout, ConsumerSqIncrement,
                          ConsumerSqWrap, ConsumerCount, hostVars
      <3> QED  BY <2>1, <3>1, OnceFrame
    <2> QED  BY <2>2, <2>3, <2>4
  <1>3. CASE Main \/ UNCHANGED vars
    <2>1. UNCHANGED <<cq, executing, fetched, cqmem, dcqtl>>
      BY <1>3 DEF Main, MainJoin, MainWait, MainReturn, vars, hostVars, devVars
    <2> QED  BY <2>1, OnceFrame
  <1> QED  BY <1>1, <1>2, <1>3, FetchOnce, CompleteOnce DEF Next, Device, Finished

\* Nothing is in execution at first.
LEMMA OnceInit == Init => Once
  <1> SUFFICES ASSUME Init PROVE Once
    OBVIOUS
  <1>1. \A q \in SQs : executing[q] = {}
    BY DEF Init
  <1>2. cq.head = 0 /\ dcqtl = 0
    BY DEF Init, nvm_queue_clear
  <1>3. \A i \in CqSlots : ~Pending(i)
    BY <1>2, SizeFacts DEF Pending, CqPos, Dist, CqSlots
  <1> QED  BY <1>1, <1>3 DEF Once, ExecutingOnce, PostedOnce

-----------------------------------------------------------------------------
(* PRP lists *)

\* What a queue's lists depend on.
LEMMA ListsFrame ==
    ASSUME NEW q \in SQs, Pages(q), InSlots(q),
           sqmem'[q] = sqmem[q], prp'[q] = prp[q], counter'[q] = counter[q],
           freed'[q] = freed[q], SqHead(q)' = SqHead(q), Building(q)' = Building(q),
           Building(q) => slot'[q] = slot[q], executing'[q] = executing[q],
           completed'[q] = completed[q], fetched'[q] = fetched[q]
    PROVE  Pages(q)' /\ InSlots(q)'
  <1>1. \A i \in Slots : SqPos(q, i)' = SqPos(q, i)
    BY DEF SqPos
  <1>2. Pages(q)'
    BY <1>1 DEF Pages
  <1>3. InSlots(q)'
    BY <1>1 DEF InSlots
  <1> QED  BY <1>2, <1>3

\* Numbers about a queue, and the commands in its slots that are in use.
LEMMA ListTypes ==
    ASSUME IInv, NEW q \in SQs
    PROVE  /\ counter[q] \in Nat /\ freed[q] \in Nat /\ fetched[q] \in Nat /\ completed[q] \in Nat
           /\ freed[q] <= completed[q] /\ completed[q] <= fetched[q] /\ fetched[q] <= counter[q]
           /\ slot[q] \in Slots /\ sq[q].tail \in Slots /\ dsqhd[q] \in Slots
           /\ SqHead(q) \in Slots /\ N \in Nat /\ N >= 2
           /\ sqmem[q] \in [Slots -> Command] /\ prp[q] \in [1..N -> Nat]
           /\ \A i \in Slots : SqPos(q, i) \in 0..(N - 1)
  <1>1. TypeOK /\ SqPositions(q) /\ Execution(q)
    BY DEF IInv
  <1>2. /\ counter[q] \in Nat /\ freed[q] \in Nat /\ fetched[q] \in Nat /\ completed[q] \in Nat
        /\ slot[q] \in Slots /\ dsqhd[q] \in Slots /\ sqdb[q] \in Slots
        /\ sqmem[q] \in [Slots -> Command] /\ prp[q] \in [1..N -> Nat]
    BY <1>1 DEF TypeOK
  <1>3. sq[q].tail \in Slots /\ SqHead(q) \in Slots /\ N \in Nat /\ N >= 2
    BY <1>1, QueueFacts, SizeFacts
  <1>4. \A i \in Slots : SqPos(q, i) \in 0..(N - 1)
    BY <1>1, SqPosRange
  <1>5. freed[q] <= completed[q] /\ completed[q] <= fetched[q]
    <2>1. Cardinality(executing[q]) \in Nat
      BY <1>1, FS_CardinalityType DEF Execution
    <2> QED  BY <1>1, <1>2, <2>1 DEF Execution
  <1>6. fetched[q] <= counter[q]
    <2>1. SqPos(q, dsqhd[q]) \in Int /\ SqPos(q, sqdb[q]) \in Int
      BY <1>2, <1>3, <1>4
    <2> QED  BY <1>1, <1>2, <2>1 DEF SqPositions
  <1> QED  BY <1>2, <1>3, <1>4, <1>5, <1>6

\* The CID of an enqueue is the new tail, in one half of its range or the other.
LEMMA CidOfSlot ==
    ASSUME TypeOK, NEW q \in SQs
    PROVE  SqCid(nvm_sq_enqueue(sq[q])) % N = Advance(sq[q].tail, N)
  <1>1. /\ sq[q] \in Descriptor(N) /\ sq[q].max_entries = N /\ sq[q].tail \in 0..(N - 1)
        /\ N \in Nat /\ N > 0
    BY QueueFacts, SizeFacts DEF Slots
  <1>2. PICK d : d = nvm_sq_enqueue(sq[q])
    OBVIOUS
  <1>3. d.tail = Advance(sq[q].tail, N) /\ d.max_entries = N /\ d.phase \in Bit
    <2>1. sq[q].phase \in Bit /\ 1 - sq[q].phase \in Bit
      BY <1>1 DEF Descriptor, Bit
    <2> QED  BY <1>1, <1>2, <2>1 DEF nvm_sq_enqueue, Descriptor, Advance
  <1>4. PICK t \in 0..(N - 1) : t = Advance(sq[q].tail, N)
    BY <1>1, AdvanceRange
  <1>5. SqCid(d) = t + (1 - d.phase) * N
    BY <1>3, <1>4 DEF SqCid
  <1>6. CASE d.phase = 1
    <2>1. SqCid(d) = t
      BY <1>1, <1>4, <1>5, <1>6
    <2>2. t % N = t
      BY <1>1, <1>4
    <2> QED  BY <1>2, <1>4, <2>1, <2>2
  <1>7. CASE d.phase = 0
    <2>1. SqCid(d) = 1 * N + t
      BY <1>1, <1>4, <1>5, <1>7
    <2>2. (1 * N + t) % N = t
      BY <1>1, <1>4, ModMultiple
    <2> QED  BY <1>2, <1>4, <2>1, <2>2
  <1> QED  BY <1>3, <1>6, <1>7 DEF Bit

\* The lists of a queue that another producer works on stay as they are.
LEMMA OtherLists ==
    ASSUME IInv, Lists, NEW p \in SQs, Producer(p), NEW q \in SQs, q # p
    PROVE  Pages(q)' /\ InSlots(q)'
  <1>1. TypeOK /\ Pages(q) /\ InSlots(q)
    BY DEF IInv, Lists
  <1>2. UNCHANGED <<freed, executing, completed, fetched>>
    BY DEF Producer, EnqueueFull, Enqueue, Fill, FlushSpin, FlushEnqueue, FlushFill,
           ProducerReturn, devVars
  <1>3. sq'[q] = sq[q] /\ sqmem'[q] = sqmem[q]
    BY <1>1 DEF Producer, EnqueueFull, Enqueue, Fill, FlushSpin, FlushEnqueue, FlushFill,
                ProducerReturn, TakeSlot, Submit, hostVars, TypeOK
  <1>4. counter'[q] = counter[q] /\ prp'[q] = prp[q]
    BY <1>1 DEF Producer, EnqueueFull, Enqueue, Fill, FlushSpin, FlushEnqueue, FlushFill,
                ProducerReturn, hostVars, TypeOK
  <1>5. ppc'[q] = ppc[q] /\ slot'[q] = slot[q]
    BY <1>1 DEF Producer, EnqueueFull, Enqueue, Fill, FlushSpin, FlushEnqueue, FlushFill,
                ProducerReturn, TakeSlot, threadVars, TypeOK
  <1>6. SqHead(q)' = SqHead(q) /\ Building(q)' = Building(q)
    BY <1>3, <1>5 DEF SqHead, Building
  <1> QED  BY <1>1, <1>2, <1>3, <1>4, <1>5, <1>6, ListsFrame

\* A slot is taken: it was not in use, and gets its CID.
LEMMA TakeSlotLists ==
    ASSUME IInv, Lists, NEW p \in SQs, Enqueue(p) \/ FlushEnqueue(p)
    PROVE  Pages(p)' /\ InSlots(p)'
  <1>0. PICK n : n = SqCid(nvm_sq_enqueue(sq[p]))
    OBVIOUS
  <1>1. /\ ppc[p] = "enqueue" /\ TakeSlot(p)
        /\ UNCHANGED <<counter, prp, freed, executing, completed, fetched>>
    BY DEF Enqueue, FlushEnqueue, devVars
  <1>2. TypeOK /\ SqPositions(p) /\ Pages(p) /\ InSlots(p)
    BY DEF IInv, Lists
  <1>3. PICK t \in Slots : t = sq[p].tail
    BY ListTypes
  <1>4. /\ slot'[p] = t /\ sq'[p] = nvm_sq_enqueue(sq[p])
        /\ sqmem'[p] = [sqmem[p] EXCEPT ![t].cid = n]
    BY <1>0, <1>1, <1>2, <1>3 DEF TakeSlot, SqSlot, TypeOK
  <1>5. sqmem'[p][t].cid = n /\ \A i \in Slots : i # t => sqmem'[p][i] = sqmem[p][i]
    <2>1. sqmem[p] \in [Slots -> Command]
      BY ListTypes
    <2>2. sqmem'[p][t] = [sqmem[p][t] EXCEPT !.cid = n] /\ sqmem[p][t] \in Command
      BY <1>3, <1>4, <2>1
    <2>3. sqmem'[p][t].cid = n
      BY <2>2 DEF Command
    <2> QED  BY <1>3, <1>4, <2>1, <2>3
  <1>6. SqHead(p)' = SqHead(p)
    <2>1. sq[p] \in Descriptor(N)
      BY <1>2 DEF TypeOK
    <2>2. sq'[p].head = sq[p].head
      BY <1>4, <2>1 DEF nvm_sq_enqueue, Descriptor
    <2> QED  BY <2>2 DEF SqHead
  <1>7. \A i \in Slots : SqPos(p, i)' = SqPos(p, i)
    BY <1>6 DEF SqPos
  <1>8. SqPos(p, t) = counter[p] - freed[p]
    <2>1. Enqueued(p) = counter[p]
      BY <1>1, ListTypes DEF Enqueued, Building
    <2> QED  BY <1>2, <1>3, <2>1 DEF SqPositions
  <1>9. \A i \in Slots : SqPos(p, i) < counter[p] - freed[p] => i # t
    BY <1>8, ListTypes
  <1>10. Pages(p)'
    <2>1. n % N = Advance(t, N)
      BY <1>0, <1>2, <1>3, CidOfSlot
    <2>2. \A i \in Slots : SqPos(p, i) < counter[p] - freed[p] => sqmem'[p][i] = sqmem[p][i]
      BY <1>5, <1>9
    <2> QED  BY <1>1, <1>2, <1>4, <1>5, <1>7, <2>1, <2>2 DEF Pages
  <1>11. InSlots(p)'
    <2> SUFFICES ASSUME InOrder, NEW c \in executing[p]
                 PROVE  /\ completed[p] < c.cmd
                        /\ \E i \in Slots : /\ SqPos(p, i) < fetched[p] - freed[p]
                                            /\ sqmem'[p][i] = c
      BY <1>1, <1>7 DEF InSlots
    <2>1. PICK i \in Slots : SqPos(p, i) < fetched[p] - freed[p] /\ sqmem[p][i] = c
      BY <1>2 DEF InSlots
    <2>2. SqPos(p, i) < counter[p] - freed[p]
      BY <2>1, ListTypes
    <2>3. sqmem'[p][i] = c
      BY <1>5, <1>9, <2>1, <2>2
    <2> QED  BY <1>2, <2>1, <2>3 DEF InSlots
  <1> QED  BY <1>10, <1>11

\* A command is built in its slot, and its list in the slot's page.
LEMMA FillLists ==
    ASSUME IInv, Lists, NEW p \in SQs, Fill(p) \/ FlushFill(p)
    PROVE  Pages(p)' /\ InSlots(p)'
  <1>1. /\ Building(p) /\ counter' = [counter EXCEPT ![p] = counter[p] + 1]
        /\ ppc' = [ppc EXCEPT ![p] = "enqueue"]
        /\ UNCHANGED <<sq, freed, executing, completed, fetched>>
    BY DEF Fill, FlushFill, Building, devVars
  <1>2. TypeOK /\ SqPositions(p) /\ Pages(p) /\ InSlots(p)
    BY DEF IInv, Lists
  <1>3. PICK s \in Slots, k \in Nat : s = slot[p] /\ k = counter[p] + 1
    BY ListTypes
  <1>4. counter'[p] = k /\ ~Building(p)'
    BY <1>1, <1>2, <1>3 DEF Building, TypeOK
  <1>5. sqmem[p] \in [Slots -> Command] /\ prp[p] \in [1..N -> Nat] /\ sqmem[p][s] \in Command
    BY <1>3, ListTypes
  <1>6. /\ sqmem[p][s].cid % N = Advance(s, N) /\ PageOf(s) \in 1..N
        /\ \A i \in Slots : PageOf(i) \in 1..N /\ (PageOf(i) = PageOf(s) => i = s)
    <2>1. sqmem[p][s].cid % N = Advance(s, N)
      BY <1>1, <1>2, <1>3 DEF Pages
    <2> QED  BY <1>3, <2>1, SizeFacts DEF PageOf, Advance, Slots
  <1>7. PICK l : /\ l \in {0, PageOf(s)}
                 /\ sqmem'[p] = [sqmem[p] EXCEPT ![s] = [@ EXCEPT !.cmd = k, !.list = l]]
                 /\ l # 0 => prp'[p] = [prp[p] EXCEPT ![l] = k]
                 /\ l = 0 => prp'[p] = prp[p]
    <2>1. CASE Fill(p)
      <3>1. PICK l : l = (sqmem[p][s].cid % N) + 1
        OBVIOUS
      <3>2. l = PageOf(s)
        BY <1>6, <3>1 DEF PageOf
      <3>3. /\ sqmem' = [sqmem EXCEPT ![p][s] = [@ EXCEPT !.cmd = k, !.list = l]]
            /\ prp' = [prp EXCEPT ![p][l] = k]
        BY <1>3, <2>1, <3>1 DEF Fill
      <3>4. sqmem'[p] = [sqmem[p] EXCEPT ![s] = [@ EXCEPT !.cmd = k, !.list = l]]
        BY <1>2, <3>3 DEF TypeOK
      <3>5. prp'[p] = [prp[p] EXCEPT ![l] = k]
        BY <1>2, <3>3 DEF TypeOK
      <3>6. l # 0
        BY <1>6, <3>2
      <3> QED  BY <3>2, <3>4, <3>5, <3>6
    <2>2. CASE FlushFill(p)
      <3>1. /\ sqmem' = [sqmem EXCEPT ![p][s] = [@ EXCEPT !.cmd = k, !.list = 0]]
            /\ prp' = prp
        BY <1>3, <2>2 DEF FlushFill
      <3>2. sqmem'[p] = [sqmem[p] EXCEPT ![s] = [@ EXCEPT !.cmd = k, !.list = 0]]
        BY <1>2, <3>1 DEF TypeOK
      <3> QED  BY <3>1, <3>2
    <2> QED  BY <2>1, <2>2
  <1>8. /\ sqmem'[p][s].cmd = k /\ sqmem'[p][s].list = l
        /\ \A i \in Slots : i # s => sqmem'[p][i] = sqmem[p][i]
    <2>1. sqmem'[p][s] = [sqmem[p][s] EXCEPT !.cmd = k, !.list = l]
      BY <1>5, <1>7
    <2>2. sqmem'[p][s].cmd = k /\ sqmem'[p][s].list = l
      BY <1>5, <2>1 DEF Command
    <2> QED  BY <1>5, <1>7, <2>2
  <1>9. l # 0 => prp'[p][PageOf(s)] = k
    BY <1>5, <1>6, <1>7
  <1>10. \A i \in Slots : i # s => prp'[p][PageOf(i)] = prp[p][PageOf(i)]
    <2>1. CASE l = 0
      BY <1>7, <2>1
    <2>2. CASE l # 0
      <3>1. l = PageOf(s) /\ prp'[p] = [prp[p] EXCEPT ![l] = k]
        BY <1>7, <2>2
      <3>2. \A i \in Slots : i # s => PageOf(i) \in 1..N /\ PageOf(i) # l
        BY <1>6, <3>1
      <3> QED  BY <1>5, <3>1, <3>2
    <2> QED  BY <2>1, <2>2
  <1>11. \A i \in Slots : SqPos(p, i)' = SqPos(p, i)
    BY <1>1 DEF SqPos, SqHead
  <1>12. SqPos(p, s) = counter[p] - freed[p]
    BY <1>1, <1>2, <1>3 DEF SqPositions
  <1>13. \A i \in Slots : SqPos(p, i) < k - freed[p] /\ i # s => SqPos(p, i) < counter[p] - freed[p]
    <2> SUFFICES ASSUME NEW i \in Slots, SqPos(p, i) < k - freed[p], i # s
                 PROVE  SqPos(p, i) < counter[p] - freed[p]
      OBVIOUS
    <2>1. SqPos(p, i) # SqPos(p, s)
      BY <1>3, ListTypes, DistInjective DEF SqPos, Slots
    <2>2. SqPos(p, i) \in Int /\ counter[p] \in Nat /\ freed[p] \in Nat
      BY ListTypes
    <2> QED  BY <1>3, <1>12, <2>1, <2>2
  <1>14. Pages(p)'
    <2> SUFFICES ASSUME NEW i \in Slots, SqPos(p, i) < k - freed[p], sqmem'[p][i].list # 0
                 PROVE  /\ sqmem'[p][i].list = PageOf(i)
                        /\ prp'[p][PageOf(i)] = sqmem'[p][i].cmd
      BY <1>1, <1>4, <1>11 DEF Pages
    <2>1. CASE i = s
      BY <1>7, <1>8, <1>9, <2>1
    <2>2. CASE i # s
      <3>1. sqmem'[p][i] = sqmem[p][i] /\ SqPos(p, i) < counter[p] - freed[p]
        BY <1>8, <1>13, <2>2
      <3>2. sqmem[p][i].list = PageOf(i) /\ prp[p][PageOf(i)] = sqmem[p][i].cmd
        BY <1>2, <3>1 DEF Pages
      <3> QED  BY <1>10, <2>2, <3>1, <3>2
    <2> QED  BY <2>1, <2>2
  <1>15. InSlots(p)'
    <2> SUFFICES ASSUME InOrder, NEW c \in executing[p]
                 PROVE  /\ completed[p] < c.cmd
                        /\ \E i \in Slots : /\ SqPos(p, i) < fetched[p] - freed[p]
                                            /\ sqmem'[p][i] = c
      BY <1>1, <1>11 DEF InSlots
    <2>1. PICK i \in Slots : SqPos(p, i) < fetched[p] - freed[p] /\ sqmem[p][i] = c
      BY <1>2 DEF InSlots
    <2>2. i # s
      BY <1>12, <2>1, ListTypes
    <2>3. sqmem'[p][i] = c
      BY <1>8, <2>1, <2>2
    <2> QED  BY <1>2, <2>1, <2>3 DEF InSlots
  <1> QED  BY <1>14, <1>15

\* A submission touches no slot.
LEMMA SubmitLists ==
    ASSUME IInv, Lists, NEW p \in SQs, EnqueueFull(p) \/ ProducerReturn(p) \/ FlushSpin(p)
    PROVE  Pages(p)' /\ InSlots(p)'
  <1>1. /\ UNCHANGED <<sqmem, prp, counter, freed, slot, executing, completed, fetched>>
        /\ ~Building(p)
    BY DEF EnqueueFull, ProducerReturn, FlushSpin, Building, hostVars, threadVars, devVars
  <1>2. ~Building(p)'
    BY DEF EnqueueFull, ProducerReturn, FlushSpin, Building, threadVars, IInv, TypeOK
  <1>3. SqHead(p)' = SqHead(p)
    <2>1. sq[p] \in Descriptor(N) /\ sq \in [SQs -> Descriptor(N)]
      BY DEF IInv, TypeOK
    <2>2. sq'[p] = sq[p] \/ sq'[p] = nvm_sq_submit(sq[p])
      BY <2>1 DEF EnqueueFull, ProducerReturn, FlushSpin, Submit, hostVars
    <2>3. sq'[p].head = sq[p].head
      BY <2>1, <2>2 DEF nvm_sq_submit, Descriptor
    <2> QED  BY <2>3 DEF SqHead
  <1>4. Building(p)' = Building(p)
    BY <1>1, <1>2 DEF Building
  <1>5. Pages(p) /\ InSlots(p)
    BY DEF Lists
  <1> QED  BY <1>1, <1>3, <1>4, <1>5, ListsFrame

\* A head is moved past a command that has been completed.
LEMMA IncrementLists ==
    ASSUME IInv, Lists, NEW q \in SQs, ConsumerSqIncrement
    PROVE  Pages(q)' /\ InSlots(q)'
  <1>0. PICK p \in SQs : p = cqmem[cpl].sqid
    BY DEF ConsumerSqIncrement, IInv, CqContents, Held
  <1>1. /\ cpc = "sq_update"
        /\ sq' = [sq EXCEPT ![p] = SqHeadIncrement(sq[p])]
        /\ freed' = [freed EXCEPT ![p] = freed[p] + 1]
        /\ UNCHANGED <<sqmem, prp, counter, slot, ppc, executing, completed, fetched>>
    BY <1>0 DEF ConsumerSqIncrement, devVars
  <1>2. TypeOK /\ Pages(q) /\ InSlots(q) /\ Building(q)' = Building(q)
    BY <1>1 DEF IInv, Lists, Building
  <1>3. CASE q # p
    <2>1. sq'[q] = sq[q] /\ freed'[q] = freed[q]
      BY <1>1, <1>2, <1>3 DEF TypeOK
    <2>2. SqHead(q)' = SqHead(q)
      BY <2>1 DEF SqHead
    <2> QED  BY <1>1, <1>2, <2>1, <2>2, ListsFrame
  <1>4. CASE q = p
    <2>1. /\ sq[p].head \in 0..N /\ sq[p].head # N /\ sq'[p].head = sq[p].head + 1
          /\ freed'[p] = freed[p] + 1
      <3>1. sq[p] \in Descriptor(N) /\ sq[p].head \in 0..N /\ sq[p].head # N
        BY <1>1, <1>2, QueueFacts, NoTransient
      <3>2. sq'[p] = [sq[p] EXCEPT !.head = sq[p].head + 1]
        BY <1>1, <1>2 DEF SqHeadIncrement, TypeOK
      <3>3. sq'[p].head = sq[p].head + 1
        BY <3>1, <3>2 DEF Descriptor
      <3>4. freed'[p] = freed[p] + 1
        BY <1>1, <1>2 DEF TypeOK
      <3> QED  BY <3>1, <3>3, <3>4
    <2>2. SqHead(p) \in 0..(N - 1) /\ SqHead(p)' = Advance(SqHead(p), N)
      BY <2>1, SizeFacts DEF SqHead, Advance
    <2>3. \A i \in Slots : SqPos(p, i)' = IF i = SqHead(p) THEN N - 1 ELSE SqPos(p, i) - 1
      <3>1. \A i \in Slots : Dist(Advance(SqHead(p), N), i, N)
                               = IF SqHead(p) = i THEN N - 1 ELSE Dist(SqHead(p), i, N) - 1
        BY <2>2, DistAdvanceNear, SizeFacts DEF Slots
      <3> QED  BY <2>2, <3>1 DEF SqPos
    <2>4. \A i \in Slots : SqPos(p, i) \in 0..(N - 1) /\ (SqPos(p, i) = 0 <=> i = SqHead(p))
      BY <1>2, SqPosRange
    <2>5. /\ counter[p] \in Nat /\ freed[p] \in Nat /\ fetched[p] \in Nat /\ completed[p] \in Nat
          /\ N \in Nat /\ completed[p] <= fetched[p] /\ fetched[p] <= counter[p]
      BY ListTypes
    <2>6. freed[p] < completed[p]
      <3>1. Unfreed(cpl) /\ cpl \in CqSlots /\ cqmem[cpl].qno \in Nat
        BY <1>1, CqFacts DEF Unfreed
      <3>2. freed[p] < cqmem[cpl].qno /\ cqmem[cpl].qno <= completed[p]
        BY <1>0, <3>1 DEF IInv, CplOrder
      <3> QED  BY <2>5, <3>1, <3>2
    <2>7. counter[p] - freed[p] <= N - 1
      <3>1. SqPos(p, sq[p].tail) = Enqueued(p) - freed[p] /\ SqPos(p, sq[p].tail) \in 0..(N - 1)
        BY <2>4, ListTypes DEF IInv, SqPositions
      <3>2. Enqueued(p) \in Nat /\ counter[p] <= Enqueued(p)
        BY <2>5 DEF Enqueued
      <3> QED  BY <2>5, <3>1, <3>2
    <2>8. ASSUME NEW i \in Slots, SqPos(p, i)' < counter[p] - (freed[p] + 1)
          PROVE  SqPos(p, i) < counter[p] - freed[p]
      <3>1. SqPos(p, i) \in Int
        BY <2>4
      <3>2. i # SqHead(p)
        BY <2>3, <2>5, <2>7, <2>8
      <3>3. SqPos(p, i)' = SqPos(p, i) - 1
        BY <2>3, <3>2
      <3> QED  BY <2>5, <2>8, <3>1, <3>3
    <2>9. Pages(p)'
      <3> SUFFICES ASSUME NEW i \in Slots, SqPos(p, i)' < counter[p] - (freed[p] + 1),
                          sqmem[p][i].list # 0
                   PROVE  sqmem[p][i].list = PageOf(i) /\ prp[p][PageOf(i)] = sqmem[p][i].cmd
        BY <1>1, <1>2, <1>4, <2>1 DEF Pages
      <3> QED  BY <1>2, <1>4, <2>8 DEF Pages
    <2>10. InSlots(p)'
      <3> SUFFICES ASSUME InOrder, NEW c \in executing[p]
                   PROVE  /\ completed[p] < c.cmd
                          /\ \E i \in Slots : /\ SqPos(p, i)' < fetched[p] - (freed[p] + 1)
                                              /\ sqmem[p][i] = c
        BY <1>1, <2>1 DEF InSlots
      <3>1. completed[p] < c.cmd
        BY <1>2, <1>4 DEF InSlots
      <3>2. PICK i \in Slots : SqPos(p, i) < fetched[p] - freed[p] /\ sqmem[p][i] = c
        BY <1>2, <1>4 DEF InSlots
      <3>3. SqPos(p, i) \in 0..(N - 1)
        BY <2>4
      <3>4. sqmem[p][i].cmd = freed[p] + SqPos(p, i) + 1
        <4>1. SqPos(p, i) < counter[p] - freed[p]
          BY <2>5, <3>2, <3>3
        <4> QED  BY <4>1 DEF IInv, SqContents
      <3>5. SqPos(p, i) # 0
        BY <2>5, <2>6, <3>1, <3>2, <3>3, <3>4
      <3>6. SqPos(p, i)' = SqPos(p, i) - 1
        BY <2>3, <2>4, <3>5
      <3>7. SqPos(p, i)' < fetched[p] - (freed[p] + 1)
        BY <2>5, <3>2, <3>3, <3>6
      <3> QED  BY <3>1, <3>2, <3>7
    <2> QED  BY <1>4, <2>9, <2>10
  <1> QED  BY <1>3, <1>4

\* The other steps of the consumer, those of the main thread, and stuttering
LEMMA QuietLists ==
    ASSUME IInv, Lists, NEW q \in SQs,
           (Consumer /\ ~ConsumerSqIncrement) \/ Main \/ UNCHANGED vars
    PROVE  Pages(q)' /\ InSlots(q)'
  <1>1. /\ UNCHANGED <<sqmem, prp, freed, slot, ppc, executing, completed, fetched>>
    BY DEF Consumer, ConsumerLoop, ConsumerDequeue, ConsumerTimeout, ConsumerSqWrap,
           ConsumerCqUpdate, ConsumerCount, Main, MainJoin, MainWait, MainReturn,
           vars, hostVars, threadVars, devVars
  <1>2. TypeOK /\ Pages(q) /\ InSlots(q) /\ Building(q)' = Building(q)
    BY <1>1 DEF IInv, Lists, Building
  <1>3. counter'[q] = counter[q]
    <2>1. CASE ConsumerCount
      BY <1>2, <2>1, QueueFacts DEF ConsumerCount, TypeOK
    <2>2. CASE ~ConsumerCount
      BY <2>2 DEF Consumer, ConsumerLoop, ConsumerDequeue, ConsumerTimeout, ConsumerSqWrap,
                  ConsumerCqUpdate, Main, MainJoin, MainWait, MainReturn, vars, hostVars
    <2> QED  BY <2>1, <2>2
  <1>4. SqHead(q)' = SqHead(q)
    <2>1. CASE ConsumerSqWrap
      <3>1. sq'[q] = sq[q] \/ sq'[q] = SqHeadWrap(sq[q])
        BY <1>2, <2>1 DEF ConsumerSqWrap, TypeOK
      <3>2. sq[q] \in Descriptor(N) /\ sq[q].max_entries = N
        BY <1>2, QueueFacts
      <3> QED  BY <3>1, <3>2, SizeFacts DEF SqHeadWrap, SqHead, Descriptor
    <2>2. CASE ~ConsumerSqWrap
      <3>1. sq' = sq
        BY <2>2 DEF Consumer, ConsumerLoop, ConsumerDequeue, ConsumerTimeout,
                    ConsumerCqUpdate, ConsumerCount, Main, MainJoin, MainWait, MainReturn,
                    vars, hostVars
      <3> QED  BY <3>1 DEF SqHead
    <2> QED  BY <2>1, <2>2
  <1> QED  BY <1>1, <1>2, <1>3, <1>4, ListsFrame

\* The controller starts on the command of the slot behind those it has fetched.
LEMMA FetchLists ==
    ASSUME IInv, Lists, NEW q \in SQs, NEW p \in SQs, DevFetch(p)
    PROVE  Pages(q)' /\ InSlots(q)'
  <1>1. /\ fetched' = [fetched EXCEPT ![p] = fetched[p] + 1]
        /\ UNCHANGED <<sq, sqmem, prp, counter, slot, ppc, freed, completed>>
    BY DEF DevFetch, hostVars, threadVars
  <1>2. TypeOK /\ Pages(q) /\ InSlots(q) /\ Building(q)' = Building(q) /\ SqHead(q)' = SqHead(q)
    BY <1>1 DEF IInv, Lists, Building, SqHead
  <1>3. PICK s \in Slots, c \in Command : s = dsqhd[p] /\ c = sqmem[p][s]
    BY ListTypes
  <1>4. /\ c.cmd = fetched[p] + 1 /\ SqPos(p, s) = fetched[p] - freed[p]
        /\ executing' = [executing EXCEPT ![p] = executing[p] \cup {c}]
    BY <1>3, FetchedCommand
  <1>5. \A i \in Slots : SqPos(q, i)' = SqPos(q, i)
    BY <1>2 DEF SqPos
  <1>6. CASE q # p
    <2>1. executing'[q] = executing[q] /\ fetched'[q] = fetched[q]
      BY <1>1, <1>2, <1>4, <1>6 DEF TypeOK
    <2> QED  BY <1>1, <1>2, <2>1, ListsFrame
  <1>7. CASE q = p
    <2>1. executing'[p] = executing[p] \cup {c} /\ fetched'[p] = fetched[p] + 1
      BY <1>1, <1>2, <1>4 DEF TypeOK
    <2>2. Pages(p)'
      BY <1>1, <1>2, <1>5, <1>7 DEF Pages
    <2>3. /\ fetched[p] \in Nat /\ freed[p] \in Nat /\ completed[p] \in Nat
          /\ completed[p] <= fetched[p] /\ \A i \in Slots : SqPos(p, i) \in 0..(N - 1)
      BY ListTypes
    <2>4. InSlots(p)'
      <3> SUFFICES ASSUME InOrder, NEW e \in executing[p] \cup {c}
                   PROVE  /\ completed[p] < e.cmd
                          /\ \E i \in Slots : /\ SqPos(p, i) < (fetched[p] + 1) - freed[p]
                                              /\ sqmem[p][i] = e
        BY <1>1, <1>5, <1>7, <2>1 DEF InSlots
      <3>1. CASE e = c
        <4>1. completed[p] < e.cmd
          BY <1>4, <2>3, <3>1
        <4>2. SqPos(p, s) < (fetched[p] + 1) - freed[p] /\ sqmem[p][s] = e
          BY <1>3, <1>4, <2>3, <3>1
        <4> QED  BY <1>3, <4>1, <4>2
      <3>2. CASE e \in executing[p]
        <4>1. PICK i \in Slots : SqPos(p, i) < fetched[p] - freed[p] /\ sqmem[p][i] = e
          BY <1>2, <1>7, <3>2 DEF InSlots
        <4>2. SqPos(p, i) < (fetched[p] + 1) - freed[p]
          <5>1. SqPos(p, i) \in Int
            BY <2>3
          <5> QED  BY <2>3, <4>1, <5>1
        <4> QED  BY <1>2, <1>7, <3>2, <4>1, <4>2 DEF InSlots
      <3> QED  BY <3>1, <3>2
    <2> QED  BY <1>7, <2>2, <2>4
  <1> QED  BY <1>6, <1>7

\* A controller that completes in order completes the oldest command it executes.
LEMMA CompleteLists ==
    ASSUME IInv, Once, Lists, NEW q \in SQs, NEW p \in SQs, DevComplete(p)
    PROVE  Pages(q)' /\ InSlots(q)'
  <1>1. /\ completed' = [completed EXCEPT ![p] = completed[p] + 1]
        /\ UNCHANGED <<sq, sqmem, prp, counter, slot, ppc, freed, fetched>>
    BY DEF DevComplete, hostVars, threadVars
  <1>2. TypeOK /\ Pages(q) /\ InSlots(q) /\ Building(q)' = Building(q) /\ SqHead(q)' = SqHead(q)
    BY <1>1 DEF IInv, Lists, Building, SqHead
  <1>3. PICK c \in executing[p] :
           /\ executing' = [executing EXCEPT ![p] = executing[p] \ {c}]
           /\ InOrder => \A d \in executing[p] : c.cmd <= d.cmd
    BY DEF DevComplete
  <1>4. \A i \in Slots : SqPos(q, i)' = SqPos(q, i)
    BY <1>2 DEF SqPos
  <1>5. CASE q # p
    <2>1. executing'[q] = executing[q] /\ completed'[q] = completed[q]
      BY <1>1, <1>2, <1>3, <1>5 DEF TypeOK
    <2> QED  BY <1>1, <1>2, <2>1, ListsFrame
  <1>6. CASE q = p
    <2>1. executing'[p] = executing[p] \ {c} /\ completed'[p] = completed[p] + 1
      BY <1>1, <1>2, <1>3 DEF TypeOK
    <2>2. Pages(p)'
      BY <1>1, <1>2, <1>4, <1>6 DEF Pages
    <2>3. completed[p] \in Nat /\ fetched[p] \in Nat
      BY ListTypes
    <2>4. ASSUME InOrder, NEW e \in executing[p] \ {c}
          PROVE  completed[p] + 1 < e.cmd
      <3>1. completed[p] < c.cmd /\ c.cmd <= e.cmd
        BY <1>2, <1>3, <1>6, <2>4 DEF InSlots
      <3>2. c.cmd \in 1..fetched[p] /\ e.cmd \in 1..fetched[p] /\ c.cmd # e.cmd
        BY <1>3 DEF Once, ExecutingOnce
      <3> QED  BY <2>3, <3>1, <3>2
    <2>5. InSlots(p)'
      BY <1>1, <1>2, <1>4, <1>6, <2>1, <2>4 DEF InSlots
    <2> QED  BY <1>6, <2>2, <2>5
  <1> QED  BY <1>5, <1>6

\* Every step keeps the lists.
LEMMA ListsSteps ==
    ASSUME IInv, Once, Lists, [Next]_vars
    PROVE  Lists'
  <1> SUFFICES ASSUME NEW q \in SQs PROVE Pages(q)' /\ InSlots(q)'
    BY DEF Lists
  <1>1. ASSUME NEW p \in SQs, Producer(p) PROVE Pages(q)' /\ InSlots(q)'
    <2>1. CASE q # p
      BY <1>1, <2>1, OtherLists
    <2>2. CASE q = p
      BY <1>1, <2>2, TakeSlotLists, FillLists, SubmitLists DEF Producer
    <2> QED  BY <2>1, <2>2
  <1>2. CASE Consumer \/ Main \/ UNCHANGED vars
    BY <1>2, IncrementLists, QuietLists
  <1>3. ASSUME NEW p \in SQs, Device(p) PROVE Pages(q)' /\ InSlots(q)'
    BY <1>3, FetchLists, CompleteLists DEF Device
  <1> QED  BY <1>1, <1>2, <1>3 DEF Next, Finished

\* No slot is in use at first.
LEMMA ListsInit == Init => Lists
  <1> SUFFICES ASSUME Init, NEW q \in SQs PROVE Pages(q) /\ InSlots(q)
    BY DEF Lists
  <1>1. /\ executing[q] = {} /\ ~Building(q)
        /\ \A i \in Slots : sqmem[q][i].list = 0
    BY DEF Init, Building, NoCommand
  <1> QED  BY <1>1 DEF Pages, InSlots

-----------------------------------------------------------------------------
(* The command service *)

\* Command k of queue q is in execution; its completion is posted and not taken.
Runs(q, k) == \E c \in executing[q] : c.cmd = k
Answered(q, k) == \E i \in CqSlots : Pending(i) /\ cqmem[i].sqid = q /\ cqmem[i].cmd = k

\* The stage of a command before and after a step
LEMMA StageIs ==
    ASSUME NEW q, NEW k
    PROVE  /\ Stage(q, k) = IF k > counter[q] THEN "idle"
                            ELSE IF k > fetched[q] THEN "queued"
                            ELSE IF Runs(q, k) THEN "executing"
                            ELSE IF Answered(q, k) THEN "completed" ELSE "reaped"
           /\ Stage(q, k)' = IF k > counter'[q] THEN "idle"
                             ELSE IF k > fetched'[q] THEN "queued"
                             ELSE IF Runs(q, k)' THEN "executing"
                             ELSE IF Answered(q, k)' THEN "completed" ELSE "reaped"
  BY DEF Stage, Runs, Answered, Pending, CqPos

\* One command moves to its next stage and the others stay where they are.
LEMMA StageMove ==
    ASSUME NEW q \in SQs, NEW k \in 1..Total(q), NEW from, NEW to,
           Stage(q, k) = from, Stage(q, k)' = to,
           \A p \in SQs : \A j \in 1..Total(p) : <<p, j>> # <<q, k>> => Stage(p, j)' = Stage(p, j),
           mpc' = mpc
    PROVE  Service!Move(q, k, from, to)
  <1>1. PICK S : S = [p \in SQs |-> [j \in 1..Total(p) |-> Stage(p, j)]]
    OBVIOUS
  <1>2. [p \in SQs |-> [j \in 1..Total(p) |-> Stage(p, j)']] = [S EXCEPT ![q][k] = to]
    <2>1. ASSUME NEW p \in SQs
          PROVE  [j \in 1..Total(p) |-> Stage(p, j)'] = [S EXCEPT ![q][k] = to][p]
      <3>1. CASE p # q
        BY <1>1, <2>1, <3>1
      <3>2. CASE p = q
        BY <1>1, <2>1, <3>2
      <3> QED  BY <3>1, <3>2
    <2> QED  BY <1>1, <2>1
  <1>3. S[q][k] = from
    BY <1>1
  <1> QED  BY <1>1, <1>2, <1>3 DEF Service!Move, Total

\* Commands that a step does not concern
LEMMA StageFrame ==
    ASSUME UNCHANGED <<fetched, executing, cqmem, dcqtl>>, cq'.head = cq.head,
           \A q \in SQs : counter'[q] = counter[q],
           NEW q \in SQs, NEW k
    PROVE  Stage(q, k)' = Stage(q, k)
  BY DEF Stage

\* Producers queue their commands in order.
LEMMA QueueRefines ==
    ASSUME IInv, Work, NEW p \in SQs, Fill(p) \/ FlushFill(p)
    PROVE  \E k \in 1..Total(p) : Service!Queue(p, k)
  <1>1. /\ counter' = [counter EXCEPT ![p] = counter[p] + 1]
        /\ UNCHANGED <<cq, mpc, executing, fetched, cqmem, dcqtl>>
    BY DEF Fill, FlushFill, devVars
  <1>2. TypeOK /\ Share(p) /\ counter[p] \in Nat /\ fetched[p] \in Nat /\ fetched[p] <= counter[p]
    BY ListTypes DEF IInv, Work
  <1>3. PICK k : k = counter[p] + 1
    OBVIOUS
  <1>4. k \in 1..Total(p)
    <2>1. counter[p] < Total(p)
      BY <1>2, WorkTypes DEF Share, Fill, FlushFill
    <2> QED  BY <1>2, <1>3, <2>1, WorkTypes
  <1>5. counter'[p] = k /\ \A q \in SQs : q # p => counter'[q] = counter[q]
    BY <1>1, <1>2, <1>3 DEF TypeOK
  <1>6. \A q, j : Runs(q, j)' = Runs(q, j) /\ Answered(q, j)' = Answered(q, j)
    BY <1>1 DEF Runs, Answered, Pending, CqPos
  <1>7. Stage(p, k) = "idle"
    <2>1. k > counter[p]
      BY <1>2, <1>3
    <2> QED  BY <2>1, StageIs
  <1>8. Stage(p, k)' = "queued"
    <2>1. ~(k > counter'[p]) /\ k > fetched'[p]
      BY <1>1, <1>2, <1>3, <1>5
    <2> QED  BY <2>1, StageIs
  <1>9. ASSUME NEW q \in SQs, NEW j \in 1..Total(q), <<q, j>> # <<p, k>>
        PROVE  Stage(q, j)' = Stage(q, j)
    <2>1. j > counter'[q] <=> j > counter[q]
      <3>1. CASE q = p
        <4>1. j \in Int /\ j # k
          BY <1>2, <1>9, <3>1, WorkTypes
        <4> QED  BY <1>2, <1>3, <1>5, <3>1, <4>1
      <3>2. CASE q # p
        BY <1>5, <3>2
      <3> QED  BY <3>1, <3>2
    <2> QED  BY <1>1, <1>6, <2>1, StageIs
  <1>10. Service!Move(p, k, "idle", "queued")
    BY <1>1, <1>4, <1>7, <1>8, <1>9, StageMove
  <1>11. \A j \in 1..(k - 1) : j \in 1..Total(p) /\ Stage(p, j) # "idle"
    <2> SUFFICES ASSUME NEW j \in 1..(k - 1) PROVE j \in 1..Total(p) /\ Stage(p, j) # "idle"
      OBVIOUS
    <2>1. j \in 1..Total(p) /\ ~(j > counter[p])
      BY <1>2, <1>3, <1>4, WorkTypes
    <2> QED  BY <2>1, StageIs
  <1> QED  BY <1>4, <1>10, <1>11 DEF Service!Queue

\* The controller starts them in order.
LEMMA StartRefines ==
    ASSUME IInv, Work, NEW p \in SQs, DevFetch(p)
    PROVE  \E k \in 1..Total(p) : Service!Start(p, k)
  <1>1. /\ fetched' = [fetched EXCEPT ![p] = fetched[p] + 1]
        /\ UNCHANGED <<cq, mpc, counter, cqmem, dcqtl>>
    BY DEF DevFetch, hostVars, threadVars
  <1>2. TypeOK /\ Share(p) /\ counter[p] \in Nat /\ fetched[p] \in Nat /\ fetched[p] < counter[p]
    BY ListTypes, FetchedCommand DEF IInv, Work
  <1>3. PICK k, c : /\ k = fetched[p] + 1 /\ c.cmd = k
                    /\ executing' = [executing EXCEPT ![p] = executing[p] \cup {c}]
    BY FetchedCommand
  <1>4. k \in 1..Total(p) /\ ~(k > counter[p])
    BY <1>2, <1>3, WorkTypes DEF Share
  <1>5. /\ fetched'[p] = k /\ \A q \in SQs : q # p => fetched'[q] = fetched[q]
        /\ executing'[p] = executing[p] \cup {c}
        /\ \A q \in SQs : q # p => executing'[q] = executing[q]
    BY <1>1, <1>2, <1>3 DEF TypeOK
  <1>6. \A q, j : Answered(q, j)' = Answered(q, j)
    BY <1>1 DEF Answered, Pending, CqPos
  <1>7. Stage(p, k) = "queued"
    <2>1. k > fetched[p]
      BY <1>2, <1>3
    <2> QED  BY <1>4, <2>1, StageIs
  <1>8. Stage(p, k)' = "executing"
    <2>1. ~(k > counter'[p]) /\ ~(k > fetched'[p])
      BY <1>1, <1>2, <1>3, <1>4, <1>5
    <2>2. Runs(p, k)'
      BY <1>3, <1>5 DEF Runs
    <2> QED  BY <2>1, <2>2, StageIs
  <1>9. ASSUME NEW q \in SQs, NEW j \in 1..Total(q), <<q, j>> # <<p, k>>
        PROVE  Stage(q, j)' = Stage(q, j)
    <2>1. CASE q = p
      <3>1. j \in Int /\ j # k
        BY <1>2, <1>9, <2>1, WorkTypes
      <3>2. j > fetched'[q] <=> j > fetched[q]
        BY <1>2, <1>3, <1>5, <2>1, <3>1
      <3>3. Runs(q, j)' <=> Runs(q, j)
        BY <1>3, <1>5, <2>1, <3>1 DEF Runs
      <3> QED  BY <1>1, <1>6, <3>2, <3>3, StageIs
    <2>2. CASE q # p
      <3>1. fetched'[q] = fetched[q] /\ Runs(q, j)' = Runs(q, j)
        BY <1>5, <2>2 DEF Runs
      <3> QED  BY <1>1, <1>6, <3>1, StageIs
    <2> QED  BY <2>1, <2>2
  <1>10. Service!Move(p, k, "queued", "executing")
    BY <1>1, <1>4, <1>7, <1>8, <1>9, StageMove
  <1>11. ASSUME NEW j \in 1..(k - 1)
         PROVE  j \in 1..Total(p) /\ Stage(p, j) \notin {"idle", "queued"}
    <2>1. j \in 1..Total(p) /\ ~(j > counter[p]) /\ ~(j > fetched[p])
      BY <1>2, <1>3, <1>4, WorkTypes
    <2> QED  BY <2>1, StageIs
  <1> QED  BY <1>4, <1>10, <1>11 DEF Service!Start

\* The controller completes what it executes.
LEMMA CompleteRefines ==
    ASSUME IInv, Work, Once, NEW p \in SQs, DevComplete(p)
    PROVE  \E k \in 1..Total(p) : Service!Complete(p, k)
  <1>1. UNCHANGED <<mpc, counter, fetched>>
    BY DEF DevComplete, hostVars, threadVars
  <1>2. PICK c \in executing[p] :
           /\ executing' = [executing EXCEPT ![p] = executing[p] \ {c}]
           /\ cqmem' = [cqmem EXCEPT ![dcqtl] =
                          [phase |-> dphase, sqid |-> p, cmd |-> c.cmd,
                           no |-> posted + 1, qno |-> completed[p] + 1]]
    BY DEF DevComplete
  <1>3. PICK k : k = c.cmd
    OBVIOUS
  <1>4. k \in 1..Total(p) /\ ~(k > counter[p]) /\ ~(k > fetched[p])
    <2>1. k \in 1..fetched[p]
      BY <1>3 DEF Once, ExecutingOnce
    <2>2. /\ fetched[p] <= counter[p] /\ counter[p] <= Total(p) /\ fetched[p] \in Nat
          /\ counter[p] \in Nat /\ Total(p) \in Nat
      BY ListTypes, WorkTypes DEF Work, Share, IInv
    <2> QED  BY <2>1, <2>2
  <1>5. /\ executing'[p] = executing[p] \ {c}
        /\ \A q \in SQs : q # p => executing'[q] = executing[q]
    BY <1>2 DEF IInv, TypeOK
  <1>6. /\ dcqtl \in CqSlots /\ cqmem'[dcqtl].sqid = p /\ cqmem'[dcqtl].cmd = k
        /\ \A i \in CqSlots : i # dcqtl => cqmem'[i] = cqmem[i]
    BY <1>2, <1>3 DEF IInv, TypeOK
  <1>7. ~Pending(dcqtl) /\ \A i \in CqSlots : Pending(i)' <=> (i = dcqtl \/ Pending(i))
    BY PostedSlot
  <1>8. ASSUME NEW q \in SQs, NEW j
        PROVE  Answered(q, j)' <=> (Answered(q, j) \/ (q = p /\ j = k))
    BY <1>6, <1>7 DEF Answered
  <1>9. Stage(p, k) = "executing"
    <2>1. Runs(p, k)
      BY <1>3 DEF Runs
    <2> QED  BY <1>4, <2>1, StageIs
  <1>10. Stage(p, k)' = "completed"
    <2>1. ~Runs(p, k)'
      BY <1>3, <1>5 DEF Runs, Once, ExecutingOnce
    <2>2. Answered(p, k)'
      BY <1>8
    <2> QED  BY <1>1, <1>4, <2>1, <2>2, StageIs
  <1>11. ASSUME NEW q \in SQs, NEW j \in 1..Total(q), <<q, j>> # <<p, k>>
         PROVE  Stage(q, j)' = Stage(q, j)
    <2>1. Answered(q, j)' <=> Answered(q, j)
      BY <1>8, <1>11
    <2>2. Runs(q, j)' <=> Runs(q, j)
      BY <1>3, <1>5, <1>11 DEF Runs
    <2> QED  BY <1>1, <2>1, <2>2, StageIs
  <1>12. Service!Move(p, k, "executing", "completed")
    BY <1>1, <1>4, <1>9, <1>10, <1>11, StageMove
  <1> QED  BY <1>4, <1>12 DEF Service!Complete

\* The consumer takes each completion once.
LEMMA ReapRefines ==
    ASSUME IInv, Work, Once, ConsumerDequeue
    PROVE  \E q \in SQs : \E k \in 1..Total(q) : Service!Reap(q, k)
  <1>1. UNCHANGED <<mpc, counter, fetched, executing, cqmem>>
    BY DEF ConsumerDequeue, devVars
  <1>2. PICK h \in CqSlots : /\ h = cq.head /\ Pending(h)
                             /\ \A i \in CqSlots : Pending(i)' <=> (i # h /\ Pending(i))
    BY TakenSlot
  <1>3. PICK p \in SQs, k \in Nat : p = cqmem[h].sqid /\ k = cqmem[h].cmd
    <2>1. cqmem[h].sqid \in SQs
      BY <1>2 DEF IInv, CplOrder, Unfreed
    <2>2. cqmem[h] \in Completion
      BY DEF IInv, TypeOK
    <2> QED  BY <2>1, <2>2 DEF Completion
  <1>4. /\ k \in 1..fetched[p] /\ ~Runs(p, k)
        /\ \A j \in CqSlots : Pending(j) /\ cqmem[j].sqid = p /\ cqmem[j].cmd = k => j = h
    BY <1>2, <1>3 DEF Once, PostedOnce, Runs
  <1>5. k \in 1..Total(p) /\ ~(k > counter[p]) /\ ~(k > fetched[p])
    <2>1. /\ fetched[p] <= counter[p] /\ counter[p] <= Total(p) /\ fetched[p] \in Nat
          /\ counter[p] \in Nat /\ Total(p) \in Nat
      BY ListTypes, WorkTypes DEF Work, Share, IInv
    <2> QED  BY <1>4, <2>1
  <1>6. \A q, j : Runs(q, j)' = Runs(q, j)
    BY <1>1 DEF Runs
  <1>7. Stage(p, k) = "completed"
    <2>1. Answered(p, k)
      BY <1>2, <1>3 DEF Answered
    <2> QED  BY <1>4, <1>5, <2>1, StageIs
  <1>8. Stage(p, k)' = "reaped"
    <2>1. ~Answered(p, k)'
      BY <1>1, <1>2, <1>4 DEF Answered
    <2> QED  BY <1>1, <1>4, <1>5, <1>6, <2>1, StageIs
  <1>9. ASSUME NEW q \in SQs, NEW j \in 1..Total(q), <<q, j>> # <<p, k>>
        PROVE  Stage(q, j)' = Stage(q, j)
    <2>1. Answered(q, j)' <=> Answered(q, j)
      BY <1>1, <1>2, <1>3, <1>9 DEF Answered
    <2> QED  BY <1>1, <1>6, <2>1, StageIs
  <1>10. Service!Move(p, k, "completed", "reaped")
    BY <1>1, <1>5, <1>7, <1>8, <1>9, StageMove
  <1> QED  BY <1>5, <1>10 DEF Service!Reap

\* The transfer returns when every command has been reaped.
LEMMA ReturnRefines ==
    ASSUME IInv, Work, MainReturn
    PROVE  Service!Return
  <1>1. /\ mpc = "cancelled" /\ cpc = "done" /\ mpc' = "done"
        /\ UNCHANGED <<counter, fetched, executing, cqmem, dcqtl, cq>>
    BY DEF MainReturn, hostVars, devVars
  <1>2. \A q \in SQs : \A k : Stage(q, k)' = Stage(q, k)
    BY <1>1, StageFrame
  <1>3. /\ \A q \in SQs : counter[q] = Total(q) /\ fetched[q] = Total(q) /\ executing[q] = {}
        /\ posted = counter[0]
    <2>1. cancel
      BY <1>1 DEF Work, Waits
    <2> QED  BY <2>1, WorkDone
  <1>4. \A i \in CqSlots : ~Pending(i)
    <2>1. CqPos(dcqtl) = posted - Reaped /\ Reaped = counter[0] + 0
      BY <1>1 DEF IInv, CqPositions, Reaped
    <2>2. TypeOK /\ counter[0] \in Nat
      BY WorkTypes DEF IInv
    <2>3. CqPos(dcqtl) = 0
      BY <1>3, <2>1, <2>2
    <2>4. \A i \in CqSlots : CqPos(i) \in 0..(M - 1)
      BY CqPosRange
    <2> QED  BY <2>3, <2>4 DEF Pending
  <1>5. ASSUME NEW q \in SQs, NEW k \in 1..Total(q)
        PROVE  Stage(q, k) = "reaped"
    <2>1. ~(k > counter[q]) /\ ~(k > fetched[q])
      <3>1. Total(q) \in Nat
        BY WorkTypes DEF IInv
      <3> QED  BY <1>3, <3>1
    <2>2. ~Runs(q, k) /\ ~Answered(q, k)
      BY <1>3, <1>4 DEF Runs, Answered
    <2> QED  BY <2>1, <2>2, StageIs
  <1> QED  BY <1>1, <1>2, <1>5 DEF Service!Return, Service!Cmds, Total

\* Every step is a step of the service or leaves it as it is.
LEMMA StepRefines ==
    ASSUME IInv, Work, Once, [Next]_vars
    PROVE  [Service!Next]_(Service!vars)
  <1>1. \A q \in SQs : Service!Cmds(q) = 1..Total(q)
    BY DEF Service!Cmds
  <1>2. ASSUME UNCHANGED <<fetched, executing, cqmem, dcqtl>>, cq'.head = cq.head,
               \A q \in SQs : counter'[q] = counter[q], (mpc' = "done") = (mpc = "done")
        PROVE  UNCHANGED Service!vars
    <2>1. \A q \in SQs : \A k : Stage(q, k)' = Stage(q, k)
      BY <1>2, StageFrame
    <2> QED  BY <1>2, <2>1 DEF Service!vars, Total
  <1>3. TypeOK
    BY DEF IInv
  <1>4. ASSUME NEW p \in SQs, Producer(p) PROVE [Service!Next]_(Service!vars)
    <2>1. CASE Fill(p) \/ FlushFill(p)
      BY <1>1, <2>1, QueueRefines DEF Service!Next
    <2>2. CASE ~(Fill(p) \/ FlushFill(p))
      <3>1. UNCHANGED <<fetched, executing, cqmem, dcqtl, cq, counter, mpc>>
        BY <1>4, <2>2 DEF Producer, EnqueueFull, Enqueue, FlushSpin, FlushEnqueue,
                          ProducerReturn, hostVars, threadVars, devVars
      <3> QED  BY <1>2, <3>1
    <2> QED  BY <2>1, <2>2
  <1>5. ASSUME NEW p \in SQs, Device(p) PROVE [Service!Next]_(Service!vars)
    BY <1>1, <1>5, StartRefines, CompleteRefines DEF Device, Service!Next
  <1>6. CASE Consumer
    <2>1. CASE ConsumerDequeue
      BY <1>1, <2>1, ReapRefines DEF Service!Next
    <2>2. CASE ~ConsumerDequeue
      <3>1. UNCHANGED <<fetched, executing, cqmem, dcqtl, mpc>>
        BY <1>6, <2>2 DEF Consumer, ConsumerLoop, ConsumerTimeout, ConsumerSqIncrement,
                          ConsumerSqWrap, ConsumerCqUpdate, ConsumerCount, devVars, threadVars
      <3>2. cq'.head = cq.head
        <4>1. CASE ConsumerCqUpdate
          BY <4>1, UpdateKeepsHead
        <4>2. CASE ~ConsumerCqUpdate
          BY <1>6, <2>2, <4>2 DEF Consumer, ConsumerLoop, ConsumerTimeout, ConsumerSqIncrement,
                                  ConsumerSqWrap, ConsumerCount, hostVars
        <4> QED  BY <4>1, <4>2
      <3>3. \A q \in SQs : counter'[q] = counter[q]
        <4>1. CASE ConsumerCount
          BY <1>3, <4>1, WorkTypes DEF ConsumerCount, TypeOK
        <4>2. CASE ~ConsumerCount
          BY <1>6, <2>2, <4>2 DEF Consumer, ConsumerLoop, ConsumerTimeout, ConsumerSqIncrement,
                                  ConsumerSqWrap, ConsumerCqUpdate, hostVars
        <4> QED  BY <4>1, <4>2
      <3> QED  BY <1>2, <3>1, <3>2, <3>3
    <2> QED  BY <2>1, <2>2
  <1>7. CASE Main \/ UNCHANGED vars
    <2>1. CASE MainReturn
      BY <2>1, ReturnRefines DEF Service!Next
    <2>2. CASE ~MainReturn
      <3>1. /\ UNCHANGED <<fetched, executing, cqmem, dcqtl, cq, counter>>
            /\ (mpc' = "done") = (mpc = "done")
        BY <1>7, <2>2 DEF Main, MainJoin, MainWait, vars, hostVars, threadVars, devVars
      <3> QED  BY <1>2, <3>1
    <2> QED  BY <2>1, <2>2
  <1> QED  BY <1>4, <1>5, <1>6, <1>7 DEF Next, Finished

\* At first no command is built.
LEMMA InitRefines == Init => Service!Init
  <1> SUFFICES ASSUME Init PROVE Service!Init
    OBVIOUS
  <1>1. ASSUME NEW q \in SQs, NEW k \in 1..Total(q)
        PROVE  Stage(q, k) = "idle"
    <2>1. counter[q] = 0
      BY DEF Init
    <2>2. k > counter[q]
      BY <2>1
    <2> QED  BY <2>2, StageIs
  <1>2. mpc # "done"
    BY DEF Init
  <1> QED  BY <1>1, <1>2 DEF Service!Init, Service!Cmds

-----------------------------------------------------------------------------
(* Theorems *)

\* The invariant of the queues, with what has been counted, where every command is and which
\* page holds its PRP list, is an invariant of the data path.
THEOREM ServiceInvariance == RingDivides => (Spec => [](IInv /\ Work /\ Once /\ Lists))
  <1> SUFFICES ASSUME RingDivides PROVE Spec => [](IInv /\ Work /\ Once /\ Lists)
    OBVIOUS
  <1>1. Init => IInv /\ Work /\ Once /\ Lists
    BY InitInv, WorkInit, OnceInit, ListsInit
  <1>2. IInv /\ Work /\ Once /\ Lists /\ [Next]_vars => (IInv /\ Work /\ Once /\ Lists)'
    BY NextInv, WorkSteps, OnceSteps, ListsSteps
  <1> QED  BY <1>1, <1>2, PTL DEF Spec

\* transfer() cancels the consumer only when every command of every queue has been executed,
\* completed and taken, whatever the number of queues, their size and the work.
THEOREM ReturnsAll == RingDivides => (Spec => []ReturnsAfterAll)
  <1>1. IInv /\ Work => ReturnsAfterAll
    BY WorkDone DEF ReturnsAfterAll
  <1> QED  BY <1>1, ServiceInvariance, PTL

\* With a controller that completes each queue in order, the PRP list page a command was
\* given is not built over before the command is completed.
THEOREM ListsIntact == RingDivides => (Spec => []PrpListIntact)
  <1>1. IInv /\ Lists => PrpListIntact
    <2> SUFFICES ASSUME IInv, Lists, InOrder, NEW q \in SQs, NEW c \in executing[q], c.list # 0
                 PROVE  prp[q][c.list] = c.cmd
      BY DEF PrpListIntact
    <2>1. PICK i \in Slots : SqPos(q, i) < fetched[q] - freed[q] /\ sqmem[q][i] = c
      BY DEF Lists, InSlots
    <2>2. SqPos(q, i) < counter[q] - freed[q]
      BY <2>1, ListTypes
    <2> QED  BY <2>1, <2>2 DEF Lists, Pages
  <1> QED  BY <1>1, ServiceInvariance, PTL

\* The threads of transfer() and the controller implement the command service: each command is
\* started once and in order, completed once and reaped once, and the transfer returns after.
THEOREM Implements == RingDivides => (Spec => ImplementsService)
  <1>1. Init => Service!Init
    BY InitRefines
  <1>2. IInv /\ Work /\ Once /\ [Next]_vars => [Service!Next]_(Service!vars)
    BY StepRefines
  <1> QED  BY <1>1, <1>2, ServiceInvariance, PTL DEF Spec, ImplementsService, Service!Spec
=============================================================================
