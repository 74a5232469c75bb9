--------------------------- MODULE AdminQueueProofs ---------------------------
(***************************************************************************)
(* Proofs about AdminQueue, for any number of threads, calls and creations  *)
(* and any queue sizes.  One section per layer of the invariant.            *)
(***************************************************************************)
EXTENDS AdminQueueInv, NvmQueueProofs, FiniteSetTheorems

\* The sizes of the host's rings and of the controller's.
LEMMA Sizes ==
    /\ N \in Nat /\ M \in Nat /\ AqaSq \in Nat /\ AqaCq \in Nat
    /\ 2 <= N /\ N <= AqaSq /\ 2 <= M /\ M <= AqaCq
    /\ Word \in Nat \ {0} /\ MaxCalls \in Nat /\ MaxCreates \in Nat
    /\ 0..(N - 1) \subseteq AsqSlots /\ 0..(M - 1) \subseteq AcqSlots
  <1>1. /\ N \in Nat /\ M \in Nat /\ AqaSq \in Nat /\ AqaCq \in Nat
        /\ 2 <= N /\ N <= AqaSq /\ 2 <= M /\ M <= AqaCq
        /\ Word \in Nat \ {0} /\ MaxCalls \in Nat /\ MaxCreates \in Nat
    BY AdminAssumption DEF N, M, QueueSize, AqaSq, AqaCq
  <1> QED  BY <1>1 DEF AsqSlots, AcqSlots

\* The empty sequence has elements of any kind.
LEMMA EmptySequence ==
    ASSUME NEW S
    PROVE  <<>> \in Seq(S) /\ Len(<<>>) = 0
  OBVIOUS

\* The elements of a sequence.
LEMMA SequenceElement ==
    ASSUME NEW S, NEW s \in Seq(S), NEW p \in 1..Len(s)
    PROVE  s[p] \in S
  OBVIOUS

\* A cleared descriptor.
LEMMA ClearRing ==
    ASSUME NEW n \in Nat, n >= 2
    PROVE  /\ nvm_queue_clear(n) \in InRing(n)
           /\ nvm_queue_clear(n).head = 0 /\ nvm_queue_clear(n).tail = 0
           /\ nvm_queue_clear(n).phase = 1
  BY DEF nvm_queue_clear, InRing, Bit

\* A thread that moves leaves the others where they are.
LEMMA PcMoves ==
    ASSUME RpcType, NEW t \in Threads, NEW x, pc' = [pc EXCEPT ![t] = x]
    PROVE  /\ pc'[t] = x
           /\ \A u \in Threads : u # t => pc'[u] = pc[u]
           /\ x \in Pcs => pc' \in [Threads -> Pcs]
  BY DEF RpcType

-----------------------------------------------------------------------------
(* The lock and the calls *)

\* The first layer holds initially.
LEMMA CallInit == Init => CallInv
  <1> SUFFICES ASSUME Init PROVE CallInv
    OBVIOUS
  <1>1. QueueType
    BY Sizes, ClearRing DEF Init, QueueType, NoEntry, Bit, AsqSlots, AcqSlots
  <1>2. RpcType
    <2>1. result \in [1..MaxCalls -> [err : Errs, of : 0..MaxCalls]]
      BY Sizes DEF Init, Errs
    <2>2. lock \in Threads \cup {"free"} /\ pc \in [Threads -> Pcs] /\ timedout \in BOOLEAN
      BY DEF Init, Pcs
    <2>3. call \in [Threads -> 0..MaxCalls] /\ cplslot \in AcqSlots /\ calls \in 0..MaxCalls
      BY Sizes DEF Init, AcqSlots
    <2>4. issued \in Seq(1..MaxCalls)
      BY EmptySequence DEF Init
    <2> QED  BY <2>1, <2>2, <2>3, <2>4 DEF RpcType
  <1>3. CtrlType
    <2>1. aqpc = "none" /\ creates \in 0..MaxCreates
      BY Sizes DEF Init
    <2>2. en \in BOOLEAN /\ cfg \in BOOLEAN /\ owned \in BOOLEAN /\ unreset \in BOOLEAN
      BY DEF Init
    <2> QED  BY <2>1, <2>2 DEF CtrlType
  <1>4. DevType
    BY Sizes DEF Init, DevType, AsqSlots, AcqSlots, Bit
  <1>5. Held /\ Calling
    BY DEF Init, Held, Calling, Holding
  <1> QED  BY <1>1, <1>2, <1>3, <1>4, <1>5 DEF CallInv, TypeOK

\* The controller's steps.
LEMMA DeviceCalls ==
    ASSUME CallInv, Device
    PROVE  CallInv'
  <1>1. QueueType /\ RpcType /\ CtrlType /\ DevType /\ Held /\ Calling
    BY DEF CallInv, TypeOK
  <1>2. UNCHANGED <<asq, acq, asqmem, rpcVars, ctrlVars>>
    BY DEF Device, DevFetch, DevComplete, DevDisable, DevEnable, queueVars
  <1>3. RpcType' /\ CtrlType' /\ Held' /\ Calling'
    <2>1. UNCHANGED rpcVars /\ UNCHANGED ctrlVars
      BY <1>2
    <2>2. RpcType' /\ Held'
      BY <1>1, <2>1 DEF RpcType, Held, rpcVars
    <2>3. CtrlType'
      BY <1>1, <2>1 DEF CtrlType, ctrlVars
    <2>4. Calling'
      BY <1>1, <2>1 DEF Calling, rpcVars, ctrlVars
    <2> QED  BY <2>2, <2>3, <2>4
  <1>4. QueueType' /\ DevType'
    <2>1. CASE DevFetch
      <3>1. Advance(dsqhd, AqaSq) \in AsqSlots
        BY <1>1, Sizes, AdvanceRange DEF DevType, AsqSlots
      <3>2. [call |-> asqmem[dsqhd], slot |-> dsqhd] \in [call : 0..MaxCalls, slot : AsqSlots]
        BY <1>1 DEF DevType, QueueType
      <3>3. executing' \subseteq [call : 0..MaxCalls, slot : AsqSlots]
        BY <1>1, <2>1, <3>2 DEF DevFetch, DevType
      <3>4. UNCHANGED <<queueVars, acqmem, rdy, dcqtl, dphase, stale, creates>>
        BY <2>1 DEF DevFetch, ctrlVars
      <3>5. DevType'
        BY <1>1, <2>1, <3>1, <3>3, <3>4 DEF DevType, DevFetch
      <3> QED  BY <1>1, <3>4, <3>5 DEF QueueType, queueVars
    <2>2. CASE DevComplete
      <3>1. Advance(dcqtl, AqaCq) \in AcqSlots
        BY <1>1, Sizes, AdvanceRange DEF DevType, AcqSlots
      <3>2. PICK c \in executing :
               /\ executing' = executing \ {c}
               /\ acqmem' = [acqmem EXCEPT ![dcqtl] = [phase |-> dphase, of |-> c.call]]
        BY <2>2 DEF DevComplete
      <3>3. [phase |-> dphase, of |-> c.call] \in [phase : Bit, of : 0..MaxCalls]
        BY <1>1 DEF DevType
      <3>4. acqmem' \in [AcqSlots -> [phase : Bit, of : 0..MaxCalls]]
        BY <1>1, <3>2, <3>3 DEF QueueType
      <3>5. UNCHANGED <<queueVars, rdy, dsqhd, nfetched, creates>>
        BY <2>2 DEF DevComplete, ctrlVars
      <3>6. dphase' \in Bit /\ dcqtl' \in AcqSlots /\ stale' \in 0..creates
        BY <1>1, <2>2, <3>1 DEF DevComplete, DevType, CtrlType, Bit
      <3>7. DevType'
        BY <1>1, <3>2, <3>5, <3>6 DEF DevType
      <3> QED  BY <1>1, <3>4, <3>5, <3>7 DEF QueueType, queueVars
    <2>3. CASE DevDisable
      <3>1. UNCHANGED <<asq, acq, asqmem, acqmem, stale, creates>>
        BY <2>3 DEF DevDisable, ctrlVars
      <3>2. 0 \in AsqSlots /\ 0 \in AcqSlots /\ 1 \in Bit /\ 0 \in Nat
        BY Sizes DEF AsqSlots, AcqSlots, Bit
      <3>3. DevType'
        BY <1>1, <2>3, <3>1, <3>2 DEF DevDisable, DevType
      <3> QED  BY <1>1, <2>3, <3>1, <3>2, <3>3 DEF QueueType, DevDisable
    <2>4. CASE DevEnable
      <3>1. UNCHANGED <<queueVars, acqmem, dsqhd, executing, dcqtl, dphase, nfetched, stale,
                        creates>>
        BY <2>4 DEF DevEnable, ctrlVars
      <3> QED  BY <1>1, <2>4, <3>1 DEF QueueType, DevType, DevEnable, queueVars
    <2> QED  BY <2>1, <2>2, <2>3, <2>4 DEF Device
  <1> QED  BY <1>3, <1>4 DEF CallInv, TypeOK

\* The steps of nvm_aq_create and nvm_aq_destroy.
LEMMA OwnerCalls ==
    ASSUME CallInv, Owner
    PROVE  CallInv'
  <1>1. QueueType /\ RpcType /\ CtrlType /\ DevType /\ Held /\ Calling
    BY DEF CallInv, TypeOK
  <1>2. UNCHANGED <<lock, pc, call, cplslot, calls, result, timedout>>
    BY DEF Owner, CreateAdmin, ResetDisable, ResetConfigure, ResetDone, ResetTimeout,
           nvm_aq_destroy, rpcVars
  <1>3. Held'
    BY <1>1, <1>2 DEF Held
  <1>4. Calling'
    <2>1. CASE aqpc = "up"
      <3>1. nvm_aq_destroy
        BY <2>1 DEF Owner, CreateAdmin, ResetDisable, ResetConfigure, ResetDone,
            ResetTimeout
      <3> QED  BY <1>2, <3>1 DEF Calling, nvm_aq_destroy
    <2>2. CASE aqpc # "up"
      BY <1>1, <1>2, <2>2 DEF Calling
    <2> QED  BY <2>1, <2>2
  <1>5. RpcType'
    <2>1. issued' = <<>> \/ issued' = issued
      BY DEF Owner, CreateAdmin, ResetDisable, ResetConfigure, ResetDone, ResetTimeout,
             nvm_aq_destroy, rpcVars
    <2>2. issued' \in Seq(1..MaxCalls)
      BY <1>1, <2>1, EmptySequence DEF RpcType
    <2> QED  BY <1>1, <1>2, <2>2 DEF RpcType
  <1>6. CtrlType'
    <2>1. aqpc' \in {"none", "disable", "waitoff", "waiton", "up"}
      BY <1>1 DEF CtrlType, Owner, CreateAdmin, ResetDisable, ResetConfigure,
         ResetDone, ResetTimeout, nvm_aq_destroy
    <2>2. creates' \in 0..MaxCreates
      BY <1>1, Sizes DEF CtrlType, Owner, CreateAdmin, ResetDisable, ResetConfigure,
         ResetDone, ResetTimeout, nvm_aq_destroy
    <2>3. en' \in BOOLEAN /\ cfg' \in BOOLEAN /\ owned' \in BOOLEAN /\ unreset' \in BOOLEAN
      BY <1>1, Zenon DEF CtrlType, Owner, CreateAdmin, ResetDisable, ResetConfigure,
         ResetDone, ResetTimeout, nvm_aq_destroy
    <2> QED  BY <2>1, <2>2, <2>3 DEF CtrlType
  <1>7. DevType' /\ QueueType'
    <2>1. CASE CreateAdmin
      <3>1. stale' \in 0..creates' /\ UNCHANGED <<rdy, dsqhd, executing, dcqtl, dphase, nfetched>>
        BY <1>1, <2>1 DEF CreateAdmin, DevType, CtrlType
      <3>2. DevType'
        BY <1>1, <3>1 DEF DevType
      <3>3. asq' \in InRing(N) /\ acq' \in InRing(M)
        BY <2>1, Sizes, ClearRing DEF CreateAdmin
      <3>4. asqmem' \in [AsqSlots -> 0..MaxCalls]
        BY <2>1, Sizes DEF CreateAdmin
      <3>5. acqmem' \in [AcqSlots -> [phase : Bit, of : 0..MaxCalls]]
        BY <2>1, Sizes DEF CreateAdmin, NoEntry, Bit
      <3>6. asqdb' \in AsqSlots
        BY <1>1, <2>1 DEF CreateAdmin, QueueType
      <3> QED  BY <3>2, <3>3, <3>4, <3>5, <3>6 DEF QueueType
    <2>2. CASE ~CreateAdmin
      <3>1. /\ UNCHANGED devVars /\ UNCHANGED <<asq, acq, asqmem, creates>>
            /\ (asqdb' = asqdb \/ asqdb' = 0)
        BY <2>2 DEF Owner, ResetDisable, ResetConfigure, ResetDone, ResetTimeout,
                    nvm_aq_destroy, queueVars
      <3>2. 0 \in AsqSlots
        BY Sizes DEF AsqSlots
      <3>3. DevType'
        BY <1>1, <3>1 DEF DevType, devVars
      <3> QED  BY <1>1, <3>1, <3>2, <3>3 DEF QueueType, devVars
    <2> QED  BY <2>1, <2>2
  <1> QED  BY <1>3, <1>4, <1>5, <1>6, <1>7 DEF CallInv, TypeOK

\* A thread calls nvm_raw_rpc and gets the lock, or leaves it.
LEMMA LockCalls ==
    ASSUME CallInv, NEW t \in Threads, RpcCall(t) \/ RpcLock(t) \/ RpcUnlock(t)
    PROVE  CallInv'
  <1>1. QueueType /\ RpcType /\ CtrlType /\ DevType /\ Held /\ Calling
    BY DEF CallInv, TypeOK
  <1>2. UNCHANGED <<queueVars, ctrlVars, devVars, cplslot, result, issued, timedout>>
    BY DEF RpcCall, RpcLock, RpcUnlock
  <1>3. QueueType' /\ CtrlType' /\ DevType'
    <2>1. QueueType'
      BY <1>1, <1>2 DEF QueueType, queueVars, devVars
    <2>2. CtrlType'
      BY <1>1, <1>2 DEF CtrlType, ctrlVars
    <2>3. DevType'
      BY <1>1, <1>2 DEF DevType, devVars, ctrlVars
    <2> QED  BY <2>1, <2>2, <2>3
  <1>4. PICK x : x \in {"lock", "enqueue", "idle"} /\ pc' = [pc EXCEPT ![t] = x]
    BY DEF RpcCall, RpcLock, RpcUnlock
  <1>5. pc'[t] = x /\ pc' \in [Threads -> Pcs] /\ \A u \in Threads : u # t => pc'[u] = pc[u]
    <2>1. x \in Pcs
      BY <1>4 DEF Pcs
    <2> QED  BY <1>1, <1>4, <2>1, PcMoves
  <1>6. calls' \in 0..MaxCalls /\ calls <= calls' /\ call' \in [Threads -> 0..MaxCalls]
    <2>1. CASE RpcCall(t)
      <3>1. calls + 1 \in 0..MaxCalls
        BY <1>1, <2>1, Sizes DEF RpcCall, RpcType
      <3> QED  BY <1>1, <2>1, <3>1 DEF RpcCall, RpcType
    <2>2. CASE ~RpcCall(t)
      BY <1>1, <2>2 DEF RpcLock, RpcUnlock, RpcType
    <2> QED  BY <2>1, <2>2
  <1>7. RpcType'
    <2>1. lock' \in Threads \cup {"free"}
      BY <1>1 DEF RpcType, RpcCall, RpcLock, RpcUnlock
    <2> QED  BY <1>1, <1>2, <1>5, <1>6, <2>1 DEF RpcType
  <1>8. Held'
    <2> SUFFICES ASSUME NEW u \in Threads, pc'[u] \in Holding PROVE lock' = u
      BY DEF Held
    <2>1. CASE RpcCall(t)
      <3>1. lock' = lock /\ pc'[t] = "lock"
        BY <1>1, <2>1 DEF RpcCall, RpcType
      <3> QED  BY <1>1, <1>5, <3>1 DEF Held, Holding
    <2>2. CASE RpcLock(t)
      <3>1. lock = "free" /\ lock' = t
        BY <2>2 DEF RpcLock
      <3> QED  BY <1>1, <1>5, <3>1, AdminAssumption DEF Held
    <2>3. CASE RpcUnlock(t)
      <3>1. pc[t] \in Holding /\ pc'[t] = "idle"
        BY <1>1, <2>3 DEF RpcUnlock, Holding, RpcType
      <3> QED  BY <1>1, <1>5, <3>1 DEF Held, Holding
    <2> QED  BY <2>1, <2>2, <2>3
  <1>9. Calling'
    <2> SUFFICES ASSUME NEW u \in Threads, pc'[u] # "idle"
                 PROVE aqpc' = "up" /\ call'[u] \in 1..calls'
      BY DEF Calling
    <2>0. aqpc' = aqpc
      BY <1>2 DEF ctrlVars
    <2>1. CASE RpcCall(t)
      <3>1. aqpc = "up" /\ calls' = calls + 1 /\ call' = [call EXCEPT ![t] = calls + 1]
        BY <2>1 DEF RpcCall
      <3>2. CASE u = t
        <4>1. call'[u] = calls + 1
          BY <1>1, <3>1, <3>2 DEF RpcType
        <4> QED  BY <1>1, <2>0, <3>1, <4>1 DEF RpcType
      <3>3. CASE u # t
        <4>1. call'[u] = call[u] /\ pc[u] # "idle"
          BY <1>1, <1>5, <3>1, <3>3 DEF RpcType
        <4> QED  BY <1>1, <1>6, <2>0, <3>1, <4>1 DEF Calling, RpcType
      <3> QED  BY <3>2, <3>3
    <2>2. CASE ~RpcCall(t)
      <3>1. UNCHANGED <<call, calls>> /\ pc[t] # "idle"
        BY <2>2 DEF RpcLock, RpcUnlock
      <3>2. pc[u] # "idle"
        BY <1>5, <3>1
      <3> QED  BY <1>1, <2>0, <3>1, <3>2 DEF Calling
    <2> QED  BY <2>1, <2>2
  <1> QED  BY <1>3, <1>7, <1>8, <1>9 DEF CallInv, TypeOK

\* The steps of execute_command.
Executing(t) == \/ ExecuteFull(t) \/ ExecuteEnqueue(t) \/ ExecuteSubmit(t)
                \/ ExecuteDequeue(t) \/ ExecuteTimeout(t) \/ ExecuteFinish(t)

\* What they have in common: the thread keeps the lock and its call.
LEMMA ExecutingFrame ==
    ASSUME CallInv, NEW t \in Threads, Executing(t)
    PROVE  /\ UNCHANGED <<lock, call, calls, ctrlVars, devVars>>
           /\ pc[t] \in Holding /\ pc[t] # "unlock"
           /\ pc' = [pc EXCEPT ![t] = pc'[t]] /\ pc'[t] \in Holding /\ pc'[t] # "enqueue"
           /\ \A u \in Threads : u # t => pc'[u] = pc[u]
           /\ pc' \in [Threads -> Pcs]
  <1>1. RpcType
    BY DEF CallInv, TypeOK
  <1>2. UNCHANGED <<lock, call, calls, ctrlVars, devVars>> /\ pc[t] \in Holding /\ pc[t] # "unlock"
    BY DEF Executing, ExecuteFull, ExecuteEnqueue, ExecuteSubmit, ExecuteDequeue,
           ExecuteTimeout, ExecuteFinish, Holding
  <1>3. PICK x : x \in {"submit", "wait", "finish", "unlock"} /\ pc' = [pc EXCEPT ![t] = x]
    BY DEF Executing, ExecuteFull, ExecuteEnqueue, ExecuteSubmit, ExecuteDequeue,
           ExecuteTimeout, ExecuteFinish, Outcome
  <1>4. x \in Pcs /\ x \in Holding /\ x # "enqueue"
    BY <1>3 DEF Pcs, Holding
  <1>5. pc'[t] = x /\ pc' \in [Threads -> Pcs] /\ \A u \in Threads : u # t => pc'[u] = pc[u]
    BY <1>1, <1>3, <1>4, PcMoves
  <1> QED  BY <1>2, <1>3, <1>4, <1>5

\* What execute_command leaves in the result of a call.
LEMMA ExecutingResult ==
    ASSUME CallInv, NEW t \in Threads, Executing(t)
    PROVE  RpcType'
  <1>1. QueueType /\ RpcType /\ Calling
    BY DEF CallInv, TypeOK
  <1>2. call[t] \in 1..MaxCalls
    <2>1. pc[t] # "idle"
      BY ExecutingFrame DEF Holding
    <2> QED  BY <1>1, <2>1, Sizes DEF Calling, RpcType
  <1>3. UNCHANGED <<lock, call, calls>> /\ pc' \in [Threads -> Pcs]
    BY ExecutingFrame
  <1>4. result' \in [1..MaxCalls -> [err : Errs, of : 0..MaxCalls]]
    <2>1. PICK e, o : /\ e \in Errs /\ o \in 0..MaxCalls
                      /\ \/ result' = result
                         \/ result' = [result EXCEPT ![call[t]] = [err |-> e, of |-> o]]
      <3>1. CASE ExecuteFinish(t)
        <4>1. acqmem[cplslot].of \in 0..MaxCalls /\ "ok" \in Errs
          BY <1>1 DEF QueueType, RpcType, Errs
        <4> QED  BY <3>1, <4>1 DEF ExecuteFinish, Outcome
      <3>2. CASE ExecuteFull(t)
        <4>1. "EAGAIN" \in Errs /\ 0 \in 0..MaxCalls
          BY Sizes DEF Errs
        <4>2. result' = [result EXCEPT ![call[t]] = [err |-> "EAGAIN", of |-> 0]]
          BY <3>2 DEF ExecuteFull, Outcome
        <4> QED  BY <4>1, <4>2
      <3>3. CASE ExecuteTimeout(t)
        <4>1. "ETIME" \in Errs /\ 0 \in 0..MaxCalls
          BY Sizes DEF Errs
        <4>2. result' = [result EXCEPT ![call[t]] = [err |-> "ETIME", of |-> 0]]
          BY <3>3 DEF ExecuteTimeout, Outcome
        <4> QED  BY <4>1, <4>2
      <3>4. CASE ExecuteEnqueue(t) \/ ExecuteSubmit(t) \/ ExecuteDequeue(t)
        <4>1. result' = result /\ "ok" \in Errs /\ 0 \in 0..MaxCalls
          BY <3>4, Sizes DEF ExecuteEnqueue, ExecuteSubmit, ExecuteDequeue, Errs
        <4> QED  BY <4>1
      <3> QED  BY <3>1, <3>2, <3>3, <3>4 DEF Executing
    <2>2. [err |-> e, of |-> o] \in [err : Errs, of : 0..MaxCalls]
      BY <2>1
    <2> QED  BY <1>1, <2>1, <2>2 DEF RpcType
  <1>5. issued' \in Seq(1..MaxCalls)
    <2>1. issued' = issued \/ issued' = Append(issued, call[t])
      BY DEF Executing, ExecuteFull, ExecuteEnqueue, ExecuteSubmit, ExecuteDequeue,
             ExecuteTimeout, ExecuteFinish
    <2>2. \A k \in 1..MaxCalls : Append(issued, k) \in Seq(1..MaxCalls)
      BY <1>1 DEF RpcType
    <2> QED  BY <1>1, <1>2, <2>1, <2>2 DEF RpcType
  <1>6. cplslot' \in AcqSlots
    <2>1. cplslot' = cplslot \/ cplslot' = acq.head
      BY DEF Executing, ExecuteFull, ExecuteEnqueue, ExecuteSubmit, ExecuteDequeue,
             ExecuteTimeout, ExecuteFinish
    <2>2. acq.head \in 0..(M - 1)
      BY <1>1, Sizes, RingFields DEF QueueType
    <2> QED  BY <1>1, <2>1, <2>2, Sizes DEF RpcType
  <1>7. timedout' \in BOOLEAN
    BY <1>1, Zenon DEF RpcType, Executing, ExecuteFull, ExecuteEnqueue, ExecuteSubmit,
       ExecuteDequeue, ExecuteTimeout, ExecuteFinish
  <1> QED  BY <1>1, <1>3, <1>4, <1>5, <1>6, <1>7 DEF RpcType

\* The queues stay queues.
LEMMA ExecutingQueues ==
    ASSUME CallInv, NEW t \in Threads, Executing(t)
    PROVE  QueueType'
  <1>1. QueueType /\ RpcType
    BY DEF CallInv, TypeOK
  <1>2. acqmem' = acqmem
    BY ExecutingFrame DEF devVars
  <1>3. asq.tail \in 0..(N - 1) /\ asq.tail \in AsqSlots
    BY <1>1, Sizes, RingFields DEF QueueType
  <1>4. asq' \in InRing(N)
    <2>1. asq' \in {asq, nvm_sq_enqueue(asq), nvm_sq_submit(asq), nvm_sq_update(asq)}
      BY DEF Executing, ExecuteFull, ExecuteEnqueue, ExecuteSubmit, ExecuteDequeue,
             ExecuteTimeout, ExecuteFinish, queueVars
    <2> QED  BY <1>1, <2>1, Sizes, EnqueueRing, SubmitRing, UpdateRing DEF QueueType
  <1>5. acq' \in InRing(M)
    <2>1. acq' \in {acq, nvm_cq_dequeue(acq)}
      BY DEF Executing, ExecuteFull, ExecuteEnqueue, ExecuteSubmit, ExecuteDequeue,
             ExecuteTimeout, ExecuteFinish, queueVars
    <2> QED  BY <1>1, <2>1, Sizes, TakeRing DEF QueueType
  <1>6. asqmem' \in [AsqSlots -> 0..MaxCalls]
    <2>1. asqmem' = asqmem \/ asqmem' = [asqmem EXCEPT ![asq.tail] = call[t]]
      BY DEF Executing, ExecuteFull, ExecuteEnqueue, ExecuteSubmit, ExecuteDequeue,
             ExecuteTimeout, ExecuteFinish, queueVars, SqSlot
    <2>2. call[t] \in 0..MaxCalls
      BY <1>1 DEF RpcType
    <2> QED  BY <1>1, <1>3, <2>1, <2>2 DEF QueueType
  <1>7. asqdb' \in AsqSlots
    <2>1. asqdb' = asqdb \/ asqdb' = asq.tail
      BY DEF Executing, ExecuteFull, ExecuteEnqueue, ExecuteSubmit, ExecuteDequeue,
             ExecuteTimeout, ExecuteFinish, queueVars, SqDoorbell
    <2> QED  BY <1>1, <1>3, <2>1 DEF QueueType
  <1> QED  BY <1>1, <1>2, <1>4, <1>5, <1>6, <1>7 DEF QueueType

\* execute_command keeps the first layer.
LEMMA ExecutingCalls ==
    ASSUME CallInv, NEW t \in Threads, Executing(t)
    PROVE  CallInv'
  <1>1. CtrlType /\ DevType /\ Held /\ Calling
    BY DEF CallInv, TypeOK
  <1>2. UNCHANGED <<lock, call, calls, ctrlVars, devVars>>
    BY ExecutingFrame
  <1>3. CtrlType'
    BY <1>1, <1>2 DEF CtrlType, ctrlVars
  <1>4. DevType'
    BY <1>1, <1>2 DEF DevType, devVars, ctrlVars
  <1>5. Held'
    BY <1>1, <1>2, ExecutingFrame DEF Held
  <1>6. Calling'
    <2>1. pc[t] # "idle" /\ aqpc' = aqpc
      BY <1>2, ExecutingFrame DEF Holding, ctrlVars
    <2> QED  BY <1>1, <1>2, <2>1, ExecutingFrame DEF Calling
  <1> QED  BY <1>3, <1>4, <1>5, <1>6, ExecutingResult, ExecutingQueues DEF CallInv,
      TypeOK

\* Every step keeps the first layer.
LEMMA CallSteps == CallInv /\ [Next]_vars => CallInv'
  <1> SUFFICES ASSUME CallInv, [Next]_vars PROVE CallInv'
    OBVIOUS
  <1>1. ASSUME NEW t \in Threads, RpcCall(t) \/ RpcLock(t) \/ Execute(t) PROVE CallInv'
    <2>1. RpcCall(t) \/ RpcLock(t) \/ RpcUnlock(t) \/ Executing(t)
      BY <1>1 DEF Execute, Executing
    <2> QED  BY <2>1, LockCalls, ExecutingCalls
  <1>2. CASE UNCHANGED vars
    <2>1. UNCHANGED <<queueVars, rpcVars, ctrlVars, devVars>>
      BY <1>2 DEF vars
    <2>2. QueueType /\ RpcType /\ CtrlType /\ DevType /\ Held /\ Calling
      BY DEF CallInv, TypeOK
    <2>3. QueueType' /\ RpcType' /\ Held'
      BY <2>1, <2>2 DEF QueueType, RpcType, Held, queueVars, rpcVars, devVars
    <2>4. CtrlType' /\ DevType' /\ Calling'
      BY <2>1, <2>2 DEF CtrlType, DevType, Calling, rpcVars, ctrlVars, devVars
    <2> QED  BY <2>3, <2>4 DEF CallInv, TypeOK
  <1>3. CASE Idle
    BY <1>2, <1>3 DEF Idle
  <1> QED  BY <1>1, <1>2, <1>3, DeviceCalls, OwnerCalls DEF Next

-----------------------------------------------------------------------------
(* nvm_aq_create and the controller *)

\* The second layer holds initially.
LEMMA ModeInit == Init => ModeInv
  <1> SUFFICES ASSUME Init PROVE ModeInv
    OBVIOUS
  <1>1. DeviceModes
    BY FS_EmptySet DEF Init, DeviceModes, Off
  <1>2. CreateModes /\ Clean
    BY DEF Init, CreateModes, Clean
  <1> QED  BY <1>1, <1>2 DEF ModeInv

\* A controller that executes something is enabled and has its queues; the last slot of
\* the completion queue, which nobody acknowledges, is never used.
LEMMA Completing ==
    ASSUME CallInv, ModeInv, DevComplete
    PROVE  /\ rdy /\ cfg /\ dcqtl + 1 # AqaCq /\ dcqtl' = dcqtl + 1 /\ dphase = 1 /\ dphase' = 1
           /\ dcqtl + 1 < AqaCq
  <1>1. dcqtl \in 0..(AqaCq - 1) /\ AqaCq \in Nat
    BY Sizes DEF CallInv, TypeOK, DevType, AcqSlots
  <1>2. rdy /\ executing # {} /\ Advance(dcqtl, AqaCq) # 0
    BY DEF DevComplete, CanComplete, acqdb
  <1>3. cfg /\ dphase = 1
    BY <1>2 DEF ModeInv, DeviceModes, Off
  <1>4. dcqtl + 1 # AqaCq
    BY <1>1, <1>2 DEF Advance
  <1>5. dcqtl' = dcqtl + 1 /\ dphase' = dphase
    BY <1>1, <1>4 DEF DevComplete, Advance
  <1> QED  BY <1>1, <1>2, <1>3, <1>4, <1>5

\* The controller's steps keep the second layer.
LEMMA DeviceKeepsModes ==
    ASSUME CallInv, ModeInv, Device
    PROVE  ModeInv'
  <1>1. DeviceModes /\ CreateModes /\ Clean
    BY DEF ModeInv
  <1>2. UNCHANGED <<asq, acq, rpcVars, ctrlVars>>
    BY DEF Device, DevFetch, DevComplete, DevDisable, DevEnable, queueVars
  <1>3. UNCHANGED <<aqpc, creates, en, cfg, owned, unreset, issued>>
    BY <1>2 DEF ctrlVars, rpcVars
  <1>4. CreateModes'
    BY <1>1, <1>3 DEF CreateModes
  <1>5. Clean'
    <2>1. CASE DevComplete
      <3>1. stale' = IF owned THEN stale ELSE creates
        BY <2>1 DEF DevComplete
      <3> QED  BY <1>1, <1>2, <1>3, <3>1 DEF Clean, CreateModes
    <2>2. CASE ~DevComplete
      <3>1. UNCHANGED <<acqmem, stale>>
        BY <2>2 DEF Device, DevFetch, DevDisable, DevEnable
      <3> QED  BY <1>1, <1>2, <1>3, <3>1 DEF Clean
    <2> QED  BY <2>1, <2>2
  <1>6. DeviceModes'
    <2>1. CASE DevFetch
      <3>1. IsFiniteSet(executing')
        BY <1>1, <2>1, FS_AddElement DEF DevFetch, DeviceModes
      <3>2. rdy /\ rdy' = rdy /\ cfg /\ dphase' = dphase
        BY <2>1 DEF DevFetch, CanFetch
      <3> QED  BY <1>1, <1>3, <3>1, <3>2 DEF DeviceModes
    <2>2. CASE DevComplete
      <3>1. IsFiniteSet(executing')
        BY <1>1, <2>2, FS_RemoveElement DEF DevComplete, DeviceModes
      <3>2. rdy' = rdy
        BY <2>2 DEF DevComplete
      <3> QED  BY <1>1, <1>3, <2>2, <3>1, <3>2, Completing DEF DeviceModes
    <2>3. CASE DevDisable
      BY <1>1, <1>3, <2>3, FS_EmptySet DEF DeviceModes, DevDisable, Off
    <2>4. CASE DevEnable
      <3>1. ~rdy /\ UNCHANGED <<dsqhd, executing, dcqtl, dphase, nfetched>>
        BY <2>4 DEF DevEnable
      <3>2. Off' /\ IsFiniteSet(executing') /\ dphase' = 1
        BY <1>1, <3>1 DEF DeviceModes, Off
      <3> QED  BY <1>1, <1>3, <3>2 DEF DeviceModes
    <2> QED  BY <2>1, <2>2, <2>3, <2>4 DEF Device
  <1> QED  BY <1>4, <1>5, <1>6 DEF ModeInv

\* So do nvm_aq_create and nvm_aq_destroy.
LEMMA OwnerKeepsModes ==
    ASSUME CallInv, ModeInv, Owner
    PROVE  ModeInv'
  <1>1. DeviceModes /\ CreateModes /\ Clean /\ CtrlType /\ DevType /\ creates \in Nat
    BY DEF ModeInv, CallInv, TypeOK, CtrlType
  <1>2. UNCHANGED <<rdy, dsqhd, executing, dcqtl, dphase, nfetched, stale>>
    BY DEF Owner, CreateAdmin, ResetDisable, ResetConfigure, ResetDone, ResetTimeout,
           nvm_aq_destroy, devVars
  <1>3. Off' = Off /\ IsFiniteSet(executing)' = IsFiniteSet(executing)
    BY <1>2 DEF Off
  <1>4. DeviceModes'
    <2>1. CASE CreateAdmin
      <3>1. UNCHANGED <<en, cfg>> /\ ~owned' /\ creates' = creates + 1 /\ creates' # 0
        BY <1>1, <2>1 DEF CreateAdmin
      <3> QED  BY <1>1, <1>2, <1>3, <3>1 DEF DeviceModes
    <2>2. CASE ResetConfigure
      <3>1. en' /\ cfg' /\ ~rdy /\ aqpc = "waitoff" /\ creates' = creates
        BY <2>2 DEF ResetConfigure
      <3>2. creates # 0 /\ Off
        BY <1>1, <3>1 DEF DeviceModes, CreateModes
      <3> QED  BY <1>1, <1>2, <1>3, <3>1, <3>2 DEF DeviceModes
    <2>3. CASE ResetDisable
      <3>1. ~owned /\ UNCHANGED <<cfg, owned, creates>>
        BY <1>1, <2>3 DEF ResetDisable, CreateModes
      <3> QED  BY <1>1, <1>2, <1>3, <3>1 DEF DeviceModes
    <2>4. CASE ResetDone \/ ResetTimeout \/ nvm_aq_destroy
      <3>1. UNCHANGED <<en, cfg, owned, creates>>
        BY <2>4 DEF ResetDone, ResetTimeout, nvm_aq_destroy
      <3> QED  BY <1>1, <1>2, <1>3, <3>1 DEF DeviceModes
    <2> QED  BY <2>1, <2>2, <2>3, <2>4 DEF Owner
  <1>5. CreateModes' /\ Clean'
    <2>1. CASE CreateAdmin
      <3>1. /\ aqpc' = "disable" /\ ~owned' /\ creates' > 0 /\ stale' # creates'
            /\ asq' = nvm_queue_clear(N) /\ acq' = nvm_queue_clear(M) /\ issued' = <<>>
        BY <1>1, <1>2, <2>1 DEF CreateAdmin, DevType
      <3>2. \A i \in AcqSlots : acqmem'[i].phase = 0
        BY <2>1 DEF CreateAdmin, NoEntry
      <3> QED  BY <3>1, <3>2 DEF CreateModes, Clean
    <2>2. CASE ResetDisable
      <3>1. /\ aqpc = "disable" /\ aqpc' = "waitoff" /\ ~en'
            /\ UNCHANGED <<asq, acq, acqmem, issued, creates, owned, unreset>>
        BY <2>2 DEF ResetDisable, queueVars, rpcVars, devVars
      <3> QED  BY <1>1, <1>2, <3>1 DEF CreateModes, Clean
    <2>3. CASE ResetConfigure
      <3>1. /\ aqpc = "waitoff" /\ aqpc' = "waiton" /\ owned'
            /\ UNCHANGED <<asq, acq, issued, creates>>
        BY <2>3 DEF ResetConfigure, rpcVars
      <3> QED  BY <1>1, <3>1 DEF CreateModes, Clean
    <2>4. CASE ResetDone
      <3>1. aqpc = "waiton" /\ aqpc' = "up" /\ UNCHANGED <<owned, creates>>
        BY <2>4 DEF ResetDone
      <3> QED  BY <1>1, <3>1 DEF CreateModes, Clean
    <2>5. CASE ResetTimeout
      <3>1. /\ aqpc \in {"waitoff", "waiton"} /\ aqpc' = "up" /\ UNCHANGED <<owned, creates>>
            /\ aqpc = "waitoff" => unreset'
        BY <2>5 DEF ResetTimeout
      <3> QED  BY <1>1, <3>1 DEF CreateModes, Clean
    <2>6. CASE nvm_aq_destroy
      <3>1. aqpc = "up" /\ aqpc' = "none" /\ UNCHANGED <<owned, unreset, creates>>
        BY <2>6 DEF nvm_aq_destroy
      <3> QED  BY <1>1, <3>1 DEF CreateModes, Clean
    <2> QED  BY <2>1, <2>2, <2>3, <2>4, <2>5, <2>6 DEF Owner
  <1> QED  BY <1>4, <1>5 DEF ModeInv

\* A step of nvm_raw_rpc is taken with the reference in hand.
LEMMA CallsUp ==
    ASSUME CallInv, NEW t \in Threads, RpcCall(t) \/ RpcLock(t) \/ Execute(t)
    PROVE  aqpc = "up" /\ UNCHANGED <<ctrlVars, devVars>>
  <1>1. aqpc = "up"
    <2>1. RpcCall(t) \/ pc[t] # "idle"
      BY DEF RpcLock, Execute, ExecuteFull, ExecuteEnqueue, ExecuteSubmit,
             ExecuteDequeue, ExecuteTimeout, ExecuteFinish, RpcUnlock
    <2> QED  BY <2>1 DEF CallInv, Calling, RpcCall
  <1>2. UNCHANGED <<ctrlVars, devVars>>
    BY DEF RpcCall, RpcLock, Execute, ExecuteFull, ExecuteEnqueue, ExecuteSubmit,
           ExecuteDequeue, ExecuteTimeout, ExecuteFinish, RpcUnlock
  <1> QED  BY <1>1, <1>2

\* Every step keeps the second layer.
LEMMA ModeSteps == CallInv /\ ModeInv /\ [Next]_vars => ModeInv'
  <1> SUFFICES ASSUME CallInv, ModeInv, [Next]_vars PROVE ModeInv'
    OBVIOUS
  <1>1. DeviceModes /\ CreateModes /\ Clean
    BY DEF ModeInv
  <1>2. ASSUME NEW t \in Threads, RpcCall(t) \/ RpcLock(t) \/ Execute(t) PROVE ModeInv'
    <2>1. aqpc = "up" /\ UNCHANGED <<ctrlVars, devVars>>
      BY <1>2, CallsUp
    <2>2. DeviceModes'
      BY <1>1, <2>1 DEF DeviceModes, Off, ctrlVars, devVars
    <2>3. CreateModes' /\ Clean'
      BY <1>1, <2>1 DEF CreateModes, Clean, ctrlVars
    <2> QED  BY <2>2, <2>3 DEF ModeInv
  <1>3. CASE UNCHANGED vars
    <2>1. UNCHANGED <<queueVars, rpcVars, ctrlVars, devVars>>
      BY <1>3 DEF vars
    <2>2. DeviceModes' /\ CreateModes'
      BY <1>1, <2>1 DEF DeviceModes, CreateModes, Off, ctrlVars, devVars
    <2>3. Clean'
      BY <1>1, <2>1 DEF Clean, ctrlVars, devVars, queueVars, rpcVars
    <2> QED  BY <2>2, <2>3 DEF ModeInv
  <1>4. CASE Idle
    BY <1>3, <1>4 DEF Idle
  <1> QED  BY <1>2, <1>3, <1>4, DeviceKeepsModes, OwnerKeepsModes DEF Next

-----------------------------------------------------------------------------
(* The rings *)

\* With rings of the same size, host and controller have the same slots.
LEMMA SameSlots ==
    ASSUME RingsAgree
    PROVE  AsqSlots = 0..(N - 1) /\ AcqSlots = 0..(M - 1) /\ AqaSq = N /\ AqaCq = M
  BY DEF RingsAgree, AsqSlots, AcqSlots

\* Fetching takes the command at the head, the others stay next in line.
LEMMA HoldsFetch ==
    ASSUME RingsAgree, NEW h \in 0..(N - 1), NEW t \in 0..(N - 1), h # t, NEW f \in Nat,
           NEW mem, NEW is, Holds(mem, is, h, t, f)
    PROVE  Holds(mem, is, Advance(h, N), t, f + 1) /\ mem[h] = is[f + 1]
  <1>1. N \in Nat /\ AsqSlots = 0..(N - 1)
    BY Sizes, SameSlots
  <1>2. Dist(h, t, N) \in 1..(N - 1) /\ Dist(h, h, N) = 0
    <2>1. Dist(h, t, N) \in 0..(N - 1) /\ (Dist(h, t, N) = 0 <=> h = t)
      BY <1>1, DistRange
    <2>2. Dist(h, h, N) = 0
      BY <1>1, DistRange
    <2> QED  BY <1>1, <2>1, <2>2
  <1>3. mem[h] = is[f + 1]
    <2>1. mem[h] = is[f + Dist(h, h, N) + 1]
      BY <1>1, <1>2 DEF Holds
    <2> QED  BY <1>2, <2>1
  <1>4. ASSUME NEW i \in AsqSlots, Dist(Advance(h, N), i, N) < Dist(Advance(h, N), t, N)
        PROVE  mem[i] = is[f + 1 + Dist(Advance(h, N), i, N) + 1]
    <2>1. Dist(Advance(h, N), t, N) = Dist(h, t, N) - 1
      BY <1>1, DistAdvanceNear
    <2>2. h # i
      <3>1. h = i => Dist(Advance(h, N), i, N) = N - 1
        BY <1>1, DistAdvanceNear
      <3> QED  BY <1>1, <1>2, <1>4, <2>1, <3>1
    <2>3. Dist(Advance(h, N), i, N) = Dist(h, i, N) - 1 /\ Dist(h, i, N) \in 0..(N - 1)
      BY <1>1, <2>2, DistAdvanceNear, DistRange
    <2>4. Dist(h, i, N) < Dist(h, t, N)
      BY <1>1, <1>2, <1>4, <2>1, <2>3
    <2>5. mem[i] = is[f + Dist(h, i, N) + 1]
      BY <2>4 DEF Holds
    <2>6. f + 1 + (Dist(h, i, N) - 1) + 1 = f + Dist(h, i, N) + 1
      BY <2>3, <1>1
    <2> QED  BY <2>3, <2>5, <2>6
  <1> QED  BY <1>3, <1>4 DEF Holds

\* A command enqueued at the tail is the last in line.
LEMMA HoldsEnqueue ==
    ASSUME RingsAgree, NEW h \in 0..(N - 1), NEW t \in 0..(N - 1), Dist(h, t, N) # N - 1,
           NEW f \in Nat, NEW mem \in [AsqSlots -> 0..MaxCalls], NEW is \in Seq(1..MaxCalls),
           NEW k \in 1..MaxCalls, Holds(mem, is, h, t, f), Dist(h, t, N) = Len(is) - f
    PROVE  Holds([mem EXCEPT ![t] = k], Append(is, k), h, Advance(t, N), f)
  <1>1. N \in Nat /\ AsqSlots = 0..(N - 1) /\ Len(is) \in Nat
    BY Sizes, SameSlots
  <1>2. Dist(h, Advance(t, N), N) = Dist(h, t, N) + 1 /\ Dist(h, t, N) \in 0..(N - 1)
    BY <1>1, DistAdvanceFar, DistRange
  <1>3. ASSUME NEW i \in AsqSlots, Dist(h, i, N) < Dist(h, Advance(t, N), N)
        PROVE  [mem EXCEPT ![t] = k][i] = Append(is, k)[f + Dist(h, i, N) + 1]
    <2>1. Dist(h, i, N) \in 0..(N - 1)
      BY <1>1, DistRange
    <2>2. CASE i = t
      <3>1. f + Dist(h, i, N) + 1 = Len(is) + 1
        BY <1>1, <1>2, <2>2
      <3>2. Append(is, k)[Len(is) + 1] = k
        OBVIOUS
      <3> QED  BY <2>2, <3>1, <3>2
    <2>3. CASE i # t
      <3>1. Dist(h, i, N) # Dist(h, t, N)
        BY <1>1, <2>3, DistInjective
      <3>2. Dist(h, i, N) < Dist(h, t, N)
        BY <1>2, <1>3, <2>1, <3>1
      <3>3. mem[i] = is[f + Dist(h, i, N) + 1]
        BY <3>2 DEF Holds
      <3>4. PICK p : p = f + Dist(h, i, N) + 1
        OBVIOUS
      <3>5. p \in 1..Len(is)
        <4>1. PICK d, e, l : d = Dist(h, i, N) /\ e = Dist(h, t, N) /\ l = Len(is)
          OBVIOUS
        <4>2. d \in Nat /\ e \in Nat /\ l \in Nat /\ d < e /\ e = l - f /\ p = f + d + 1
          BY <1>1, <1>2, <2>1, <3>2, <3>4, <4>1
        <4>3. p \in 1..l
          BY <4>2
        <4> QED  BY <4>1, <4>3
      <3>6. Append(is, k)[p] = is[p]
        BY <3>5
      <3> QED  BY <2>3, <3>3, <3>4, <3>6
    <2> QED  BY <2>2, <2>3
  <1> QED  BY <1>3 DEF Holds

\* Only the holder of the lock can be between nvm_cq_dequeue and nvm_sq_update.
LEMMA HolderFinishes ==
    ASSUME CallInv, NEW t \in Threads, pc[t] \in Holding
    PROVE  Finishing <=> pc[t] = "finish"
  <1>1. Held
    BY DEF CallInv
  <1>2. ASSUME NEW u \in Threads, pc[u] = "finish" PROVE u = t
    BY <1>1, <1>2 DEF Held, Holding
  <1> QED  BY <1>2 DEF Finishing

\* What RingInv is about.
ringVars == <<asq, acq, asqmem, acqmem, asqdb, dsqhd, executing, dcqtl, nfetched, issued,
              owned, stale, creates>>

\* Steps that leave the rings alone.
LEMMA RingFrame ==
    ASSUME RingInv, UNCHANGED ringVars, Finishing' <=> Finishing
    PROVE  RingInv'
  <1>1. UNCHANGED <<asq, acq, asqmem, acqmem, asqdb, dsqhd, executing, dcqtl, nfetched, issued,
                    owned, stale, creates>>
    BY DEF ringVars
  <1>2. One(Finishing)' = One(Finishing)
    BY DEF One
  <1>3. Counts' = Counts /\ Contents' = Contents /\ Tags' = Tags
    BY <1>1 DEF Counts, Contents, Tags
  <1>4. Positions' = Positions
    BY <1>1, <1>2 DEF Positions
  <1> QED  BY <1>1, <1>3, <1>4 DEF RingInv, Ring

\* The quantities of Ring and their ranges.
LEMMA RingTypes ==
    ASSUME CallInv, ModeInv, RingsAgree
    PROVE  /\ asq.head \in 0..(N - 1) /\ asq.tail \in 0..(N - 1) /\ acq.head \in 0..(M - 1)
           /\ asq \in InRing(N) /\ acq \in InRing(M) /\ acq.phase \in Bit
           /\ asqdb \in 0..(N - 1) /\ dsqhd \in 0..(N - 1) /\ dcqtl \in 0..(M - 1)
           /\ nfetched \in Nat /\ Len(issued) \in Nat /\ issued \in Seq(1..MaxCalls)
           /\ Cardinality(executing) \in Nat /\ IsFiniteSet(executing)
           /\ N \in Nat /\ M \in Nat /\ N >= 2 /\ M >= 2
           /\ AqaSq = N /\ AqaCq = M /\ AsqSlots = 0..(N - 1) /\ AcqSlots = 0..(M - 1)
  <1>1. QueueType /\ RpcType /\ DevType /\ DeviceModes
    BY DEF CallInv, TypeOK, ModeInv
  <1>2. N \in Nat /\ M \in Nat /\ N >= 2 /\ M >= 2
    BY Sizes
  <1>3. asq \in InRing(N) /\ acq \in InRing(M)
    BY <1>1 DEF QueueType
  <1>4. /\ asq.head \in 0..(N - 1) /\ asq.tail \in 0..(N - 1) /\ acq.head \in 0..(M - 1)
        /\ acq.phase \in Bit
    BY <1>2, <1>3, RingFields
  <1>5. asqdb \in 0..(N - 1) /\ dsqhd \in 0..(N - 1) /\ dcqtl \in 0..(M - 1) /\ nfetched \in Nat
    BY <1>1, SameSlots DEF QueueType, DevType
  <1>6. issued \in Seq(1..MaxCalls)
    BY <1>1 DEF RpcType
  <1>7. Len(issued) \in Nat
    BY <1>6
  <1>8. IsFiniteSet(executing)
    BY <1>1 DEF DeviceModes
  <1>9. Cardinality(executing) \in Nat
    BY <1>8, FS_CardinalityType
  <1> QED  BY <1>2, <1>3, <1>4, <1>5, <1>6, <1>7, <1>8, <1>9, SameSlots

\* The controller fetches a command.
LEMMA FetchRing ==
    ASSUME CallInv, ModeInv, RingsAgree, Ring, DevFetch
    PROVE  Ring' /\ asqmem[dsqhd] = issued[nfetched + 1] /\ nfetched < Len(issued)
  <1>1. /\ UNCHANGED <<asq, acq, asqmem, acqmem, asqdb, issued, dcqtl, pc>>
        /\ dsqhd # asqdb /\ dsqhd' = Advance(dsqhd, N) /\ nfetched' = nfetched + 1
    BY RingTypes DEF DevFetch, CanFetch, queueVars, rpcVars
  <1>2. Dist(dsqhd, asqdb, N) \in 1..(N - 1) /\ Dist(dsqhd, asq.tail, N) \in 0..(N - 1)
    <2>1. Dist(dsqhd, asqdb, N) \in 0..(N - 1) /\ (Dist(dsqhd, asqdb, N) = 0 <=> dsqhd = asqdb)
      BY RingTypes, DistRange
    <2>2. Dist(dsqhd, asq.tail, N) \in 0..(N - 1)
      BY RingTypes, DistRange
    <2> QED  BY <1>1, <2>1, <2>2, RingTypes
  <1>3. dsqhd # asq.tail /\ nfetched < Len(issued)
    BY <1>2, RingTypes, DistZero DEF Ring, Positions
  <1>4. /\ Dist(Advance(dsqhd, N), asqdb, N) = Dist(dsqhd, asqdb, N) - 1
        /\ Dist(Advance(dsqhd, N), asq.tail, N) = Dist(dsqhd, asq.tail, N) - 1
    BY <1>1, <1>3, RingTypes, DistAdvanceNear
  <1>5. Positions'
    <2>1. One(Finishing)' = One(Finishing)
      BY <1>1 DEF One, Finishing
    <2>2. Positions
      BY DEF Ring
    <2>3. nfetched \in Nat /\ Len(issued) \in Nat
      BY RingTypes
    <2>4. PICK a, b, l : /\ a = Dist(dsqhd, asqdb, N) /\ b = Dist(dsqhd, asq.tail, N)
                         /\ l = Len(issued)
      OBVIOUS
    <2>5. a \in Int /\ b \in Int /\ l \in Int /\ a <= b /\ b = l - nfetched
      BY <1>2, <2>2, <2>3, <2>4 DEF Positions
    <2>6. a - 1 <= b - 1 /\ b - 1 = l - (nfetched + 1)
      BY <2>3, <2>5
    <2> QED  BY <1>1, <1>4, <2>1, <2>2, <2>4, <2>6 DEF Positions
  <1>6. Counts'
    <2>1. /\ Cardinality(executing') \in Nat
          /\ Cardinality(executing') <= Cardinality(executing) + 1
      <3>1. PICK x : executing' = executing \cup {x}
        BY DEF DevFetch
      <3>2. IsFiniteSet(executing) /\ Cardinality(executing) \in Nat
        BY RingTypes
      <3>3. Cardinality(executing') \in {Cardinality(executing), Cardinality(executing) + 1}
        BY <3>1, <3>2, FS_AddElement
      <3> QED  BY <3>2, <3>3
    <2>2. Counts
      BY DEF Ring
    <2>3. /\ nfetched \in Nat /\ Len(issued) \in Nat /\ dcqtl \in Nat /\ acq.head \in Nat
          /\ Cardinality(executing) \in Nat
      BY RingTypes
    <2>4. dcqtl + Cardinality(executing') <= nfetched + 1 /\ nfetched + 1 <= Len(issued)
      BY <1>3, <2>1, <2>2, <2>3 DEF Counts
    <2> QED  BY <1>1, <2>2, <2>4 DEF Counts
  <1>7. Contents' /\ asqmem[dsqhd] = issued[nfetched + 1]
    BY <1>1, <1>3, RingTypes, HoldsFetch DEF Ring, Contents
  <1>8. Tags'
    BY <1>1 DEF Ring, Tags
  <1> QED  BY <1>3, <1>5, <1>6, <1>7, <1>8 DEF Ring

\* The controller completes a command.
LEMMA CompleteRing ==
    ASSUME CallInv, ModeInv, RingsAgree, Ring, DevComplete
    PROVE  Ring'
  <1>1. /\ UNCHANGED <<asq, acq, asqmem, asqdb, issued, dsqhd, nfetched, pc>>
        /\ dcqtl' = dcqtl + 1 /\ dphase = 1 /\ dcqtl + 1 < M
    BY Completing, RingTypes DEF DevComplete, queueVars, rpcVars
  <1>2. PICK c \in executing :
           /\ executing' = executing \ {c}
           /\ acqmem' = [acqmem EXCEPT ![dcqtl] = [phase |-> dphase, of |-> c.call]]
    BY DEF DevComplete
  <1>3. Positions' /\ Contents'
    <2>1. One(Finishing)' = One(Finishing)
      BY <1>1 DEF One, Finishing
    <2> QED  BY <1>1, <2>1 DEF Ring, Positions, Contents
  <1>4. Counts'
    <2>1. Cardinality(executing') = Cardinality(executing) - 1
      BY <1>2, RingTypes, FS_RemoveElement
    <2>2. Counts
      BY DEF Ring
    <2>3. /\ nfetched \in Nat /\ Len(issued) \in Nat /\ dcqtl \in Nat /\ acq.head \in Nat
          /\ Cardinality(executing) \in Nat
      BY RingTypes
    <2> QED  BY <1>1, <2>1, <2>2, <2>3 DEF Counts
  <1>5. Tags'
    <2> SUFFICES ASSUME NEW i \in AcqSlots PROVE acqmem'[i].phase = One(i < dcqtl + 1)
      BY <1>1 DEF Tags
    <2>1. acqmem \in [AcqSlots -> [phase : Bit, of : 0..MaxCalls]] /\ i \in Nat /\ dcqtl \in Nat
      <3>1. i \in Nat /\ dcqtl \in Nat
        BY RingTypes
      <3> QED  BY <3>1 DEF CallInv, TypeOK, QueueType
    <2>2. CASE i = dcqtl
      BY <1>1, <1>2, <2>1, <2>2 DEF One
    <2>3. CASE i # dcqtl
      <3>1. acqmem'[i] = acqmem[i] /\ acqmem[i].phase = One(i < dcqtl)
        BY <1>2, <2>1, <2>3 DEF Ring, Tags
      <3> QED  BY <2>1, <2>3, <3>1 DEF One
    <2> QED  BY <2>2, <2>3
  <1> QED  BY <1>3, <1>4, <1>5 DEF Ring

\* The controller is configured with empty queues.
LEMMA ConfigureRing ==
    ASSUME CallInv, ModeInv, RingsAgree, ResetConfigure, stale # creates
    PROVE  Ring'
  <1>1. /\ aqpc = "waitoff" /\ ~rdy /\ asqdb' = 0
        /\ UNCHANGED <<asq, acq, asqmem, acqmem, issued, dsqhd, nfetched, pc, dcqtl, executing>>
    BY DEF ResetConfigure, rpcVars, devVars
  <1>2. Off
    BY <1>1 DEF ModeInv, DeviceModes
  <1>3. /\ asq.head = 0 /\ asq.tail = 0 /\ acq.head = 0 /\ acq.phase = 1 /\ Len(issued) = 0
        /\ \A i \in AcqSlots : acqmem[i].phase = 0
    <2>1. /\ asq = nvm_queue_clear(N) /\ acq = nvm_queue_clear(M) /\ issued = <<>>
          /\ \A i \in AcqSlots : acqmem[i].phase = 0
      BY <1>1 DEF ModeInv, Clean
    <2> QED  BY <2>1, Sizes, ClearRing, EmptySequence
  <1>4. ~Finishing'
    BY <1>1 DEF Finishing, CallInv, Calling
  <1>5. Cardinality(executing) = 0
    BY <1>2, FS_EmptySet DEF Off
  <1>6. Counts'
    BY <1>1, <1>2, <1>3, <1>5 DEF Counts, Off
  <1>7. Dist(0, 0, N) = 0
    BY Sizes DEF Dist
  <1>8. Positions'
    BY <1>1, <1>2, <1>3, <1>4, <1>7 DEF Positions, One, Off
  <1>9. Contents'
    <2>1. \A i \in AsqSlots : ~(Dist(0, i, N) < 0)
      BY Sizes, SameSlots, DistRange
    <2> QED  BY <1>1, <1>2, <1>3, <1>7, <2>1 DEF Contents, Holds, Off
  <1>10. Tags'
    <2>1. \A i \in AcqSlots : ~(i < 0)
      BY SameSlots
    <2> QED  BY <1>1, <1>2, <1>3, <2>1 DEF Tags, One, Off
  <1> QED  BY <1>6, <1>8, <1>9, <1>10 DEF Ring

\* execute_command enqueues a command.
LEMMA EnqueueKeepsRing ==
    ASSUME CallInv, ModeInv, RingsAgree, Ring, NEW t \in Threads, ExecuteEnqueue(t),
           Finishing' <=> Finishing
    PROVE  Ring'
  <1>1. /\ UNCHANGED <<acq, acqmem, asqdb, dsqhd, nfetched, dcqtl, executing>>
        /\ pc[t] = "enqueue" /\ ~SqFull(asq) /\ asq' = nvm_sq_enqueue(asq)
        /\ asqmem' = [asqmem EXCEPT ![asq.tail] = call[t]] /\ issued' = Append(issued, call[t])
    BY DEF ExecuteEnqueue, devVars, SqSlot
  <1>2. call[t] \in 1..MaxCalls
    BY <1>1, Sizes DEF CallInv, Calling, TypeOK, RpcType
  <1>3. ~Finishing
    BY <1>1, HolderFinishes DEF Holding
  <1>4. asq'.tail = Advance(asq.tail, N) /\ asq'.head = asq.head
    BY <1>1, RingTypes, EnqueueRing
  <1>5. Len(issued') = Len(issued) + 1
    BY <1>1, <1>2, RingTypes
  <1>6. PICK a, b, d, l : /\ a = Dist(asq.head, asq.tail, N) /\ b = Dist(dsqhd, asq.tail, N)
                          /\ d = Dist(dsqhd, asqdb, N) /\ l = Len(issued)
    OBVIOUS
  <1>7. a \in 0..(N - 1) /\ b \in 0..(N - 1) /\ d \in 0..(N - 1) /\ l \in Nat
    BY <1>6, RingTypes, DistRange
  <1>8. a # N - 1
    BY <1>1, <1>6, RingTypes, RingFull, Sizes DEF RingsAgree
  <1>9. a + acq.head = l /\ b = l - nfetched /\ d <= b
    <2>1. One(Finishing) = 0
      BY <1>3 DEF One
    <2> QED  BY <1>6, <1>7, <2>1, RingTypes DEF Ring, Positions
  <1>10. b # N - 1
    <2>1. /\ acq.head <= dcqtl /\ dcqtl + Cardinality(executing) <= nfetched
          /\ acq.head \in Nat /\ dcqtl \in Nat /\ nfetched \in Nat /\ Cardinality(executing) \in Nat
      BY RingTypes DEF Ring, Counts
    <2>2. N \in Nat
      BY Sizes
    <2> QED  BY <1>7, <1>8, <1>9, <2>1, <2>2
  <1>11. /\ Dist(asq.head, Advance(asq.tail, N), N) = a + 1
         /\ Dist(dsqhd, Advance(asq.tail, N), N) = b + 1
    BY <1>6, <1>8, <1>10, RingTypes, DistAdvanceFar
  <1>12. Positions'
    <2>1. One(Finishing') = 0
      BY <1>3 DEF One
    <2>2. /\ a + 1 + acq.head = l + 1 + 0 /\ b + 1 = l + 1 - nfetched /\ d <= b + 1
      <3>1. acq.head \in Nat /\ nfetched \in Nat /\ N \in Nat
        BY RingTypes
      <3> QED  BY <1>7, <1>9, <3>1
    <2>3. Dist(asq'.head, asq'.tail, N) + acq'.head = Len(issued') + One(Finishing')
      BY <1>1, <1>4, <1>5, <1>6, <1>11, <2>1, <2>2
    <2>4. Dist(dsqhd', asq'.tail, N) = Len(issued') - nfetched'
      <3>1. nfetched \in Nat /\ l \in Nat
        BY <1>7, RingTypes
      <3>2. Len(issued') = l + 1 /\ nfetched' = nfetched
        BY <1>1, <1>5, <1>6
      <3>3. Dist(dsqhd', asq'.tail, N) = b + 1
        BY <1>1, <1>4, <1>11
      <3> QED  BY <2>2, <3>1, <3>2, <3>3
    <2>5. Dist(dsqhd', asqdb', N) <= Dist(dsqhd', asq'.tail, N)
      BY <1>1, <1>4, <1>6, <1>11, <2>2
    <2> QED  BY <2>3, <2>4, <2>5 DEF Positions
  <1>13. Counts'
    <2>1. nfetched <= l + 1
      BY <1>6, <1>7, RingTypes DEF Ring, Counts
    <2> QED  BY <1>1, <1>5, <1>6, <2>1 DEF Ring, Counts
  <1>14. Contents'
    <2>1. Holds(asqmem, issued, dsqhd, asq.tail, nfetched)
      BY DEF Ring, Contents
    <2>2. asqmem \in [AsqSlots -> 0..MaxCalls]
      BY DEF CallInv, TypeOK, QueueType
    <2>3. Holds([asqmem EXCEPT ![asq.tail] = call[t]], Append(issued, call[t]), dsqhd,
                Advance(asq.tail, N), nfetched)
      <3>1. Dist(dsqhd, asq.tail, N) # N - 1 /\ Dist(dsqhd, asq.tail, N) = Len(issued) - nfetched
        BY <1>6, <1>9, <1>10
      <3> QED  BY <1>2, <2>1, <2>2, <3>1, RingTypes, HoldsEnqueue
    <2> QED  BY <1>1, <1>4, <2>3 DEF Contents
  <1>15. Tags'
    BY <1>1 DEF Ring, Tags
  <1> QED  BY <1>12, <1>13, <1>14, <1>15 DEF Ring

\* execute_command rings the doorbell.
LEMMA SubmitKeepsRing ==
    ASSUME CallInv, ModeInv, RingsAgree, Ring, NEW t \in Threads, ExecuteSubmit(t),
           Finishing' <=> Finishing
    PROVE  Ring'
  <1>1. /\ UNCHANGED <<acq, acqmem, asqmem, dsqhd, nfetched, dcqtl, executing, issued>>
        /\ asq' = nvm_sq_submit(asq) /\ (asqdb' = asqdb \/ asqdb' = asq.tail)
    BY DEF ExecuteSubmit, devVars, SqDoorbell
  <1>2. asq'.tail = asq.tail /\ asq'.head = asq.head
    BY <1>1, RingTypes, SubmitRing
  <1>3. Positions'
    <2>1. One(Finishing') = One(Finishing)
      BY DEF One
    <2>2. Dist(dsqhd, asqdb', N) <= Dist(dsqhd, asq.tail, N)
      <3>1. Dist(dsqhd, asq.tail, N) \in 0..(N - 1) /\ N \in Nat
        BY RingTypes, DistRange
      <3> QED  BY <1>1, <3>1 DEF Ring, Positions
    <2> QED  BY <1>1, <1>2, <2>1, <2>2 DEF Ring, Positions
  <1>4. Counts' /\ Contents' /\ Tags'
    BY <1>1, <1>2 DEF Ring, Counts, Contents, Tags
  <1> QED  BY <1>3, <1>4 DEF Ring

\* A poll finds an entry exactly if the controller is ahead of the head.
LEMMA PollRing ==
    ASSUME CallInv, ModeInv, RingsAgree, Ring
    PROVE  nvm_cq_poll(acq, acqmem) <=> acq.head < dcqtl
  <1>1. acq.head \in AcqSlots
    BY RingTypes
  <1>2. acqmem[acq.head].phase = One(acq.head < dcqtl)
    BY <1>1 DEF Ring, Tags
  <1>3. acq.phase = 1
    BY DEF Ring, Counts
  <1> QED  BY <1>2, <1>3 DEF nvm_cq_poll, One

\* execute_command takes a completion.
LEMMA DequeueKeepsRing ==
    ASSUME CallInv, ModeInv, RingsAgree, Ring, NEW t \in Threads, ExecuteDequeue(t), CallInv'
    PROVE  Ring' /\ acq'.head = acq.head + 1 /\ acq.head < dcqtl /\ Finishing' /\ ~Finishing
  <1>1. /\ UNCHANGED <<asq, asqdb, acqmem, asqmem, dsqhd, nfetched, dcqtl, executing, issued>>
        /\ pc[t] = "wait" /\ acq' = nvm_cq_dequeue(acq) /\ nvm_cq_poll(acq, acqmem)
        /\ pc' = [pc EXCEPT ![t] = "finish"]
    BY DEF ExecuteDequeue, devVars
  <1>2. acq.head < dcqtl
    BY <1>1, PollRing
  <1>3. acq'.head = acq.head + 1 /\ acq'.phase = acq.phase
    <2>1. /\ acq'.head = Advance(acq.head, M)
          /\ acq'.phase = IF acq.head + 1 = M THEN 1 - acq.phase ELSE acq.phase
      BY <1>1, RingTypes, TakeRing
    <2>2. acq.head + 1 # M
      BY <1>2, RingTypes
    <2> QED  BY <2>1, <2>2 DEF Advance
  <1>4. ~Finishing
    BY <1>1, HolderFinishes DEF Holding
  <1>5. Finishing'
    <2>1. pc'[t] = "finish"
      BY <1>1 DEF CallInv, TypeOK, RpcType
    <2> QED  BY <2>1 DEF Finishing
  <1>6. Positions'
    <2>1. One(Finishing) = 0 /\ One(Finishing') = 1
      BY <1>4, <1>5 DEF One
    <2>2. Dist(asq.head, asq.tail, N) + (acq.head + 1) = Len(issued) + 1
      <3>1. Dist(asq.head, asq.tail, N) \in 0..(N - 1) /\ N \in Nat
        BY RingTypes, DistRange
      <3>a. acq.head \in Nat /\ Len(issued) \in Nat
        BY RingTypes
      <3>2. Dist(asq.head, asq.tail, N) + acq.head = Len(issued) + 0
        BY <2>1 DEF Ring, Positions
      <3> QED  BY <3>1, <3>a, <3>2
    <2> QED  BY <1>1, <1>3, <2>1, <2>2 DEF Ring, Positions
  <1>7. Counts'
    <2>1. acq.head + 1 <= dcqtl
      BY <1>2, RingTypes
    <2> QED  BY <1>1, <1>3, <2>1 DEF Ring, Counts
  <1>8. Contents' /\ Tags'
    BY <1>1 DEF Ring, Contents, Tags
  <1> QED  BY <1>2, <1>3, <1>4, <1>5, <1>6, <1>7, <1>8 DEF Ring

\* execute_command moves the head of the ASQ after it.
LEMMA FinishKeepsRing ==
    ASSUME CallInv, ModeInv, RingsAgree, Ring, NEW t \in Threads, ExecuteFinish(t), CallInv'
    PROVE  Ring' /\ ~Finishing'
  <1>1. /\ UNCHANGED <<acq, asqdb, acqmem, asqmem, dsqhd, nfetched, dcqtl, executing, issued>>
        /\ pc[t] = "finish" /\ asq' = nvm_sq_update(asq) /\ pc' = [pc EXCEPT ![t] = "unlock"]
    BY DEF ExecuteFinish, Outcome, devVars
  <1>2. asq'.head = Advance(asq.head, N) /\ asq'.tail = asq.tail
    BY <1>1, RingTypes, UpdateRing
  <1>3. Finishing
    BY <1>1 DEF Finishing
  <1>4. ~Finishing'
    <2>1. pc'[t] = "unlock" /\ \A u \in Threads : u # t => pc'[u] = pc[u]
      BY <1>1 DEF CallInv, TypeOK, RpcType
    <2>2. \A u \in Threads : pc[u] = "finish" => u = t
      BY <1>1 DEF CallInv, Held, Holding
    <2> QED  BY <2>1, <2>2 DEF Finishing
  <1>5. Positions'
    <2>1. One(Finishing) = 1 /\ One(Finishing') = 0
      BY <1>3, <1>4 DEF One
    <2>2. PICK a, l : a = Dist(asq.head, asq.tail, N) /\ l = Len(issued)
      OBVIOUS
    <2>3. a \in Nat /\ l \in Nat /\ acq.head \in Nat /\ nfetched \in Nat /\ dcqtl \in Nat
          /\ Cardinality(executing) \in Nat
      <3>1. a \in 0..(N - 1) /\ N \in Nat
        BY <2>2, RingTypes, DistRange
      <3>2. /\ l \in Nat /\ acq.head \in Nat /\ nfetched \in Nat /\ dcqtl \in Nat
            /\ Cardinality(executing) \in Nat
        BY <2>2, RingTypes
      <3> QED  BY <3>1, <3>2
    <2>4. a + acq.head = l + 1
      BY <2>1, <2>2 DEF Ring, Positions
    <2>5. acq.head <= dcqtl /\ dcqtl + Cardinality(executing) <= nfetched /\ nfetched <= l
      BY <2>2 DEF Ring, Counts
    <2>6. a # 0
      BY <2>3, <2>4, <2>5
    <2>7. Dist(Advance(asq.head, N), asq.tail, N) = a - 1
      <3>1. asq.head # asq.tail
        BY <2>2, <2>6, RingTypes, DistZero
      <3> QED  BY <2>2, <3>1, RingTypes, DistAdvanceNear
    <2>8. a - 1 + acq.head = l + 0
      BY <2>3, <2>4
    <2> QED  BY <1>1, <1>2, <2>1, <2>2, <2>7, <2>8 DEF Ring, Positions
  <1>6. Counts' /\ Contents' /\ Tags'
    BY <1>1, <1>2 DEF Ring, Counts, Contents, Tags
  <1> QED  BY <1>4, <1>5, <1>6 DEF Ring

\* The other steps of a call leave the rings alone.
LEMMA CallKeepsRing ==
    ASSUME CallInv, RingInv, CallInv', NEW t \in Threads,
           \/ RpcCall(t) \/ RpcLock(t) \/ RpcUnlock(t) \/ ExecuteFull(t) \/ ExecuteTimeout(t)
    PROVE  RingInv' /\ UNCHANGED ringVars /\ (Finishing' <=> Finishing)
  <1>1. UNCHANGED ringVars
    BY DEF RpcCall, RpcLock, RpcUnlock, ExecuteFull, ExecuteTimeout, ringVars,
        queueVars,
           ctrlVars, devVars
  <1>2. PICK x : x # "finish" /\ pc' = [pc EXCEPT ![t] = x] /\ pc[t] # "finish"
    BY DEF RpcCall, RpcLock, RpcUnlock, ExecuteFull, ExecuteTimeout, Outcome
  <1>3. pc'[t] = x /\ \A u \in Threads : u # t => pc'[u] = pc[u]
    BY <1>2, PcMoves DEF CallInv, TypeOK
  <1>4. Finishing' <=> Finishing
    BY <1>2, <1>3 DEF Finishing
  <1> QED  BY <1>1, <1>4, RingFrame

\* Every step keeps the third layer.
LEMMA RingSteps ==
    ASSUME RingsAgree, CallInv, ModeInv, RingInv, [Next]_vars, CallInv'
    PROVE  RingInv'
  <1>1. CASE Device
    <2>1. UNCHANGED <<owned, creates, pc>>
      BY <1>1 DEF Device, DevFetch, DevComplete, DevDisable, DevEnable, ctrlVars,
          rpcVars
    <2>2. Finishing' <=> Finishing
      BY <2>1 DEF Finishing
    <2>3. SUFFICES ASSUME owned, stale' # creates PROVE Ring'
      BY <2>1 DEF RingInv
    <2>4. stale' = stale
      BY <1>1, <2>3 DEF Device, DevFetch, DevComplete, DevDisable, DevEnable
    <2>5. Ring
      BY <2>3, <2>4 DEF RingInv
    <2>6. CASE DevDisable
      BY <2>3, <2>6 DEF DevDisable, ModeInv, DeviceModes
    <2>7. CASE DevEnable
      <3>1. UNCHANGED ringVars
        BY <2>1, <2>7 DEF DevEnable, ringVars, queueVars, rpcVars
      <3> QED  BY <2>1, <2>2, <2>3, <3>1, RingFrame DEF RingInv, ringVars
    <2> QED  BY <1>1, <2>5, <2>6, <2>7, FetchRing, CompleteRing DEF Device
  <1>2. CASE Owner
    <2>1. CASE CreateAdmin
      BY <2>1 DEF CreateAdmin, RingInv
    <2>2. CASE ResetConfigure
      <3>1. UNCHANGED <<stale, creates>>
        BY <2>2 DEF ResetConfigure, devVars
      <3> QED  BY <2>2, <3>1, ConfigureRing DEF RingInv
    <2>3. CASE ~CreateAdmin /\ ~ResetConfigure
      <3>1. UNCHANGED ringVars /\ pc' = pc
        BY <1>2, <2>3 DEF Owner, ResetDisable, ResetDone, ResetTimeout, nvm_aq_destroy,
                          ringVars, queueVars, rpcVars, devVars
      <3>2. Finishing' <=> Finishing
        BY <3>1 DEF Finishing
      <3> QED  BY <3>1, <3>2, RingFrame
    <2> QED  BY <2>1, <2>2, <2>3
  <1>3. ASSUME NEW t \in Threads, RpcCall(t) \/ RpcLock(t) \/ Execute(t) PROVE RingInv'
    <2>1. UNCHANGED <<owned, stale, creates>>
      BY <1>3, CallsUp DEF ctrlVars, devVars
    <2>2. ASSUME ExecuteEnqueue(t) \/ ExecuteSubmit(t) \/ ExecuteDequeue(t) \/ ExecuteFinish(t),
                 owned, stale # creates
          PROVE  Ring'
      <3>1. Ring
        BY <2>2 DEF RingInv
      <3>2. CASE ExecuteEnqueue(t) \/ ExecuteSubmit(t)
        <4>1. PICK x : x # "finish" /\ pc' = [pc EXCEPT ![t] = x] /\ pc[t] # "finish"
          BY <3>2 DEF ExecuteEnqueue, ExecuteSubmit
        <4>2. pc'[t] = x /\ \A u \in Threads : u # t => pc'[u] = pc[u]
          BY <4>1, PcMoves DEF CallInv, TypeOK
        <4>3. Finishing' <=> Finishing
          BY <4>1, <4>2 DEF Finishing
        <4> QED  BY <3>1, <3>2, <4>3, EnqueueKeepsRing, SubmitKeepsRing
      <3> QED  BY <2>2, <3>1, <3>2, DequeueKeepsRing, FinishKeepsRing
    <2>3. CASE \/ RpcCall(t) \/ RpcLock(t) \/ RpcUnlock(t) \/ ExecuteFull(t) \/ ExecuteTimeout(t)
      BY <2>3, CallKeepsRing
    <2>4. CASE ExecuteEnqueue(t) \/ ExecuteSubmit(t) \/ ExecuteDequeue(t) \/ ExecuteFinish(t)
      BY <2>1, <2>2, <2>4 DEF RingInv
    <2> QED  BY <1>3, <2>3, <2>4 DEF Execute
  <1>4. CASE UNCHANGED vars
    <2>1. UNCHANGED ringVars /\ pc' = pc
      BY <1>4 DEF vars, ringVars, queueVars, rpcVars, ctrlVars, devVars
    <2>2. Finishing' <=> Finishing
      BY <2>1 DEF Finishing
    <2> QED  BY <2>1, <2>2, RingFrame
  <1>5. CASE Idle
    BY <1>4, <1>5 DEF Idle
  <1> QED  BY <1>1, <1>2, <1>3, <1>4, <1>5 DEF Next

-----------------------------------------------------------------------------
(* Calls that are answered in time *)

\* The fourth layer holds initially.
LEMMA PromptInit == Init => PromptInv
  <1> SUFFICES ASSUME Init PROVE PromptInv
    OBVIOUS
  <1>1. stale = 0 /\ AtRest
    BY DEF Init, AtRest, Quiet
  <1>2. Stages
    BY DEF Init, Stages, Stage
  <1>3. OwnResults
    BY DEF Init, OwnResults, Answered
  <1> QED  BY <1>1, <1>2, <1>3 DEF PromptInv

\* The holder of the lock is the only one in execute_command.
LEMMA OneHolder ==
    ASSUME CallInv, NEW t \in Threads, pc[t] \in Holding, NEW u \in Threads, u # t
    PROVE  pc[u] \notin Holding /\ pc[u] \notin InCall
  BY DEF CallInv, Held, Holding, InCall

\* Calls that run while everything is in time use queues the controller has.
LEMMA CallsOwn ==
    ASSUME CallInv, ModeInv, NEW t \in Threads, pc[t] # "idle", ~unreset
    PROVE  owned /\ cfg /\ en /\ aqpc = "up" /\ creates # 0 /\ creates \in Nat
  <1>1. aqpc = "up" /\ CtrlType
    BY DEF CallInv, Calling, TypeOK
  <1>2. owned /\ creates > 0
    BY <1>1 DEF ModeInv, CreateModes
  <1>3. creates \in Nat
    BY <1>1 DEF CtrlType
  <1>4. creates # 0
    BY <1>2, <1>3
  <1> QED  BY <1>1, <1>2, <1>3, <1>4 DEF ModeInv, DeviceModes

\* When all was fetched, the controller's head is at the doorbell.
LEMMA FetchedAll ==
    ASSUME CallInv, ModeInv, RingsAgree, Ring, nfetched = Len(issued)
    PROVE  dsqhd = asqdb
  <1>1. Dist(dsqhd, asq.tail, N) = 0
    BY RingTypes DEF Ring, Positions
  <1>2. Dist(dsqhd, asqdb, N) \in 0..(N - 1) /\ Dist(dsqhd, asqdb, N) <= 0
    BY <1>1, RingTypes, DistRange DEF Ring, Positions
  <1>3. Dist(dsqhd, asqdb, N) = 0
    BY <1>2
  <1> QED  BY <1>3, RingTypes, DistZero

\* What the stages are about.
stageVars == <<pc, call, executing, nfetched, issued, dcqtl, acq, dsqhd, asqdb, acqmem, cplslot>>

\* Nothing the stages are about changes.
LEMMA StageFrame ==
    ASSUME UNCHANGED stageVars
    PROVE  Stages' = Stages
  BY DEF stageVars, Stages, Stage, NotFetched, InExecution, Completed, AllRead

\* When every call is over the stages say nothing.
LEMMA NoStage ==
    ASSUME \A t \in Threads : pc[t] \notin InCall
    PROVE  Stages
  BY DEF Stages, Stage, InCall

\* The controller fetches a command in time.
LEMMA FetchInTime ==
    ASSUME CallInv, ModeInv, RingInv, PromptInv, RingsAgree, InTime, DevFetch
    PROVE  stale' = 0 /\ AtRest' /\ Stages'
  <1>1. stale = 0 /\ AtRest /\ Stages
    BY DEF PromptInv
  <1>2. cfg /\ dsqhd # asqdb
    BY DEF DevFetch, CanFetch
  <1>3. PICK t \in Threads : pc[t] \in InCall
    BY <1>1, <1>2 DEF AtRest, Quiet
  <1>4. UNCHANGED <<pc, call, issued, acq, acqmem, dcqtl, stale>> /\ nfetched' = nfetched + 1
    BY DEF DevFetch, queueVars, rpcVars
  <1>5. pc[t] \in Holding /\ pc[t] # "idle"
    BY <1>3 DEF InCall, Holding
  <1>6. owned /\ stale # creates
    BY <1>1, <1>5, CallsOwn DEF InTime
  <1>7. asqmem[dsqhd] = issued[nfetched + 1] /\ nfetched < Len(issued)
    BY <1>6, FetchRing DEF RingInv
  <1>8. pc[t] = "wait" /\ NotFetched(call[t])
    <2>1. nfetched \in Nat /\ Len(issued) \in Nat
      BY RingTypes
    <2>2. nfetched # Len(issued)
      BY <1>7, <2>1
    <2>3. Stage(t)
      BY <1>1 DEF Stages
    <2> QED  BY <1>2, <1>3, <2>2, <2>3 DEF Stage, InCall, AllRead, InExecution,
        Completed
  <1>9. InExecution(call[t])'
    <2>1. nfetched \in Nat /\ Len(issued) \in Nat /\ nfetched = Len(issued) - 1
      BY <1>8, RingTypes DEF NotFetched
    <2>2. issued[nfetched + 1] = call[t]
      BY <1>8, <2>1 DEF NotFetched
    <2>3. \A c \in executing' : c.call = call[t]
      BY <1>7, <1>8, <2>2 DEF DevFetch, NotFetched
    <2>4. nfetched + 1 = Len(issued) /\ dcqtl = nfetched /\ acq.head = nfetched
      BY <1>8, <2>1 DEF NotFetched
    <2>5. call' = call /\ issued' = issued /\ dcqtl' = dcqtl /\ acq' = acq
      BY <1>4
    <2>6. nfetched' = Len(issued') /\ dcqtl' = nfetched' - 1 /\ acq'.head = nfetched' - 1
      BY <1>4, <2>1, <2>4, <2>5
    <2>7. \A c \in executing' : c.call = call'[t]
      BY <2>3, <2>5
    <2> QED  BY <2>6, <2>7 DEF InExecution
  <1>10. Stages'
    <2> SUFFICES ASSUME NEW u \in Threads PROVE Stage(u)'
      BY DEF Stages
    <2>1. CASE u = t
      BY <1>4, <1>8, <1>9, <2>1 DEF Stage
    <2>2. CASE u # t
      <3>1. pc'[u] \notin InCall
        BY <1>4, <1>5, <2>2, OneHolder
      <3> QED  BY <3>1 DEF Stage, InCall
    <2> QED  BY <2>1, <2>2
  <1>11. AtRest'
    BY <1>3, <1>4 DEF AtRest
  <1> QED  BY <1>1, <1>4, <1>10, <1>11

\* The controller completes a command in time.
LEMMA CompleteInTime ==
    ASSUME CallInv, ModeInv, RingInv, PromptInv, RingsAgree, InTime, DevComplete
    PROVE  stale' = 0 /\ AtRest' /\ Stages'
  <1>1. stale = 0 /\ AtRest /\ Stages
    BY DEF PromptInv
  <1>2. executing # {}
    BY DEF DevComplete, CanComplete
  <1>3. PICK t \in Threads : pc[t] \in InCall
    BY <1>1, <1>2 DEF AtRest, Quiet
  <1>4. UNCHANGED <<pc, call, issued, acq, nfetched>> /\ dcqtl' = dcqtl + 1
    BY Completing DEF DevComplete, queueVars, rpcVars
  <1>5. pc[t] \in Holding /\ pc[t] # "idle"
    BY <1>3 DEF InCall, Holding
  <1>6. owned /\ stale # creates /\ Ring
    BY <1>1, <1>5, CallsOwn DEF InTime, RingInv
  <1>7. pc[t] = "wait" /\ InExecution(call[t])
    <2>1. Stage(t)
      BY <1>1 DEF Stages
    <2> QED  BY <1>2, <1>3, <2>1 DEF Stage, InCall, NotFetched, Completed
  <1>8. PICK c \in executing :
           /\ executing' = executing \ {c}
           /\ acqmem' = [acqmem EXCEPT ![dcqtl] = [phase |-> dphase, of |-> c.call]]
    BY DEF DevComplete
  <1>9. executing' = {}
    <2>1. dcqtl + Cardinality(executing) <= nfetched /\ dcqtl = nfetched - 1
      BY <1>6, <1>7 DEF Ring, Counts, InExecution
    <2>2. /\ dcqtl \in Nat /\ nfetched \in Nat /\ Cardinality(executing) \in Nat
          /\ IsFiniteSet(executing)
      BY RingTypes
    <2>3. /\ Cardinality(executing \ {c}) = Cardinality(executing) - 1
          /\ IsFiniteSet(executing \ {c})
      BY <1>8, <2>2, FS_RemoveElement
    <2>4. Cardinality(executing \ {c}) \in Nat
      BY <2>3, FS_CardinalityType
    <2>5. Cardinality(executing \ {c}) = 0
      BY <2>1, <2>2, <2>3, <2>4
    <2> QED  BY <1>8, <2>3, <2>5, FS_EmptySet
  <1>10. Completed(call[t])'
    <2>1. /\ nfetched = Len(issued) /\ dcqtl = nfetched - 1 /\ acq.head = nfetched - 1
          /\ c.call = call[t]
      BY <1>7, <1>8 DEF InExecution
    <2>2. nfetched \in Nat /\ dcqtl \in AcqSlots
      BY RingTypes
    <2>3. acqmem'[acq.head].of = c.call
      BY <1>8, <2>1, <2>2 DEF CallInv, TypeOK, QueueType
    <2>4. dcqtl + 1 = nfetched
      BY <2>1, <2>2
    <2> QED  BY <1>4, <1>9, <2>1, <2>3, <2>4 DEF Completed
  <1>11. Stages'
    <2> SUFFICES ASSUME NEW u \in Threads PROVE Stage(u)'
      BY DEF Stages
    <2>1. CASE u = t
      BY <1>4, <1>7, <1>10, <2>1 DEF Stage
    <2>2. CASE u # t
      <3>1. pc'[u] \notin InCall
        BY <1>4, <1>5, <2>2, OneHolder
      <3> QED  BY <3>1 DEF Stage, InCall
    <2> QED  BY <2>1, <2>2
  <1>12. AtRest'
    BY <1>3, <1>4 DEF AtRest
  <1>13. stale' = stale
    BY <1>6 DEF DevComplete
  <1> QED  BY <1>1, <1>11, <1>12, <1>13

\* The reset, and steps of the owner.
LEMMA OwnerInTime ==
    ASSUME CallInv, ModeInv, PromptInv, InTime, Owner
    PROVE  stale' = 0 /\ AtRest' /\ Stages'
  <1>1. stale = 0 /\ AtRest /\ Stages
    BY DEF PromptInv
  <1>2. UNCHANGED <<pc, call, executing, nfetched, dcqtl, dsqhd, cplslot, stale>>
    BY DEF Owner, CreateAdmin, ResetDisable, ResetConfigure, ResetDone, ResetTimeout,
           nvm_aq_destroy, rpcVars, devVars
  <1>3. CASE CreateAdmin \/ ResetConfigure
    <2>1. \A t \in Threads : pc[t] \notin InCall
      BY <1>3 DEF CreateAdmin, ResetConfigure, CallInv, Calling, InCall
    <2>2. Stages'
      BY <1>2, <2>1 DEF Stages, Stage, InCall
    <2>3. CASE CreateAdmin
      <3>1. ~owned' /\ UNCHANGED <<cfg, asqdb>>
        BY <2>3 DEF CreateAdmin
      <3>2. Quiet'
        BY <1>1, <1>2, <2>1, <3>1 DEF AtRest, Quiet
      <3> QED  BY <1>1, <1>2, <2>2, <3>1, <3>2 DEF AtRest
    <2>4. CASE ResetConfigure
      <3>1. asqdb' = 0 /\ ~rdy /\ aqpc = "waitoff" /\ UNCHANGED <<issued, acq>>
        BY <2>4 DEF ResetConfigure, rpcVars
      <3>2. Off /\ acq = nvm_queue_clear(M) /\ issued = <<>>
        BY <3>1 DEF ModeInv, DeviceModes, Clean
      <3>3. acq.head = 0 /\ Len(issued) = 0
        BY <3>2, ClearRing, Sizes, EmptySequence
      <3>4. Quiet' /\ AllRead'
        BY <1>2, <3>1, <3>2, <3>3 DEF Quiet, AllRead, Off
      <3> QED  BY <1>1, <1>2, <2>2, <3>4 DEF AtRest
    <2> QED  BY <1>3, <2>3, <2>4
  <1>4. CASE ~CreateAdmin /\ ~ResetConfigure
    <2>1. UNCHANGED <<stageVars, cfg, owned>>
      BY <1>2, <1>4 DEF Owner, ResetDisable, ResetDone, ResetTimeout, nvm_aq_destroy,
                        stageVars, queueVars, rpcVars, devVars
    <2>2. Stages'
      BY <1>1, <2>1, StageFrame
    <2>3. AtRest'
      BY <1>1, <2>1 DEF AtRest, Quiet, AllRead, stageVars
    <2> QED  BY <1>1, <1>2, <2>2, <2>3
  <1> QED  BY <1>3, <1>4

\* Calls that come, wait for the lock, find the queue full or leave.
LEMMA CallInTime ==
    ASSUME CallInv, PromptInv, InTime, NEW t \in Threads,
           RpcCall(t) \/ RpcLock(t) \/ RpcUnlock(t) \/ ExecuteFull(t)
    PROVE  stale' = 0 /\ AtRest' /\ Stages'
  <1>1. stale = 0 /\ AtRest /\ Stages
    BY DEF PromptInv
  <1>2. UNCHANGED <<queueVars, devVars, cfg, owned, issued, cplslot>>
    BY DEF RpcCall, RpcLock, RpcUnlock, ExecuteFull, ctrlVars
  <1>3. PICK x : x \notin InCall /\ pc' = [pc EXCEPT ![t] = x] /\ pc[t] \notin InCall
    BY DEF RpcCall, RpcLock, RpcUnlock, ExecuteFull, Outcome, InCall
  <1>4. pc'[t] = x /\ \A u \in Threads : u # t => pc'[u] = pc[u]
    BY <1>3, PcMoves DEF CallInv, TypeOK
  <1>5. \A u \in Threads : u # t => call'[u] = call[u]
    BY DEF RpcCall, RpcLock, RpcUnlock, ExecuteFull, CallInv, TypeOK, RpcType
  <1>6. UNCHANGED <<executing, nfetched, issued, dcqtl, acq, dsqhd, asqdb, acqmem, cplslot, stale,
                    cfg, owned>>
    BY <1>2 DEF queueVars, devVars
  <1>7. Stages'
    <2> SUFFICES ASSUME NEW u \in Threads PROVE Stage(u)'
      BY DEF Stages
    <2>1. CASE u = t
      BY <1>3, <1>4, <2>1 DEF Stage, InCall
    <2>2. CASE u # t
      <3>1. Stage(u) /\ pc'[u] = pc[u] /\ call'[u] = call[u]
        BY <1>1, <1>4, <1>5, <2>2 DEF Stages
      <3> QED  BY <1>6, <3>1 DEF Stage, NotFetched, InExecution, Completed, AllRead
    <2> QED  BY <2>1, <2>2
  <1>8. AtRest'
    <2>1. (\A u \in Threads : pc'[u] \notin InCall) => \A u \in Threads : pc[u] \notin InCall
      BY <1>3, <1>4
    <2> QED  BY <1>1, <1>6, <2>1 DEF AtRest, Quiet, AllRead
  <1> QED  BY <1>1, <1>6, <1>7, <1>8

\* A call that is being executed, from nvm_sq_enqueue to the copy of its completion.
LEMMA ExecuteInTime ==
    ASSUME CallInv, ModeInv, RingInv, PromptInv, RingsAgree, InTime, NEW t \in Threads, CallInv',
           ExecuteEnqueue(t) \/ ExecuteSubmit(t) \/ ExecuteDequeue(t) \/ ExecuteFinish(t)
    PROVE  /\ stale' = 0 /\ AtRest' /\ Stages'
           /\ ExecuteFinish(t) => acqmem[cplslot].of = call[t]
  <1>1. stale = 0 /\ AtRest /\ Stages /\ Stage(t)
    BY DEF PromptInv, Stages
  <1>2. Executing(t)
    BY DEF Executing
  <1>3. /\ UNCHANGED <<call, executing, nfetched, dcqtl, dsqhd, acqmem, stale, cfg, owned>>
        /\ pc[t] \in Holding /\ pc'[t] \in Holding /\ pc[t] # "idle"
        /\ \A u \in Threads : u # t => pc'[u] = pc[u]
    BY <1>2, ExecutingFrame DEF ctrlVars, devVars, Holding
  <1>4. owned /\ cfg /\ Ring
    BY <1>1, <1>3, CallsOwn DEF InTime, RingInv
  <1>5. nfetched \in Nat /\ Len(issued) \in Nat /\ dcqtl \in Nat /\ acq.head \in Nat
    BY RingTypes
  <1>6. \A u \in Threads : u # t => pc[u] \notin InCall /\ pc'[u] \notin InCall
    BY <1>3, OneHolder
  <1>7. pc \in [Threads -> Pcs]
    BY DEF CallInv, TypeOK, RpcType
  <1>8. Stage(t)' => Stages'
    BY <1>6 DEF Stages, Stage, InCall
  <1>9. CASE ExecuteEnqueue(t)
    <2>1. /\ pc'[t] = "submit" /\ pc[t] \notin InCall /\ UNCHANGED <<acq, asqdb>>
          /\ issued' = Append(issued, call[t])
      BY <1>7, <1>9 DEF ExecuteEnqueue, InCall
    <2>2. executing = {} /\ dsqhd = asqdb /\ AllRead
      BY <1>1, <1>4, <1>6, <2>1 DEF AtRest, Quiet
    <2>3. Len(issued') = Len(issued) + 1 /\ issued'[Len(issued) + 1] = call[t]
      BY <2>1, RingTypes
    <2>4. NotFetched(call[t])'
      BY <1>3, <1>5, <2>1, <2>2, <2>3 DEF NotFetched, AllRead
    <2>5. Stage(t)'
      BY <1>3, <2>1, <2>2, <2>4 DEF Stage
    <2>6. AtRest'
      BY <2>1 DEF AtRest, InCall
    <2>7. ~ExecuteFinish(t)
      BY <1>9 DEF ExecuteEnqueue, ExecuteFinish
    <2> QED  BY <1>1, <1>3, <1>8, <2>5, <2>6, <2>7
  <1>10. CASE ExecuteSubmit(t)
    <2>1. pc[t] = "submit" /\ pc'[t] = "wait" /\ UNCHANGED <<acq, issued>>
      BY <1>7, <1>10 DEF ExecuteSubmit
    <2>2. NotFetched(call[t])
      BY <1>1, <2>1 DEF Stage
    <2>3. NotFetched(call[t])'
      BY <1>3, <2>1, <2>2 DEF NotFetched
    <2>4. Stage(t)'
      BY <2>1, <2>3 DEF Stage
    <2>5. AtRest'
      BY <2>1 DEF AtRest, InCall
    <2>6. ~ExecuteFinish(t)
      BY <1>10 DEF ExecuteSubmit, ExecuteFinish
    <2> QED  BY <1>1, <1>3, <1>8, <2>4, <2>5, <2>6
  <1>11. CASE ExecuteDequeue(t)
    <2>1. pc[t] = "wait" /\ pc'[t] = "finish" /\ UNCHANGED issued /\ cplslot' = acq.head
      BY <1>7, <1>11 DEF ExecuteDequeue
    <2>2. acq.head < dcqtl /\ acq'.head = acq.head + 1
      BY <1>4, <1>11, DequeueKeepsRing
    <2>3. Completed(call[t])
      <3>1. dcqtl # acq.head
        BY <1>5, <2>2
      <3> QED  BY <1>1, <2>1, <3>1 DEF Stage, NotFetched, InExecution
    <2>4. AllRead'
      BY <1>3, <1>5, <2>1, <2>2, <2>3 DEF AllRead, Completed
    <2>5. Stage(t)'
      BY <1>3, <2>1, <2>3, <2>4 DEF Stage, Completed
    <2>6. AtRest'
      BY <2>1 DEF AtRest, InCall
    <2>7. ~ExecuteFinish(t)
      BY <1>11 DEF ExecuteDequeue, ExecuteFinish
    <2> QED  BY <1>1, <1>3, <1>8, <2>5, <2>6, <2>7
  <1>12. CASE ExecuteFinish(t)
    <2>1. pc[t] = "finish" /\ pc'[t] = "unlock" /\ UNCHANGED <<issued, acq, asqdb>>
      BY <1>7, <1>12 DEF ExecuteFinish, Outcome
    <2>2. executing = {} /\ AllRead /\ acqmem[cplslot].of = call[t]
      BY <1>1, <2>1 DEF Stage
    <2>3. dsqhd = asqdb
      BY <1>4, <2>2, FetchedAll DEF AllRead
    <2>4. Stage(t)'
      BY <2>1 DEF Stage
    <2>5. AtRest'
      BY <1>3, <2>1, <2>2, <2>3 DEF AtRest, Quiet, AllRead
    <2> QED  BY <1>1, <1>3, <1>8, <2>2, <2>4, <2>5
  <1> QED  BY <1>9, <1>10, <1>11, <1>12

\* The results of calls, when the one that is written is the caller's own.
LEMMA ResultsInTime ==
    ASSUME CallInv, OwnResults, NEW t \in Threads, Executing(t),
           ExecuteFinish(t) => acqmem[cplslot].of = call[t]
    PROVE  OwnResults'
  <1>1. RpcType
    BY DEF CallInv, TypeOK
  <1> SUFFICES ASSUME NEW k \in 1..MaxCalls, result'[k].err = "ok" PROVE result'[k].of = k
    BY DEF OwnResults, Answered
  <1>2. CASE result'[k] = result[k]
    BY <1>2 DEF OwnResults, Answered
  <1>3. CASE result'[k] # result[k]
    <2>1. PICK e, o : result' = [result EXCEPT ![call[t]] = [err |-> e, of |-> o]]
                      /\ (e = "ok" => o = call[t])
      <3>1. CASE ExecuteFinish(t)
        BY <3>1 DEF ExecuteFinish, Outcome
      <3>2. CASE ExecuteFull(t)
        <4>1. result' = [result EXCEPT ![call[t]] = [err |-> "EAGAIN", of |-> 0]] /\ "EAGAIN" # "ok"
          BY <3>2 DEF ExecuteFull, Outcome
        <4> QED  BY <4>1
      <3>3. CASE ExecuteTimeout(t)
        <4>1. result' = [result EXCEPT ![call[t]] = [err |-> "ETIME", of |-> 0]] /\ "ETIME" # "ok"
          BY <3>3 DEF ExecuteTimeout, Outcome
        <4> QED  BY <4>1
      <3>4. CASE ExecuteEnqueue(t) \/ ExecuteSubmit(t) \/ ExecuteDequeue(t)
        BY <1>3, <3>4 DEF ExecuteEnqueue, ExecuteSubmit, ExecuteDequeue
      <3> QED  BY <3>1, <3>2, <3>3, <3>4 DEF Executing
    <2>2. k = call[t]
      BY <1>1, <1>3, <2>1 DEF RpcType
    <2>3. result'[k] = [err |-> e, of |-> o]
      BY <1>1, <2>1, <2>2 DEF RpcType
    <2> QED  BY <2>1, <2>2, <2>3
  <1> QED  BY <1>2, <1>3

\* Every step keeps the fourth layer.
LEMMA PromptSteps ==
    ASSUME RingsAgree, CallInv, ModeInv, RingInv, PromptInv, [Next]_vars, CallInv'
    PROVE  PromptInv'
  <1> SUFFICES ASSUME InTime' PROVE stale' = 0 /\ AtRest' /\ Stages' /\ OwnResults'
    BY DEF PromptInv
  <1>1. InTime
    <2>1. (timedout => timedout') /\ (unreset => unreset')
      <3>1. CASE Device
        BY <3>1 DEF Device, DevFetch, DevComplete, DevDisable, DevEnable, ctrlVars,
            rpcVars
      <3>2. CASE Owner
        <4>1. timedout' = timedout
          BY <3>2 DEF Owner, CreateAdmin, ResetDisable, ResetConfigure, ResetDone,
                      ResetTimeout, nvm_aq_destroy, rpcVars
        <4>2. unreset => unreset'
          BY <3>2 DEF Owner, CreateAdmin, ResetDisable, ResetConfigure, ResetDone,
                      ResetTimeout, nvm_aq_destroy
        <4> QED  BY <4>1, <4>2
      <3>3. ASSUME NEW t \in Threads, RpcCall(t) \/ RpcLock(t) \/ Execute(t)
            PROVE  (timedout => timedout') /\ (unreset => unreset')
        BY <3>3 DEF RpcCall, RpcLock, Execute, ExecuteFull, ExecuteEnqueue,
            ExecuteSubmit,
                    ExecuteDequeue, ExecuteTimeout, ExecuteFinish, RpcUnlock, ctrlVars
      <3>4. CASE UNCHANGED vars
        BY <3>4 DEF vars, rpcVars, ctrlVars
      <3> QED  BY <3>1, <3>2, <3>3, <3>4 DEF Next, Idle
    <2> QED  BY <2>1 DEF InTime
  <1>2. stale = 0 /\ AtRest /\ Stages /\ OwnResults
    BY <1>1 DEF PromptInv
  <1>3. result' = result => OwnResults'
    BY <1>2 DEF OwnResults, Answered
  <1>4. CASE Device
    <2>1. UNCHANGED <<pc, call, result, cfg, owned, issued, acq, cplslot>>
      BY <1>4 DEF Device, DevFetch, DevComplete, DevDisable, DevEnable, ctrlVars,
          rpcVars, queueVars
    <2>2. CASE DevDisable
      <3>1. \A t \in Threads : pc'[t] \notin InCall
        <4> SUFFICES ASSUME NEW t \in Threads, pc[t] \in InCall PROVE FALSE
          BY <2>1
        <4>1. pc[t] # "idle"
          BY DEF InCall
        <4>2. en
          BY <1>1, <4>1, CallsOwn DEF InTime
        <4> QED  BY <2>2, <4>2 DEF DevDisable
      <3>2. ~owned'
        BY <2>1, <2>2 DEF DevDisable, ModeInv, DeviceModes
      <3>3. AtRest' /\ stale' = stale
        BY <2>2, <3>2 DEF DevDisable, AtRest, Quiet
      <3>4. Stages'
        BY <3>1 DEF Stages, Stage, InCall
      <3> QED  BY <1>2, <1>3, <2>1, <3>3, <3>4
    <2>3. CASE DevEnable
      <3>1. UNCHANGED <<stageVars, stale>>
        BY <2>1, <2>3 DEF DevEnable, stageVars, queueVars
      <3>2. Stages'
        BY <1>2, <3>1, StageFrame
      <3>3. AtRest'
        BY <1>2, <2>1, <3>1 DEF AtRest, Quiet, AllRead, stageVars
      <3> QED  BY <1>2, <1>3, <2>1, <3>1, <3>2, <3>3
    <2> QED  BY <1>1, <1>3, <1>4, <2>1, <2>2, <2>3, FetchInTime, CompleteInTime
        DEF Device
  <1>5. CASE Owner
    <2>1. result' = result
      BY <1>5 DEF Owner, CreateAdmin, ResetDisable, ResetConfigure, ResetDone,
          ResetTimeout,
                  nvm_aq_destroy, rpcVars
    <2> QED  BY <1>1, <1>3, <1>5, <2>1, OwnerInTime
  <1>6. ASSUME NEW t \in Threads, RpcCall(t) \/ RpcLock(t) \/ Execute(t)
        PROVE  stale' = 0 /\ AtRest' /\ Stages' /\ OwnResults'
    <2>1. CASE RpcCall(t) \/ RpcLock(t) \/ RpcUnlock(t)
      <3>1. result' = result
        BY <2>1 DEF RpcCall, RpcLock, RpcUnlock
      <3> QED  BY <1>1, <1>3, <2>1, <3>1, CallInTime
    <2>2. CASE ExecuteFull(t)
      <3>1. Executing(t) /\ ~ExecuteFinish(t)
        BY <2>2 DEF Executing, ExecuteFull, ExecuteFinish
      <3> QED  BY <1>1, <1>2, <2>2, <3>1, CallInTime, ResultsInTime
    <2>3. CASE ExecuteTimeout(t)
      BY <2>3 DEF ExecuteTimeout, InTime
    <2>4. CASE ExecuteEnqueue(t) \/ ExecuteSubmit(t) \/ ExecuteDequeue(t) \/ ExecuteFinish(t)
      <3>1. Executing(t)
        BY <2>4 DEF Executing
      <3> QED  BY <1>1, <1>2, <2>4, <3>1, ExecuteInTime, ResultsInTime
    <2> QED  BY <1>6, <2>1, <2>2, <2>3, <2>4 DEF Execute
  <1>7. CASE UNCHANGED vars
    <2>1. UNCHANGED <<stageVars, stale, result, cfg, owned>>
      BY <1>7 DEF vars, stageVars, queueVars, rpcVars, ctrlVars, devVars
    <2>2. Stages'
      BY <1>2, <2>1, StageFrame
    <2>3. AtRest'
      BY <1>2, <2>1 DEF AtRest, Quiet, AllRead, stageVars
    <2> QED  BY <1>2, <1>3, <2>1, <2>2, <2>3
  <1>8. CASE Idle
    BY <1>7, <1>8 DEF Idle
  <1> QED  BY <1>4, <1>5, <1>6, <1>7, <1>8 DEF Next

-----------------------------------------------------------------------------
(* Where the number of a call is *)

\* The fifth layer holds initially.
LEMMA OnceInit == Init => OnceInv
  <1> SUFFICES ASSUME Init PROVE OnceInv
    OBVIOUS
  <1>1. Len(issued) = 0
    BY EmptySequence DEF Init
  <1>2. Numbered
    BY <1>1 DEF Init, Numbered
  <1>3. Returned
    BY DEF Init, Returned, Answered
  <1>4. ~owned
    BY DEF Init
  <1> QED  BY <1>2, <1>3, <1>4 DEF OnceInv

\* Results are kept, unless the call failed.
ResultsKept == \A k \in 1..MaxCalls : Answered(k)' => Answered(k) /\ result'[k] = result[k]

\* No step makes a command unfetched that was not: Returned is kept where results are.
LEMMA ReturnedFrame ==
    ASSUME Returned, Unfetched' \subseteq Unfetched, ResultsKept
    PROVE  Returned'
  <1>2. ASSUME NEW k \in 1..MaxCalls, Answered(k)' PROVE result'[k].of \notin Unfetched'
    BY <1>2 DEF ResultsKept, Returned
  <1>3. ASSUME NEW j \in 1..MaxCalls, NEW k \in 1..MaxCalls, Answered(j)', Answered(k)', j # k
        PROVE  result'[j].of # result'[k].of
    BY <1>3 DEF ResultsKept, Returned
  <1> QED  BY <1>2, <1>3 DEF Returned

\* So is the rest where completions are neither posted nor taken.
LEMMA PlaceFrame ==
    ASSUME InOnePlace, Unfetched' \subseteq Unfetched, ResultsKept,
           UNCHANGED <<executing, acqmem>>, Posted' = Posted,
           Finishing' => cplslot' = acq'.head - 1
    PROVE  InOnePlace'
  <1>1. ExecutedOnce'
    BY DEF InOnePlace, ExecutedOnce
  <1>2. PostedOnce'
    BY DEF InOnePlace, PostedOnce
  <1>3. NotReturned'
    BY DEF InOnePlace, NotReturned, ResultsKept
  <1> QED  BY <1>1, <1>2, <1>3 DEF InOnePlace

\* Slots of completions that are posted.
LEMMA PostedSlots ==
    ASSUME CallInv, ModeInv, RingsAgree, Ring, Finishing => cplslot = acq.head - 1
    PROVE  /\ Posted \subseteq AcqSlots /\ dcqtl \notin Posted /\ dcqtl \in AcqSlots
           /\ Finishing => cplslot \in Posted
           /\ acq.head <= dcqtl /\ acq.head \in Nat /\ dcqtl \in Nat
  <1>1. acq.head \in Nat /\ dcqtl \in 0..(M - 1) /\ M \in Nat /\ AcqSlots = 0..(M - 1)
    BY RingTypes
  <1>2. acq.head <= dcqtl
    BY DEF Ring, Counts
  <1>3. cplslot \in 0..(M - 1)
    BY <1>1 DEF CallInv, TypeOK, RpcType
  <1>4. CASE Finishing
    BY <1>1, <1>2, <1>3, <1>4 DEF Posted, One
  <1>5. CASE ~Finishing
    BY <1>1, <1>2, <1>5 DEF Posted, One
  <1> QED  BY <1>1, <1>2, <1>4, <1>5

\* What is known to be unfetched.
LEMMA UnfetchedParts ==
    /\ \A p \in (nfetched + 1)..Len(issued) : issued[p] \in Unfetched
    /\ \A t \in Threads : pc[t] \in {"lock", "enqueue"} => call[t] \in Unfetched
    /\ (calls + 1)..MaxCalls \subseteq Unfetched
    /\ \A x \in Unfetched : \/ \E p \in (nfetched + 1)..Len(issued) : x = issued[p]
                            \/ \E t \in Threads : pc[t] \in {"lock", "enqueue"} /\ x = call[t]
                            \/ x \in (calls + 1)..MaxCalls
  BY DEF Unfetched

\* The controller fetches a command: it is in execution, and not unfetched any more.
LEMMA FetchOnce ==
    ASSUME RingsAgree, CallInv, ModeInv, RingInv, stale # creates, Numbered, Returned, DevFetch
    PROVE  Numbered' /\ Returned' /\ (owned /\ InOnePlace => InOnePlace')
  <1>1. /\ UNCHANGED <<pc, call, calls, issued, acq, acqmem, dcqtl, cplslot, result, owned>>
        /\ nfetched' = nfetched + 1 /\ nfetched \in Nat /\ Len(issued) \in Nat
        /\ calls \in 0..MaxCalls
    <2>1. calls \in 0..MaxCalls
      BY DEF CallInv, TypeOK, RpcType
    <2> QED  BY <2>1, RingTypes DEF DevFetch, queueVars, rpcVars, ctrlVars
  <1>2. Numbered'
    BY <1>1 DEF Numbered
  <1>3. Unfetched' \subseteq Unfetched
    <2>1. (nfetched' + 1)..Len(issued) \subseteq (nfetched + 1)..Len(issued)
      BY <1>1
    <2> QED  BY <1>1, <2>1 DEF Unfetched
  <1>4. ResultsKept
    BY <1>1 DEF ResultsKept, Answered
  <1>5. Returned'
    BY <1>3, <1>4, ReturnedFrame
  <1>6. ASSUME owned, InOnePlace PROVE InOnePlace'
    <2>1. asqmem[dsqhd] = issued[nfetched + 1] /\ nfetched < Len(issued)
      BY <1>6, FetchRing DEF RingInv
    <2>2. PICK k, s : k = issued[nfetched + 1] /\ s = [call |-> k, slot |-> dsqhd]
      OBVIOUS
    <2>3. executing' = executing \cup {s} /\ s.call = k
      BY <2>1, <2>2 DEF DevFetch
    <2>4. k \in Unfetched
      <3>1. nfetched + 1 \in (nfetched + 1)..Len(issued)
        BY <1>1, <2>1
      <3> QED  BY <2>2, <3>1, UnfetchedParts
    <2>5. k \notin Unfetched'
      <3>1. nfetched + 1 \in 1..Len(issued) /\ k <= calls /\ k \in Nat
        <4>1. nfetched + 1 \in 1..Len(issued)
          BY <1>1, <2>1
        <4>2. issued[nfetched + 1] \in 1..MaxCalls
          <5>1. issued \in Seq(1..MaxCalls)
            BY RingTypes
          <5> QED  BY <4>1, <5>1, SequenceElement
        <4> QED  BY <2>2, <4>1, <4>2, Sizes DEF Numbered
      <3>2. \A p \in (nfetched' + 1)..Len(issued') : issued'[p] # k
        <4> SUFFICES ASSUME NEW p \in (nfetched' + 1)..Len(issued') PROVE issued[p] # k
          BY <1>1
        <4>1. p \in 1..Len(issued) /\ p # nfetched + 1
          BY <1>1
        <4> QED  BY <2>2, <3>1, <4>1 DEF Numbered
      <3>3. \A t \in Threads : pc'[t] \in {"lock", "enqueue"} => call'[t] # k
        BY <1>1, <2>2, <3>1 DEF Numbered
      <3>4. k \notin (calls' + 1)..MaxCalls
        BY <1>1, <3>1, Sizes
      <3> QED  BY <3>2, <3>3, <3>4 DEF Unfetched
    <2>6. Posted' = Posted /\ (Finishing' => cplslot' = acq'.head - 1)
      <3>1. Finishing' <=> Finishing
        BY <1>1 DEF Finishing
      <3> QED  BY <1>1, <1>6, <3>1 DEF Posted, InOnePlace, One
    <2>7. ExecutedOnce'
      <3> SUFFICES ASSUME NEW c \in executing'
                   PROVE  c.call \notin Unfetched' /\ \A e \in executing' : c # e => c.call # e.call
        BY DEF ExecutedOnce
      <3>1. CASE c \in executing
        <4>1. c.call \notin Unfetched /\ \A e \in executing : c # e => c.call # e.call
          BY <1>6, <3>1 DEF InOnePlace, ExecutedOnce
        <4>2. c.call # k
          BY <2>4, <4>1
        <4> QED  BY <1>3, <2>3, <4>1, <4>2
      <3>2. CASE c = s
        <4>1. \A e \in executing : e.call # k
          BY <1>6, <2>4 DEF InOnePlace, ExecutedOnce
        <4> QED  BY <2>3, <2>5, <3>2, <4>1
      <3> QED  BY <2>3, <3>1, <3>2
    <2>8. PostedOnce'
      <3> SUFFICES ASSUME NEW i \in Posted
                   PROVE  /\ acqmem[i].of \notin Unfetched'
                          /\ \A c \in executing' : c.call # acqmem[i].of
                          /\ \A j \in Posted : i # j => acqmem[i].of # acqmem[j].of
        BY <1>1, <2>6 DEF PostedOnce
      <3>1. /\ acqmem[i].of \notin Unfetched
            /\ \A c \in executing : c.call # acqmem[i].of
            /\ \A j \in Posted : i # j => acqmem[i].of # acqmem[j].of
        BY <1>6 DEF InOnePlace, PostedOnce
      <3>2. k # acqmem[i].of
        BY <2>4, <3>1
      <3> QED  BY <1>3, <2>3, <3>1, <3>2
    <2>9. NotReturned'
      <3> SUFFICES ASSUME NEW j \in 1..MaxCalls, Answered(j)
                   PROVE  /\ \A c \in executing' : c.call # result[j].of
                          /\ \A i \in Posted : acqmem[i].of # result[j].of
        BY <1>1, <2>6 DEF NotReturned, Answered
      <3>1. /\ \A c \in executing : c.call # result[j].of
            /\ \A i \in Posted : acqmem[i].of # result[j].of
        BY <1>6 DEF InOnePlace, NotReturned
      <3>2. k # result[j].of
        BY <2>4 DEF Returned
      <3> QED  BY <2>3, <3>1, <3>2
    <2> QED  BY <2>6, <2>7, <2>8, <2>9 DEF InOnePlace
  <1> QED  BY <1>2, <1>5, <1>6

\* The controller completes a command: it moves from execution to the completion queue.
LEMMA CompleteOnce ==
    ASSUME RingsAgree, CallInv, ModeInv, Ring, Numbered, Returned, InOnePlace, DevComplete
    PROVE  Numbered' /\ Returned' /\ InOnePlace'
  <1>1. /\ UNCHANGED <<pc, call, calls, issued, acq, nfetched, cplslot, result>>
        /\ dcqtl' = dcqtl + 1
    BY Completing DEF DevComplete, queueVars, rpcVars
  <1>2. Unfetched' = Unfetched /\ Numbered' /\ ResultsKept
    <2>1. Unfetched' = Unfetched
      BY <1>1 DEF Unfetched
    <2>2. Numbered'
      BY <1>1 DEF Numbered
    <2> QED  BY <1>1, <2>1, <2>2 DEF ResultsKept, Answered
  <1>3. Returned'
    BY <1>2, ReturnedFrame
  <1>4. PICK c \in executing :
           /\ executing' = executing \ {c}
           /\ acqmem' = [acqmem EXCEPT ![dcqtl] = [phase |-> dphase, of |-> c.call]]
    BY DEF DevComplete
  <1>5. /\ Posted \subseteq AcqSlots /\ dcqtl \notin Posted /\ dcqtl \in AcqSlots
        /\ acq.head <= dcqtl /\ acq.head \in Nat /\ dcqtl \in Nat
    BY PostedSlots DEF InOnePlace
  <1>6. acqmem'[dcqtl].of = c.call /\ \A i \in Posted : acqmem'[i] = acqmem[i]
    BY <1>4, <1>5 DEF CallInv, TypeOK, QueueType
  <1>7. Posted' = Posted \cup {dcqtl} /\ (Finishing' => cplslot' = acq'.head - 1)
    <2>1. Finishing' <=> Finishing
      BY <1>1 DEF Finishing
    <2>2. PICK o : o = One(Finishing) /\ o \in {0, 1}
      BY DEF One
    <2>3. Posted = (acq.head - o)..(dcqtl - 1) /\ Posted' = (acq.head - o)..dcqtl
      <3>1. One(Finishing') = o /\ dcqtl' - 1 = dcqtl /\ acq'.head = acq.head
        BY <1>1, <1>5, <2>1, <2>2 DEF One
      <3>2. Posted = (acq.head - o)..(dcqtl - 1)
        BY <2>2 DEF Posted
      <3> QED  BY <3>1, <3>2 DEF Posted
    <2>4. Posted' = Posted \cup {dcqtl}
      BY <1>5, <2>2, <2>3
    <2> QED  BY <1>1, <2>1, <2>4 DEF InOnePlace
  <1>8. /\ c.call \notin Unfetched /\ \A e \in executing : c # e => c.call # e.call
        /\ ExecutedOnce /\ PostedOnce /\ NotReturned
    BY <1>4 DEF InOnePlace, ExecutedOnce
  <1>9. ExecutedOnce'
    BY <1>2, <1>4, <1>8 DEF ExecutedOnce
  <1>10. PostedOnce'
    <2> SUFFICES ASSUME NEW i \in Posted'
                 PROVE  /\ acqmem'[i].of \notin Unfetched
                        /\ \A e \in executing' : e.call # acqmem'[i].of
                        /\ \A j \in Posted' : i # j => acqmem'[i].of # acqmem'[j].of
      BY <1>2 DEF PostedOnce
    <2>1. CASE i \in Posted
      <3>1. acqmem'[i] = acqmem[i] /\ acqmem[i].of # c.call
        BY <1>4, <1>6, <1>8, <2>1 DEF PostedOnce
      <3>2. acqmem[i].of \notin Unfetched /\ \A e \in executing : e.call # acqmem[i].of
        BY <1>8, <2>1 DEF PostedOnce
      <3>3. ASSUME NEW j \in Posted', i # j PROVE acqmem'[i].of # acqmem'[j].of
        BY <1>6, <1>7, <1>8, <2>1, <3>1, <3>3 DEF PostedOnce
      <3> QED  BY <1>4, <3>1, <3>2, <3>3
    <2>2. CASE i = dcqtl
      <3>1. acqmem'[i].of = c.call
        BY <1>6, <2>2
      <3>2. ASSUME NEW j \in Posted', i # j PROVE c.call # acqmem'[j].of
        <4>1. j \in Posted
          BY <1>7, <2>2, <3>2
        <4> QED  BY <1>4, <1>6, <1>8, <4>1 DEF PostedOnce
      <3> QED  BY <1>4, <1>8, <3>1, <3>2
    <2> QED  BY <1>7, <2>1, <2>2
  <1>11. NotReturned'
    <2> SUFFICES ASSUME NEW k \in 1..MaxCalls, Answered(k)
                 PROVE  /\ \A e \in executing' : e.call # result[k].of
                        /\ \A i \in Posted' : acqmem'[i].of # result[k].of
      BY <1>1 DEF NotReturned, Answered
    <2>1. /\ \A e \in executing : e.call # result[k].of
          /\ \A i \in Posted : acqmem[i].of # result[k].of
      BY <1>8 DEF NotReturned
    <2>2. ASSUME NEW i \in Posted' PROVE acqmem'[i].of # result[k].of
      <3>1. CASE i \in Posted
        BY <1>6, <2>1, <3>1
      <3>2. CASE i = dcqtl
        BY <1>4, <1>6, <2>1, <3>2
      <3> QED  BY <1>7, <3>1, <3>2
    <2> QED  BY <1>4, <2>1, <2>2
  <1> QED  BY <1>2, <1>3, <1>7, <1>9, <1>10, <1>11 DEF InOnePlace

\* A call takes the next number, waits for the lock, finds the queue full or leaves.
LEMMA CallOnce ==
    ASSUME CallInv, CallInv', Numbered, NEW t \in Threads,
           RpcCall(t) \/ RpcLock(t) \/ RpcUnlock(t) \/ ExecuteFull(t) \/ ExecuteTimeout(t)
           \/ ExecuteSubmit(t) \/ ExecuteDequeue(t) \/ ExecuteFinish(t)
    PROVE  Numbered' /\ Unfetched' \subseteq Unfetched
  <1>1. RpcType /\ Calling /\ calls \in Nat /\ MaxCalls \in Nat
    BY Sizes DEF CallInv, TypeOK, RpcType
  <1>2. UNCHANGED <<issued, nfetched>>
    BY DEF RpcCall, RpcLock, RpcUnlock, ExecuteFull, ExecuteTimeout, ExecuteSubmit,
           ExecuteDequeue, ExecuteFinish, devVars
  <1>3. PICK x : /\ pc' = [pc EXCEPT ![t] = x]
                 /\ x \in {"lock", "enqueue"} => RpcCall(t) \/ RpcLock(t)
    BY DEF RpcCall, RpcLock, RpcUnlock, ExecuteFull, ExecuteTimeout, ExecuteSubmit,
           ExecuteDequeue, ExecuteFinish, Outcome
  <1>4. pc'[t] = x /\ \A u \in Threads : u # t => pc'[u] = pc[u]
    BY <1>1, <1>3, PcMoves
  <1>5. CASE RpcCall(t)
    <2>1. /\ calls' = calls + 1 /\ calls + 1 <= MaxCalls /\ call' = [call EXCEPT ![t] = calls + 1]
          /\ pc'[t] = "lock" /\ pc[t] = "idle"
      BY <1>1, <1>5 DEF RpcCall, RpcType
    <2>2. call'[t] = calls + 1 /\ \A u \in Threads : u # t => call'[u] = call[u]
      BY <1>1, <2>1 DEF RpcType
    <2>3. \A p \in 1..Len(issued) : issued[p] <= calls /\ issued[p] \in Nat
      <3>1. issued \in Seq(1..MaxCalls)
        BY <1>1 DEF RpcType
      <3>2. \A p \in 1..Len(issued) : issued[p] \in 1..MaxCalls
        BY <3>1, SequenceElement
      <3> QED  BY <3>2 DEF Numbered
    <2>4. \A u \in Threads : pc[u] # "idle" => call[u] <= calls /\ call[u] \in Nat
      BY <1>1 DEF Calling
    <2>5. Numbered'
      <3>1. \A p \in 1..Len(issued) : issued[p] <= calls + 1 /\ issued[p] # calls + 1
        BY <1>1, <2>3
      <3>2. \A u \in Threads : pc[u] # "idle" => call[u] # calls + 1
        BY <1>1, <2>4
      <3>3. ASSUME NEW v \in Threads, pc'[v] \in {"lock", "enqueue"}
            PROVE  /\ \A p \in 1..Len(issued) : issued[p] # call'[v]
                   /\ \A u \in Threads : u # v /\ pc'[u] # "idle" => call'[u] # call'[v]
        <4>1. CASE v = t
          BY <1>4, <2>2, <3>1, <3>2, <4>1
        <4>2. CASE v # t
          <5>1. pc[v] \in {"lock", "enqueue"} /\ call'[v] = call[v] /\ pc[v] # "idle"
            BY <1>4, <2>2, <3>3, <4>2
          <5> QED  BY <1>4, <2>2, <3>2, <5>1 DEF Numbered
        <4> QED  BY <4>1, <4>2
      <3>4. /\ \A p, q \in 1..Len(issued) : p # q => issued[p] # issued[q]
            /\ issued' = issued
        BY <1>2 DEF Numbered
      <3> QED  BY <2>1, <3>1, <3>3, <3>4 DEF Numbered
    <2>6. Unfetched' \subseteq Unfetched
      <3> SUFFICES ASSUME NEW k \in Unfetched' PROVE k \in Unfetched
        OBVIOUS
      <3>1. CASE \E p \in (nfetched' + 1)..Len(issued') : k = issued'[p]
        BY <1>2, <3>1, UnfetchedParts
      <3>2. CASE \E u \in Threads : pc'[u] \in {"lock", "enqueue"} /\ k = call'[u]
        <4>1. PICK u \in Threads : pc'[u] \in {"lock", "enqueue"} /\ k = call'[u]
          BY <3>2
        <4>2. calls + 1 \in (calls + 1)..MaxCalls
          BY <1>1, <2>1
        <4> QED  BY <1>4, <2>2, <4>1, <4>2, UnfetchedParts
      <3>3. CASE k \in (calls' + 1)..MaxCalls
        <4>1. k \in (calls + 1)..MaxCalls
          BY <1>1, <2>1, <3>3
        <4> QED  BY <4>1, UnfetchedParts
      <3> QED  BY <3>1, <3>2, <3>3 DEF Unfetched
    <2> QED  BY <2>5, <2>6
  <1>6. CASE ~RpcCall(t)
    <2>1. UNCHANGED <<call, calls>> /\ pc[t] # "idle"
      BY <1>6 DEF RpcLock, RpcUnlock, ExecuteFull, ExecuteTimeout, ExecuteSubmit,
                  ExecuteDequeue, ExecuteFinish
    <2>2. \A u \in Threads : pc'[u] \in {"lock", "enqueue"} => pc[u] \in {"lock", "enqueue"}
      <3>1. x \in {"lock", "enqueue"} => pc[t] = "lock"
        BY <1>3, <1>6 DEF RpcLock
      <3> QED  BY <1>4, <3>1
    <2>3. \A u \in Threads : pc'[u] # "idle" => pc[u] # "idle"
      BY <1>4, <2>1
    <2>4. Numbered'
      BY <1>2, <2>1, <2>2, <2>3 DEF Numbered
    <2>5. Unfetched' \subseteq Unfetched
      BY <1>2, <2>1, <2>2 DEF Unfetched
    <2> QED  BY <2>4, <2>5
  <1> QED  BY <1>5, <1>6

\* A command is enqueued under the number of its call.
LEMMA EnqueueOnce ==
    ASSUME CallInv, Numbered, NEW t \in Threads, ExecuteEnqueue(t)
    PROVE  Numbered' /\ Unfetched' \subseteq Unfetched
  <1>1. RpcType /\ Calling
    BY DEF CallInv, TypeOK
  <1>2. /\ UNCHANGED <<nfetched, call, calls>> /\ issued' = Append(issued, call[t])
        /\ pc[t] = "enqueue" /\ pc' = [pc EXCEPT ![t] = "submit"]
    BY DEF ExecuteEnqueue, devVars
  <1>3. pc'[t] = "submit" /\ \A u \in Threads : u # t => pc'[u] = pc[u]
    BY <1>1, <1>2, PcMoves
  <1>4. issued \in Seq(1..MaxCalls) /\ Len(issued) \in Nat /\ call[t] \in 1..calls /\ calls \in Nat
    BY <1>1, <1>2 DEF RpcType, Calling
  <1>5. PICK l, k : l = Len(issued) /\ k = call[t]
    OBVIOUS
  <1>6. /\ Len(issued') = l + 1 /\ issued'[l + 1] = k /\ \A p \in 1..l : issued'[p] = issued[p]
        /\ l \in Nat
    BY <1>2, <1>4, <1>5
  <1>7. /\ \A p, q \in 1..l : p # q => issued[p] # issued[q]
        /\ \A p \in 1..l : issued[p] <= calls /\ issued[p] # k
        /\ \A u \in Threads : u # t /\ pc[u] # "idle" => call[u] # k
    BY <1>2, <1>5 DEF Numbered
  <1>8. \A p \in 1..(l + 1) : p \in 1..l \/ p = l + 1
    BY <1>6
  <1>9. Numbered'
    <2>1. ASSUME NEW p \in 1..(l + 1), NEW q \in 1..(l + 1), p # q PROVE issued'[p] # issued'[q]
      BY <1>6, <1>7, <1>8, <2>1
    <2>2. ASSUME NEW p \in 1..(l + 1) PROVE issued'[p] <= calls
      BY <1>4, <1>5, <1>6, <1>7, <1>8
    <2>3. ASSUME NEW v \in Threads, pc'[v] \in {"lock", "enqueue"}
          PROVE  /\ \A p \in 1..(l + 1) : issued'[p] # call[v]
                 /\ \A u \in Threads : u # v /\ pc'[u] # "idle" => call[u] # call[v]
      <3>1. v # t /\ pc[v] \in {"lock", "enqueue"} /\ pc[v] # "idle"
        BY <1>3, <2>3
      <3>2. call[v] # k /\ (\A p \in 1..l : issued[p] # call[v])
        BY <1>5, <1>7, <3>1 DEF Numbered
      <3>3. \A u \in Threads : u # v /\ pc[u] # "idle" => call[u] # call[v]
        BY <3>1 DEF Numbered
      <3>4. \A u \in Threads : pc'[u] # "idle" => pc[u] # "idle"
        BY <1>2, <1>3
      <3> QED  BY <1>6, <1>8, <3>2, <3>3, <3>4
    <2> QED  BY <1>2, <1>6, <2>1, <2>2, <2>3 DEF Numbered
  <1>10. Unfetched' \subseteq Unfetched
    <2> SUFFICES ASSUME NEW x \in Unfetched' PROVE x \in Unfetched
      OBVIOUS
    <2>1. CASE \E p \in (nfetched' + 1)..Len(issued') : x = issued'[p]
      <3>1. PICK p \in (nfetched + 1)..(l + 1) : x = issued'[p]
        BY <1>2, <1>6, <2>1
      <3>2. CASE p = l + 1
        BY <1>2, <1>5, <1>6, <3>1, <3>2, UnfetchedParts
      <3>3. CASE p # l + 1
        <4>1. nfetched \in Nat
          BY DEF CallInv, TypeOK, DevType
        <4>2. p \in (nfetched + 1)..l /\ p \in 1..l
          BY <1>6, <3>3, <4>1
        <4> QED  BY <1>5, <1>6, <3>1, <4>2, UnfetchedParts
      <3> QED  BY <3>2, <3>3
    <2>2. CASE \E u \in Threads : pc'[u] \in {"lock", "enqueue"} /\ x = call'[u]
      <3>1. \A u \in Threads : pc'[u] \in {"lock", "enqueue"} => pc[u] \in {"lock", "enqueue"}
        BY <1>3
      <3> QED  BY <1>2, <2>2, <3>1, UnfetchedParts
    <2>3. CASE x \in (calls' + 1)..MaxCalls
      BY <1>2, <2>3, UnfetchedParts
    <2> QED  BY <2>1, <2>2, <2>3 DEF Unfetched
  <1> QED  BY <1>9, <1>10

\* The completion taken is copied to the caller: it moves from the queue to a result.
LEMMA FinishOnce ==
    ASSUME RingsAgree, CallInv, ModeInv, Ring, Returned, InOnePlace, NEW t \in Threads,
           ExecuteFinish(t), ~Finishing', Unfetched' \subseteq Unfetched
    PROVE  Returned' /\ InOnePlace'
  <1>1. /\ UNCHANGED <<executing, acqmem, acq, dcqtl>> /\ pc[t] = "finish"
        /\ result' = [result EXCEPT ![call[t]] = [err |-> "ok", of |-> acqmem[cplslot].of]]
    BY DEF ExecuteFinish, Outcome, devVars
  <1>2. Finishing /\ cplslot = acq.head - 1
    BY <1>1 DEF Finishing, InOnePlace
  <1>3. /\ cplslot \in Posted /\ acq.head <= dcqtl /\ acq.head \in Nat /\ dcqtl \in Nat
    BY <1>2, PostedSlots
  <1>4. Posted' = Posted \ {cplslot}
    <2>1. One(Finishing) = 1 /\ One(Finishing') = 0
      BY <1>2 DEF One
    <2>2. Posted = (acq.head - 1)..(dcqtl - 1)
      BY <2>1 DEF Posted
    <2>3. Posted' = (acq.head - 0)..(dcqtl - 1)
      BY <1>1, <2>1 DEF Posted
    <2> QED  BY <1>2, <1>3, <2>2, <2>3
  <1>5. PICK o : o = acqmem[cplslot].of
    OBVIOUS
  <1>6. /\ o \notin Unfetched /\ \A c \in executing : c.call # o
        /\ \A j \in Posted : j # cplslot => acqmem[j].of # o
        /\ \A k \in 1..MaxCalls : Answered(k) => result[k].of # o
    <2>1. PostedOnce /\ NotReturned
      BY DEF InOnePlace
    <2>2. o \notin Unfetched /\ \A c \in executing : c.call # o
      BY <1>3, <1>5, <2>1 DEF PostedOnce
    <2>3. \A j \in Posted : j # cplslot => acqmem[j].of # o
      BY <1>3, <1>5, <2>1 DEF PostedOnce
    <2>4. \A k \in 1..MaxCalls : Answered(k) => result[k].of # o
      BY <1>3, <1>5, <2>1 DEF NotReturned
    <2> QED  BY <2>2, <2>3, <2>4
  <1>7. ASSUME NEW k \in 1..MaxCalls, Answered(k)'
        PROVE  \/ k = call[t] /\ result'[k].of = o
               \/ k # call[t] /\ Answered(k) /\ result'[k] = result[k]
    <2>1. result \in [1..MaxCalls -> [err : Errs, of : 0..MaxCalls]]
      BY DEF CallInv, TypeOK, RpcType
    <2>2. CASE k = call[t]
      BY <1>1, <1>5, <2>1, <2>2
    <2>3. CASE k # call[t]
      <3>1. result'[k] = result[k]
        BY <1>1, <2>1, <2>3
      <3> QED  BY <1>7, <2>3, <3>1 DEF Answered
    <2> QED  BY <2>2, <2>3
  <1>8. Returned'
    <2>1. ASSUME NEW k \in 1..MaxCalls, Answered(k)' PROVE result'[k].of \notin Unfetched'
      BY <1>6, <1>7, <2>1 DEF Returned
    <2>2. ASSUME NEW j \in 1..MaxCalls, NEW k \in 1..MaxCalls, Answered(j)', Answered(k)', j # k
          PROVE  result'[j].of # result'[k].of
      <3>1. CASE j = call[t]
        BY <1>6, <1>7, <2>2, <3>1
      <3>2. CASE k = call[t]
        BY <1>6, <1>7, <2>2, <3>2
      <3>3. CASE j # call[t] /\ k # call[t]
        BY <1>7, <2>2, <3>3 DEF Returned
      <3> QED  BY <3>1, <3>2, <3>3
    <2> QED  BY <2>1, <2>2 DEF Returned
  <1>9. ExecutedOnce'
    BY <1>1 DEF InOnePlace, ExecutedOnce
  <1>10. PostedOnce'
    BY <1>1, <1>4 DEF InOnePlace, PostedOnce
  <1>11. NotReturned'
    <2> SUFFICES ASSUME NEW k \in 1..MaxCalls, Answered(k)'
                 PROVE  /\ \A c \in executing : c.call # result'[k].of
                        /\ \A i \in Posted' : acqmem[i].of # result'[k].of
      BY <1>1 DEF NotReturned
    <2>1. CASE k = call[t] /\ result'[k].of = o
      BY <1>4, <1>6, <2>1
    <2>2. CASE Answered(k) /\ result'[k] = result[k]
      BY <1>4, <2>2 DEF InOnePlace, NotReturned
    <2> QED  BY <1>7, <2>1, <2>2
  <1> QED  BY <1>9, <1>10, <1>11, <1>8 DEF InOnePlace

\* Results stay as they are, but for calls that fail.
LEMMA FailuresKeepResults ==
    ASSUME CallInv, NEW t \in Threads,
           RpcCall(t) \/ RpcLock(t) \/ RpcUnlock(t) \/ ExecuteFull(t) \/ ExecuteTimeout(t)
           \/ ExecuteSubmit(t) \/ ExecuteDequeue(t) \/ ExecuteEnqueue(t)
    PROVE  ResultsKept
  <1>1. result \in [1..MaxCalls -> [err : Errs, of : 0..MaxCalls]]
    BY DEF CallInv, TypeOK, RpcType
  <1> SUFFICES ASSUME NEW k \in 1..MaxCalls, result'[k].err = "ok" PROVE result'[k] = result[k]
    BY DEF ResultsKept, Answered
  <1>2. CASE ExecuteFull(t) \/ ExecuteTimeout(t)
    <2>1. PICK e : e # "ok" /\ result' = [result EXCEPT ![call[t]] = [err |-> e, of |-> 0]]
      BY <1>2 DEF ExecuteFull, ExecuteTimeout, Outcome
    <2>2. CASE k = call[t]
      <3>1. result'[k] = [err |-> e, of |-> 0]
        BY <1>1, <2>1, <2>2
      <3>2. result'[k].err = e
        BY <3>1
      <3> QED  BY <2>1, <3>2
    <2>3. CASE k # call[t]
      BY <1>1, <2>1, <2>3
    <2> QED  BY <2>2, <2>3
  <1>3. CASE ~ExecuteFull(t) /\ ~ExecuteTimeout(t)
    BY <1>3 DEF RpcCall, RpcLock, RpcUnlock, ExecuteSubmit, ExecuteDequeue,
        ExecuteEnqueue
  <1> QED  BY <1>2, <1>3

\* The steps of a call keep the fifth layer.
LEMMA CallsKeepOnce ==
    ASSUME RingsAgree, CallInv, ModeInv, RingInv, stale # creates, CallInv',
           Numbered, Returned, owned => InOnePlace, ~unreset,
           NEW t \in Threads, RpcCall(t) \/ RpcLock(t) \/ Execute(t)
    PROVE  Numbered' /\ Returned' /\ InOnePlace'
  <1>1. UNCHANGED <<executing, acqmem, dcqtl, owned>> /\ aqpc = "up"
    BY CallsUp DEF ctrlVars, devVars
  <1>2. owned /\ Ring /\ InOnePlace
    BY <1>1 DEF ModeInv, CreateModes, RingInv
  <1>3. Numbered' /\ Unfetched' \subseteq Unfetched
    BY CallOnce, EnqueueOnce DEF Execute
  <1>4. CASE ExecuteFinish(t)
    BY <1>2, <1>3, <1>4, FinishKeepsRing, FinishOnce
  <1>5. CASE ~ExecuteFinish(t)
    <2>1. ResultsKept
      BY <1>5, FailuresKeepResults DEF Execute
    <2>2. Returned'
      BY <1>3, <2>1, ReturnedFrame
    <2>3. Posted' = Posted /\ (Finishing' => cplslot' = acq'.head - 1)
      <3>1. CASE ExecuteDequeue(t)
        <4>1. acq'.head = acq.head + 1 /\ Finishing' /\ ~Finishing /\ cplslot' = acq.head
          BY <1>2, <3>1, DequeueKeepsRing DEF ExecuteDequeue
        <4>2. acq.head \in Nat
          BY RingTypes
        <4>3. One(Finishing) = 0 /\ One(Finishing') = 1
          BY <4>1 DEF One
        <4>4. acq'.head - 1 = acq.head - 0
          BY <4>1, <4>2
        <4>5. Posted = (acq.head - 0)..(dcqtl - 1)
          BY <4>3 DEF Posted
        <4>6. Posted' = (acq'.head - 1)..(dcqtl' - 1)
          BY <4>3 DEF Posted
        <4>7. Posted' = Posted
          BY <1>1, <4>4, <4>5, <4>6
        <4>8. cplslot' = acq'.head - 1
          BY <4>1, <4>2
        <4> QED  BY <4>7, <4>8
      <3>2. CASE ~ExecuteDequeue(t)
        <4>1. UNCHANGED <<acq, cplslot>>
          BY <1>5, <3>2 DEF RpcCall, RpcLock, Execute, RpcUnlock, ExecuteFull,
              ExecuteTimeout,
                            ExecuteSubmit, ExecuteEnqueue, queueVars
        <4>2. PICK x : x # "finish" /\ pc' = [pc EXCEPT ![t] = x] /\ pc[t] # "finish"
          BY <1>5, <3>2 DEF RpcCall, RpcLock, Execute, RpcUnlock, ExecuteFull,
              ExecuteTimeout,
                            ExecuteSubmit, ExecuteEnqueue, Outcome
        <4>3. pc'[t] = x /\ \A u \in Threads : u # t => pc'[u] = pc[u]
          BY <4>2, PcMoves DEF CallInv, TypeOK
        <4>4. Finishing' <=> Finishing
          BY <4>2, <4>3 DEF Finishing
        <4>5. One(Finishing') = One(Finishing)
          BY <4>4 DEF One
        <4> QED  BY <1>1, <1>2, <4>1, <4>4, <4>5 DEF Posted, InOnePlace
      <3> QED  BY <3>1, <3>2
    <2>4. InOnePlace'
      BY <1>1, <1>2, <1>3, <2>1, <2>3, PlaceFrame
    <2> QED  BY <1>3, <2>2, <2>4
  <1> QED  BY <1>4, <1>5

\* Creation, reset and destruction keep it, too.
LEMMA OwnerKeepsOnce ==
    ASSUME CallInv, ModeInv, Numbered, Returned, owned => InOnePlace, ~unreset', Owner
    PROVE  Numbered' /\ Returned' /\ (owned' => InOnePlace')
  <1>1. UNCHANGED <<pc, call, calls, result, nfetched, executing, dcqtl, cplslot>>
    BY DEF Owner, CreateAdmin, ResetDisable, ResetConfigure, ResetDone, ResetTimeout,
           nvm_aq_destroy, rpcVars, devVars
  <1>2. ResultsKept
    BY <1>1 DEF ResultsKept, Answered
  <1>3. CASE CreateAdmin
    <2>1. issued' = <<>> /\ ~owned'
      BY <1>3 DEF CreateAdmin
    <2>2. Len(issued') = 0 /\ nfetched \in Nat
      BY <2>1, EmptySequence DEF CallInv, TypeOK, DevType
    <2>3. Unfetched' \subseteq Unfetched
      <3>1. \A p \in (nfetched' + 1)..Len(issued') : FALSE
        BY <1>1, <2>2
      <3> QED  BY <1>1, <3>1 DEF Unfetched
    <2>4. Numbered'
      <3>1. \A p \in 1..Len(issued') : FALSE
        BY <2>2
      <3> QED  BY <1>1, <3>1 DEF Numbered
    <2> QED  BY <1>2, <2>1, <2>3, <2>4, ReturnedFrame
  <1>4. CASE ~CreateAdmin
    <2>1. UNCHANGED <<issued, acq, acqmem>>
      BY <1>4 DEF Owner, ResetDisable, ResetConfigure, ResetDone, ResetTimeout,
                  nvm_aq_destroy, rpcVars, queueVars, devVars
    <2>2. Unfetched' = Unfetched
      BY <1>1, <2>1 DEF Unfetched
    <2>3. Numbered'
      BY <1>1, <2>1 DEF Numbered
    <2>4. Returned'
      BY <1>2, <2>2, ReturnedFrame
    <2>5. Finishing' <=> Finishing
      BY <1>1 DEF Finishing
    <2>6. CASE ResetConfigure
      <3>1. ~rdy /\ aqpc = "waitoff"
        BY <2>6 DEF ResetConfigure
      <3>2. executing = {} /\ dcqtl = 0 /\ acq = nvm_queue_clear(M) /\ ~Finishing
        BY <3>1 DEF ModeInv, DeviceModes, Off, Clean, CallInv, Calling, Finishing
      <3>3. acq.head = 0
        BY <3>2, ClearRing, Sizes
      <3>4. Posted' = {}
        <4>1. One(Finishing') = 0 /\ acq'.head = 0 /\ dcqtl' = 0
          BY <1>1, <2>1, <2>5, <3>2, <3>3 DEF One
        <4> QED  BY <4>1 DEF Posted
      <3>5. InOnePlace'
        BY <1>1, <2>5, <3>2, <3>4 DEF InOnePlace, ExecutedOnce, PostedOnce, NotReturned
      <3> QED  BY <2>3, <2>4, <3>5
    <2>7. CASE ~ResetConfigure
      <3>1. owned' = owned
        BY <1>4, <2>7 DEF Owner, ResetDisable, ResetDone, ResetTimeout, nvm_aq_destroy
      <3>2. Posted' = Posted
        <4>1. One(Finishing') = One(Finishing)
          BY <2>5 DEF One
        <4> QED  BY <1>1, <2>1, <4>1 DEF Posted
      <3>3. InOnePlace => InOnePlace'
        <4>1. InOnePlace => (Finishing' => cplslot' = acq'.head - 1)
          BY <1>1, <2>1, <2>5 DEF InOnePlace
        <4> QED  BY <1>1, <1>2, <2>1, <2>2, <3>2, <4>1, PlaceFrame
      <3> QED  BY <2>3, <2>4, <3>1, <3>3
    <2> QED  BY <2>6, <2>7
  <1> QED  BY <1>3, <1>4

\* Every step keeps the fifth layer.
LEMMA OnceSteps ==
    ASSUME RingsAgree, CallInv, ModeInv, RingInv, OnceInv, [Next]_vars, CallInv'
    PROVE  OnceInv'
  <1> SUFFICES ASSUME ~unreset', stale' = 0
               PROVE  Numbered' /\ Returned' /\ (owned' => InOnePlace')
    BY DEF OnceInv
  <1>0. creates \in Nat /\ (aqpc # "none" => creates # 0) /\ (creates = 0 => executing = {})
    <2>1. creates \in Nat
      BY DEF CallInv, TypeOK, CtrlType
    <2>2. aqpc # "none" => creates # 0
      BY <2>1 DEF ModeInv, CreateModes
    <2>3. creates = 0 => executing = {}
      BY DEF ModeInv, DeviceModes, Off
    <2> QED  BY <2>1, <2>2, <2>3
  <1>1. CASE Device
    <2>1. UNCHANGED <<owned, creates, unreset, pc, call, calls, result, issued, acq, cplslot, aqpc>>
      BY <1>1 DEF Device, DevFetch, DevComplete, DevDisable, DevEnable, ctrlVars,
          rpcVars, queueVars
    <2>2. stale = 0
      <3>1. CASE DevComplete
        <4>1. executing # {} /\ (stale' = IF owned THEN stale ELSE creates)
          BY <3>1 DEF DevComplete, CanComplete
        <4> QED  BY <1>0, <4>1
      <3>2. CASE ~DevComplete
        BY <1>1, <3>2 DEF Device, DevFetch, DevDisable, DevEnable
      <3> QED  BY <3>1, <3>2
    <2>3. Numbered /\ Returned /\ (owned => InOnePlace)
      BY <2>1, <2>2 DEF OnceInv
    <2>4. ResultsKept /\ (Finishing' <=> Finishing)
      BY <2>1 DEF ResultsKept, Answered, Finishing
    <2>5. CASE DevFetch
      <3>1. creates # 0
        BY <2>5 DEF DevFetch, CanFetch, ModeInv, DeviceModes
      <3> QED  BY <2>1, <2>2, <2>3, <2>5, <3>1, FetchOnce
    <2>6. CASE DevComplete
      <3>1. creates # 0
        BY <1>0, <2>6 DEF DevComplete, CanComplete
      <3>2. owned
        BY <2>6, <3>1 DEF DevComplete
      <3>3. Ring
        BY <2>2, <3>1, <3>2 DEF RingInv
      <3> QED  BY <2>3, <2>6, <3>2, <3>3, CompleteOnce
    <2>7. CASE DevDisable
      <3>1. ~owned /\ nfetched' = 0 /\ nfetched \in Nat
        BY <2>7 DEF DevDisable, ModeInv, DeviceModes, CallInv, TypeOK, DevType
      <3>2. nfetched = 0 \/ Len(issued) = 0
        <4>1. CASE aqpc = "none"
          <5>1. creates = 0
            BY <2>1, <3>1, <4>1 DEF ModeInv, CreateModes
          <5> QED  BY <5>1 DEF ModeInv, DeviceModes, Off
        <4>2. CASE aqpc # "none"
          <5>1. aqpc \in {"disable", "waitoff"}
            BY <2>1, <3>1, <4>2 DEF ModeInv, CreateModes, CallInv, TypeOK, CtrlType
          <5>2. issued = <<>>
            BY <5>1 DEF ModeInv, Clean
          <5> QED  BY <5>2, EmptySequence
        <4> QED  BY <4>1, <4>2
      <3>3. (nfetched' + 1)..Len(issued) \subseteq (nfetched + 1)..Len(issued)
        BY <3>1, <3>2
      <3>4. Unfetched' \subseteq Unfetched
        BY <2>1, <3>3 DEF Unfetched
      <3>5. Numbered'
        BY <2>1, <2>3 DEF Numbered
      <3> QED  BY <2>1, <2>3, <2>4, <3>1, <3>4, <3>5, ReturnedFrame
    <2>8. CASE DevEnable
      <3>1. UNCHANGED <<nfetched, executing, acqmem, dcqtl>>
        BY <2>8 DEF DevEnable
      <3>2. Unfetched' = Unfetched
        BY <2>1, <3>1 DEF Unfetched
      <3>3. Numbered'
        BY <2>1, <2>3 DEF Numbered
      <3>4. Posted' = Posted
        <4>1. One(Finishing') = One(Finishing)
          BY <2>4 DEF One
        <4> QED  BY <2>1, <3>1, <4>1 DEF Posted
      <3>5. InOnePlace => (Finishing' => cplslot' = acq'.head - 1)
        BY <2>1, <2>4 DEF InOnePlace
      <3> QED  BY <2>1, <2>3, <2>4, <3>1, <3>2, <3>3, <3>4, <3>5, ReturnedFrame,
          PlaceFrame
    <2> QED  BY <1>1, <2>5, <2>6, <2>7, <2>8 DEF Device
  <1>2. CASE Owner
    <2>1. stale = 0 /\ ~unreset
      <3>1. stale' = stale
        BY <1>2 DEF Owner, CreateAdmin, ResetDisable, ResetConfigure, ResetDone,
            ResetTimeout,
                    nvm_aq_destroy, devVars
      <3>2. unreset => unreset'
        BY <1>2 DEF Owner, CreateAdmin, ResetDisable, ResetConfigure, ResetDone,
            ResetTimeout,
                    nvm_aq_destroy
      <3> QED  BY <3>1, <3>2
    <2>2. Numbered /\ Returned /\ (owned => InOnePlace)
      BY <2>1 DEF OnceInv
    <2> QED  BY <1>2, <2>2, OwnerKeepsOnce
  <1>3. ASSUME NEW t \in Threads, RpcCall(t) \/ RpcLock(t) \/ Execute(t)
        PROVE  Numbered' /\ Returned' /\ (owned' => InOnePlace')
    <2>1. aqpc = "up" /\ UNCHANGED <<unreset, stale, creates>>
      BY <1>3, CallsUp DEF ctrlVars, devVars
    <2>2. stale # creates /\ ~unreset /\ stale = 0
      BY <1>0, <2>1
    <2>3. Numbered /\ Returned /\ (owned => InOnePlace)
      BY <2>2 DEF OnceInv
    <2> QED  BY <1>3, <2>2, <2>3, CallsKeepOnce
  <1>4. CASE UNCHANGED vars
    <2>1. UNCHANGED <<unreset, stale, owned, creates, pc, call, calls, result, issued, acq, cplslot,
                      nfetched, executing, acqmem, dcqtl>>
      BY <1>4 DEF vars, queueVars, rpcVars, ctrlVars, devVars
    <2>2. Numbered /\ Returned /\ (owned => InOnePlace)
      BY <2>1 DEF OnceInv
    <2>3. Unfetched' = Unfetched /\ Numbered' /\ ResultsKept
      <3>1. Unfetched' = Unfetched
        BY <2>1 DEF Unfetched
      <3>2. Numbered'
        BY <2>1, <2>2 DEF Numbered
      <3> QED  BY <2>1, <3>1, <3>2 DEF ResultsKept, Answered
    <2>4. Finishing' <=> Finishing
      BY <2>1 DEF Finishing
    <2>5. Posted' = Posted
      <3>1. One(Finishing') = One(Finishing)
        BY <2>4 DEF One
      <3> QED  BY <2>1, <3>1 DEF Posted
    <2>6. InOnePlace => (Finishing' => cplslot' = acq'.head - 1)
      BY <2>1, <2>4 DEF InOnePlace
    <2> QED  BY <2>1, <2>2, <2>3, <2>5, <2>6, ReturnedFrame, PlaceFrame
  <1>5. CASE Idle
    BY <1>4, <1>5 DEF Idle
  <1> QED  BY <1>1, <1>2, <1>3, <1>4, <1>5 DEF Next

-----------------------------------------------------------------------------
(* Theorems *)

\* The values and the lock, whatever the sizes of the rings.
LEMMA CallInvariance == Spec => []CallInv
  <1> QED  BY CallInit, CallSteps, PTL DEF Spec

\* Type correctness: heads, tails and doorbells stay in their rings, a caller only gets
\* one of the results nvm_raw_rpc has.  This needs no agreement of the ring sizes.
THEOREM TypeCorrect == Spec => []TypeOK
  <1>1. CallInv => TypeOK
    BY DEF CallInv
  <1> QED  BY <1>1, CallInvariance, PTL

\* The inductive invariant holds in every state, if host and controller use rings of the
\* same sizes and the ASQ's divides the range of the counters.
THEOREM Invariance == RingsAgree => (Spec => []IInv)
  <1> SUFFICES ASSUME RingsAgree PROVE Spec => []IInv
    OBVIOUS
  <1>1. Init => IInv
    <2> SUFFICES ASSUME Init PROVE IInv
      OBVIOUS
    <2>1. RingInv
      BY DEF Init, RingInv
    <2> QED  BY <2>1, CallInit, ModeInit, PromptInit, OnceInit DEF IInv
  <1>2. IInv /\ [Next]_vars => IInv'
    <2> SUFFICES ASSUME IInv, [Next]_vars PROVE IInv'
      OBVIOUS
    <2>1. CallInv /\ ModeInv /\ RingInv /\ PromptInv /\ OnceInv
      BY DEF IInv
    <2>2. CallInv' /\ ModeInv'
      BY <2>1, CallSteps, ModeSteps
    <2> QED  BY <2>1, <2>2, RingSteps, PromptSteps, OnceSteps DEF IInv
  <1> QED  BY <1>1, <1>2, PTL DEF Spec

\* Until a call times out, and if every creation configured the controller, a call of
\* nvm_raw_rpc returns the completion of its own command, although execute_command looks
\* at no identifier.
THEOREM AnswersOwn == RingsAgree => (Spec => []OwnUnlessLate)
  <1> SUFFICES ASSUME RingsAgree PROVE Spec => []OwnUnlessLate
    OBVIOUS
  <1>1. ASSUME IInv PROVE OwnUnlessLate
    <2> SUFFICES ASSUME InTime, NEW k \in 1..calls, Answered(k) PROVE result[k].of = k
      BY DEF OwnUnlessLate, InTime, CorrespondingCompletion
    <2>1. k \in 1..MaxCalls
      BY <1>1, Sizes DEF IInv, CallInv, TypeOK, RpcType
    <2> QED  BY <1>1, <2>1 DEF IInv, PromptInv, OwnResults
  <1> QED  BY <1>1, Invariance, PTL

\* Calls that time out leave their completions to later calls, but no completion is
\* returned by two calls.
THEOREM AnswersOnce == RingsAgree => (Spec => []AnsweredOnce)
  <1> SUFFICES ASSUME RingsAgree PROVE Spec => []AnsweredOnce
    OBVIOUS
  <1>1. ASSUME IInv PROVE AnsweredOnce
    <2> SUFFICES ASSUME ~unreset, stale = 0, NEW j \in 1..calls, NEW k \in 1..calls,
                        Answered(j), Answered(k), j # k
                 PROVE  result[j].of # result[k].of
      BY DEF AnsweredOnce
    <2>1. j \in 1..MaxCalls /\ k \in 1..MaxCalls
      BY <1>1, Sizes DEF IInv, CallInv, TypeOK, RpcType
    <2> QED  BY <1>1, <2>1 DEF IInv, OnceInv, Returned
  <1> QED  BY <1>1, Invariance, PTL

\* The doorbell never exposes a slot that does not hold the next command enqueued, also
\* when calls give up and their slots stay in use.
THEOREM CommandsIntact == RingsAgree => (Spec => []AsqIntegrity)
  <1> SUFFICES ASSUME RingsAgree PROVE Spec => []AsqIntegrity
    OBVIOUS
  <1>1. ASSUME IInv PROVE AsqIntegrity
    <2>1. CallInv /\ ModeInv /\ RingInv
      BY <1>1 DEF IInv
    <2> SUFFICES ASSUME owned, stale # creates, NEW i \in AsqSlots,
                        Dist(dsqhd, i, AqaSq) < Dist(dsqhd, asqdb, AqaSq)
                 PROVE  /\ nfetched + Dist(dsqhd, i, AqaSq) + 1 <= Len(issued)
                        /\ asqmem[i] = issued[nfetched + Dist(dsqhd, i, AqaSq) + 1]
      BY DEF AsqIntegrity
    <2>2. Ring /\ AqaSq = N
      BY <2>1, RingTypes DEF RingInv
    <2>3. PICK d, b, f, l : /\ d = Dist(dsqhd, i, N) /\ b = Dist(dsqhd, asqdb, N)
                            /\ f = Dist(dsqhd, asq.tail, N) /\ l = Len(issued)
      OBVIOUS
    <2>4. d \in 0..(N - 1) /\ b \in 0..(N - 1) /\ f \in 0..(N - 1)
      BY <2>1, <2>3, RingTypes, DistRange
    <2>5. l \in Nat /\ nfetched \in Nat /\ N \in Nat
      BY <2>1, <2>3, RingTypes
    <2>6. b <= f /\ f = l - nfetched /\ d < b
      BY <2>2, <2>3 DEF Ring, Positions
    <2>7. d < f /\ nfetched + d + 1 <= l
      BY <2>4, <2>5, <2>6
    <2>8. asqmem[i] = issued[nfetched + d + 1]
      BY <2>2, <2>3, <2>7 DEF Ring, Contents, Holds
    <2> QED  BY <2>2, <2>3, <2>7, <2>8
  <1> QED  BY <1>1, Invariance, PTL

\* Until a call times out, and if every creation configured the controller, nothing is
\* left with the controller when nvm_aq_destroy gives the window back.
THEOREM QuietEnd == RingsAgree => (Spec => []QuietAfterDestroy)
  <1> SUFFICES ASSUME RingsAgree PROVE Spec => []QuietAfterDestroy
    OBVIOUS
  <1>1. ASSUME IInv PROVE QuietAfterDestroy
    <2> SUFFICES ASSUME aqpc = "none", owned, InTime PROVE executing = {} /\ dsqhd = asqdb
      BY DEF QuietAfterDestroy, InTime
    <2>1. \A t \in Threads : pc[t] \notin InCall
      BY <1>1 DEF IInv, CallInv, Calling, InCall
    <2>2. Quiet
      BY <1>1, <2>1 DEF IInv, PromptInv, AtRest
    <2>3. cfg
      BY <1>1 DEF IInv, ModeInv, DeviceModes
    <2> QED  BY <2>2, <2>3 DEF Quiet
  <1> QED  BY <1>1, Invariance, PTL
=============================================================================
