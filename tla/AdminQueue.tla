----------------------------- MODULE AdminQueue -----------------------------
(***************************************************************************)
(* The admin queue pair of a local controller (src/rpc.c, the reset of      *)
(* src/ctrl.c): nvm_aq_create, nvm_raw_rpc called by several threads, and   *)
(* nvm_aq_destroy, against a controller that may answer late.               *)
(*                                                                          *)
(* Admin commands are numbered by the call of nvm_raw_rpc that carries      *)
(* them; 0 is the zeroed command of fresh queue memory.  Every creation     *)
(* uses the same DMA window.  The identifiers in the entries are left out:  *)
(* execute_command never reads them (it stores the caller's own identifier  *)
(* in the completion it returns).  So is the ref->stub == NULL test: the    *)
(* only references a caller gets have their stub set.                       *)
(***************************************************************************)
EXTENDS NvmQueue, Sequences

CONSTANTS
    Threads,         \* threads sharing the reference
    CtrlMaxEntries,  \* ctrl->max_entries
    SqPerPage,       \* ctrl->page_size / sizeof(nvm_cmd_t)
    CqPerPage,       \* ctrl->page_size / sizeof(nvm_cpl_t)
    Late,            \* TRUE if the controller may exceed its own timeout
    MaxCalls,        \* bound: calls of nvm_raw_rpc
    MaxCreates       \* bound: calls of nvm_aq_create

N == QueueSize(CtrlMaxEntries, SqPerPage)   \* the host's ASQ entries
M == QueueSize(CtrlMaxEntries, CqPerPage)   \* the host's ACQ entries

\* The ring sizes nvm_raw_ctrl_reset programs into AQA.
AqaSq == SqPerPage
AqaCq == CqPerPage

ASSUME AdminAssumption ==
    /\ CtrlMaxEntries \in Nat /\ SqPerPage \in Nat /\ CqPerPage \in Nat
    /\ N >= 2 /\ M >= 2
    /\ Word \in Nat /\ Word > N
    /\ Late \in BOOLEAN /\ MaxCalls \in Nat /\ MaxCreates \in Nat
    /\ "free" \notin Threads

VARIABLES
    asq, acq,   \* descriptors of the admin queues (struct local_admin)
    asqmem,     \* asqmem[i]: command in slot i of the window's second page
    acqmem,     \* acqmem[i]: completion in slot i of the window's first page
    asqdb,      \* the ASQ tail doorbell register
    aqpc,       \* where nvm_aq_create is; "up" once it has returned 0
    lock,       \* holder of ref->lock, or "free"
    pc,         \* pc[t]: where thread t is in nvm_raw_rpc
    call,       \* call[t]: the call thread t is in
    cplslot,    \* slot of the completion the lock holder dequeued
    en, rdy,    \* CC.EN and CSTS.RDY
    cfg,        \* the controller's queue base registers hold the window
    dsqhd, executing, dcqtl, dphase,   \* as in IoQueues
    \* history: calls and creations begun, what each call returned, the calls
    \* enqueued since the creation and how many of them were fetched, whether
    \* the creation configured the controller, whether an rpc has timed out,
    \* whether some creation gave up before it configured the controller, and the
    \* last creation whose cleared window got a completion before that (or 0)
    calls, creates, result, issued, nfetched, owned, timedout, unreset, stale

queueVars == <<asq, acq, asqmem, asqdb>>
rpcVars   == <<lock, pc, call, cplslot, calls, result, issued, timedout>>
ctrlVars  == <<aqpc, creates, en, cfg, owned, unreset>>
devVars   == <<acqmem, rdy, dsqhd, executing, dcqtl, dphase, nfetched, stale>>
vars == <<queueVars, rpcVars, ctrlVars, devVars>>

AsqSlots == 0..(AqaSq - 1)
AcqSlots == 0..(AqaCq - 1)
NoEntry  == [phase |-> 0, of |-> 0]

\* The ACQ head doorbell: execute_command never calls nvm_cq_update.
acqdb == 0

\* The controller may have been left enabled with another driver's queues.
Init ==
    /\ asq = nvm_queue_clear(N) /\ acq = nvm_queue_clear(M)
    /\ asqmem = [i \in AsqSlots |-> 0]
    /\ acqmem = [i \in AcqSlots |-> NoEntry]
    /\ asqdb = 0
    /\ aqpc = "none"
    /\ lock = "free"
    /\ pc = [t \in Threads |-> "idle"]
    /\ call = [t \in Threads |-> 0]
    /\ cplslot = 0
    /\ en \in BOOLEAN /\ rdy = en
    /\ cfg = FALSE
    /\ dsqhd = 0 /\ executing = {} /\ dcqtl = 0 /\ dphase = 1
    /\ calls = 0 /\ creates = 0
    /\ result = [k \in 1..MaxCalls |-> [err |-> "none", of |-> 0]]
    /\ issued = <<>> /\ nfetched = 0
    /\ owned = FALSE /\ timedout = FALSE /\ unreset = FALSE /\ stale = 0

-----------------------------------------------------------------------------
(* The controller (external) *)

CanFetch    == rdy /\ cfg /\ dsqhd # asqdb
CanComplete == rdy /\ executing # {} /\ Advance(dcqtl, AqaCq) # acqdb

DevFetch ==
    /\ CanFetch
    /\ executing' = executing \cup {[call |-> asqmem[dsqhd], slot |-> dsqhd]}
    /\ dsqhd' = Advance(dsqhd, AqaSq)
    /\ nfetched' = nfetched + 1
    /\ UNCHANGED <<queueVars, rpcVars, ctrlVars, acqmem, rdy, dcqtl, dphase, stale>>

DevComplete ==
    /\ CanComplete
    /\ \E c \in executing :
          /\ executing' = executing \ {c}
          /\ acqmem' = [acqmem EXCEPT ![dcqtl] = [phase |-> dphase, of |-> c.call]]
    /\ dcqtl' = Advance(dcqtl, AqaCq)
    /\ dphase' = IF dcqtl + 1 = AqaCq THEN 1 - dphase ELSE dphase
    /\ stale' = IF owned THEN stale ELSE creates
    /\ UNCHANGED <<queueVars, rpcVars, ctrlVars, rdy, dsqhd, nfetched>>

\* A disabled controller forgets its commands and resets its queue state.
DevDisable ==
    /\ rdy /\ ~en
    /\ rdy' = FALSE
    /\ dsqhd' = 0 /\ executing' = {} /\ dcqtl' = 0 /\ dphase' = 1
    /\ asqdb' = 0
    /\ nfetched' = 0
    /\ UNCHANGED <<asq, acq, asqmem, acqmem, rpcVars, ctrlVars, stale>>

DevEnable ==
    /\ en /\ ~rdy
    /\ rdy' = TRUE
    /\ UNCHANGED <<queueVars, rpcVars, ctrlVars, acqmem, dsqhd, executing, dcqtl,
                   dphase, nfetched, stale>>

Device == DevFetch \/ DevComplete \/ DevDisable \/ DevEnable

\* A wait for the controller may run out of time: unless the controller is
\* late, only when there is nothing it could still do.
TimeUp == Late \/ (~CanFetch /\ ~CanComplete /\ rdy = en)

-----------------------------------------------------------------------------
(* nvm_aq_create: create_admin and nvm_raw_ctrl_reset *)

\* Mutant: the window is not cleared.
CreateAdmin_OldEntries ==
    /\ aqpc = "none" /\ creates < MaxCreates
    /\ asq' = nvm_queue_clear(N) /\ acq' = nvm_queue_clear(M)
    /\ aqpc' = "disable"
    /\ creates' = creates + 1
    /\ issued' = <<>>
    /\ owned' = FALSE
    /\ UNCHANGED <<asqmem, acqmem, asqdb, lock, pc, call, cplslot, calls, result, timedout, en,
                   cfg, unreset, rdy, dsqhd, executing, dcqtl, dphase, nfetched, stale>>

\* Clear the descriptors and both pages of the window.
CreateAdmin ==
    /\ aqpc = "none" /\ creates < MaxCreates
    /\ asq' = nvm_queue_clear(N) /\ acq' = nvm_queue_clear(M)
    /\ asqmem' = [i \in AsqSlots |-> 0]
    /\ acqmem' = [i \in AcqSlots |-> NoEntry]
    /\ aqpc' = "disable"
    /\ creates' = creates + 1
    /\ issued' = <<>>
    /\ owned' = FALSE
    /\ UNCHANGED <<asqdb, lock, pc, call, cplslot, calls, result, timedout, en,
                   cfg, unreset, rdy, dsqhd, executing, dcqtl, dphase, nfetched, stale>>

ResetDisable ==
    /\ aqpc = "disable"
    /\ en' = FALSE
    /\ aqpc' = "waitoff"
    /\ UNCHANGED <<queueVars, rpcVars, creates, cfg, owned, unreset, devVars>>

\* CSTS.RDY is 0: set AQA, ACQ and ASQ, then CC.EN.  Whatever was written to
\* the doorbell of the disabled controller is void.
ResetConfigure ==
    /\ aqpc = "waitoff" /\ ~rdy
    /\ cfg' = TRUE /\ en' = TRUE /\ owned' = TRUE
    /\ asqdb' = 0
    /\ aqpc' = "waiton"
    /\ UNCHANGED <<asq, acq, asqmem, rpcVars, creates, unreset, devVars>>

ResetDone ==
    /\ aqpc = "waiton" /\ rdy
    /\ aqpc' = "up"
    /\ UNCHANGED <<queueVars, rpcVars, creates, en, cfg, owned, unreset, devVars>>

\* Either wait of nvm_raw_ctrl_reset gives up with ETIME.  nvm_aq_create drops
\* the result and hands out the reference.
ResetTimeout ==
    /\ \/ aqpc = "waitoff" /\ rdy
       \/ aqpc = "waiton" /\ ~rdy
    /\ TimeUp
    /\ aqpc' = "up"
    /\ unreset' = (unreset \/ aqpc = "waitoff")
    /\ UNCHANGED <<queueVars, rpcVars, creates, en, cfg, owned, devVars>>

\* Mutant: the descriptors are freed without the lock, under a running call.
nvm_aq_destroy_NoLock ==
    /\ aqpc = "up"
    /\ aqpc' = "none"
    /\ UNCHANGED <<queueVars, rpcVars, creates, en, cfg, owned, unreset, devVars>>

\* _nvm_ref_put: takes the lock, frees the descriptors.  References must not be
\* used any more, so no thread is in a call.
nvm_aq_destroy ==
    /\ aqpc = "up"
    /\ lock = "free" /\ \A t \in Threads : pc[t] = "idle"
    /\ aqpc' = "none"
    /\ UNCHANGED <<queueVars, rpcVars, creates, en, cfg, owned, unreset, devVars>>

Owner == \/ CreateAdmin \/ ResetDisable \/ ResetConfigure \/ ResetDone
         \/ ResetTimeout \/ nvm_aq_destroy

-----------------------------------------------------------------------------
(* nvm_raw_rpc, with execute_command as the stub *)

RpcCall(t) ==
    /\ aqpc = "up" /\ pc[t] = "idle" /\ calls < MaxCalls
    /\ calls' = calls + 1
    /\ call' = [call EXCEPT ![t] = calls + 1]
    /\ pc' = [pc EXCEPT ![t] = "lock"]
    /\ UNCHANGED <<queueVars, lock, cplslot, result, issued, timedout, ctrlVars,
                   devVars>>

RpcLock(t) ==
    /\ pc[t] = "lock" /\ lock = "free"
    /\ lock' = t
    /\ pc' = [pc EXCEPT ![t] = "enqueue"]
    /\ UNCHANGED <<queueVars, call, cplslot, calls, result, issued, timedout,
                   ctrlVars, devVars>>

\* Leave execute_command with the given outcome.
Outcome(t, err, of) ==
    /\ result' = [result EXCEPT ![call[t]] = [err |-> err, of |-> of]]
    /\ pc' = [pc EXCEPT ![t] = "unlock"]

\* Mutant: the caller tries again, with the lock held.
ExecuteFull_Retries(t) ==
    /\ pc[t] = "enqueue" /\ SqFull(asq)
    /\ UNCHANGED vars

ExecuteFull(t) ==
    /\ pc[t] = "enqueue" /\ SqFull(asq)
    /\ Outcome(t, "EAGAIN", 0)
    /\ UNCHANGED <<queueVars, lock, call, cplslot, calls, issued, timedout,
                   ctrlVars, devVars>>

ExecuteEnqueue(t) ==
    /\ pc[t] = "enqueue" /\ ~SqFull(asq)
    /\ asqmem' = [asqmem EXCEPT ![SqSlot(asq)] = call[t]]
    /\ asq' = nvm_sq_enqueue(asq)
    /\ issued' = Append(issued, call[t])
    /\ pc' = [pc EXCEPT ![t] = "submit"]
    /\ UNCHANGED <<acq, asqdb, lock, call, cplslot, calls, result, timedout,
                   ctrlVars, devVars>>

\* A controller that is not ready may ignore the doorbell write.
ExecuteSubmit(t) ==
    /\ pc[t] = "submit"
    /\ asqdb' \in {SqDoorbell(asq, asqdb)} \cup (IF rdy THEN {} ELSE {asqdb})
    /\ asq' = nvm_sq_submit(asq)
    /\ pc' = [pc EXCEPT ![t] = "wait"]
    /\ UNCHANGED <<acq, asqmem, lock, call, cplslot, calls, result, issued,
                   timedout, ctrlVars, devVars>>

\* Mutant: the entry is polled and the head does not move.
ExecuteDequeue_Peeks(t) ==
    /\ pc[t] = "wait" /\ nvm_cq_poll(acq, acqmem)
    /\ cplslot' = acq.head
    /\ acq' = acq
    /\ pc' = [pc EXCEPT ![t] = "finish"]
    /\ UNCHANGED <<asq, asqmem, asqdb, lock, call, calls, result, issued,
                   timedout, ctrlVars, devVars>>

\* nvm_cq_dequeue_block returns an entry.
ExecuteDequeue(t) ==
    /\ pc[t] = "wait" /\ nvm_cq_poll(acq, acqmem)
    /\ cplslot' = acq.head
    /\ acq' = nvm_cq_dequeue(acq)
    /\ pc' = [pc EXCEPT ![t] = "finish"]
    /\ UNCHANGED <<asq, asqmem, asqdb, lock, call, calls, result, issued,
                   timedout, ctrlVars, devVars>>

\* nvm_cq_dequeue_block returns NULL: the command stays with the controller.
ExecuteTimeout(t) ==
    /\ pc[t] = "wait" /\ ~nvm_cq_poll(acq, acqmem) /\ TimeUp
    /\ Outcome(t, "ETIME", 0)
    /\ timedout' = TRUE
    /\ UNCHANGED <<queueVars, lock, call, cplslot, calls, issued, ctrlVars,
                   devVars>>

\* nvm_sq_update, and the completion is copied to the caller.
ExecuteFinish(t) ==
    /\ pc[t] = "finish"
    /\ asq' = nvm_sq_update(asq)
    /\ Outcome(t, "ok", acqmem[cplslot].of)
    /\ UNCHANGED <<acq, asqmem, asqdb, lock, call, cplslot, calls, issued,
                   timedout, ctrlVars, devVars>>

RpcUnlock(t) ==
    /\ pc[t] = "unlock"
    /\ lock' = "free"
    /\ pc' = [pc EXCEPT ![t] = "idle"]
    /\ UNCHANGED <<queueVars, call, cplslot, calls, result, issued, timedout,
                   ctrlVars, devVars>>

\* The steps a thread takes once it has the lock.
Execute(t) ==
    \/ ExecuteFull(t) \/ ExecuteEnqueue(t) \/ ExecuteSubmit(t)
    \/ ExecuteDequeue(t) \/ ExecuteTimeout(t) \/ ExecuteFinish(t)
    \/ RpcUnlock(t)

-----------------------------------------------------------------------------
\* Nothing is left to call within the bounds.
Idle ==
    /\ \A t \in Threads : pc[t] = "idle"
    /\ aqpc = "none" /\ creates = MaxCreates
    /\ UNCHANGED vars

Next ==
    \/ Device
    \/ Owner
    \/ \E t \in Threads : RpcCall(t) \/ RpcLock(t) \/ Execute(t)
    \/ Idle

Spec == Init /\ [][Next]_vars

\* The thread in nvm_aq_create and the lock holder are scheduled again and
\* again, time passes, and a mutex that is released over and over is acquired
\* at last.  Nothing is assumed of the controller.
Fairness ==
    /\ WF_vars(ResetDisable \/ ResetConfigure \/ ResetDone \/ ResetTimeout)
    /\ \A t \in Threads : WF_vars(Execute(t)) /\ SF_vars(RpcLock(t))

FairSpec == Spec /\ Fairness

-----------------------------------------------------------------------------
(* Properties *)

Pcs == {"idle", "lock", "enqueue", "submit", "wait", "finish", "unlock"}
Errs == {"none", "ok", "EAGAIN", "ETIME"}

QueueType ==
    /\ asq \in InRing(N) /\ acq \in InRing(M)
    /\ asqmem \in [AsqSlots -> 0..MaxCalls]
    /\ acqmem \in [AcqSlots -> [phase : Bit, of : 0..MaxCalls]]
    /\ asqdb \in AsqSlots

RpcType ==
    /\ lock \in Threads \cup {"free"}
    /\ pc \in [Threads -> Pcs]
    /\ call \in [Threads -> 0..MaxCalls]
    /\ cplslot \in AcqSlots
    /\ calls \in 0..MaxCalls
    /\ result \in [1..MaxCalls -> [err : Errs, of : 0..MaxCalls]]
    /\ issued \in Seq(1..MaxCalls)
    /\ timedout \in BOOLEAN

CtrlType ==
    /\ aqpc \in {"none", "disable", "waitoff", "waiton", "up"}
    /\ creates \in 0..MaxCreates
    /\ en \in BOOLEAN /\ cfg \in BOOLEAN /\ owned \in BOOLEAN /\ unreset \in BOOLEAN

DevType ==
    /\ rdy \in BOOLEAN
    /\ dsqhd \in AsqSlots /\ dcqtl \in AcqSlots /\ dphase \in Bit
    /\ executing \subseteq [call : 0..MaxCalls, slot : AsqSlots]
    /\ nfetched \in Nat /\ stale \in 0..creates

\* Every variable stays in its range: the heads and tails execute_command moves
\* inside their rings, results among those nvm_raw_rpc has.
TypeOK == QueueType /\ RpcType /\ CtrlType /\ DevType

Answered(k) == result[k].err = "ok"

\* nvm_raw_rpc gets "a corresponding completion": the completion a successful
\* call returns is the one of the command it relayed.
CorrespondingCompletion ==
    \A k \in 1..calls : Answered(k) => result[k].of = k

\* As long as every answer came in time and the controller was reset, each
\* call returns the completion of its own command, in whatever order threads
\* get the lock and however often the queues are created again.
OwnUnlessLate ==
    ~timedout /\ ~unreset => CorrespondingCompletion

\* No completion is handed to two calls, however late answers are, unless one of an
\* earlier creation came into the window between its clearing and the reset: the heads
\* then run ahead of the controller, which may fetch a command twice.
AnsweredOnce ==
    ~unreset /\ stale = 0 => \A j, k \in 1..calls :
        Answered(j) /\ Answered(k) /\ result[j].of # 0 /\ j # k
            => result[j].of # result[k].of

\* The slots exposed to the controller and not fetched hold the commands of
\* the next calls, in the order they were enqueued: the controller executes
\* what callers relayed and nothing else, even when the heads of the queues
\* lag behind because calls gave up.  Again unless a completion of the creation
\* before came into the cleared window: slots are then reused too early.
AsqIntegrity ==
    aqpc = "up" /\ owned /\ rdy /\ stale # creates =>
        \A i \in AsqSlots :
            LET d == Dist(dsqhd, i, AqaSq) IN
            d < Dist(dsqhd, asqdb, AqaSq)
                => /\ nfetched + d + 1 <= Len(issued)
                   /\ asqmem[i] = issued[nfetched + d + 1]

\* A controller that answers in time never makes a call time out.
InTimeAnswered ==
    ~Late => \A k \in 1..calls : result[k].err # "ETIME"

\* As long as every answer came in time and the controller was reset, it has no
\* command left after nvm_aq_destroy that it could complete into the window the
\* caller may now free.
QuietAfterDestroy ==
    aqpc = "none" /\ owned /\ rdy /\ ~timedout /\ ~unreset
        => executing = {} /\ dsqhd = asqdb

\* Every nvm_raw_rpc returns, whatever the controller does.
RpcReturns == \A t \in Threads : pc[t] # "idle" ~> pc[t] = "idle"
=============================================================================
