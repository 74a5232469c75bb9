----------------------------- MODULE ClusterRpc -----------------------------
(***************************************************************************)
(* Remote admin commands in a DIS cluster (src/dis/rpc.c, the binding       *)
(* handles of src/rpc.c, src/dis/interrupt.c): a server that owns the admin *)
(* queues publishes an interrupt per adapter in shared device memory and    *)
(* runs a callback for every request; clients look the interrupt up, bind   *)
(* to it, and wait with a timeout for the reply on an interrupt of their    *)
(* own.                                                                     *)
(*                                                                          *)
(* A binding handle and its interrupt are one number; requests are numbered *)
(* as they are sent.  execute_command is reduced to its two outcomes, which *)
(* AdminQueue models.  SISCI is modelled from its use: an interrupt queues  *)
(* the data it is triggered with, its callback runs once at a time, and it  *)
(* cannot be removed (SCI_ERR_BUSY) while the callback runs.  The number of *)
(* a client's interrupt is free again once the interrupt is removed, and    *)
(* may be given to the next one.  (So is that of a server's; a client that  *)
(* connects to it late then finds another handle of the server.)  The       *)
(* client's reference lock is left out: a client has one thread.            *)
(***************************************************************************)
EXTENDS Naturals, Sequences, FiniteSets

CONSTANTS
    Clients,      \* remote processes
    IntrNos,      \* numbers of their interrupts (node_id and intr_no)
    MaxAdapter,   \* NVM_DIS_RPC_MAX_ADAPTER
    MaxEnables,   \* bound: calls of nvm_dis_rpc_enable that create a handle
    MaxReqs,      \* bound: requests sent
    Reenable,     \* TRUE if an adapter may be enabled while it is enabled
    MapFails      \* TRUE if the shared segment may fail to be mapped

Adapters == 0..(MaxAdapter - 1)
Handles  == 1..MaxEnables
Requests == 1..MaxReqs

ASSUME ClusterAssumption ==
    /\ MaxAdapter \in Nat \ {0} /\ MaxEnables \in Nat /\ MaxReqs \in Nat
    /\ Reenable \in BOOLEAN /\ MapFails \in BOOLEAN

VARIABLES
    slock,     \* ref->lock of the server: "free", or held by a callback ("cb"), by
               \* nvm_dis_rpc_disable ("main") or by nvm_aq_destroy ("destroy")
    handles,   \* ref->handles: the list of binding handles
    adp,       \* adp[h]: the adapter (key) of handle h
    alloc,     \* binding handles that are allocated
    live,      \* interrupts that exist
    magic,     \* magic[a]: the shared entry of adapter a has the signature
    intr,      \* intr[a]: the interrupt number in that entry (0: none)
    spc, sh,   \* where the server's main thread is, and the handle it is at
    todo,      \* handles the main thread has still to release under the lock
    inbox,     \* inbox[h]: requests interrupt h was triggered with
    cbpc, cbreq, reply,   \* callback of h: where, for which request, its reply
    cpc, crq,  \* where client c is, and its current request
    at,        \* at[c]: the entry client c looks at in try_bind
    bound,     \* bound[c]: the interrupt client c is connecting or bound to
    num,       \* num[c]: the number of client c's interrupt
    from,      \* from[r]: the number request r carries, to be answered at
    mbox,      \* mbox[c]: replies client c's interrupt was triggered with
    \* history: handles and requests made, the sender of each request and what
    \* its call returned, and whether a call gave up waiting
    enables, reqs, sender, result, late

listVars   == <<slock, handles, adp, alloc, live>>
shmVars    == <<magic, intr>>
mainVars   == <<spc, sh, todo, enables>>
cbVars     == <<cbpc, cbreq, reply>>
clientVars == <<cpc, crq, at, bound, num, from, reqs, sender, result, late>>
vars == <<listVars, shmVars, mainVars, inbox, cbVars, clientVars, mbox>>

NoReply == [of |-> 0, rejected |-> FALSE]

Init ==
    /\ slock = "free" /\ handles = <<>>
    /\ adp = [h \in Handles |-> 0]
    /\ alloc = {} /\ live = {}
    /\ magic = [a \in Adapters |-> FALSE] /\ intr = [a \in Adapters |-> 0]
    /\ spc = "idle" /\ sh = 0 /\ todo = <<>> /\ enables = 0
    /\ inbox = [h \in Handles |-> <<>>]
    /\ cbpc = [h \in Handles |-> "idle"]
    /\ cbreq = [h \in Handles |-> 0]
    /\ reply = [h \in Handles |-> NoReply]
    /\ cpc = [c \in Clients |-> "unbound"]
    /\ crq = [c \in Clients |-> 0]
    /\ at = [c \in Clients |-> 0]
    /\ bound = [c \in Clients |-> 0]
    /\ num = [c \in Clients |-> "none"]
    /\ from = [r \in Requests |-> "none"]
    /\ mbox = [c \in Clients |-> <<>>]
    /\ reqs = 0
    /\ sender = [r \in Requests |-> "none"]
    /\ result = [r \in Requests |-> [err |-> "none", of |-> 0]]
    /\ late = FALSE

-----------------------------------------------------------------------------
(* nvm_dis_rpc_enable *)

Keys == {adp[handles[i]] : i \in 1..Len(handles)}

\* create_binding_handle up to _nvm_local_intr_get.  (When one of the steps
\* before it fails, the ones before that are undone and nothing has changed.)
EnableCreate(a) ==
    LET h == enables + 1 IN
    /\ spc = "idle" /\ enables < MaxEnables
    /\ a \in Keys => Reenable
    /\ enables' = h /\ sh' = h
    /\ adp' = [adp EXCEPT ![h] = a]
    /\ alloc' = alloc \cup {h}
    /\ live' = live \cup {h}
    /\ spc' = "publish"
    /\ UNCHANGED <<slock, handles, shmVars, todo, inbox, cbVars, clientVars, mbox>>

\* write_handle_info stores the signature first, the interrupt number after.
EnableMagic ==
    /\ spc = "publish"
    /\ magic' = [magic EXCEPT ![adp[sh]] = TRUE]
    /\ spc' = "number"
    /\ UNCHANGED <<listVars, intr, sh, todo, enables, inbox, cbVars, clientVars, mbox>>

EnableNumber ==
    /\ spc = "number"
    /\ intr' = [intr EXCEPT ![adp[sh]] = sh]
    /\ spc' = "insert"
    /\ UNCHANGED <<listVars, magic, sh, todo, enables, inbox, cbVars, clientVars, mbox>>

\* The segment cannot be mapped: the handle is freed, its interrupt is not.
EnableMapFails ==
    /\ spc = "publish" /\ MapFails
    /\ alloc' = alloc \ {sh}
    /\ spc' = "idle"
    /\ UNCHANGED <<slock, handles, adp, live, shmVars, sh, todo, enables, inbox,
                   cbVars, clientVars, mbox>>

\* Mutant: the key is not looked for.
EnableInsert_NoCheck ==
    /\ spc = "insert" /\ slock = "free"
    /\ spc' = "idle" /\ handles' = Append(handles, sh)
    /\ UNCHANGED <<slock, adp, alloc, live, shmVars, sh, todo, enables, inbox,
                   cbVars, clientVars, mbox>>

\* _nvm_rpc_handle_insert, in one piece under the lock.  A handle whose key is
\* in the list is removed again, outside the lock.
EnableInsert ==
    /\ spc = "insert" /\ slock = "free"
    /\ IF adp[sh] \in Keys
         THEN spc' = "clear" /\ todo' = <<sh>> /\ UNCHANGED handles
         ELSE spc' = "idle" /\ handles' = Append(handles, sh) /\ UNCHANGED todo
    /\ UNCHANGED <<slock, adp, alloc, live, shmVars, sh, enables, inbox, cbVars,
                   clientVars, mbox>>

-----------------------------------------------------------------------------
(* nvm_dis_rpc_disable, nvm_aq_destroy, and remove_binding_handle *)

\* The list with its i-th element unlinked
Without(s, i) == SubSeq(s, 1, i - 1) \o SubSeq(s, i + 1, Len(s))

\* _nvm_rpc_handle_remove takes the handle out of the list and keeps the lock
\* while it is released.  It follows a null pointer when the key is absent: the
\* process ends and takes its interrupts with it.
DisableFind(a) ==
    /\ spc = "idle" /\ slock = "free"
    /\ IF a \in Keys
         THEN LET i == CHOOSE i \in 1..Len(handles) : adp[handles[i]] = a
              IN /\ slock' = "main"
                 /\ handles' = Without(handles, i)
                 /\ todo' = <<handles[i]>>
                 /\ sh' = handles[i]
                 /\ spc' = "clear"
                 /\ UNCHANGED <<live, alloc>>
         ELSE /\ spc' = "crashed"
              /\ live' = {} /\ alloc' = {}
              /\ UNCHANGED <<slock, handles, todo, sh>>
    /\ UNCHANGED <<adp, shmVars, enables, inbox, cbVars, clientVars, mbox>>

\* _nvm_ref_put: release_handles walks the whole list under the lock.
Destroy ==
    /\ spc = "idle" /\ slock = "free"
    /\ IF handles = <<>>
         THEN spc' = "down" /\ UNCHANGED <<slock, todo, sh>>
         ELSE /\ slock' = "destroy"
              /\ todo' = handles
              /\ sh' = Head(handles)
              /\ spc' = "clear"
    /\ handles' = <<>>
    /\ UNCHANGED <<adp, alloc, live, shmVars, enables, inbox, cbVars, clientVars,
                   mbox>>

\* Mutant: the shared entry is left as it is.
ReleaseClear_Forgotten ==
    /\ spc = "clear"
    /\ spc' = "remove"
    /\ UNCHANGED <<listVars, shmVars, sh, todo, enables, inbox, cbVars,
                   clientVars, mbox>>

\* Mutant: the entry cleared is always the first one.
ReleaseClear_FirstEntry ==
    /\ spc = "clear"
    /\ magic' = [magic EXCEPT ![0] = FALSE]
    /\ intr' = [intr EXCEPT ![0] = 0]
    /\ spc' = "remove"
    /\ UNCHANGED <<listVars, sh, todo, enables, inbox, cbVars, clientVars, mbox>>

\* write_handle_info clears the entry of the adapter; its result is ignored.
ReleaseClear ==
    /\ spc = "clear"
    /\ \/ /\ magic' = [magic EXCEPT ![adp[sh]] = FALSE]
          /\ intr' = [intr EXCEPT ![adp[sh]] = 0]
       \/ /\ MapFails
          /\ UNCHANGED shmVars
    /\ spc' = "remove"
    /\ UNCHANGED <<listVars, sh, todo, enables, inbox, cbVars, clientVars, mbox>>

\* Mutant: the handle is freed under a running callback.
ReleaseRemove_WhileBusy ==
    LET more == Tail(todo) IN
    /\ spc = "remove"
    /\ live' = live \ {sh}
    /\ alloc' = alloc \ {sh}
    /\ inbox' = [inbox EXCEPT ![sh] = <<>>]
    /\ todo' = more
    /\ IF more # <<>>
         THEN sh' = Head(more) /\ spc' = "clear" /\ UNCHANGED slock
         ELSE /\ spc' = (IF slock = "destroy" THEN "down" ELSE "idle")
              /\ slock' = (IF slock = "cb" THEN "cb" ELSE "free")
              /\ UNCHANGED sh
    /\ UNCHANGED <<handles, adp, shmVars, enables, cbVars, clientVars, mbox>>

\* _nvm_local_intr_put repeats SCIRemoveDataInterrupt while the callback runs;
\* then the handle is freed and, after the last one, the lock is released (the
\* failed enable does not hold it, a callback may).
ReleaseRemove ==
    LET more == Tail(todo) IN
    /\ spc = "remove" /\ cbpc[sh] = "idle"
    /\ live' = live \ {sh}
    /\ alloc' = alloc \ {sh}
    /\ inbox' = [inbox EXCEPT ![sh] = <<>>]
    /\ todo' = more
    /\ IF more # <<>>
         THEN sh' = Head(more) /\ spc' = "clear" /\ UNCHANGED slock
         ELSE /\ spc' = (IF slock = "destroy" THEN "down" ELSE "idle")
              /\ slock' = (IF slock = "cb" THEN "cb" ELSE "free")
              /\ UNCHANGED sh
    /\ UNCHANGED <<handles, adp, shmVars, enables, cbVars, clientVars, mbox>>

Main ==
    \/ \E a \in Adapters : EnableCreate(a) \/ DisableFind(a)
    \/ EnableMagic \/ EnableNumber \/ EnableMapFails \/ EnableInsert
    \/ Destroy \/ ReleaseClear \/ ReleaseRemove

-----------------------------------------------------------------------------
(* handle_remote_command, the callback of handle h *)

CbStart(h) ==
    /\ h \in live /\ cbpc[h] = "idle" /\ inbox[h] # <<>>
    /\ cbreq' = [cbreq EXCEPT ![h] = Head(inbox[h])]
    /\ inbox' = [inbox EXCEPT ![h] = Tail(inbox[h])]
    /\ cbpc' = [cbpc EXCEPT ![h] = "filter"]
    /\ UNCHANGED <<listVars, shmVars, mainVars, reply, clientVars, mbox>>

\* The filter accepts, or rejects: the reply carries a zeroed command.
CbFilter(h) ==
    /\ h \in live /\ cbpc[h] = "filter"
    /\ \/ /\ cbpc' = [cbpc EXCEPT ![h] = "lock"]
          /\ UNCHANGED reply
       \/ /\ cbpc' = [cbpc EXCEPT ![h] = "reply"]
          /\ reply' = [reply EXCEPT ![h] = [of |-> cbreq[h], rejected |-> TRUE]]
    /\ UNCHANGED <<listVars, shmVars, mainVars, inbox, cbreq, clientVars, mbox>>

CbLock(h) ==
    /\ h \in live /\ cbpc[h] = "lock" /\ slock = "free"
    /\ slock' = "cb"
    /\ cbpc' = [cbpc EXCEPT ![h] = "execute"]
    /\ UNCHANGED <<handles, adp, alloc, live, shmVars, mainVars, inbox, cbreq,
                   reply, clientVars, mbox>>

\* execute_command completes the command or fails (EAGAIN, ETIME).  Its result
\* is ignored: the reply is sent all the same, with the completion or, after a
\* failure, with whatever was on the stack.
CbExecute(h) ==
    /\ h \in live /\ cbpc[h] = "execute"
    /\ reply' = [reply EXCEPT ![h] = [of |-> cbreq[h], rejected |-> FALSE]]
    /\ slock' = "free"
    /\ cbpc' = [cbpc EXCEPT ![h] = "reply"]
    /\ UNCHANGED <<handles, adp, alloc, live, shmVars, mainVars, inbox, cbreq,
                   clientVars, mbox>>

\* Mutant: the reply is sent to whichever client is bound.
CbReply_AnyClient(h) ==
    /\ h \in live /\ cbpc[h] = "reply"
    /\ \/ \E c \in Clients :
             /\ cpc[c] \in {"ready", "wait"}
             /\ mbox' = [mbox EXCEPT ![c] = Append(mbox[c], reply[h])]
       \/ UNCHANGED mbox
    /\ cbpc' = [cbpc EXCEPT ![h] = "idle"]
    /\ cbreq' = [cbreq EXCEPT ![h] = 0]
    /\ reply' = [reply EXCEPT ![h] = NoReply]
    /\ UNCHANGED <<listVars, shmVars, mainVars, inbox, clientVars>>

\* Mutant: a failure to disconnect makes the reply go out again.
CbReply_Twice(h) ==
    /\ h \in live /\ cbpc[h] = "reply"
    /\ \/ \E c \in Clients :
             /\ cpc[c] # "unbound" /\ num[c] = from[cbreq[h]]
             /\ mbox' = [mbox EXCEPT ![c] = mbox[c] \o <<reply[h], reply[h]>>]
       \/ UNCHANGED mbox
    /\ cbpc' = [cbpc EXCEPT ![h] = "idle"]
    /\ cbreq' = [cbreq EXCEPT ![h] = 0]
    /\ reply' = [reply EXCEPT ![h] = NoReply]
    /\ UNCHANGED <<listVars, shmVars, mainVars, inbox, clientVars>>

\* _nvm_remote_intr_fire_and_forget: connect to the interrupt number in the
\* request, whoever has it by now, and trigger it.  Either may fail, the more
\* so as handle->intr.adapter was never set; the failure is only logged.
CbReply(h) ==
    /\ h \in live /\ cbpc[h] = "reply"
    /\ \/ \E c \in Clients :
             /\ cpc[c] # "unbound" /\ num[c] = from[cbreq[h]]
             /\ mbox' = [mbox EXCEPT ![c] = Append(mbox[c], reply[h])]
       \/ UNCHANGED mbox
    /\ cbpc' = [cbpc EXCEPT ![h] = "idle"]
    /\ cbreq' = [cbreq EXCEPT ![h] = 0]
    /\ reply' = [reply EXCEPT ![h] = NoReply]
    /\ UNCHANGED <<listVars, shmVars, mainVars, inbox, clientVars>>

Callback(h) ==
    CbStart(h) \/ CbFilter(h) \/ CbLock(h) \/ CbExecute(h) \/ CbReply(h)

-----------------------------------------------------------------------------
(* Clients: nvm_dis_rpc_bind, remote_command, nvm_rpc_unbind *)

\* create_binding: a fresh local interrupt with a number nobody has, then
\* try_bind from entry 0.
Bind(c) ==
    /\ cpc[c] = "unbound"
    /\ \E n \in IntrNos :
          /\ \A d \in Clients : cpc[d] # "unbound" => num[d] # n
          /\ num' = [num EXCEPT ![c] = n]
    /\ cpc' = [cpc EXCEPT ![c] = "read"]
    /\ at' = [at EXCEPT ![c] = 0]
    /\ UNCHANGED <<listVars, shmVars, mainVars, inbox, cbVars, crq, bound, from,
                   reqs, sender, result, late, mbox>>

\* Look at one entry; past the last one the binding is undone (ECONNREFUSED).
BindRead(c) ==
    /\ cpc[c] = "read"
    /\ IF at[c] = MaxAdapter
         THEN /\ cpc' = [cpc EXCEPT ![c] = "unbound"]
              /\ num' = [num EXCEPT ![c] = "none"]
              /\ mbox' = [mbox EXCEPT ![c] = <<>>]
              /\ at' = [at EXCEPT ![c] = 0]
              /\ UNCHANGED bound
         ELSE IF magic[at[c]]
           THEN /\ bound' = [bound EXCEPT ![c] = intr[at[c]]]
                /\ cpc' = [cpc EXCEPT ![c] = "connect"]
                /\ UNCHANGED <<at, num, mbox>>
           ELSE /\ at' = [at EXCEPT ![c] = at[c] + 1]
                /\ UNCHANGED <<cpc, bound, num, mbox>>
    /\ UNCHANGED <<listVars, shmVars, mainVars, inbox, cbVars, crq, from, reqs,
                   sender, result, late>>

BindConnect(c) ==
    /\ cpc[c] = "connect"
    /\ IF bound[c] \in live
         THEN /\ cpc' = [cpc EXCEPT ![c] = "ready"]
              /\ at' = [at EXCEPT ![c] = 0]
              /\ UNCHANGED bound
         ELSE /\ cpc' = [cpc EXCEPT ![c] = "read"]
              /\ at' = [at EXCEPT ![c] = at[c] + 1]
              /\ bound' = [bound EXCEPT ![c] = 0]
    /\ UNCHANGED <<listVars, shmVars, mainVars, inbox, cbVars, crq, num, from,
                   reqs, sender, result, late, mbox>>

\* Trigger the server's interrupt with the request, which carries the number
\* of the client's own; ENOTCONN if it is gone.
Send(c) ==
    LET r == reqs + 1 IN
    /\ cpc[c] = "ready" /\ reqs < MaxReqs
    /\ reqs' = r
    /\ sender' = [sender EXCEPT ![r] = c]
    /\ from' = [from EXCEPT ![r] = num[c]]
    /\ IF bound[c] \in live
         THEN /\ inbox' = [inbox EXCEPT ![bound[c]] = Append(@, r)]
              /\ cpc' = [cpc EXCEPT ![c] = "wait"]
              /\ crq' = [crq EXCEPT ![c] = r]
              /\ UNCHANGED result
         ELSE /\ result' = [result EXCEPT ![r].err = "ENOTCONN"]
              /\ UNCHANGED <<inbox, cpc, crq>>
    /\ UNCHANGED <<listVars, shmVars, mainVars, cbVars, at, bound, num, late,
                   mbox>>

\* The reply's command and completion are copied back.  A command whose first
\* dword is zero is taken to have been rejected: those that were, and any whose
\* opcode and identifier are zero.
Receive(c) ==
    LET rep == Head(mbox[c]) IN
    /\ cpc[c] = "wait" /\ mbox[c] # <<>>
    /\ \E zero \in BOOLEAN :
          /\ rep.rejected => zero
          /\ result' = [result EXCEPT ![crq[c]] =
                          [err |-> IF zero THEN "EPERM" ELSE "ok", of |-> rep.of]]
    /\ mbox' = [mbox EXCEPT ![c] = Tail(mbox[c])]
    /\ cpc' = [cpc EXCEPT ![c] = "ready"]
    /\ crq' = [crq EXCEPT ![c] = 0]
    /\ UNCHANGED <<listVars, shmVars, mainVars, inbox, cbVars, at, bound, num, from,
                   reqs, sender, late>>

\* The wait ends without a reply: RPC_COMMAND_TIMEOUT has run out (ETIMEDOUT),
\* or SISCI reports an error (EIO).
Expire(c) ==
    /\ cpc[c] = "wait"
    /\ \E e \in {"ETIMEDOUT", "EIO"} :
          /\ e = "ETIMEDOUT" => mbox[c] = <<>>
          /\ result' = [result EXCEPT ![crq[c]].err = e]
    /\ late' = TRUE
    /\ cpc' = [cpc EXCEPT ![c] = "ready"]
    /\ crq' = [crq EXCEPT ![c] = 0]
    /\ UNCHANGED <<listVars, shmVars, mainVars, inbox, cbVars, at, bound, num, from,
                   reqs, sender, mbox>>

\* remove_binding: disconnect and remove the local interrupt, whose number is
\* free then.
Unbind(c) ==
    /\ cpc[c] = "ready"
    /\ cpc' = [cpc EXCEPT ![c] = "unbound"]
    /\ num' = [num EXCEPT ![c] = "none"]
    /\ bound' = [bound EXCEPT ![c] = 0]
    /\ mbox' = [mbox EXCEPT ![c] = <<>>]
    /\ UNCHANGED <<listVars, shmVars, mainVars, inbox, cbVars, crq, at, from, reqs,
                   sender, result, late>>

Client(c) ==
    \/ Bind(c) \/ BindRead(c) \/ BindConnect(c)
    \/ Send(c) \/ Receive(c) \/ Expire(c) \/ Unbind(c)

-----------------------------------------------------------------------------
Next ==
    \/ Main
    \/ \E h \in Handles : Callback(h)
    \/ \E c \in Clients : Client(c)

Spec == Init /\ [][Next]_vars

\* The threads of the server run; a mutex that becomes free again and again is
\* acquired at last.
Fairness ==
    /\ WF_vars(EnableMagic \/ EnableNumber \/ EnableInsert \/ ReleaseClear
               \/ ReleaseRemove)
    /\ \A h \in Handles :
         /\ WF_vars(CbStart(h) \/ CbFilter(h) \/ CbExecute(h) \/ CbReply(h))
         /\ SF_vars(CbLock(h))

FairSpec == Spec /\ Fairness

-----------------------------------------------------------------------------
(* Properties *)

ReplyType == [of : 0..MaxReqs, rejected : BOOLEAN]
ResultType == [err : {"none", "ok", "EPERM", "ETIMEDOUT", "EIO", "ENOTCONN"},
               of : 0..MaxReqs]

ListRange ==
    /\ slock \in {"free", "cb", "main", "destroy"}
    /\ handles \in Seq(Handles)
    /\ adp \in [Handles -> Adapters]
    /\ alloc \subseteq Handles /\ live \subseteq Handles

ShmRange ==
    /\ magic \in [Adapters -> BOOLEAN] /\ intr \in [Adapters -> Handles \cup {0}]

MainRange ==
    /\ spc \in {"idle", "publish", "number", "insert", "clear", "remove", "down",
               "crashed"}
    /\ sh \in Handles \cup {0} /\ todo \in Seq(Handles)
    /\ enables \in 0..MaxEnables

CbRange ==
    /\ inbox \in [Handles -> Seq(Requests)]
    /\ cbpc \in [Handles -> {"idle", "filter", "lock", "execute", "reply"}]
    /\ cbreq \in [Handles -> Requests \cup {0}]
    /\ reply \in [Handles -> ReplyType]

ClientRange ==
    /\ cpc \in [Clients -> {"unbound", "read", "connect", "ready", "wait"}]
    /\ crq \in [Clients -> Requests \cup {0}]
    /\ at \in [Clients -> 0..MaxAdapter]
    /\ bound \in [Clients -> Handles \cup {0}]
    /\ num \in [Clients -> IntrNos \cup {"none"}]
    /\ from \in [Requests -> IntrNos \cup {"none"}]
    /\ mbox \in [Clients -> Seq(ReplyType)]
    /\ reqs \in 0..MaxReqs /\ late \in BOOLEAN
    /\ sender \in [Requests -> Clients \cup {"none"}]
    /\ result \in [Requests -> ResultType]

Ranges == ListRange /\ ShmRange /\ MainRange /\ CbRange /\ ClientRange

\* Every variable stays in its range, and the keys in the list of handles are
\* distinct (_nvm_rpc_handle_insert).
TypeOK == Ranges /\ Cardinality(Keys) = Len(handles)

\* The callback of a handle never runs after the handle was freed: disabling an
\* adapter and destroying the queues wait for it.
CallbackHandleAlive ==
    spc # "crashed" => \A h \in Handles : cbpc[h] # "idle" => h \in alloc

\* An interrupt number in shared device memory is that of an interrupt that
\* exists, whose handle is allocated: it is stored after the interrupt was
\* created and cleared before it is removed.
PublishedLive ==
    ~MapFails /\ spc # "crashed" =>
        \A a \in Adapters : intr[a] # 0 => intr[a] \in live \cap alloc

\* nvm_dis_rpc_enable "allows remote processes to relay": between calls, every
\* handle in the list can be found by clients.
EnabledPublished ==
    ~MapFails /\ spc = "idle" =>
        \A i \in 1..Len(handles) :
            LET a == adp[handles[i]] IN magic[a] /\ intr[a] = handles[i]

\* The reply to a call goes to another call only after the call itself has
\* returned: while it waits nobody else takes it, although replies are sent to
\* interrupt numbers and those are given out again, to the same client or to
\* another one.
NoReplyStolen ==
    \A r, s \in 1..reqs : result[s].of = r /\ s # r => result[r].err # "none"

\* No reply is taken for two requests.
RepliedOnce ==
    \A r, s \in 1..reqs :
        result[r].of # 0 /\ result[r].of = result[s].of => r = s

\* nvm_raw_rpc on a bound reference gets "a corresponding completion".
CorrespondingReply ==
    \A r \in 1..reqs : result[r].of # 0 => result[r].of = r

\* While no call has given up waiting, every reply a client takes is the one to its
\* request, through binding, unbinding and a server that goes away.
OwnUnlessLate == ~late => CorrespondingReply

\* nvm_dis_rpc_disable and nvm_aq_destroy return.
DisableReturns == spc = "remove" ~> spc # "remove"
=============================================================================
