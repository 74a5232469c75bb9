---------------------------- MODULE AdminQueueInv ----------------------------
(***************************************************************************)
(* The inductive invariant of AdminQueue, in layers: values and the lock;   *)
(* how the steps of nvm_aq_create and the state of the controller go        *)
(* together; the positions in the rings, as long as the window was clean    *)
(* when the controller was configured; the stages of a call as long as no   *)
(* call has timed out; and where the number of a call can be.               *)
(***************************************************************************)
EXTENDS AdminQueue, FiniteSets

\* Host and controller have rings of the same size, which divides the range of the
\* counters.
RingsAgree == N = AqaSq /\ M = AqaCq /\ Word % N = 0

One(b) == IF b THEN 1 ELSE 0

-----------------------------------------------------------------------------
(* The lock and the calls *)

Holding == {"enqueue", "submit", "wait", "finish", "unlock"}

Held    == \A t \in Threads : pc[t] \in Holding => lock = t
Calling == \A t \in Threads : pc[t] # "idle" => aqpc = "up" /\ call[t] \in 1..calls

CallInv == TypeOK /\ Held /\ Calling

-----------------------------------------------------------------------------
(* nvm_aq_create and the controller *)

\* The state a controller has after its reset
Off == dsqhd = 0 /\ executing = {} /\ dcqtl = 0 /\ nfetched = 0

DeviceModes ==
    /\ IsFiniteSet(executing)
    /\ ~rdy \/ ~cfg => Off
    /\ dphase = 1
    /\ creates = 0 => ~cfg
    /\ owned => en /\ cfg

CreateModes ==
    /\ aqpc # "none" => creates > 0
    /\ aqpc \in {"disable", "waitoff"} => ~owned
    /\ aqpc = "waitoff" => ~en
    /\ aqpc = "waiton" => owned
    /\ aqpc = "up" => owned \/ unreset
    /\ aqpc = "none" => owned \/ unreset \/ creates = 0

\* The queues are as create_admin left them until the reset is done; so are the
\* completions, unless a late one has come.
Clean ==
    /\ aqpc \in {"disable", "waitoff", "waiton"} =>
          asq = nvm_queue_clear(N) /\ acq = nvm_queue_clear(M) /\ issued = <<>>
    /\ aqpc \in {"disable", "waitoff"} /\ stale # creates =>
          \A i \in AcqSlots : acqmem[i].phase = 0

ModeInv == DeviceModes /\ CreateModes /\ Clean

-----------------------------------------------------------------------------
(* The rings *)

\* The head of the ASQ has yet to follow the head of the ACQ.
Finishing == \E t \in Threads : pc[t] = "finish"

\* What was enqueued, fetched, completed and read, in this order.
Counts ==
    /\ acq.phase = 1 /\ acq.head <= dcqtl
    /\ dcqtl + Cardinality(executing) <= nfetched
    /\ nfetched <= Len(issued)

\* Where the positions of the ASQ are for these counts.
Positions ==
    /\ Dist(asq.head, asq.tail, N) + acq.head = Len(issued) + One(Finishing)
    /\ Dist(dsqhd, asq.tail, N) = Len(issued) - nfetched
    /\ Dist(dsqhd, asqdb, N) <= Dist(dsqhd, asq.tail, N)

\* Every slot up to the tail holds the command enqueued there.
Holds(mem, is, h, t, f) ==
    \A i \in AsqSlots : Dist(h, i, N) < Dist(h, t, N) => mem[i] = is[f + Dist(h, i, N) + 1]
Contents == Holds(asqmem, issued, dsqhd, asq.tail, nfetched)

Tags == \A i \in AcqSlots : acqmem[i].phase = One(i < dcqtl)

Ring    == Counts /\ Positions /\ Contents /\ Tags
RingInv == owned /\ stale # creates => Ring

-----------------------------------------------------------------------------
(* Calls that are answered in time *)

InTime == ~timedout /\ ~unreset

\* The controller has nothing to do.
Quiet == executing = {} /\ (cfg => dsqhd = asqdb)

\* All commands were fetched, completed and read.
AllRead == nfetched = Len(issued) /\ dcqtl = Len(issued) /\ acq.head = Len(issued)

InCall == {"submit", "wait", "finish"}

\* The last command issued is k: not yet fetched, being executed, or completed.
NotFetched(k) == /\ executing = {} /\ nfetched = Len(issued) - 1
                 /\ dcqtl = nfetched /\ acq.head = nfetched /\ issued[Len(issued)] = k
InExecution(k) == /\ nfetched = Len(issued) /\ dcqtl = nfetched - 1
                  /\ acq.head = nfetched - 1 /\ \A c \in executing : c.call = k
Completed(k) == /\ executing = {} /\ nfetched = Len(issued) /\ dcqtl = nfetched
                /\ acq.head = nfetched - 1 /\ acqmem[acq.head].of = k

Stage(t) ==
    /\ pc[t] = "submit" => NotFetched(call[t]) /\ dsqhd = asqdb
    /\ pc[t] = "wait" => \/ NotFetched(call[t]) \/ InExecution(call[t])
                         \/ Completed(call[t])
    /\ pc[t] = "finish" => executing = {} /\ AllRead /\ acqmem[cplslot].of = call[t]

Stages == \A t \in Threads : Stage(t)

\* Nobody waits for the controller: it has nothing to do.
AtRest == (\A t \in Threads : pc[t] \notin InCall) => Quiet /\ (owned => AllRead)

OwnResults == \A k \in 1..MaxCalls : Answered(k) => result[k].of = k

PromptInv == InTime => stale = 0 /\ AtRest /\ Stages /\ OwnResults

-----------------------------------------------------------------------------
(* Where the number of a call is *)

\* The calls whose command the controller has not fetched, and may yet fetch
Unfetched ==
    {issued[p] : p \in (nfetched + 1)..Len(issued)}
       \cup {call[t] : t \in {u \in Threads : pc[u] \in {"lock", "enqueue"}}}
       \cup (calls + 1)..MaxCalls

\* Calls wait under different numbers.
Numbered ==
    /\ \A p, q \in 1..Len(issued) : p # q => issued[p] # issued[q]
    /\ \A p \in 1..Len(issued) : issued[p] <= calls
    /\ \A t \in Threads : pc[t] \in {"lock", "enqueue"} =>
          /\ \A p \in 1..Len(issued) : issued[p] # call[t]
          /\ \A u \in Threads : u # t /\ pc[u] # "idle" => call[u] # call[t]

\* The completions posted and not yet copied to a caller
Posted == (acq.head - One(Finishing))..(dcqtl - 1)

\* What is executed, posted and returned has been fetched, and is in one place.
ExecutedOnce ==
    \A c \in executing :
        c.call \notin Unfetched /\ \A e \in executing : c # e => c.call # e.call
PostedOnce ==
    \A i \in Posted :
        /\ acqmem[i].of \notin Unfetched
        /\ \A c \in executing : c.call # acqmem[i].of
        /\ \A j \in Posted : i # j => acqmem[i].of # acqmem[j].of
NotReturned ==
    \A k \in 1..MaxCalls : Answered(k) =>
        /\ \A c \in executing : c.call # result[k].of
        /\ \A i \in Posted : acqmem[i].of # result[k].of

InOnePlace ==
    /\ Finishing => cplslot = acq.head - 1
    /\ ExecutedOnce /\ PostedOnce /\ NotReturned

Returned ==
    /\ \A k \in 1..MaxCalls : Answered(k) => result[k].of \notin Unfetched
    /\ \A j, k \in 1..MaxCalls : Answered(j) /\ Answered(k) /\ j # k
                                    => result[j].of # result[k].of

OnceInv == ~unreset /\ stale = 0 => Numbered /\ Returned /\ (owned => InOnePlace)

-----------------------------------------------------------------------------
IInv == CallInv /\ ModeInv /\ RingInv /\ PromptInv /\ OnceInv
==============================================================================
