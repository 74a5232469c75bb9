--------------------------- MODULE LatencyBenchInv ---------------------------
(***************************************************************************)
(* The inductive invariant of LatencyBench.  The barrier: a thread is       *)
(* inside from its arrival until the flag turns, wherever in the spinning   *)
(* loop it is.  The queues, as long as no two threads share one: doorbells  *)
(* and phase tags agree with the positions, and what is on its way through  *)
(* a queue is never more than what its thread is waiting for.               *)
(***************************************************************************)
EXTENDS LatencyBench

ThreadPcs == {"none", "new", "repeat", "window", "fill", "wait", "spin", "zero", "raise",
              "submit", "reap", "flush", "flushed", "flushing", "done"}

-----------------------------------------------------------------------------
(* The barrier *)

Inside(i) == pc[i] \in {"zero", "raise"} \/ (pc[i] = "spin" /\ localFlag[i] # flag)
Insiders  == {i \in Queues : Inside(i)}
One(b)    == IF b THEN 1 ELSE 0

\* A thread that has reached the barrier and not yet submitted its window
Ahead(i) == pc[i] \in {"spin", "zero", "raise", "submit"}

BarrierType ==
    /\ plan.n \in Nat \ {0} /\ made \in Nat
    /\ pc \in [Queues -> ThreadPcs]
    /\ arrived \in Nat /\ flag \in Bit /\ localFlag \in [Queues -> Bit]
    /\ meets \in [Queues -> Nat] /\ sent \in [Queues -> Nat]

\* Threads are made in order.
MadeInOrder ==
    /\ mpc = "queues" => \A i \in Queues : pc[i] = "none"
    /\ mpc = "threads" => \A i \in Queues : i > made => pc[i] = "none"

\* While a thread opens the barrier every other one waits in it.
LastOpens ==
    \A k \in Queues : pc[k] \in {"zero", "raise"} =>
        localFlag[k] # flag /\ \A i \in Queues : i # k => pc[i] = "spin" /\ localFlag[i] # flag

\* arrived counts the threads inside, until the last one resets it.
Counted ==
    arrived = IF \E k \in Queues : pc[k] = "raise" THEN 0 ELSE Cardinality(Insiders)

\* All threads have passed the barrier equally often.
EqualPasses ==
    \A i, j \in Queues : meets[i] - One(Inside(i)) = meets[j] - One(Inside(j))

\* A thread submits a window after each meeting.
SubmitsAfter == \A i \in Queues : sent[i] = meets[i] - One(Ahead(i))

BarrierInv == BarrierType /\ MadeInOrder /\ LastOpens /\ Counted /\ EqualPasses /\ SubmitsAfter

-----------------------------------------------------------------------------
(* The queues *)

N == plan.entries

Ids       == Nat \X Nat \X Nat
Command   == [id : Ids, list : 0..Depth]
DevQueue  == [cqsize : {0, N}, sqsize : {0, N}, head : Slots, tail : Slots, phase : Bit,
              executing : SUBSET Command]

\* The values of threads and queues.
ThreadType ==
    /\ rep \in [Queues -> Nat] /\ pos \in [Queues -> Nat]
    /\ count \in [Queues -> 0..Depth] /\ reaped \in [Queues -> 0..Depth]
    /\ mine \in [Queues -> 0..plan.n] /\ made \in 0..plan.n
    /\ \A i \in Queues : Len(plan.transfers[i]) \in Nat
QueueType ==
    /\ N \in Nat \ {0}
    /\ sq \in [Queues -> InRing(N)] /\ cq \in [Queues -> InRing(N)]
    /\ sqmem \in [Queues -> [Slots -> Command]]
    /\ cqmem \in [Queues -> [Slots -> [phase : Bit]]]
    /\ prp \in [Queues -> [1..Depth -> Ids]]
    /\ sqdb \in [Queues -> Slots] /\ cqdb \in [Queues -> Slots]
    /\ dev \in [Queues -> DevQueue]

Filling == {"fill", "wait", "spin", "zero", "raise", "submit"}

\* Where a thread is in its transfers and its window.
Places ==
    \A i \in Queues :
        /\ pc[i] \in {"none", "new"} => mine[i] = 0 /\ pos[i] = 0
        /\ pc[i] \notin {"none", "new"} => mine[i] \in Queues /\ pos[i] <= Len(plan.transfers[mine[i]])
        /\ reaped[i] <= count[i] /\ (pc[i] \in Filling => reaped[i] = 0)

\* The controller executes nothing before it has both queues, whose sizes agree with the
\* host's.
Created ==
    \A j \in Queues : /\ dev[j].sqsize # 0 => dev[j].cqsize # 0
                      /\ dev[j].executing # {} => dev[j].sqsize # 0
                      /\ IsFiniteSet(dev[j].executing)

\* The doorbells hold what the host believes they do.
Rung ==
    \A j \in Queues : sqdb[j] = sq[j].last /\ cqdb[j] = cq[j].head /\ cq[j].last = cq[j].head

\* Entries of this lap of the controller have its phase, the others the opposite one.
Tag(j, before) == IF before THEN dev[j].phase ELSE 1 - dev[j].phase
Tags ==
    \A j \in Queues : /\ \A k \in Slots : cqmem[j][k].phase = Tag(j, k < dev[j].tail)
                      /\ cq[j].phase = Tag(j, cq[j].head <= dev[j].tail)

-----------------------------------------------------------------------------
(* Queues that belong to one thread *)

\* Commands a thread has put into its queue and not yet reaped; and not yet submitted
InFlight(i) == IF pc[i] \in Filling THEN count[i]
               ELSE IF pc[i] = "reap" THEN count[i] - reaped[i]
               ELSE IF pc[i] \in {"flushed", "flushing"} THEN 1 ELSE 0
Unsent(i)   == IF pc[i] \in Filling THEN count[i] ELSE IF pc[i] = "flushed" THEN 1 ELSE 0

\* The thread waits for everything that is with the controller.
Awaited(j) ==
    /\ Dist(dev[j].head, sqdb[j], N) + Cardinality(dev[j].executing)
          + Dist(cq[j].head, dev[j].tail, N) + Unsent(j) <= InFlight(j)
    /\ Dist(sqdb[j], sq[j].tail, N) <= Unsent(j)

\* The PRP list of a command is one of the window's, and still the one it was built with.
ListKept(c, n, lists) == c.list # 0 => c.list <= n /\ lists[c.list] = c.id
ListsKept(j) ==
    /\ \A c \in dev[j].executing : ListKept(c, count[j], prp[j])
    /\ \A k \in Slots : Dist(dev[j].head, k, N) < Dist(dev[j].head, sq[j].tail, N)
                           => ListKept(sqmem[j][k], count[j], prp[j])

\* The submission queue holds what is in flight, if that fits.
Fits(j) == Depth < N => Dist(sq[j].head, sq[j].tail, N) = InFlight(j)

OwnQueue(j) == Awaited(j) /\ ListsKept(j) /\ Fits(j)
Owned       == ~Shared => \A j \in Queues : OwnQueue(j)

\* When main unmaps the queues every thread is done.
Finished == mpc = "exit" => \A i \in Queues : pc[i] = "done"

\* What holds of every queue while each is worked on by its own thread only
Rings == ~Shared => QueueType /\ Created /\ Rung /\ Tags

QueueInv == ThreadType /\ Rings /\ Places /\ Owned /\ FullOnlyWhere /\ Finished

IInv == BarrierInv /\ QueueInv
==============================================================================
