--------------------------- MODULE ClusterRpcInv ----------------------------
(***************************************************************************)
(* The inductive invariant of ClusterRpc: which handles the main thread of  *)
(* the server is at, who can have seen which interrupt number, and where    *)
(* between its sender and its reply each request is.  Proved inductive in   *)
(* ClusterRpcProofs.                                                        *)
(***************************************************************************)
EXTENDS ClusterRpc

\* The main thread has made handle sh and not inserted it yet, or releases it.
Making    == spc \in {"publish", "number", "insert"}
Releasing == spc \in {"clear", "remove"}

\* Handles are numbered as they are made, no two handles of the list have the
\* same key, and the handle being released is the first one still to release.
MainPlaces ==
    /\ Making \/ Releasing => sh \in 1..enables
    /\ Releasing <=> todo # <<>>
    /\ Releasing => sh = Head(todo)
    /\ \A i \in 1..Len(handles) : handles[i] <= enables
    /\ \A i \in 1..Len(todo) : todo[i] <= enables
    /\ \A i, j \in 1..Len(handles) : adp[handles[i]] = adp[handles[j]] => i = j

\* Nobody has seen the number of a handle before it is published, and the
\* number of an interrupt that was left behind (EnableMapFails) never gets out:
\* every interrupt a client can reach, and every callback, has its handle.
Seen(h) ==
    \/ inbox[h] # <<>> \/ cbpc[h] # "idle"
    \/ \E a \in Adapters : intr[a] = h
    \/ \E c \in Clients : bound[c] = h

SeenAlive ==
    /\ \A h \in Handles : Seen(h) => h <= enables
    /\ spc = "publish" => ~Seen(sh)
    /\ Making => sh \in alloc
    /\ spc # "crashed" => \A h \in live : Seen(h) => h \in alloc
    /\ spc # "crashed" => \A h \in Handles :
                              inbox[h] # <<>> \/ cbpc[h] # "idle" => h \in alloc

\* When the shared segment can always be mapped, an entry names a handle of its
\* adapter that is not about to be freed.
EntryAlive ==
    ~MapFails /\ spc # "crashed" =>
        /\ Making => sh \in live
        /\ \A a \in Adapters : intr[a] # 0 =>
              /\ intr[a] \in live \cap alloc /\ adp[intr[a]] = a
              /\ spc = "remove" => intr[a] # sh

\* When besides no adapter is enabled twice, the handles of the list are
\* published, and the main thread is at work on an adapter without one.
ListPublished ==
    ~MapFails /\ ~Reenable =>
        /\ \A i \in 1..Len(handles) :
              magic[adp[handles[i]]] /\ intr[adp[handles[i]]] = handles[i]
        /\ Making => adp[sh] \notin Keys
        /\ \A i \in 1..Len(todo) : adp[todo[i]] \notin Keys
        /\ spc \in {"number", "insert"} => magic[adp[sh]]
        /\ spc = "insert" => intr[adp[sh]] = sh

\* A client that connects does so to what it read in an entry.
Looking == \A c \in Clients : cpc[c] = "connect" => at[c] \in Adapters

-----------------------------------------------------------------------------
(* The way of a request *)

\* Request r waits at an interrupt of the server, is in a callback, has its
\* reply in a client's mailbox, or was taken as the answer to a call.
Queued(r)  == \E h \in Handles : \E i \in 1..Len(inbox[h]) : inbox[h][i] = r
Served(r)  == \E h \in Handles : cbpc[h] # "idle" /\ cbreq[h] = r
Replied(r) == \E c \in Clients : \E i \in 1..Len(mbox[c]) : mbox[c][i].of = r
Taken(r)   == \E s \in Requests : result[s].of = r

\* Requests are numbered as they are sent.
Numbered ==
    /\ \A r \in Requests : Queued(r) \/ Served(r) => r <= reqs
    /\ \A r \in 1..reqs : sender[r] \in Clients

\* A callback that runs has a request, and its reply is to that request.
Answering ==
    \A h \in Handles :
        /\ cbpc[h] # "idle" => cbreq[h] # 0
        /\ cbpc[h] = "reply" => reply[h].of = cbreq[h]

\* No two clients that are bound have interrupts of the same number.
Apart ==
    \A c, d \in Clients :
        cpc[c] # "unbound" /\ cpc[d] # "unbound" /\ num[c] = num[d] => c = d

\* A client's mailbox has replies to requests that carried its number, and is
\* gone with its interrupt.
Addressed ==
    \A c \in Clients : \A i \in 1..Len(mbox[c]) :
        /\ cpc[c] # "unbound"
        /\ mbox[c][i].of \in 1..reqs /\ from[mbox[c][i].of] = num[c]

\* A client waits for a request of its own, sent with the number it has.
Waiting ==
    \A c \in Clients : cpc[c] = "wait" =>
        /\ crq[c] \in 1..reqs /\ sender[crq[c]] = c
        /\ from[crq[c]] = num[c]

\* A call that has not returned is the one its client waits in.
Pending ==
    \A r \in 1..reqs : result[r].err = "none" =>
        cpc[sender[r]] = "wait" /\ crq[sender[r]] = r

\* What a call returned is the reply to a request that was sent, and not to
\* another call that still waits.
Returned ==
    \A s \in Requests : result[s].of # 0 =>
        /\ s <= reqs /\ result[s].of <= reqs
        /\ result[s].of # s => result[result[s].of].err # "none"

Flow == Numbered /\ Answering /\ Apart /\ Addressed /\ Waiting /\ Pending /\ Returned

\* A request is in one stage at a time, and there at one place.
OneStage ==
    \A r \in Requests :
        /\ Queued(r) => ~Served(r) /\ ~Replied(r) /\ ~Taken(r)
        /\ Served(r) => ~Replied(r) /\ ~Taken(r)
        /\ Replied(r) => ~Taken(r)

QueuedOnce ==
    \A h, g \in Handles : \A i \in 1..Len(inbox[h]), j \in 1..Len(inbox[g]) :
        inbox[h][i] = inbox[g][j] => h = g /\ i = j

ServedOnce ==
    \A h, g \in Handles :
        cbpc[h] # "idle" /\ cbpc[g] # "idle" /\ cbreq[h] = cbreq[g] => h = g

MailedOnce ==
    \A c, d \in Clients : \A i \in 1..Len(mbox[c]), j \in 1..Len(mbox[d]) :
        mbox[c][i].of = mbox[d][j].of => c = d /\ i = j

TakenOnce ==
    \A s, t \in Requests :
        result[s].of # 0 /\ result[s].of = result[t].of => s = t

Once == OneStage /\ QueuedOnce /\ ServedOnce /\ MailedOnce /\ TakenOnce

\* Before a call has given up waiting, a request on its way is the one its sender waits
\* for.
Awaited ==
    ~late =>
        /\ \A r \in 1..reqs : Queued(r) \/ Served(r) \/ Replied(r) =>
              cpc[sender[r]] = "wait" /\ crq[sender[r]] = r
        /\ CorrespondingReply

IInv == /\ Ranges /\ MainPlaces /\ SeenAlive /\ EntryAlive /\ ListPublished /\ Looking
        /\ Flow /\ Once /\ Awaited
=============================================================================
