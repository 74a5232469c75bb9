-------------------------- MODULE ClusterRpcProofs --------------------------
(***************************************************************************)
(* Proofs about ClusterRpc for every set of clients and every number of     *)
(* adapters, handles and requests.                                          *)
(***************************************************************************)
EXTENDS ClusterRpcInv, FiniteSetTheorems, SequenceTheorems, TLAPS

-----------------------------------------------------------------------------
(* Sequences *)

\* What a queue holds after its first element was taken.
LEMMA TailFacts ==
    ASSUME NEW S, NEW s \in Seq(S), s # <<>>
    PROVE  /\ Len(s) \in Nat /\ Len(s) >= 1 /\ Head(s) = s[1] /\ Head(s) \in S
           /\ Tail(s) \in Seq(S) /\ Len(Tail(s)) = Len(s) - 1
           /\ \A i \in 1..Len(Tail(s)) : i + 1 \in 1..Len(s) /\ Tail(s)[i] = s[i + 1]
  OBVIOUS

\* What a queue holds after an element was added.
LEMMA AppendFacts ==
    ASSUME NEW S, NEW s \in Seq(S), NEW e \in S
    PROVE  /\ Append(s, e) \in Seq(S) /\ Len(Append(s, e)) = Len(s) + 1
           /\ Append(s, e) # <<>> /\ Len(s) \in Nat
           /\ \A i \in 1..Len(s) : Append(s, e)[i] = s[i]
           /\ Append(s, e)[Len(s) + 1] = e
  OBVIOUS

\* A list of one handle.
LEMMA OneFacts ==
    ASSUME NEW S, NEW e \in S
    PROVE  <<e>> \in Seq(S) /\ <<e>> # <<>> /\ Len(<<e>>) = 1 /\ Head(<<e>>) = e /\ <<e>>[1] = e
  OBVIOUS

\* The list _nvm_rpc_handle_remove leaves behind.
LEMMA WithoutFacts ==
    ASSUME NEW S, NEW s \in Seq(S), NEW k \in 1..Len(s)
    PROVE  /\ Without(s, k) \in Seq(S) /\ Len(Without(s, k)) = Len(s) - 1 /\ Len(s) \in Nat
           /\ \A i \in 1..(Len(s) - 1) :
                 Without(s, k)[i] = IF i < k THEN s[i] ELSE s[i + 1]
  <1> DEFINE p == SubSeq(s, 1, k - 1)
             q == SubSeq(s, k + 1, Len(s))
  <1>1. Len(s) \in Nat /\ k \in Nat /\ 1 <= k /\ k <= Len(s)
    OBVIOUS
  <1>2. p \in Seq(S) /\ Len(p) = k - 1 /\ \A i \in 1..(k - 1) : p[i] = s[i]
    BY <1>1
  <1>3. q \in Seq(S) /\ Len(q) = Len(s) - k /\ \A i \in 1..(Len(s) - k) : q[i] = s[k + i]
    BY <1>1
  <1> HIDE DEF p, q
  <1>4. /\ p \o q \in Seq(S) /\ Len(p \o q) = Len(p) + Len(q)
        /\ \A i \in 1..(Len(p) + Len(q)) :
              (p \o q)[i] = IF i <= Len(p) THEN p[i] ELSE q[i - Len(p)]
    BY <1>2, <1>3, ConcatProperties
  <1>5. Without(s, k) = p \o q
    BY DEF Without, p, q
  <1>6. ASSUME NEW i \in 1..(Len(s) - 1)
        PROVE  Without(s, k)[i] = IF i < k THEN s[i] ELSE s[i + 1]
    <2>1. i \in 1..(Len(p) + Len(q))
      BY <1>1, <1>2, <1>3
    <2>2. CASE i < k
      BY <1>1, <1>2, <1>4, <1>5, <2>1, <2>2
    <2>3. CASE i >= k
      <3>1. i - Len(p) \in 1..(Len(s) - k) /\ ~(i <= Len(p)) /\ k + (i - Len(p)) = i + 1
        BY <1>1, <1>2, <2>3
      <3> QED  BY <1>3, <1>4, <1>5, <2>1, <2>3, <3>1
    <2> QED  BY <1>1, <2>2, <2>3
  <1>7. Without(s, k) \in Seq(S) /\ Len(Without(s, k)) = Len(s) - 1
    <2>1. Len(p) + Len(q) = Len(s) - 1
      BY <1>1, <1>2, <1>3
    <2> QED  BY <1>4, <1>5, <2>1
  <1> QED  BY <1>1, <1>6, <1>7

-----------------------------------------------------------------------------
(* Ranges *)

\* While the main thread is at a handle, it is one that was made.
LEMMA CurrentHandle ==
    ASSUME Ranges, MainPlaces, Making \/ Releasing
    PROVE  sh \in Handles /\ sh \in 1..enables /\ adp[sh] \in Adapters
  BY ClusterAssumption DEF MainPlaces, Ranges, ListRange, MainRange, Handles

\* Making and releasing exclude each other.
LEMMA PlacesApart ==
    /\ spc \in {"idle", "down", "crashed"} => ~Making /\ ~Releasing
    /\ Making => ~Releasing
    /\ spc \in {"publish", "number", "insert"} <=> Making
    /\ spc \in {"clear", "remove"} <=> Releasing
  BY DEF Making, Releasing

\* The replies a callback builds.
LEMMA ReplyRange ==
    ASSUME Ranges, NEW h \in Handles, NEW rej \in BOOLEAN
    PROVE  [of |-> cbreq[h], rejected |-> rej] \in ReplyType
  <1>1. cbreq[h] \in 0..MaxReqs
    BY ClusterAssumption DEF Ranges, CbRange, Requests
  <1> QED  BY <1>1 DEF ReplyType

\* The handle nvm_dis_rpc_disable finds in the list.
LEMMA FoundHandle ==
    ASSUME Ranges, NEW a \in Adapters, a \in Keys,
           NEW k, k = CHOOSE i \in 1..Len(handles) : adp[handles[i]] = a
    PROVE  k \in 1..Len(handles) /\ adp[handles[k]] = a /\ handles[k] \in Handles
  BY DEF Keys, Ranges, ListRange

\* The list of handles, the handles and the lock stay in their ranges.
LEMMA ListRangeStep ==
    ASSUME Ranges, MainPlaces, [Next]_vars
    PROVE  ListRange'
  <1> USE DEF Ranges, ListRange, MainRange
  <1>1. ASSUME NEW a \in Adapters, EnableCreate(a)
        PROVE  ListRange'
    BY <1>1, ClusterAssumption DEF EnableCreate, Handles
  <1>2. ASSUME NEW a \in Adapters, DisableFind(a)
        PROVE  ListRange'
    <2>1. CASE a \in Keys
      <3> DEFINE k == CHOOSE i \in 1..Len(handles) : adp[handles[i]] = a
      <3>1. k \in 1..Len(handles)
        BY <2>1, FoundHandle
      <3>2. Without(handles, k) \in Seq(Handles)
        BY <3>1, WithoutFacts
      <3> QED  BY <1>2, <2>1, <3>2 DEF DisableFind
    <2>2. CASE a \notin Keys
      BY <1>2, <2>2 DEF DisableFind
    <2> QED  BY <2>1, <2>2
  <1>3. ASSUME EnableMapFails
        PROVE  ListRange'
    BY <1>3 DEF EnableMapFails
  <1>4. ASSUME EnableInsert
        PROVE  ListRange'
    BY <1>4, CurrentHandle DEF EnableInsert, Making
  <1>5. ASSUME Destroy
        PROVE  ListRange'
    BY <1>5 DEF Destroy
  <1>6. ASSUME ReleaseRemove
        PROVE  ListRange'
    BY <1>6 DEF ReleaseRemove
  <1>7. ASSUME NEW h \in Handles, CbLock(h)
        PROVE  ListRange'
    BY <1>7 DEF CbLock
  <1>8. ASSUME NEW h \in Handles, CbExecute(h)
        PROVE  ListRange'
    BY <1>8 DEF CbExecute
  <1>9. CASE UNCHANGED listVars
    BY <1>9 DEF listVars
  <1> QED
    BY <1>1, <1>2, <1>3, <1>4, <1>5, <1>6, <1>7, <1>8, <1>9
    DEF Next, Main, Callback, Client, vars, listVars, shmVars, mainVars, cbVars,
        clientVars,
        EnableMagic, EnableNumber, ReleaseClear, CbStart, CbFilter, CbReply, Bind,
            BindRead, BindConnect, Send, Receive, Expire, Unbind

\* The entries in shared device memory stay in their ranges.
LEMMA ShmRangeStep ==
    ASSUME Ranges, MainPlaces, [Next]_vars
    PROVE  ShmRange'
  <1> USE DEF Ranges, ListRange, MainRange, ShmRange
  <1>1. ASSUME EnableMagic
        PROVE  ShmRange'
    BY <1>1 DEF EnableMagic
  <1>2. ASSUME EnableNumber
        PROVE  ShmRange'
    BY <1>2 DEF EnableNumber
  <1>3. ASSUME ReleaseClear
        PROVE  ShmRange'
    BY <1>3 DEF ReleaseClear, shmVars
  <1>4. CASE UNCHANGED shmVars
    BY <1>4 DEF shmVars
  <1> QED
    BY <1>1, <1>2, <1>3, <1>4
    DEF Next, Main, Callback, Client, vars, listVars, shmVars, mainVars, cbVars,
        clientVars,
        EnableCreate, DisableFind, EnableMapFails, EnableInsert, Destroy, ReleaseRemove,
            CbStart, CbFilter, CbLock, CbExecute, CbReply, Bind, BindRead, BindConnect,
            Send, Receive, Expire, Unbind

\* The place and the handles of the main thread stay in their ranges.
LEMMA MainRangeStep ==
    ASSUME Ranges, MainPlaces, [Next]_vars
    PROVE  MainRange'
  <1> USE ClusterAssumption DEF Ranges, ListRange, MainRange
  <1>1. ASSUME NEW a \in Adapters, EnableCreate(a)
        PROVE  MainRange'
    BY <1>1 DEF EnableCreate, Handles
  <1>2. ASSUME NEW a \in Adapters, DisableFind(a)
        PROVE  MainRange'
    <2>1. CASE a \in Keys
      <3> DEFINE k == CHOOSE i \in 1..Len(handles) : adp[handles[i]] = a
      <3>1. handles[k] \in Handles
        BY <2>1, FoundHandle
      <3> HIDE DEF k
      <3>2. <<handles[k]>> \in Seq(Handles)
        BY <3>1
      <3> QED  BY <1>2, <2>1, <3>1, <3>2 DEF DisableFind, k
    <2>2. CASE a \notin Keys
      BY <1>2, <2>2 DEF DisableFind
    <2> QED  BY <2>1, <2>2
  <1>3. ASSUME EnableMagic
        PROVE  MainRange'
    BY <1>3 DEF EnableMagic
  <1>4. ASSUME EnableNumber
        PROVE  MainRange'
    BY <1>4 DEF EnableNumber
  <1>5. ASSUME EnableMapFails
        PROVE  MainRange'
    BY <1>5 DEF EnableMapFails
  <1>6. ASSUME EnableInsert
        PROVE  MainRange'
    <2>1. sh \in Handles /\ <<sh>> \in Seq(Handles)
      BY <1>6, CurrentHandle DEF EnableInsert, Making
    <2> QED  BY <1>6, <2>1 DEF EnableInsert
  <1>7. ASSUME Destroy
        PROVE  MainRange'
    BY <1>7 DEF Destroy
  <1>8. ASSUME ReleaseClear
        PROVE  MainRange'
    BY <1>8 DEF ReleaseClear
  <1>9. ASSUME ReleaseRemove
        PROVE  MainRange'
    <2>1. todo # <<>>
      BY <1>9, PlacesApart DEF ReleaseRemove, MainPlaces
    <2>2. Tail(todo) \in Seq(Handles) /\ (Tail(todo) # <<>> => Head(Tail(todo)) \in Handles)
      BY <2>1, TailFacts
    <2> QED  BY <1>9, <2>2 DEF ReleaseRemove
  <1>10. CASE UNCHANGED mainVars
    BY <1>10 DEF mainVars
  <1> QED
    BY <1>1, <1>2, <1>3, <1>4, <1>5, <1>6, <1>7, <1>8, <1>9, <1>10
    DEF Next, Main, Callback, Client, vars, listVars, shmVars, mainVars, cbVars,
        clientVars,
        CbStart, CbFilter, CbLock, CbExecute, CbReply, Bind, BindRead, BindConnect,
            Send, Receive, Expire, Unbind

\* The callbacks and the requests they are triggered with stay in their ranges.
LEMMA CbRangeStep ==
    ASSUME Ranges, MainPlaces, Flow, [Next]_vars
    PROVE  CbRange'
  <1> USE ClusterAssumption DEF Ranges, CbRange
  <1>1. ASSUME ReleaseRemove
        PROVE  CbRange'
    BY <1>1, CurrentHandle, PlacesApart DEF ReleaseRemove, cbVars
  <1>2. ASSUME NEW h \in Handles, CbStart(h)
        PROVE  CbRange'
    <2>1. Head(inbox[h]) \in Requests /\ Tail(inbox[h]) \in Seq(Requests)
      BY <1>2, TailFacts DEF CbStart
    <2> QED  BY <1>2, <2>1 DEF CbStart
  <1>3. ASSUME NEW h \in Handles, CbFilter(h)
        PROVE  CbRange'
    <2>1. [of |-> cbreq[h], rejected |-> TRUE] \in ReplyType
      BY ReplyRange
    <2> QED  BY <1>3, <2>1 DEF CbFilter
  <1>4. ASSUME NEW h \in Handles, CbLock(h)
        PROVE  CbRange'
    BY <1>4 DEF CbLock
  <1>5. ASSUME NEW h \in Handles, CbExecute(h)
        PROVE  CbRange'
    <2>1. [of |-> cbreq[h], rejected |-> FALSE] \in ReplyType
      BY ReplyRange
    <2> QED  BY <1>5, <2>1 DEF CbExecute
  <1>6. ASSUME NEW h \in Handles, CbReply(h)
        PROVE  CbRange'
    <2>1. NoReply \in ReplyType
      BY DEF NoReply, ReplyType
    <2> QED  BY <1>6, <2>1 DEF CbReply
  <1>7. ASSUME NEW c \in Clients, Send(c)
        PROVE  CbRange'
    <2> DEFINE r == reqs + 1
    <2>1. r \in Requests
      BY <1>7 DEF Send, ClientRange, Requests
    <2>2. CASE bound[c] \in live
      <3>1. inbox[bound[c]] \in Seq(Requests) /\ bound[c] \in Handles
        BY <2>2 DEF ListRange
      <3>2. Append(inbox[bound[c]], r) \in Seq(Requests)
        BY <2>1, <3>1
      <3> QED  BY <1>7, <2>2, <3>1, <3>2 DEF Send, cbVars
    <2>3. CASE bound[c] \notin live
      BY <1>7, <2>3 DEF Send, cbVars
    <2> QED  BY <2>2, <2>3
  <1>8. CASE UNCHANGED <<inbox, cbVars>>
    BY <1>8 DEF cbVars
  <1> QED
    BY <1>1, <1>2, <1>3, <1>4, <1>5, <1>6, <1>7, <1>8
    DEF Next, Main, Callback, Client, vars, listVars, shmVars, mainVars, cbVars,
        clientVars,
        EnableCreate, DisableFind, EnableMagic, EnableNumber, EnableMapFails,
            EnableInsert, Destroy, ReleaseClear, Bind, BindRead, BindConnect, Receive,
            Expire, Unbind

\* What the clients keep, and what their calls returned, stays in its range.
LEMMA ClientRangeStep ==
    ASSUME Ranges, MainPlaces, Flow, Looking, [Next]_vars
    PROVE  ClientRange'
  <1> USE ClusterAssumption DEF Ranges, ClientRange
  <1>1. ASSUME NEW h \in Handles, CbReply(h)
        PROVE  ClientRange'
    <2>1. reply[h] \in ReplyType
      BY DEF CbRange
    <2>2. ASSUME NEW d \in Clients PROVE Append(mbox[d], reply[h]) \in Seq(ReplyType)
      BY <2>1
    <2>3. mbox' \in [Clients -> Seq(ReplyType)]
      BY <1>1, <2>2 DEF CbReply
    <2> QED  BY <1>1, <2>3 DEF CbReply, clientVars
  <1>2. ASSUME NEW c \in Clients, Bind(c)
        PROVE  ClientRange'
    <2>1. num' \in [Clients -> IntrNos \cup {"none"}]
      BY <1>2 DEF Bind
    <2> QED  BY <1>2, <2>1 DEF Bind
  <1>3. ASSUME NEW c \in Clients, BindRead(c)
        PROVE  ClientRange'
    <2>1. CASE at[c] = MaxAdapter
      <3>1. /\ mbox' = [mbox EXCEPT ![c] = <<>>] /\ at' = [at EXCEPT ![c] = 0]
            /\ cpc' = [cpc EXCEPT ![c] = "unbound"] /\ num' = [num EXCEPT ![c] = "none"]
            /\ UNCHANGED <<bound, crq, from, reqs, sender, result, late>>
        BY <1>3, <2>1 DEF BindRead
      <3>2. mbox' \in [Clients -> Seq(ReplyType)]
        BY <3>1
      <3> QED  BY <3>1, <3>2
    <2>2. CASE at[c] # MaxAdapter
      <3>1. at[c] \in Adapters /\ at[c] + 1 \in 0..MaxAdapter
        BY <2>2 DEF Adapters
      <3> QED  BY <1>3, <2>2, <3>1 DEF BindRead, ShmRange
    <2> QED  BY <2>1, <2>2
  <1>4. ASSUME NEW c \in Clients, BindConnect(c)
        PROVE  ClientRange'
    <2>1. at[c] + 1 \in 0..MaxAdapter
      BY <1>4 DEF BindConnect, Looking, Adapters
    <2>2. /\ at' = [at EXCEPT ![c] = 0] \/ at' = [at EXCEPT ![c] = at[c] + 1]
          /\ bound' = bound \/ bound' = [bound EXCEPT ![c] = 0]
          /\ cpc' = [cpc EXCEPT ![c] = "ready"] \/ cpc' = [cpc EXCEPT ![c] = "read"]
          /\ UNCHANGED <<crq, num, from, reqs, sender, result, late, mbox>>
      BY <1>4 DEF BindConnect
    <2>3. at' \in [Clients -> 0..MaxAdapter]
      <3>1. 0 \in 0..MaxAdapter
        OBVIOUS
      <3>2. PICK k \in 0..MaxAdapter : at' = [at EXCEPT ![c] = k]
        BY <2>1, <2>2, <3>1
      <3> QED  BY <3>2
    <2>4. bound' \in [Clients -> Handles \cup {0}]
      BY <2>2
    <2> QED  BY <2>2, <2>3, <2>4
  <1>5. ASSUME NEW c \in Clients, Send(c)
        PROVE  ClientRange'
    <2>1. reqs + 1 \in Requests /\ reqs + 1 \in 0..MaxReqs
      BY <1>5 DEF Send, Requests
    <2>2. [result[reqs + 1] EXCEPT !.err = "ENOTCONN"] \in ResultType
      BY <2>1 DEF ResultType
    <2>3. result' \in [Requests -> ResultType]
      BY <1>5, <2>1, <2>2 DEF Send
    <2>4. crq' \in [Clients -> Requests \cup {0}]
      BY <1>5, <2>1 DEF Send
    <2>5. /\ sender' \in [Requests -> Clients \cup {"none"}]
          /\ from' \in [Requests -> IntrNos \cup {"none"}]
      BY <1>5, <2>1 DEF Send
    <2> QED  BY <1>5, <2>1, <2>3, <2>4, <2>5 DEF Send
  <1>6. ASSUME NEW c \in Clients, Receive(c)
        PROVE  ClientRange'
    <2> DEFINE rep == Head(mbox[c])
    <2>1. rep \in ReplyType /\ Tail(mbox[c]) \in Seq(ReplyType)
      BY <1>6, TailFacts DEF Receive
    <2>2. PICK e \in {"EPERM", "ok"} :
             result' = [result EXCEPT ![crq[c]] = [err |-> e, of |-> rep.of]]
      BY <1>6 DEF Receive
    <2>3. [err |-> e, of |-> rep.of] \in ResultType
      BY <2>1 DEF ReplyType, ResultType
    <2>4. result' \in [Requests -> ResultType] /\ mbox' \in [Clients -> Seq(ReplyType)]
      BY <1>6, <2>1, <2>2, <2>3 DEF Receive
    <2> QED  BY <1>6, <2>4 DEF Receive
  <1>7. ASSUME NEW c \in Clients, Expire(c)
        PROVE  ClientRange'
    <2>1. PICK e \in {"ETIMEDOUT", "EIO"} : result' = [result EXCEPT ![crq[c]].err = e]
      BY <1>7 DEF Expire
    <2>2. crq[c] \in Requests => [result[crq[c]] EXCEPT !.err = e] \in ResultType
      BY DEF ResultType
    <2>3. result' \in [Requests -> ResultType]
      BY <2>1, <2>2
    <2> QED  BY <1>7, <2>3 DEF Expire
  <1>8. ASSUME NEW c \in Clients, Unbind(c)
        PROVE  ClientRange'
    BY <1>8 DEF Unbind
  <1>9. CASE UNCHANGED <<clientVars, mbox>>
    BY <1>9 DEF clientVars
  <1> QED
    BY <1>1, <1>2, <1>3, <1>4, <1>5, <1>6, <1>7, <1>8, <1>9
    DEF Next, Main, Callback, Client, vars, listVars, shmVars, mainVars, cbVars,
        clientVars,
        EnableCreate, DisableFind, EnableMagic, EnableNumber, EnableMapFails,
            EnableInsert, Destroy, ReleaseClear, ReleaseRemove, CbStart, CbFilter,
            CbLock, CbExecute

\* Every variable stays in its range.
LEMMA RangesStep ==
    ASSUME Ranges, MainPlaces, Looking, Flow, [Next]_vars
    PROVE  Ranges'
  BY ListRangeStep, ShmRangeStep, MainRangeStep, CbRangeStep, ClientRangeStep DEF Ranges

\* A client connects to an entry it has read.
LEMMA LookingStep ==
    ASSUME Ranges, Looking, [Next]_vars
    PROVE  Looking'
  <1> USE ClusterAssumption DEF Ranges, ClientRange, Looking, Adapters
  <1>1. ASSUME NEW c \in Clients, Bind(c)
        PROVE  Looking'
    BY <1>1 DEF Bind
  <1>2. ASSUME NEW c \in Clients, BindRead(c)
        PROVE  Looking'
    <2>1. \A d \in Clients : d # c => cpc'[d] = cpc[d] /\ at'[d] = at[d]
      BY <1>2 DEF BindRead
    <2>2. cpc'[c] = "connect" => at'[c] = at[c] /\ at[c] # MaxAdapter
      BY <1>2 DEF BindRead
    <2>3. at[c] # MaxAdapter => at[c] \in 0..(MaxAdapter - 1)
      OBVIOUS
    <2>4. cpc'[c] = "connect" => at'[c] \in 0..(MaxAdapter - 1)
      BY <2>2, <2>3
    <2>5. \A d \in Clients : d # c /\ cpc'[d] = "connect" => at'[d] \in 0..(MaxAdapter - 1)
      BY <2>1
    <2> QED  BY <2>4, <2>5
  <1>3. ASSUME NEW c \in Clients, BindConnect(c)
        PROVE  Looking'
    BY <1>3 DEF BindConnect
  <1>4. ASSUME NEW c \in Clients, Send(c)
        PROVE  Looking'
    BY <1>4 DEF Send
  <1>5. ASSUME NEW c \in Clients, Receive(c)
        PROVE  Looking'
    BY <1>5 DEF Receive
  <1>6. ASSUME NEW c \in Clients, Expire(c)
        PROVE  Looking'
    BY <1>6 DEF Expire
  <1>7. ASSUME NEW c \in Clients, Unbind(c)
        PROVE  Looking'
    BY <1>7 DEF Unbind
  <1>8. CASE UNCHANGED clientVars
    BY <1>8 DEF clientVars
  <1> QED
    BY <1>1, <1>2, <1>3, <1>4, <1>5, <1>6, <1>7, <1>8
    DEF Next, Main, Callback, Client, vars, listVars, shmVars, mainVars, cbVars,
        clientVars,
        EnableCreate, DisableFind, EnableMagic, EnableNumber, EnableMapFails,
            EnableInsert, Destroy, ReleaseClear, ReleaseRemove, CbStart, CbFilter,
            CbLock, CbExecute, CbReply

-----------------------------------------------------------------------------
(* The main thread *)

\* The handles the main thread is at, and the keys in the list.
LEMMA MainPlacesStep ==
    ASSUME Ranges, MainPlaces, [Next]_vars
    PROVE  MainPlaces'
  <1> USE DEF MainPlaces
  <1>1. ASSUME NEW a \in Adapters, EnableCreate(a)
        PROVE  MainPlaces'
    <2>1. enables + 1 \in Handles /\ enables \in Nat
      BY <1>1, ClusterAssumption DEF EnableCreate, Ranges, MainRange, Handles
    <2>2. \A i \in 1..Len(handles) : handles[i] \in Handles /\ adp'[handles[i]] = adp[handles[i]]
      <3>1. \A i \in 1..Len(handles) : handles[i] \in Handles
        BY DEF Ranges, ListRange
      <3>2. \A i \in 1..Len(handles) : handles[i] # enables + 1
        BY <2>1, <3>1 DEF Handles
      <3> QED  BY <1>1, <2>1, <3>1, <3>2 DEF EnableCreate, Ranges, ListRange
    <2>3. Making' /\ ~Releasing' /\ ~Releasing
      BY <1>1 DEF EnableCreate, Making, Releasing
    <2>4. \A i \in 1..Len(todo) : todo[i] \in Nat
      <3>1. \A i \in 1..Len(todo) : todo[i] \in Handles
        BY DEF Ranges, MainRange
      <3> QED  BY <3>1 DEF Handles
    <2> QED  BY <1>1, <2>1, <2>2, <2>3, <2>4 DEF EnableCreate, Handles
  <1>2. ASSUME NEW a \in Adapters, DisableFind(a)
        PROVE  MainPlaces'
    <2>1. CASE a \in Keys
      <3> DEFINE k == CHOOSE i \in 1..Len(handles) : adp[handles[i]] = a
      <3>1. k \in 1..Len(handles) /\ handles[k] \in Handles
        BY <2>1, FoundHandle
      <3>2. /\ handles' = Without(handles, k) /\ todo' = <<handles[k]>> /\ sh' = handles[k]
            /\ spc' = "clear" /\ UNCHANGED <<adp, enables>>
        BY <1>2, <2>1 DEF DisableFind
      <3> HIDE DEF k
      <3>3. Releasing' /\ ~Making' /\ todo' # <<>> /\ sh' = Head(todo')
        BY <3>2 DEF Releasing, Making
      <3>4. sh' \in 1..enables' /\ \A i \in 1..Len(todo') : todo'[i] <= enables'
        BY <3>1, <3>2 DEF Handles
      <3>5. /\ Len(handles) \in Nat /\ Len(handles') = Len(handles) - 1
            /\ \A i \in 1..(Len(handles) - 1) :
                  handles'[i] = IF i < k THEN handles[i] ELSE handles[i + 1]
        BY <3>1, <3>2, WithoutFacts DEF Ranges, ListRange
      <3>6. \A i \in 1..Len(handles') : handles'[i] <= enables'
        BY <3>1, <3>2, <3>5
      <3>7. \A i, j \in 1..Len(handles') : adp'[handles'[i]] = adp'[handles'[j]] => i = j
        BY <3>1, <3>2, <3>5
      <3> QED  BY <3>3, <3>4, <3>6, <3>7
    <2>2. CASE a \notin Keys
      BY <1>2, <2>2 DEF DisableFind, Making, Releasing
    <2> QED  BY <2>1, <2>2
  <1>3. ASSUME EnableMagic
        PROVE  MainPlaces'
    BY <1>3 DEF EnableMagic, Making, Releasing, listVars
  <1>4. ASSUME EnableNumber
        PROVE  MainPlaces'
    BY <1>4 DEF EnableNumber, Making, Releasing, listVars
  <1>5. ASSUME EnableMapFails
        PROVE  MainPlaces'
    BY <1>5 DEF EnableMapFails, Making, Releasing
  <1>6. ASSUME EnableInsert
        PROVE  MainPlaces'
    <2>1. sh \in Handles /\ sh \in 1..enables /\ todo = <<>> /\ handles \in Seq(Handles)
      BY <1>6, CurrentHandle, PlacesApart DEF EnableInsert, Ranges, ListRange
    <2>2. CASE adp[sh] \in Keys
      <3>1. todo' = <<sh>> /\ UNCHANGED <<handles, adp, enables, sh>> /\ spc' = "clear"
        BY <1>6, <2>2 DEF EnableInsert
      <3>2. todo' # <<>> /\ Head(todo') = sh /\ \A i \in 1..Len(todo') : todo'[i] = sh
        BY <3>1
      <3>3. sh <= enables
        BY <2>1
      <3> QED  BY <2>1, <3>1, <3>2, <3>3 DEF Making, Releasing
    <2>3. CASE adp[sh] \notin Keys
      <3>1. handles' = Append(handles, sh) /\ UNCHANGED <<adp, enables, todo>> /\ spc' = "idle"
        BY <1>6, <2>3 DEF EnableInsert
      <3>2. /\ Len(handles) \in Nat /\ Len(handles') = Len(handles) + 1
            /\ \A i \in 1..Len(handles) : handles'[i] = handles[i]
            /\ handles'[Len(handles) + 1] = sh
        BY <2>1, <3>1, AppendFacts
      <3>3. \A i \in 1..Len(handles) : adp[handles[i]] # adp[sh]
        BY <2>3 DEF Keys
      <3>4. \A i \in 1..Len(handles') : handles'[i] <= enables'
        BY <2>1, <3>1, <3>2
      <3>5. \A i, j \in 1..Len(handles') : adp'[handles'[i]] = adp'[handles'[j]] => i = j
        BY <3>1, <3>2, <3>3
      <3> QED  BY <2>1, <3>1, <3>4, <3>5 DEF Making, Releasing
    <2> QED  BY <2>2, <2>3
  <1>7. ASSUME Destroy
        PROVE  MainPlaces'
    <2>1. CASE handles = <<>>
      BY <1>7, <2>1 DEF Destroy, Making, Releasing
    <2>2. CASE handles # <<>>
      <3>1. Head(handles) = handles[1] /\ 1 \in 1..Len(handles) /\ handles[1] \in Handles
        BY <2>2, TailFacts DEF Ranges, ListRange
      <3> QED  BY <1>7, <2>2, <3>1 DEF Destroy, Making, Releasing, Handles
    <2> QED  BY <2>1, <2>2
  <1>8. ASSUME ReleaseClear
        PROVE  MainPlaces'
    BY <1>8 DEF ReleaseClear, Making, Releasing, listVars
  <1>9. ASSUME ReleaseRemove
        PROVE  MainPlaces'
    <2>1. Releasing /\ todo # <<>> /\ todo \in Seq(Handles)
      BY <1>9, PlacesApart DEF ReleaseRemove, Ranges, MainRange
    <2> DEFINE more == Tail(todo)
    <2>2. /\ more \in Seq(Handles) /\ \A i \in 1..Len(more) : more[i] <= enables
          /\ more # <<>> => /\ Head(more) = more[1] /\ 1 \in 1..Len(more)
                            /\ more[1] \in Handles
      BY <2>1, TailFacts
    <2>3. more # <<>> => Head(more) \in 1..enables
      BY <2>2 DEF Handles
    <2>4. /\ todo' = more /\ UNCHANGED <<handles, adp, enables>>
          /\ IF more # <<>> THEN sh' = Head(more) /\ spc' = "clear"
                            ELSE spc' \in {"down", "idle"}
      BY <1>9 DEF ReleaseRemove
    <2> HIDE DEF more
    <2> QED  BY <2>2, <2>3, <2>4 DEF Making, Releasing
  <1>10. CASE UNCHANGED <<handles, adp, mainVars>>
    BY <1>10 DEF mainVars, Making, Releasing
  <1> QED
    BY <1>1, <1>2, <1>3, <1>4, <1>5, <1>6, <1>7, <1>8, <1>9, <1>10
    DEF Next, Main, Callback, Client, vars, listVars, shmVars, mainVars, cbVars,
        clientVars,
        CbStart, CbFilter, CbLock, CbExecute, CbReply, Bind, BindRead, BindConnect,
            Send, Receive, Expire, Unbind

-----------------------------------------------------------------------------
(* Who has seen which handle *)

\* A step that frees nothing, makes nothing and shows nobody a number it had
\* not seen.
LEMMA SeenNoMore ==
    ASSUME SeenAlive, UNCHANGED <<alloc, live, enables, sh>>,
           spc' = "publish" => spc = "publish", Making' => Making,
           spc = "crashed" => spc' = "crashed",
           \A h \in Handles : Seen(h)' => Seen(h),
           live \subseteq Handles, spc = "publish" => sh \in Handles,
           \A h \in Handles : inbox'[h] # <<>> \/ cbpc'[h] # "idle" =>
                                 inbox[h] # <<>> \/ cbpc[h] # "idle"
    PROVE  SeenAlive'
  BY DEF SeenAlive

\* Nobody sees a handle before it is published, or one that was left behind.
LEMMA SeenAliveStep ==
    ASSUME Ranges, MainPlaces, SeenAlive, [Next]_vars
    PROVE  SeenAlive'
  <1> USE DEF Ranges, ListRange, MainRange
  <1>1. ASSUME NEW a \in Adapters, EnableCreate(a)
        PROVE  SeenAlive'
    <2>1. enables + 1 \in Handles /\ ~Seen(enables + 1)
      BY <1>1, ClusterAssumption DEF EnableCreate, SeenAlive, Handles
    <2>2. \A g \in Handles : Seen(g)' <=> Seen(g)
      BY <1>1 DEF EnableCreate, Seen, shmVars, cbVars, clientVars
    <2>3. /\ enables' = enables + 1 /\ sh' = enables + 1 /\ spc' = "publish"
          /\ alloc' = alloc \cup {enables + 1} /\ live' = live \cup {enables + 1}
          /\ spc = "idle" /\ UNCHANGED <<inbox, cbpc>>
      BY <1>1 DEF EnableCreate, cbVars
    <2>4. \A g \in Handles : Seen(g)' => g <= enables'
      BY <2>2, <2>3 DEF SeenAlive, Handles
    <2> QED  BY <2>1, <2>2, <2>3, <2>4 DEF SeenAlive, Making
  <1>2. ASSUME NEW a \in Adapters, DisableFind(a)
        PROVE  SeenAlive'
    <2>1. \A g \in Handles : Seen(g)' <=> Seen(g)
      BY <1>2 DEF DisableFind, Seen, shmVars, cbVars, clientVars
    <2>2. UNCHANGED <<inbox, cbpc, enables>> /\ spc = "idle" /\ ~Making'
      BY <1>2 DEF DisableFind, cbVars, Making
    <2>3. spc' = "crashed" \/ (spc' = "clear" /\ UNCHANGED <<alloc, live>>)
      BY <1>2 DEF DisableFind
    <2> QED  BY <2>1, <2>2, <2>3 DEF SeenAlive
  <1>3. ASSUME EnableMagic
        PROVE  SeenAlive'
    <2>1. \A g \in Handles : Seen(g)' => Seen(g)
      BY <1>3 DEF EnableMagic, Seen, listVars, shmVars, mainVars, cbVars, clientVars
    <2> QED  BY <1>3, <2>1, SeenNoMore, CurrentHandle, PlacesApart DEF EnableMagic,
        Making, listVars, shmVars, mainVars, cbVars, clientVars
  <1>4. ASSUME EnableNumber
        PROVE  SeenAlive'
    <2>1. sh \in Handles /\ sh \in 1..enables /\ adp[sh] \in Adapters /\ sh \in alloc
      BY <1>4, CurrentHandle, PlacesApart DEF EnableNumber, SeenAlive
    <2>2. \A g \in Handles : Seen(g)' => Seen(g) \/ g = sh
      BY <1>4, <2>1 DEF EnableNumber, Seen, ShmRange, cbVars, clientVars
    <2>3. /\ UNCHANGED <<alloc, live, enables, sh, inbox, cbpc>>
          /\ spc = "number" /\ spc' = "insert"
      BY <1>4 DEF EnableNumber, listVars, cbVars
    <2> QED  BY <2>1, <2>2, <2>3 DEF SeenAlive, Making
  <1>5. ASSUME EnableMapFails
        PROVE  SeenAlive'
    <2>1. sh \in Handles
      BY <1>5, CurrentHandle, PlacesApart DEF EnableMapFails
    <2>2. \A g \in Handles : Seen(g)' <=> Seen(g)
      BY <1>5 DEF EnableMapFails, Seen, shmVars, cbVars, clientVars
    <2>3. /\ UNCHANGED <<live, enables, inbox, cbpc>> /\ alloc' = alloc \ {sh}
          /\ spc = "publish" /\ spc' = "idle"
      BY <1>5 DEF EnableMapFails, cbVars
    <2>4. ~Seen(sh)
      BY <2>3 DEF SeenAlive
    <2>5. inbox[sh] = <<>> /\ cbpc[sh] = "idle"
      BY <2>4 DEF Seen
    <2> QED  BY <2>1, <2>2, <2>3, <2>4, <2>5 DEF SeenAlive, Making
  <1>6. ASSUME EnableInsert
        PROVE  SeenAlive'
    <2>1. \A g \in Handles : Seen(g)' => Seen(g)
      BY <1>6 DEF EnableInsert, Seen, listVars, shmVars, mainVars, cbVars, clientVars
    <2> QED  BY <1>6, <2>1, SeenNoMore, CurrentHandle, PlacesApart DEF EnableInsert,
        Making, listVars, shmVars, mainVars, cbVars, clientVars
  <1>7. ASSUME Destroy
        PROVE  SeenAlive'
    <2>1. \A g \in Handles : Seen(g)' <=> Seen(g)
      BY <1>7 DEF Destroy, Seen, shmVars, cbVars, clientVars
    <2>2. UNCHANGED <<alloc, live, inbox, cbpc, enables>> /\ spc = "idle" /\ spc' \in {"down", "clear"}
      BY <1>7 DEF Destroy, cbVars
    <2> QED  BY <2>1, <2>2 DEF SeenAlive, Making
  <1>8. ASSUME ReleaseClear
        PROVE  SeenAlive'
    <2>1. \A b \in Adapters : intr'[b] = intr[b] \/ intr'[b] = 0
      BY <1>8, CurrentHandle, PlacesApart DEF ReleaseClear, ShmRange, shmVars
    <2>2. 0 \notin Handles
      BY DEF Handles
    <2>3. \A g \in Handles : Seen(g)' => Seen(g)
      BY <1>8, <2>1, <2>2 DEF ReleaseClear, Seen, cbVars, clientVars
    <2>4. UNCHANGED <<alloc, live, inbox, cbpc, enables, sh>> /\ spc = "clear" /\ spc' = "remove"
      BY <1>8 DEF ReleaseClear, listVars, cbVars
    <2> QED  BY <2>3, <2>4, SeenNoMore DEF Making
  <1>9. ASSUME ReleaseRemove
        PROVE  SeenAlive'
    <2>1. sh \in Handles /\ cbpc[sh] = "idle" /\ spc = "remove"
      BY <1>9, CurrentHandle, PlacesApart DEF ReleaseRemove
    <2>2. /\ UNCHANGED <<enables, cbpc>> /\ spc' \in {"clear", "down", "idle"}
          /\ alloc' = alloc \ {sh} /\ live' = live \ {sh}
          /\ inbox' = [inbox EXCEPT ![sh] = <<>>] /\ UNCHANGED <<intr, bound>>
      BY <1>9 DEF ReleaseRemove, cbVars, shmVars, clientVars
    <2>3. \A g \in Handles : inbox'[g] # <<>> \/ cbpc'[g] # "idle" =>
                                g # sh /\ (inbox[g] # <<>> \/ cbpc[g] # "idle")
      BY <2>1, <2>2 DEF CbRange
    <2>4. \A g \in Handles : Seen(g)' => Seen(g)
      BY <2>2, <2>3 DEF Seen
    <2> QED  BY <2>1, <2>2, <2>3, <2>4 DEF SeenAlive, Making
  <1>10. ASSUME NEW h \in Handles, CbStart(h)
        PROVE  SeenAlive'
    <2>1. \A g \in Handles : Seen(g)' => Seen(g)
      BY <1>10 DEF CbStart, Seen, listVars, shmVars, mainVars, cbVars, clientVars,
          CbRange
    <2> QED  BY <1>10, <2>1, SeenNoMore, CurrentHandle, PlacesApart DEF CbStart, Making,
        listVars, shmVars, mainVars, cbVars, clientVars
  <1>11. ASSUME NEW h \in Handles, CbFilter(h)
        PROVE  SeenAlive'
    <2>1. \A g \in Handles : cbpc'[g] # "idle" => cbpc[g] # "idle"
      BY <1>11 DEF CbFilter, CbRange
    <2>2. UNCHANGED <<alloc, live, enables, sh, spc, inbox, intr, bound>>
      BY <1>11 DEF CbFilter, listVars, shmVars, mainVars, clientVars
    <2>3. \A g \in Handles : Seen(g)' => Seen(g)
      BY <2>1, <2>2 DEF Seen
    <2> QED  BY <2>1, <2>2, <2>3, SeenNoMore, CurrentHandle, PlacesApart DEF Making
  <1>12. ASSUME NEW h \in Handles, CbLock(h)
        PROVE  SeenAlive'
    <2>1. \A g \in Handles : Seen(g)' => Seen(g)
      BY <1>12 DEF CbLock, Seen, shmVars, mainVars, clientVars, CbRange
    <2> QED  BY <1>12, <2>1, SeenNoMore, CurrentHandle, PlacesApart DEF CbLock, Making,
        shmVars, mainVars, clientVars
  <1>13. ASSUME NEW h \in Handles, CbExecute(h)
        PROVE  SeenAlive'
    <2>1. \A g \in Handles : Seen(g)' => Seen(g)
      BY <1>13 DEF CbExecute, Seen, shmVars, mainVars, clientVars, CbRange
    <2> QED  BY <1>13, <2>1, SeenNoMore, CurrentHandle, PlacesApart DEF CbExecute,
        Making, shmVars, mainVars, clientVars
  <1>14. ASSUME NEW h \in Handles, CbReply(h)
        PROVE  SeenAlive'
    <2>1. \A g \in Handles : Seen(g)' => Seen(g)
      BY <1>14 DEF CbReply, Seen, listVars, shmVars, mainVars, cbVars, clientVars,
          CbRange
    <2> QED  BY <1>14, <2>1, SeenNoMore, CurrentHandle, PlacesApart DEF CbReply, Making,
        listVars, shmVars, mainVars, cbVars, clientVars
  <1>15. ASSUME NEW c \in Clients, BindRead(c)
        PROVE  SeenAlive'
    <2>1. \A d \in Clients : bound'[d] = bound[d] \/ \E b \in Adapters : bound'[d] = intr[b]
      <3>1. at[c] # MaxAdapter => at[c] \in Adapters
        BY ClusterAssumption DEF ClientRange, Adapters
      <3>2. bound' = bound \/ (at[c] # MaxAdapter /\ bound' = [bound EXCEPT ![c] = intr[at[c]]])
        BY <1>15 DEF BindRead
      <3> QED  BY <3>1, <3>2 DEF ClientRange
    <2>2. UNCHANGED <<inbox, cbpc, intr>>
      BY <1>15 DEF BindRead, cbVars, shmVars
    <2>3. \A g \in Handles : Seen(g)' => Seen(g)
      BY <2>1, <2>2 DEF Seen
    <2> QED  BY <1>15, <2>2, <2>3, SeenNoMore, CurrentHandle, PlacesApart
             DEF BindRead, listVars, mainVars, Making
  <1>16. ASSUME NEW c \in Clients, Send(c)
        PROVE  SeenAlive'
    <2>1. CASE bound[c] \in live
      <3>1. bound[c] \in Handles /\ Seen(bound[c]) /\ (spc # "crashed" => bound[c] \in alloc)
        BY <2>1 DEF SeenAlive, Seen
      <3>2. /\ \A g \in Handles : g # bound[c] => inbox'[g] = inbox[g]
            /\ UNCHANGED <<cbpc, intr, bound>>
        BY <1>16, <2>1, <3>1 DEF Send, CbRange, cbVars, shmVars
      <3>3. \A g \in Handles : Seen(g)' => Seen(g)
        BY <3>1, <3>2 DEF Seen
      <3>4. UNCHANGED <<alloc, live, enables, sh, spc>>
        BY <1>16 DEF Send, listVars, mainVars
      <3>5. \A g \in Handles : g # bound[c] /\ (inbox'[g] # <<>> \/ cbpc'[g] # "idle") =>
                                  inbox[g] # <<>> \/ cbpc[g] # "idle"
        BY <3>2
      <3>6. spc = "publish" => sh \in Handles
        BY CurrentHandle, PlacesApart
      <3> QED  BY <3>1, <3>3, <3>4, <3>5, <3>6 DEF SeenAlive, Making
    <2>2. CASE bound[c] \notin live
      <3>1. UNCHANGED <<inbox, cbpc, intr, bound, alloc, live, enables, sh, spc>>
        BY <1>16, <2>2 DEF Send, listVars, mainVars, cbVars, shmVars
      <3> QED  BY <3>1 DEF SeenAlive, Seen, Making
    <2> QED  BY <2>1, <2>2
  <1>17. CASE UNCHANGED <<alloc, live, intr, spc, sh, enables, inbox, cbpc, bound>>
    BY <1>17 DEF SeenAlive, Seen, Making
  <1>18. ASSUME NEW c \in Clients, BindConnect(c) \/ Unbind(c)
        PROVE  SeenAlive'
    <2>1. /\ UNCHANGED <<alloc, live, intr, spc, sh, enables, inbox, cbpc>>
          /\ bound' = bound \/ bound' = [bound EXCEPT ![c] = 0]
      BY <1>18 DEF BindConnect, Unbind, listVars, mainVars, cbVars, shmVars
    <2>2. \A d \in Clients : bound'[d] = bound[d] \/ bound'[d] = 0
      BY <2>1 DEF ClientRange
    <2>3. \A g \in Handles : g # 0
      BY DEF Handles
    <2>4. \A g \in Handles : Seen(g)' => Seen(g)
      BY <2>1, <2>2, <2>3 DEF Seen
    <2> QED  BY <2>1, <2>4, SeenNoMore, CurrentHandle, PlacesApart DEF Making
  <1> QED
    BY <1>1, <1>2, <1>3, <1>4, <1>5, <1>6, <1>7, <1>8, <1>9, <1>10, <1>11, <1>12, <1>13,
        <1>14, <1>15, <1>16, <1>17, <1>18
    DEF Next, Main, Callback, Client, vars, listVars, shmVars, mainVars, cbVars,
        clientVars,
        Bind, BindConnect, Receive, Expire, Unbind

\* An entry names a handle of its adapter until it is cleared, before the handle
\* is freed.
LEMMA EntryAliveStep ==
    ASSUME Ranges, MainPlaces, SeenAlive, EntryAlive, ~MapFails, [Next]_vars
    PROVE  EntryAlive'
  <1> USE DEF EntryAlive, Ranges, ListRange, ShmRange
  <1>1. ASSUME NEW a \in Adapters, EnableCreate(a)
        PROVE  EntryAlive'
    <2>1. enables + 1 \in Handles /\ ~Seen(enables + 1)
      BY <1>1, ClusterAssumption DEF EnableCreate, SeenAlive, Handles, MainRange
    <2>2. \A b \in Adapters : intr[b] # 0 => intr[b] \in Handles /\ intr[b] # enables + 1
      BY <2>1 DEF Seen
    <2>3. \A b \in Adapters : intr[b] # 0 => adp'[intr[b]] = adp[intr[b]]
      BY <1>1, <2>1, <2>2 DEF EnableCreate
    <2> QED  BY <1>1, <2>1, <2>2, <2>3 DEF EnableCreate, shmVars
  <1>2. ASSUME NEW a \in Adapters, DisableFind(a)
        PROVE  EntryAlive'
    BY <1>2 DEF DisableFind, shmVars, Making
  <1>3. ASSUME EnableMagic
        PROVE  EntryAlive'
    BY <1>3 DEF EnableMagic, listVars, Making
  <1>4. ASSUME EnableNumber
        PROVE  EntryAlive'
    <2>1. sh \in Handles /\ adp[sh] \in Adapters /\ sh \in alloc /\ sh \in live
      BY <1>4, CurrentHandle, PlacesApart DEF EnableNumber, SeenAlive
    <2> QED  BY <1>4, <2>1 DEF EnableNumber, listVars, Making
  <1>5. ASSUME EnableMapFails
        PROVE  EntryAlive'
    BY <1>5 DEF EnableMapFails
  <1>6. ASSUME EnableInsert
        PROVE  EntryAlive'
    BY <1>6 DEF EnableInsert, shmVars, Making
  <1>7. ASSUME Destroy
        PROVE  EntryAlive'
    BY <1>7 DEF Destroy, shmVars, Making
  <1>8. ASSUME ReleaseClear
        PROVE  EntryAlive'
    <2>1. sh \in Handles /\ adp[sh] \in Adapters
      BY <1>8, CurrentHandle, PlacesApart DEF ReleaseClear
    <2>2. /\ intr' = [intr EXCEPT ![adp[sh]] = 0] /\ UNCHANGED <<alloc, live, adp, sh>>
          /\ spc = "clear" /\ spc' = "remove"
      BY <1>8 DEF ReleaseClear, listVars
    <2>3. \A b \in Adapters : intr'[b] # 0 => b # adp[sh] /\ intr'[b] = intr[b]
      BY <2>1, <2>2
    <2> QED  BY <2>1, <2>2, <2>3 DEF Making
  <1>9. ASSUME ReleaseRemove
        PROVE  EntryAlive'
    <2>1. /\ UNCHANGED <<intr, adp>> /\ spc' \in {"clear", "down", "idle"} /\ spc = "remove"
          /\ alloc' = alloc \ {sh} /\ live' = live \ {sh}
      BY <1>9 DEF ReleaseRemove, shmVars
    <2> QED  BY <2>1 DEF Making
  <1>10. CASE UNCHANGED <<adp, alloc, live, intr, spc, sh>>
    BY <1>10 DEF Making
  <1> QED
    BY <1>1, <1>2, <1>3, <1>4, <1>5, <1>6, <1>7, <1>8, <1>9, <1>10
    DEF Next, Main, Callback, Client, vars, listVars, shmVars, mainVars, cbVars,
        clientVars,
        CbStart, CbFilter, CbLock, CbExecute, CbReply, Bind, BindRead, BindConnect,
            Send, Receive, Expire, Unbind

\* Every handle of the list is published when no adapter is enabled twice.
LEMMA ListPublishedStep ==
    ASSUME Ranges, MainPlaces, SeenAlive, ListPublished, ~MapFails, ~Reenable, [Next]_vars
    PROVE  ListPublished'
  <1> USE DEF ListPublished, Ranges, ListRange, ShmRange, MainRange
  <1>1. ASSUME NEW a \in Adapters, EnableCreate(a)
        PROVE  ListPublished'
    <2>1. enables + 1 \in Handles /\ enables \in Nat
      BY <1>1, ClusterAssumption DEF EnableCreate, Handles
    <2>2. /\ \A i \in 1..Len(handles) : handles[i] \in Handles /\ handles[i] # enables + 1
          /\ \A i \in 1..Len(todo) : todo[i] \in Handles /\ todo[i] # enables + 1
      <3>1. /\ \A i \in 1..Len(handles) : handles[i] \in Handles
            /\ \A i \in 1..Len(todo) : todo[i] \in Handles
        OBVIOUS
      <3> QED  BY <2>1, <3>1 DEF MainPlaces, Handles
    <2>3. /\ adp' = [adp EXCEPT ![enables + 1] = a] /\ sh' = enables + 1 /\ spc' = "publish"
          /\ UNCHANGED <<handles, todo, magic, intr>> /\ a \notin Keys
      BY <1>1 DEF EnableCreate, shmVars
    <2>4. /\ \A i \in 1..Len(handles) : adp'[handles[i]] = adp[handles[i]]
          /\ \A i \in 1..Len(todo) : adp'[todo[i]] = adp[todo[i]]
          /\ adp'[sh'] = a
      BY <2>1, <2>2, <2>3
    <2>5. Keys' = Keys
      BY <2>3, <2>4 DEF Keys
    <2> QED  BY <2>3, <2>4, <2>5
  <1>2. ASSUME NEW a \in Adapters, DisableFind(a)
        PROVE  ListPublished'
    <2>1. CASE a \in Keys
      <3> DEFINE k == CHOOSE i \in 1..Len(handles) : adp[handles[i]] = a
      <3>1. k \in 1..Len(handles) /\ handles[k] \in Handles
        BY <2>1, FoundHandle
      <3>2. /\ handles' = Without(handles, k) /\ todo' = <<handles[k]>>
            /\ spc' = "clear" /\ UNCHANGED <<adp, magic, intr>>
        BY <1>2, <2>1 DEF DisableFind, shmVars
      <3> HIDE DEF k
      <3>3. /\ Len(handles) \in Nat /\ Len(handles') = Len(handles) - 1
            /\ \A i \in 1..(Len(handles) - 1) :
                  handles'[i] = IF i < k THEN handles[i] ELSE handles[i + 1]
        <4>1. handles \in Seq(Handles)
          OBVIOUS
        <4> HIDE DEF ListPublished, Ranges, ListRange, ShmRange, MainRange
        <4> QED  BY <3>1, <3>2, <4>1, WithoutFacts
      <3>4. \A i \in 1..Len(handles') :
               \E j \in 1..Len(handles) : j # k /\ handles'[i] = handles[j]
        <4>1. TAKE i \in 1..Len(handles')
        <4>2. CASE i < k
          BY <3>1, <3>3, <4>2
        <4>3. CASE i >= k
          <5>1. i + 1 \in 1..Len(handles) /\ i + 1 # k /\ handles'[i] = handles[i + 1]
            BY <3>1, <3>3, <4>3
          <5> QED  BY <5>1
        <4> QED  BY <3>1, <3>3, <4>2, <4>3
      <3>5. adp[handles[k]] \notin Keys'
        BY <3>1, <3>2, <3>4 DEF Keys, MainPlaces
      <3>6. \A i \in 1..Len(todo') : todo'[i] = handles[k]
        BY <3>2
      <3>7. \A i \in 1..Len(handles') :
               magic'[adp'[handles'[i]]] /\ intr'[adp'[handles'[i]]] = handles'[i]
        BY <3>2, <3>4
      <3> QED  BY <3>2, <3>5, <3>6, <3>7 DEF Making
    <2>2. CASE a \notin Keys
      BY <1>2, <2>2 DEF DisableFind, shmVars, Making, Keys
    <2> QED  BY <2>1, <2>2
  <1>3. ASSUME EnableMagic
        PROVE  ListPublished'
    <2>1. sh \in Handles /\ adp[sh] \in Adapters /\ Making
      BY <1>3, CurrentHandle, PlacesApart DEF EnableMagic
    <2>2. /\ magic' = [magic EXCEPT ![adp[sh]] = TRUE] /\ UNCHANGED <<handles, adp, intr, sh, todo>>
          /\ spc' = "number" /\ Keys' = Keys
      BY <1>3 DEF EnableMagic, listVars, Keys
    <2>3. \A b \in Adapters : magic[b] => magic'[b]
      BY <2>1, <2>2
    <2>4. \A i \in 1..Len(handles) : adp[handles[i]] \in Adapters
      OBVIOUS
    <2> QED  BY <2>1, <2>2, <2>3, <2>4
  <1>4. ASSUME EnableNumber
        PROVE  ListPublished'
    <2>1. sh \in Handles /\ adp[sh] \in Adapters /\ Making
      BY <1>4, CurrentHandle, PlacesApart DEF EnableNumber
    <2>2. /\ intr' = [intr EXCEPT ![adp[sh]] = sh] /\ UNCHANGED <<handles, adp, magic, sh, todo>>
          /\ spc = "number" /\ spc' = "insert" /\ Keys' = Keys
      BY <1>4 DEF EnableNumber, listVars, Keys
    <2>3. \A i \in 1..Len(handles) : adp[handles[i]] \in Adapters /\ adp[handles[i]] # adp[sh]
      BY <2>1 DEF Keys
    <2> QED  BY <2>1, <2>2, <2>3
  <1>5. ASSUME EnableMapFails
        PROVE  ListPublished'
    BY <1>5 DEF EnableMapFails
  <1>6. ASSUME EnableInsert
        PROVE  ListPublished'
    <2>1. sh \in Handles /\ Making /\ todo = <<>>
      BY <1>6, CurrentHandle, PlacesApart DEF EnableInsert, MainPlaces
    <2>2. /\ handles' = Append(handles, sh) /\ UNCHANGED <<adp, magic, intr, todo>>
          /\ spc = "insert" /\ spc' = "idle"
      BY <1>6, <2>1 DEF EnableInsert, shmVars
    <2>3. /\ Len(handles) \in Nat /\ Len(handles') = Len(handles) + 1
          /\ \A i \in 1..Len(handles) : handles'[i] = handles[i]
          /\ handles'[Len(handles) + 1] = sh
      BY <2>1, <2>2, AppendFacts
    <2>4. \A i \in 1..Len(handles') :
             magic'[adp'[handles'[i]]] /\ intr'[adp'[handles'[i]]] = handles'[i]
      BY <2>2, <2>3
    <2> QED  BY <2>1, <2>2, <2>4 DEF Making
  <1>7. ASSUME Destroy
        PROVE  ListPublished'
    <2>1. handles' = <<>> /\ spc' \in {"down", "clear"}
      BY <1>7 DEF Destroy
    <2>2. Keys' = {} /\ \A i \in 1..Len(handles') : FALSE
      BY <2>1 DEF Keys
    <2> QED  BY <2>1, <2>2 DEF Making
  <1>8. ASSUME ReleaseClear
        PROVE  ListPublished'
    <2>1. /\ sh \in Handles /\ adp[sh] \in Adapters /\ Releasing
          /\ todo # <<>> /\ sh = todo[1] /\ 1 \in 1..Len(todo)
      BY <1>8, CurrentHandle, PlacesApart, TailFacts DEF ReleaseClear, MainPlaces
    <2>2. /\ magic' = [magic EXCEPT ![adp[sh]] = FALSE] /\ intr' = [intr EXCEPT ![adp[sh]] = 0]
          /\ UNCHANGED <<handles, adp, sh, todo>> /\ spc' = "remove" /\ Keys' = Keys
      BY <1>8 DEF ReleaseClear, listVars, Keys
    <2>3. \A i \in 1..Len(handles) : adp[handles[i]] \in Adapters /\ adp[handles[i]] # adp[sh]
      BY <2>1 DEF Keys
    <2> QED  BY <2>1, <2>2, <2>3 DEF Making
  <1>9. ASSUME ReleaseRemove
        PROVE  ListPublished'
    <2>1. Releasing /\ todo # <<>>
      BY <1>9, PlacesApart DEF ReleaseRemove, MainPlaces
    <2>2. /\ UNCHANGED <<handles, adp, magic, intr>> /\ spc' \in {"clear", "down", "idle"}
          /\ todo' = Tail(todo) /\ Keys' = Keys
      BY <1>9 DEF ReleaseRemove, shmVars, Keys
    <2>3. \A i \in 1..Len(todo') : \E j \in 1..Len(todo) : todo'[i] = todo[j]
      BY <2>1, <2>2, TailFacts
    <2> QED  BY <2>2, <2>3 DEF Making
  <1>10. CASE UNCHANGED <<handles, adp, magic, intr, spc, sh, todo>>
    BY <1>10 DEF Making, Keys
  <1> QED
    BY <1>1, <1>2, <1>3, <1>4, <1>5, <1>6, <1>7, <1>8, <1>9, <1>10
    DEF Next, Main, Callback, Client, vars, listVars, shmVars, mainVars, cbVars,
        clientVars,
        CbStart, CbFilter, CbLock, CbExecute, CbReply, Bind, BindRead, BindConnect,
            Send, Receive, Expire, Unbind

-----------------------------------------------------------------------------
(* The way of a request *)

\* No request, callback or reply is added: queues stay or are dropped,
\* callbacks go on or end.
Fewer ==
    /\ \A g \in Handles : inbox'[g] = inbox[g] \/ inbox'[g] = <<>>
    /\ \A g \in Handles : cbpc'[g] # "idle" => cbpc[g] # "idle" /\ cbreq'[g] = cbreq[g]
    /\ \A d \in Clients : mbox'[d] = mbox[d] \/ mbox'[d] = <<>>
    /\ \A s \in Requests : result'[s].of = result[s].of

\* Then no request enters a stage.
LEMMA FewerStages ==
    ASSUME Fewer, NEW r
    PROVE  /\ Queued(r)' => Queued(r)
           /\ Served(r)' => Served(r)
           /\ Replied(r)' => Replied(r)
           /\ Taken(r)' => Taken(r)
  BY DEF Fewer, Queued, Served, Replied, Taken

\* And each request is still in one place.
LEMMA FewerOnce ==
    ASSUME Once, Fewer
    PROVE  Once'
  <1>1. \A r \in Requests : /\ Queued(r)' => Queued(r)
                            /\ Served(r)' => Served(r)
                            /\ Replied(r)' => Replied(r)
                            /\ Taken(r)' => Taken(r)
    BY FewerStages
  <1>2. OneStage'
    BY <1>1 DEF Once, OneStage
  <1>3. QueuedOnce'
    BY DEF Once, Fewer, QueuedOnce
  <1>4. ServedOnce'
    BY DEF Once, Fewer, ServedOnce
  <1>5. MailedOnce'
    BY DEF Once, Fewer, MailedOnce
  <1>6. TakenOnce'
    BY DEF Once, Fewer, TakenOnce
  <1> QED  BY <1>2, <1>3, <1>4, <1>5, <1>6 DEF Once

\* The callback of h starts: the request moves from its queue to the callback.
LEMMA StartStages ==
    ASSUME Ranges, NEW h \in Handles, CbStart(h), NEW x, x = Head(inbox[h])
    PROVE  /\ x \in Requests /\ Queued(x) /\ cbreq'[h] = x /\ cbpc[h] = "idle"
           /\ inbox[h] # <<>> /\ inbox'[h] = Tail(inbox[h]) /\ x = inbox[h][1]
           /\ \A g \in Handles : g # h => /\ inbox'[g] = inbox[g] /\ cbpc'[g] = cbpc[g]
                                          /\ cbreq'[g] = cbreq[g]
           /\ UNCHANGED <<mbox, result>>
           /\ \A r \in Requests : /\ Queued(r)' => Queued(r)
                                  /\ Served(r)' => Served(r) \/ r = x
                                  /\ Replied(r)' => Replied(r)
                                  /\ Taken(r)' => Taken(r)
  <1>1. /\ x \in Requests /\ x = inbox[h][1] /\ 1 \in 1..Len(inbox[h])
        /\ \A i \in 1..Len(Tail(inbox[h])) :
              i + 1 \in 1..Len(inbox[h]) /\ Tail(inbox[h])[i] = inbox[h][i + 1]
    BY TailFacts DEF CbStart, Ranges, CbRange
  <1>2. /\ inbox[h] # <<>> /\ inbox'[h] = Tail(inbox[h]) /\ cbreq'[h] = x /\ cbpc[h] = "idle"
        /\ \A g \in Handles : g # h => /\ inbox'[g] = inbox[g] /\ cbpc'[g] = cbpc[g]
                                       /\ cbreq'[g] = cbreq[g]
    BY DEF CbStart, Ranges, CbRange
  <1>3. UNCHANGED <<mbox, result>>
    BY DEF CbStart, clientVars
  <1>4. Queued(x)
    BY <1>1 DEF Queued
  <1>5. ASSUME NEW r \in Requests PROVE Queued(r)' => Queued(r)
    <2>1. SUFFICES ASSUME NEW g \in Handles, NEW i \in 1..Len(inbox'[g]), inbox'[g][i] = r
                   PROVE  Queued(r)
      BY DEF Queued
    <2>2. CASE g = h
      BY <1>1, <1>2, <2>1, <2>2 DEF Queued
    <2>3. CASE g # h
      BY <1>2, <2>1, <2>3 DEF Queued
    <2> QED  BY <2>2, <2>3
  <1>6. ASSUME NEW r \in Requests PROVE Served(r)' => Served(r) \/ r = x
    BY <1>2 DEF Served
  <1>7. ASSUME NEW r \in Requests PROVE (Replied(r)' => Replied(r)) /\ (Taken(r)' => Taken(r))
    BY <1>3 DEF Replied, Taken
  <1> QED  BY <1>1, <1>2, <1>3, <1>4, <1>5, <1>6, <1>7

\* The callback of h ends with its reply in mailbox c.
LEMMA ReplyStages ==
    ASSUME Ranges, Flow, NEW h \in Handles, CbReply(h), ~UNCHANGED mbox,
           NEW x, x = cbreq[h]
    PROVE  \E c \in Clients :
           /\ x \in 1..reqs /\ x \in Requests /\ Served(x)
           /\ cpc[c] # "unbound" /\ num[c] = from[x]
           /\ cbpc[h] # "idle" /\ cbpc'[h] = "idle"
           /\ reply[h].of = x /\ mbox'[c] = Append(mbox[c], reply[h]) /\ reply[h] \in ReplyType
           /\ \A g \in Handles : g # h => cbpc'[g] = cbpc[g] /\ cbreq'[g] = cbreq[g]
           /\ \A d \in Clients : d # c => mbox'[d] = mbox[d]
           /\ UNCHANGED <<inbox, result>>
           /\ \A r \in Requests : /\ Queued(r)' => Queued(r)
                                  /\ Served(r)' => Served(r)
                                  /\ Replied(r)' => Replied(r) \/ r = x
                                  /\ Taken(r)' => Taken(r)
  <1>0. PICK c \in Clients :
           /\ cpc[c] # "unbound" /\ num[c] = from[x]
           /\ mbox' = [mbox EXCEPT ![c] = Append(mbox[c], reply[h])]
    BY DEF CbReply
  <1>1. /\ cbpc[h] = "reply" /\ cbpc'[h] = "idle" /\ UNCHANGED <<inbox, result>>
        /\ \A g \in Handles : g # h => cbpc'[g] = cbpc[g] /\ cbreq'[g] = cbreq[g]
    BY DEF CbReply, Ranges, CbRange, clientVars
  <1>2. Served(x) /\ x \in Requests /\ x <= reqs /\ reply[h].of = x
    BY <1>1 DEF Served, Flow, Numbered, Answering, Ranges, CbRange
  <1>3. x \in 1..reqs
    BY <1>2 DEF Requests, Ranges, ClientRange
  <1>4. /\ mbox'[c] = Append(mbox[c], reply[h]) /\ reply[h] \in ReplyType
        /\ \A d \in Clients : d # c => mbox'[d] = mbox[d]
    BY <1>0 DEF Ranges, ClientRange, CbRange
  <1>5. /\ Len(mbox'[c]) = Len(mbox[c]) + 1 /\ Len(mbox[c]) \in Nat
        /\ \A i \in 1..Len(mbox[c]) : mbox'[c][i] = mbox[c][i]
        /\ mbox'[c][Len(mbox[c]) + 1] = reply[h]
    BY <1>3, <1>4, AppendFacts DEF Ranges, ClientRange
  <1>6. ASSUME NEW r \in Requests PROVE Replied(r)' => Replied(r) \/ r = x
    <2>1. SUFFICES ASSUME NEW d \in Clients, NEW i \in 1..Len(mbox'[d]), mbox'[d][i].of = r
                   PROVE  Replied(r) \/ r = x
      BY DEF Replied
    <2>2. CASE d # c
      BY <1>4, <2>1, <2>2 DEF Replied
    <2>3. CASE d = c /\ i \in 1..Len(mbox[c])
      BY <1>5, <2>1, <2>3 DEF Replied
    <2>4. CASE d = c /\ i = Len(mbox[c]) + 1
      BY <1>2, <1>5, <2>1, <2>4
    <2> QED  BY <1>5, <2>2, <2>3, <2>4
  <1>7. ASSUME NEW r \in Requests
        PROVE (Queued(r)' => Queued(r)) /\ (Served(r)' => Served(r)) /\ (Taken(r)' => Taken(r))
    BY <1>1 DEF Queued, Served, Taken
  <1> QED  BY <1>0, <1>1, <1>2, <1>3, <1>4, <1>6, <1>7

\* Client c takes a reply for the request it waits for.
LEMMA ReceiveStages ==
    ASSUME Ranges, Flow, NEW c \in Clients, Receive(c), NEW x, x = Head(mbox[c]).of
    PROVE  /\ x \in 1..reqs /\ x \in Requests /\ Replied(x) /\ crq[c] \in Requests
           /\ crq[c] <= reqs /\ sender[crq[c]] = c /\ from[x] = num[c] /\ cpc[c] = "wait"
           /\ mbox[c] # <<>> /\ mbox'[c] = Tail(mbox[c]) /\ x = mbox[c][1].of
           /\ \A d \in Clients : d # c => mbox'[d] = mbox[d]
           /\ result'[crq[c]].of = x /\ result'[crq[c]].err # "none"
           /\ \A s \in Requests : s # crq[c] => result'[s] = result[s]
           /\ UNCHANGED <<inbox, cbpc, cbreq>>
           /\ \A r \in Requests : /\ Queued(r)' => Queued(r)
                                  /\ Served(r)' => Served(r)
                                  /\ Replied(r)' => Replied(r)
                                  /\ Taken(r)' => Taken(r) \/ r = x
  <1>1. /\ mbox[c] # <<>> /\ mbox'[c] = Tail(mbox[c]) /\ cpc[c] = "wait"
        /\ \A d \in Clients : d # c => mbox'[d] = mbox[d]
        /\ UNCHANGED <<inbox, cbpc, cbreq>>
    BY DEF Receive, Ranges, ClientRange, cbVars
  <1>2. /\ Head(mbox[c]) = mbox[c][1] /\ 1 \in 1..Len(mbox[c])
        /\ \A i \in 1..Len(Tail(mbox[c])) :
              i + 1 \in 1..Len(mbox[c]) /\ Tail(mbox[c])[i] = mbox[c][i + 1]
    BY <1>1, TailFacts DEF Ranges, ClientRange
  <1>3. x \in 1..reqs /\ Replied(x) /\ from[x] = num[c]
    BY <1>2 DEF Flow, Addressed, Replied
  <1>4. crq[c] \in 1..reqs /\ sender[crq[c]] = c
    BY <1>1 DEF Flow, Waiting
  <1>5. \A r \in 1..reqs : r \in Requests /\ r <= reqs
    BY ClusterAssumption DEF Ranges, ClientRange, Requests
  <1>6. /\ result'[crq[c]].of = x /\ result'[crq[c]].err # "none"
        /\ \A s \in Requests : s # crq[c] => result'[s] = result[s]
    BY <1>4, <1>5 DEF Receive, Ranges, ClientRange
  <1>7. ASSUME NEW r \in Requests PROVE Replied(r)' => Replied(r)
    <2>1. SUFFICES ASSUME NEW d \in Clients, NEW i \in 1..Len(mbox'[d]), mbox'[d][i].of = r
                   PROVE  Replied(r)
      BY DEF Replied
    <2>2. CASE d = c
      BY <1>1, <1>2, <2>1, <2>2 DEF Replied
    <2>3. CASE d # c
      BY <1>1, <2>1, <2>3 DEF Replied
    <2> QED  BY <2>2, <2>3
  <1>8. ASSUME NEW r \in Requests PROVE Taken(r)' => Taken(r) \/ r = x
    BY <1>6 DEF Taken
  <1>9. ASSUME NEW r \in Requests PROVE (Queued(r)' => Queued(r)) /\ (Served(r)' => Served(r))
    BY <1>1 DEF Queued, Served
  <1> QED  BY <1>1, <1>2, <1>3, <1>4, <1>5, <1>6, <1>7, <1>8, <1>9

\* Client c sends request x to an interrupt that exists.
LEMMA SendStages ==
    ASSUME Ranges, NEW c \in Clients, Send(c), bound[c] \in live, NEW x, x = reqs + 1
    PROVE  /\ x \in Requests /\ bound[c] \in Handles
           /\ inbox'[bound[c]] = Append(inbox[bound[c]], x)
           /\ \A g \in Handles : g # bound[c] => inbox'[g] = inbox[g]
           /\ UNCHANGED <<cbpc, cbreq, mbox, result>>
           /\ \A r \in Requests : /\ Queued(r)' => Queued(r) \/ r = x
                                  /\ Served(r)' => Served(r)
                                  /\ Replied(r)' => Replied(r)
                                  /\ Taken(r)' => Taken(r)
  <1>1. x \in Requests /\ bound[c] \in Handles /\ inbox[bound[c]] \in Seq(Requests)
    BY ClusterAssumption DEF Send, Ranges, ClientRange, ListRange, CbRange, Requests
  <1>2. /\ inbox'[bound[c]] = Append(inbox[bound[c]], x)
        /\ \A g \in Handles : g # bound[c] => inbox'[g] = inbox[g]
    BY <1>1 DEF Send, Ranges, CbRange
  <1>3. UNCHANGED <<cbpc, cbreq, mbox, result>>
    BY DEF Send, cbVars
  <1>4. /\ Len(inbox'[bound[c]]) = Len(inbox[bound[c]]) + 1 /\ Len(inbox[bound[c]]) \in Nat
        /\ \A i \in 1..Len(inbox[bound[c]]) : inbox'[bound[c]][i] = inbox[bound[c]][i]
        /\ inbox'[bound[c]][Len(inbox[bound[c]]) + 1] = x
    BY <1>1, <1>2, AppendFacts
  <1>5. ASSUME NEW r \in Requests PROVE Queued(r)' => Queued(r) \/ r = x
    <2>1. SUFFICES ASSUME NEW g \in Handles, NEW i \in 1..Len(inbox'[g]), inbox'[g][i] = r
                   PROVE  Queued(r) \/ r = x
      BY DEF Queued
    <2>2. CASE g # bound[c]
      BY <1>2, <2>1, <2>2 DEF Queued
    <2>3. CASE g = bound[c] /\ i \in 1..Len(inbox[g])
      BY <1>1, <1>4, <2>1, <2>3 DEF Queued
    <2>4. CASE g = bound[c] /\ i = Len(inbox[g]) + 1
      BY <1>4, <2>1, <2>4
    <2> QED  BY <1>4, <2>2, <2>3, <2>4
  <1>6. ASSUME NEW r \in Requests
        PROVE (Served(r)' => Served(r)) /\ (Replied(r)' => Replied(r)) /\ (Taken(r)' => Taken(r))
    BY <1>3 DEF Served, Replied, Taken
  <1> QED  BY <1>1, <1>2, <1>3, <1>5, <1>6

\* A request moves on in four kinds of steps; all others add nothing.
Moves ==
    \/ \E h \in Handles : CbStart(h) \/ (CbReply(h) /\ ~UNCHANGED mbox)
    \/ \E c \in Clients : Receive(c) \/ (Send(c) /\ bound[c] \in live)

\* There is no other kind of step.
LEMMA MovesOrFewer ==
    ASSUME Ranges, MainPlaces, Flow, [Next]_vars
    PROVE  Moves \/ Fewer
  <1> USE DEF Ranges, CbRange, ClientRange
  <1>1. ASSUME ReleaseRemove
        PROVE  Moves \/ Fewer
    <2>1. /\ inbox' = [inbox EXCEPT ![sh] = <<>>] /\ sh \in Handles
          /\ UNCHANGED <<cbpc, cbreq, mbox, result>>
      BY <1>1, CurrentHandle, PlacesApart DEF ReleaseRemove, cbVars, clientVars
    <2> QED  BY <2>1 DEF Fewer
  <1>2. ASSUME NEW h \in Handles, CbStart(h)
        PROVE  Moves \/ Fewer
    BY <1>2 DEF Moves
  <1>3. ASSUME NEW h \in Handles, CbFilter(h)
        PROVE  Moves \/ Fewer
    <2>1. \A g \in Handles : cbpc'[g] # "idle" => cbpc[g] # "idle"
      BY <1>3 DEF CbFilter
    <2>2. UNCHANGED <<inbox, cbreq, mbox, result>>
      BY <1>3 DEF CbFilter, clientVars
    <2> QED  BY <2>1, <2>2 DEF Fewer
  <1>4. ASSUME NEW h \in Handles, CbLock(h)
        PROVE  Moves \/ Fewer
    BY <1>4 DEF CbLock, Fewer, clientVars
  <1>5. ASSUME NEW h \in Handles, CbExecute(h)
        PROVE  Moves \/ Fewer
    <2>1. \A g \in Handles : cbpc'[g] # "idle" => cbpc[g] # "idle"
      BY <1>5 DEF CbExecute
    <2>2. UNCHANGED <<inbox, cbreq, mbox, result>>
      BY <1>5 DEF CbExecute, clientVars
    <2> QED  BY <2>1, <2>2 DEF Fewer
  <1>6. ASSUME NEW h \in Handles, CbReply(h)
        PROVE  Moves \/ Fewer
    <2>1. CASE UNCHANGED mbox
      <3>1. /\ UNCHANGED <<inbox, result>> /\ cbpc'[h] = "idle"
            /\ \A g \in Handles : g # h => cbpc'[g] = cbpc[g] /\ cbreq'[g] = cbreq[g]
        BY <1>6 DEF CbReply, clientVars
      <3> QED  BY <2>1, <3>1 DEF Fewer
    <2> QED  BY <1>6, <2>1 DEF Moves
  <1>7. ASSUME NEW c \in Clients, BindRead(c)
        PROVE  Moves \/ Fewer
    <2>1. UNCHANGED <<inbox, cbpc, cbreq, result>>
      BY <1>7 DEF BindRead, cbVars
    <2>2. mbox' = mbox \/ mbox' = [mbox EXCEPT ![c] = <<>>]
      BY <1>7 DEF BindRead
    <2> QED  BY <2>1, <2>2 DEF Fewer
  <1>8. ASSUME NEW c \in Clients, Send(c)
        PROVE  Moves \/ Fewer
    <2>1. CASE bound[c] \in live
      BY <1>8, <2>1 DEF Moves
    <2>2. CASE bound[c] \notin live
      <3>1. UNCHANGED <<inbox, cbpc, cbreq, mbox>> /\ result' = [result EXCEPT ![reqs + 1].err = "ENOTCONN"]
        BY <1>8, <2>2 DEF Send, cbVars
      <3>2. \A s \in Requests : result'[s].of = result[s].of
        BY <3>1 DEF ResultType
      <3> QED  BY <3>1, <3>2 DEF Fewer
    <2> QED  BY <2>1, <2>2
  <1>9. ASSUME NEW c \in Clients, Receive(c)
        PROVE  Moves \/ Fewer
    BY <1>9 DEF Moves
  <1>10. ASSUME NEW c \in Clients, Expire(c)
        PROVE  Moves \/ Fewer
    <2>1. /\ UNCHANGED <<inbox, cbpc, cbreq, mbox>>
          /\ \E e : result' = [result EXCEPT ![crq[c]].err = e]
      BY <1>10 DEF Expire, cbVars
    <2>2. \A s \in Requests : result'[s].of = result[s].of
      BY <2>1 DEF ResultType
    <2> QED  BY <2>1, <2>2 DEF Fewer
  <1>11. ASSUME NEW c \in Clients, Unbind(c)
        PROVE  Moves \/ Fewer
    BY <1>11 DEF Unbind, Fewer, cbVars
  <1>12. CASE UNCHANGED <<inbox, cbpc, cbreq, mbox, result>>
    BY <1>12 DEF Fewer
  <1> QED
    BY <1>1, <1>2, <1>3, <1>4, <1>5, <1>6, <1>7, <1>8, <1>9, <1>10, <1>11, <1>12
    DEF Next, Main, Callback, Client, vars, listVars, shmVars, mainVars, cbVars,
        clientVars,
        EnableCreate, DisableFind, EnableMagic, EnableNumber, EnableMapFails,
            EnableInsert, Destroy, ReleaseClear, Bind, BindConnect

\* A request is in one stage, at one place.
LEMMA OnceStep ==
    ASSUME Ranges, MainPlaces, Flow, Once, [Next]_vars
    PROVE  Once'
  <1>1. CASE Fewer
    BY <1>1, FewerOnce
  <1>2. ASSUME NEW h \in Handles, CbStart(h) PROVE Once'
    <2>1. PICK x : x = Head(inbox[h])
      OBVIOUS
    <2>2. /\ x \in Requests /\ Queued(x) /\ cbreq'[h] = x /\ cbpc[h] = "idle"
          /\ inbox[h] # <<>> /\ inbox'[h] = Tail(inbox[h]) /\ x = inbox[h][1]
          /\ \A g \in Handles : g # h => /\ inbox'[g] = inbox[g] /\ cbpc'[g] = cbpc[g]
                                         /\ cbreq'[g] = cbreq[g]
          /\ UNCHANGED <<mbox, result>>
          /\ \A r \in Requests : /\ Queued(r)' => Queued(r)
                                 /\ Served(r)' => Served(r) \/ r = x
                                 /\ Replied(r)' => Replied(r)
                                 /\ Taken(r)' => Taken(r)
      BY <1>2, <2>1, StartStages
    <2>3. /\ 1 \in 1..Len(inbox[h]) /\ Len(inbox[h]) \in Nat
          /\ \A i \in 1..Len(inbox'[h]) :
                i \in Nat /\ i + 1 \in 2..Len(inbox[h]) /\ inbox'[h][i] = inbox[h][i + 1]
      BY <2>2, TailFacts DEF Ranges, CbRange
    <2>4. \A g \in Handles : \A i \in 1..Len(inbox'[g]) :
             \E k \in 1..Len(inbox[g]) :
                 /\ inbox'[g][i] = inbox[g][k] /\ k = (IF g = h THEN i + 1 ELSE i)
                 /\ g = h => k # 1
      <3> SUFFICES ASSUME NEW g \in Handles, NEW i \in 1..Len(inbox'[g])
                   PROVE  \E k \in 1..Len(inbox[g]) :
                             /\ inbox'[g][i] = inbox[g][k] /\ k = (IF g = h THEN i + 1 ELSE i)
                             /\ g = h => k # 1
        OBVIOUS
      <3>1. CASE g = h
        <4>1. i + 1 \in 1..Len(inbox[g]) /\ i + 1 # 1 /\ inbox'[g][i] = inbox[g][i + 1]
          BY <2>3, <3>1
        <4> QED  BY <3>1, <4>1
      <3>2. CASE g # h
        BY <2>2, <3>2
      <3> QED  BY <3>1, <3>2
    <2>5. \A g \in Handles : \A i \in 1..Len(inbox'[g]) : inbox'[g][i] # x
      BY <2>2, <2>3, <2>4 DEF Once, QueuedOnce
    <2>6. ~Queued(x)'
      BY <2>5 DEF Queued
    <2>7. OneStage'
      BY <2>2, <2>6 DEF Once, OneStage
    <2>8. QueuedOnce'
      <3> SUFFICES ASSUME NEW f \in Handles, NEW g \in Handles,
                          NEW i \in 1..Len(inbox'[f]), NEW j \in 1..Len(inbox'[g]),
                          inbox'[f][i] = inbox'[g][j]
                   PROVE  f = g /\ i = j
        BY DEF QueuedOnce
      <3>1. PICK k \in 1..Len(inbox[f]) :
               inbox'[f][i] = inbox[f][k] /\ k = (IF f = h THEN i + 1 ELSE i)
        BY <2>4
      <3>2. PICK l \in 1..Len(inbox[g]) :
               inbox'[g][j] = inbox[g][l] /\ l = (IF g = h THEN j + 1 ELSE j)
        BY <2>4
      <3>3. inbox[f][k] = inbox[g][l]
        BY <3>1, <3>2
      <3>4. f = g /\ k = l
        BY <3>3 DEF Once, QueuedOnce
      <3> QED  BY <3>1, <3>2, <3>4
    <2>9. ServedOnce'
      <3>1. \A g \in Handles : g # h /\ cbpc'[g] # "idle" => cbreq'[g] # x
        BY <2>2 DEF Once, OneStage, Served
      <3> QED  BY <2>2, <3>1 DEF Once, ServedOnce
    <2> QED  BY <2>2, <2>7, <2>8, <2>9 DEF Once, MailedOnce, TakenOnce
  <1>3. ASSUME NEW h \in Handles, CbReply(h), ~UNCHANGED mbox PROVE Once'
    <2>1. PICK x : x = cbreq[h]
      OBVIOUS
    <2>3. PICK c \in Clients :
          /\ x \in Requests /\ Served(x)
          /\ cbpc[h] # "idle" /\ cbpc'[h] = "idle"
          /\ reply[h].of = x /\ mbox'[c] = Append(mbox[c], reply[h]) /\ reply[h] \in ReplyType
          /\ \A g \in Handles : g # h => cbpc'[g] = cbpc[g] /\ cbreq'[g] = cbreq[g]
          /\ \A d \in Clients : d # c => mbox'[d] = mbox[d]
          /\ UNCHANGED <<inbox, result>>
          /\ \A r \in Requests : /\ Queued(r)' => Queued(r)
                                 /\ Served(r)' => Served(r)
                                 /\ Replied(r)' => Replied(r) \/ r = x
                                 /\ Taken(r)' => Taken(r)
      BY <1>3, <2>1, ReplyStages
    <2>4. ~Served(x)'
      BY <2>1, <2>3 DEF Served, Once, ServedOnce
    <2>5. OneStage'
      BY <2>3, <2>4 DEF Once, OneStage
    <2>6. /\ Len(mbox'[c]) = Len(mbox[c]) + 1 /\ Len(mbox[c]) \in Nat
          /\ \A i \in 1..Len(mbox[c]) : mbox'[c][i] = mbox[c][i]
          /\ mbox'[c][Len(mbox[c]) + 1] = reply[h]
      BY <2>3, AppendFacts DEF Ranges, ClientRange
    <2>7. \A d \in Clients : \A i \in 1..Len(mbox[d]) : mbox[d][i].of # x
      BY <2>3 DEF Once, OneStage, Replied
    <2>8. MailedOnce'
      <3>1. \A d \in Clients : \A i \in 1..Len(mbox'[d]) :
               \/ i \in 1..Len(mbox[d]) /\ mbox'[d][i] = mbox[d][i] /\ mbox'[d][i].of # x
               \/ d = c /\ i = Len(mbox[c]) + 1 /\ mbox'[d][i].of = x
        BY <2>3, <2>6, <2>7
      <3> SUFFICES ASSUME NEW d \in Clients, NEW e \in Clients,
                          NEW i \in 1..Len(mbox'[d]), NEW j \in 1..Len(mbox'[e]),
                          mbox'[d][i].of = mbox'[e][j].of
                   PROVE  d = e /\ i = j
        BY DEF MailedOnce
      <3>2. CASE mbox'[d][i].of = x
        BY <3>1, <3>2
      <3>3. CASE mbox'[d][i].of # x
        <4>1. i \in 1..Len(mbox[d]) /\ j \in 1..Len(mbox[e])
          BY <3>1, <3>3
        <4>2. mbox'[d][i] = mbox[d][i] /\ mbox'[e][j] = mbox[e][j]
          BY <3>1, <3>3
        <4> QED  BY <4>1, <4>2 DEF Once, MailedOnce
      <3> QED  BY <3>2, <3>3
    <2>9. ServedOnce'
      BY <2>3 DEF Once, ServedOnce
    <2> QED  BY <2>3, <2>5, <2>8, <2>9 DEF Once, QueuedOnce, TakenOnce
  <1>4. ASSUME NEW c \in Clients, Receive(c) PROVE Once'
    <2>1. PICK x : x = Head(mbox[c]).of
      OBVIOUS
    <2>2. /\ x \in 1..reqs /\ x \in Requests /\ Replied(x)
          /\ mbox[c] # <<>> /\ mbox'[c] = Tail(mbox[c]) /\ x = mbox[c][1].of
          /\ \A d \in Clients : d # c => mbox'[d] = mbox[d]
          /\ result'[crq[c]].of = x
          /\ \A s \in Requests : s # crq[c] => result'[s] = result[s]
          /\ UNCHANGED <<inbox, cbpc, cbreq>>
          /\ \A r \in Requests : /\ Queued(r)' => Queued(r)
                                 /\ Served(r)' => Served(r)
                                 /\ Replied(r)' => Replied(r)
                                 /\ Taken(r)' => Taken(r) \/ r = x
      BY <1>4, <2>1, ReceiveStages
    <2>3. /\ 1 \in 1..Len(mbox[c]) /\ Len(mbox[c]) \in Nat
          /\ \A i \in 1..Len(mbox'[c]) :
                i \in Nat /\ i + 1 \in 2..Len(mbox[c]) /\ mbox'[c][i] = mbox[c][i + 1]
      BY <2>2, TailFacts DEF Ranges, ClientRange
    <2>4. \A d \in Clients : \A i \in 1..Len(mbox'[d]) :
             \E k \in 1..Len(mbox[d]) :
                 /\ mbox'[d][i] = mbox[d][k] /\ k = (IF d = c THEN i + 1 ELSE i)
                 /\ d = c => k # 1
      <3> SUFFICES ASSUME NEW d \in Clients, NEW i \in 1..Len(mbox'[d])
                   PROVE  \E k \in 1..Len(mbox[d]) :
                             /\ mbox'[d][i] = mbox[d][k] /\ k = (IF d = c THEN i + 1 ELSE i)
                             /\ d = c => k # 1
        OBVIOUS
      <3>1. CASE d = c
        <4>1. i + 1 \in 1..Len(mbox[d]) /\ i + 1 # 1 /\ mbox'[d][i] = mbox[d][i + 1]
          BY <2>3, <3>1
        <4> QED  BY <3>1, <4>1
      <3>2. CASE d # c
        BY <2>2, <3>2
      <3> QED  BY <3>1, <3>2
    <2>5. \A d \in Clients : \A i \in 1..Len(mbox'[d]) : mbox'[d][i].of # x
      <3> SUFFICES ASSUME NEW d \in Clients, NEW i \in 1..Len(mbox'[d]) PROVE mbox'[d][i].of # x
        OBVIOUS
      <3>1. PICK k \in 1..Len(mbox[d]) : mbox'[d][i] = mbox[d][k] /\ (d = c => k # 1)
        BY <2>4
      <3> QED  BY <2>2, <2>3, <3>1 DEF Once, MailedOnce
    <2>6. ~Replied(x)'
      BY <2>5 DEF Replied
    <2>7. OneStage'
      BY <2>2, <2>6 DEF Once, OneStage
    <2>8. MailedOnce'
      <3> SUFFICES ASSUME NEW d \in Clients, NEW e \in Clients,
                          NEW i \in 1..Len(mbox'[d]), NEW j \in 1..Len(mbox'[e]),
                          mbox'[d][i].of = mbox'[e][j].of
                   PROVE  d = e /\ i = j
        BY DEF MailedOnce
      <3>1. PICK k \in 1..Len(mbox[d]) :
               mbox'[d][i] = mbox[d][k] /\ k = (IF d = c THEN i + 1 ELSE i)
        BY <2>4
      <3>2. PICK l \in 1..Len(mbox[e]) :
               mbox'[e][j] = mbox[e][l] /\ l = (IF e = c THEN j + 1 ELSE j)
        BY <2>4
      <3>3. d = e /\ k = l
        BY <3>1, <3>2 DEF Once, MailedOnce
      <3> QED  BY <3>1, <3>2, <3>3
    <2>9. TakenOnce'
      <3>1. \A s \in Requests : s # crq[c] => result'[s].of # x
        BY <2>2 DEF Once, OneStage, Taken
      <3> SUFFICES ASSUME NEW s \in Requests, NEW t \in Requests,
                          result'[s].of # 0, result'[s].of = result'[t].of
                   PROVE  s = t
        BY DEF TakenOnce
      <3>2. CASE s = crq[c] \/ t = crq[c]
        BY <2>2, <3>1, <3>2
      <3>3. CASE s # crq[c] /\ t # crq[c]
        <4>1. result'[s] = result[s] /\ result'[t] = result[t]
          BY <2>2, <3>3
        <4> QED  BY <4>1 DEF Once, TakenOnce
      <3> QED  BY <3>2, <3>3
    <2> QED  BY <2>2, <2>7, <2>8, <2>9 DEF Once, QueuedOnce, ServedOnce
  <1>5. ASSUME NEW c \in Clients, Send(c), bound[c] \in live PROVE Once'
    <2>1. PICK x : x = reqs + 1
      OBVIOUS
    <2>2. PICK b : b = bound[c]
      OBVIOUS
    <2>3. /\ x \in Requests /\ b \in Handles
          /\ inbox'[b] = Append(inbox[b], x)
          /\ \A g \in Handles : g # b => inbox'[g] = inbox[g]
          /\ UNCHANGED <<cbpc, cbreq, mbox, result>>
          /\ \A r \in Requests : /\ Queued(r)' => Queued(r) \/ r = x
                                 /\ Served(r)' => Served(r)
                                 /\ Replied(r)' => Replied(r)
                                 /\ Taken(r)' => Taken(r)
      BY <1>5, <2>1, <2>2, SendStages
    <2>4. reqs \in Nat /\ \A r \in Requests : r \in Nat /\ r # 0
      BY DEF Ranges, ClientRange, Requests
    <2>5. ~Queued(x) /\ ~Served(x) /\ ~Replied(x) /\ ~Taken(x)
      <3>1. ~Queued(x) /\ ~Served(x)
        BY <2>1, <2>3, <2>4 DEF Flow, Numbered
      <3>2. ~Replied(x)
        BY <2>1, <2>4 DEF Flow, Addressed, Replied
      <3>3. ~Taken(x)
        BY <2>1, <2>4 DEF Flow, Returned, Taken
      <3> QED  BY <3>1, <3>2, <3>3
    <2>6. OneStage'
      BY <2>3, <2>5 DEF Once, OneStage
    <2>7. /\ Len(inbox'[b]) = Len(inbox[b]) + 1 /\ Len(inbox[b]) \in Nat
          /\ \A i \in 1..Len(inbox[b]) : inbox'[b][i] = inbox[b][i]
          /\ inbox'[b][Len(inbox[b]) + 1] = x
      BY <2>3, AppendFacts DEF Ranges, CbRange
    <2>8. \A g \in Handles : \A i \in 1..Len(inbox[g]) : inbox[g][i] # x
      BY <2>5 DEF Queued
    <2>9. QueuedOnce'
      <3>1. \A g \in Handles : \A i \in 1..Len(inbox'[g]) :
               \/ i \in 1..Len(inbox[g]) /\ inbox'[g][i] = inbox[g][i] /\ inbox'[g][i] # x
               \/ g = b /\ i = Len(inbox[b]) + 1 /\ inbox'[g][i] = x
        BY <2>3, <2>7, <2>8
      <3> SUFFICES ASSUME NEW g \in Handles, NEW h \in Handles,
                          NEW i \in 1..Len(inbox'[g]), NEW j \in 1..Len(inbox'[h]),
                          inbox'[g][i] = inbox'[h][j]
                   PROVE  g = h /\ i = j
        BY DEF QueuedOnce
      <3>2. CASE inbox'[g][i] = x
        BY <3>1, <3>2
      <3>3. CASE inbox'[g][i] # x
        BY <3>1, <3>3 DEF Once, QueuedOnce
      <3> QED  BY <3>2, <3>3
    <2> QED  BY <2>3, <2>6, <2>9 DEF Once, ServedOnce, MailedOnce, TakenOnce
  <1> QED  BY <1>1, <1>2, <1>3, <1>4, <1>5, MovesOrFewer DEF Moves

\* Requests keep their number, their sender and the interrupt number they carry.
LEMMA SenderKept ==
    ASSUME Ranges, [Next]_vars
    PROVE  reqs <= reqs' /\ \A r \in 1..reqs : sender'[r] = sender[r] /\ from'[r] = from[r]
  <1> USE DEF Ranges, ClientRange
  <1>1. ASSUME NEW c \in Clients, Send(c)
        PROVE  reqs <= reqs' /\ \A r \in 1..reqs : sender'[r] = sender[r] /\ from'[r] = from[r]
    BY <1>1 DEF Send, Requests
  <1>2. CASE UNCHANGED <<reqs, sender, from>>
    BY <1>2 
  <1> QED
    BY <1>1, <1>2
    DEF Next, Main, Callback, Client, vars, listVars, shmVars, mainVars, cbVars,
        clientVars,
        EnableCreate, DisableFind, EnableMagic, EnableNumber, EnableMapFails,
            EnableInsert, Destroy, ReleaseClear, ReleaseRemove, CbStart, CbFilter,
            CbLock, CbExecute, CbReply, Bind, BindRead, BindConnect, Receive, Expire,
            Unbind

\* Requests on their way were sent, and have a sender.
LEMMA NumberedStep ==
    ASSUME Ranges, MainPlaces, Flow, [Next]_vars
    PROVE  Numbered'
  <1>1. reqs \in Nat /\ reqs' \in Nat /\ reqs <= reqs' /\ \A r \in Requests : r \in Nat
    <2>1. reqs' = reqs \/ reqs' = reqs + 1
      BY DEF Next, Main, Callback, Client, vars, clientVars, EnableCreate, DisableFind,
             EnableMagic, EnableNumber, EnableMapFails, EnableInsert, Destroy,
                 ReleaseClear,
             ReleaseRemove, CbStart, CbFilter, CbLock, CbExecute, CbReply, Bind,
                 BindRead,
             BindConnect, Send, Receive, Expire, Unbind
    <2> QED  BY <2>1 DEF Ranges, ClientRange, Requests
  <1>2. \A r \in Requests : Queued(r)' \/ Served(r)' => r <= reqs'
    <2>1. CASE Fewer
      BY <1>1, <2>1, FewerStages DEF Flow, Numbered
    <2>2. ASSUME NEW h \in Handles, CbStart(h) PROVE \A r \in Requests : Queued(r)' \/ Served(r)' => r <= reqs'
      BY <1>1, <2>2, StartStages DEF Flow, Numbered
    <2>3. ASSUME NEW h \in Handles, CbReply(h), ~UNCHANGED mbox PROVE \A r \in Requests : Queued(r)' \/ Served(r)' => r <= reqs'
      BY <1>1, <2>3, ReplyStages DEF Flow, Numbered
    <2>4. ASSUME NEW c \in Clients, Receive(c) PROVE \A r \in Requests : Queued(r)' \/ Served(r)' => r <= reqs'
      BY <1>1, <2>4, ReceiveStages DEF Flow, Numbered
    <2>5. ASSUME NEW c \in Clients, Send(c), bound[c] \in live PROVE \A r \in Requests : Queued(r)' \/ Served(r)' => r <= reqs'
      <3>1. reqs' = reqs + 1
        BY <2>5 DEF Send
      <3> QED  BY <1>1, <2>5, <3>1, SendStages DEF Flow, Numbered
    <2> QED  BY <2>1, <2>2, <2>3, <2>4, <2>5, MovesOrFewer DEF Moves
  <1>3. \A r \in 1..reqs' : sender'[r] \in Clients
    <2>1. ASSUME NEW c \in Clients, Send(c) PROVE \A r \in 1..reqs' : sender'[r] \in Clients
      <3>1. /\ reqs' = reqs + 1 /\ sender' = [sender EXCEPT ![reqs + 1] = c]
            /\ reqs + 1 \in Requests
        BY <1>1, <2>1, ClusterAssumption DEF Send, Ranges, ClientRange, Requests
      <3>2. \A r \in 1..reqs' : r \in 1..reqs \/ r = reqs + 1
        BY <1>1, <3>1
      <3>3. sender'[reqs + 1] = c /\ \A r \in 1..reqs : sender'[r] = sender[r]
        BY <1>1, <3>1 DEF Ranges, ClientRange, Requests
      <3> QED  BY <3>2, <3>3 DEF Flow, Numbered
    <2>2. CASE UNCHANGED <<reqs, sender>>
      BY <2>2 DEF Flow, Numbered
    <2> QED  BY <2>1, <2>2
             DEF Next, Main, Callback, Client, vars, clientVars, EnableCreate,
                 DisableFind,
                 EnableMagic, EnableNumber, EnableMapFails, EnableInsert, Destroy,
                     ReleaseClear,
                 ReleaseRemove, CbStart, CbFilter, CbLock, CbExecute, CbReply, Bind,
                     BindRead,
                 BindConnect, Receive, Expire, Unbind
  <1> QED  BY <1>2, <1>3 DEF Numbered

\* A callback's reply is to its request.
LEMMA AnsweringStep ==
    ASSUME Ranges, Flow, [Next]_vars
    PROVE  Answering'
  <1> USE DEF Ranges, CbRange, Flow, Answering
  <1>1. ASSUME NEW h \in Handles, CbStart(h)
        PROVE  Answering'
    <2>1. Head(inbox[h]) \in Requests /\ 0 \notin Requests
      BY <1>1, StartStages DEF Requests
    <2> QED  BY <1>1, <2>1 DEF CbStart
  <1>2. ASSUME NEW h \in Handles, CbFilter(h)
        PROVE  Answering'
    <2>1. CASE cbpc' = [cbpc EXCEPT ![h] = "lock"] /\ UNCHANGED reply
      BY <1>2, <2>1 DEF CbFilter
    <2>2. CASE /\ cbpc' = [cbpc EXCEPT ![h] = "reply"]
               /\ reply' = [reply EXCEPT ![h] =
                              [of |-> cbreq[h], rejected |-> TRUE]]
      BY <1>2, <2>2 DEF CbFilter
    <2> QED  BY <1>2, <2>1, <2>2 DEF CbFilter
  <1>3. ASSUME NEW h \in Handles, CbLock(h)
        PROVE  Answering'
    BY <1>3 DEF CbLock
  <1>4. ASSUME NEW h \in Handles, CbExecute(h)
        PROVE  Answering'
    <2>1. /\ cbpc' = [cbpc EXCEPT ![h] = "reply"] /\ cbreq' = cbreq /\ cbpc[h] = "execute"
          /\ reply'[h].of = cbreq[h]
          /\ \A g \in Handles : g # h => reply'[g] = reply[g]
      BY <1>4 DEF CbExecute
    <2> QED  BY <2>1
  <1>5. ASSUME NEW h \in Handles, CbReply(h)
        PROVE  Answering'
    BY <1>5 DEF CbReply
  <1>6. CASE UNCHANGED <<cbpc, cbreq, reply>>
    BY <1>6 
  <1> QED
    BY <1>1, <1>2, <1>3, <1>4, <1>5, <1>6
    DEF Next, Main, Callback, Client, vars, listVars, shmVars, mainVars, cbVars,
        clientVars,
        EnableCreate, DisableFind, EnableMagic, EnableNumber, EnableMapFails,
            EnableInsert, Destroy, ReleaseClear, ReleaseRemove, Bind, BindRead,
            BindConnect, Send, Receive, Expire, Unbind

\* Interrupts that exist at the same time have different numbers.
LEMMA ApartStep ==
    ASSUME Ranges, Flow, [Next]_vars
    PROVE  Apart'
  <1> USE DEF Ranges, ClientRange, Flow, Apart
  <1>1. ASSUME NEW c \in Clients, Bind(c)
        PROVE  Apart'
    <2>1. PICK n \in IntrNos : /\ \A d \in Clients : cpc[d] # "unbound" => num[d] # n
                              /\ num' = [num EXCEPT ![c] = n]
      BY <1>1 DEF Bind
    <2>2. cpc' = [cpc EXCEPT ![c] = "read"]
      BY <1>1 DEF Bind
    <2>3. num'[c] = n /\ \A d \in Clients : d # c => num'[d] = num[d] /\ cpc'[d] = cpc[d]
      BY <2>1, <2>2
    <2> QED  BY <2>1, <2>3
  <1>2. ASSUME NEW c \in Clients, BindRead(c) \/ BindConnect(c) \/ Send(c) \/ Receive(c)
                                  \/ Expire(c) \/ Unbind(c)
        PROVE  Apart'
    <2>1. /\ cpc[c] # "unbound"
          /\ \A d \in Clients : d # c => cpc'[d] = cpc[d] /\ num'[d] = num[d]
      BY <1>2 DEF BindRead, BindConnect, Send, Receive, Expire, Unbind
    <2>2. cpc'[c] # "unbound" => num'[c] = num[c]
      BY <1>2 DEF BindRead, BindConnect, Send, Receive, Expire, Unbind
    <2>3. \A d \in Clients : cpc'[d] # "unbound" => cpc[d] # "unbound" /\ num'[d] = num[d]
      BY <2>1, <2>2
    <2> QED  BY <2>3
  <1>3. CASE UNCHANGED <<cpc, num>>
    BY <1>3
  <1> QED
    BY <1>1, <1>2, <1>3
    DEF Next, Main, Callback, Client, vars, listVars, shmVars, mainVars, cbVars,
        clientVars,
        EnableCreate, DisableFind, EnableMagic, EnableNumber, EnableMapFails,
            EnableInsert, Destroy, ReleaseClear, ReleaseRemove, CbStart, CbFilter,
            CbLock, CbExecute, CbReply

\* Replies go to the interrupt number the request carried.
LEMMA AddressedStep ==
    ASSUME Ranges, Flow, [Next]_vars
    PROVE  Addressed'
  <1> USE DEF Flow, Addressed
  <1>0. /\ mbox \in [Clients -> Seq(ReplyType)] /\ reqs \in Nat
        /\ cpc \in [Clients -> {"unbound", "read", "connect", "ready", "wait"}]
        /\ num \in [Clients -> IntrNos \cup {"none"}]
    BY DEF Ranges, ClientRange
  <1>1. ASSUME NEW h \in Handles, CbReply(h)
        PROVE  Addressed'
    <2>1. UNCHANGED <<reqs, from, num, cpc>>
      BY <1>1 DEF CbReply, clientVars
    <2>2. CASE UNCHANGED mbox
      BY <2>1, <2>2
    <2>3. CASE ~UNCHANGED mbox
      <3>1. PICK x : x = cbreq[h]
        OBVIOUS
      <3>2. PICK c \in Clients :
            /\ x \in 1..reqs /\ cpc[c] # "unbound" /\ num[c] = from[x] /\ reply[h].of = x
            /\ mbox'[c] = Append(mbox[c], reply[h]) /\ reply[h] \in ReplyType
            /\ \A d \in Clients : d # c => mbox'[d] = mbox[d]
        BY <1>1, <2>3, <3>1, ReplyStages
      <3>3. \A i \in 1..Len(mbox'[c]) :
               (i \in 1..Len(mbox[c]) /\ mbox'[c][i] = mbox[c][i]) \/ mbox'[c][i] = reply[h]
        BY <1>0, <3>2, AppendFacts
      <3>4. \A i \in 1..Len(mbox'[c]) :
               mbox'[c][i].of \in 1..reqs /\ from[mbox'[c][i].of] = num[c]
        BY <3>1, <3>2, <3>3
      <3> QED  BY <2>1, <3>2, <3>4
    <2> QED  BY <2>2, <2>3
  <1>2. ASSUME NEW c \in Clients, BindRead(c) \/ Unbind(c)
        PROVE  Addressed'
    <2>1. /\ UNCHANGED <<reqs, from>>
          /\ \A d \in Clients : d # c => UNCHANGED <<cpc[d], num[d], mbox[d]>>
          /\ \/ mbox'[c] = mbox[c] /\ num'[c] = num[c] /\ cpc'[c] # "unbound"
             \/ mbox'[c] = <<>>
      BY <1>0, <1>2 DEF BindRead, Unbind
    <2> QED  BY <2>1
  <1>3. ASSUME NEW c \in Clients, Send(c)
        PROVE  Addressed'
    <2>1. /\ mbox' = mbox /\ reqs' = reqs + 1 /\ num' = num
          /\ \A d \in Clients : cpc[d] # "unbound" => cpc'[d] # "unbound"
      BY <1>0, <1>3 DEF Send
    <2>2. \A r \in 1..reqs : r \in 1..reqs' /\ from'[r] = from[r]
      BY <1>0, <2>1, SenderKept
    <2> QED  BY <2>1, <2>2
  <1>4. ASSUME NEW c \in Clients, Receive(c)
        PROVE  Addressed'
    <2>1. UNCHANGED <<reqs, from, num>> /\ cpc[c] # "unbound" /\ cpc'[c] # "unbound"
      BY <1>4, <1>0 DEF Receive
    <2>2. /\ mbox[c] # <<>> /\ mbox'[c] = Tail(mbox[c])
          /\ \A d \in Clients : d # c => mbox'[d] = mbox[d] /\ cpc'[d] = cpc[d]
      BY <1>4, <1>0 DEF Receive
    <2>3. \A i \in 1..Len(mbox'[c]) : \E k \in 1..Len(mbox[c]) : mbox'[c][i] = mbox[c][k]
      <3>1. \A i \in 1..Len(mbox'[c]) : i + 1 \in 1..Len(mbox[c]) /\ mbox'[c][i] = mbox[c][i + 1]
        BY <1>0, <2>2, TailFacts
      <3> QED  BY <3>1
    <2>4. \A i \in 1..Len(mbox'[c]) : mbox'[c][i].of \in 1..reqs /\ from[mbox'[c][i].of] = num[c]
      BY <2>3
    <2>5. ASSUME NEW d \in Clients, NEW i \in 1..Len(mbox'[d])
          PROVE  /\ cpc'[d] # "unbound" /\ mbox'[d][i].of \in 1..reqs'
                 /\ from'[mbox'[d][i].of] = num'[d]
      <3>1. CASE d = c
        BY <2>1, <2>4, <3>1
      <3>2. CASE d # c
        BY <2>1, <2>2, <3>2
      <3> QED  BY <3>1, <3>2
    <2> QED  BY <2>5
  <1>5. ASSUME NEW c \in Clients, Bind(c)
        PROVE  Addressed'
    <2>1. /\ UNCHANGED <<reqs, from, mbox>> /\ cpc[c] = "unbound"
          /\ \A d \in Clients : d # c => UNCHANGED <<cpc[d], num[d]>>
      BY <1>0, <1>5 DEF Bind
    <2>2. \A i \in 1..Len(mbox[c]) : FALSE
      BY <2>1
    <2> QED  BY <2>1, <2>2
  <1>6. ASSUME NEW c \in Clients, BindConnect(c) \/ Expire(c)
        PROVE  Addressed'
    <2>1. /\ UNCHANGED <<reqs, from, mbox, num>>
          /\ \A d \in Clients : cpc[d] # "unbound" => cpc'[d] # "unbound"
      BY <1>0, <1>6 DEF BindConnect, Expire
    <2> QED  BY <2>1
  <1>7. CASE UNCHANGED <<mbox, reqs, from, num, cpc>>
    BY <1>7
  <1> QED
    BY <1>1, <1>2, <1>3, <1>4, <1>5, <1>6, <1>7
    DEF Next, Main, Callback, Client, vars, listVars, shmVars, mainVars, cbVars,
        clientVars,
        EnableCreate, DisableFind, EnableMagic, EnableNumber, EnableMapFails,
            EnableInsert, Destroy, ReleaseClear, ReleaseRemove, CbStart, CbFilter,
            CbLock, CbExecute

\* A client waits for its own request.
LEMMA WaitingStep ==
    ASSUME Ranges, Flow, [Next]_vars
    PROVE  Waiting'
  <1> USE DEF Ranges, ClientRange, Flow, Waiting
  <1>1. ASSUME NEW c \in Clients, Bind(c) \/ BindRead(c) \/ BindConnect(c) \/ Receive(c)
                                  \/ Expire(c) \/ Unbind(c)
        PROVE  Waiting'
    <2>1. /\ UNCHANGED <<reqs, sender, from>> /\ cpc'[c] # "wait"
          /\ \A d \in Clients : d # c => UNCHANGED <<cpc[d], crq[d], num[d]>>
      BY <1>1 DEF Bind, BindRead, BindConnect, Receive, Expire, Unbind
    <2> QED  BY <2>1
  <1>2. ASSUME NEW c \in Clients, Send(c)
        PROVE  Waiting'
    <2>1. /\ reqs' = reqs + 1 /\ reqs \in Nat /\ reqs + 1 \in Requests
          /\ sender' = [sender EXCEPT ![reqs + 1] = c]
          /\ from' = [from EXCEPT ![reqs + 1] = num[c]] /\ num' = num
      BY <1>2, ClusterAssumption DEF Send, Requests
    <2>2. \A d \in Clients : d # c => cpc'[d] = cpc[d] /\ crq'[d] = crq[d]
      BY <1>2 DEF Send
    <2>3. cpc'[c] = "wait" => crq'[c] = reqs + 1
      BY <1>2 DEF Send
    <2>4. sender'[reqs + 1] = c /\ from'[reqs + 1] = num[c] /\ reqs + 1 \in 1..reqs'
      BY <2>1
    <2>5. \A r \in 1..reqs : r \in 1..reqs' /\ sender'[r] = sender[r] /\ from'[r] = from[r]
      BY <2>1, SenderKept
    <2>6. ASSUME NEW d \in Clients, cpc'[d] = "wait"
          PROVE  /\ crq'[d] \in 1..reqs' /\ sender'[crq'[d]] = d
                 /\ from'[crq'[d]] = num'[d]
      <3>1. CASE d = c
        BY <2>1, <2>3, <2>4, <2>6, <3>1
      <3>2. CASE d # c
        <4>1. cpc[d] = "wait" /\ crq'[d] = crq[d]
          BY <2>2, <2>6, <3>2
        <4>2. crq[d] \in 1..reqs /\ sender[crq[d]] = d /\ from[crq[d]] = num[d]
          BY <4>1
        <4> QED  BY <2>1, <2>5, <4>1, <4>2
      <3> QED  BY <3>1, <3>2
    <2> QED  BY <2>6
  <1>3. CASE UNCHANGED <<cpc, crq, reqs, sender, from, num>>
    BY <1>3
  <1> QED
    BY <1>1, <1>2, <1>3
    DEF Next, Main, Callback, Client, vars, listVars, shmVars, mainVars, cbVars,
        clientVars,
        EnableCreate, DisableFind, EnableMagic, EnableNumber, EnableMapFails,
            EnableInsert, Destroy, ReleaseClear, ReleaseRemove, CbStart, CbFilter,
            CbLock, CbExecute, CbReply

\* A call that has not returned is waited in.
LEMMA PendingStep ==
    ASSUME Ranges, Flow, [Next]_vars
    PROVE  Pending'
  <1> USE DEF Ranges, ClientRange, Flow, Pending, Numbered
  <1>0. \A r \in 1..reqs : r \in Requests /\ sender[r] \in Clients
    BY ClusterAssumption DEF Requests
  <1>1. ASSUME NEW c \in Clients, Bind(c) \/ BindRead(c) \/ BindConnect(c) \/ Unbind(c)
        PROVE  Pending'
    <2>1. /\ UNCHANGED <<reqs, sender, result, crq>> /\ cpc[c] # "wait"
          /\ \A d \in Clients : d # c => cpc'[d] = cpc[d]
      BY <1>1 DEF Bind, BindRead, BindConnect, Unbind
    <2> QED  BY <1>0, <2>1
  <1>2. ASSUME NEW c \in Clients, Receive(c) \/ Expire(c)
        PROVE  Pending'
    <2>1. /\ UNCHANGED <<reqs, sender>> /\ cpc[c] = "wait"
          /\ \A d \in Clients : d # c => cpc'[d] = cpc[d] /\ crq'[d] = crq[d]
      BY <1>2 DEF Receive, Expire
    <2>2. crq[c] \in Requests
      BY <1>0, <2>1 DEF Waiting
    <2>3. /\ result'[crq[c]].err # "none"
          /\ \A s \in Requests : s # crq[c] => result'[s] = result[s]
      BY <1>2, <2>2 DEF Receive, Expire, ResultType
    <2>4. ASSUME NEW r \in 1..reqs, result'[r].err = "none"
          PROVE  cpc'[sender[r]] = "wait" /\ crq'[sender[r]] = r
      <3>1. r # crq[c] /\ result[r].err = "none"
        BY <1>0, <2>3, <2>4
      <3>2. cpc[sender[r]] = "wait" /\ crq[sender[r]] = r
        BY <3>1
      <3> QED  BY <1>0, <2>1, <3>1, <3>2
    <2> QED  BY <2>1, <2>4
  <1>3. ASSUME NEW c \in Clients, Send(c)
        PROVE  Pending'
    <2>1. /\ reqs' = reqs + 1 /\ reqs \in Nat /\ reqs + 1 \in Requests /\ cpc[c] = "ready"
          /\ sender' = [sender EXCEPT ![reqs + 1] = c]
      BY <1>3, ClusterAssumption DEF Send, Requests
    <2>2. \A d \in Clients : d # c => cpc'[d] = cpc[d] /\ crq'[d] = crq[d]
      BY <1>3 DEF Send
    <2>3. \A r \in 1..reqs : result'[r] = result[r] /\ sender'[r] = sender[r]
      <3>1. \A r \in 1..reqs : r # reqs + 1
        BY <2>1
      <3>2. result' = result \/ result' = [result EXCEPT ![reqs + 1].err = "ENOTCONN"]
        BY <1>3 DEF Send
      <3>3. \A r \in 1..reqs : result'[r] = result[r]
        BY <1>0, <3>1, <3>2
      <3> QED  BY <3>3, SenderKept
    <2>4. sender'[reqs + 1] = c
      BY <2>1
    <2>5. result'[reqs + 1].err = "none" => cpc'[c] = "wait" /\ crq'[c] = reqs + 1
      <3>1. CASE bound[c] \in live
        BY <1>3, <3>1 DEF Send
      <3>2. CASE bound[c] \notin live
        <4>1. result' = [result EXCEPT ![reqs + 1].err = "ENOTCONN"]
          BY <1>3, <3>2 DEF Send
        <4>2. result'[reqs + 1].err = "ENOTCONN"
          BY <2>1, <4>1 DEF ResultType
        <4> QED  BY <4>2
      <3> QED  BY <3>1, <3>2
    <2>6. ASSUME NEW r \in 1..reqs', result'[r].err = "none"
          PROVE  cpc'[sender'[r]] = "wait" /\ crq'[sender'[r]] = r
      <3>1. CASE r \in 1..reqs
        <4>1. cpc[sender[r]] = "wait" /\ crq[sender[r]] = r
          BY <2>3, <2>6, <3>1
        <4> QED  BY <1>0, <2>1, <2>2, <2>3, <3>1, <4>1
      <3>2. CASE r = reqs + 1
        BY <2>4, <2>5, <2>6, <3>2
      <3> QED  BY <2>1, <3>1, <3>2
    <2> QED  BY <2>6
  <1>4. CASE UNCHANGED <<cpc, crq, reqs, sender, result>>
    BY <1>4
  <1> QED
    BY <1>1, <1>2, <1>3, <1>4
    DEF Next, Main, Callback, Client, vars, listVars, shmVars, mainVars, cbVars,
        clientVars,
        EnableCreate, DisableFind, EnableMagic, EnableNumber, EnableMapFails,
            EnableInsert, Destroy, ReleaseClear, ReleaseRemove, CbStart, CbFilter,
            CbLock, CbExecute, CbReply

\* A call returns no reply to another call that still waits: while that call
\* waits its client has the number, and no other client.
LEMMA ReturnedStep ==
    ASSUME Ranges, Flow, [Next]_vars
    PROVE  Returned'
  <1> USE DEF Ranges, ClientRange, Flow, Returned
  <1>0. \A s \in Requests : s \in Nat /\ s # 0 /\ result[s].of \in Nat
    <2>1. \A s \in Requests : result[s].of \in 0..MaxReqs
      BY DEF ResultType
    <2> QED  BY <2>1, ClusterAssumption DEF Requests
  <1>1. ASSUME NEW c \in Clients, Send(c)
        PROVE  Returned'
    <2>1. reqs' = reqs + 1 /\ reqs \in Nat
      BY <1>1 DEF Send
    <2>2. /\ \A s \in Requests : result'[s].of = result[s].of
          /\ \A s \in Requests : s <= reqs => result'[s] = result[s]
      <3>1. result' = result \/ result' = [result EXCEPT ![reqs + 1].err = "ENOTCONN"]
        BY <1>1 DEF Send
      <3>2. \A s \in Requests : s <= reqs => s # reqs + 1
        BY <1>0, <2>1
      <3> QED  BY <3>1, <3>2 DEF ResultType
    <2>3. ASSUME NEW s \in Requests, result'[s].of # 0
          PROVE  /\ s <= reqs' /\ result'[s].of <= reqs'
                 /\ result'[s].of # s => result'[result'[s].of].err # "none"
      <3>1. /\ s <= reqs /\ result[s].of <= reqs
            /\ result[s].of # s => result[result[s].of].err # "none"
        BY <2>2, <2>3
      <3>2. result[s].of \in Requests
        BY <1>0, <2>2, <2>3, <3>1, ClusterAssumption DEF Requests
      <3> QED  BY <1>0, <2>1, <2>2, <3>1, <3>2
    <2> QED  BY <2>3
  <1>2. ASSUME NEW c \in Clients, Receive(c)
        PROVE  Returned'
    <2>1. PICK x : x = Head(mbox[c]).of
      OBVIOUS
    <2>2. /\ x \in 1..reqs /\ x \in Requests /\ crq[c] \in Requests /\ crq[c] <= reqs
          /\ cpc[c] = "wait" /\ from[x] = num[c]
          /\ result'[crq[c]].of = x /\ result'[crq[c]].err # "none"
          /\ \A s \in Requests : s # crq[c] => result'[s] = result[s]
      BY <1>2, <2>1, ReceiveStages
    <2>3. reqs' = reqs
      BY <1>2 DEF Receive
    <2>4. x # crq[c] => result[x].err # "none"
      <3> SUFFICES ASSUME result[x].err = "none" PROVE x = crq[c]
        OBVIOUS
      <3>1. sender[x] \in Clients /\ cpc[sender[x]] = "wait" /\ crq[sender[x]] = x
        BY <2>2 DEF Pending, Numbered
      <3>2. from[x] = num[sender[x]]
        BY <3>1 DEF Waiting
      <3>3. sender[x] = c
        BY <2>2, <3>1, <3>2 DEF Apart
      <3> QED  BY <3>1, <3>3
    <2>5. ASSUME NEW s \in Requests, result'[s].of # 0
          PROVE  /\ s <= reqs' /\ result'[s].of <= reqs'
                 /\ result'[s].of # s => result'[result'[s].of].err # "none"
      <3>1. CASE s = crq[c]
        <4>1. x <= reqs
          BY <2>2
        <4>2. x # crq[c] => result'[x] = result[x]
          BY <2>2
        <4> QED  BY <2>2, <2>3, <2>4, <3>1, <4>1, <4>2
      <3>2. CASE s # crq[c]
        <4>1. result'[s].of = result[s].of
          BY <2>2, <3>2
        <4>2. /\ s <= reqs /\ result[s].of <= reqs
              /\ result[s].of # s => result[result[s].of].err # "none"
          BY <2>5, <4>1
        <4>3. result[s].of \in Requests
          BY <1>0, <2>5, <4>1, <4>2, ClusterAssumption DEF Requests
        <4>4. \/ result[s].of = crq[c]
              \/ result'[result[s].of] = result[result[s].of]
          BY <2>2, <4>3
        <4> QED  BY <2>2, <2>3, <4>1, <4>2, <4>4
      <3> QED  BY <3>1, <3>2
    <2> QED  BY <2>5
  <1>3. ASSUME NEW c \in Clients, Expire(c)
        PROVE  Returned'
    <2>1. PICK e \in {"ETIMEDOUT", "EIO"} : result' = [result EXCEPT ![crq[c]].err = e]
      BY <1>3 DEF Expire
    <2>2. reqs' = reqs
      BY <1>3 DEF Expire
    <2>3. ASSUME NEW s \in Requests
          PROVE  /\ result'[s].of = result[s].of
                 /\ result[s].err # "none" => result'[s].err # "none"
      BY <2>1 DEF ResultType
    <2>4. \A s \in Requests : result[s].of # 0 => result[s].of \in Requests
      <3>1. \A s \in Requests : result[s].of \in 0..MaxReqs
        BY DEF ResultType
      <3> QED  BY <3>1, ClusterAssumption DEF Requests
    <2>5. ASSUME NEW s \in Requests, result'[s].of # 0
          PROVE  /\ s <= reqs' /\ result'[s].of <= reqs'
                 /\ result'[s].of # s => result'[result'[s].of].err # "none"
      <3>1. PICK y : y = result[s].of
        OBVIOUS
      <3>2. result'[s].of = y
        <4>1. result'[s].of = result[s].of
          BY ONLY <2>3, s \in Requests
        <4> QED  BY ONLY <3>1, <4>1
      <3>3. y \in Requests
        BY <2>4, <2>5, <3>1, <3>2
      <3>4. s <= reqs /\ y <= reqs /\ (y # s => result[y].err # "none")
        BY <2>5, <3>1, <3>2
      <3>5. result[y].err # "none" => result'[y].err # "none"
        BY ONLY <2>3, <3>3
      <3> QED  BY <2>2, <3>2, <3>4, <3>5
    <2> QED  BY <2>5
  <1>4. CASE UNCHANGED <<result, reqs>>
    BY <1>4 
  <1> QED
    BY <1>1, <1>2, <1>3, <1>4
    DEF Next, Main, Callback, Client, vars, listVars, shmVars, mainVars, cbVars,
        clientVars,
        EnableCreate, DisableFind, EnableMagic, EnableNumber, EnableMapFails,
            EnableInsert, Destroy, ReleaseClear, ReleaseRemove, CbStart, CbFilter,
            CbLock, CbExecute, CbReply, Bind, BindRead, BindConnect, Unbind

\* Requests and replies travel between a client and the server.
LEMMA FlowStep ==
    ASSUME Ranges, MainPlaces, Flow, [Next]_vars
    PROVE  Flow'
  BY NumberedStep, AnsweringStep, ApartStep, AddressedStep, WaitingStep, PendingStep,
     ReturnedStep DEF Flow

\* Request r is somewhere between Send and Receive.
OnItsWay(r) == Queued(r) \/ Served(r) \/ Replied(r)

\* The requests on their way stay awaited in a step in which none is added, no
\* call returns a reply, and no client that waits, or what it waits for, changes.
LEMMA AwaitedKept ==
    ASSUME Ranges, Awaited, late' = late,
           \A r \in 1..reqs : OnItsWay(r)' => OnItsWay(r),
           \A s \in Requests : result'[s].of = result[s].of,
           \A r \in 1..reqs : cpc[sender[r]] = "wait" =>
                                cpc'[sender[r]] = "wait" /\ crq'[sender[r]] = crq[sender[r]],
           UNCHANGED <<reqs, sender>>
    PROVE  Awaited'
  <1> SUFFICES ASSUME ~late PROVE Awaited'
    BY DEF Awaited
  <1>1. \A r \in 1..reqs : r \in Requests
    BY ClusterAssumption DEF Ranges, ClientRange, Requests
  <1>2. \A r \in 1..reqs' : Queued(r)' \/ Served(r)' \/ Replied(r)' =>
              cpc'[sender'[r]] = "wait" /\ crq'[sender'[r]] = r
    BY DEF Awaited, OnItsWay
  <1>3. CorrespondingReply'
    BY <1>1 DEF Awaited, CorrespondingReply
  <1> QED  BY <1>2, <1>3 DEF Awaited

\* While no call has given up, a client waits for what is on its way to it.
LEMMA AwaitedStep ==
    ASSUME Ranges, MainPlaces, Flow, Once, Awaited, Once', [Next]_vars
    PROVE  Awaited'
  <1>0. /\ \A r \in 1..reqs : r \in Requests /\ sender[r] \in Clients
        /\ cpc \in [Clients -> {"unbound", "read", "connect", "ready", "wait"}]
        /\ reqs \in Nat
    BY ClusterAssumption DEF Ranges, ClientRange, Requests, Flow, Numbered
  <1>1. ASSUME NEW c \in Clients, Bind(c) \/ BindRead(c) \/ BindConnect(c) \/ Unbind(c)
        PROVE  Awaited'
    <2>1. /\ UNCHANGED <<late, reqs, sender, crq>> /\ cpc[c] # "wait"
          /\ \A d \in Clients : d # c => cpc'[d] = cpc[d]
      BY <1>0, <1>1 DEF Bind, BindRead, BindConnect, Unbind
    <2>2. Fewer
      <3>1. UNCHANGED <<inbox, cbpc, cbreq, result>>
        BY <1>1 DEF Bind, BindRead, BindConnect, Unbind, cbVars
      <3>2. mbox' = mbox \/ mbox' = [mbox EXCEPT ![c] = <<>>]
        BY <1>1 DEF Bind, BindRead, BindConnect, Unbind
      <3> QED  BY <3>1, <3>2 DEF Fewer, Ranges, ClientRange
    <2>3. \A r \in 1..reqs : OnItsWay(r)' => OnItsWay(r)
      BY <2>2, FewerStages DEF OnItsWay
    <2>4. \A s \in Requests : result'[s].of = result[s].of
      BY <2>2 DEF Fewer
    <2>5. \A r \in 1..reqs : cpc[sender[r]] = "wait" =>
             cpc'[sender[r]] = "wait" /\ crq'[sender[r]] = crq[sender[r]]
      BY <1>0, <2>1
    <2> QED  BY <2>1, <2>3, <2>4, <2>5, AwaitedKept
  <1>2. ASSUME NEW c \in Clients, Send(c) PROVE Awaited'
    <2>1. /\ reqs' = reqs + 1 /\ late' = late /\ cpc[c] = "ready"
          /\ sender' = [sender EXCEPT ![reqs + 1] = c]
          /\ mbox' = mbox /\ UNCHANGED <<cbpc, cbreq>>
      BY <1>2 DEF Send, cbVars
    <2>2. reqs + 1 \in Requests
      BY <1>0, <1>2, ClusterAssumption DEF Send, Ranges, ClientRange, Requests
    <2>3. \A s \in Requests : result'[s].of = result[s].of
      <3>1. result' = result \/ result' = [result EXCEPT ![reqs + 1].err = "ENOTCONN"]
        BY <1>2 DEF Send
      <3>2. result \in [Requests -> ResultType]
        BY DEF Ranges, ClientRange
      <3> QED  BY <3>1, <3>2 DEF ResultType
    <2>4. \A r \in 1..reqs : sender'[r] = sender[r]
      BY SenderKept
    <2>5. \A d \in Clients : d # c => cpc'[d] = cpc[d] /\ crq'[d] = crq[d]
      BY <1>0, <1>2, <2>1 DEF Send, Ranges, ClientRange
    <2>6. CorrespondingReply => CorrespondingReply'
      <3>1. result'[reqs + 1].of = 0
        BY <1>0, <2>2, <2>3 DEF Flow, Returned
      <3>2. \A r \in 1..reqs' : r \in 1..reqs \/ r = reqs + 1
        BY <1>0, <2>1
      <3> QED  BY <1>0, <2>3, <3>1, <3>2 DEF CorrespondingReply
    <2>7. ASSUME ~late, NEW r \in 1..reqs, OnItsWay(r)
          PROVE  cpc'[sender'[r]] = "wait" /\ crq'[sender'[r]] = r
      <3>1. cpc[sender[r]] = "wait" /\ crq[sender[r]] = r /\ sender[r] \in Clients
        BY <1>0, <2>7 DEF Awaited, OnItsWay
      <3> QED  BY <2>1, <2>4, <2>5, <3>1
    <2>8. CASE bound[c] \in live
      <3>1. \A r \in Requests : OnItsWay(r)' => OnItsWay(r) \/ r = reqs + 1
        BY <1>2, <2>8, SendStages DEF OnItsWay
      <3>2. sender'[reqs + 1] = c /\ cpc'[c] = "wait" /\ crq'[c] = reqs + 1
        BY <1>0, <1>2, <2>1, <2>2, <2>8 DEF Send, Ranges, ClientRange
      <3>3. ASSUME ~late, NEW r \in 1..reqs', OnItsWay(r)'
            PROVE  cpc'[sender'[r]] = "wait" /\ crq'[sender'[r]] = r
        <4>1. CASE r \in 1..reqs
          <5>1. r \in Requests /\ r # reqs + 1
            BY <1>0, <4>1
          <5> QED  BY <2>7, <3>1, <3>3, <4>1, <5>1
        <4>2. CASE r = reqs + 1
          BY <3>2, <4>2
        <4> QED  BY <1>0, <2>1, <4>1, <4>2
      <3> QED  BY <2>1, <2>6, <3>3 DEF Awaited, OnItsWay
    <2>9. CASE bound[c] \notin live
      <3>1. inbox' = inbox /\ cpc' = cpc
        BY <1>2, <2>9 DEF Send
      <3>2. \A r \in Requests : OnItsWay(r)' => OnItsWay(r)
        BY <2>1, <3>1 DEF OnItsWay, Queued, Served, Replied
      <3>3. ~OnItsWay(reqs + 1)
        <4>1. ~Queued(reqs + 1) /\ ~Served(reqs + 1)
          BY <1>0, <2>2 DEF Flow, Numbered
        <4>2. ~Replied(reqs + 1)
          BY <1>0 DEF Flow, Addressed, Replied
        <4> QED  BY <4>1, <4>2 DEF OnItsWay
      <3>4. ASSUME ~late, NEW r \in 1..reqs', OnItsWay(r)'
            PROVE  cpc'[sender'[r]] = "wait" /\ crq'[sender'[r]] = r
        <4>1. r \in Requests /\ (r \in 1..reqs \/ r = reqs + 1)
          BY <1>0, <2>1, <2>2
        <4>2. OnItsWay(r)
          BY <3>2, <3>4, <4>1
        <4>3. r \in 1..reqs
          BY <3>3, <4>1, <4>2
        <4> QED  BY <2>7, <3>4, <4>2, <4>3
      <3> QED  BY <2>1, <2>6, <3>4 DEF Awaited, OnItsWay
    <2> QED  BY <2>8, <2>9
  <1>3. ASSUME NEW c \in Clients, Receive(c) PROVE Awaited'
    <2>1. PICK x : x = Head(mbox[c]).of
      OBVIOUS
    <2>2. /\ x \in 1..reqs /\ x \in Requests /\ Replied(x) /\ crq[c] \in Requests
          /\ from[x] = num[c] /\ cpc[c] = "wait" /\ result'[crq[c]].of = x
          /\ \A s \in Requests : s # crq[c] => result'[s] = result[s]
          /\ \A r \in Requests : /\ Queued(r)' => Queued(r)
                                 /\ Served(r)' => Served(r)
                                 /\ Replied(r)' => Replied(r)
      BY <1>3, <2>1, ReceiveStages
    <2>3. /\ UNCHANGED <<late, reqs, sender>>
          /\ \A d \in Clients : d # c => cpc'[d] = cpc[d] /\ crq'[d] = crq[d]
      BY <1>0, <1>3 DEF Receive, Ranges, ClientRange
    <2>4. Taken(x)'
      BY <2>2 DEF Taken
    <2>5. ~OnItsWay(x)'
      BY <2>2, <2>4 DEF Once, OneStage, OnItsWay
    <2>6. CASE late
      BY <2>3, <2>6 DEF Awaited
    <2>7. CASE ~late
      <3>1. crq[c] = x
        <4>1. sender[x] \in Clients /\ cpc[sender[x]] = "wait" /\ crq[sender[x]] = x
          BY <1>0, <2>2, <2>7 DEF Awaited
        <4>2. from[x] = num[sender[x]]
          BY <4>1 DEF Flow, Waiting
        <4>3. sender[x] = c
          BY <2>2, <4>1, <4>2 DEF Flow, Apart
        <4> QED  BY <4>1, <4>3
      <3>2. CorrespondingReply'
        BY <1>0, <2>2, <2>3, <2>7, <3>1 DEF Awaited, CorrespondingReply
      <3>3. ASSUME NEW r \in 1..reqs, OnItsWay(r)'
            PROVE  cpc'[sender'[r]] = "wait" /\ crq'[sender'[r]] = r
        <4>1. r \in Requests /\ OnItsWay(r) /\ r # x
          BY <1>0, <2>2, <2>5, <3>3 DEF OnItsWay
        <4>2. cpc[sender[r]] = "wait" /\ crq[sender[r]] = r /\ sender[r] \in Clients
          BY <1>0, <2>7, <4>1 DEF Awaited, OnItsWay
        <4>3. sender[r] # c
          BY <3>1, <4>1, <4>2
        <4> QED  BY <2>3, <4>2, <4>3
      <3> QED  BY <2>3, <3>2, <3>3 DEF Awaited, OnItsWay
    <2> QED  BY <2>6, <2>7
  <1>4. ASSUME NEW c \in Clients, Expire(c) PROVE Awaited'
    BY <1>4 DEF Expire, Awaited
  <1>5. ASSUME UNCHANGED <<late, reqs, sender, cpc, crq, result>>,
               Fewer \/ \E h \in Handles : CbStart(h) \/ (CbReply(h) /\ ~UNCHANGED mbox)
        PROVE  Awaited'
    <2>1. \A r \in 1..reqs : OnItsWay(r)' => OnItsWay(r)
      <3>1. CASE Fewer
        BY <3>1, FewerStages DEF OnItsWay
      <3>2. ASSUME NEW h \in Handles, CbStart(h) PROVE \A r \in 1..reqs : OnItsWay(r)' => OnItsWay(r)
        BY <1>0, <3>2, StartStages DEF OnItsWay
      <3>3. ASSUME NEW h \in Handles, CbReply(h), ~UNCHANGED mbox
            PROVE \A r \in 1..reqs : OnItsWay(r)' => OnItsWay(r)
        BY <1>0, <3>3, ReplyStages DEF OnItsWay
      <3> QED  BY <1>5, <3>1, <3>2, <3>3
    <2> QED  BY <1>5, <2>1, AwaitedKept
  <1>6. \/ UNCHANGED <<late, reqs, sender, cpc, crq, result>>
        \/ \E c \in Clients : \/ Bind(c) \/ BindRead(c) \/ BindConnect(c) \/ Unbind(c)
                              \/ Send(c) \/ Receive(c) \/ Expire(c)
    BY DEF Next, Main, Callback, Client, vars, clientVars, EnableCreate, DisableFind,
           EnableMagic, EnableNumber, EnableMapFails, EnableInsert, Destroy,
               ReleaseClear,
           ReleaseRemove, CbStart, CbFilter, CbLock, CbExecute, CbReply
  <1>7. \/ Fewer \/ \E h \in Handles : CbStart(h) \/ (CbReply(h) /\ ~UNCHANGED mbox)
        \/ \E c \in Clients : Receive(c) \/ Send(c)
    BY MovesOrFewer DEF Moves
  <1> QED  BY <1>1, <1>2, <1>3, <1>4, <1>5, <1>6, <1>7

-----------------------------------------------------------------------------
(* The theorems *)

\* The initial state: nothing is enabled, bound or sent.
LEMMA InitInv == Init => IInv
  <1> SUFFICES ASSUME Init PROVE IInv
    OBVIOUS
  <1> USE ClusterAssumption DEF Init
  <1>1. NoReply \in ReplyType /\ [err |-> "none", of |-> 0] \in ResultType
    BY DEF NoReply, ReplyType, ResultType
  <1>2. Ranges
    <2>1. ListRange /\ ShmRange /\ MainRange
      BY DEF ListRange, ShmRange, MainRange, Adapters
    <2>2. CbRange
      BY <1>1 DEF CbRange
    <2>3. ClientRange
      <3>1. result \in [Requests -> ResultType] /\ sender \in [Requests -> Clients \cup {"none"}]
        BY <1>1
      <3>2. mbox \in [Clients -> Seq(ReplyType)]
        OBVIOUS
      <3>3. 0 \in 0..MaxAdapter /\ 0 \in 0..MaxReqs
        OBVIOUS
      <3> QED  BY <3>1, <3>2, <3>3 DEF ClientRange
    <2> QED  BY <2>1, <2>2, <2>3 DEF Ranges
  <1>3. MainPlaces /\ Looking
    BY DEF MainPlaces, Looking, Making, Releasing
  <1>4. SeenAlive
    BY DEF SeenAlive, Seen, Making, Handles
  <1>5. EntryAlive /\ ListPublished
    BY DEF EntryAlive, ListPublished, Making, Keys
  <1>6. \A r \in Requests : ~Queued(r) /\ ~Served(r) /\ ~Replied(r) /\ ~Taken(r)
    BY DEF Queued, Served, Replied, Taken, Requests
  <1>7. Flow
    BY <1>6 DEF Flow, Numbered, Answering, Apart, Addressed, Waiting, Pending, Returned
  <1>8. Once
    BY <1>6 DEF Once, OneStage, QueuedOnce, ServedOnce, MailedOnce, TakenOnce
  <1>9. Awaited
    BY DEF Awaited, CorrespondingReply
  <1> QED  BY <1>2, <1>3, <1>4, <1>5, <1>7, <1>8, <1>9 DEF IInv

\* Every step keeps every part of the invariant.
LEMMA NextInv == IInv /\ [Next]_vars => IInv'
  <1> SUFFICES ASSUME IInv, [Next]_vars PROVE IInv'
    OBVIOUS
  <1> USE DEF IInv
  <1>1. Ranges' /\ MainPlaces' /\ Looking' /\ SeenAlive'
    BY RangesStep, MainPlacesStep, LookingStep, SeenAliveStep
  <1>2. EntryAlive'
    <2>1. CASE MapFails
      BY <2>1 DEF EntryAlive
    <2> QED  BY <2>1, EntryAliveStep
  <1>3. ListPublished'
    <2>1. CASE MapFails \/ Reenable
      BY <2>1 DEF ListPublished
    <2> QED  BY <2>1, ListPublishedStep
  <1>4. Flow' /\ Once'
    BY FlowStep, OnceStep
  <1>5. Awaited'
    BY <1>4, AwaitedStep
  <1> QED  BY <1>1, <1>2, <1>3, <1>4, <1>5

\* The inductive invariant holds in every reachable state.
THEOREM Invariance == Spec => []IInv
  BY InitInv, NextInv, PTL DEF Spec

\* All state of the server, its callbacks and the clients stays in its range,
\* and _nvm_rpc_handle_insert keeps the keys in the list of handles distinct.
THEOREM TypeCorrect == Spec => []TypeOK
  <1>1. IInv => TypeOK
    <2> SUFFICES ASSUME IInv PROVE TypeOK
      OBVIOUS
    <2> DEFINE n == Len(handles)
               f == [i \in 1..n |-> adp[handles[i]]]
    <2>1. n \in Nat
      BY DEF IInv, Ranges, ListRange
    <2>2. f \in Bijection(1..n, Keys)
      BY DEF IInv, MainPlaces, Keys, Bijection, Injection, Surjection, IsInjective
    <2> HIDE DEF n, f
    <2>3. Cardinality(Keys) = n
      BY <2>1, <2>2, FS_CountingElements DEF ExistsBijection
    <2> QED  BY <2>3 DEF n, IInv, TypeOK
  <1> QED  BY <1>1, Invariance, PTL

\* handle_remote_command never runs for a handle that was freed: disabling an
\* adapter and destroying the queues wait for the callback, and no interrupt
\* that was left behind is ever triggered.
THEOREM CallbacksSafe == Spec => []CallbackHandleAlive
  <1>1. IInv => CallbackHandleAlive
    BY DEF IInv, SeenAlive, CallbackHandleAlive
  <1> QED  BY <1>1, Invariance, PTL

\* The interrupt numbers that write_handle_info leaves in shared device memory
\* are those of interrupts that exist, also while adapters are enabled twice.
THEOREM EntriesLive == Spec => []PublishedLive
  <1>1. IInv => PublishedLive
    BY DEF IInv, EntryAlive, PublishedLive
  <1> QED  BY <1>1, Invariance, PTL

\* Where no adapter is enabled twice, clients find every enabled adapter
\* between the server's calls.
THEOREM EnabledFound == ~Reenable => (Spec => []EnabledPublished)
  <1> SUFFICES ASSUME ~Reenable PROVE Spec => []EnabledPublished
    OBVIOUS
  <1>1. IInv => EnabledPublished
    BY DEF IInv, ListPublished, EnabledPublished
  <1> QED  BY <1>1, Invariance, PTL

\* While a call of remote_command waits, no other call takes the reply to its
\* request, however late replies are and although interrupt numbers are given
\* out again: the number stays with the client as long as it waits.
THEOREM RepliesNotStolen == Spec => []NoReplyStolen
  <1>1. IInv => NoReplyStolen
    <2> SUFFICES ASSUME IInv, NEW r \in 1..reqs, NEW s \in 1..reqs, result[s].of = r, s # r
                 PROVE  result[r].err # "none"
      BY DEF NoReplyStolen
    <2>1. s \in Requests /\ r # 0
      BY ClusterAssumption DEF IInv, Ranges, ClientRange, Requests
    <2> QED  BY <2>1 DEF IInv, Flow, Returned
  <1> QED  BY <1>1, Invariance, PTL

\* No reply is returned by two calls of remote_command.
THEOREM RepliesOnce == Spec => []RepliedOnce
  <1>1. IInv => RepliedOnce
    <2> SUFFICES ASSUME IInv PROVE RepliedOnce
      OBVIOUS
    <2>1. \A r \in 1..reqs : r \in Requests
      BY ClusterAssumption DEF IInv, Ranges, ClientRange, Requests
    <2> QED  BY <2>1 DEF IInv, Once, TakenOnce, RepliedOnce
  <1> QED  BY <1>1, Invariance, PTL

\* Until a first call has given up waiting (RPC_COMMAND_TIMEOUT, or an error of
\* the wait), every call returns the
\* reply to its own request.
THEOREM RepliesOwn == Spec => []OwnUnlessLate
  <1>1. IInv => OwnUnlessLate
    BY DEF IInv, Awaited, OwnUnlessLate
  <1> QED  BY <1>1, Invariance, PTL
=============================================================================
