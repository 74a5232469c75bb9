----------------------------- MODULE DmaMapping -----------------------------
(***************************************************************************)
(* Controller handles and DMA handles of the library in use: the calls that *)
(* make and release them (LibraryHandles), in several threads, each step of *)
(* which may fail; the addresses a DMA handle gives out; and, for handles   *)
(* of the kernel module, what the module then has mapped (KernelModule).    *)
(* The repository's programs (Programs) run alone.  SISCI, ioctl, mmap and  *)
(* malloc are modelled from their use.                                      *)
(***************************************************************************)
EXTENDS Programs, FiniteSets

CONSTANTS
    Ctrls, Handles,   \* controller handles and DMA handles callers keep
    Threads,          \* threads of the process
    CtrlPage,         \* ctrl->page_size, which is the host's page size
    GpuPage,          \* page size of a GPU
    RawPages,         \* page sizes callers pass to nvm_dma_map
    Sizes,            \* sizes callers ask for (of segments: their size)
    VAddrs,           \* page-aligned addresses callers pass
    Kinds,            \* constructors in use
    Lone              \* bound: kinds of DMA handle made only while there is no other

ASSUME DmaAssumption ==
    /\ CtrlPage \in Nat \ {0} /\ GpuPage \in Nat \ {0} /\ GpuPage % CtrlPage = 0
    /\ RawPages \subseteq Nat /\ Sizes \subseteq Nat
    /\ Ctrls \cap Handles = {} /\ "fine" \notin Ctrls \union Handles

VARIABLES
    obj,       \* obj[o]: a controller or DMA handle, or Nothing
    ufd,       \* ufd[c]: the descriptor nvm_ctrl_init was called with is open
    opener,    \* opener[c]: the thread that opened it
    kmaps,     \* kmaps[c]: the module's mappings of that open file, found by address
    fault,     \* the object whose call has released what it does not hold, or used a
               \* pointer that is none (the program stops there), or Fine
    foreign    \* history: <<c, va>> whose unmapping another thread than the opener asked for

vars == <<obj, ufd, opener, kmaps, fault, foreign>>

-----------------------------------------------------------------------------
(* The constructors by kind, the controller each needs, and the release of what it made *)

CtrlKinds == {"raw", "sysfs", "smartio"}
LatKinds  == {"latency", "latency_gpu"}
ProgKinds == {"id_user", "id_module", "id_smartio", "read_module", "read_smartio",
              "integrity", "rpc_server", "rpc_client"} \union LatKinds
KernKinds == {"host", "cuda"}
SegKinds  == {"create", "attach"}
DisKinds  == {"local", "local_va", "remote", "remote_va", "connect"} \union SegKinds
DmaKinds  == {"phys"} \union KernKinds \union DisKinds

Main(kind) ==
    CASE kind = "id_user"      -> id_user
      [] kind = "id_module"    -> id_module
      [] kind = "id_smartio"   -> id_smartio
      [] kind = "read_module"  -> read_module
      [] kind = "read_smartio" -> read_smartio
      [] kind = "integrity"    -> integrity
      [] kind = "rpc_server"   -> rpc_server
      [] kind = "rpc_client"   -> rpc_client
      [] kind \in LatKinds     -> latency(kind = "latency")

Program(kind) ==
    CASE kind \in ProgKinds  -> Main(kind).steps
      [] kind = "raw"        -> nvm_raw_ctrl_init
      [] kind = "sysfs"      -> nvm_ctrl_init
      [] kind = "smartio"    -> nvm_dis_ctrl_init
      [] kind = "phys"       -> nvm_dma_map
      [] kind \in KernKinds  -> nvm_dma_map_host
      [] kind = "local"      -> nvm_dis_dma_map_local(FALSE)
      [] kind = "local_va"   -> nvm_dis_dma_map_local(TRUE)
      [] kind = "remote"     -> nvm_dis_dma_map_remote(FALSE)
      [] kind = "remote_va"  -> nvm_dis_dma_map_remote(TRUE)
      [] kind = "create"     -> nvm_dis_dma_create
      [] kind = "attach"     -> nvm_dis_dma_map_device
      [] kind = "connect"    -> nvm_dis_dma_connect

\* _nvm_fd_from_ctrl, _nvm_device_from_ctrl
CtrlOk(kind, ctrlkind) ==
    /\ kind \in KernKinds => ctrlkind = "sysfs"
    /\ kind \in DisKinds => ctrlkind = "smartio"

nvm_dma_unmap(kind) ==
    _nvm_dma_remove(CASE kind = "phys"      -> Mem("md")
                      [] kind \in KernKinds -> remove_mapping
                      [] kind \in SegKinds  -> remove_local_segment
                      [] kind = "connect"   -> disconnect_remote_segment
                      [] OTHER              -> remove_map_descriptor)

-----------------------------------------------------------------------------
(* Page arithmetic *)

Ceil(size, page)  == (size + page - 1) \div page      \* NVM_PAGE_ALIGN(size, page) / page
Align(size, page) == page * Ceil(size, page)

\* page_size and n_pages of the mapping descriptor, from the size asked for.  A caller of
\* nvm_dma_map gives both; the size of a remote segment is rounded down.
Descriptor(kind, size, page) ==
    CASE kind = "phys"  -> [page |-> page, n |-> size]
      [] kind = "host"  -> [page |-> CtrlPage, n |-> Ceil(size, CtrlPage)]
      [] kind = "cuda"  -> [page |-> GpuPage, n |-> Ceil(size, GpuPage)]
      [] kind \in {"remote", "remote_va"} -> [page |-> CtrlPage * (size \div CtrlPage), n |-> 1]
      [] OTHER          -> [page |-> Align(size, CtrlPage), n |-> 1]

\* The check of _nvm_dma_create
Fits(md) == md.page # 0 /\ md.n # 0 /\ (md.page * md.n) % CtrlPage = 0

n_ctrl_pages(md) == (md.page * md.n) \div CtrlPage

\* Mutant: the offset within the page is left out.
_nvm_dma_handle_populate_NoOffset(md, got) ==
    [i \in 0..(n_ctrl_pages(md) - 1) |->
        LET p == (i * CtrlPage) \div md.page
        IN [page |-> IF p < got THEN p ELSE "0", off |-> 0]]

\* _nvm_dma_handle_populate: for each controller page, which of the descriptor's pages
\* its address is taken from and the offset added.  Pages the module has not mapped
\* have the address 0 (calloc).
Unknown == "0"
_nvm_dma_handle_populate(md, got) ==
    [i \in 0..(n_ctrl_pages(md) - 1) |->
        LET p == (i * CtrlPage) \div md.page
        IN [page |-> IF p < got THEN p ELSE Unknown, off |-> (i * CtrlPage) % md.page]]

-----------------------------------------------------------------------------
(* Calls.  An object that is being built, undone or released belongs to the thread    *)
(* that called.                                                                       *)

Objects  == Ctrls \union Handles
Fine     == "fine"
Nothing  == [st |-> "none", kind |-> "none", pos |-> 0, held |-> {}, todo |-> <<>>]
NoMd     == [page |-> 0, n |-> 0]

Alone      == \A o \in Objects : obj[o].st = "none"
InCall(t)  == \E o \in Objects : obj[o].st \in {"build", "release"} /\ obj[o].who = t
UsedBy(c)  == {h \in Handles : obj[h].st # "none" /\ obj[h].via = c}

New(kind, t, c, va, size, md) ==
    [st |-> "build", kind |-> kind, pos |-> 1, held |-> {}, todo |-> <<>>, who |-> t,
     via |-> c, va |-> va, size |-> size, md |-> md, got |-> md.n]

\* nvm_ctrl_init takes a duplicate of a descriptor the caller has opened.  Callers do not
\* open a device again whose module still has mappings of an earlier open file.
CtrlInit(c, t, kind) ==
    /\ obj[c].st = "none" /\ ~InCall(t) /\ UsedBy(c) = {} /\ ~ufd[c] /\ kmaps[c] = {}
    /\ obj' = [obj EXCEPT ![c] = New(kind, t, c, 0, 0, NoMd)]
    /\ ufd' = [ufd EXCEPT ![c] = (kind = "sysfs")]
    /\ opener' = [opener EXCEPT ![c] = t]
    /\ UNCHANGED <<kmaps, fault, foreign>>

\* One of the programs runs, with nothing else going on.
Start(c, t, kind) ==
    /\ Alone /\ kmaps[c] = {} /\ ~ufd[c]
    /\ obj' = [obj EXCEPT ![c] = New(kind, t, c, 0, 0, NoMd)]
    /\ UNCHANGED <<ufd, opener, kmaps, fault, foreign>>

\* Callers map an address once at a time: the module finds mappings by address.
DmaInit(h, t, kind) ==
    /\ obj[h].st = "none" /\ ~InCall(t)
    /\ \A g \in Handles : obj[g].st # "none" => {kind, obj[g].kind} \cap Lone = {}
    /\ \E c \in Ctrls, va \in IF kind \in KernKinds THEN VAddrs ELSE {0}, size \in Sizes,
          page \in IF kind = "phys" THEN RawPages ELSE {0} :
          /\ obj[c].st = "live" /\ obj[c].kind \in CtrlKinds /\ CtrlOk(kind, obj[c].kind)
          /\ kind \in KernKinds => \A g \in UsedBy(c) : obj[g].va # va
          /\ \A m \in kmaps[c] : m.va # va
          /\ obj' = [obj EXCEPT ![h] = New(kind, t, c, va, size, Descriptor(kind, size, page))]
    /\ UNCHANGED <<ufd, opener, kmaps, fault, foreign>>

AtStep(o) == /\ obj[o].st = "build" /\ obj[o].todo = <<>>
             /\ obj[o].pos <= Len(Program(obj[o].kind))
Step(o)   == Program(obj[o].kind)[obj[o].pos]
Maps(o)   == Step(o).get = R("md", "pages")

\* What the steps so far have tried to take
Tried(o)  == {Program(obj[o].kind)[i].get : i \in 1..(obj[o].pos - 1)} \ {None}

\* What cannot succeed: _nvm_dma_create of a size that does not fit; NVM_MAP_..._MEMORY
\* from a thread that owns no reference of the open file.
Possible(o) ==
    /\ Step(o).get = R("dma", "mem") => Fits(obj[o].md)
    /\ Maps(o) => obj[o].who = opener[obj[o].via]

\* Mutant: the module may map one page too many.
Proceed_PastEnd(o) ==
    /\ AtStep(o) /\ Step(o).drop = <<>> /\ Possible(o)
    /\ \E got \in IF Maps(o) THEN 0..(obj[o].md.n + 1) ELSE {obj[o].got} :
          obj' = [obj EXCEPT ![o].pos = @ + 1, ![o].held = @ \union ({Step(o).get} \ {None}),
                             ![o].got = got]
    /\ UNCHANGED <<ufd, opener, kmaps, fault, foreign>>

\* A step succeeds.  The module may map fewer pages than asked for.
Proceed(o) ==
    /\ AtStep(o) /\ Step(o).drop = <<>> /\ Possible(o)
    /\ \E got \in IF Maps(o) THEN 0..obj[o].md.n ELSE {obj[o].got} :
          obj' = [obj EXCEPT ![o].pos = @ + 1, ![o].held = @ \union ({Step(o).get} \ {None}),
                             ![o].got = got]
    /\ kmaps' = IF Maps(o)
                THEN [kmaps EXCEPT ![obj[o].via] = @ \union {[va |-> obj[o].va, by |-> o]}]
                ELSE kmaps
    /\ UNCHANGED <<ufd, opener, fault, foreign>>

\* A step fails, and with it the call, or not.  A failed mmap is taken for a mapping,
\* because it is compared with NULL.
StepFails(o) ==
    /\ AtStep(o) /\ Step(o).drop = <<>>
    /\ IF Step(o).get = R("ctrl", "mmap")
       THEN fault' = o /\ UNCHANGED obj
       ELSE /\ obj' = [obj EXCEPT ![o].st = IF Step(o).skip = 0 THEN "release" ELSE @,
                                   ![o].pos = @ + Step(o).skip,
                                   ![o].todo = Step(o).undo]
            /\ UNCHANGED fault
    /\ UNCHANGED <<ufd, opener, kmaps, foreign>>

\* Releases in the middle of a constructor
StepDrops(o) ==
    /\ AtStep(o) /\ Step(o).drop # <<>>
    /\ obj' = [obj EXCEPT ![o].pos = @ + 1, ![o].todo = Step(o).drop]
    /\ UNCHANGED <<ufd, opener, kmaps, fault, foreign>>

Return(o) ==
    /\ obj[o].st = "build" /\ obj[o].todo = <<>> /\ ~AtStep(o)
    /\ obj' = [obj EXCEPT ![o].st = "live"]
    /\ UNCHANGED <<ufd, opener, kmaps, fault, foreign>>

-----------------------------------------------------------------------------
(* Releases *)

\* A controller may be freed before the DMA handles made with it.  A program ends.
CtrlFree(c, t) ==
    /\ obj[c].st = "live" /\ ~InCall(t) /\ \A h \in UsedBy(c) : obj[h].st # "build"
    /\ obj' = [obj EXCEPT ![c].st = "release", ![c].who = t,
                       ![c].todo = IF obj[c].kind \in ProgKinds THEN Main(obj[c].kind).release
                                   ELSE nvm_ctrl_free(obj[c].kind)]
    /\ UNCHANGED <<ufd, opener, kmaps, fault, foreign>>

DmaUnmap(h, t) ==
    /\ obj[h].st = "live" /\ ~InCall(t)
    /\ obj' = [obj EXCEPT ![h].st = "release", ![h].todo = nvm_dma_unmap(obj[h].kind), ![h].who = t]
    /\ UNCHANGED <<ufd, opener, kmaps, fault, foreign>>

\* NVM_UNMAP_MEMORY removes the mapping of that address, for the thread that owns the
\* reference; unmap_memory's result is ignored.
unmap_memory(o) ==
    IF obj[o].who # opener[obj[o].via] THEN kmaps[obj[o].via]
    ELSE {m \in kmaps[obj[o].via] : m.va # obj[o].va}

\* The last close of an open file: the module lets go of its mappings if the thread that
\* closes it is the one that opened it.  A memory mapping keeps a file open.
OpenBy(o, c) == obj[o].st # "none" /\ obj[o].via = c
                  /\ obj[o].held \cap {R("md", "fd"), R("ctrl", "fd"), R("ctrl", "mmap")} # {}
AfterClose(c, t, open) == IF open \/ t # opener[c] THEN kmaps[c] ELSE {}

InMemory == {"ref", "md", "seg", "dma", "tmp"}

\* What the structure's memory says is lost once that memory is freed.
Releasable(res, held, tried) ==
    /\ \/ res \in held \union Conditional
       \/ res[1] = "var" /\ res \notin tried
    /\ res[1] \in InMemory => R(res[1], "mem") \in held

\* One release
ReleaseNext(o) ==
    LET res   == Head(obj[o].todo)
        after == [obj EXCEPT ![o].todo = Tail(@), ![o].held = @ \ {res}]
        c     == obj[o].via
    IN /\ obj[o].st # "none" /\ obj[o].todo # <<>>
       /\ IF Releasable(res, obj[o].held, Tried(o))
          THEN obj' = after /\ UNCHANGED fault
          ELSE fault' = o /\ UNCHANGED obj
       /\ kmaps' = [kmaps EXCEPT ![c] =
             IF res \notin obj[o].held \/ fault' # Fine THEN @
             ELSE IF res = R("md", "pages") THEN unmap_memory(o)
             ELSE IF OpenBy(o, c) /\ ~OpenBy(o, c)'
             THEN AfterClose(c, obj[o].who, ufd[c] \/ \E g \in Objects : OpenBy(g, c)')
             ELSE @]
       /\ foreign' = foreign \union
             (IF res = R("md", "pages") /\ res \in obj[o].held /\ obj[o].who # opener[c]
              THEN {<<c, obj[o].va>>} ELSE {})
       /\ UNCHANGED <<ufd, opener>>

ReleaseDone(o) ==
    /\ obj[o].st = "release" /\ obj[o].todo = <<>>
    /\ obj' = [obj EXCEPT ![o] = Nothing]
    /\ UNCHANGED <<ufd, opener, kmaps, fault, foreign>>

\* The caller closes the descriptor it gave to nvm_ctrl_init, once that has returned.
UserClose(c, t) ==
    /\ ufd[c] /\ obj[c].st # "build" /\ ~InCall(t)
    /\ ufd' = [ufd EXCEPT ![c] = FALSE]
    /\ kmaps' = [kmaps EXCEPT ![c] = AfterClose(c, t, \E o \in Objects : OpenBy(o, c))]
    /\ UNCHANGED <<obj, opener, fault, foreign>>

\* The device is removed, with what the module still has mapped (RemoveRef of KernelModule).
DeviceRemoved(c) ==
    /\ obj[c].st = "none" /\ ~ufd[c] /\ UsedBy(c) = {} /\ kmaps[c] # {}
    /\ kmaps' = [kmaps EXCEPT ![c] = {}]
    /\ foreign' = {f \in foreign : f[1] # c}
    /\ UNCHANGED <<obj, ufd, opener, fault>>

-----------------------------------------------------------------------------

Init ==
    /\ obj = [o \in Objects |-> Nothing]
    /\ ufd = [c \in Ctrls |-> FALSE]
    /\ opener \in {[c \in Ctrls |-> t] : t \in Threads}
    /\ kmaps = [c \in Ctrls |-> {}]
    /\ fault = Fine
    /\ foreign = {}

Work(o) == \/ Proceed(o) \/ StepFails(o) \/ StepDrops(o) \/ Return(o)
           \/ ReleaseNext(o) \/ ReleaseDone(o)

Next ==
    \/ /\ fault = Fine
       /\ \/ \E t \in Threads, c \in Ctrls :
                \/ \E kind \in Kinds \intersect CtrlKinds : CtrlInit(c, t, kind)
                \/ \E kind \in Kinds \intersect ProgKinds : Start(c, t, kind)
                \/ CtrlFree(c, t)
                \/ UserClose(c, t)
          \/ \E c \in Ctrls : DeviceRemoved(c)
          \/ \E t \in Threads, h \in Handles :
                \/ \E kind \in Kinds \intersect DmaKinds : DmaInit(h, t, kind)
                \/ DmaUnmap(h, t)
          \/ \E o \in Objects : Work(o)
    \/ fault # Fine /\ UNCHANGED vars        \* the program has gone wrong

Spec == Init /\ [][Next]_vars

-----------------------------------------------------------------------------
(* Properties *)

\* Type invariant: what objects hold are resources their constructors take.
TypeOK ==
    /\ \A o \in Objects :
          /\ obj[o].st \in {"none", "build", "live", "release"}
          /\ obj[o].st # "none" =>
                /\ obj[o].held \subseteq Tried(o)
                /\ obj[o].got \in 0..obj[o].md.n
    /\ \A c \in Ctrls : kmaps[c] \subseteq [va : VAddrs, by : Handles]
    /\ fault \in Objects \union {Fine}

\* The constructor of the benchmark's Controller threw: SCIInitialize is the step before it.
Thrown(o) ==
    obj[o].kind \in LatKinds /\ obj[o].st = "release" /\ obj[o].pos <= 1 + Len(Controller)

\* What may be left behind
Left(kind, thrown) ==
    CASE kind \in SegKinds  -> {R("seg", "sd")}
      [] kind \in LatKinds  -> {var("sisci")} \union
                               (IF thrown THEN {var("ctrl"), var("aq")} ELSE {})
      [] kind \in ProgKinds \ LatKinds -> {var("sisci")}
      [] OTHER              -> {}

\* A call that fails, and a release, leave nothing behind: no memory, descriptor, device
\* reference or mapping; so do the programs, whichever of their steps fails.  Exceptions:
\* the SISCI descriptor that create_segment opens, which _nvm_local_memory_put does not
\* close; programs that fail need not call SCITerminate; and a Controller of the latency
\* benchmark whose constructor throws leaves its references.
CleanAfter ==
    \A o \in Objects : obj[o].st = "release" /\ obj[o].todo = <<>> =>
                           obj[o].held \subseteq Left(obj[o].kind, Thrown(o))

\* What the resources of a program rest on
ProgramRests(kind, thrown, held) ==
    LET Has(x)    == held \cap {var(x), loc(x)} # {}
        Seg(s, f) == R(s, f) \in held
    IN /\ Has("aq") =>
             \/ Has("ctrl") /\ (Has("aq_mem") \/ Seg("queue", "dma") \/ kind = "rpc_client")
             \/ thrown
       /\ kind \in {"id_user", "id_module", "read_module"} /\ Has("aq_mem") => Has("aq_ptr")
       /\ kind = "read_module" /\ (Has("sq_mem") \/ Has("cq_mem")) => Has("queue_ptr")
       /\ kind \in {"read_module", "latency_gpu"} /\ Has("buffer") => Has("buffer_ptr")
       /\ \A s \in {"queue", "page"} : /\ Seg(s, "dma") => Seg(s, "available")
                                       /\ Seg(s, "available") => Seg(s, "segment")
                                       /\ Seg(s, "segment") => Seg(s, "sd")

\* Fields are held while the structure they are in is there: create_segment's descriptor,
\* which is never closed, is the exception.
Stored(held) == \A r \in held \ {R("seg", "sd")} : r[1] \in InMemory => R(r[1], "mem") \in held

\* What the fields of a handle rest on
Backed(kind, held) ==
    LET Has(s, f) == R(s, f) \in held
        Owned     == kind \in SegKinds \union {"connect"}
    IN /\ \A s \in {"dev", "ref", "md", "seg"} : Has(s, "device") => Has(s, "sd")
       /\ Has("seg", "segment") => Has("seg", "sd")
       /\ Has("ref", "segment") => Has("ref", "device")
       /\ Has("ref", "va") => Has("ref", "segment")
       /\ Has("md", "io") => Has("md", "device")
       /\ Owned /\ (Has("md", "io") \/ Has("md", "va")) => Has("seg", "segment")
       /\ Has("md", "pages") => Has("md", "fd")

Rests(kind, thrown, held) ==
    /\ Backed(kind, held) /\ Stored(held)
    /\ kind \in ProgKinds => ProgramRests(kind, thrown, held)

\* At every moment, in roll-backs and releases too and whatever was freed first, what is
\* held still has what it rests on: a borrowed device its descriptor, a segment its
\* descriptor or device, a mapping its segment and device, pinned pages the descriptor
\* to unpin them with, and everything the structure that says it is held.  In programs an
\* admin queue pair has its controller handle and its memory, DMA mappings the host or
\* GPU memory they map, and a segment is unavailable before it is removed -- unless the
\* constructor of the benchmark's Controller throws, which unmaps the queues in use.
Grounded == \A o \in Objects : Rests(obj[o].kind, Thrown(o), obj[o].held)

\* Handles and the kernel module agree, whatever was freed or closed first and whatever
\* other threads do.  A DMA handle of the module that the caller has in hand is mapped,
\* even when the controller handle it was made with is gone.  And what the module has
\* mapped some handle stands for, except where a thread that has not opened the device
\* released the handle: the ioctl failed and nobody was told.
ModuleAgrees ==
    /\ \A h \in Handles : obj[h].st = "live" /\ obj[h].kind \in KernKinds =>
          \E m \in kmaps[obj[h].via] : m.by = h
    /\ \A c \in Ctrls : \A m \in kmaps[c] :
          \/ OpenBy(m.by, c) /\ R("md", "pages") \in obj[m.by].held /\ obj[m.by].va = m.va
          \/ <<c, m.va>> \in foreign

\* The addresses of a handle: controller page i is byte i * page_size of the memory, it
\* lies within one of its pages, and the pages cover what was asked for (a remote segment:
\* up to its last whole page) -- if the module mapped all of it and the pages given to
\* nvm_dma_map are multiples of the controller's.
AddressesCover ==
    \A h \in Handles :
        LET md    == obj[h].md
            addrs == _nvm_dma_handle_populate(md, obj[h].got)
        IN obj[h].st = "live" /\ md.page % CtrlPage = 0 /\ obj[h].got = md.n =>
              /\ \A i \in DOMAIN addrs : /\ addrs[i].page \in 0..(md.n - 1)
                                         /\ addrs[i].page * md.page + addrs[i].off = i * CtrlPage
                                         /\ addrs[i].off + CtrlPage <= md.page
              /\ LET bytes == Cardinality(DOMAIN addrs) * CtrlPage
                 IN CASE obj[h].kind = "phys" -> bytes = md.page * obj[h].size
                      [] obj[h].kind \in {"remote", "remote_va"} ->
                            bytes <= obj[h].size /\ obj[h].size < bytes + CtrlPage
                      [] OTHER -> bytes >= obj[h].size

\* Nothing is released twice, or read after it was freed, except in three places: the
\* roll-back of nvm_dma_map_host and nvm_dma_map_device after a failed mapping, an mmap
\* that fails in nvm_ctrl_init, and a failed look-up of addresses in identify_ctrl.
FaultsKnown ==
    fault # Fine =>
        \/ obj[fault].kind = "sysfs" /\ obj[fault].st = "build"
        \/ /\ obj[fault].kind \in KernKinds /\ obj[fault].st = "release"
           /\ R("dma", "mem") \notin obj[fault].held
        \/ /\ obj[fault].kind = "id_user"
           /\ loc("locked") \in Tried(fault) /\ loc("aq_mem") \notin Tried(fault)

=============================================================================
