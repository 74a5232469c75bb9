---------------------------- MODULE KernelModule ----------------------------
(***************************************************************************)
(* The kernel module (module/pci.c, map.c, list.c, cdev.c): it gives each   *)
(* NVMe controller a character device, each opener a reference slot, and    *)
(* maps pages of its callers' memory, or of a GPU, for the controller.      *)
(*                                                                          *)
(* The module takes no lock.  Tasks open, map, unmap and release; the PCI   *)
(* core probes and removes devices; the GPU driver takes pages back.  All   *)
(* of them run at the same time.  A step ends where the code sleeps or      *)
(* where another actor can see what was done.  A task is what the kernel    *)
(* calls current: a thread, told from others by its pid.  A file can be     *)
(* used, and released, by another task than the one that opened it (dup,    *)
(* fork, exit).  Calls that fail without a change of state are left out.    *)
(***************************************************************************)
EXTENDS Naturals, Sequences, FiniteSets, SequencesExt

CONSTANTS
    Tasks,        \* threads that call the module
    Files,        \* open files of the character devices
    Pdevs,        \* PCI devices the driver's id table matches
    NumDevs,      \* num_ctrl_devs
    NumRefs,      \* num_ctrl_refs
    MaxPages,     \* max_pages_per_map
    UserAddrs,    \* page-aligned addresses of host memory callers map: not 0
    GpuAddrs,     \* the same of GPU memory: empty unless built with _CUDA
    MapIds,       \* bound: map descriptors that exist at a time
    MaxAfterRace  \* bound: steps followed after a race

ASSUME KernelAssumption ==
    /\ NumDevs \in Nat \ {0} /\ NumRefs \in Nat \ {0} /\ MaxPages \in Nat
    /\ UserAddrs \subseteq Nat \ {0} /\ GpuAddrs \subseteq Nat \ {0}
    /\ UserAddrs \cap GpuAddrs = {} /\ Tasks \cap Pdevs = {}
    /\ "no device" \notin Pdevs /\ "no task" \notin Tasks /\ "no map" \notin MapIds \union Files
    /\ MaxAfterRace \in Nat \ {0}

VARIABLES
    mod, held,    \* how far the module is loaded, and what it then holds
    devs, refs,   \* ctrl_devs and ctrl_refs
    heap,         \* heap[m]: map descriptor m, or NoMap when it is not allocated
    pci,          \* pci[p]: what the driver has taken of PCI device p
    file,         \* file[f]: the device slot the open file leads to (0: not open)
    act,          \* act[a]: where task or PCI device a is in the code
    fault,        \* a descriptor, page or pointer was used that is gone
    after         \* history: steps since a device was removed under a call in progress,
                  \* or GPU memory freed under a call that maps or unmaps it (0: none was)

vars == <<mod, held, devs, refs, heap, pci, file, act, fault, after>>

VAddrs   == UserAddrs \union GpuAddrs
Actors   == Tasks \union Pdevs
DevSlots == 1..NumDevs
RefSlots == 1..NumRefs
Loaded   == 6      \* all of EntryOrder is taken
Exiting  == 7
NoPdev   == "no device"
NoTask   == "no task"
NoId     == "no map"
NoDev    == [used |-> FALSE, pdev |-> NoPdev, chr |-> FALSE]
NoRef    == [used |-> FALSE, ctrl |-> 0, owner |-> NoTask, user |-> <<>>, gpu |-> <<>>]
NoMap    == [type |-> "none"]
Unbound  == [region |-> FALSE, enabled |-> FALSE, master |-> FALSE]
At(pc)   == [pc |-> pc, file |-> NoId, dev |-> 0, ref |-> 0, map |-> NoId]

\* A map_descriptor: pages and mappings are what its fields say, pinned and mapped
\* what is really pinned and mapped for the device.
MapType == [type : {"user", "gpu"}, vaddr : VAddrs, asked : 1..MaxPages,
            pages : 0..MaxPages, pinned : 0..MaxPages, addrs : 0..MaxPages,
            mapped : 0..MaxPages, mappings : {"junk", "null", "set"}]

\* A ctrl_ref: ctrl is a device slot (0: none).
RefType == [used : BOOLEAN, ctrl : 0..NumDevs, owner : Tasks \union {NoTask},
            user : Seq(MapIds), gpu : Seq(MapIds)]

-----------------------------------------------------------------------------
(* map lists, sorted by address *)

\* The loops compare addresses until one is not smaller (not larger).
Before(list, va)  == {k \in 0..Len(list) : \A i \in 1..k : heap[list[i]].vaddr < va}
LargestOf(S)      == CHOOSE k \in S : \A j \in S : j <= k
SmallestOf(S)     == CHOOSE k \in S : \A j \in S : k <= j

\* Mutant: new mappings go to the head of the list.
list_insert_AtHead(list, m) == <<m>> \o list

\* list_insert: the check for an address that is present looks at the node before the
\* spot, which holds a smaller one: it never fires for an address that is not 0.
list_insert(list, m) ==
    InsertAt(list, LargestOf(Before(list, heap[m].vaddr)) + 1, m)

list_find(list, va) ==
    LET hits == {i \in 1..Len(list) : /\ heap[list[i]].vaddr = va
                                      /\ \A j \in 1..(i - 1) : heap[list[j]].vaddr < va}
    IN IF hits = {} THEN NoId ELSE list[SmallestOf(hits)]

\* The node is taken out of the list it is in.
Unlink(list, m) ==
    IF Contains(list, m) THEN RemoveAt(list, CHOOSE i \in 1..Len(list) : list[i] = m) ELSE list

list_remove(m) ==
    [r \in RefSlots |-> [refs[r] EXCEPT !.user = Unlink(@, m), !.gpu = Unlink(@, m)]]

-----------------------------------------------------------------------------
(* finding references *)

\* Mutant: any task's reference will do.
find_ref_AnyOwner(dev, owners) ==
    LET found == {r \in RefSlots : refs[r].ctrl = dev}
    IN IF found = {} THEN 0 ELSE SmallestOf(found)

\* The first slot that leads to the device and, unless anybody's will do, is owned by
\* the calling task.
find_ref(dev, owners) ==
    LET found == {r \in RefSlots : refs[r].ctrl = dev /\ refs[r].owner \in owners}
    IN IF found = {} THEN 0 ELSE SmallestOf(found)

Anybody == Tasks \union {NoTask}

find_dev_by_pdev(p) == CHOOSE d \in DevSlots : devs[d].pdev = p

Goto(a, pc)   == act' = [act EXCEPT ![a].pc = pc]
Finish(t)     == act' = [act EXCEPT ![t] = At("idle")]
Idle(t)       == act[t].pc = "idle"
InUse(f)      == \E t \in Tasks : act[t].file = f

Removing(p) == act[p].pc \in {"scan", "put", "drop", "dma", "pages", "clear"}

\* Actor a is in unmap_gpu_memory, past the test of mappings.
Halfway(a) == act[a].pc \in {"dma", "pages"}

\* The three races: a removal meets a call in progress; GPU memory is freed while it is
\* being mapped; GPU memory is freed while its mapping is being taken down.
Racing == \/ \E p \in Pdevs, t \in Tasks : Removing(p) /\ ~Idle(t) /\ act[t].dev = act[p].dev
          \/ \E t \in Tasks : act[t].pc \in {"map", "insert"} /\ heap[act[t].map].pinned = 0
          \/ \E a \in Actors : Halfway(a) /\ heap[act[a].map].pinned = 0

\* Part of every step: nothing runs after a fault, and races are remembered.
Note == /\ fault = "none" /\ after < MaxAfterRace
        /\ after' = IF after > 0 \/ Racing' THEN after + 1 ELSE 0
Raced == after > 0

-----------------------------------------------------------------------------
(* open: ref_get and ctrl_ref_get *)

OpenFind(t, f) ==
    /\ mod = Loaded /\ Idle(t) /\ file[f] = 0 /\ ~InUse(f)
    /\ \E d \in DevSlots :
          /\ devs[d].chr /\ devs[d].pdev # NoPdev
          /\ act' = [act EXCEPT ![t] = [At("claim") EXCEPT !.file = f, !.dev = d, !.ref = 1]]
    /\ UNCHANGED <<mod, held, devs, refs, heap, pci, file, fault>> /\ Note

\* The slot is taken: look at the next one, or return ENOSPC.
OpenNext(t) ==
    /\ act[t].pc = "claim" /\ refs[act[t].ref].used
    /\ IF act[t].ref = NumRefs THEN Finish(t) ELSE act' = [act EXCEPT ![t].ref = @ + 1]
    /\ UNCHANGED <<mod, held, devs, refs, heap, pci, file, fault>> /\ Note

\* test_and_set_bit and the assignment of ref->ctrl, which nobody can tell apart
OpenClaim(t) ==
    /\ act[t].pc = "claim" /\ ~refs[act[t].ref].used
    /\ refs' = [refs EXCEPT ![act[t].ref].used = TRUE, ![act[t].ref].ctrl = act[t].dev]
    /\ Goto(t, "init")
    /\ UNCHANGED <<mod, held, devs, heap, pci, file, fault>> /\ Note

OpenInit(t) ==
    /\ act[t].pc = "init"
    /\ refs' = [refs EXCEPT ![act[t].ref].owner = t, ![act[t].ref].user = <<>>,
                            ![act[t].ref].gpu = <<>>]
    /\ file' = [file EXCEPT ![act[t].file] = act[t].dev]
    /\ Finish(t)
    /\ UNCHANGED <<mod, held, devs, heap, pci, fault>> /\ Note

-----------------------------------------------------------------------------
(* ioctl: map *)

\* Requests of MaxPages pages or more, and of none, are refused.  A descriptor that was
\* freed is not handed out again while somebody points to it, so that every use of one
\* that is gone is seen.
IoctlMap(t, f) ==
    /\ Idle(t) /\ file[f] # 0
    /\ find_ref(file[f], {t}) # 0
    /\ \E m \in MapIds, va \in VAddrs, n \in 1..(MaxPages - 1) :
          /\ heap[m] = NoMap /\ \A a \in Actors : act[a].map # m
          /\ heap' = [heap EXCEPT ![m] =
                [type |-> IF va \in GpuAddrs THEN "gpu" ELSE "user", vaddr |-> va,
                 asked |-> n, pages |-> 0, pinned |-> 0, addrs |-> 0, mapped |-> 0,
                 mappings |-> IF va \in GpuAddrs THEN "junk" ELSE "null"]]
          /\ act' = [act EXCEPT ![t] = [pc |-> "pin", file |-> f, dev |-> file[f],
                                        ref |-> find_ref(file[f], {t}), map |-> m]]
    /\ UNCHANGED <<mod, held, devs, refs, pci, file, fault>> /\ Note

\* ref->ctrl->pdev, which is read before the pages of a GPU are taken and after those
\* of a process are pinned
NullCtrl(t) == refs[act[t].ref].ctrl = 0

Crash(t, what) ==
    /\ fault' = what /\ Goto(t, "dead")
    /\ UNCHANGED <<mod, held, devs, refs, heap, pci, file>> /\ Note

\* On an error the descriptor is freed; get_user_pages may pin fewer pages than asked.
\* It is assumed not to return 0 for a request of at least one page: lock_user_pages would
\* then free the page array and return 0, and the ioctl would go on without it.
MapPin(t) ==
    LET m == act[t].map IN
    /\ act[t].pc = "pin"
    /\ \/ heap[m].type = "gpu" /\ NullCtrl(t) /\ Crash(t, "null controller")
       \/ /\ heap[m].type = "user" \/ ~NullCtrl(t)
          /\ \/ \E k \in 1..heap[m].asked :
                   /\ heap[m].type = "gpu" => k = heap[m].asked
                   /\ heap' = [heap EXCEPT ![m].pages = k, ![m].pinned = k]
                   /\ Goto(t, "map")
             \/ heap' = [heap EXCEPT ![m] = NoMap] /\ Finish(t)
          /\ UNCHANGED <<mod, held, devs, refs, pci, file, fault>> /\ Note

\* Mutant: the loop runs past the last page.
MapUser_PastEnd(t) ==
    LET m == act[t].map IN
    /\ act[t].pc = "map" /\ heap[m].type = "user" /\ ~NullCtrl(t)
    /\ \E k \in 0..(heap[m].pages + 1) : heap' = [heap EXCEPT ![m].addrs = k, ![m].mapped = k]
    /\ Goto(t, "insert")
    /\ UNCHANGED <<mod, held, devs, refs, pci, file, fault>> /\ Note

\* dma_map_page on page after page until one cannot be mapped: map_user_pages goes on
\* with the addresses it has.
MapUser(t) ==
    LET m == act[t].map IN
    /\ act[t].pc = "map" /\ heap[m].type = "user"
    /\ \/ NullCtrl(t) /\ Crash(t, "null controller")
       \/ /\ ~NullCtrl(t)
          /\ \E k \in 0..heap[m].pages : heap' = [heap EXCEPT ![m].addrs = k, ![m].mapped = k]
          /\ Goto(t, "insert")
          /\ UNCHANGED <<mod, held, devs, refs, pci, file, fault>> /\ Note

\* nvidia_p2p_dma_map_pages maps all pages of the table, or the table is put back.
MapGpu(t) ==
    LET m == act[t].map IN
    /\ act[t].pc = "map" /\ heap[m].type = "gpu"
    /\ \/ heap[m].pinned = 0 /\ Crash(t, "page table gone")
       \/ /\ heap[m].pinned # 0
          /\ \/ /\ heap' = [heap EXCEPT ![m].addrs = heap[m].pages, ![m].mapped = heap[m].pages,
                                        ![m].mappings = "set"]
                /\ Goto(t, "insert")
             \/ heap' = [heap EXCEPT ![m] = NoMap] /\ Finish(t)
          /\ UNCHANGED <<mod, held, devs, refs, pci, file, fault>> /\ Note

\* The ioctl then returns 0 and copies out as many addresses as there are.
MapInsert(t) ==
    LET r == act[t].ref
        m == act[t].map
    IN /\ act[t].pc = "insert"
       /\ refs' = IF heap[m].type = "user"
                  THEN [refs EXCEPT ![r].user = list_insert(@, m)]
                  ELSE [refs EXCEPT ![r].gpu = list_insert(@, m)]
       /\ Finish(t)
       /\ UNCHANGED <<mod, held, devs, heap, pci, file, fault>> /\ Note

-----------------------------------------------------------------------------
(* ioctl: unmap; and the GPU driver's call *)

\* A descriptor is released that is gone, or that another actor has half released: then
\* both go on to release its pages.
Again(a, m) == heap[m] = NoMap \/ \E b \in Actors \ {a} : Halfway(b) /\ act[b].map = m

\* kfree: what descriptor d says is still pinned or mapped stays so for ever.
Freed(m, d) == /\ heap' = [heap EXCEPT ![m] = NoMap]
               /\ fault' = IF d.pinned = 0 /\ d.mapped = 0 THEN fault ELSE "pages lost"

\* An ioctl, which has its file, returns; ctrl_ref_put looks at its lists again.
Return(a) == IF a \in Tasks /\ act[a].file # NoId THEN At("idle")
             ELSE [act[a] EXCEPT !.pc = "put", !.map = NoId]

\* unmap_user_pages
UnmapUser(a, m) ==
    /\ heap[m].type = "user"
    /\ refs' = list_remove(m)
    /\ Freed(m, [heap[m] EXCEPT !.mapped = @ - heap[m].addrs, !.pinned = @ - heap[m].pages])
    /\ act' = [act EXCEPT ![a] = Return(a)]
    /\ UNCHANGED <<mod, held, devs, pci, file>> /\ Note

\* unmap_gpu_memory up to the test of mappings.  The driver that took the pages back has
\* cleared the fields mappings and pages both: there is nothing left to do then.
UnmapGpu(a, m) ==
    /\ heap[m].type = "gpu"
    /\ refs' = list_remove(m)
    /\ \/ /\ heap[m].mappings = "null"
          /\ Freed(m, heap[m])
          /\ act' = [act EXCEPT ![a] = Return(a)]
       \/ /\ heap[m].mappings # "null"
          /\ Goto(a, "dma")
          /\ UNCHANGED <<heap, fault>>
    /\ UNCHANGED <<mod, held, devs, pci, file>> /\ Note

Unmap(a, m) ==
    \/ Again(a, m) /\ Crash(a, "released twice")
    \/ ~Again(a, m) /\ (UnmapUser(a, m) \/ UnmapGpu(a, m))

\* nvidia_p2p_dma_unmap_pages, of what was there when mappings was tested
UnmapDma(a) ==
    LET m == act[a].map IN
    /\ act[a].pc = "dma"
    /\ \/ heap[m].pinned = 0 /\ Crash(a, "mapping gone")
       \/ /\ heap[m].pinned # 0
          /\ heap' = [heap EXCEPT ![m].mapped = 0]
          /\ Goto(a, "pages")
          /\ UNCHANGED <<mod, held, devs, refs, pci, file, fault>> /\ Note

\* nvidia_p2p_put_pages and kfree
UnmapPut(a) ==
    LET m == act[a].map IN
    /\ act[a].pc = "pages"
    /\ Freed(m, [heap[m] EXCEPT !.pinned = @ - heap[m].pages])
    /\ act' = [act EXCEPT ![a] = Return(a)]
    /\ UNCHANGED <<mod, held, devs, refs, pci, file>> /\ Note

find_user_page_map(r, va) == list_find(refs[r].user, va)
find_gpu_map(r, va)       == list_find(refs[r].gpu, va)

UnmapFind(t, f) ==
    /\ Idle(t) /\ file[f] # 0
    /\ \E va \in VAddrs :
          LET r == find_ref(file[f], {t})
              u == find_user_page_map(r, va)
              m == IF u # NoId THEN u ELSE find_gpu_map(r, va)
          IN /\ r # 0
             /\ m # NoId
             /\ act' = [act EXCEPT ![t] = [pc |-> "unmap", file |-> f, dev |-> file[f],
                                           ref |-> r, map |-> m]]
    /\ UNCHANGED <<mod, held, devs, refs, heap, pci, file, fault>> /\ Note

UnmapMemory(t) ==
    /\ act[t].pc = "unmap"
    /\ Unmap(t, act[t].map)

\* The memory is freed: the driver calls back once per page table that is not put back.
\* The field mappings is not set until the pages are mapped, and still set when an
\* unmap in progress has undone them.  A call that overlaps another step is one that
\* comes right before or after it.
free_callback(m) ==
    /\ heap[m].type = "gpu" /\ heap[m].pinned # 0
    /\ heap' = [heap EXCEPT ![m].pages = 0, ![m].pinned = 0,
                            ![m].mappings = "null", ![m].mapped = 0]
    /\ fault' \in CASE heap[m].mappings = "junk" -> {fault, "junk freed"}
                    [] \E a \in Actors : act[a].pc = "pages" /\ act[a].map = m -> {"freed twice"}
                    [] OTHER -> {fault}
    /\ UNCHANGED <<mod, held, devs, refs, pci, file, act>> /\ Note

-----------------------------------------------------------------------------
(* release: ref_put and ctrl_ref_put, which the removal of a device calls, too *)

\* The last descriptor of the file is closed, by whichever task.  When that task owns
\* no reference, EBADF is returned, and the file is closed all the same.
Release(t, f) ==
    /\ Idle(t) /\ file[f] # 0 /\ ~InUse(f)
    /\ LET r == find_ref(file[f], {t})
       IN act' = IF r = 0 THEN act
                 ELSE [act EXCEPT ![t] = [At("put") EXCEPT !.dev = file[f], !.ref = r]]
    /\ file' = [file EXCEPT ![f] = 0]
    /\ UNCHANGED <<mod, held, devs, refs, heap, pci, fault>> /\ Note

\* The head of the list of GPU maps, and when there is none, of the user maps
PutPick(a) ==
    LET r    == act[a].ref
        maps == refs[r].gpu \o refs[r].user
    IN /\ act[a].pc = "put" /\ maps # <<>>
       /\ act' = [act EXCEPT ![a].pc = "drop", ![a].map = Head(maps)]
       /\ UNCHANGED <<mod, held, devs, refs, heap, pci, file, fault>> /\ Note

PutDrop(a) ==
    /\ act[a].pc = "drop"
    /\ Unmap(a, act[a].map)

\* Mutant: only the GPU maps are released.
PutClear_GpuOnly(a) ==
    LET r == act[a].ref IN
    /\ act[a].pc = "put" /\ refs[r].gpu = <<>>
    /\ refs' = [refs EXCEPT ![r].owner = NoTask, ![r].ctrl = 0]
    /\ Goto(a, "clear")
    /\ UNCHANGED <<mod, held, devs, heap, pci, file, fault>> /\ Note

\* owner and ctrl are cleared, then the slot is free for others.
PutClear(a) ==
    LET r == act[a].ref IN
    /\ act[a].pc = "put" /\ refs[r].gpu \o refs[r].user = <<>>
    /\ refs' = [refs EXCEPT ![r].owner = NoTask, ![r].ctrl = 0]
    /\ Goto(a, "clear")
    /\ UNCHANGED <<mod, held, devs, heap, pci, file, fault>> /\ Note

PutDone(a) ==
    /\ act[a].pc = "clear"
    /\ refs' = [refs EXCEPT ![act[a].ref].used = FALSE]
    /\ act' = [act EXCEPT ![a] = IF a \in Tasks THEN At("idle")
                                 ELSE [At("scan") EXCEPT !.dev = act[a].dev]]
    /\ UNCHANGED <<mod, held, devs, heap, pci, file, fault>> /\ Note

Put(a) == PutPick(a) \/ PutDrop(a) \/ PutClear(a) \/ PutDone(a) \/ UnmapDma(a) \/ UnmapPut(a)

Task(t) ==
    \/ \E f \in Files : OpenFind(t, f) \/ IoctlMap(t, f) \/ UnmapFind(t, f) \/ Release(t, f)
    \/ OpenNext(t) \/ OpenClaim(t) \/ OpenInit(t)
    \/ MapPin(t) \/ MapUser(t) \/ MapGpu(t) \/ MapInsert(t)
    \/ UnmapMemory(t) \/ Put(t)

-----------------------------------------------------------------------------
(* probe and removal of devices *)

ctrl_dev_get(d, p) == devs' = [devs EXCEPT ![d].used = TRUE, ![d].pdev = p]
ctrl_dev_put(d)    == devs' = [devs EXCEPT ![d] = NoDev]

\* add_pci_dev takes the first free slot, then the region, enables the device and
\* creates the character device; each failure gives back what was taken before.
Probe(p) ==
    LET free == {d \in DevSlots : ~devs[d].used} IN
    /\ mod = Loaded /\ act[p].pc = "unbound" /\ free # {}
    /\ ctrl_dev_get(SmallestOf(free), p)
    /\ act' = [act EXCEPT ![p] = [At("region") EXCEPT !.dev = SmallestOf(free)]]
    /\ UNCHANGED <<mod, held, refs, heap, pci, file, fault>> /\ Note

ProbeRegion(p) ==
    /\ act[p].pc = "region"
    /\ pci' = [pci EXCEPT ![p].region = TRUE]
    /\ Goto(p, "enable")
    /\ UNCHANGED <<mod, held, devs, refs, heap, file, fault>> /\ Note

ProbeEnable(p) ==
    /\ act[p].pc = "enable"
    /\ pci' = [pci EXCEPT ![p].enabled = TRUE]
    /\ Goto(p, "chrdev")
    /\ UNCHANGED <<mod, held, devs, refs, heap, file, fault>> /\ Note

ctrl_dev_chrdev_create(p) ==
    /\ act[p].pc = "chrdev"
    /\ devs' = [devs EXCEPT ![act[p].dev].chr = TRUE]
    /\ pci' = [pci EXCEPT ![p].master = TRUE]
    /\ Goto(p, "bound")
    /\ UNCHANGED <<mod, held, refs, heap, file, fault>> /\ Note

ProbeFail(p) ==
    /\ act[p].pc \in {"region", "enable", "chrdev"}
    /\ pci' = [pci EXCEPT ![p].region = FALSE, ![p].enabled = FALSE]
    /\ ctrl_dev_put(act[p].dev)
    /\ act' = [act EXCEPT ![p] = At("unbound")]
    /\ UNCHANGED <<mod, held, refs, heap, file, fault>> /\ Note

\* remove_pci_dev: called when the device is unbound or unplugged, and by the module's
\* exit.
remove_pci_dev(p) ==
    /\ act[p].pc = "bound"
    /\ pci' = [pci EXCEPT ![p] = Unbound]
    /\ act' = [act EXCEPT ![p] = [At("scan") EXCEPT !.dev = find_dev_by_pdev(p)]]
    /\ UNCHANGED <<mod, held, devs, refs, heap, file, fault>> /\ Note

\* while ((ref = find_ref(dev, NULL)) != NULL) ctrl_ref_put(ref);
RemoveRef(p) ==
    /\ act[p].pc = "scan" /\ find_ref(act[p].dev, Anybody) # 0
    /\ act' = [act EXCEPT ![p].pc = "put", ![p].ref = find_ref(act[p].dev, Anybody)]
    /\ UNCHANGED <<mod, held, devs, refs, heap, pci, file, fault>> /\ Note

\* Mutant: the references are not looped over.
RemoveDone_NoLoop(p) ==
    /\ act[p].pc = "scan"
    /\ ctrl_dev_put(act[p].dev)
    /\ act' = [act EXCEPT ![p] = At("unbound")]
    /\ UNCHANGED <<mod, held, refs, heap, pci, file, fault>> /\ Note

RemoveDone(p) ==
    /\ act[p].pc = "scan" /\ find_ref(act[p].dev, Anybody) = 0
    /\ ctrl_dev_put(act[p].dev)
    /\ act' = [act EXCEPT ![p] = At("unbound")]
    /\ UNCHANGED <<mod, held, refs, heap, pci, file, fault>> /\ Note

Device(p) ==
    \/ Probe(p) \/ ProbeRegion(p) \/ ProbeEnable(p) \/ ctrl_dev_chrdev_create(p)
    \/ ProbeFail(p) \/ remove_pci_dev(p) \/ RemoveRef(p) \/ RemoveDone(p) \/ Put(p)

-----------------------------------------------------------------------------
(* loading and unloading *)

\* What disnvme_entry takes, in order, and what it gives back when the next one fails
EntryOrder == <<"ctrl_devs", "ctrl_refs", "chrdev_region", "class", "driver">>
EntryUndo  == << {}, {"ctrl_devs"}, {"ctrl_refs", "ctrl_devs"},
                 {"chrdev_region", "ctrl_refs", "ctrl_devs"},
                 {"class", "chrdev_region", "ctrl_refs", "ctrl_devs"} >>

EntryStep ==
    /\ mod \in 1..5
    /\ held' = held \union {EntryOrder[mod]}
    /\ mod' = IF mod = 5 THEN Loaded ELSE mod + 1
    /\ refs' = IF EntryOrder[mod] = "ctrl_refs" THEN [r \in RefSlots |-> NoRef] ELSE refs
    /\ devs' = IF EntryOrder[mod] = "class" THEN [d \in DevSlots |-> NoDev] ELSE devs
    /\ UNCHANGED <<heap, pci, file, act, fault>> /\ Note

EntryFail ==
    /\ mod \in 1..5
    /\ held' = held \ EntryUndo[mod]
    /\ mod' = 1
    /\ UNCHANGED <<devs, refs, heap, pci, file, act, fault>> /\ Note

\* An open file keeps the module loaded.  pci_unregister_driver removes the devices
\* that are bound.
ExitStart ==
    /\ mod = Loaded /\ \A f \in Files : file[f] = 0
    /\ \A t \in Tasks : Idle(t)
    /\ mod' = Exiting
    /\ UNCHANGED <<held, devs, refs, heap, pci, file, act, fault>> /\ Note

\* The arrays are freed without a look at their slots.
ExitFree ==
    /\ mod = Exiting /\ \A p \in Pdevs : act[p].pc = "unbound"
    /\ held' = {}
    /\ mod' = 1
    /\ UNCHANGED <<devs, refs, heap, pci, file, act, fault>> /\ Note

Module == EntryStep \/ EntryFail \/ ExitStart \/ ExitFree

-----------------------------------------------------------------------------

\* The module is not loaded.
Init ==
    /\ mod = 1 /\ held = {}
    /\ devs = [d \in DevSlots |-> NoDev] /\ refs = [r \in RefSlots |-> NoRef]
    /\ heap = [m \in MapIds |-> NoMap]
    /\ pci = [p \in Pdevs |-> Unbound]
    /\ file = [f \in Files |-> 0]
    /\ act = [a \in Actors |-> At(IF a \in Tasks THEN "idle" ELSE "unbound")]
    /\ fault = "none" /\ after = 0

Next ==
    \/ \E t \in Tasks : Task(t)
    \/ \E p \in Pdevs : Device(p)
    \/ \E m \in MapIds : free_callback(m)
    \/ Module

\* The kernel has crashed, or a race is not followed further.
Halt == (fault # "none" \/ after = MaxAfterRace) /\ UNCHANGED vars

Spec == Init /\ [][Next \/ Halt]_vars

-----------------------------------------------------------------------------
(* properties *)

Pcs == {"idle", "claim", "init", "pin", "map", "insert", "unmap", "put", "drop", "dma",
        "pages", "clear", "dead", "unbound", "region", "enable", "chrdev", "bound", "scan"}
Place == [pc : Pcs, file : Files \union {NoId}, dev : 0..NumDevs, ref : 0..NumRefs,
          map : MapIds \union {NoId}]

\* Slots, descriptors and the actors' places have the values the code gives them; a
\* descriptor never says it has more pages or addresses than were asked for.
TypeOK ==
    /\ mod \in 1..Exiting /\ held \subseteq ToSet(EntryOrder)
    /\ devs \in [DevSlots -> [used : BOOLEAN, pdev : Pdevs \union {NoPdev}, chr : BOOLEAN]]
    /\ refs \in [RefSlots -> RefType]
    /\ heap \in [MapIds -> MapType \union {NoMap}]
    /\ \A m \in MapIds : heap[m] # NoMap =>
          heap[m].pages <= heap[m].asked /\ heap[m].addrs <= heap[m].asked
    /\ pci \in [Pdevs -> [region : BOOLEAN, enabled : BOOLEAN, master : BOOLEAN]]
    /\ file \in [Files -> 0..NumDevs]
    /\ act \in [Actors -> Place]
    /\ after \in 0..MaxAfterRace

\* No lock is taken, and none is needed between tasks: references are found by the
\* task that owns them (find_ref), so descriptors, pages and page tables are released
\* once and never used afterwards, whatever tasks share files and however they
\* interleave, and GPU memory may be freed (free_callback) whenever no call is mapping it
\* or taking its mapping down.  Only three races break this: a removal that meets a call
\* in progress, and GPU memory freed inside map_gpu_memory or, once mappings was found
\* set, inside unmap_gpu_memory.
SafeUnlessRaced == fault # "none" => Raced

Kinds         == {"user", "gpu"}
MapList(r, k) == IF k = "user" THEN refs[r].user ELSE refs[r].gpu

Lists(m)   == {x \in RefSlots \X Kinds : Contains(MapList(x[1], x[2]), m)}
InHand(m)  == {a \in Actors : act[a].map = m /\ act[a].pc \in {"pin", "map", "insert", "dma", "pages"}}

\* Every descriptor that is allocated, with the pages it pins, can still be reached:
\* it is in one list of one reference that is in use, or in the hands of the call that
\* builds it or takes it down; also after a file was closed by a task that owns no reference.
MapsReachable ==
    Raced \/ \A m \in MapIds : heap[m] # NoMap =>
        /\ Cardinality(Lists(m)) + Cardinality(InHand(m)) = 1
        /\ \A x \in Lists(m) : refs[x[1]].used /\ refs[x[1]].ctrl # 0

\* NVM_UNMAP_MEMORY finds every mapping by its address, also when an address was mapped
\* several times: list_find stops at the first larger address.
MapsFindable ==
    \A r \in RefSlots :
        /\ \A i \in 1..Len(refs[r].user) : find_user_page_map(r, heap[refs[r].user[i]].vaddr) # NoId
        /\ \A i \in 1..Len(refs[r].gpu) : find_gpu_map(r, heap[refs[r].gpu[i]].vaddr) # NoId

\* What the driver took is given back: a device that is not bound is disabled, its
\* region free, and no reference leads to its slot; after the module's exit or a failed
\* load nothing is held and no page pinned, although exit does not look at the slots
\* and release leaves behind references it cannot find.
NothingLeft ==
    /\ \A p \in Pdevs : act[p].pc = "unbound" => pci[p] = Unbound
    /\ mod = 1 => held = {}
    /\ Raced \/ /\ \A d \in DevSlots : ~devs[d].used => \A r \in RefSlots : refs[r].ctrl # d
                /\ mod = 1 => \A m \in MapIds : heap[m] = NoMap

\* Mappings of a task disappear from its reference only by a step of that task or of a
\* removal (or after a race): closing or unmapping through a shared file does not reach them.
OnlyOwnerUnmaps ==
    [][\A r \in RefSlots :
          (~Raced /\ refs[r].owner # NoTask /\ (Len(refs'[r].user) < Len(refs[r].user)
                                      \/ Len(refs'[r].gpu) < Len(refs[r].gpu)))
             => \/ act'[refs[r].owner] # act[refs[r].owner]
                \/ \E p \in Pdevs : Removing(p)]_vars

=============================================================================
