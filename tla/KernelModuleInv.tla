--------------------------- MODULE KernelModuleInv ---------------------------
(***************************************************************************)
(* The inductive invariant of KernelModule.  Its first half holds whatever  *)
(* happens: what actors point to, whose the device slots are, what a map    *)
(* descriptor's fields say of its pages, how the map lists are sorted.  The *)
(* second half holds until a removal meets a call in progress, or GPU       *)
(* memory is freed while it is being mapped or unmapped: who may use a      *)
(* reference, and that no descriptor is lost.  Proved inductive in          *)
(* KernelModuleProofs.                                                      *)
(***************************************************************************)
EXTENDS KernelModule

\* Actors that build a descriptor, that point to one to release it, that work on a
\* reference, and devices past the creation of their character device.
Building(a) == act[a].pc \in {"pin", "map", "insert"}
Dropping(a) == act[a].pc \in {"unmap", "drop"}
Holding(a)  == act[a].pc \in {"init", "pin", "map", "insert", "unmap", "put", "drop", "dma", "pages", "clear"}
Owning(a)   == act[a].pc \in {"pin", "map", "insert", "unmap", "put", "drop", "dma", "pages"}
Visible(p)  == act[p].pc \in {"bound", "scan", "put", "drop", "dma", "pages", "clear", "dead"}

\* Actor a has a descriptor in its hands that is in no list.
Has(a) == Building(a) \/ Halfway(a)

\* m is in list k of reference r.
Listed(m, r, k) == Contains(MapList(r, k), m)

TaskPcs   == {"idle", "claim", "init", "pin", "map", "insert", "unmap", "put", "drop", "dma", "pages",
              "clear", "dead"}
DevicePcs == {"unbound", "region", "enable", "chrdev", "bound", "scan", "put", "drop", "dma", "pages",
              "clear", "dead"}

\* A call in progress has a device and, past the search, a reference and a map.
PlaceOK(a, x) ==
    /\ x.pc \in IF a \in Tasks THEN TaskPcs ELSE DevicePcs
    /\ x.pc \notin {"idle", "unbound"} => x.dev \in DevSlots
    /\ x.pc \in {"claim", "init", "pin", "map", "insert", "unmap", "put", "drop", "dma", "pages", "clear"}
          => x.ref \in RefSlots
    /\ x.pc \in {"pin", "map", "insert", "unmap", "drop", "dma", "pages"} => x.map \in MapIds
Pointers == \A a \in Actors : PlaceOK(a, act[a])

\* A device slot belongs to the PCI device that is being probed, bound or removed with it.
SlotOf(p) ==
    act[p].pc # "unbound" => devs[act[p].dev] = [used |-> TRUE, pdev |-> p, chr |-> Visible(p)]

DevSlotsOwned ==
    /\ \A p \in Pdevs : SlotOf(p)
    /\ \A d \in DevSlots : devs[d] = NoDev \/
          (devs[d].pdev \in Pdevs /\ act[devs[d].pdev].pc # "unbound" /\ act[devs[d].pdev].dev = d)

\* What the driver has of a PCI device at each place of probe and removal.
PciTaken ==
    \A p \in Pdevs :
        /\ act[p].pc \notin {"enable", "chrdev", "bound"} => pci[p] = Unbound
        /\ act[p].pc # "bound" => ~pci[p].master

\* What the module holds, and that nobody is in it before it is loaded.
LoadedInOrder ==
    /\ mod \in 1..5 => held = {EntryOrder[i] : i \in 1..(mod - 1)}
    /\ mod # Loaded => (\A f \in Files : file[f] = 0) /\ (\A t \in Tasks : Idle(t))
    /\ mod \notin {Loaded, Exiting} => \A p \in Pdevs : act[p].pc = "unbound"

\* The fields of a descriptor say how many pages are pinned and mapped, unless those of
\* a GPU are just being unmapped.
Settled(d) ==
    /\ d.pages = d.pinned
    /\ d.type = "gpu" /\ d.mappings = "null" => d.pinned = 0 /\ d.mapped = 0
    /\ d.mapped = d.addrs \/ (d.type = "gpu" /\ d.mapped = 0)
    /\ d.type = "user" => d.mappings = "null"
FieldsSettled == \A m \in MapIds : heap[m] # NoMap => Settled(heap[m])

\* What is in a list is allocated, of the list's kind, and there once; lists are sorted.
ListsAllocated ==
    \A r \in RefSlots, k \in Kinds : \A i \in 1..Len(MapList(r, k)) :
        heap[MapList(r, k)[i]] # NoMap /\ heap[MapList(r, k)[i]].type = k
                                    /\ heap[MapList(r, k)[i]].mappings # "junk"
ListsSorted ==
    \A r \in RefSlots, k \in Kinds : \A i, j \in 1..Len(MapList(r, k)) :
        i < j => heap[MapList(r, k)[i]].vaddr <= heap[MapList(r, k)[j]].vaddr
ListedOnce ==
    /\ \A r \in RefSlots, k \in Kinds : \A i, j \in 1..Len(MapList(r, k)) :
          MapList(r, k)[i] = MapList(r, k)[j] => i = j
    /\ \A m \in MapIds, r, s \in RefSlots, k, l \in Kinds :
          Listed(m, r, k) /\ Listed(m, s, l) => r = s /\ k = l

\* A descriptor in the hands of a call that has come to pc.
Stage(pc, d) ==
    /\ d # NoMap
    /\ pc = "pin" => d.pinned = 0 /\ (d.type = "gpu" => d.mappings = "junk")
    /\ pc = "insert" => d.mappings # "junk"
    /\ pc \in {"dma", "pages"} => d.type = "gpu"
    /\ pc = "pages" => d.mapped = 0

\* A descriptor that is being built is known to nobody else; one that is half taken
\* down is in no list, and in nobody else's hands.
BuiltAlone ==
    \A t \in Actors : Has(t) =>
        /\ Stage(act[t].pc, heap[act[t].map])
        /\ \A a \in Actors : a # t /\ (Building(t) \/ Has(a)) => act[a].map # act[t].map
        /\ \A r \in RefSlots, k \in Kinds : ~Listed(act[t].map, r, k)

Always == /\ TypeOK /\ Pointers /\ DevSlotsOwned /\ PciTaken /\ LoadedInOrder
          /\ FieldsSettled /\ ListsAllocated /\ ListsSorted /\ ListedOnce /\ BuiltAlone

-----------------------------------------------------------------------------

\* A reference that nobody uses leads nowhere, one that leads nowhere is empty, and
\* others lead to a device that is there.
RefsSound ==
    \A r \in RefSlots :
        /\ ~refs[r].used => refs[r].ctrl = 0
        /\ refs[r].ctrl = 0 => refs[r].owner = NoTask /\ \A k \in Kinds : MapList(r, k) = <<>>
        /\ refs[r].ctrl # 0 => devs[refs[r].ctrl].chr

\* The device of a call in progress is there.
DevicesThere == \A t \in Tasks : ~Idle(t) => devs[act[t].dev].chr

\* What an actor knows of the reference it works on.
Knows(a) ==
    LET ref == refs[act[a].ref] IN
    /\ Holding(a) => ref.used
    /\ act[a].pc = "init" => ref.ctrl = act[a].dev /\ ref.owner = NoTask
                             /\ \A k \in Kinds : MapList(act[a].ref, k) = <<>>
    /\ Owning(a) => ref.ctrl = act[a].dev /\ (a \in Tasks => ref.owner = a)
    /\ act[a].pc = "clear" => ref.ctrl = 0
    /\ Dropping(a) => \E k \in Kinds : Listed(act[a].map, act[a].ref, k)

\* No two actors work on the same reference.
OneHolder ==
    \A a, b \in Actors : Holding(a) /\ Holding(b) /\ act[a].ref = act[b].ref => a = b

\* Every descriptor is being built, being taken down or in a list.
NoneLost ==
    \A m \in MapIds : heap[m] # NoMap =>
        \/ \E t \in Actors : Has(t) /\ act[t].map = m
        \/ \E r \in RefSlots, k \in Kinds : Listed(m, r, k)

Quiet == /\ fault = "none" /\ ~Racing /\ RefsSound /\ DevicesThere
         /\ (\A a \in Actors : Knows(a)) /\ OneHolder /\ NoneLost

IInv == Always /\ (~Raced => Quiet)
==============================================================================
