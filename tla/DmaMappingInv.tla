---------------------------- MODULE DmaMappingInv ----------------------------
(***************************************************************************)
(* Why roll-backs and releases are right: a logic of what constructors hold *)
(* at each of their steps, and the inductive invariant of DmaMapping built  *)
(* on it.                                                                   *)
(***************************************************************************)
EXTENDS DmaMapping

\* The resources constructors and programs take
Structs  == {"aq", "ctrl", "dev", "dma", "md", "page", "queue", "ref", "seg", "tmp"}
Fields   == {"available", "device", "dma", "fd", "handles", "io", "mem", "mmap", "pages", "sd",
             "segment", "va"}
Pointers == {"aq", "aq_mem", "aq_ptr", "buffer", "buffer_ptr", "cq_mem", "cq_mem2", "ctrl", "fd",
             "fp", "locked", "ptr", "q0", "q1", "q2", "queue_ptr", "queues", "registers", "sisci",
             "sq_mem", "sq_mem2", "window"}
Res == (Structs \X Fields) \union ({"var", "local"} \X Pointers) \union {None}

Steps == [get : Res, drop : Seq(Res), undo : Seq(Res), skip : Nat]

\* SISCI may or may not be initialised, and a server may or may not have its binding
\* handles: nothing else rests on them, and they can be released in either case.
SISCI     == var("sisci")
Bindings  == R("aq", "handles")
Optionals == {SISCI, Bindings}
Core(S)   == S \ (Optionals \union {None})

First(l, i) == {l[j] : j \in 1..i}
Elems(l)    == First(l, Len(l))

\* Programs that keep what they have taken until they end: what they have tried to take
\* is what they hold.  Two of them release pointers that may be NULL.
NullKinds == {"read_module", "read_smartio"}
KeepKinds == NullKinds \union {"id_user"}
At(kind, S) == IF kind \in KeepKinds THEN S ELSE {}

\* Phases of a call: "build"; "release", and "throw" for the release of a Controller
\* whose constructor threw
Undo(kind, built) == IF kind \in LatKinds /\ ~built THEN "throw" ELSE "release"

\* The known places where something is released again (FaultsKnown)
Known(kind, ph, at, S) ==
    /\ ph # "build"
    /\ \/ kind \in KernKinds /\ R("dma", "mem") \notin S
       \/ kind = "id_user" /\ loc("locked") \in at /\ loc("aq_mem") \notin at

\* A release that does no harm to a call that holds S and started to release at "at"
Harmless(kind, at, r, S) == Releasable(r, S, IF kind \in NullKinds THEN at ELSE {r})

\* The releases l, one after the other, by a call that holds S, are harmless, and what is
\* still held has what it rests on.
Rel(kind, ph, at, S, l) ==
    /\ \A i \in 1..Len(l) : \/ Harmless(kind, at, l[i], S \ First(l, i - 1))
                            \/ Known(kind, ph, at, S \ First(l, i - 1))
    /\ \A i \in 0..Len(l) : Rests(kind, ph = "throw", S \ First(l, i))

\* They also leave nothing behind that may not be left.
Frees(kind, ph, at, S, l) ==
    Rel(kind, ph, at, S, l) /\ S \ Elems(l) \subseteq Left(kind, ph = "throw")

-----------------------------------------------------------------------------
(* What is held before each step: f[i], for a sequence of n steps whose ith is s *)

TakesOk(kind, r) ==
    /\ r # Bindings
    /\ r = SISCI => kind \in ProgKinds
    /\ r = R("md", "pages") => kind \in KernKinds
    /\ r = R("ctrl", "mmap") => kind = "sysfs"

FailOk(kind, built, f, s, i, n) ==
    IF s.skip = 0 THEN Frees(kind, Undo(kind, built), At(kind, f[i]), f[i], s.undo)
    ELSE /\ kind \notin KeepKinds /\ i + s.skip <= n + 1
         /\ Rel(kind, "build", {}, f[i], s.undo)
         /\ f[i + s.skip] = f[i] \ Elems(s.undo)

StepOk(kind, built, f, s, i, n) ==
    IF s.drop # <<>>
    THEN /\ s.get = None /\ kind \notin KeepKinds
         /\ Rel(kind, "build", {}, f[i], s.drop)
         /\ f[i + 1] = f[i] \ Elems(s.drop)
    ELSE /\ TakesOk(kind, s.get)
         /\ f[i + 1] = f[i] \union Core({s.get})
         /\ Rests(kind, FALSE, f[i + 1])
         /\ s.get # R("ctrl", "mmap") => FailOk(kind, built, f, s, i, n)

\* The sequence of steps takes a call that holds S to one that holds V.
Good(kind, built, S, steps, V) ==
    /\ steps \in Seq(Steps)
    /\ \E f \in [1..(Len(steps) + 1) -> SUBSET Res] :
          /\ f[1] = S /\ f[Len(steps) + 1] = V
          /\ \A i \in 1..Len(steps) : StepOk(kind, built, f, steps[i], i, Len(steps))

\* The last step of rpc_server
TakesBindings(kind, f, i) ==
    /\ kind = "rpc_server" /\ i = Len(Program(kind))
    /\ Program(kind)[i] = [get |-> Bindings, drop |-> <<>>, undo |-> <<>>, skip |-> 1]
    /\ f[i + 1] = f[i]

Release(kind) == CASE kind \in ProgKinds -> Main(kind).release
                   [] kind \in CtrlKinds -> nvm_ctrl_free(kind)
                   [] OTHER              -> nvm_dma_unmap(kind)

Final(kind) == Len(Program(kind)) + 1

Built(pos) == pos > 1 + Len(Controller)

\* f is what a constructor, or a program, holds at each of its steps.
IsTrace(kind, f) ==
    /\ Program(kind) \in Seq(Steps) /\ Release(kind) \in Seq(Res)
    /\ f \in [1..Final(kind) -> SUBSET Res] /\ f[1] = {}
    /\ \A i \in 1..Len(Program(kind)) :
          \/ StepOk(kind, Built(i), f, Program(kind)[i], i, Len(Program(kind)))
          \/ TakesBindings(kind, f, i)
    /\ Frees(kind, "release", At(kind, f[Final(kind)]), f[Final(kind)], Release(kind))
    /\ kind = "rpc_server" => Bindings \in Elems(Release(kind))
    /\ kind \in DmaKinds => R("dma", "mem") \in f[Final(kind)]
    /\ kind \in KernKinds => R("md", "pages") \in f[Final(kind)]
    /\ kind \in LatKinds => Built(Final(kind))

-----------------------------------------------------------------------------
(* The inductive invariant *)

Phase(x)   == IF x.st = "release" THEN Undo(x.kind, Built(x.pos)) ELSE "build"
TriedBy(x) == {Program(x.kind)[i].get : i \in 1..(x.pos - 1)} \ {None}

\* A call that holds what f says, or is giving it back
Holds(x, f) ==
    IF x.st = "release"
    THEN Core(x.held) \ Elems(x.todo) \subseteq Left(x.kind, Phase(x) = "throw")
    ELSE Core(x.held) \ Elems(x.todo) = f[x.pos]

\* Only a server that runs, or is giving back all it has, has binding handles.
Serves(x) ==
    Bindings \in x.held =>
        /\ x.kind = "rpc_server"
        /\ IF x.st = "release" THEN Bindings \in Elems(x.todo)
                               ELSE x.pos = Final(x.kind) /\ x.todo = <<>>

Follows(x, f) ==
    /\ x.pos \in 1..Final(x.kind) /\ x.held \subseteq TriedBy(x)
    /\ Rel(x.kind, Phase(x), At(x.kind, f[x.pos]), Core(x.held), x.todo)
    /\ Holds(x, f)
    /\ x.st = "live" => x.todo = <<>> /\ x.pos = Final(x.kind)
    /\ x.kind \in KeepKinds => Core(TriedBy(x)) = f[x.pos]
    /\ Serves(x)

AllKinds == CtrlKinds \union ProgKinds \union DmaKinds

Object(kinds) ==
    [st : {"build", "live", "release"}, kind : kinds, pos : Nat, held : SUBSET Res,
     todo : Seq(Res), who : Threads, via : Ctrls, va : VAddrs \union {0}, size : Nat,
     md : [page : Nat, n : Nat], got : Nat]

\* What is made for a controller, and for a DMA handle
KindsOf(o) == IF o \in Ctrls THEN CtrlKinds \union ProgKinds ELSE DmaKinds

ObjTyped ==
    /\ obj \in [Objects -> {Nothing} \union Object(AllKinds)]
    /\ \A o \in Objects : obj[o] # Nothing => obj[o].kind \in KindsOf(o)

ModTyped ==
    /\ ufd \in [Ctrls -> BOOLEAN] /\ opener \in [Ctrls -> Threads]
    /\ kmaps \in [Ctrls -> SUBSET [va : VAddrs, by : Handles]]
    /\ fault \in Objects \union {Fine}

\* Descriptors are those computed from what was asked for
Described(x) ==
    /\ x.got \in 0..x.md.n
    /\ x.kind \in DmaKinds =>
          \E page \in RawPages \union {0} : x.md = Descriptor(x.kind, x.size, page)
    /\ R("dma", "mem") \in x.held => Fits(x.md)

Trace(kind) == CHOOSE f : IsTrace(kind, f)

Using     == {o \in Objects : obj[o].st # "none"}
Following == \A o \in Using : Follows(obj[o], Trace(obj[o].kind)) /\ Described(obj[o])

\* Pinned pages and the module's mappings
Pinned(h) == R("md", "pages") \in obj[h].held
Kernel    == {h \in Using : obj[h].kind \in KernKinds}

PinnedMapped  == \A h \in Using : Pinned(h) =>
                    h \in Kernel /\ [va |-> obj[h].va, by |-> h] \in kmaps[obj[h].via]
MappedPinned  == \A c \in Ctrls : \A m \in kmaps[c] :
                    \/ m.by \in Using /\ Pinned(m.by) /\ obj[m.by].via = c /\ obj[m.by].va = m.va
                    \/ <<c, m.va>> \in foreign
AddressedOnce == /\ \A g, h \in Kernel : g # h /\ obj[g].via = obj[h].via => obj[g].va # obj[h].va
                 /\ \A h \in Kernel : obj[h].va \in VAddrs

Mapped == PinnedMapped /\ MappedPinned /\ AddressedOnce

IInv == ObjTyped /\ ModTyped /\ Following /\ Mapped /\ FaultsKnown

=============================================================================
