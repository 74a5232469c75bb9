------------------------------ MODULE Programs ------------------------------
(***************************************************************************)
(* The set-up and tear-down of the repository's programs: what each main    *)
(* takes and in which order, what it gives back when a step fails, and what *)
(* it gives back in the end (examples/identify, read-blocks, integrity,     *)
(* rpc; benchmarks/latency).  A call of the library is one step here, which *)
(* succeeds or fails as a whole.                                            *)
(*                                                                          *)
(* R("var", x) is a pointer that starts as NULL, whose release does nothing *)
(* then; R("local", x) is one that starts with any value.                   *)
(***************************************************************************)
EXTENDS LibraryHandles

var(x) == R("var", x)
loc(x) == R("local", x)
vars_of(xs) == [i \in 1..Len(xs) |-> var(xs[i])]
locs_of(xs) == [i \in 1..Len(xs) |-> loc(xs[i])]

\* A program: its steps, and what it releases when they have all succeeded
Prog(steps, release) == [steps |-> steps, release |-> release]

\* SCIInitialize with its result ignored
SciInit == Optional(Get(var("sisci"), <<>>))

-----------------------------------------------------------------------------
(* examples/identify *)

\* Both execute_identify
execute_identify(undo) == Get(loc("aq"), undo) \o Check(<<loc("aq")>> \o undo)

\* userspace.c
pci_enable_device    == Check(<<>>)
pci_set_bus_master   == Check(<<>>)
pci_open_bar         == Get(loc("fd"), <<>>)
lookup_ioaddrs(undo) == Check(undo)

\* When the lookup fails, the memory is released and released again.
identify_ctrl(after) ==
    LET out == locs_of(<<"locked", "aq_ptr">>) \o after
    IN Check(after)          \* sysconf
       \o Get(loc("aq_ptr"), after)
       \o Get(loc("locked"), <<loc("aq_ptr")>> \o after)
       \o lookup_ioaddrs(locs_of(<<"locked", "aq_ptr">>) \o out)
       \o Get(loc("aq_mem"), out)
       \o execute_identify(<<loc("aq_mem")>> \o out)

id_user ==
    Prog(pci_enable_device \o pci_set_bus_master \o pci_open_bar
         \o Get(loc("registers"), <<loc("fd")>>)
         \o Get(loc("ctrl"), locs_of(<<"registers", "fd">>))
         \o identify_ctrl(locs_of(<<"ctrl", "registers", "fd">>)),
         locs_of(<<"aq", "aq_mem", "locked", "aq_ptr", "ctrl", "registers", "fd">>))

\* module.c: the descriptor is closed once the controller handle has its own
id_module ==
    Prog(Get(loc("fd"), <<>>)
         \o Get(loc("ctrl"), <<loc("fd")>>)
         \o Drop(<<loc("fd")>>)
         \o Get(loc("aq_ptr"), <<loc("ctrl")>>)
         \o Get(loc("aq_mem"), locs_of(<<"aq_ptr", "ctrl">>))
         \o execute_identify(locs_of(<<"aq_mem", "aq_ptr", "ctrl">>)),
         locs_of(<<"aq", "aq_mem", "aq_ptr", "ctrl">>))

\* smartio.c
id_smartio ==
    Prog(SciInit
         \o Get(loc("ctrl"), <<>>)
         \o Get(loc("aq_mem"), <<loc("ctrl")>>)
         \o Get(loc("aq"), locs_of(<<"aq_mem", "ctrl">>)),
         locs_of(<<"aq", "aq_mem", "ctrl">>) \o <<var("sisci")>>)

-----------------------------------------------------------------------------
(* examples/read-blocks: one exit, which releases whatever is not NULL *)

get_disk_info(undo)     == Check(undo) \o Check(undo)
create_queue_pair(undo) == Check(undo) \o Check(undo) \o Check(undo)
read_and_dump(undo)     == Check(undo)

\* module.c
prepare_and_read_leave == vars_of(<<"buffer", "sq_mem", "cq_mem", "buffer_ptr", "queue_ptr">>)

prepare_and_read(undo) ==
    LET leave == prepare_and_read_leave \o undo
    IN Get(var("buffer_ptr"), leave) \o Get(var("queue_ptr"), leave)
       \o Get(var("sq_mem"), leave) \o Get(var("cq_mem"), leave) \o Get(var("buffer"), leave)
       \o create_queue_pair(leave) \o read_and_dump(leave)

read_module ==
    LET leave == vars_of(<<"aq", "aq_mem", "aq_ptr", "ctrl">>) \o <<loc("fd")>>
    IN Prog(Get(loc("fd"), <<>>)
            \o Get(var("ctrl"), leave) \o Get(var("aq_ptr"), leave)
            \o Get(var("aq_mem"), leave) \o Get(var("aq"), leave)
            \o get_disk_info(leave) \o prepare_and_read(leave),
            prepare_and_read_leave \o leave)

\* smartio.c
read_smartio ==
    LET leave == vars_of(<<"cq_mem", "sq_mem", "buffer", "aq", "aq_mem", "ctrl", "sisci">>)
    IN Prog(Get(var("sisci"), <<>>)
            \o Get(var("ctrl"), leave) \o Get(var("aq_mem"), leave) \o Get(var("aq"), leave)
            \o get_disk_info(leave)
            \o Get(var("buffer"), leave) \o Get(var("cq_mem"), leave) \o Get(var("sq_mem"), leave)
            \o create_queue_pair(leave) \o read_and_dump(leave),
            leave)

-----------------------------------------------------------------------------
(* examples/integrity, with two submission queues *)

create_buffer(x, undo) == Get(loc(x), undo)
remove_buffer(x)       == <<loc(x)>>
create_queue(x, undo)  == create_buffer(x, undo) \o Check(remove_buffer(x) \o undo)
remove_queue(x)        == remove_buffer(x)

\* remove_queues(q, n): the completion queue, n submission queues and the array
remove_queues(n) ==
    remove_queue("q0") \o (IF n > 0 THEN remove_queue("q1") ELSE <<>>)
    \o (IF n > 1 THEN remove_queue("q2") ELSE <<>>) \o <<loc("queues")>>

\* identify_controller and identify_namespace
identify(undo) ==
    create_buffer("window", undo) \o Check(<<loc("window")>> \o undo) \o Drop(<<loc("window")>>)

request_queues(undo) ==
    Check(undo) \o Check(undo)
    \o Get(loc("queues"), undo)
    \o create_queue("q0", <<loc("queues")>> \o undo)
    \o create_queue("q1", remove_queues(0) \o undo)
    \o create_queue("q2", remove_queues(1) \o undo)

integrity ==
    LET out == locs_of(<<"aq", "aq_mem", "buffer", "ctrl", "fp">>) \o <<var("sisci")>>
    IN Prog(Get(loc("fp"), <<>>) \o Check(<<loc("fp")>>)
            \o SciInit
            \o Get(loc("ctrl"), <<loc("fp")>>)
            \o Get(loc("aq_mem"), locs_of(<<"ctrl", "fp">>))
            \o Get(loc("aq"), locs_of(<<"aq_mem", "ctrl", "fp">>))
            \o create_buffer("buffer", locs_of(<<"aq", "aq_mem", "ctrl", "fp">>))
            \o identify(out) \o identify(out)
            \o request_queues(out),
            remove_queues(2) \o out)

-----------------------------------------------------------------------------
(* examples/rpc *)

segment_create(s, undo) == Get(R(s, "sd"), undo) \o Get(R(s, "segment"), <<R(s, "sd")>> \o undo)
segment_remove(s)       == <<R(s, "segment"), R(s, "sd")>>
dma_create(s, undo)     == Check(undo) \o Get(R(s, "available"), undo)
                           \o Get(R(s, "dma"), <<R(s, "available")>> \o undo)
dma_remove(s)           == <<R(s, "dma"), R(s, "available")>>

\* identify_controller and show_info
identify_page(undo) ==
    segment_create("page", undo) \o dma_create("page", segment_remove("page") \o undo)
    \o Drop(dma_remove("page") \o segment_remove("page"))

\* run_service: what identify_controller and nvm_dis_rpc_enable return is ignored
run_service(undo) ==
    Get(loc("aq"), undo) \o Optional(identify_page(<<>>))
    \o Optional(Get(R("aq", "handles"), <<>>))

rpc_server ==
    LET queue == dma_remove("queue") \o segment_remove("queue")
        out   == queue \o <<loc("ctrl"), var("sisci")>>
    IN Prog(Get(var("sisci"), <<>>)
            \o Get(loc("ctrl"), <<>>)
            \o segment_create("queue", <<loc("ctrl")>>)
            \o dma_create("queue", segment_remove("queue") \o <<loc("ctrl")>>)
            \o run_service(out),
            <<R("aq", "handles"), loc("aq")>> \o out)

rpc_client ==
    LET out == locs_of(<<"aq", "ctrl">>) \o <<var("sisci")>>
    IN Prog(Get(var("sisci"), <<>>)
            \o Get(loc("ctrl"), <<>>)
            \o Get(loc("aq"), <<loc("ctrl")>>)      \* nvm_dis_rpc_bind
            \o identify_page(out),
            out)

-----------------------------------------------------------------------------
(* benchmarks/latency, with two queues.  A failure throws; what is built is unwound. *)

createBuffer(x, undo)       == Get(var(x), undo)
createRemoteBuffer(x, undo) == Get(var(x), undo)

\* A buffer in GPU memory
createBuffer_dev(undo) ==
    Check(undo) \o Get(var("buffer_ptr"), undo)
    \o Check(<<var("buffer_ptr")>> \o undo)
    \o Get(var("buffer"), <<var("buffer_ptr")>> \o undo)

\* If the constructor throws, ~Controller does not run: only the member aq_mem goes.
Controller ==
    Get(var("ctrl"), <<>>)
    \o createBuffer("aq_mem", <<>>)
    \o Get(var("aq"), <<var("aq_mem")>>)
    \o Check(<<var("aq_mem")>>) \o Check(<<var("aq_mem")>>) \o Check(<<var("aq_mem")>>)

Controller_dtor == vars_of(<<"aq", "ctrl", "aq_mem">>)

\* Members of a queue: sq_mem and cq_mem, the latter for a remote queue only
QueueMem(no) == IF no = 1 THEN [sq |-> "sq_mem", cq |-> "cq_mem"]
                          ELSE [sq |-> "sq_mem2", cq |-> "cq_mem2"]
Queue_dtor(no, remote) ==
    (IF remote THEN <<var(QueueMem(no).cq)>> ELSE <<>>) \o <<var(QueueMem(no).sq)>>

Queue(no, remote, undo) ==
    (IF remote THEN createBuffer(QueueMem(no).cq, undo)
                    \o createRemoteBuffer(QueueMem(no).sq, <<var(QueueMem(no).cq)>> \o undo)
               ELSE createBuffer(QueueMem(no).sq, undo))
    \o Check(Queue_dtor(no, remote) \o undo) \o Check(Queue_dtor(no, remote) \o undo)

createQueues(remote, undo) ==
    Queue(1, remote, undo) \o Queue(2, remote, Queue_dtor(1, remote) \o undo)

\* With a buffer in host memory
verify(undo) ==
    Check(undo) \o Get(var("ptr"), undo)
    \o Get(var("fp"), <<var("ptr")>> \o undo) \o Drop(<<var("fp")>>)
    \o Check(<<var("ptr")>> \o undo) \o Drop(<<var("ptr")>>)

\* Remote queues and a buffer in host memory, with a file to verify against; or local
\* queues and a buffer in GPU memory
latency(remote) ==
    LET queues == Queue_dtor(1, remote) \o Queue_dtor(2, remote) \o Controller_dtor
        buffer == IF remote THEN <<var("buffer")>> ELSE vars_of(<<"buffer", "buffer_ptr">>)
    IN Prog(Get(var("sisci"), <<>>)
            \o Controller
            \o createQueues(remote, Controller_dtor)
            \o (IF remote THEN createBuffer("buffer", queues) \o verify(buffer \o queues)
                          ELSE createBuffer_dev(queues)),
            buffer \o queues \o <<var("sisci")>>)

=============================================================================
