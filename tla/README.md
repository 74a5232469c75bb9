# libnvm in TLA+

TLA+ models of libnvm, the userspace NVM Express library of this repository,
its kernel module and its programs: the queue primitives, the data path the
programs build on them, the admin queues, remote admin commands in a DIS
cluster, controller and DMA handles, the kernel module that maps memory for
them, and the latency benchmark. TLC checks the models on
small instances; TLAPS proves the safety properties of all of them for every
instance. Paths below are relative to the repository; `PROJECT.json` maps every
definition to its source lines.

## 1. Inventory of the system

| component | state it keeps | operations | talks to | what is hard | what makes it correct |
|---|---|---|---|---|---|
| queue primitives (`include/nvm_queue.h`, `src/queue.c`) | a descriptor: `head`, `tail`, `phase`, `last`, `max_entries`, pointers to queue memory and a doorbell | `nvm_queue_clear`, `nvm_sq_enqueue/submit/update`, `nvm_cq_poll/dequeue/dequeue_block/update` | the controller, through queue memory and doorbells | no locks: one thread moves `tail`, another moves `head`; 32-bit wrap in the full test; phase tags over laps | a slot in use is never handed out; a completion is taken once, and only when posted |
| data path (`examples/integrity/transfer.c`, `examples/read-blocks/read.c`) | descriptors, counters, PRP pages, thread states | `produce_commands`, `consume_completions`, `transfer` | queue primitives, controller | producers, consumer, main thread and controller interleave; busy waits on plain fields; a full queue | the controller executes exactly what was built; the transfer returns after everything is reaped, and returns |
| admin queues (`src/rpc.c`, `src/ctrl.c`) | ASQ/ACQ descriptors, the DMA window, a mutex | `nvm_aq_create` (with `nvm_raw_ctrl_reset`), `nvm_raw_rpc`/`execute_command`, `nvm_aq_destroy` | controller registers | timeouts racing late completions; calls that gave up keep slots; re-creation on used memory | a caller gets the completion of its own command, or an error; every call returns |
| handles (`src/rpc.c`) | list of binding handles under the reference's mutex | insert, remove, release | cluster rpc | release under a lock that the released object's callback wants | unique keys; nothing is freed in use |
| cluster rpc (`src/dis/rpc.c`, `src/dis/interrupt.c`) | entries in shared device memory, data interrupts, bindings | enable, disable, bind, `remote_command`, callback, unbind | SISCI, admin queues | several processes; lost and late replies; partial publication; a server that goes away | replies reach the request they answer; nothing stale is published |
| admin commands (`src/admin.c`) | none | identify, create CQ/SQ, get/set number of queues | `nvm_raw_rpc` | queue sizes given to the controller and kept by the host | both sides count with the same size |
| controller handle (`src/ctrl.c`) | mapped registers, page size, doorbell stride, limits | init (three kinds), free | kernel module, DIS | one of several steps fails | a failed call leaves nothing behind |
| DMA mappings (`src/dma.c`, `src/dis/dma.c`, `src/dis/map.c`, `src/dis/local.c`, `src/dis/device.c`) | windows, segments, descriptors, ioctl mappings | create, map host/device/segment, connect, unmap | kernel module, SISCI | roll-back after a failed step; release by another thread, or after the controller handle | what is held has what it rests on, at every moment; addresses cover the memory |
| kernel module (`module/`) | device slots, references, mapping lists, pinned pages | load/unload, probe/remove, open/close, map/unmap ioctls, GPU free callback | libnvm, PCI core, GPU driver | no locks; removal while in use; files shared between threads | nothing freed is used, nothing pinned is forgotten |
| latency benchmark (`benchmarks/latency/`) | queue pairs, plan of transfers, windows, barrier | createQueues, sendWindow, flush, measure, benchmark | queue primitives, admin commands | threads between barriers, a hand-made barrier, unsigned block arithmetic | windows in step, memory left alone while in use, an end |
| command builders, status decoding (`include/nvm_cmd.h`, `include/nvm_util.h`, `src/error.c`) | none | pure functions | everybody | a count of 0 blocks | modelled where the benchmark depends on it |
| programs identify, read-blocks, integrity, rpc (`examples/`) | handles and memory of one run | set-up, one job, tear-down | library, kernel module, SISCI | a failure at any step of the set-up | nothing is released twice, or before what uses it |
| simple-rdma benchmark | — | — | an earlier version of the library | — | not modelled |

`PROJECT.json` lists the hazards these components have, each at the line where
it bites, with the properties that would catch it.

## 2. Modules

| module | models |
|---|---|
| `NvmQueue` | the queue descriptor and its operations, as operators from descriptor to descriptor; shared by `IoQueues`, `AdminQueue` and `LatencyBench` |
| `IoQueues` | one transfer: producers, consumer, main thread, controller; its properties and the refinement mapping |
| `CommandService` | abstract specification of a transfer: each command is queued, started, completed and reaped once |
| `NvmQueueProofs` | lemmas: ring arithmetic, the full test, what each operation of `NvmQueue` does to a descriptor |
| `AdminQueue` | creation, use by several threads, and destruction of the admin queues |
| `ClusterRpc` | server, clients and shared memory of remote admin commands |
| `KernelModule` | the kernel module, with its callers, the PCI core and the GPU driver |
| `LibraryHandles` | the constructors and releases of controller and DMA handles, as sequences of what they take and give back |
| `Programs` | set-up and tear-down of the programs, in the same terms |
| `DmaMapping` | those sequences carried out, by several threads, with failures; addresses; what the kernel module has mapped |
| `LatencyBench` | plan, queue creation, threads, barrier and windows of the latency benchmark, over `NvmQueue` |
| `IoQueuesInv`, `AdminQueueInv`, `ClusterRpcInv`, `KernelModuleInv`, `LatencyBenchInv`, `DmaMappingInv` | the inductive invariant `IInv` of each specification; for `IoQueues` also `Work`, `Once` and `Lists`, for `DmaMapping` the rules it is built on |
| `IoQueuesProofs`, `IoServiceProofs`, `AdminQueueProofs`, `ClusterRpcProofs`, `KernelModuleProofs`, `LatencyBenchProofs`, `DmaMappingProofs` | its proof, and the theorems that follow |
| `MCIoQueues`, `MCAdminQueue`, `MCClusterRpc`, `MCKernelModule`, `MCDmaMapping`, `MCLatencyBench` | instances for TLC |

Operators whose name ends in `_Something` and whose comment starts with
"Mutant:" are deliberately wrong variants, used to show that each property can
fail. No specification uses them.

### NvmQueue

A descriptor is a record of the fields of `nvm_queue_t` that change, plus
`max_entries`. Each function of `nvm_queue.h` is an operator of the same name
that returns the descriptor after the call; `SqSlot`, `SqCid`, `SqDoorbell` and
`CqDoorbell` say which slot is addressed, which CID is stored, and what the
doorbell register holds afterwards. Two details of C are kept:

* the full test `((tail - head) % max_entries) == max_entries - 1` is computed
  on unsigned counters, so the difference first wraps modulo `Word` (2^32 in
  the code, a constant of the model);
* `if (++head == max_entries) head = 0` is two stores that another thread may
  see separately, so `nvm_sq_update` is `SqHeadWrap(SqHeadIncrement(sq))`, and
  the consumer of `IoQueues` performs the two in separate steps.

### IoQueues

`sq[q]`, `cq`, `counter[q]` are the `struct queue`s of `integrity.h`; `sqmem`,
`cqmem`, `prp` the DMA memory; `sqdb`, `cqdb` the doorbells. `ppc`, `cpc`, `mpc`
say where each thread is. A step of the model is one call of a queue operation
or one access to memory shared between threads: taking a slot and building the
command in it are two steps, because until the second the slot holds the
previous command. A command is its number in the queue; opcode, block range and
data pointer follow from that. CIDs, PRP pages and phase tags are modelled.

The controller (`DevFetch`, `DevComplete`) is external: it fetches what the
tail doorbell exposes, completes in order or in any order (`InOrder`), and stops
posting when the completion ring is full as seen from the head doorbell.

`Hoisted` states what the build may do with the busy waits on plain fields
(`transfer.c:125`, `transfer.c:191`, `read.c:237`): `TRUE` lets the loop go on
for ever after it has read an old value, the outcome of a compiler that reads
the field once.

`read_and_dump` of read-blocks is the same protocol with one submission queue
and no flush, produced by the main thread; it has no actions of its own.

Left out: file and buffer handling, the division of blocks into shares
(`DataCmds` gives the number of commands), status words of completions (they are
only printed).

### AdminQueue

`nvm_aq_create` is `CreateAdmin`, `ResetDisable`, `ResetConfigure`, `ResetDone`
or `ResetTimeout`; a call of `nvm_raw_rpc` is `RpcCall`, `RpcLock`, the
`Execute...` steps and `RpcUnlock`. The command in a slot is the number of the
call. Entries carry no identifiers, because `execute_command` never compares
them: it stamps the caller's own identifier on whatever completion it finds.
`acqdb` is constantly 0, because `execute_command` never calls `nvm_cq_update`.

`TimeUp` says when a wait may give up: at any time if the controller is `Late`,
otherwise only when the controller cannot make a step. The controller may be
found enabled, with queues of an earlier driver (`Init`), forgets everything
when disabled, and may or may not notice doorbell writes while it is not ready.

The creations all use the same DMA window. The owner does not call
`nvm_aq_destroy` during a call of another thread, as the interface demands.

`create_admin` clears the window before `nvm_raw_ctrl_reset` disables the
controller (`rpc.c:319`, `ctrl.c:244`). A controller that still executes a
command of the creation before may post its completion in between; the new
queues then take it for an answer. The head of the ASQ, which moves once per
completion, runs ahead of the controller, slots are handed out before they are
fetched, and a command may be executed twice. The history variable `stale` holds
the last creation to which this happened. It takes a call that timed out and
six calls to be seen, more than the run has; the attempt to prove `AsqIntegrity`
and `AnsweredOnce` without it failed, and TLC then found the behaviour.

### ClusterRpc

The server's main thread (`Main`) enables and disables adapters and destroys the
queues; `Callback(h)` is `handle_remote_command` for handle `h`; `Client(c)`
binds, sends, waits with a timeout, unbinds. `magic` and `intr` are the entries
in shared device memory, written in the order of `write_handle_info`. `slock` is
the mutex of the server's reference. What `execute_command` does is reduced to
"completes" or "fails"; `AdminQueue` has the details.

SISCI is external and modelled from its use: an interrupt queues the data it is
triggered with, runs its callback once at a time, and cannot be removed while
the callback runs (the `SCI_ERR_BUSY` for which `_nvm_local_intr_put` loops).
Sending a reply may fail at any time: `handle->intr.adapter`, from which the
connection is made, is never set by `_nvm_local_intr_get`. A reply is addressed
by the node and interrupt number its request carries (`from`), which is free
again after the client has unbound and may then be that of another client, or of
the same one bound again (`num`, `IntrNos`): `CbReply` delivers to whoever has
the number. (The numbers of the server's interrupts are not given out again in
the model.) A wait ends without a reply by a timeout or by an error of SISCI
(`Expire`). The client takes a reply whose command has a zero first dword for a
rejection, and an executed command may have one (`Receive`).

`Reenable` allows a caller to enable an adapter that is enabled, `MapFails` lets
the mapping of the shared segment fail. `DisableFind` of an adapter that is not
enabled ends the server process: `_nvm_rpc_handle_remove` follows a null pointer
(`rpc.c:155`).

### KernelModule

`devs` and `refs` are the arrays of `pci.c`, `heap` the map descriptors, `file`
the open files, `act[a]` where task or PCI device `a` is. The module takes no
lock, so an operation is cut into steps wherever it sleeps or another actor can
see what it did: opening is `OpenFind`, `OpenNext`, `OpenClaim`, `OpenInit`;
mapping `IoctlMap`, `MapPin`, `MapUser` or `MapGpu`, `MapInsert`; taking a GPU
mapping down `UnmapGpu` (unlink, and test `mappings`), `UnmapDma`, `UnmapPut`; closing
`Release`, then per mapping `PutPick`, `PutDrop`, then `PutClear`, `PutDone`;
removal `remove_pci_dev`, `RemoveRef` per reference, `RemoveDone`. Load and
unload take and give back the module's own resources one by one
(`EntryStep`, `EntryFail`, `ExitStart`, `ExitFree`).

Faithful to the code, and visible in the model:

* a reference belongs to `current->pid`, which is a thread, not a process
  (`pci.c:69`). A file closed by another thread leaves the reference, and what it
  has mapped, until the device is removed (`pci.c:189`);
* a mapping that stops early is inserted with fewer addresses and the ioctl
  succeeds (`map.c:295`);
* an address can be mapped twice; unmapping takes the newest (`list.c:77`);
* three races can make the module use what is gone: a removal that meets a call
  in progress (`pci.c:418`), GPU memory freed inside `map_gpu_memory`, and GPU
  memory freed inside `unmap_gpu_memory` after `mappings` was found set
  (`map.c:116` against `map.c:231`). The model notes such a race in `after` and
  follows it for `MaxAfterRace` steps.

`get_user_pages` is assumed to pin a page or fail: if it returned 0,
`lock_user_pages` would free the page array and return success (`map.c:93`), and
the ioctl would go on without the array.

### LibraryHandles, Programs and DmaMapping

A resource is named by the structure and field that hold it, `R("md", "fd")`. A
constructor is a sequence of steps, each of which takes a resource or checks
something and says what is released if it fails; a release is a sequence of
resources. The operators have the names of the C functions and are put together
the way those call each other, so that the roll-back of a function appears once.
`DmaMapping` carries the sequences out: `Proceed`, `StepFails`, `StepDrops`,
`Return`, `ReleaseNext`, `ReleaseDone` for any object, with two threads at work.
Releasing what is not held, or through a structure that is freed, sets `fault`.

`kmaps[c]` is what `KernelModule` guarantees about one open file: a set of
mappings, found by address (callers map an address once at a time), taken down only by the thread that opened it, dropped when that
thread closes the last descriptor (a `dup`, or the register mapping) of the file.
`_nvm_dma_handle_populate` gives for every controller page the page and offset
its address comes from.

Programs run alone, in one thread; a call of the library is one step there,
because its own steps are checked as a constructor. Pointers initialised to
`NULL` (`var`) may be released at any time until they are set, others (`loc`)
may not. The integrity program is taken with two submission queues, the
benchmark with two queues: remote ones with a buffer in host memory and a file
to verify, or local ones with a buffer in GPU memory.

What the model shows besides its properties: `_nvm_local_memory_put` does not
close the descriptor of a local segment (`dis/local.c:63`); a `Controller` of the
benchmark whose constructor throws leaves its controller handle and admin queues,
with the queue memory unmapped (`latency/ctrl.cc:39`); programs that fail often
leave without `SCITerminate`.

### LatencyBench

`plan` is what `createQueues` computes from the settings: each queue's transfers,
with `size_t` and 16-bit wrap-around (`SizeWord`, `BlkWord`). `CreateCq` and
`CreateSq` set up the descriptors on both sides, then `MakeThread` starts one
thread per queue. `mine[i]` is the queue thread `i` works on: the lambda captures
the loop variable by reference (`main.cu:487`), so with `LateStart` a thread may
find a later queue. Nothing then keeps two threads on one queue apart: the full
test, the increment and the wrap of `nvm_queue.h` are plain reads and writes, and
can leave the ring. Once two threads are on one queue (`Shared`) the queues are
not followed any more; the threads and the barrier are, and find a queue full or
not, and a completion at any time. What is said of descriptors, doorbells and
tags, in `TypeOK` and in the invariant too, is said only where no queue is
shared. A thread that starts when `q` does not exist (between two turns of the
loop, or after it) follows a dangling reference; that is undefined and not
modelled. `max_data_pages` is the controller's limit (`Mdts`, in its smallest
pages) in pages of the size in use (`PageRatio` of the smallest). A window is `Window`, `Fill` per command, the barrier
(`Arrive`, `Zero`, `Raise`, `Spin`: the counter is reset and the flag flipped
outside the mutex), `SubmitWindow`, `Reap` per completion. `Full` is the
program's own "queue is full" exit.

## 3. Properties and runs

Passing runs:

| run | instance | checks |
|---|---|---|
| `io_laps` | 1 SQ and the CQ of 4 slots, 9 commands, out-of-order controller | `TypeOK`, `IInv`, `CommandIntegrity`, `PhaseTagSound`, `HeldCompletion`, `TransferEnds` |
| `io_write` | 2 SQs and a CQ of 3 slots, 4 and 3 commands and a flush each, in-order controller, busy waits may hang | `PrpListIntact`, `ReturnsAfterAll`, `ImplementsService` |
| `aq_calls` | ASQ of 3, ACQ of 4 slots, 2 threads, 4 calls, 2 creations, late controller | `TypeOK`, `OwnUnlessLate`, `AnsweredOnce`, `AsqIntegrity`, `QuietAfterDestroy`, `RpcReturns` |
| `cr_replies` | 2 clients and 2 interrupt numbers (symmetric), 1 adapter, 2 handles, 2 requests, `Reenable` and `MapFails` | `TypeOK`, `CallbackHandleAlive`, `NoReplyStolen`, `RepliedOnce`, `OwnUnlessLate` |
| `cr_handles` | 1 client, 2 adapters, 3 handles, 1 request | `PublishedLive`, `EnabledPublished` |
| `km_refs` | 2 tasks, 2 files, 1 device, 2 reference slots, 2 map descriptors, host and GPU addresses | `TypeOK`, `SafeUnlessRaced`, `MapsReachable`, `MapsFindable`, `NothingLeft`, `OnlyOwnerUnmaps` |
| `dma_handles` | 1 controller handle, 2 DMA handles, 2 threads, every kind of handle, every program | `TypeOK`, `CleanAfter`, `Grounded`, `ModuleAgrees`, `AddressesCover`, `FaultsKnown` |
| `lat_windows` | 1 or 2 queues, depth 2, rings of 2, 3 and 4, 2 repetitions, the three patterns, two start blocks | `TypeOK`, `InStep`, `CommandMemory`, `FullOnlyWhere`, `PlanCovers`, `BenchmarkEnds` |

* `CommandIntegrity`: what the tail doorbell exposes is always the next
  commands, in order, completely built. `PhaseTagSound`: a poll succeeds exactly
  when an untaken completion is posted, and finds the oldest.
  `HeldCompletion`: the entry read through the pointer that `nvm_cq_dequeue`
  returned is not overwritten before `nvm_cq_update`.
* `PrpListIntact`: a PRP page is not rebuilt under a command the controller is
  executing. It is stated for controllers that complete in order: a page is
  reused one lap later, and a head that advances per completion says nothing
  about which command has completed.
* `ReturnsAfterAll`, `ImplementsService`: the transfer returns after every
  command was executed and reaped; each is started once and in order, completed
  and reaped once. `TransferEnds`: it does return.
* `OwnUnlessLate`, `AnsweredOnce`, `AsqIntegrity`, `QuietAfterDestroy`: without
  timeouts each call returns its own completion and nothing is left with the
  controller at destruction; with or without, no completion serves two calls and
  the controller executes exactly what was relayed (but see `stale` in section
  2). `RpcReturns`: every call
  returns, even if the controller never answers.
* `NoReplyStolen`, `RepliedOnce`, `OwnUnlessLate`: as long as a call waits, nobody
  else takes its reply; no reply is taken twice; and as long as no call has given
  up waiting, each one that returns a reply returns its own. After a call has
  given up and its client has unbound, its reply may reach another client.
  `CallbackHandleAlive`: no callback of a freed handle runs. `PublishedLive`:
  shared memory names only interrupts that exist. `EnabledPublished`: between
  calls every installed handle can be found by clients.
* `SafeUnlessRaced`, `MapsReachable`, `MapsFindable`, `NothingLeft`,
  `OnlyOwnerUnmaps`: although there is no lock, tasks that share files, map the
  same address twice, close in any order, or lose GPU memory while no call is
  mapping it or taking its mapping down, never make the module
  use or lose a descriptor, a page or a page table; a mapping is found by its
  address; what was taken is given back at removal and unload; only the owner
  takes a mapping down. What this does not extend to are the three races above.
* `CleanAfter`, `Grounded`, `FaultsKnown`: whichever step fails, a constructor or
  a program gives back what it took, never while something rests on it, and never
  twice -- with the exceptions the properties name: the double release in
  `nvm_dma_map_host` and `nvm_dma_map_device` (`dma.c:405`), an `mmap` compared
  with `NULL` (`ctrl.c:395`), the double release in `identify_ctrl`
  (`identify/userspace.c:170`), and the leaks listed in section 2.
* `ModuleAgrees`: a DMA handle in a caller's hands is mapped, also after the
  controller handle is freed, and the module keeps no mapping without a handle,
  except where another thread than the opener released it: its ioctl is refused
  and nobody is told. `AddressesCover`: the addresses are those of the memory,
  in order, and cover what was asked for (unless the module mapped less).
* `InStep`, `CommandMemory`: the barrier keeps windows in step across its reuse;
  the PRP lists and queue memory of a command are left alone until the controller
  is done with it. `FullOnlyWhere`: the queue-full exit needs a shared queue, a
  depth the controller does not support (`settings.cu` compares it with the page
  only), or a ring size that does not divide 2^32. `PlanCovers`: transfers use
  pages of their own inside the buffer and, with the sequential pattern from
  block 0, read every block asked for once, into pages that hold it.
  `BenchmarkEnds`: it ends when all queues have the same number of windows; with
  an uneven linear split the longer queue waits at the barrier for ever.

Runs that show a disagreement between the code and what the repository says:

| run | property | what TLC shows |
|---|---|---|
| `io_flush_livelock` | `TransferEnds` | the wait for a flush slot never submits what fills the queue (`transfer.c:125`) |
| `aq_jam` | `InTimeAnswered` | completions are never acknowledged, so the ACQ fills for good (`rpc.c:290`) |
| `cr_disable_deadlock` | `DisableReturns` | a handle is released under the lock its callback needs (`rpc.c:164`) |
| `lat_linear` | `LinearDisjoint` | a linear queue's last transfer has 0 blocks, encoded as a full count, and reaches the next queue's blocks (`transfer.cc:28`): with three queues, the second those of the third |

Further behaviours that the models contain and that the properties above are
conditioned on: a queue size that does not divide 2^32 defeats the full test
after the tail wraps (`nvm_queue.h:51`; `Word`, `RingDivides`); after a timeout
the next admin call takes the late completion for its own (`rpc.c:283`;
`OwnUnlessLate`); `nvm_aq_create` drops the result of the reset (`rpc.c:447`;
`ResetTimeout`, history variable `unreset`); `nvm_aq_destroy` sends no abort, so
a timed-out command may complete into released memory (`rpc.c:461`;
`QuietAfterDestroy` excludes timeouts), or into the window of the next creation
after that has been cleared (`rpc.c:319`; `stale`); AQA is programmed with the entries of a
page while the host counts with at most `ctrl->max_entries` (`ctrl.c:266`;
`aq_calls` uses sizes that agree, a smaller `CtrlMaxEntries` violates
`AsqIntegrity`); a late reply is taken by the client's next request, or by the
client that has the interrupt number by then (`dis/rpc.c:164`, `dis/rpc.c:127`;
`late`); the callback ignores the result of `_nvm_local_admin`
and replies with an unwritten completion (`dis/rpc.c:118`; `CbExecute`); the
failed second enable of an adapter clears the entry of the installed handle
(`dis/rpc.c:407`; `EnabledPublished` needs `Reenable = FALSE`).

### Bounds

* `io_laps`: nine commands take a ring of four more than twice round, so both
  values of the phase tag are reused and every position of `head`, `tail` and
  the controller's pointers occurs at the wrap. `Word = 16` is a multiple of
  the ring, as 2^32 is of a power of two. The data path needs no bound beyond
  its work: the model is finite.
* `io_write`: shares larger than the queues, so that producers block, and a
  completion ring smaller than what the queues hold together, so that the
  controller blocks.
* `aq_calls`: four calls wrap head and tail of the ASQ, fill it when they
  time out, meet the ACQ at its limit (three completions, as nothing is ever
  acknowledged) and spread over two creations. `MaxCalls` and `MaxCreates` bound
  the number of calls only; each call sees the queues at every state the earlier
  ones can leave.
* `cr_replies`: two requests are what a late reply needs to meet a wrong
  request, two clients and two numbers what it needs to meet it at another client
  (numbers are also given out again with both in use); two handles what a failed second enable, or a disable and re-enable,
  needs. `cr_handles`: two adapters with a third handle, so that an adapter is
  enabled again while another stays enabled. `ClusterRpc` may stop anywhere but
  never deadlocks as a whole, since clients can always bind.
* `km_refs`: two tasks and two files give every sharing of a file between its
  opener and another task; two reference slots are taken by two opens; two map
  descriptors and two host addresses give lists of length two in both orders,
  and the same address twice; mappings of up to two pages (`max_pages_per_map`, 3
  here, is itself refused) can stop early at each. `MaxAfterRace` (4) bounds only what is followed after a race, where only
  `TypeOK`, `MapsFindable` and the driver's own resources are still checked.
* `dma_handles`: two DMA handles are what a shared controller handle and a
  repeated address need; page sizes 2 (host and controller) and 4 (GPU), and 3
  for callers that pass their own pages, with a size of 5, leave a remainder in
  every rounding. Handles that do not go through the kernel module share nothing
  with each other and are made one at a time (`Lone`), beside a controller handle
  that may be freed at any point.
* `lat_windows`: 17 and 33 blocks, with 8 in a command, make windows that end
  short and, in two repetitions, reuse of slots, PRP lists and both values of the
  barrier's flag; a page is twice the controller's smallest; rings of 2 and 3 are below and at what the depth needs.
* Symmetry is used where no temporal property is checked and the permuted
  elements are not distinguished.

### Fairness

* `IoQueues`: weak fairness of each thread (pthreads of one process) and of the
  controller's fetching and posting per queue. `TransferEnds` is checked with
  `Hoisted = FALSE`, that is, for a build that re-reads spun-on fields.
* `AdminQueue`: weak fairness of the lock holder and of the creator, strong
  fairness of acquiring the mutex, which is released again and again. Nothing is
  assumed of the controller: a wait that finds no completion may time out.
* `ClusterRpc`: weak fairness of the server's threads, strong fairness of the
  callback's lock. The deadlock of `cr_disable_deadlock` occurs under it.
* `LatencyBench`: weak fairness of main, of each thread and of the controller per
  queue. The spin of the barrier yields, and its flag is re-read.
* `KernelModule` and `DmaMapping` state no liveness.

## 4. Proofs

TLAPS proves the following for every value of the constants: any number of
queues, threads, clients, tasks, devices and calls, any ring sizes, and any
values of the bounds.

| module | theorem | states |
|---|---|---|
| `IoQueuesProofs` | `Invariance` | `RingDivides => (Spec => []IInv)` |
| | `TypeCorrect`, `CommandsIntact`, `PhaseTags`, `HeldEntryStable` | `RingDivides => (Spec => [] ...)` of `TypeOK`, `CommandIntegrity`, `PhaseTagSound`, `HeldCompletion` |
| `IoServiceProofs` | `ServiceInvariance` | `RingDivides => (Spec => [](IInv /\ Work /\ Once /\ Lists))` |
| | `ReturnsAll`, `ListsIntact` | `RingDivides => (Spec => [] ...)` of `ReturnsAfterAll`, `PrpListIntact` |
| | `Implements` | `RingDivides => (Spec => ImplementsService)`, the refinement of `CommandService` |
| `AdminQueueProofs` | `Invariance` | `RingsAgree => (Spec => []IInv)` |
| | `TypeCorrect` | `Spec => []TypeOK` |
| | `AnswersOwn`, `AnswersOnce`, `CommandsIntact`, `QuietEnd` | `RingsAgree => (Spec => [] ...)` of `OwnUnlessLate`, `AnsweredOnce`, `AsqIntegrity`, `QuietAfterDestroy` |
| `ClusterRpcProofs` | `Invariance` | `Spec => []IInv` |
| | `TypeCorrect`, `CallbacksSafe`, `EntriesLive`, `RepliesNotStolen`, `RepliesOnce`, `RepliesOwn` | `Spec => [] ...` of `TypeOK`, `CallbackHandleAlive`, `PublishedLive`, `NoReplyStolen`, `RepliedOnce`, `OwnUnlessLate` |
| | `EnabledFound` | `~Reenable => (Spec => []EnabledPublished)` |
| `KernelModuleProofs` | `Invariance` | `Spec => []IInv` |
| | `TypeCorrect`, `Safe`, `NoDescriptorLost`, `MappingsFound`, `GivenBack` | `Spec => [] ...` of `TypeOK`, `SafeUnlessRaced`, `MapsReachable`, `MapsFindable`, `NothingLeft` |
| | `OwnerUnmaps` | `Spec => OnlyOwnerUnmaps`, an action property |
| `LatencyBenchProofs` | `Invariance` | `Spec => []IInv` |
| | `TypeCorrect`, `WindowsInStep`, `CommandsKept`, `QueueNotFull` | `Spec => [] ...` of `TypeOK`, `InStep`, `CommandMemory`, `FullOnlyWhere` |
| | `PlanRight` | `maxDataBlock <= BlkWord` implies `Spec => []PlanCovers` |
| `DmaMappingProofs` | `Inductive` | `Spec => []IInv` |
| | `TypeCorrect`, `NothingLeftBehind`, `AlwaysGrounded`, `ModuleAndHandles`, `AddressesRight`, `OnlyKnownFaults` | `Spec => [] ...` of `TypeOK`, `CleanAfter`, `Grounded`, `ModuleAgrees`, `AddressesCover`, `FaultsKnown` |

Assumptions are the named `ASSUME`s on the constants, which TLC evaluates on
every run, and four hypotheses that are not assumptions because the code does
not ensure them:

* `RingDivides` (`IoQueues`): the size of a submission queue divides the range
  of the counters. Without it a slot in use is handed out. It holds for every
  power of two, and so for every controller whose limit is not below the entries
  of a page.
* `RingsAgree` (`AdminQueue`): the same, and the controller's limit is not below
  the entries of a page, so that the sizes of AQA are those the host counts
  with.
* `~Reenable` (`ClusterRpc`): no caller enables an adapter that is enabled.
* `maxDataBlock <= BlkWord` (`LatencyBench`): the controller's transfer limit is
  not above the 65536 blocks that the 16-bit count of a command can say, which
  `prepareRange` does not check.

None of the properties but `PlanCovers`, about a plan that never changes, is
inductive; each proof rests on an invariant that was checked with TLC before it
was proved. (Of the invariant of `DmaMapping` TLC checks the parts that do not
mention traces, which are chosen from an infinite set; that the traces exist is
proved.) There is one lemma per action, or per action and layer of the
invariant, and the theorems follow from the invariant.

**IoQueues.** Whether an exposed slot holds the right command depends on where
the consumer's head is, which depends on what the completion queue holds, which
depends on what the controller fetched. `IInv` says how the positions stand to
each other:

* `SqPositions`: measured from the head of the ring, the controller's head, the
  doorbell, the built commands and the tail come in this order, each at a
  distance given by the history counters, over the transient head included;
* `SqContents`: every built slot from the head on holds its command;
* `CqPositions`, `CqContents`: the tags agree with the expected phase exactly on
  the slots posted and not taken, which hold consecutive completions;
* `CplOrder`: every completion that has not yet advanced a head stands for one
  command fetched and not freed, in posting order; it is what makes the head
  advanced per completion a safe bound although completions are out of order;
* `Execution`: what was fetched and not completed is being executed.

`FullTest` of `NvmQueueProofs` reduces the unsigned full test to ring distance,
and the `Dist...` lemmas are the ring arithmetic.

What the data path promises its caller takes three more invariants, proved on
top of this one in `IoServiceProofs`:

* `Work`: `queues[0].counter` is the number of heads moved (or one less while
  the consumer is between the two), `posted` the number of completions, and
  `commands` the number of commands of the producers joined, each counted over
  all queues as the cardinality of a set. `transfer()` compares the two sums
  only; that no queue can have more freed than produced makes them equal queue
  by queue (`AllDone`);
* `Once`: the numbers of the commands in execution and of those posted and not
  taken are all different, and none is beyond what was fetched;
* `Lists`: a slot that is in use keeps its list in the page of its CID, and a
  controller that completes in order executes only commands of such slots.

`Implements` maps each step to one of the service or to a stutter: building a
command to `Queue`, `DevFetch` to `Start`, `DevComplete` to `Complete`,
`ConsumerDequeue` to `Reap`, `MainReturn` to `Return`, all others to nothing.

**AdminQueue.** Five layers, each proved with the help of those before it.
`CallInv`: types, who holds the lock; this one needs no agreement of sizes.
`ModeInv`: which states of the controller go with which step of `nvm_aq_create`,
and that the queues stay as `create_admin` left them until the reset is done.
`RingInv`: as long as no stale completion is in the window, commands are
enqueued, fetched, completed and read in this order, the positions of the ASQ
follow from the counts, and its slots hold the commands; the ACQ is used for one
lap only, as it is never acknowledged. `PromptInv`: before the first timeout
there is at most one command, that of the lock holder, either not yet fetched, or
in execution, or completed. `OnceInv`: the number of a call is not yet fetched, in
execution, posted or returned, and only one of these.

**ClusterRpc.** `MainPlaces` says which handles the server's main thread is
at. `SeenAlive` is the reason why no callback outlives its handle: an interrupt
number nobody was told has no visitors, and an interrupt that can be reached has
a handle that is allocated. `EntryAlive` and `ListPublished` relate the shared
entries to the list of handles. `Flow` and `Once` follow a request: it waits at
an interrupt, is in one callback, in a mailbox, or taken, and there at one place.
A mailbox has replies to requests that carried the number its owner has now
(`Addressed`), bound clients have different numbers (`Apart`), and a call that
has not returned is the one its client waits in, with the number it was sent with
(`Pending`, `Waiting`): so whoever finds the reply of such a call in its mailbox
is its sender. `Awaited` adds, until a call has given up waiting, that a request on its
way is the one its sender waits for.

**KernelModule.** `Always` holds whatever happens: what actors point to, whose
the device slots are, what is taken at each stage of loading and probing, that
the fields of a descriptor agree with its pages, that lists are sorted, hold
allocated descriptors and none twice, that a descriptor in the making is known to
its maker only, and that one half taken down is in no list and in no other hands
(`BuiltAlone`, `Stage`). `Quiet` holds until a race: an actor that works on a
reference is the only one that does, the reference and its device are what the
actor believes, and no descriptor is lost. It takes the place of a lock: tasks
are kept apart by `current->pid`, and devices by the places of the removal.

**LatencyBench.** `BarrierInv`: a thread is inside the barrier from its arrival
until the flag turns, whatever step of the loop it is at; `arrived` counts the
insiders, until the last one has reset it; all have passed equally often.
`QueueInv`: where no queue is shared, descriptors stay in their rings, doorbells
and tags agree with the positions (`Rings`), and the commands exposed, in
execution and completed are no more than what the thread still waits for, so
that the rebuilt PRP list is never one in use.
`Fits` gives the converse the full test needs.

`PlanRight` needs none of this. The transfers of every pattern have one layout
(`Layout`): queue `i` has its pages from `(i - 1) * W` on, in chunks of the
transfer limit, and only the last queue may have another number than `W`. Pages
apart, and filling the buffer from its start, follow from the layout; that the
unsigned difference `numBlocks - startBlock` does not wrap is needed for the
blocks only, and holds for the sequential pattern from block 0.

**DmaMapping.** Constructors are data that the model interprets, so the proof
has two halves. The first is a logic of what a call holds (`DmaMappingInv`).
`Rel` says of a list of releases that each is harmless for a call that holds
`S`, and that after each what is still held has what it rests on; `Frees` adds
that nothing is left but the known leaks. `StepOk` says it of one step: what it
takes is grounded, and if it fails its list frees all (or, where the call goes
on, leads to the step it goes on with). `Good(kind, built, S, steps, V)` takes a
sequence from `S` to `V`, and composes: the lemmas for `_nvm_dma_create`,
`_nvm_device_memory_get` and the like are used in each constructor that calls
them, with the release list of the caller behind their own. The result is
`IsTrace` for each of the 23 constructors and programs: a set of resources for
each of its steps. The known faults enter as `Known`, in the three places
`FaultsKnown` names, and nowhere else.

The second half is the invariant. `Following`: every object is at a step of its
trace and holds what the trace says, or is giving back and holds no more than
what its remaining releases and the known leaks are; what it holds it has tried
to take; its descriptor is computed from what was asked for. `Mapped`: a handle
that holds its pages is mapped by the module under its address, no two such
handles of an open file share an address, and a mapping without such a handle
was released by another thread than the opener. A release of one handle must not
take down the mapping of another, and the last close of a file must not come
while a handle has pages of it: the handle then holds a duplicate of the
descriptor, which `Backed` says of everything that has pages. `AddressesCover`
is then arithmetic: the page arithmetic at the end of the module does it for all
page sizes by division with remainder.

Only model-checked: the liveness properties `TransferEnds`, `RpcReturns` and
`BenchmarkEnds`, which are out of the prover's reach, and the properties of the
runs that expect a violation.

## 5. Not modelled

* Command-line parsing, printing, statistics, and the layout of commands, of
  identify data and of error texts: data no property tells apart.
* Admin commands other than queue creation and the transfer limit: they are one
  relayed command (`AdminQueue`) whose outcome the programs branch on.
* `mmap` of the device file in the kernel module, which keeps no state there.
* The signal handler of the rpc server (`rpc_server.c:61`), which takes a mutex
  the interrupted thread may hold.
* The GPU copy that `verify` of the benchmark makes, CUDA kernels.
* The simple-rdma benchmark: disabled in `CMakeLists.txt`, written against an
  earlier version of the library.
* `read_and_dump` has no actions of its own (see `IoQueues`).

## 6. State of the plan

The planned modules are written, every safety and action property of a passing
run is proved for all instances, and the liveness properties are checked on the
instances of section 3. Work that would extend the project: the parts section 5
names, and an abstract specification of the admin queues that `ClusterRpc` could
use in place of "completes" or "fails".
