--------------------------- MODULE LibraryHandles ---------------------------
(***************************************************************************)
(* What the constructors of the library's handles take and in which order,  *)
(* what each gives back when a step fails, and what the release of a        *)
(* finished handle does (src/ctrl.c, src/dma.c, src/dis/dma.c, map.c,       *)
(* local.c, device.c).                                                      *)
(*                                                                          *)
(* A resource is named by the structure and the field that hold it.  Every  *)
(* C function is a sequence of steps, or of releases, put together from     *)
(* those of the functions it calls.  Unmapping calls that return            *)
(* SCI_ERR_BUSY are repeated until done.                                    *)
(***************************************************************************)
EXTENDS Naturals, Sequences

-----------------------------------------------------------------------------
(* Resources, steps and releases *)

R(struct, field)  == <<struct, field>>
Mem(struct)       == <<R(struct, "mem")>>

\* A step takes a resource, or just checks something (get = None).  If it fails, what is
\* in undo is released, and the call has failed (skip = 0) or goes on so many steps
\* further down.  A step may also release something (drop).
None              == <<"", "">>
Get(res, undo)    == <<[get |-> res, drop |-> <<>>, undo |-> undo, skip |-> 0]>>
Check(undo)       == Get(None, undo)
Drop(releases)    == <<[get |-> None, drop |-> releases, undo |-> <<>>, skip |-> 0]>>

\* Steps whose failure does not matter to what follows them
Optional(steps)   == [i \in 1..Len(steps) |-> [steps[i] EXCEPT !.skip = Len(steps) + 1 - i]]

\* Releases that need nothing to release: the mapped flag, the types of va_map and io_map
\* and the list of binding handles are looked at; munlock and SCITerminate do no harm
Conditional == {R("md", "pages"), R("md", "va"), R("md", "io"), R("ref", "va"),
                R("aq", "handles"), R("local", "locked"), R("var", "sisci")}

-----------------------------------------------------------------------------
(* src/dis/device.c, local.c, map.c *)

device_get(x, undo)        == Get(R(x, "sd"), undo) \o Get(R(x, "device"), <<R(x, "sd")>> \o undo)
device_put(x)              == <<R(x, "device"), R(x, "sd")>>
device_memory_get(x, undo) == device_get(x, undo) \o Get(R(x, "segment"), device_put(x) \o undo)
device_memory_put(x)       == <<R(x, "segment")>> \o device_put(x)

create_segment(undo) ==
    Get(R("seg", "sd"), undo) \o Get(R("seg", "segment"), <<R("seg", "sd")>> \o undo)

\* The descriptor that was opened for the segment is not closed.
local_memory_put == <<R("seg", "segment")>>

local_memory_get_attached(undo) == create_segment(undo) \o Check(local_memory_put \o undo)

va_map(x, undo)           == Get(R(x, "va"), undo)
io_map_remote(undo)       == Get(R("md", "io"), undo)
io_map_local(undo)        == Check(undo) \o Get(R("md", "io"), undo)
io_map_local_memory(undo) == Check(undo) \o io_map_local(undo)
va_unmap(x)               == <<R(x, "va")>>
io_unmap                  == <<R("md", "io")>>
unmap_both                == va_unmap("md") \o io_unmap

-----------------------------------------------------------------------------
(* src/ctrl.c *)

\* The device reference is taken a second time with the memory, and the first one put.
connect_register_memory(undo) ==
    Get(R("ref", "mem"), undo)
    \o device_memory_get("ref", Mem("ref") \o undo)
    \o va_map("ref", device_memory_put("ref") \o Mem("ref") \o undo)

disconnect_register_memory == va_unmap("ref") \o device_memory_put("ref") \o Mem("ref")

create_container(undo)  == Get(R("ctrl", "mem"), undo)
initialize_handle(undo) == Check(undo)      \* BAR too small, page sizes do not match

nvm_raw_ctrl_init == create_container(<<>>) \o initialize_handle(Mem("ctrl"))

\* Mutant: the reference taken to find the device is kept.
nvm_dis_ctrl_init_KeepsRef ==
    create_container(<<>>)
    \o device_get("dev", Mem("ctrl"))
    \o connect_register_memory(device_put("dev") \o Mem("ctrl"))
    \o initialize_handle(disconnect_register_memory \o Mem("ctrl"))

nvm_dis_ctrl_init ==
    create_container(<<>>)
    \o device_get("dev", Mem("ctrl"))
    \o connect_register_memory(device_put("dev") \o Mem("ctrl"))
    \o Drop(device_put("dev"))
    \o initialize_handle(disconnect_register_memory \o Mem("ctrl"))

nvm_ctrl_init ==
    Get(R("ctrl", "fd"), <<>>)
    \o Check(<<R("ctrl", "fd")>>)
    \o Get(R("ctrl", "mmap"), <<>>)
    \o create_container(<<R("ctrl", "mmap"), R("ctrl", "fd")>>)
    \o initialize_handle(<<R("ctrl", "mmap"), R("ctrl", "mem"), R("ctrl", "fd")>>)

nvm_ctrl_free(kind) ==
    CASE kind = "raw"    -> Mem("ctrl")
      [] kind = "sysfs"  -> <<R("ctrl", "mmap"), R("ctrl", "fd")>> \o Mem("ctrl")
      [] kind = "smartio" -> disconnect_register_memory \o Mem("ctrl")

-----------------------------------------------------------------------------
(* src/dma.c *)

_nvm_dma_create(undo)    == Get(R("dma", "mem"), undo)
_nvm_dma_remove(release) == release \o Mem("dma")

nvm_dma_map == Get(R("md", "mem"), <<>>) \o _nvm_dma_create(Mem("md"))

\* Mutant: the controller's own descriptor is used.
create_mapping_NoDup == Get(R("md", "mem"), <<>>)

create_mapping == Get(R("md", "mem"), <<>>) \o Get(R("md", "fd"), Mem("md"))

remove_mapping == <<R("md", "pages"), R("md", "fd")>> \o Mem("md")

populate_handle(undo) ==
    Get(R("tmp", "mem"), undo) \o Get(R("md", "pages"), Mem("tmp") \o undo) \o Drop(Mem("tmp"))

\* nvm_dma_map_host and nvm_dma_map_device
nvm_dma_map_host ==
    create_mapping
    \o _nvm_dma_create(remove_mapping)
    \o populate_handle(_nvm_dma_remove(remove_mapping) \o remove_mapping)

-----------------------------------------------------------------------------
(* src/dis/dma.c *)

create_map_descriptor == Get(R("md", "mem"), <<>>) \o device_get("md", Mem("md"))
remove_map_descriptor == unmap_both \o device_put("md") \o Mem("md")

nvm_dis_dma_map_local(map_va) ==
    create_map_descriptor
    \o io_map_local(remove_map_descriptor)
    \o (IF map_va THEN va_map("md", remove_map_descriptor) ELSE <<>>)
    \o _nvm_dma_create(remove_map_descriptor)

nvm_dis_dma_map_remote(map_va) ==
    create_map_descriptor
    \o io_map_remote(remove_map_descriptor)
    \o (IF map_va THEN va_map("md", remove_map_descriptor) ELSE <<>>)
    \o _nvm_dma_create(remove_map_descriptor)

\* Mutant: the segment is removed while it is mapped.
remove_local_segment_PutFirst ==
    local_memory_put \o Mem("seg") \o unmap_both \o device_put("md") \o Mem("md")

remove_local_segment ==
    unmap_both \o local_memory_put \o Mem("seg") \o device_put("md") \o Mem("md")

\* Mutant: a failure frees the descriptor that the caller removes too.
create_local_segment_FreesMd(attach, undo) ==
    Get(R("seg", "mem"), remove_map_descriptor \o undo)
    \o IF attach THEN local_memory_get_attached(Mem("seg") \o undo)
                 ELSE create_segment(Mem("seg") \o undo)

create_local_segment(attach, undo) ==
    Get(R("seg", "mem"), undo)
    \o IF attach THEN local_memory_get_attached(Mem("seg") \o undo)
                 ELSE create_segment(Mem("seg") \o undo)

nvm_dis_dma_create ==
    create_map_descriptor
    \o create_local_segment(FALSE, remove_map_descriptor)
    \o io_map_local_memory(remove_local_segment)
    \o va_map("md", remove_local_segment)
    \o _nvm_dma_create(remove_local_segment)

nvm_dis_dma_map_device ==
    create_map_descriptor
    \o create_local_segment(TRUE, remove_map_descriptor)
    \o io_map_local_memory(remove_local_segment)
    \o _nvm_dma_create(remove_local_segment)

connect_remote_segment(undo) ==
    Get(R("seg", "mem"), undo) \o device_memory_get("seg", Mem("seg") \o undo)

disconnect_remote_segment ==
    unmap_both \o device_memory_put("seg") \o Mem("seg") \o device_put("md") \o Mem("md")

nvm_dis_dma_connect ==
    create_map_descriptor
    \o connect_remote_segment(remove_map_descriptor)
    \o io_map_remote(disconnect_remote_segment)
    \o va_map("md", disconnect_remote_segment)
    \o _nvm_dma_create(disconnect_remote_segment)

=============================================================================
