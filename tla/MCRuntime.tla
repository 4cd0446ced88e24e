----------------------------- MODULE MCRuntime ------------------------------
(***************************************************************************)
(* The components of the runtime that share no state with one another, on  *)
(* small instances: a behaviour is one of the component focus names.       *)
(***************************************************************************)
EXTENDS Threading, Semaphores, EventFlag, EventQueue, Aio, GuestMemory, SyncObjects,
        GnmLedgers, SaveData, PakFiles

CONSTANT Foci
VARIABLE focus

vars == <<focus, thread_vars, sem_vars, ksem_vars, evf_vars, eq_vars, aio_vars, dm_vars, obj_vars,
          once_vars, pw_vars, gm_vars, save_vars, pak_vars>>

\* x_en_US.res, x_en.res and x.res; another name with the hash of x_en.res's slot.
Hash == <<1, 9, 3, 2>>
Parent == <<0, 1, 2, 0>>
Index == << <<1, 2, 3>>, <<4, 2>>, <<3, 1>> >>
Windows == {<<0, 1>>, <<0, 3>>}
Ranges == {<<0, 1>>, <<1, 2>>, <<0, 4>>}
Searches == {<<0, 4>>, <<1, 4>>}

Init ==
  /\ focus \in Foci
  /\ ThreadInit /\ SemInit /\ KsemInit /\ EvfInit /\ EqInit /\ AioInit /\ DmInit /\ ObjInit
  /\ OnceInit /\ PwInit /\ GmInit /\ SaveInit /\ PakInit
  /\ focus # "paks" => vdisk = {}

Next ==
  /\ UNCHANGED focus
  /\ IF focus = "threads" THEN ThreadNext ELSE UNCHANGED thread_vars
  /\ IF focus = "posix_sem" THEN SemNext ELSE UNCHANGED sem_vars
  /\ IF focus = "kernel_sema" THEN KsemNext ELSE UNCHANGED ksem_vars
  /\ IF focus = "event_flag" THEN EvfNext ELSE UNCHANGED evf_vars
  /\ IF focus = "equeue" THEN EqNext ELSE UNCHANGED eq_vars
  /\ IF focus = "aio" THEN AioNext ELSE UNCHANGED aio_vars
  /\ CASE focus = "memory" -> DmNext({3}) [] focus = "blocks" -> DmBlockNext(1..3) [] OTHER -> UNCHANGED dm_vars
  /\ IF focus = "sync_objects" THEN ObjNext ELSE UNCHANGED obj_vars
  /\ IF focus = "once" THEN OnceNext ELSE UNCHANGED once_vars
  /\ IF focus = "pending_writes" THEN PwNext ELSE UNCHANGED pw_vars
  /\ CASE focus = "windows" -> GmWindowNext [] focus = "textures" -> GmTextureNext [] OTHER -> UNCHANGED gm_vars
  /\ CASE focus = "saves" -> SaveDirsNext [] focus = "save_memory" -> SaveMemNext [] OTHER -> UNCHANGED save_vars
  /\ IF focus = "paks" THEN PakNext ELSE UNCHANGED pak_vars

Spec == Init /\ [][Next]_vars

-----------------------------------------------------------------------------
(* A component that the behaviour is not about does not move, and its      *)
(* property is not evaluated again.                                        *)

(* Nobody sleeps on a semaphore, an event flag or an event queue of the    *)
(* kernel while what it waits for is there: a post, a signal, a matching   *)
(* pattern, a cancel, a delete or an event wakes it in time; nobody polls  *)
(* for an AIO id that no submit is serving; and what a once control or a   *)
(* guard protects is initialized once, while somebody who waits for it has *)
(* a thread that makes it.                                                 *)
WaitersServed ==
  /\ focus = "posix_sem" => SemNoLostPost
  /\ focus = "kernel_sema" => KsemWaitersServed
  /\ focus = "event_flag" => EvfWaitersServed
  /\ focus = "equeue" => EqNoLostEvent
  /\ focus = "aio" => AioInProgress
  /\ focus = "once" => InitializedOnce

(* The bookkeeping of memory is exact: the extents of the guest window and *)
(* the blocks of direct memory tile them, the mappings of direct memory    *)
(* are the aliases the host has, the size that AvailableDirectMemorySize   *)
(* answers can be allocated, and one variable never gets two objects of    *)
(* the synchronization arena, nor one that is another's.                   *)
MemoryExact ==
  /\ focus \in {"memory", "blocks"} => ExtentsUniform /\ BlocksSound /\ AliasesExact /\ AvailableAllocates
  /\ focus = "sync_objects" => OneObjectPerHandle

(* Records say what happened: an event queue's ring holds the posted and   *)
(* not yet taken events in order, an index's answer about pending GPU      *)
(* writes is that of a scan of all of them, the windows and the budget     *)
(* count exactly what is cached, and the table of archived files finds one *)
(* in the archive loaded last.                                             *)
RecordsExact ==
  /\ focus = "equeue" => EqRingIsQueue
  /\ focus = "pending_writes" => AnswersAreTheScans
  /\ focus \in {"windows", "textures"} => AccountsExact
  /\ focus = "paks" => PakFindsLatest

(* Storage: what a save call answered survives a crash, and a mounted save *)
(* is reached through its mount point.                                     *)
StorageKept == focus \in {"saves", "save_memory"} => SaveDurable /\ MountsResolve

=============================================================================
