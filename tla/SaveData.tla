------------------------------ MODULE SaveData ------------------------------
(***************************************************************************)
(* Save data: pkg/runtime/modules/libSceSaveData/ps4_savedata.c.           *)
(*                                                                         *)
(* Every call holds g_savedata_mutex, so calls do not interleave; but the  *)
(* process may end between two writes of one call, and what is on disk     *)
(* then is what the next process finds.  A file opened for writing is      *)
(* empty until it is closed.  A save is a directory of one user with its   *)
(* parameters in param.sfo and again in param.bin; save data memory is a   *)
(* cache per slot over the file memory.dat of a user.                      *)
(***************************************************************************)
EXTENDS VfsMounts

CONSTANTS SaveDirs,     \* saves: a user and a directory name each
          SaveValues,   \* contents of the parameters and of memory.dat
          SaveUsers,
          SD_MAX_MOUNTS,
          SaveMounts,   \* bound: successful mounts of one process
          SaveCrashes   \* bound: processes that ended in the middle

ASSUME SaveAssumption == SD_MAX_MOUNTS \in Nat \ {0} /\ {SaveMounts, SaveCrashes} \subseteq Nat

VARIABLES sd_init,   \* g_savedata_initialized
          sd_mounts, \* g_sd_mounts: the save in each slot
          sd_files,  \* on disk: param.sfo and param.bin of every save
          sd_mem,    \* the save data memory slot 0: [user, cache, dirty]
          mem_file,  \* on disk: memory.dat of every user
          mem_tmp,   \* and memory.dat.tmp
          sd_call,   \* the call that has written only in part
          sd_said,   \* what the guest was last told is stored: [param, mem]
          sd_count   \* [mounts, crashes]

save_vars == <<sd_init, sd_mounts, sd_files, sd_mem, mem_file, mem_tmp, sd_call, sd_said, sd_count, g_mounts>>
on_disk == <<sd_files, mem_file, mem_tmp>>

Missing == "missing"
Empty == "empty"
Default == "default"  \* what is stored in a save just created; all zero when nothing loads
NoSave == "none"
MountSlots == 0..SD_MAX_MOUNTS - 1
NoCallNow == [at |-> "idle", dir |-> NoSave, val |-> Default, mount |-> FALSE]
NoMem == [user |-> NoSave, cache |-> Missing, dirty |-> FALSE]

\* What a new process starts with.
Fresh ==
  /\ sd_init' = FALSE /\ sd_mounts' = [i \in MountSlots |-> NoSave] /\ sd_mem' = NoMem
  /\ sd_call' = NoCallNow /\ g_mounts' = <<>>

SaveInit ==
  /\ ps4_vfs_init
  /\ sd_init = FALSE /\ sd_mounts = [i \in MountSlots |-> NoSave] /\ sd_mem = NoMem /\ sd_call = NoCallNow
  /\ sd_files = [d \in SaveDirs |-> [sfo |-> Missing, bin |-> Missing]]
  /\ mem_file = [u \in SaveUsers |-> Missing] /\ mem_tmp = [u \in SaveUsers |-> Missing]
  /\ sd_said = [param |-> [d \in SaveDirs |-> Default], mem |-> [u \in SaveUsers |-> Missing]]
  /\ sd_count = [mounts |-> 0, crashes |-> 0]

SaveIdle == sd_call.at = "idle"
sd_save_exists(d) == sd_files[d].sfo # Missing \/ sd_files[d].bin # Missing
\* An empty param.sfo does not load and param.bin is read instead.
sd_load_param(d) ==
  IF sd_files[d].sfo \notin {Missing, Empty} THEN sd_files[d].sfo
  ELSE IF sd_files[d].bin \notin {Missing, Empty} THEN sd_files[d].bin
  ELSE Default

sceSaveDataInitialize ==
  /\ SaveIdle /\ sd_init' = TRUE
  /\ UNCHANGED <<sd_mounts, sd_mem, sd_call, sd_said, sd_count, g_mounts>> /\ UNCHANGED on_disk

\* Unmounts everything and drops the memory slots, synced or not.
sceSaveDataTerminate ==
  /\ SaveIdle /\ sd_init' = FALSE
  /\ sd_mounts' = [i \in MountSlots |-> NoSave] /\ sd_mem' = NoMem
  /\ ps4_vfs_unmount({i \in MountSlots : sd_mounts[i] # NoSave})
  /\ UNCHANGED <<sd_call, sd_said, sd_count>> /\ UNCHANGED on_disk

-----------------------------------------------------------------------------
(* sd_store_param: param.sfo, then param.bin, each emptied and written     *)

sd_store_param(d, v, mount) == sd_call' = [at |-> "sfo", dir |-> d, val |-> v, mount |-> mount]

sd_write_sfo ==
  /\ \/ sd_call.at = "sfo" /\ sd_call' = [sd_call EXCEPT !.at = "sfo_open"]
        /\ sd_files' = [sd_files EXCEPT ![sd_call.dir].sfo = Empty]
     \/ sd_call.at = "sfo_open" /\ sd_call' = [sd_call EXCEPT !.at = "bin"]
        /\ sd_files' = [sd_files EXCEPT ![sd_call.dir].sfo = sd_call.val]
  /\ UNCHANGED <<sd_init, sd_mounts, sd_mem, mem_file, mem_tmp, sd_said, sd_count, g_mounts>>
write_bin ==
  /\ \/ sd_call.at = "bin" /\ sd_call' = [sd_call EXCEPT !.at = "bin_open"]
        /\ sd_files' = [sd_files EXCEPT ![sd_call.dir].bin = Empty]
     \/ sd_call.at = "bin_open" /\ sd_call' = [sd_call EXCEPT !.at = "stored"]
        /\ sd_files' = [sd_files EXCEPT ![sd_call.dir].bin = sd_call.val]
  /\ UNCHANGED <<sd_init, sd_mounts, sd_mem, mem_file, mem_tmp, sd_said, sd_count, g_mounts>>

-----------------------------------------------------------------------------
(* Saves                                                                   *)

MountedAt(d) == {i \in MountSlots : sd_mounts[i] = d}
FreeMounts == {i \in MountSlots : sd_mounts[i] = NoSave}

\* The first free slot gets the save, and the guest its mount point.
take_mount_slot(d) ==
  LET i == Min(FreeMounts)
  IN  /\ FreeMounts # {}
      /\ sd_mounts' = [sd_mounts EXCEPT ![i] = d]
      /\ ps4_vfs_mount(i, d)
      /\ sd_count' = [sd_count EXCEPT !.mounts = @ + 1]

\* sd_mount_internal: a save that exists is mounted unless the mode is only
\* to create, one that does not is created first if the mode allows it.
sd_mount_internal(d) ==
  /\ SaveIdle /\ sd_init /\ MountedAt(d) = {} /\ sd_count.mounts < SaveMounts
  /\ \/ sd_save_exists(d) /\ take_mount_slot(d) /\ UNCHANGED sd_call
     \/ ~sd_save_exists(d) /\ sd_store_param(d, Default, TRUE) /\ UNCHANGED <<sd_mounts, g_mounts, sd_count>>
  /\ UNCHANGED <<sd_init, sd_mem, sd_said>> /\ UNCHANGED on_disk
mount_created ==
  /\ sd_call.at = "stored" /\ sd_call.mount /\ sd_call' = NoCallNow
  /\ IF FreeMounts # {} THEN take_mount_slot(sd_call.dir) ELSE UNCHANGED <<sd_mounts, g_mounts, sd_count>>
  /\ sd_said' = [sd_said EXCEPT !.param[sd_call.dir] = Default]
  /\ UNCHANGED <<sd_init, sd_mem>> /\ UNCHANGED on_disk

sceSaveDataUmount(d) ==
  /\ SaveIdle /\ MountedAt(d) # {}
  /\ sd_mounts' = [i \in MountSlots |-> IF i \in MountedAt(d) THEN NoSave ELSE sd_mounts[i]]
  /\ ps4_vfs_unmount(MountedAt(d))
  /\ UNCHANGED <<sd_init, sd_mem, sd_call, sd_said, sd_count>> /\ UNCHANGED on_disk

\* All parameters, or one of them set in what loads, are stored.
sceSaveDataSetParam(d, v) ==
  /\ SaveIdle /\ MountedAt(d) # {} /\ sd_store_param(d, v, FALSE)
  /\ UNCHANGED <<sd_init, sd_mounts, sd_mem, sd_said, sd_count, g_mounts>> /\ UNCHANGED on_disk
param_stored ==
  /\ sd_call.at = "stored" /\ ~sd_call.mount /\ sd_call' = NoCallNow
  /\ sd_said' = [sd_said EXCEPT !.param[sd_call.dir] = sd_call.val]
  /\ UNCHANGED <<sd_init, sd_mounts, sd_mem, sd_count, g_mounts>> /\ UNCHANGED on_disk

\* nftw removes the files one by one, in any order.
sceSaveDataDelete(d) ==
  /\ SaveIdle /\ MountedAt(d) = {} /\ sd_save_exists(d)
  /\ sd_call' = [NoCallNow EXCEPT !.at = "delete", !.dir = d]
  /\ sd_said' = [sd_said EXCEPT !.param[d] = Default]
  /\ UNCHANGED <<sd_init, sd_mounts, sd_mem, sd_count, g_mounts>> /\ UNCHANGED on_disk
sd_rm_cb ==
  /\ sd_call.at = "delete"
  /\ \/ \E f \in {"sfo", "bin"} : sd_files[sd_call.dir][f] # Missing
          /\ sd_files' = [sd_files EXCEPT ![sd_call.dir][f] = Missing] /\ UNCHANGED sd_call
     \/ ~sd_save_exists(sd_call.dir) /\ sd_call' = NoCallNow /\ UNCHANGED sd_files
  /\ UNCHANGED <<sd_init, sd_mounts, sd_mem, mem_file, mem_tmp, sd_said, sd_count, g_mounts>>

-----------------------------------------------------------------------------
(* Save data memory                                                        *)

\* The slot is the user's from now on: what memory.dat has, or zeros.
sceSaveDataSetupSaveDataMemory2(u) ==
  /\ SaveIdle /\ sd_init
  /\ sd_mem' = [user |-> u, cache |-> IF mem_file[u] = Missing THEN Default ELSE mem_file[u], dirty |-> FALSE]
  /\ UNCHANGED <<sd_init, sd_mounts, sd_call, sd_said, sd_count, g_mounts>> /\ UNCHANGED on_disk
save_data_memory_write(v) ==
  /\ SaveIdle /\ sd_mem.cache # Missing
  /\ sd_mem' = [sd_mem EXCEPT !.cache = v, !.dirty = TRUE]
  /\ UNCHANGED <<sd_init, sd_mounts, sd_call, sd_said, sd_count, g_mounts>> /\ UNCHANGED on_disk

\* Mutant: memory.dat is written in place.
sync_in_place ==
  /\ \/ SaveIdle /\ sd_init /\ sd_mem.cache # Missing /\ sd_call' = [NoCallNow EXCEPT !.at = "tmp"]
        /\ mem_file' = [mem_file EXCEPT ![sd_mem.user] = Empty] /\ UNCHANGED <<sd_mem, sd_said>>
     \/ sd_call.at = "tmp" /\ sd_call' = NoCallNow
        /\ mem_file' = [mem_file EXCEPT ![sd_mem.user] = sd_mem.cache]
        /\ sd_mem' = [sd_mem EXCEPT !.dirty = FALSE]
        /\ sd_said' = [sd_said EXCEPT !.mem[sd_mem.user] = sd_mem.cache]
  /\ UNCHANGED <<sd_init, sd_mounts, sd_files, mem_tmp, sd_count, g_mounts>>

\* The cache goes to memory.dat.tmp, which then takes memory.dat's place; a
\* write that fails part of the way leaves the file as it was.
sceSaveDataSyncSaveDataMemory ==
  /\ \/ SaveIdle /\ sd_init /\ sd_mem.cache # Missing /\ sd_call' = [NoCallNow EXCEPT !.at = "tmp"]
        /\ mem_tmp' = [mem_tmp EXCEPT ![sd_mem.user] = Empty] /\ UNCHANGED <<sd_mem, sd_said, mem_file>>
     \/ sd_call.at = "tmp" /\ sd_call' = [sd_call EXCEPT !.at = "rename"]
        /\ mem_tmp' = [mem_tmp EXCEPT ![sd_mem.user] = sd_mem.cache] /\ UNCHANGED <<sd_mem, sd_said, mem_file>>
     \/ sd_call.at = "tmp" /\ sd_call' = NoCallNow
        /\ mem_tmp' = [mem_tmp EXCEPT ![sd_mem.user] = Missing] /\ UNCHANGED <<sd_mem, sd_said, mem_file>>
     \/ sd_call.at = "rename" /\ sd_call' = NoCallNow
        /\ mem_file' = [mem_file EXCEPT ![sd_mem.user] = mem_tmp[sd_mem.user]]
        /\ mem_tmp' = [mem_tmp EXCEPT ![sd_mem.user] = Missing]
        /\ sd_mem' = [sd_mem EXCEPT !.dirty = FALSE]
        /\ sd_said' = [sd_said EXCEPT !.mem[sd_mem.user] = sd_mem.cache]
  /\ UNCHANGED <<sd_init, sd_mounts, sd_files, sd_count, g_mounts>>

\* The process ends and another starts.
SaveCrash ==
  /\ sd_count.crashes < SaveCrashes /\ Fresh
  /\ sd_count' = [mounts |-> 0, crashes |-> sd_count.crashes + 1]
  /\ sd_said' = IF sd_call.dir = NoSave THEN sd_said
                ELSE [sd_said EXCEPT !.param[sd_call.dir] = sd_load_param(sd_call.dir)]
  /\ UNCHANGED on_disk

\* Saves and save data memory share only the process: each part by itself.
SaveDirsNext ==
  \/ sceSaveDataInitialize \/ sceSaveDataTerminate \/ sd_write_sfo \/ write_bin \/ mount_created \/ param_stored
  \/ sd_rm_cb \/ SaveCrash
  \/ \E d \in SaveDirs : sd_mount_internal(d) \/ sceSaveDataUmount(d) \/ sceSaveDataDelete(d)
  \/ \E d \in SaveDirs, v \in SaveValues : sceSaveDataSetParam(d, v)
SaveMemNext ==
  \/ sceSaveDataInitialize \/ sceSaveDataTerminate \/ sceSaveDataSyncSaveDataMemory \/ SaveCrash
  \/ \E v \in SaveValues : save_data_memory_write(v)
  \/ \E u \in SaveUsers : sceSaveDataSetupSaveDataMemory2(u)

-----------------------------------------------------------------------------
\* Whatever call a process ends in, the parameters of a save that load are the
\* ones last stored, or those being stored, and memory.dat is what the last
\* sync that returned wrote.  It is so for the first process that ends in a
\* call: one ending with param.bin empty and the next with param.sfo empty
\* leave nothing that loads.
SaveDurable ==
  /\ \A d \in SaveDirs :
       \/ sd_load_param(d) = sd_said.param[d]
       \/ sd_call.dir = d /\ (sd_load_param(d) = sd_call.val \/ sd_call.at = "delete" \/ sd_count.crashes = SaveCrashes)
  /\ \A u \in SaveUsers : mem_file[u] = sd_said.mem[u]
  /\ sd_mem.cache # Missing /\ ~sd_mem.dirty => mem_file[sd_mem.user] \in {sd_mem.cache, Missing}

\* A save is in one slot at most, and what the guest writes under a mount point
\* it was given goes to the save it mounted.
MountsResolve ==
  /\ \A d \in SaveDirs : Cardinality(MountedAt(d)) <= 1
  /\ \A i \in MountSlots : sd_mounts[i] # NoSave => ps4_vfs_resolve(i) = sd_mounts[i]
=============================================================================
