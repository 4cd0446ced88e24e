----------------------------- MODULE VfsMounts ------------------------------
(***************************************************************************)
(* The mount table of the guest's file system:                             *)
(* pkg/runtime/kernel/vfs/ps4_vfs.c.  A guest path is a prefix and the rest *)
(* of the path; only the prefix matters here.                              *)
(***************************************************************************)
EXTENDS Naturals, Sequences, FiniteSets, FiniteSetsExt

CONSTANT MAX_VFS_MOUNTS
ASSUME VfsAssumption == MAX_VFS_MOUNTS \in Nat \ {0}

VARIABLE g_mounts  \* entries 1 .. g_mount_count: [prefix, host, active]

Raw == "raw"  \* the guest path itself, taken as a host path

\* The first entry in use for a prefix, 0 when there is none.
MountOf(prefix) == Min({i \in DOMAIN g_mounts : g_mounts[i].active /\ g_mounts[i].prefix = prefix} \cup {Len(g_mounts) + 1})
Mounted(prefix) == MountOf(prefix) <= Len(g_mounts)

ps4_vfs_init == g_mounts = <<>>

\* A prefix in use gets the new host path; a full table leaves it unmounted.
ps4_vfs_mount(prefix, host) ==
  g_mounts' = IF Mounted(prefix) THEN [g_mounts EXCEPT ![MountOf(prefix)].host = host]
              ELSE IF Len(g_mounts) >= MAX_VFS_MOUNTS THEN g_mounts
              ELSE Append(g_mounts, [prefix |-> prefix, host |-> host, active |-> TRUE])

\* The entries of the prefixes are no longer active, and not used again.
ps4_vfs_unmount(prefixes) ==
  g_mounts' = [i \in DOMAIN g_mounts |->
                 IF \E p \in prefixes : i = MountOf(p) THEN [g_mounts[i] EXCEPT !.active = FALSE] ELSE g_mounts[i]]

\* Mutant: an entry that was unmounted still counts.
resolve_inactive(prefix) ==
  LET at == {i \in DOMAIN g_mounts : g_mounts[i].prefix = prefix}
  IN  IF at = {} THEN Raw ELSE g_mounts[Min(at)].host
\* Where paths under a prefix go.
ps4_vfs_resolve(prefix) == IF Mounted(prefix) THEN g_mounts[MountOf(prefix)].host ELSE Raw
=============================================================================
