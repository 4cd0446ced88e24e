------------------------------ MODULE PakFiles ------------------------------
(***************************************************************************)
(* Files of the guest's file system: the archives of                       *)
(* pkg/runtime/kernel/vfs/ps4_pak.c and the descriptors of ps4_vfs.c.      *)
(*                                                                         *)
(* A name is a number; its hash is PakHash of it, and PakParent of it is   *)
(* the name with one locale less (0 for none), as for x_en_US.res.  A file *)
(* has PakSize bytes, its contents are told apart by the archive it is in. *)
(***************************************************************************)
EXTENDS Naturals, Sequences, SequencesExt, FiniteSets, FiniteSetsExt

CONSTANTS PakNames, PakHash, PakParent,
          PakIndex,          \* the files of each archive, in the order of its index
          PakSize,
          PAK_CAPACITY,      \* first size of the hash table (65536)
          MAX_VIRTUAL_FILES,
          PakReads           \* bound: bytes read, seeked over by the guest

ASSUME PakAssumption == {PAK_CAPACITY, MAX_VIRTUAL_FILES} \subseteq Nat \ {0} /\ PakNames \subseteq Nat \ {0}

VARIABLES paktab,    \* g_entries: [cap, count, at]; at[i] is a <<name, archive>>
          pak_left,  \* archives ps4_pak_init has still to read
          pak_last,  \* the archive that last gave each name, 0 for none
          vdisk,     \* names that are files on the disk
          g_vfiles,  \* the slots
          vheld      \* descriptors the guest has open: the file and the bytes it has read

pak_vars == <<paktab, pak_left, pak_last, vdisk, g_vfiles, vheld>>
NoEntry == <<0, 0>>
NoFile == [active |-> FALSE, file |-> NoEntry, cur |-> 0]
Vfds == 0..MAX_VIRTUAL_FILES - 1

PakInit ==
  /\ paktab = [cap |-> 0, count |-> 0, at |-> <<>>] /\ pak_left = PakIndex
  /\ pak_last = [n \in PakNames |-> 0] /\ vdisk \in SUBSET PakNames
  /\ g_vfiles = [v \in Vfds |-> NoFile] /\ vheld = [v \in Vfds |-> NoFile]

-----------------------------------------------------------------------------
(* The hash table: open addressing, at most half full                      *)

\* Slots from the hash's own on, around the table.
Probe(h, cap, k) == (h + k) % cap
\* Where probing for a name ends: at it, or at an empty slot.
ProbeEnd(at, cap, n) ==
  LET h == PakHash[n]
      k == Min({j \in 0..cap - 1 : at[Probe(h, cap, j)] = NoEntry \/ at[Probe(h, cap, j)][1] = n})
  IN  Probe(h, cap, k)

\* Mutant: entries go to their own slot, taken or not.
rehash_unprobed(tab) ==
  LET cap == IF tab.cap = 0 THEN PAK_CAPACITY ELSE 2 * tab.cap
      old == {i \in DOMAIN tab.at : tab.at[i] # NoEntry}
  IN  [tab EXCEPT !.cap = cap,
         !.at = FoldSet(LAMBDA i, at : [at EXCEPT ![PakHash[tab.at[i][1]] % cap] = tab.at[i]],
                        [i \in 0..cap - 1 |-> NoEntry], old)]
\* Twice the size, every entry where probing finds it.
rehash(tab) ==
  LET cap == IF tab.cap = 0 THEN PAK_CAPACITY ELSE 2 * tab.cap
      old == SetToSortSeq({i \in DOMAIN tab.at : tab.at[i] # NoEntry}, LAMBDA i, j : i < j)
  IN  [tab EXCEPT !.cap = cap,
         !.at = FoldLeft(LAMBDA at, i : [at EXCEPT ![ProbeEnd(at, cap, tab.at[i][1])] = tab.at[i]],
                         [i \in 0..cap - 1 |-> NoEntry], old)]
hash_table_insert_file(tab, n, pak) ==
  LET t == IF 2 * tab.count >= tab.cap THEN rehash(tab) ELSE tab
      i == ProbeEnd(t.at, t.cap, n)
  IN  [t EXCEPT !.at[i] = <<n, pak>>, !.count = @ + (IF t.at[i] = NoEntry THEN 1 ELSE 0)]

\* ps4_pak_init reads one archive after the other; a broken index ends it
\* early, and what was read of it stays.
parse_pak_file ==
  /\ pak_left # <<>>
  /\ \E k \in 0..Len(Head(pak_left)) :
       LET pak == Len(PakIndex) - Len(pak_left) + 1
           read == SubSeq(Head(pak_left), 1, k)
       IN  /\ paktab' = FoldLeft(LAMBDA tab, n : hash_table_insert_file(tab, n, pak), paktab, read)
           /\ pak_last' = [n \in PakNames |-> IF n \in ToSet(read) THEN pak ELSE pak_last[n]]
  /\ pak_left' = Tail(pak_left)
  /\ UNCHANGED <<vdisk, g_vfiles, vheld>>

\* A name and the names of its parent locales, nearest first.
Chain[n \in PakNames \cup {0}] == IF n = 0 THEN <<>> ELSE <<n>> \o Chain[PakParent[n]]

\* The entry of a name or of the nearest parent that has one.
PakHas(n) == paktab.count > 0 /\ paktab.at[ProbeEnd(paktab.at, paktab.cap, n)] # NoEntry
ps4_pak_lookup(n) ==
  LET found == SelectSeq(Chain[n], PakHas)
  IN  IF found = <<>> THEN NoEntry ELSE paktab.at[ProbeEnd(paktab.at, paktab.cap, Head(found))]

-----------------------------------------------------------------------------
(* Descriptors                                                             *)

\* The disk, the disk for the parents, and then the archives.  Init is over
\* before the guest runs.
OnDisk(n) == SelectSeq(Chain[n], LAMBDA c : c \in vdisk)
ps4_vfs_open(n) ==
  LET free == {v \in Vfds : ~g_vfiles[v].active}
      file == [active |-> TRUE, file |-> ps4_pak_lookup(n), cur |-> 0]
  IN  /\ pak_left = <<>> /\ OnDisk(n) = <<>> /\ ps4_pak_lookup(n) # NoEntry /\ free # {}
      /\ g_vfiles' = [g_vfiles EXCEPT ![Min(free)] = file]
      /\ vheld' = [vheld EXCEPT ![Min(free)] = [file EXCEPT !.file = <<Head(SelectSeq(Chain[n], LAMBDA c : pak_last[c] # 0)), @[2]>>]]
      /\ UNCHANGED <<paktab, pak_left, pak_last, vdisk>>
ps4_vfs_close(v) ==
  /\ vheld[v].active
  /\ g_vfiles' = [g_vfiles EXCEPT ![v].active = FALSE] /\ vheld' = [vheld EXCEPT ![v] = NoFile]
  /\ UNCHANGED <<paktab, pak_left, pak_last, vdisk>>

\* As much as is left, or less when the host's read ends early.
ps4_vfs_read(v, count) ==
  LET left == IF g_vfiles[v].cur >= PakSize THEN 0 ELSE PakSize - g_vfiles[v].cur
  IN  /\ vheld[v].active
      /\ \E got \in {Min({count, left})} \cup (IF left > 0 THEN {0} ELSE {}) :
           /\ g_vfiles' = [g_vfiles EXCEPT ![v].cur = @ + got]
           /\ vheld' = [vheld EXCEPT ![v].cur = @ + got]
      /\ UNCHANGED <<paktab, pak_left, pak_last, vdisk>>
\* To an absolute offset, also beyond the end.
ps4_vfs_lseek(v, off) ==
  /\ vheld[v].active
  /\ g_vfiles' = [g_vfiles EXCEPT ![v].cur = off] /\ vheld' = [vheld EXCEPT ![v].cur = off]
  /\ UNCHANGED <<paktab, pak_left, pak_last, vdisk>>

PakNext ==
  \/ parse_pak_file
  \/ \E n \in PakNames : ps4_vfs_open(n)
  \/ \E v \in Vfds : ps4_vfs_close(v) \/ (\E k \in 1..PakReads : ps4_vfs_read(v, k) \/ ps4_vfs_lseek(v, k))

-----------------------------------------------------------------------------
\* Every name an archive gave is found, in the last archive that gave it,
\* however the table grew and whatever collided; the table keeps an empty slot
\* so that probing for a name it lacks ends; and a descriptor the guest holds
\* is that file, read from where the guest left off.
PakFindsLatest ==
  /\ \A n \in PakNames : pak_last[n] # 0 => PakHas(n) /\ paktab.at[ProbeEnd(paktab.at, paktab.cap, n)] = <<n, pak_last[n]>>
  /\ paktab.cap > 0 => \E i \in DOMAIN paktab.at : paktab.at[i] = NoEntry
  /\ \A v \in Vfds : vheld[v].active => g_vfiles[v] = vheld[v]
=============================================================================
