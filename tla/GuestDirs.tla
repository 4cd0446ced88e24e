----------------------------- MODULE GuestDirs ------------------------------
(***************************************************************************)
(* Directory enumeration (guest_getdirentries in ps4_syscalls.c): the      *)
(* listing of a directory is snapshotted per descriptor and given out in   *)
(* pieces; the snapshot goes when the descriptor is closed.  Calls hold    *)
(* g_dir_cache_lock; a close drops the snapshot and then closes.           *)
(***************************************************************************)
EXTENDS Naturals, Sequences, FiniteSets, FiniteSetsExt, SequencesExt

CONSTANTS DirThreads, DirFds,    \* descriptors the host hands out, lowest first
          HostDirs, DirNames,    \* directories, and the names of their entries
          HiddenNames,           \* AppleDouble names
          GUEST_DIR_CACHE_SLOTS,
          DirOpens, DirChanges,  \* bounds: opens, and changes to the directories
          RawClose               \* TRUE: descriptors are also closed by syscall(6)

ASSUME DirAssumption ==
  /\ DirFds \subseteq Nat \ {0} /\ HiddenNames \subseteq DirNames /\ GUEST_DIR_CACHE_SLOTS \in Nat \ {0}
  /\ IsFiniteSet(DirFds) /\ IsFiniteSet(DirNames) /\ DirOpens \in Nat /\ DirChanges \in Nat /\ RawClose \in BOOLEAN

VARIABLES dir_entries,   \* directory -> its entries
          dir_fds,       \* descriptor -> directory
          g_dir_cache,   \* slot -> [used, fd, ino, names, pos]
          dir_closing,   \* thread -> descriptor it is closing, its snapshot dropped; 0
          dir_given,     \* descriptor -> [names: given since it was opened or restarted,
                         \*   ended: the last of them was given, possible: sets of names the directory had since the open]
          dir_over,      \* a call gave entries after the last one had been given
          dir_opens, dir_changes

dir_vars == <<dir_entries, dir_fds, g_dir_cache, dir_closing, dir_given, dir_over, dir_opens, dir_changes>>

NoCache == [used |-> FALSE, fd |-> 0, ino |-> "", names |-> <<>>, pos |-> 0]
CacheSlots == 1..GUEST_DIR_CACHE_SLOTS

DirInit ==
  /\ dir_entries \in [HostDirs -> {DirNames}] /\ dir_fds = [f \in {} |-> ""]
  /\ g_dir_cache = [i \in CacheSlots |-> NoCache] /\ dir_closing = [t \in DirThreads |-> 0]
  /\ dir_given = [f \in {} |-> <<>>] /\ dir_over = FALSE /\ dir_opens = 0 /\ dir_changes = 0

\* The host gives the lowest free descriptor.
open_dir(d) ==
  /\ dir_opens < DirOpens /\ dir_opens' = dir_opens + 1 /\ DirFds \ DOMAIN dir_fds # {}
  /\ LET fd == Min(DirFds \ DOMAIN dir_fds)
     IN  /\ dir_fds' = [f \in DOMAIN dir_fds \cup {fd} |-> IF f = fd THEN d ELSE dir_fds[f]]
         /\ dir_given' = [f \in DOMAIN dir_given \cup {fd} |->
                            IF f = fd THEN [names |-> <<>>, ended |-> FALSE, possible |-> {dir_entries[d]}] ELSE dir_given[f]]
  /\ UNCHANGED <<dir_entries, g_dir_cache, dir_closing, dir_over, dir_changes>>

\* Files come and go meanwhile.
change_dir(d, n) ==
  /\ dir_changes < DirChanges /\ dir_changes' = dir_changes + 1
  /\ dir_entries' = [dir_entries EXCEPT ![d] = IF n \in @ THEN @ \ {n} ELSE @ \cup {n}]
  /\ dir_given' = [f \in DOMAIN dir_given |->
                     IF f \in DOMAIN dir_fds /\ dir_fds[f] = d
                     THEN [dir_given[f] EXCEPT !.possible = @ \cup {dir_entries'[d]}] ELSE dir_given[f]]
  /\ UNCHANGED <<dir_fds, g_dir_cache, dir_closing, dir_over, dir_opens>>

\* Mutant: the snapshot outlives the descriptor.
drop_nothing(fd) == g_dir_cache
guest_dir_cache_drop_fd(fd) ==
  [i \in CacheSlots |-> IF g_dir_cache[i].used /\ g_dir_cache[i].fd = fd THEN NoCache ELSE g_dir_cache[i]]

\* shim_close: the snapshot is dropped, then the descriptor is closed; raw, by
\* syscall(6), it stays.
shim_close(t, fd, raw) ==
  /\ dir_closing[t] = 0 /\ fd \in DOMAIN dir_fds /\ \A u \in DirThreads : dir_closing[u] # fd
  /\ g_dir_cache' = (IF raw THEN g_dir_cache ELSE guest_dir_cache_drop_fd(fd)) /\ dir_closing' = [dir_closing EXCEPT ![t] = fd]
  /\ UNCHANGED <<dir_entries, dir_fds, dir_given, dir_over, dir_opens, dir_changes>>
close_host(t) ==
  /\ dir_closing[t] # 0
  /\ dir_fds' = [f \in DOMAIN dir_fds \ {dir_closing[t]} |-> dir_fds[f]]
  /\ dir_closing' = [dir_closing EXCEPT ![t] = 0]
  /\ UNCHANGED <<dir_entries, g_dir_cache, dir_given, dir_over, dir_opens, dir_changes>>

\* The snapshot of a descriptor, read now when there is none for its directory:
\* in the descriptor's slot, in a free one, else in the first.
CacheOf(fd) ==
  LET mine == {i \in CacheSlots : g_dir_cache[i].used /\ g_dir_cache[i].fd = fd}
      free == {i \in CacheSlots : ~g_dir_cache[i].used}
  IN  IF mine # {} THEN Min(mine) ELSE IF free # {} THEN Min(free) ELSE 1
guest_dir_cache_get(fd, listing) ==
  LET c == g_dir_cache[CacheOf(fd)]
  IN  IF c.used /\ c.fd = fd /\ c.ino = dir_fds[fd] THEN c
      ELSE [used |-> TRUE, fd |-> fd, ino |-> dir_fds[fd], names |-> listing, pos |-> 0]

\* getdents, or getdirentries with a base, whose caller's value is not read:
\* a base of -2 restarts the enumeration.  room is how many records fit.
guest_getdirentries(fd, room, based, listing) ==
  LET c     == guest_dir_cache_get(fd, listing)
      from  == IF based THEN 0 ELSE c.pos
      to    == Min({from + room, Len(c.names)})
      given == SubSeq(c.names, from + 1, to)
  IN  /\ g_dir_cache' = [g_dir_cache EXCEPT ![CacheOf(fd)] = [c EXCEPT !.pos = to]]
      /\ dir_given' = [dir_given EXCEPT ![fd].names = IF based THEN given ELSE @ \o given,
                                        ![fd].ended = to = Len(c.names)]
      /\ dir_over' = (dir_over \/ (dir_given[fd].ended /\ given # <<>>))
      /\ UNCHANGED <<dir_entries, dir_fds, dir_closing, dir_opens, dir_changes>>

\* readdir lists a directory in any order, hidden names left out.
Listings(fd) == SetToSeqs(dir_entries[dir_fds[fd]] \ HiddenNames)

shim_getdents(fd, room, based) ==
  /\ fd \in DOMAIN dir_fds /\ \A t \in DirThreads : dir_closing[t] # fd
  /\ \E listing \in Listings(fd) : guest_getdirentries(fd, room, based, listing)

DirNext ==
  \/ \E d \in HostDirs : open_dir(d) \/ \E n \in DirNames : change_dir(d, n)
  \/ \E t \in DirThreads : close_host(t) \/ \E fd \in DirFds, raw \in {FALSE, RawClose} : shim_close(t, fd, raw)
  \/ \E fd \in DirFds, room \in 1..2, based \in BOOLEAN : shim_getdents(fd, room, based)

DirSpec == DirInit /\ [][DirNext]_dir_vars

-----------------------------------------------------------------------------
\* What a descriptor has given since it was opened, or since a call with a base
\* restarted it, is without repetition one listing of its own directory at some
\* moment since the open, complete when the end was reported: a snapshot of an
\* earlier use of the number is never given out.
DirListed ==
  \A fd \in DOMAIN dir_fds :
    LET g == dir_given[fd]
    IN  g.names # <<>> \/ g.ended =>
          /\ \A i, j \in DOMAIN g.names : g.names[i] = g.names[j] => i = j
          /\ \E s \in g.possible : Range(g.names) \subseteq s \ HiddenNames /\ (g.ended => Range(g.names) = s \ HiddenNames)

\* "Returns bytes written, 0 at end" (ps4_syscalls.c, guest_getdirentries):
\* once the last entry has been given, no call gives an entry again.
EnumerationEnds == ~dir_over
=============================================================================
