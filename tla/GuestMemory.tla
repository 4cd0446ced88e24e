----------------------------- MODULE GuestMemory -----------------------------
(***************************************************************************)
(* The guest's memory: the extents of its window, and direct memory, whose *)
(* blocks the window aliases.                                              *)
(***************************************************************************)
EXTENDS Naturals, FiniteSets, FiniteSetsExt

-----------------------------------------------------------------------------
(***************************************************************************)
(* The guest's virtual memory: the extent list of                          *)
(* pkg/runtime/core/recomp_runtime.c (recomp_vm_...) and the calls that map *)
(* flexible memory, reservations and pools from it.                        *)
(*                                                                         *)
(* One page stands for 16 KiB.  The extent list is kept as vm_start, the   *)
(* first pages of the extents, and vm_name, what every page is by the name *)
(* of its extent: "free" (is_free), "reserved", "pool_reserved", or        *)
(* "mapped" for any other name.  An allocation is one hold of vm_mutex and *)
(* one step; recomp_vm_free is three phases, the middle one unlocked.      *)
(***************************************************************************)

CONSTANTS VmPages,       \* pages of the window, numbered from 1
          VmLow,         \* pages up to VmLow are below 0x800000000
          VmAligns,      \* alignments asked for, in pages
          VmLengths,     \* lengths asked for, in pages
          VmThreads,     \* guest threads that unmap
          MapWhileFreed  \* TRUE: the guest may map into a reservation it is unmapping

ASSUME VmAssumption ==
  /\ VmPages \in Nat \ {0} /\ VmLow \in 1..VmPages
  /\ VmAligns \subseteq Nat \ {0} /\ VmLengths \subseteq Nat \ {0} /\ MapWhileFreed \in BOOLEAN

VARIABLES vm_start, vm_name,
          vm_gen,    \* g_vm_generation, its last bit
          vm_freeing \* the recomp_vm_free each thread is in

vm_vars == <<vm_start, vm_name, vm_gen, vm_freeing>>

Pages == 1..VmPages
Span(a, n) == a..a + n - 1
NoFree == [at |-> "idle", range |-> {}, noted |-> {}, todo |-> {}]

VmInit ==
  /\ vm_start = {1} /\ vm_name = [p \in Pages |-> "free"] /\ vm_gen = 0
  /\ vm_freeing = [t \in VmThreads |-> NoFree]

\* The pages of the extent that starts at s, when S are the starts.
ExtentOf(S, s) == s..Min({VmPages + 1} \cup {e \in S : e > s}) - 1
Extent(s) == ExtentOf(vm_start, s)
ExtentAt(p) == Max({s \in vm_start : s <= p})
recomp_vm_note_change == vm_gen' = 1 - vm_gen

-----------------------------------------------------------------------------
(* Allocation                                                              *)

AlignUp(a, al) == ((a + al - 1) \div al) * al
\* Free extents with room for n pages at an aligned address.
Fits(n, al) == {s \in vm_start : vm_name[s] = "free" /\ Span(AlignUp(s, al), n) \subseteq Extent(s)}
Smallest(S) ==
  {s \in S : \A r \in S : LET d == Cardinality(Extent(s))
                              e == Cardinality(Extent(r))
                          IN  d < e \/ (d = e /\ s <= r)}

\* recomp_vm_alloc_named_aligned: the smallest extent that fits, the first of
\* equals, low ones before all others unless any will do.
BestFit(n, al, any) ==
  LET low == {s \in Fits(n, al) : s <= VmLow \/ any}
  IN  {AlignUp(s, al) : s \in Smallest(IF low # {} THEN low ELSE Fits(n, al))}

\* recomp_vm_alloc_fixed takes from a free extent or from a reservation.
Reservation(p) == vm_name[p] \in {"reserved", "pool_reserved"}
BeingFreed(p) == \E t \in VmThreads : p \in UNION vm_freeing[t].noted
FixedFits(a, n) ==
  LET s == ExtentAt(a)
  IN  /\ Span(a, n) \subseteq Extent(s)
      /\ vm_name[s] = "free" \/ Reservation(s)
      /\ MapWhileFreed \/ ~(Reservation(s) /\ BeingFreed(s))

\* Mutant: what is left behind the pages taken is not split off.
take_no_tail(a, n, name) ==
  LET whole == Extent(ExtentAt(a))
  IN  /\ vm_start' = vm_start \cup {a}
      /\ vm_name' = [p \in Pages |-> IF p \in Span(a, n) THEN name
                                     ELSE IF p \in whole THEN "free" ELSE vm_name[p]]
      /\ recomp_vm_note_change
      /\ UNCHANGED vm_freeing

\* Pages a .. a+n-1 become an extent; what is left of a reservation around
\* them becomes free.
VmTake(a, n, name) ==
  LET whole == Extent(ExtentAt(a))
  IN  /\ vm_start' = vm_start \cup ({a, a + n} \cap whole)
      /\ vm_name' = [p \in Pages |-> IF p \in Span(a, n) THEN name
                                     ELSE IF p \in whole THEN "free" ELSE vm_name[p]]
      /\ recomp_vm_note_change
      /\ UNCHANGED vm_freeing

\* The fixed address when one is asked for and it can be had, else any.
Places(req, n, al) == IF req # 0 /\ FixedFits(req, n) THEN {req} ELSE BestFit(n, al, FALSE)

\* sceKernelMapNamedFlexibleMemory, sceKernelReserveVirtualRange and thread
\* stacks.  The length is rounded to the alignment.
VmMap ==
  \E req \in 0..VmPages, n \in VmLengths, al \in VmAligns, name \in {"mapped", "reserved"} :
    \E a \in Places(req, AlignUp(n, al), al) : VmTake(a, AlignUp(n, al), name)

\* A fixed address that cannot be had is returned as if it were reserved.
sceKernelMemoryPoolReserve ==
  \E req \in 0..VmPages, n \in VmLengths, al \in VmAligns :
    LET len == AlignUp(n, al)
    IN  \E a \in IF req = 0 THEN BestFit(len, al, TRUE) ELSE {p \in {req} : FixedFits(p, len)} :
          VmTake(a, len, "pool_reserved")

-----------------------------------------------------------------------------
(* recomp_vm_free over n pages from a                                      *)

\* A mapped extent that strictly contains the boundary is split there.
recomp_vm_split_extent_at(at, S) == IF at \in Pages /\ vm_name[at] # "free" THEN S \cup {at} ELSE S
SplitRange(a, n) == recomp_vm_split_extent_at(a, recomp_vm_split_extent_at(a + n, vm_start))

\* 1. (locked) Split at both ends, note the mapped ranges inside.  The guest
\*    does not unmap one range from two threads at once.
recomp_vm_free(t) ==
  /\ vm_freeing[t].at = "idle"
  /\ \E a \in Pages, n \in Pages :
       LET cut == SplitRange(a, n)
           noted == {r \in {ExtentOf(cut, s) : s \in {s \in cut : vm_name[s] # "free"}} : r \subseteq Span(a, n)}
       IN  /\ a + n <= VmPages + 1
           /\ \A u \in VmThreads : vm_freeing[u].range \cap Span(a, n) = {}
           /\ vm_start' = cut
           /\ vm_freeing' = IF noted = {} THEN vm_freeing
                            ELSE [vm_freeing EXCEPT ![t] = [at |-> "detach", range |-> Span(a, n),
                                                            noted |-> noted, todo |-> noted]]
  /\ UNCHANGED <<vm_name, vm_gen>>

\* 2. (unlocked) One noted range is detached, from what g_dmaps says.
VmDetach(t, r) ==
  /\ vm_freeing[t].at = "detach" /\ r \in vm_freeing[t].todo
  /\ vm_freeing' = [vm_freeing EXCEPT ![t].todo = @ \ {r}]
  /\ UNCHANGED <<vm_start, vm_name, vm_gen>>

\* The starts that go when free extents which touch, from the one before the
\* range to the one after it, are merged; name is what the pages now are.
vm_coalesce_free(name, range) ==
  LET touched == {s \in vm_start : s <= Max(range) + 1 /\ Max(Extent(s)) + 1 >= Min(range)}
      from == touched \cup {s \in vm_start : s < Min(touched) /\ Max(Extent(s)) + 1 = Min(touched)}
  IN  {b \in vm_start : \E s \in from : s < b /\ \A p \in s..b : name[p] = "free"}

\* Mutant: the generation stays.
free_unnoted(t) ==
  LET c == vm_freeing[t]
      gone == UNION {e \in {Extent(s) : s \in vm_start} : \E r \in c.noted : e \subseteq r}
      name == [p \in Pages |-> IF p \in gone THEN "free" ELSE vm_name[p]]
  IN  /\ c.at = "detach" /\ c.todo = {}
      /\ vm_name' = name
      /\ vm_start' = vm_start \ vm_coalesce_free(name, c.range)
      /\ vm_freeing' = [vm_freeing EXCEPT ![t] = NoFree]
      /\ UNCHANGED vm_gen

\* 3. (locked) The extents inside the noted ranges become free.
free_end(t) ==
  LET c == vm_freeing[t]
      gone == UNION {e \in {Extent(s) : s \in vm_start} : \E r \in c.noted : e \subseteq r}
      name == [p \in Pages |-> IF p \in gone THEN "free" ELSE vm_name[p]]
  IN  /\ c.at = "detach" /\ c.todo = {}
      /\ vm_name' = name
      /\ vm_start' = vm_start \ vm_coalesce_free(name, c.range)
      /\ vm_freeing' = [vm_freeing EXCEPT ![t] = NoFree]
      /\ recomp_vm_note_change

-----------------------------------------------------------------------------
(* Attributes                                                              *)

\* Every mapped extent that overlaps is renamed; no name given has "reserved"
\* in it.
sceKernelSetVirtualRangeName ==
  \E a \in Pages, n \in Pages :
    /\ vm_name' = [p \in Pages |-> IF vm_name[p] # "free" /\ Extent(ExtentAt(p)) \cap Span(a, n) # {}
                                   THEN "mapped" ELSE vm_name[p]]
    /\ recomp_vm_note_change
    /\ UNCHANGED <<vm_start, vm_freeing>>

\* Mapped extents are split at the range's edges.
sceKernelMtypeprotect ==
  \E a \in Pages, n \in Pages :
    /\ a + n <= VmPages + 1 /\ \E p \in Span(a, n) : vm_name[p] # "free"
    /\ vm_start' = SplitRange(a, n)
    /\ UNCHANGED <<vm_name, vm_gen, vm_freeing>>

VmNext ==
  \/ VmMap \/ sceKernelMemoryPoolReserve \/ sceKernelSetVirtualRangeName \/ sceKernelMtypeprotect
  \/ \E t \in VmThreads : recomp_vm_free(t) \/ free_end(t)

-----------------------------------------------------------------------------
\* What recomp_vm_unmapped_ranges reports.
recomp_vm_unmapped_ranges == {p \in Pages : vm_name[p] \in {"free", "reserved"}}

\* Every page of an extent is what its first page is: an allocation, a split,
\* a rename or a merge leaves no extent that is partly one thing and partly
\* another, whatever unmaps are under way.
ExtentsUniform ==
  /\ 1 \in vm_start /\ vm_start \subseteq Pages
  /\ \A s \in vm_start : \A p \in Extent(s) : vm_name[p] = vm_name[s]

\* What the renderer keeps a copy of, the unmapped ranges, never changes with
\* the generation left as it was.
UnmappedChangeNoted ==
  [][recomp_vm_unmapped_ranges' # recomp_vm_unmapped_ranges => vm_gen' # vm_gen]_vm_vars

-----------------------------------------------------------------------------
(***************************************************************************)
(* Direct (physical) memory and its aliases in guest memory:               *)
(* pkg/runtime/kernel/memory/ps4_direct_mem.c over the extents above.     *)
(*                                                                         *)
(* The block list is kept as dm_start, the first pages of the blocks, and  *)
(* dm_used, the allocated pages; the last block may be free and empty (its *)
(* start is dm_total then).  host is the host's page table for guest       *)
(* memory: the physical page a guest page aliases, or Private.             *)
(***************************************************************************)

CONSTANTS DmMax,      \* largest size of direct memory, in pages
          DmDefault,  \* its size before the process's parameters are read
          DmTotals,   \* sizes the process's parameters may give
          DmSearches, \* ranges searched: pairs <<lo, hi>>
          DmAliases   \* bound: aliases there are before another is made

ASSUME DmAssumption ==
  /\ DmMax \in Nat \ {0} /\ DmDefault \in 1..DmMax /\ DmTotals \subseteq 0..DmMax
  /\ DmAliases \in Nat /\ DmSearches \subseteq (0..DmMax) \X (1..DmMax)

VARIABLES dm_start, dm_used, dm_total, g_direct_configured,
          g_dmaps,  \* the recorded aliases: [v, n, p] guest page, length, physical page
          host

dm_vars == <<dm_start, dm_used, dm_total, g_direct_configured, g_dmaps, host, vm_start, vm_name, vm_gen, vm_freeing>>
blocks == <<dm_start, dm_used, dm_total, g_direct_configured>>
aliases == <<g_dmaps, host>>

Private == DmMax
Phys == 0..DmMax - 1

DmInit ==
  /\ VmInit
  /\ dm_start = {0} /\ dm_used = {} /\ dm_total = DmDefault /\ g_direct_configured = FALSE
  /\ g_dmaps = {} /\ host = [p \in Pages |-> Private]

\* The pages of the block that starts at s.
Block(s) == s..Min({dm_total} \cup {e \in dm_start : e > s}) - 1

-----------------------------------------------------------------------------
\* The lowest aligned range of a free block within [lo, hi); nothing when the
\* first block that has room has it beyond hi.  The main and the pool calls
\* are this one over their ranges.
DmRoom(lo, n, al) ==
  {c \in {<<s, AlignUp(Max({s, lo}), al)>> : s \in {s \in dm_start : s \notin dm_used}} :
     Span(c[2], n) \subseteq Block(c[1])}
sceKernelAllocateDirectMemory(lengths) ==
  \E r \in DmSearches, len \in lengths, al \in VmAligns :
    LET lo == r[1]
        hi == r[2]
        n == AlignUp(len, al)
        at == Min({c[2] : c \in DmRoom(lo, n, al)})
        b == Block(Max({s \in dm_start : s <= at}))
    IN  /\ lo + n <= hi /\ DmRoom(lo, n, al) # {} /\ at + n <= hi
        /\ dm_start' = dm_start \cup ({at, at + n} \cap b)
        /\ dm_used' = dm_used \cup Span(at, n)
        /\ UNCHANGED <<dm_total, g_direct_configured, g_dmaps, host>> /\ UNCHANGED vm_vars

\* Mutant: only the free block behind is joined.
release_joins_next ==
  \E p \in dm_start \cap dm_used :
    LET next == Max(Block(p)) + 1
    IN  /\ dm_start' = dm_start \ (IF next \in dm_start \ dm_used THEN {next} ELSE {})
        /\ dm_used' = dm_used \ Block(p)
        /\ UNCHANGED <<dm_total, g_direct_configured, g_dmaps, host>> /\ UNCHANGED vm_vars

\* The whole block goes, whatever the length given, and joins its free
\* neighbours.  Aliases of it stay mapped.
sceKernelReleaseDirectMemory ==
  \E p \in dm_start \cap dm_used :
    LET next == Max(Block(p)) + 1
        before == {s \in dm_start : s < p}
        merged == (IF next \in dm_start \ dm_used THEN {next} ELSE {})
                    \cup (IF before # {} /\ Max(before \cup {0}) \notin dm_used THEN {p} ELSE {})
    IN  /\ dm_start' = dm_start \ merged
        /\ dm_used' = dm_used \ Block(p)
        /\ UNCHANGED <<dm_total, g_direct_configured, g_dmaps, host>> /\ UNCHANGED vm_vars

\* The free end is resized to the process's size; in use, it stays as it is.
ps4_direct_mem_configure ==
  /\ ~g_direct_configured /\ g_direct_configured' = TRUE
  /\ \E total \in DmTotals :
       dm_total' = IF Max(dm_start) \notin dm_used /\ total >= Max(dm_start) THEN total ELSE dm_total
  /\ UNCHANGED <<dm_start, dm_used, g_dmaps, host>> /\ UNCHANGED vm_vars

-----------------------------------------------------------------------------
\* Guest pages from v on alias physical pages from p on.
dm_alias(v, p, n) ==
  /\ g_dmaps' = g_dmaps \cup {[v |-> v, n |-> n, p |-> p]}
  /\ host' = [g \in Pages |-> IF g \in Span(v, n) THEN p + (g - v) ELSE host[g]]

\* Any part of one allocated block; the extent's length is rounded to the
\* alignment, the alias is as long as asked.
sceKernelMapDirectMemory ==
  /\ Cardinality(g_dmaps) <= DmAliases
  /\ \E s \in dm_start \cap dm_used : \E p \in Block(s), n \in VmLengths :
       /\ Span(p, n) \subseteq Block(s)
       /\ \E req \in 0..VmPages, al \in VmAligns : \E v \in Places(req, AlignUp(n, al), al) :
            VmTake(v, AlignUp(n, al), "mapped") /\ dm_alias(v, p, n)
  /\ UNCHANGED blocks

\* Mutant: the part behind keeps the physical page of the whole.
remains_same_phys(m, r) ==
  LET keep == Span(m.v, m.n) \ r
      part(S) == IF S = {} THEN {} ELSE {[v |-> Min(S), n |-> Cardinality(S), p |-> m.p]}
  IN  part({g \in keep : g < Min(r)}) \cup part({g \in keep : g > Max(r)})

\* What is left of an alias when the guest pages r go.
Remains(m, r) ==
  LET keep == Span(m.v, m.n) \ r
      part(S) == IF S = {} THEN {} ELSE {[v |-> Min(S), n |-> Cardinality(S), p |-> m.p + (Min(S) - m.v)]}
  IN  part({g \in keep : g < Min(r)}) \cup part({g \in keep : g > Max(r)})

\* An unmapped range is detached from physical memory: the pages every
\* recorded alias has in it become private ones.
ps4_direct_mem_on_unmap(r) ==
  /\ g_dmaps' = UNION {Remains(m, r) : m \in g_dmaps}
  /\ host' = [g \in Pages |-> IF g \in r /\ \E m \in g_dmaps : g \in Span(m.v, m.n) THEN Private ELSE host[g]]

free_detach(t) ==
  /\ \E r \in vm_freeing[t].todo : VmDetach(t, r) /\ ps4_direct_mem_on_unmap(r)
  /\ UNCHANGED blocks

\* Calls on blocks alone, and blocks with their mappings once the size is
\* known; lengths are those allocated.
DmBlockNext(lengths) ==
  \/ sceKernelAllocateDirectMemory(lengths)
  \/ sceKernelReleaseDirectMemory
  \/ ps4_direct_mem_configure
DmNext(lengths) ==
  \/ sceKernelAllocateDirectMemory(lengths)
  \/ sceKernelReleaseDirectMemory
  \/ VmNext /\ UNCHANGED blocks /\ UNCHANGED aliases
  \/ sceKernelMapDirectMemory
  \/ \E t \in VmThreads : free_detach(t)

-----------------------------------------------------------------------------
\* Mutant: the reported start is the block's, not the searched range's.
available_from_block(lo, hi, al) ==
  LET end == Min({hi, dm_total})
      cand == {c \in {<<AlignUp(s, al), Min({end, Max(Block(s) \cup {0}) + 1})>> :
                        s \in {s \in dm_start : s \notin dm_used /\ Block(s) # {}}} : lo < c[2] /\ c[1] < c[2]}
  IN  IF cand = {} THEN {} ELSE {CHOOSE c \in cand : \A d \in cand : c[1] <= d[1]}

\* sceKernelAvailableDirectMemorySize in [lo, hi): the first free part found.
Available(lo, hi, al) ==
  LET end == Min({hi, dm_total})
      cand == {c \in {<<AlignUp(Max({s, lo}), al), Min({end, Max(Block(s) \cup {0}) + 1})>> :
                        s \in {s \in dm_start : s \notin dm_used /\ Block(s) # {}}} : c[1] < c[2]}
  IN  IF cand = {} THEN {} ELSE {CHOOSE c \in cand : \A d \in cand : c[1] <= d[1]}

\* Every block is all free or all allocated, blocks cover direct memory, and
\* no two free blocks touch: what one allocation could have, no split hides.
BlocksSound ==
  /\ dm_start \subseteq 0..dm_total /\ dm_used \subseteq 0..dm_total - 1 /\ 0 \in dm_start
  /\ \A s \in dm_start : Block(s) \subseteq dm_used \/ Block(s) \cap dm_used = {}
  /\ \A s \in dm_start \ {0} : ~(s \notin dm_used /\ s - 1 \notin dm_used)

\* The host's page table is what the recorded aliases say, no guest page is in
\* two of them, and no page of a free extent aliases physical memory, so that
\* the next mapping of the page starts private.
AliasesExact ==
  /\ \A g \in Pages : host[g] # Private => \E m \in g_dmaps : g \in Span(m.v, m.n) /\ host[g] = m.p + (g - m.v)
  /\ \A m \in g_dmaps : \A g \in Span(m.v, m.n) : host[g] = m.p + (g - m.v)
  /\ \A g \in Pages : vm_name[g] = "free" => host[g] = Private

\* A range reported as available can be allocated where it was reported, when
\* its length is a multiple of the alignment.
AvailableAllocates ==
  \A r \in DmSearches, al \in VmAligns :
    \A c \in Available(r[1], r[2], al) :
      (c[2] - c[1]) % al = 0 => c[1] = Min({d[2] : d \in DmRoom(r[1], c[2] - c[1], al)} \cup {DmMax})
=============================================================================
