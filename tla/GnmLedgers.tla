----------------------------- MODULE GnmLedgers -----------------------------
(***************************************************************************)
(* What the renderer keeps about GPU memory: the guest ranges that work in *)
(* flight writes, and the memory its buffers and textures are charged for. *)
(***************************************************************************)
EXTENDS Naturals, FiniteSets, FiniteSetsExt, Sequences, SequencesExt

-----------------------------------------------------------------------------
(***************************************************************************)
(* The guest ranges GPU work in flight writes, for the renderer's hazard   *)
(* checks: GnmPendingWrites of                                             *)
(* pkg/runtime/modules/libSceGnmDriver/ps4_gnm_pending_writes.h.           *)
(*                                                                         *)
(* A range is <<addr, size>>.  pw_scan is what the class replaced, and its *)
(* specification: every write not known to be complete, one record each.   *)
(***************************************************************************)

CONSTANTS PwRanges,     \* ranges written and asked about
          PwEpochs,     \* bound: writes in all
          kBucketSize,  \* addresses per bucket (1 MiB)
          kWideBuckets, \* a range over more buckets than this is wide
          kIdleFactor,  \* entries kept for reuse per pending one (4)
          kKeepIdle     \* and beyond that

ASSUME PwAssumption == kBucketSize \in Nat \ {0} /\ {PwEpochs, kWideBuckets, kIdleFactor, kKeepIdle} \subseteq Nat

VARIABLES pw_e, pw_live, pw_open, pw_buckets, pw_wide, pw_done,
          pw_epoch, pw_seq,  \* writes and commits so far
          pw_scan,
          pw_raced           \* ranges written by both open command buffers

pw_vars == <<pw_e, pw_live, pw_open, pw_buckets, pw_wide, pw_done, pw_epoch, pw_seq, pw_scan, pw_raced>>

Targets == {0, 1}     \* the main command buffer and the asynchronous compute one
kOpen == PwEpochs + 1 \* the seq of a write not committed, above every seq

BucketsOf(r) == (r[1] \div kBucketSize)..((r[1] + r[2] - 1) \div kBucketSize)
Wide(r) == Cardinality(BucketsOf(r)) > kWideBuckets
Overlapping(q, r) == r[1] < q[1] + q[2] /\ q[1] < r[1] + r[2]

PwInit ==
  /\ pw_e = <<>> /\ pw_live = <<>> /\ pw_open = [g \in Targets |-> {}]
  /\ pw_buckets = {} /\ pw_wide = {} /\ pw_done = 0
  /\ pw_epoch = 0 /\ pw_seq = 0 /\ pw_scan = {} /\ pw_raced = {}

\* Entries in their buckets, as pairs <<bucket, index>>, and the wide ones.
InBuckets(e, live) == {b \in UNION {BucketsOf(e[i].r) \X {i} : i \in Range(live)} : ~Wide(e[b[2]].r)}
InWide(e, live) == {i \in Range(live) : Wide(e[i].r)}

-----------------------------------------------------------------------------
\* A write of r by target g's open command buffer.
Note(r, g) ==
  LET known == {i \in DOMAIN pw_e : pw_e[i].r = r}
      i == IF known # {} THEN Min(known) ELSE Len(pw_e) + 1
      was == IF known # {} THEN pw_e[i] ELSE [r |-> r, epoch |-> 0, seq |-> 0, tgt |-> g, live |-> FALSE]
      now == [was EXCEPT !.epoch = pw_epoch + 1, !.seq = kOpen, !.tgt = g, !.live = TRUE]
      e == IF known # {} THEN [pw_e EXCEPT ![i] = now] ELSE Append(pw_e, now)
      live == IF was.live THEN pw_live ELSE Append(pw_live, i)
  IN  /\ pw_epoch < PwEpochs /\ pw_epoch' = pw_epoch + 1
      /\ pw_e' = e /\ pw_live' = live
      /\ pw_open' = [pw_open EXCEPT ![g] = @ \cup {i}]
      /\ pw_buckets' = pw_buckets \cup (IF was.live THEN {} ELSE InBuckets(e, <<i>>))
      /\ pw_wide' = pw_wide \cup (IF was.live THEN {} ELSE InWide(e, <<i>>))
      /\ pw_scan' = pw_scan \cup {[r |-> r, epoch |-> pw_epoch + 1, tgt |-> g, seq |-> kOpen]}
      /\ pw_raced' = pw_raced \cup {x \in {r} : \E w \in pw_scan : w.r = r /\ w.seq = kOpen /\ w.tgt # g}
      /\ UNCHANGED <<pw_done, pw_seq>>

\* Target g's command buffer is committed; a range the other one has written
\* since stays with that one.
Commit(g) ==
  LET mine(w) == w.seq = kOpen /\ w.tgt = g
  IN  /\ \E w \in pw_scan : mine(w)
      /\ pw_seq' = pw_seq + 1
      /\ pw_e' = [i \in DOMAIN pw_e |-> IF i \in pw_open[g] /\ mine(pw_e[i])
                                        THEN [pw_e[i] EXCEPT !.seq = pw_seq + 1] ELSE pw_e[i]]
      /\ pw_open' = [pw_open EXCEPT ![g] = {}]
      /\ pw_scan' = {IF mine(w) THEN [w EXCEPT !.seq = pw_seq + 1] ELSE w : w \in pw_scan}
      /\ UNCHANGED <<pw_live, pw_buckets, pw_wide, pw_done, pw_epoch, pw_raced>>

compact_keeps_open(e, live) ==
  /\ pw_e' = [k \in DOMAIN live |-> e[live[k]]]
  /\ pw_live' = [k \in DOMAIN live |-> k]
  /\ pw_buckets' = InBuckets(pw_e', pw_live') /\ pw_wide' = InWide(pw_e', pw_live')
  /\ UNCHANGED pw_open
\* Only the pending entries are kept, under new indices.
Compact(e, live) ==
  /\ pw_e' = [k \in DOMAIN live |-> e[live[k]]]
  /\ pw_live' = [k \in DOMAIN live |-> k]
  /\ pw_buckets' = InBuckets(pw_e', pw_live') /\ pw_wide' = InWide(pw_e', pw_live')
  /\ pw_open' = [g \in Targets |-> {k \in DOMAIN live : e[live[k]].seq = kOpen /\ e[live[k]].tgt = g}]

\* The GPU's work up to the commit done is over.
Prune(done) ==
  LET gone(i) == pw_e[i].seq # kOpen /\ pw_e[i].seq <= done
      live == SelectSeq(pw_live, LAMBDA i : ~gone(i))
      e == [i \in DOMAIN pw_e |-> IF i \in Range(pw_live) /\ gone(i) THEN [pw_e[i] EXCEPT !.live = FALSE] ELSE pw_e[i]]
      scan == {w \in pw_scan : w.seq = kOpen \/ w.seq > done}
  IN  /\ done > pw_done /\ pw_done' = done
      /\ IF Len(e) > kIdleFactor * Len(live) + kKeepIdle
         THEN Compact(e, live)
         ELSE /\ pw_e' = e /\ pw_live' = live
              /\ pw_buckets' = InBuckets(e, live) /\ pw_wide' = InWide(e, live)
              /\ UNCHANGED pw_open
      /\ pw_scan' = scan /\ pw_raced' = {r \in pw_raced : \E w \in scan : w.r = r}
      /\ UNCHANGED <<pw_epoch, pw_seq>>

PwNext ==
  \/ \E r \in PwRanges, g \in Targets : Note(r, g)
  \/ \E g \in Targets : Commit(g)
  \/ \E done \in 1..pw_seq : Prune(done)

-----------------------------------------------------------------------------
\* The latest overlapping write, 0 for none: a wide query walks the pending
\* entries, another one its buckets and the wide entries.
Overlaps(q) ==
  LET seen == IF Wide(q) THEN Range(pw_live)
              ELSE pw_wide \cup {b[2] : b \in {b \in pw_buckets : b[1] \in BucketsOf(q)}}
  IN  Max({0} \cup {pw_e[i].epoch : i \in {i \in seen : Overlapping(q, pw_e[i].r)}})

\* The answer is the scan's, "the latest epoch among the overlapping pending
\* writes is the latest write's", unless a range both open command buffers
\* wrote is in the scan's answer; then it is no later than the scan's.
AnswersAreTheScans ==
  \A q \in PwRanges :
    LET hits == {w \in pw_scan : Overlapping(q, w.r)}
        scan == Max({0} \cup {w.epoch : w \in hits})
    IN  Overlaps(q) = scan \/ (Overlaps(q) < scan /\ \E w \in hits : w.r \in pw_raced)

-----------------------------------------------------------------------------
(***************************************************************************)
(* GPU memory accounting and the budget's decisions:                       *)
(* pkg/runtime/modules/libSceGnmDriver/ps4_gnm_membudget.c, driven as the  *)
(* renderer drives it.                                                     *)
(*                                                                         *)
(* The encoder thread makes no-copy buffers over guest windows, uses and   *)
(* releases them; a released buffer stays accounted until the command      *)
(* buffers that may use it have completed.  It also evicts sampled         *)
(* textures.  The sampler thread reads the counters one by one and decides *)
(* whether memory is over budget.  All sizes are in windows.               *)
(***************************************************************************)

CONSTANTS GmBuffers,    \* ranges of windows: <<first, n>>
          GmWindows,    \* nwin, windows of guest memory; a span may end beyond
          GmTextures,   \* sampled textures, numbers that are their sizes
          GmDevice,     \* sizes of the device's own allocations
          gm_budget, tex_budget, tex_low,
          press_age, keep_age, idle_age, \* press_ns, keep_ns, idle_ns in ticks
          gm_futile,    \* futile purges in a row before the back-off (10)
          GmTicks       \* bound: command buffers committed, one tick each

ASSUME GmAssumption == {GmWindows, gm_budget, tex_budget, tex_low, press_age, keep_age, idle_age, gm_futile, GmTicks} \subseteq Nat

VARIABLES wrefs, wcount, wsum, wdistinct, \* ps4_gpumem_windows
          gbufs,    \* live buffers: last use, 0 for none
          gretire,  \* released buffers still accounted: <<buffer, seq>>
          textures, \* cached: last use, which is also its seq; 0 for none
          gtick, gdone, \* commands committed, completed
          gsample,  \* what the sampler has read
          gover, gcharged, gpurge,
          gpurges   \* purges since memory was under budget or a purge helped

gm_vars == <<wrefs, wcount, wsum, wdistinct, gbufs, gretire, textures, gtick, gdone, gsample, gover, gcharged, gpurge, gpurges>>
wins == <<wrefs, wcount, wsum, wdistinct>>
decided == <<gsample, gover, gcharged>>
purged == <<gpurge, gpurges>>

GmInit ==
  /\ wrefs = [w \in 0..GmWindows - 1 |-> 0] /\ wcount = 0 /\ wsum = 0 /\ wdistinct = 0
  /\ gbufs = [b \in GmBuffers |-> 0] /\ gretire = <<>> /\ textures = [x \in GmTextures |-> 0]
  /\ gtick = 1 /\ gdone = 0
  /\ gsample = [at |-> "idle", sum |-> 0] /\ gover = FALSE /\ gcharged = 0
  /\ gpurge = [futile |-> 0, have |-> FALSE, last |-> 0] /\ gpurges = 0

Covered(b) == (b[1]..b[1] + b[2] - 1) \cap (0..GmWindows - 1)
Monus(a, b) == IF a > b THEN a - b ELSE 0

-----------------------------------------------------------------------------
(* The encoder thread                                                      *)

ps4_gpumem_windows_add(b) ==
  /\ wrefs' = [w \in DOMAIN wrefs |-> IF w \in Covered(b) THEN wrefs[w] + 1 ELSE wrefs[w]]
  /\ wcount' = wcount + 1 /\ wsum' = wsum + b[2]
  /\ wdistinct' = wdistinct + Cardinality({w \in Covered(b) : wrefs[w] = 0})

remove_all(b) ==
  /\ wrefs' = [w \in DOMAIN wrefs |-> IF w \in Covered(b) THEN Monus(wrefs[w], 1) ELSE wrefs[w]]
  /\ wcount' = Monus(wcount, 1) /\ wsum' = Monus(wsum, b[2])
  /\ wdistinct' = Monus(wdistinct, b[2])
ps4_gpumem_windows_remove(b) ==
  /\ wrefs' = [w \in DOMAIN wrefs |-> IF w \in Covered(b) THEN Monus(wrefs[w], 1) ELSE wrefs[w]]
  /\ wcount' = Monus(wcount, 1) /\ wsum' = Monus(wsum, b[2])
  /\ wdistinct' = Monus(wdistinct, Cardinality({w \in Covered(b) : wrefs[w] = 1}))

\* A binding makes the buffer, unless it is refused, or uses it.
GuestBuffer(b) ==
  /\ gbufs' = [gbufs EXCEPT ![b] = gtick]
  /\ IF gbufs[b] = 0 THEN ps4_gpumem_windows_add(b) ELSE UNCHANGED wins
  /\ UNCHANGED <<gretire, textures, gtick, gdone, decided, purged>>
TextureUse(x) ==
  /\ textures' = [textures EXCEPT ![x] = gtick]
  /\ UNCHANGED <<wins, gbufs, gretire, gtick, gdone, decided, purged>>

ps4_gpumem_should_release(used) ==
  \/ idle_age # 0 /\ gtick - used >= idle_age
  \/ gover /\ gtick - used >= press_age

\* ps4_gpumem_purge_due: the new state and whether a purge is due.  The code
\* counts futile purges on past gm_futile; only reaching it matters.
ps4_gpumem_purge_due(st) ==
  LET futile == IF ~st.have THEN st.futile ELSE IF gcharged < st.last THEN 0 ELSE Min({st.futile + 1, gm_futile})
  IN  IF ~gover THEN <<[futile |-> 0, have |-> FALSE, last |-> st.last], FALSE>>
      ELSE IF futile >= gm_futile THEN <<[futile |-> futile, have |-> st.have, last |-> gcharged], FALSE>>
      ELSE <<[futile |-> futile, have |-> TRUE, last |-> gcharged], TRUE>>

\* A sweep releases idle buffers and purges.
SweepGuestWindows ==
  LET rel == {b \in GmBuffers : gbufs[b] # 0 /\ ps4_gpumem_should_release(gbufs[b])}
      due == ps4_gpumem_purge_due(gpurge)
      helped == ~gover \/ (gpurge.have /\ gcharged < gpurge.last)
  IN  /\ gbufs' = [b \in GmBuffers |-> IF b \in rel THEN 0 ELSE gbufs[b]]
      /\ gretire' = gretire \o [k \in DOMAIN SetToSeq(rel) |-> <<SetToSeq(rel)[k], gtick>>]
      /\ gpurge' = due[1]
      /\ gpurges' = (IF helped THEN 0 ELSE gpurges) + (IF due[2] THEN 1 ELSE 0)
      /\ UNCHANGED <<wins, textures, gtick, gdone, decided>>

\* A released buffer whose commands completed leaves the accounts.
RetirePendingWindows ==
  /\ gretire # <<>> /\ Head(gretire)[2] <= gdone
  /\ gretire' = Tail(gretire)
  /\ ps4_gpumem_windows_remove(Head(gretire)[1])
  /\ UNCHANGED <<gbufs, textures, gtick, gdone, decided, purged>>

\* ps4_texcache_select: complete and old enough, least recently used first,
\* until the low water mark; all of them when the GPU is over budget.
Total(S) == FoldSet(LAMBDA x, n : x + n, 0, S)
Cached == {x \in GmTextures : textures[x] # 0}
select_unordered ==
  LET age == IF gover THEN press_age ELSE keep_age
      cand == {x \in Cached : textures[x] <= gdone /\ gtick - textures[x] >= age}
      found == SetToSortSeq(cand, LAMBDA x, y : x > y)
      freed(k) == Total({found[i] : i \in 1..k})
  IN  {found[k] : k \in {k \in DOMAIN found : gover \/ Total(Cached) - freed(k - 1) > tex_low}}
ps4_texcache_select ==
  LET age == IF gover THEN press_age ELSE keep_age
      cand == {x \in Cached : textures[x] <= gdone /\ gtick - textures[x] >= age}
      lru == SetToSortSeq(cand, LAMBDA x, y : textures[x] < textures[y] \/ (textures[x] = textures[y] /\ x < y))
      freed(k) == Total({lru[i] : i \in 1..k})
  IN  {lru[k] : k \in {k \in DOMAIN lru : gover \/ Total(Cached) - freed(k - 1) > tex_low}}
EvictSampled ==
  /\ gover \/ Total(Cached) > tex_budget
  /\ textures' = [x \in GmTextures |-> IF x \in ps4_texcache_select THEN 0 ELSE textures[x]]
  /\ UNCHANGED <<wins, gbufs, gretire, gtick, gdone, decided, purged>>

GmCommit ==
  /\ gtick < GmTicks /\ gtick' = gtick + 1
  /\ UNCHANGED <<wins, gbufs, gretire, textures, gdone, decided, purged>>
GmComplete ==
  /\ gdone < gtick - 1 /\ gdone' = gdone + 1
  /\ UNCHANGED <<wins, gbufs, gretire, textures, gtick, decided, purged>>

-----------------------------------------------------------------------------
(* The sampler thread: device, sum and distinct are three reads            *)

ps4_gpumem_windows_read ==
  /\ gsample.at = "idle" /\ gsample' = [at |-> "read", sum |-> wsum]
  /\ UNCHANGED <<wins, gbufs, gretire, textures, gtick, gdone, gover, gcharged, purged>>
ps4_gpumem_budget_update ==
  /\ gsample.at = "read" /\ gsample' = [at |-> "idle", sum |-> 0]
  /\ \E own \in GmDevice :
       LET charged == Monus(wsum + own, gsample.sum) + wdistinct
       IN  /\ gcharged' = charged
           /\ gover' = IF ~gover THEN charged > gm_budget ELSE charged >= (gm_budget \div 10) * 9
  /\ UNCHANGED <<wins, gbufs, gretire, textures, gtick, gdone, purged>>

\* The windows and the textures meet only in gover: each part with the rest.
GmRest == GmCommit \/ GmComplete \/ ps4_gpumem_windows_read \/ ps4_gpumem_budget_update
GmWindowNext == (\E b \in GmBuffers : GuestBuffer(b)) \/ SweepGuestWindows \/ RetirePendingWindows \/ GmRest
GmTextureNext == (\E x \in GmTextures : TextureUse(x)) \/ EvictSampled \/ GmRest

-----------------------------------------------------------------------------
\* The counters are what the buffers that are live or not yet retired make
\* them, a window several of them span counted once; and over budget no more
\* than gm_futile purges in a row run without helping.
AccountsExact ==
  LET made == {<<b, 0>> : b \in {b \in GmBuffers : gbufs[b] # 0}} \cup {<<gretire[i][1], i>> : i \in DOMAIN gretire}
  IN  /\ wcount = Cardinality(made)
      /\ wsum = FoldSet(LAMBDA m, n : m[1][2] + n, 0, made)
      /\ \A w \in DOMAIN wrefs : wrefs[w] = Cardinality({m \in made : w \in Covered(m[1])})
      /\ wdistinct = Cardinality({w \in DOMAIN wrefs : wrefs[w] # 0})
      /\ gpurges <= gm_futile

\* A texture goes only when the command buffer that last used it completed,
\* and never while an older one that could have gone stays.
EvictsLeastRecent ==
  [][\A x \in Cached : textures'[x] = 0 =>
       /\ textures[x] <= gdone
       /\ \A y \in Cached : textures[y] < textures[x] => textures'[y] = 0]_gm_vars
=============================================================================
