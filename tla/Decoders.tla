------------------------------- MODULE Decoders -------------------------------
(***************************************************************************)
(* The decoders in three parts that share no state: the H.264 decode core, *)
(* the libSceVdecsw library on top of it, and libSceAudiodec.              *)
(***************************************************************************)
EXTENDS Integers, Sequences, FiniteSets, FiniteSetsExt, SequencesExt

-----------------------------------------------------------------------------
(***************************************************************************)
(* The H.264 decode core (ps4_h264_vt.c): access units go through          *)
(* VideoToolbox, which returns pictures in decode order, and are put into  *)
(* display order by the picture order count (POC) computed from their      *)
(* slice headers.  A picture is the number of its coded video sequence,    *)
(* the POC the encoder meant, the POC computed, and whether it came late   *)
(* (its access unit was given up by settle_pending).  The stream is what a *)
(* conforming encoder writes; pixels are left out.                         *)
(***************************************************************************)

CONSTANTS H264Depths,    \* reorder depths of the sequence parameter sets
          H264Steps,     \* POC steps of the encoders: 1 (VideoToolbox), 2 (x264)
          MaxPocLsb, MaxFrameNum,
          H264Pictures,  \* bound: access units with slices
          H264Lost       \* bound: pictures that never come back from VideoToolbox

ASSUME H264Assumption ==
  /\ H264Depths \subseteq Nat /\ H264Steps \subseteq {1, 2} /\ MaxPocLsb \in Nat /\ MaxFrameNum \in Nat \ {0}
  /\ H264Pictures \in Nat /\ H264Lost \in Nat

VARIABLES enc,   \* the encoder: what the stream said so far
          core,  \* H264VtDecoder
          shown  \* pictures handed to the library, in order, and the counts of losses

h264_vars == <<enc, core, shown>>

None == -9  \* have_last_out = false
\* prev: the last reference picture's POC; n: frame_num, not wrapped; used:
\* POCs of this sequence, in decode order; ended: only an IDR may follow.
H264Init ==
  /\ \E type \in {0, 2}, depth \in H264Depths, step \in H264Steps :
       enc = [type |-> type, depth |-> IF type = 2 THEN 0 ELSE depth, step |-> step, seq |-> 0, prev |-> 0, n |-> 0, ref |-> TRUE,
              used |-> <<>>, ended |-> TRUE, sent |-> 0]
  /\ core = [session |-> FALSE, params |-> FALSE, held |-> <<>>, last |-> None, queue |-> <<>>, pending |-> <<>>,
             msb |-> 0, lsb |-> 0, offset |-> 0, frame_num |-> 0]
  /\ shown = [out |-> <<>>, dropped |-> 0, lost |-> 0]

-----------------------------------------------------------------------------
(* The encoder.                                                            *)
Abs(x) == IF x < 0 THEN -x ELSE x
\* The access units that may come next: [idr, ref, poc, n].  At most depth
\* pictures precede one in decode order and follow it in display order, and
\* a POC is told from its low bits (8.2.1).
NextUnits ==
  LET later(p) == Cardinality({k \in DOMAIN enc.used : enc.used[k] > p})
      n == IF enc.ref THEN enc.n + 1 ELSE enc.n
      idr == [idr |-> TRUE, ref |-> TRUE, poc |-> 0, n |-> 0]
  IN  {idr} \cup
      IF enc.ended THEN {}
      ELSE IF enc.type = 2
           THEN {[idr |-> FALSE, ref |-> r, poc |-> 2 * n - (IF r THEN 0 ELSE 1), n |-> n] :
                   r \in IF enc.ref THEN BOOLEAN ELSE {TRUE}}
           ELSE {u \in {[idr |-> FALSE, ref |-> r, poc |-> enc.step * k, n |-> 0] : r \in BOOLEAN, k \in 1..H264Pictures} :
                   /\ u.poc \notin Range(enc.used) /\ later(u.poc) <= enc.depth
                   /\ 2 * Abs(u.poc - enc.prev) < MaxPocLsb}

Sent(u) ==
  enc' = [enc EXCEPT !.seq = IF u.idr THEN @ + 1 ELSE @, !.prev = IF u.ref THEN u.poc ELSE @, !.n = u.n, !.ref = u.ref,
                     !.used = IF u.idr THEN <<0>> ELSE Append(@, u.poc), !.ended = FALSE, !.sent = @ + 1]

-----------------------------------------------------------------------------
(* slice_poc: the POC of a slice, and the state the next one needs.        *)
poc_type0(c, u) ==
  LET lsb == u.poc % MaxPocLsb
      pm == IF u.idr THEN 0 ELSE c.msb
      pl == IF u.idr THEN 0 ELSE c.lsb
      msb == IF lsb < pl /\ pl - lsb >= MaxPocLsb \div 2 THEN pm + MaxPocLsb
             ELSE IF lsb > pl /\ lsb - pl > MaxPocLsb \div 2 THEN pm - MaxPocLsb ELSE pm
  IN  [poc |-> msb + lsb, c |-> IF u.ref THEN [c EXCEPT !.msb = msb, !.lsb = lsb] ELSE [c EXCEPT !.msb = pm, !.lsb = pl]]
poc_type2(c, u) ==
  LET frame_num == u.n % MaxFrameNum
      offset == IF u.idr THEN 0 ELSE IF c.frame_num > frame_num THEN c.offset + MaxFrameNum ELSE c.offset
  IN  [poc |-> IF u.idr THEN 0 ELSE 2 * (offset + frame_num) - (IF u.ref THEN 0 ELSE 1),
       c |-> [c EXCEPT !.offset = offset, !.frame_num = frame_num]]
\* Without parameter sets a slice has no POC.
slice_poc(c, u) == IF ~c.params THEN [poc |-> 0, c |-> c] ELSE IF enc.type = 0 THEN poc_type0(c, u) ELSE poc_type2(c, u)

\* The first k held pictures go to the output queue (release_one_locked).
Release(c, k) ==
  [c EXCEPT !.held = SubSeq(@, k + 1, Len(@)), !.queue = @ \o SubSeq(c.held, 1, k), !.last = IF k = 0 THEN @ ELSE c.held[k].poc]
release_all(c) == Release(c, Len(c.held))

\* hold_locked: a picture takes its place by POC; what exceeds the depth is
\* released, and then every picture that is the last released one's successor.
hold_locked(c, f, depth) ==
  LET at == Cardinality({k \in DOMAIN c.held : c.held[k].poc <= f.poc})
      h == InsertAt(c.held, at + 1, f)
      over == IF Len(h) > depth THEN Len(h) - depth ELSE 0
      before(k) == IF k = 0 THEN c.last ELSE h[k].poc
      stops == {k \in over..Len(h) : k = Len(h) \/ before(k) = None \/ h[k + 1].poc # before(k) + 1}
  IN  IF f.idr /\ c.held = <<>> THEN Release([c EXCEPT !.held = <<f>>], 1)
      ELSE Release([c EXCEPT !.held = h], Min(stops))

\* Pictures delivered one after the other, each with its depth.
DeliverAll(c, ps) == FoldLeft(LAMBDA x, p : hold_locked(x, p, p.depth), c, ps)

\* VideoToolbox finishes its delayed frames: those it did not lose come in
\* decode order; then settle_pending gives up the others.
FinishDelayed(c) == [DeliverAll(c, SelectSeq(c.pending, LAMBDA p : ~p.late)) EXCEPT !.pending = SelectSeq(@, LAMBDA p : p.late)]
settle_pending(c) == [DeliverAll(c, Reverse(c.pending)) EXCEPT !.pending = <<>>]

\* Mutant: an IDR does not let the pictures before it go first.
flush_nothing(c) == settle_pending(FinishDelayed(c))
before_idr(c) == release_all(settle_pending(FinishDelayed(c)))

-----------------------------------------------------------------------------
\* New parameter sets: the session is kept, replaced or lost (create_session);
\* a session that is given up has finished its frames.
new_params(c, made) ==
  LET done == FinishDelayed(c)
  IN  IF made THEN [done EXCEPT !.session = TRUE, !.params = TRUE]
      ELSE [settle_pending(done) EXCEPT !.session = FALSE, !.params = TRUE]

\* h264vt_decode: the POC first, with the parameter sets in force after this
\* unit's; then the session; then the picture, which VideoToolbox returns now
\* or later, fails (an error picture), or never returns.
h264vt_decode ==
  /\ enc.sent < H264Pictures
  /\ \E u \in NextUnits, params \in BOOLEAN, made \in BOOLEAN, outcome \in {"now", "later", "lost"} :
       /\ params => u.idr
       /\ outcome = "lost" => shown.lost < H264Lost
       /\ outcome = "now" => core.pending = <<>> \/ u.idr
       /\ LET p == slice_poc([core EXCEPT !.params = @ \/ params], u)
              c == IF params THEN new_params(p.c, made) ELSE p.c
              d == IF u.idr THEN before_idr(c) ELSE c
              f == [seq |-> enc.seq + (IF u.idr THEN 1 ELSE 0), meant |-> u.poc, poc |-> p.poc, idr |-> u.idr, known |-> d.params,
                    late |-> outcome = "lost", error |-> ~c.session \/ outcome = "lost",
                    depth |-> IF d.params THEN enc.depth ELSE 0]
          IN  IF ~c.session
              THEN outcome = "now" /\ core' = hold_locked(d, f, f.depth) /\ UNCHANGED shown
              ELSE /\ core' = IF outcome = "now" THEN hold_locked(d, f, f.depth) ELSE [d EXCEPT !.pending = Append(@, f)]
                   /\ shown' = [shown EXCEPT !.lost = IF outcome = "lost" THEN @ + 1 ELSE @]
       /\ Sent(u)

\* output_cb: the oldest delayed picture comes back, decoded or as an error.
output_cb ==
  /\ \E k \in DOMAIN core.pending :
       /\ ~core.pending[k].late /\ \A j \in 1..k - 1 : core.pending[j].late
       /\ core' = hold_locked([core EXCEPT !.pending = RemoveAt(@, k)], core.pending[k], core.pending[k].depth)
  /\ UNCHANGED <<enc, shown>>

\* h264vt_finish: everything goes to the queue and the sequence is over.
finished == [before_idr(core) EXCEPT !.last = None]
h264vt_finish ==
  /\ ~enc.ended /\ core' = finished /\ enc' = [enc EXCEPT !.ended = TRUE] /\ UNCHANGED shown
h264vt_reset ==
  /\ ~enc.ended /\ core' = [finished EXCEPT !.queue = <<>>] /\ enc' = [enc EXCEPT !.ended = TRUE]
  /\ shown' = [shown EXCEPT !.dropped = @ + Len(finished.queue)]

\* h264vt_pop_fitting: a picture that does not fit the buffer stays.
h264vt_pop ==
  /\ core.queue # <<>>
  /\ core' = [core EXCEPT !.queue = Tail(@)] /\ shown' = [shown EXCEPT !.out = Append(@, Head(core.queue))]
  /\ UNCHANGED enc

\* libSceVideodec takes a picture after every unit and flush: error pictures
\* before it are dropped, and so is one the frame buffer is too small for.
Errors == {k \in 0..Len(core.queue) : \A j \in 1..k : core.queue[j].error}
videodec_pop ==
  LET n == Max(Errors)
      rest == SubSeq(core.queue, n + 1, Len(core.queue))
  IN  /\ core.queue # <<>>
      /\ \E refused \in IF rest = <<>> THEN {FALSE} ELSE BOOLEAN :
           shown' = [shown EXCEPT !.dropped = @ + n + (IF refused THEN 1 ELSE 0),
                                  !.out = IF refused \/ rest = <<>> THEN @ ELSE Append(@, Head(rest))]
      /\ core' = [core EXCEPT !.queue = IF rest = <<>> THEN <<>> ELSE Tail(rest)]
      /\ UNCHANGED enc

H264Next == h264vt_decode \/ output_cb \/ h264vt_finish \/ h264vt_reset \/ h264vt_pop \/ videodec_pop

-----------------------------------------------------------------------------
\* Pictures leave in display order, sequence after sequence, none is missing
\* and the computed POC is the one the encoder meant across every wrap of its
\* low bits, although only the low bits travel, pictures are released early
\* and the session may be lost or replaced in between; only the error picture
\* of an access unit VideoToolbox never answered may be late.
DisplayOrder ==
  LET all == shown.out \o core.queue
  IN  /\ Len(all) + Len(core.held) + Len(core.pending) + shown.dropped = enc.sent
      /\ \A k \in DOMAIN all : all[k].known => all[k].poc = all[k].meant
      /\ \A j, k \in DOMAIN all : j < k /\ ~all[j].late /\ ~all[k].late =>
           \/ all[j].seq < all[k].seq
           \/ all[j].seq = all[k].seq /\ (all[j].known /\ all[k].known => all[j].poc < all[k].poc)

-----------------------------------------------------------------------------
(***************************************************************************)
(* libSceVdecsw (ps4_vdecsw.c): a table of reference-counted decoders and, *)
(* per decoder, completions of access units, the pictures of the decode    *)
(* core and one output buffer, used by guest threads that submit input,    *)
(* take output, reset and delete concurrently.  in_lock and lock are the   *)
(* decoder's two mutexes; a call is a program counter between its locked   *)
(* sections.  The core is a queue of numbered pictures of which decoding   *)
(* releases some and finishing all (the part above).                       *)
(***************************************************************************)

CONSTANTS VswThreads,
          VDECSW_MAX_DECODERS,
          VswDepth,      \* decode_pipeline_depth
          VDECSW_MAX_READY_PICTURES,
          VswCreates,    \* bound: decoders created
          VswUnits,      \* bound: access units, all of the first decoder
          VswOverlap     \* TRUE: output may be taken while an input call starts the next sequence

ASSUME VswAssumption ==
  /\ VDECSW_MAX_DECODERS \in Nat /\ VswDepth \in Nat \ {0} /\ VDECSW_MAX_READY_PICTURES \in Nat
  /\ VswCreates \in Nat /\ VswUnits \in Nat /\ VswOverlap \in BOOLEAN /\ IsFiniteSet(VswThreads) /\ 0 \notin VswThreads

VARIABLES vsw,      \* every decoder ever created, by generation
          g_decoders,
          vcall,    \* the guest threads' calls
          vsw_log   \* per decoder: units accepted, reported, and pictures that were shown

vsw_vars == <<vsw, g_decoders, vcall, vsw_log>>

VswSlots == 1..VDECSW_MAX_DECODERS
NoDecoder == 0
\* A picture is the number of its access unit.
FreshVdecsw == [alive |-> TRUE, refs |-> 1, in_lock |-> NoDecoder, done |-> <<>>, held |-> <<>>, queue |-> <<>>,
             have_output |-> FALSE, finalized |-> FALSE, ended |-> FALSE, units |-> 0]
NoCall == [at |-> "idle", d |-> 0, handle |-> 0]
NothingSeen == [reported |-> <<>>, pictures |-> <<>>, dropped |-> {}, stale |-> FALSE]

VswInit ==
  /\ vsw = <<>> /\ g_decoders = [s \in VswSlots |-> NoDecoder]
  /\ vcall = [t \in VswThreads |-> NoCall] /\ vsw_log = <<>>

-----------------------------------------------------------------------------
\* A handle is the generation and the slot, so that the decoder found in the
\* slot is the one the handle was made for.
shim_sceVdecswCreateDecoder(t) ==
  LET free == {s \in VswSlots : g_decoders[s] = NoDecoder}
      n == Len(vsw) + 1
  IN  /\ vcall[t].at = "idle" /\ free # {} /\ n <= VswCreates
      /\ vsw' = Append(vsw, FreshVdecsw) /\ vsw_log' = Append(vsw_log, NothingSeen)
      /\ g_decoders' = [g_decoders EXCEPT ![Min(free)] = n]
      /\ UNCHANGED vcall

\* Mutant: a handle finds whatever decoder is in the slot.
acquire_any(t, h, fn) ==
  \E s \in VswSlots :
    /\ g_decoders[s] # NoDecoder
    /\ vcall' = [vcall EXCEPT ![t] = [at |-> fn, d |-> g_decoders[s], handle |-> h]]
    /\ vsw' = [vsw EXCEPT ![g_decoders[s]].refs = @ + 1]

\* vdecsw_acquire: a call on handle h holds a reference on its decoder.
vdecsw_acquire(t, h, fn) ==
  \E s \in VswSlots :
    /\ g_decoders[s] # NoDecoder /\ g_decoders[s] = h
    /\ vcall' = [vcall EXCEPT ![t] = [at |-> fn, d |-> h, handle |-> h]]
    /\ vsw' = [vsw EXCEPT ![h].refs = @ + 1]

VswCalls == {"delete", "reset", "input", "sync_input", "output", "sync_output", "finalize"}
begin_call(t) ==
  /\ vcall[t].at = "idle"
  /\ \E h \in DOMAIN vsw, fn \in VswCalls : vdecsw_acquire(t, h, fn)
  /\ UNCHANGED <<g_decoders, vsw_log>>

At(t, fn) == vcall[t].at = fn
D(t) == vsw[vcall[t].d]
Goto(t, pc) == vcall' = [vcall EXCEPT ![t].at = pc]
Update(t, x) == vsw' = [vsw EXCEPT ![vcall[t].d] = x]

\* vdecsw_release: the last reference frees the decoder.
vdecsw_release(t) ==
  /\ At(t, "release")
  /\ IF D(t).refs > 1 THEN Update(t, [D(t) EXCEPT !.refs = @ - 1]) /\ UNCHANGED vsw_log
     ELSE /\ Update(t, [FreshVdecsw EXCEPT !.refs = 0, !.alive = FALSE])
          /\ vsw_log' = [vsw_log EXCEPT ![vcall[t].d] = NothingSeen]
  /\ vcall' = [vcall EXCEPT ![t] = NoCall] /\ UNCHANGED g_decoders

\* The table's reference goes with the first delete to get there.
shim_sceVdecswDeleteDecoder(t) ==
  LET mine == \E s \in VswSlots : g_decoders[s] = vcall[t].d
  IN  /\ At(t, "delete")
      /\ g_decoders' = [s \in VswSlots |-> IF g_decoders[s] = vcall[t].d THEN NoDecoder ELSE g_decoders[s]]
      /\ Update(t, [D(t) EXCEPT !.refs = IF mine THEN @ - 1 ELSE @])
      /\ Goto(t, "release") /\ UNCHANGED vsw_log

-----------------------------------------------------------------------------
lock_input(t, fn) ==
  LET locked == [reset |-> "reset_locked", input |-> "input_locked", finalize |-> "finalize_locked"]
  IN  /\ At(t, fn) /\ D(t).in_lock = NoDecoder
      /\ fn = "input" => vcall[t].d = 1 /\ D(t).units < VswUnits /\ (D(t).finalized => D(t).ended)
      /\ Update(t, [D(t) EXCEPT !.in_lock = t]) /\ Goto(t, locked[fn])
      /\ UNCHANGED <<g_decoders, vsw_log>>

Dropped(t, ps) == vsw_log' = [vsw_log EXCEPT ![vcall[t].d].dropped = @ \cup ps]

\* h264vt_reset, then the decoder's own state under lock.
vdecsw_ResetDecoder(t) ==
  \/ /\ At(t, "reset_locked")
     /\ Update(t, [D(t) EXCEPT !.held = <<>>, !.queue = <<>>])
     /\ Dropped(t, Range(D(t).held \o D(t).queue)) /\ Goto(t, "reset_done") /\ UNCHANGED g_decoders
  \/ /\ At(t, "reset_done")
     /\ vsw_log' = [vsw_log EXCEPT ![vcall[t].d].reported = @ \o D(t).done]
     /\ Update(t, [D(t) EXCEPT !.done = <<>>, !.have_output = FALSE, !.finalized = FALSE, !.ended = FALSE, !.in_lock = NoDecoder])
     /\ Goto(t, "release") /\ UNCHANGED g_decoders

\* Input is refused while the pipeline is full of completions or the core of
\* pictures; otherwise the unit is decoded without lock.
vdecsw_SetDecodeInput(t) ==
  LET d == D(t)
      n == d.units + 1
      held == Append(d.held, n)
  IN  \/ /\ At(t, "input_locked")
         /\ Goto(t, IF Len(d.done) >= VswDepth THEN "input_unlock" ELSE "input_decode")
         /\ UNCHANGED <<vsw, g_decoders, vsw_log>>
      \/ /\ At(t, "input_decode") /\ Len(d.queue) < VDECSW_MAX_READY_PICTURES
         /\ \E k \in 0..Len(held) :
              Update(t, [d EXCEPT !.units = n, !.held = SubSeq(held, k + 1, Len(held)), !.queue = @ \o SubSeq(held, 1, k)])
         /\ Goto(t, "input_done") /\ UNCHANGED <<g_decoders, vsw_log>>
      \/ /\ At(t, "input_decode") /\ Len(d.queue) >= VDECSW_MAX_READY_PICTURES
         /\ Goto(t, "input_unlock") /\ UNCHANGED <<vsw, g_decoders, vsw_log>>
      \/ /\ At(t, "input_done")
         /\ Update(t, [d EXCEPT !.finalized = FALSE, !.ended = FALSE, !.done = Append(@, d.units)])
         /\ Goto(t, "input_unlock") /\ UNCHANGED <<g_decoders, vsw_log>>
      \/ /\ At(t, "input_unlock")
         /\ Update(t, [d EXCEPT !.in_lock = NoDecoder]) /\ Goto(t, "release") /\ UNCHANGED <<g_decoders, vsw_log>>

vdecsw_TrySyncDecodeInput(t) ==
  /\ At(t, "sync_input")
  /\ LET d == D(t) IN
     IF d.done = <<>> THEN UNCHANGED <<vsw, vsw_log>>
     ELSE /\ Update(t, [d EXCEPT !.done = Tail(@)])
          /\ vsw_log' = [vsw_log EXCEPT ![vcall[t].d].reported = Append(@, Head(d.done))]
  /\ Goto(t, "release") /\ UNCHANGED g_decoders

\* One output buffer at a time.
vdecsw_SetDecodeOutput(t) ==
  /\ At(t, "output")
  /\ Update(t, [D(t) EXCEPT !.have_output = TRUE])
  /\ Goto(t, "release") /\ UNCHANGED <<g_decoders, vsw_log>>

\* An input call has decoded but not yet noted that the sequence goes on.
Starting(i) == \E u \in VswThreads : vcall[u].at = "input_done" /\ vcall[u].d = i

\* Without a picture the buffer stays, unless the sequence is over; otherwise
\* the picture is popped, the last one if the sequence was finalized and the
\* core has no other.
vdecsw_TrySyncDecodeOutput(t) ==
  LET d == D(t)
      i == vcall[t].d
  IN  \/ /\ At(t, "sync_output") /\ (d.have_output => d.queue = <<>>)
         /\ IF d.have_output /\ d.finalized
            THEN Update(t, [d EXCEPT !.have_output = FALSE, !.ended = TRUE]) /\ UNCHANGED vsw_log
            ELSE UNCHANGED <<vsw, vsw_log>>
         /\ Goto(t, "release")
      \/ /\ At(t, "sync_output") /\ d.have_output /\ d.queue # <<>>
         /\ VswOverlap \/ ~Starting(i)
         /\ LET f == Head(d.queue)
                last == d.finalized /\ Len(d.queue) = 1
            IN  /\ Update(t, [d EXCEPT !.queue = Tail(@), !.have_output = FALSE, !.ended = @ \/ last])
                /\ vsw_log' = [vsw_log EXCEPT ![i].pictures = Append(@, f),
                                              ![i].stale = @ \/ (last /\ (d.held # <<>> \/ Starting(i)))]
         /\ Goto(t, "release")

vdecsw_FinalizeDecodeSequence(t) ==
  \/ /\ At(t, "finalize_locked")
     /\ Update(t, [D(t) EXCEPT !.held = <<>>, !.queue = @ \o D(t).held]) /\ Goto(t, "finalize_done")
     /\ UNCHANGED <<g_decoders, vsw_log>>
  \/ /\ At(t, "finalize_done")
     /\ Update(t, [D(t) EXCEPT !.finalized = TRUE, !.in_lock = NoDecoder]) /\ Goto(t, "release")
     /\ UNCHANGED <<g_decoders, vsw_log>>

VswNext == \E t \in VswThreads :
  \/ shim_sceVdecswCreateDecoder(t) \/ begin_call(t) \/ vdecsw_release(t) \/ shim_sceVdecswDeleteDecoder(t)
  \/ \E fn \in {"reset", "input", "finalize"} : lock_input(t, fn)
  \/ vdecsw_ResetDecoder(t) \/ vdecsw_SetDecodeInput(t) \/ vdecsw_TrySyncDecodeInput(t)
  \/ vdecsw_SetDecodeOutput(t) \/ (vdecsw_TrySyncDecodeOutput(t) /\ UNCHANGED g_decoders) \/ vdecsw_FinalizeDecodeSequence(t)

-----------------------------------------------------------------------------
\* A call works on the decoder its handle was made for and that decoder is not
\* freed before the call returns, whoever deletes it; it is freed when the
\* table and every call are done with it.  Every accepted unit is reported
\* complete once, in order, and its picture is handed out once, in order,
\* unless a reset dropped it; and no picture is called the last while another
\* of its sequence, or the first of the next, is on its way.
CallsKeepDecoders ==
  /\ \A t \in VswThreads : vcall[t].at # "idle" => vsw[vcall[t].d].alive /\ vcall[t].d = vcall[t].handle
  /\ \A i \in DOMAIN vsw :
       LET d == vsw[i]
           log == vsw_log[i]
       IN  /\ d.refs = Cardinality({s \in VswSlots : g_decoders[s] = i}) + Cardinality({t \in VswThreads : vcall[t].d = i})
           /\ d.alive <=> d.refs > 0
           /\ log.reported \o d.done = [k \in 1..Len(log.reported \o d.done) |-> k]
           /\ Range(log.pictures \o d.queue \o d.held) \cup log.dropped = 1..d.units
           /\ \A j, k \in DOMAIN log.pictures : j < k => log.pictures[j] < log.pictures[k]
           /\ ~log.stale

-----------------------------------------------------------------------------
(***************************************************************************)
(* libSceAudiodec (ps4_audiodec.c): a table of reference-counted AAC       *)
(* decoders, whose handles carry a generation, used by guest threads that  *)
(* create, delete and decode concurrently.  A decoder's converter is made  *)
(* for one sampling rate and channel count and rebuilt when an access unit *)
(* has others.  A call is a program counter between its locked sections;   *)
(* an access unit is what its header says of it and whether the converter  *)
(* (external, AudioToolbox) takes it.                                      *)
(***************************************************************************)
CONSTANTS AdecThreads,
          AUDIODEC_MAX_DECODERS,
          AdecGenerations,  \* 1 << (31 - AUDIODEC_SLOT_BITS)
          AUDIODEC_FRAME,
          AUDIODEC_MAX_CH,
          AdecRates,
          AdecInputs,       \* the access units and pcm sizes of the instance, of which every check fails once
          AdecCreates       \* bound: decoders created

ASSUME AdecAssumption ==
  /\ AUDIODEC_MAX_DECODERS \in Nat /\ AdecGenerations \in Nat \ {0} /\ AUDIODEC_FRAME \in Nat \ {0}
  /\ AUDIODEC_MAX_CH \in Nat /\ AdecCreates \in Nat /\ IsFiniteSet(AdecThreads) /\ 0 \notin AdecThreads
  /\ AdecRates \subseteq Nat \ {0}
  /\ \A in \in AdecInputs : /\ in.unit.bytes \in {"short", "whole"} /\ in.unit.rate \in AdecRates
                            /\ in.unit.channels \in 0..7 /\ in.unit.accepted \in BOOLEAN /\ in.room \in Nat

VARIABLES adec,        \* every decoder ever created, in the order of creation
          adec_table,  \* g_decoders: decoder in a slot, or 0
          adec_gen,    \* g_generation
          adec_inits,  \* g_init_count
          adcall       \* the guest threads' calls

adec_vars == <<adec, adec_table, adec_gen, adec_inits, adcall>>

AdecSlots == 0..(AUDIODEC_MAX_DECODERS - 1)
NoConverter == [rate |-> 0, channels |-> 0]
Params == [config : {"ADTS", "RAW"}, rate : AdecRates, max_channels : {1, 2}, word_bytes : {2, 4}]
\* An access unit is what adts_parse, or its first syntactic element, gives.
NoUnit == [bytes |-> "none", rate |-> 0, channels |-> 0, accepted |-> FALSE]
NotCalling == [at |-> "idle", d |-> 0, unit |-> NoUnit, room |-> 0, rc |-> "OK", pcm |-> 0, consumed |-> "none"]

AdecInit ==
  /\ adec = <<>> /\ adec_table = [s \in AdecSlots |-> 0] /\ adec_gen = 0 /\ adec_inits = 0
  /\ adcall = [t \in AdecThreads |-> NotCalling]

-----------------------------------------------------------------------------
\* InitLibrary and TermLibrary only count; no other call looks at the count.
shim_sceAudiodecInitLibrary ==
  /\ adec_inits < 1 /\ adec_inits' = adec_inits + 1 /\ UNCHANGED <<adec, adec_table, adec_gen, adcall>>
shim_sceAudiodecTermLibrary ==
  /\ adec_inits > 0 /\ adec_inits' = adec_inits - 1 /\ UNCHANGED <<adec, adec_table, adec_gen, adcall>>

\* read_param refuses all but the values of Params; the lowest free slot is
\* taken with the next generation.
shim_sceAudiodecCreateDecoder(t, p) ==
  LET free == {s \in AdecSlots : adec_table[s] = 0}
      g == (adec_gen + 1) % AdecGenerations
  IN  /\ adcall[t].at = "idle" /\ Len(adec) < AdecCreates /\ free # {}
      /\ adec_gen' = g
      /\ adec' = Append(adec, [alive |-> TRUE, refs |-> 1, lock |-> 0, slot |-> Min(free), gen |-> g,
                               param |-> p, conv |-> NoConverter])
      /\ adec_table' = [adec_table EXCEPT ![Min(free)] = Len(adec) + 1]
      /\ UNCHANGED <<adec_inits, adcall>>

\* audiodec_acquire: handle h, a pair of slot and generation, finds the
\* decoder with that id or none.
audiodec_acquire(t, h, call) ==
  LET i == adec_table[h.slot]
  IN  /\ adcall[t].at = "idle" /\ i # 0 /\ adec[i].gen = h.gen
      /\ adec' = [adec EXCEPT ![i].refs = @ + 1]
      /\ adcall' = [adcall EXCEPT ![t] = [call EXCEPT !.d = i]]
      /\ UNCHANGED <<adec_table, adec_gen, adec_inits>>

AdecHandles == {[slot |-> adec[i].slot, gen |-> adec[i].gen] : i \in DOMAIN adec}

audiodec_release(t) ==
  LET i == adcall[t].d
      last == adec[i].refs = 1
  IN  /\ adcall[t].at = "release"
      /\ adec' = [adec EXCEPT ![i].refs = @ - 1, ![i].alive = ~last, ![i].conv = IF last THEN NoConverter ELSE @]
      /\ adcall' = [adcall EXCEPT ![t] = NotCalling]
      /\ UNCHANGED <<adec_table, adec_gen, adec_inits>>

shim_sceAudiodecDeleteDecoder(t) ==
  LET i == adcall[t].d
      mine == adec_table[adec[i].slot] = i
  IN  /\ adcall[t].at = "delete"
      /\ adec_table' = [adec_table EXCEPT ![adec[i].slot] = IF mine THEN 0 ELSE @]
      /\ adec' = [adec EXCEPT ![i].refs = IF mine THEN @ - 1 ELSE @]
      /\ adcall' = [adcall EXCEPT ![t].at = "release", ![t].rc = IF mine THEN "OK" ELSE "INVALID_HANDLE"]
      /\ UNCHANGED <<adec_gen, adec_inits>>

-----------------------------------------------------------------------------
\* Mutant: d->lock is not taken.
decode_unlocked(t) ==
  /\ adcall[t].at = "decode"
  /\ adcall' = [adcall EXCEPT ![t].at = "check"]
  /\ UNCHANGED <<adec, adec_table, adec_gen, adec_inits>>

decode_lock(t) ==
  /\ adcall[t].at = "decode" /\ adec[adcall[t].d].lock = 0
  /\ adec' = [adec EXCEPT ![adcall[t].d].lock = t]
  /\ adcall' = [adcall EXCEPT ![t].at = "check"]
  /\ UNCHANGED <<adec_table, adec_gen, adec_inits>>

Fails(t, rc) == adcall' = [adcall EXCEPT ![t].at = "unlock", ![t].rc = rc]

\* What the unit is by its header: in raw mode the rate is the parameter's and
\* the first element tells stereo from everything else.
Format(p, u) ==
  IF p.config = "ADTS" THEN [rate |-> u.rate, channels |-> u.channels]
  ELSE [rate |-> p.rate, channels |-> IF u.channels = 2 THEN 2 ELSE 1]

\* The checks of audiodec_decode before it touches the converter.
Refusal(p, u, room) ==
  LET f == Format(p, u)
  IN  CASE p.config = "ADTS" /\ u.bytes = "short" -> "INVALID_SIZE"
        [] p.config = "ADTS" /\ u.channels = 0 -> "UNSUPPORTED"
        [] f.channels > p.max_channels \/ f.channels > AUDIODEC_MAX_CH -> "CH_SHORTAGE"
        [] room < AUDIODEC_FRAME * f.channels * p.word_bytes -> "INVALID_SIZE"
        [] OTHER -> "OK"

\* audiodec_open_converter: kept for the same format, else rebuilt, which may
\* fail and leaves none.
audiodec_open_converter(t) ==
  LET i == adcall[t].d
      f == Format(adec[i].param, adcall[t].unit)
      rc == Refusal(adec[i].param, adcall[t].unit, adcall[t].room)
  IN  /\ adcall[t].at = "check"
      /\ \/ rc # "OK" /\ Fails(t, rc) /\ UNCHANGED adec
         \/ /\ rc = "OK" /\ adec' = [adec EXCEPT ![i].conv = f]
            /\ adcall' = [adcall EXCEPT ![t].at = "convert"]
         \/ /\ rc = "OK" /\ adec[i].conv # f
            /\ adec' = [adec EXCEPT ![i].conv = NoConverter] /\ Fails(t, "API_FAIL")
      /\ UNCHANGED <<adec_table, adec_gen, adec_inits>>

\* audiodec_decode_raw and the stores to the guest: one packet gives at most
\* one frame (none while the converter primes); a rejected one resets it.
audiodec_decode_raw(t) ==
  LET i == adcall[t].d
      d == adec[i]
      u == adcall[t].unit
  IN  /\ adcall[t].at = "convert"
      /\ \/ ~u.accepted /\ Fails(t, "API_FAIL")
         \/ /\ u.accepted
            /\ \E frames \in {0, AUDIODEC_FRAME} :
                 adcall' = [adcall EXCEPT ![t].at = "unlock", ![t].pcm = frames * d.conv.channels * d.param.word_bytes,
                              ![t].consumed = IF d.param.config = "ADTS" THEN "frame" ELSE "all"]
      /\ UNCHANGED <<adec, adec_table, adec_gen, adec_inits>>

decode_unlock(t) ==
  /\ adcall[t].at = "unlock"
  /\ adec' = [adec EXCEPT ![adcall[t].d].lock = IF @ = t THEN 0 ELSE @]
  /\ adcall' = [adcall EXCEPT ![t].at = "release"]
  /\ UNCHANGED <<adec_table, adec_gen, adec_inits>>

AdecNext ==
  \/ shim_sceAudiodecInitLibrary \/ shim_sceAudiodecTermLibrary
  \/ \E t \in AdecThreads :
       \/ \E p \in Params : p.rate = Min(AdecRates) /\ (p.config = "RAW" <=> p.max_channels = 1) /\ p.word_bytes = 2
                             /\ shim_sceAudiodecCreateDecoder(t, p)
       \/ \E h \in AdecHandles : audiodec_acquire(t, h, [NotCalling EXCEPT !.at = "delete"])
       \/ \E h \in AdecHandles, in \in AdecInputs :
            audiodec_acquire(t, h, [NotCalling EXCEPT !.at = "decode", !.unit = in.unit, !.room = in.room])
       \/ audiodec_release(t) \/ shim_sceAudiodecDeleteDecoder(t)
       \/ decode_lock(t) \/ audiodec_open_converter(t) \/ audiodec_decode_raw(t) \/ decode_unlock(t)

-----------------------------------------------------------------------------
\* A decoder lives while the table or a call refers to it and no longer; a
\* decode that succeeds has converted its unit with a converter of the unit's
\* own format, whatever units other threads decode on the same decoder, and
\* what it says it produced fits the caller's buffer; one that fails tells the
\* caller nothing was consumed or produced.
AudiodecExact ==
  /\ \A i \in DOMAIN adec :
       /\ adec[i].alive <=> adec[i].refs > 0
       /\ adec[i].refs = Cardinality({s \in AdecSlots : adec_table[s] = i}) + Cardinality({t \in AdecThreads : adcall[t].d = i})
  /\ \A t \in AdecThreads : LET c == adcall[t] IN c.at # "idle" =>
       /\ adec[c.d].alive
       /\ c.at = "convert" => adec[c.d].conv = Format(adec[c.d].param, c.unit)
       /\ c.rc # "OK" => c.pcm = 0 /\ c.consumed = "none"
       /\ c.pcm <= c.room
=============================================================================
