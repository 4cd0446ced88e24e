------------------------------ MODULE VideoOut ------------------------------
(***************************************************************************)
(* Video output ports: pkg/runtime/modules/libSceVideoOut/ps4_videoout.c.  *)
(*                                                                         *)
(* A flip is counted under the port's locks, then presented without them:  *)
(* the renderer queues it and calls back, in order, when the command       *)
(* processor reaches it and when it is done (FlipPipeline), or the thread  *)
(* that submitted it does both at once, whatever is queued.                *)
(* A flip names its port by handle, its label by address.                  *)
(*                                                                         *)
(* sole and held are history, read by LabelsReleased only.                 *)
(***************************************************************************)
EXTENDS Integers, Sequences, FiniteSets, FiniteSetsExt, SequencesExt

CONSTANTS MAX_VIDEO_HANDLES, MAX_FRAME_BUFFERS, MAX_BUFFER_SETS, MAX_EQUEUES_PER_PORT,
          VoEqs, VoThreads,
          VoOpens, VoFlips, VoVblanks,  \* bounds: ports opened, flips under way, vblanks of a port
          VoLow, VoArgs,                \* low part of an event's data (time and count), flip arguments
          VoHalf,                       \* half of the values an event's data has
          CloseBusy                     \* whether the guest closes a port with flips under way

ASSUME VoAssumption ==
  /\ {MAX_VIDEO_HANDLES, MAX_FRAME_BUFFERS, MAX_BUFFER_SETS, MAX_EQUEUES_PER_PORT, VoLow} \subseteq Nat \ {0}
  /\ VoHalf \in Nat /\ VoHalf % VoLow = 0 /\ VoArgs \subseteq Int
  /\ \A a \in VoArgs : -VoHalf <= a * VoLow /\ a * VoLow < VoHalf

VARIABLES vport,    \* g_video_handles
          vhandles, \* handles given out
          vflips,   \* flips under way, those queued in order: [handle, slot, index, arg, lock, queued, reached, sole]
          vwaits,   \* each thread's sceVideoOutWaitVblank: <<slot, count seen>>, or Awake
          vevent    \* the last flip event: [data, arg]

vo_vars == <<vport, vhandles, vflips, vwaits, vevent>>

Ports == 1..MAX_VIDEO_HANDLES
Frames == 0..MAX_FRAME_BUFFERS - 1
Blank == -1
Awake == <<>>
NoEvent == [data |-> 0, arg |-> 0]
FreshPort(h) == [handle |-> h, in_use |-> h # 0, set |-> [i \in Frames |-> 0], count |-> [k \in 1..MAX_BUFFER_SETS |-> 0],
                 pending |-> 0, label |-> [i \in Frames |-> 0], prev |-> Blank, held |-> FALSE,
                 vblanks |-> 0, eqs |-> <<>>]

VoInit ==
  /\ vport = [p \in Ports |-> FreshPort(0)] /\ vhandles = 0 /\ vflips = <<>>
  /\ vwaits = [t \in VoThreads |-> Awake] /\ vevent = NoEvent

\* The ports' labels stay allocated (modelled as always there).
sceVideoOutOpen ==
  LET free == {p \in Ports : ~vport[p].in_use}
  IN  /\ free # {} /\ vhandles < VoOpens
      /\ vport' = [vport EXCEPT ![Min(free)] = FreshPort(vhandles + 1)] /\ vhandles' = vhandles + 1
      /\ UNCHANGED <<vflips, vwaits, vevent>>

\* Threads waiting for a vblank are told and look again.
sceVideoOutClose(p) ==
  /\ vport[p].in_use /\ (CloseBusy \/ \A j \in DOMAIN vflips : vflips[j].slot # p)
  /\ vport' = [vport EXCEPT ![p].in_use = FALSE]
  /\ UNCHANGED <<vhandles, vflips, vwaits, vevent>>

\* History: no flip of these buffers in this slot locks its label alone.
Shared(s, p, I) == [j \in DOMAIN s |-> IF s[j].slot = p /\ s[j].index \in I THEN [s[j] EXCEPT !.sole = FALSE] ELSE s[j]]

\* The first free set, for indices none of which is taken.
sceVideoOutRegisterBuffers(p, start, n) ==
  LET free == {k \in 1..MAX_BUFFER_SETS : vport[p].count[k] = 0}
      span == start..start + n - 1
  IN  /\ vport[p].in_use /\ free # {} /\ span \subseteq Frames /\ \A i \in span : vport[p].set[i] = 0
      /\ vport' = [vport EXCEPT ![p].set = [i \in Frames |-> IF i \in span THEN Min(free) ELSE @[i]],
                                ![p].label = [i \in Frames |-> IF i \in span THEN 0 ELSE @[i]],
                                ![p].count[Min(free)] = n, ![p].held = @ /\ vport[p].prev \notin span]
      /\ vflips' = Shared(vflips, p, span)
      /\ UNCHANGED <<vhandles, vwaits, vevent>>
sceVideoOutUnregisterBuffers(p, k) ==
  /\ vport[p].in_use /\ vport[p].count[k] # 0
  /\ vport' = [vport EXCEPT ![p].set = [i \in Frames |-> IF @[i] = k THEN 0 ELSE @[i]], ![p].count[k] = 0]
  /\ UNCHANGED <<vhandles, vflips, vwaits, vevent>>

\* A queue is listed once; one more than the port has room for is not listed.
sceVideoOutAddFlipEvent(p, q) ==
  /\ vport[p].in_use /\ q \notin ToSet(vport[p].eqs) /\ Len(vport[p].eqs) < MAX_EQUEUES_PER_PORT
  /\ vport' = [vport EXCEPT ![p].eqs = Append(@, q)]
  /\ UNCHANGED <<vhandles, vflips, vwaits, vevent>>
sceVideoOutDeleteFlipEvent(p, q) ==
  /\ vport[p].in_use
  /\ vport' = [vport EXCEPT ![p].eqs = SelectSeq(@, LAMBDA e : e # q)]
  /\ UNCHANGED <<vhandles, vflips, vwaits, vevent>>

-----------------------------------------------------------------------------
(* Flips                                                                   *)

\* ps4_videoout_submit_flip: a flip of a registered buffer or of none.
ps4_videoout_submit_flip(p, i, arg, gpu) ==
  /\ vport[p].in_use /\ Len(vflips) < VoFlips
  /\ i # Blank => vport[p].set[i] # 0
  /\ vport' = [vport EXCEPT ![p].pending = @ + 1]
  /\ vflips' = Append(vflips, [handle |-> vport[p].handle, slot |-> p, index |-> i, arg |-> arg,
                               lock |-> gpu /\ i # Blank, queued |-> FALSE, reached |-> FALSE, sole |-> FALSE])
  /\ UNCHANGED <<vhandles, vwaits, vevent>>

\* The renderer takes the picture behind those it has.  It gets none of a flip
\* without a buffer, and may refuse one.
ps4_gnm_metal_present(j) ==
  LET f == vflips[j]
  IN  /\ ~f.queued /\ ~f.reached /\ f.index # Blank
      /\ vflips' = Append(RemoveAt(vflips, j), [f EXCEPT !.queued = TRUE])
      /\ UNCHANGED <<vport, vhandles, vwaits, vevent>>

\* lock_flip_label, through the label's address: in the renderer's order, or by
\* the thread that submitted the flip, for which it may have run already.
lock_flip_label(j) ==
  LET f == vflips[j]
      again == {k \in DOMAIN vflips : k # j /\ vflips[k].reached /\ vflips[k].slot = f.slot /\ vflips[k].index = f.index}
      sole == f.lock /\ again = {} /\ vport[f.slot].prev # f.index
  IN  /\ f.queued => ~f.reached /\ \A k \in 1..j - 1 : vflips[k].queued => vflips[k].reached
      /\ vflips' = [Shared(vflips, f.slot, {f.index}) EXCEPT ![j] = [f EXCEPT !.reached = TRUE, !.sole = sole]]
      /\ vport' = IF f.lock THEN [vport EXCEPT ![f.slot].label[f.index] = 1] ELSE vport
      /\ UNCHANGED <<vhandles, vwaits, vevent>>

\* A 64-bit event: the argument above the low part, in two's complement.
EventData(low, arg) == LET v == low + arg * VoLow IN IF v >= VoHalf THEN v - 2 * VoHalf ELSE v

\* Mutant: the buffer flipped is noted before the label is cleared.
finish_flip_early(j) ==
  LET f == vflips[j]
      ps == {p \in Ports : vport[p].in_use /\ vport[p].handle = f.handle}
      done(v) == [v EXCEPT !.pending = IF @ > 0 THEN @ - 1 ELSE @, !.prev = f.index, !.held = f.sole,
                           !.label = [i \in Frames |-> IF i = f.index THEN 0 ELSE @[i]]]
  IN  /\ f.reached /\ (f.queued => \A k \in 1..j - 1 : ~vflips[k].queued) /\ vflips' = RemoveAt(vflips, j)
      /\ vport' = [p \in Ports |-> IF p \in ps THEN done(vport[p]) ELSE vport[p]]
      /\ UNCHANGED <<vhandles, vwaits, vevent>>
\* finish_flip: the label of the buffer flipped before is cleared.  Nothing
\* happens for a handle that was closed.
finish_flip(j) ==
  LET f == vflips[j]
      ps == {p \in Ports : vport[p].in_use /\ vport[p].handle = f.handle}
      done(v) == [v EXCEPT !.pending = IF @ > 0 THEN @ - 1 ELSE @, !.prev = f.index, !.held = f.sole,
                           !.label = [i \in Frames |-> IF i = v.prev THEN 0 ELSE @[i]]]
  IN  /\ f.reached /\ (f.queued => \A k \in 1..j - 1 : ~vflips[k].queued)
      /\ vflips' = RemoveAt(vflips, j)
      /\ vport' = [p \in Ports |-> IF p \in ps THEN done(vport[p]) ELSE vport[p]]
      /\ IF ps = {} \/ (\A p \in ps : vport[p].eqs = <<>>) THEN UNCHANGED vevent
         ELSE \E low \in 0..VoLow - 1 : vevent' = [data |-> EventData(low, f.arg), arg |-> f.arg]
      /\ UNCHANGED <<vhandles, vwaits>>

\* An arithmetic shift.
sceVideoOutGetEventData(data) == (data - (data % VoLow)) \div VoLow

-----------------------------------------------------------------------------
(* Vertical blanks                                                         *)

vblank(p) ==
  /\ vport[p].in_use /\ vport[p].vblanks < VoVblanks
  /\ vport' = [vport EXCEPT ![p].vblanks = @ + 1]
  /\ UNCHANGED <<vhandles, vflips, vwaits, vevent>>
sceVideoOutWaitVblank(t, p) ==
  /\ vport[p].in_use /\ vwaits[t] = Awake /\ vwaits' = [vwaits EXCEPT ![t] = <<p, vport[p].vblanks>>]
  /\ UNCHANGED <<vport, vhandles, vflips, vevent>>
wait_over(t) ==
  /\ vwaits[t] # Awake
  /\ LET v == vport[vwaits[t][1]] IN ~v.in_use \/ v.vblanks # vwaits[t][2]
  /\ vwaits' = [vwaits EXCEPT ![t] = Awake]
  /\ UNCHANGED <<vport, vhandles, vflips, vevent>>

VoNext ==
  \/ sceVideoOutOpen
  \/ \E p \in Ports : \/ sceVideoOutClose(p)
                      \/ \E i \in Frames, n \in 1..MAX_FRAME_BUFFERS : sceVideoOutRegisterBuffers(p, i, n)
                      \/ \E k \in 1..MAX_BUFFER_SETS : sceVideoOutUnregisterBuffers(p, k)
                      \/ \E q \in VoEqs : sceVideoOutAddFlipEvent(p, q) \/ sceVideoOutDeleteFlipEvent(p, q)
                      \/ \E i \in Frames \cup {Blank}, a \in VoArgs, gpu \in BOOLEAN : ps4_videoout_submit_flip(p, i, a, gpu)
  \/ \E j \in DOMAIN vflips : ps4_gnm_metal_present(j) \/ lock_flip_label(j) \/ finish_flip(j)
VoVblankNext ==
  \/ sceVideoOutOpen
  \/ \E p \in Ports : sceVideoOutClose(p) \/ vblank(p) \/ (\E t \in VoThreads : sceVideoOutWaitVblank(t, p))
  \/ \E t \in VoThreads : wait_over(t)

-----------------------------------------------------------------------------
\* A locked label is that of a flip the command processor has reached and that
\* is not done, or of the buffer shown, whose successor will clear it: no wait
\* for a flip label is left behind.  Nor is one let through early: a flip's label
\* is locked until it is done and from then until the next one of its port is,
\* unless its buffer is registered anew or flipped again meanwhile, or was shown
\* when the flip was reached.  The flips a port reports pending are those under
\* way, also when ports are closed and their slots opened again, buffer sets hold
\* what they count, and the guest reads the argument it flipped with from the
\* event.
LabelsReleased ==
  /\ \A p \in Ports : vport[p].in_use =>
       /\ \A i \in Frames : vport[p].label[i] = 1 =>
            \/ vport[p].prev = i
            \/ \E j \in DOMAIN vflips : vflips[j].reached /\ vflips[j].handle = vport[p].handle /\ vflips[j].index = i
       /\ \A j \in DOMAIN vflips : vflips[j].sole /\ vflips[j].handle = vport[p].handle => vport[p].label[vflips[j].index] = 1
       /\ vport[p].held => vport[p].label[vport[p].prev] = 1
       /\ vport[p].pending = Cardinality({j \in DOMAIN vflips : vflips[j].handle = vport[p].handle})
       /\ \A k \in 1..MAX_BUFFER_SETS : vport[p].count[k] = Cardinality({i \in Frames : vport[p].set[i] = k})
  /\ sceVideoOutGetEventData(vevent.data) = vevent.arg
=============================================================================
