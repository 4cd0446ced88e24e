----------------------------- MODULE GnmDriver ------------------------------
(***************************************************************************)
(* libSceGnmDriver (ps4_gnmdriver.c) in two parts: the compute rings with  *)
(* their interrupts, and the packets the guest builds and submits.         *)
(***************************************************************************)
EXTENDS Naturals, Sequences, FiniteSets, FiniteSetsExt, SequencesExt

-----------------------------------------------------------------------------
(***************************************************************************)
(* Compute queues and GPU interrupts of the GNM driver:                    *)
(* pkg/runtime/modules/libSceGnmDriver/ps4_gnmdriver.c, with the queues of *)
(* ps4_gnm_wait_queue.h that ps4_gnm_metal.mm keeps behind them.           *)
(*                                                                         *)
(* A doorbell holds g_gnm_compute_mutex; each ring span it hands over is a *)
(* submission that runs under the CP's mutex, in order, and stops at a     *)
(* WAIT_REG_MEM.  The watchdog resumes stopped queues between the spans.   *)
(* Every dword of a ring stands for one packet.                            *)
(***************************************************************************)

CONSTANTS GnmQueues,      \* compute queues by pipe and queue number
          GNM_MAX_COMPUTE_QUEUES,
          RingSize,       \* dwords of every ring
          GnmPending,     \* bound: submissions waiting in one queue
          GnmEqs, GnmIrqs,
          GNM_MAX_EQ_REGS

ASSUME GnmAssumption == {GNM_MAX_COMPUTE_QUEUES, RingSize, GNM_MAX_EQ_REGS} \subseteq Nat \ {0} /\ GnmPending \in Nat /\ "none" \notin GnmQueues

VARIABLES cqueue,     \* g_compute_queues: [hw, next_offs, read_ptr] in each slot
          cq,         \* g_cq: the submissions of each slot and whether the first one waits
          bell,       \* the doorbell that holds g_gnm_compute_mutex
          g_eq_regs,  \* registrations: <<queue, interrupt>>, or NoReg
          irq_hits    \* what ps4_gnm_signal_interrupt has copied and not triggered yet

gnm_vars == <<cqueue, cq, bell, g_eq_regs, irq_hits>>

CqSlots == 1..GNM_MAX_COMPUTE_QUEUES
Unmapped == [hw |-> "none", next_offs |-> 0, read_ptr |-> 0]
EmptyCq == [pending |-> <<>>, suspended |-> FALSE]
NoBell == [slot |-> 0, spans |-> <<>>, next |-> 0, waiting |-> FALSE]
NoReg == <<>>

GnmInit ==
  /\ cqueue = [i \in CqSlots |-> Unmapped] /\ cq = [i \in CqSlots |-> EmptyCq] /\ bell = NoBell
  /\ g_eq_regs = [i \in 1..GNM_MAX_EQ_REGS |-> NoReg] /\ irq_hits = {}

-----------------------------------------------------------------------------
(* WaitQueue<ComputeSubmit>: a submission is the span [at, end) still to run *)

\* What is left when some submissions have run, and n dwords of the next.
Left(p, done, n) ==
  LET rest == SubSeq(p, done + 1, Len(p)) IN IF rest = <<>> THEN <<>> ELSE [rest EXCEPT ![1].at = @ + n]

\* Run: the first submission passes its wait, then packets run until the queue
\* is empty or one of them waits.  progress() moves the read pointer.
Run(i, q) ==
  \E done \in 0..Len(q.pending), n \in 0..RingSize - 1 :
    LET left == Left(q.pending, done, n)
        ran == IF n > 0 THEN left[1].at ELSE q.pending[done].end
    IN  /\ n > 0 => done < Len(q.pending) /\ q.pending[done + 1].at + n < q.pending[done + 1].end
        /\ cq' = [cq EXCEPT ![i] = [pending |-> left, suspended |-> left # <<>>]]
        /\ cqueue' = IF done = 0 /\ n = 0 THEN cqueue ELSE [cqueue EXCEPT ![i].read_ptr = ran % RingSize]

\* A stopped queue whose value arrived, or whose 50 ms are over.
ResumeComputeQueues(i) ==
  /\ cq[i].suspended /\ Run(i, cq[i])
  /\ cq'[i] # cq[i]
  /\ UNCHANGED <<bell, g_eq_regs, irq_hits>>

\* ps4_gnm_metal_process_compute_packets: behind what waits, or at once.
process_compute_packets(i, s) ==
  LET q == [cq[i] EXCEPT !.pending = Append(@, s)]
  IN  IF cq[i].suspended THEN cq' = [cq EXCEPT ![i] = q] /\ UNCHANGED cqueue ELSE Run(i, q)

-----------------------------------------------------------------------------
(* Doorbells                                                               *)

Span2(a, b) == [at |-> a, end |-> b]

\* Mutant: a wrapped submission is taken from the start of the ring only.
spans_no_tail(offs, next) == IF next = offs THEN <<>> ELSE <<Span2(IF next < offs THEN 0 ELSE offs, next)>>
\* The spans from the last offset to the new one: the tail of the ring first
\* when the submission wrapped; offset 0 stands for the end of the ring.
Spans(offs, next) ==
  LET end == IF next = 0 THEN RingSize ELSE next
      wrapped == next < offs /\ next # 0
      tail == IF wrapped /\ offs < RingSize THEN <<Span2(offs, RingSize)>> ELSE <<>>
      from == IF wrapped THEN 0 ELSE offs
  IN  IF next = offs THEN <<>> ELSE tail \o (IF end > from THEN <<Span2(from, end)>> ELSE <<>>)

\* The guest rings for packets it added and had room for: at least one, and
\* never up to the read pointer.
Room(i, next) ==
  LET used == (cqueue[i].next_offs + RingSize - cqueue[i].read_ptr) % RingSize
      more == (next + RingSize - cqueue[i].next_offs) % RingSize
  IN  more > 0 /\ used + more < RingSize

ps4_gnm_dingdong(i) ==
  /\ bell = NoBell /\ cqueue[i].hw # "none" /\ Len(cq[i].pending) < GnmPending
  /\ \E next \in 0..RingSize :
       /\ Room(i, next)
       /\ bell' = [slot |-> i, spans |-> Spans(cqueue[i].next_offs, next), next |-> next, waiting |-> FALSE]
  /\ UNCHANGED <<cqueue, cq, g_eq_regs, irq_hits>>

gnm_process_ring_span ==
  /\ bell # NoBell /\ bell.spans # <<>>
  /\ process_compute_packets(bell.slot, Head(bell.spans))
  /\ bell' = [bell EXCEPT !.spans = Tail(@), !.waiting = @ \/ cq'[bell.slot].pending # <<>>]
  /\ UNCHANGED <<g_eq_regs, irq_hits>>

\* Mutant: the read pointer moves although packets wait.
dingdong_end_always ==
  /\ bell # NoBell /\ bell.spans = <<>> /\ bell' = NoBell
  /\ cqueue' = [cqueue EXCEPT ![bell.slot].next_offs = bell.next, ![bell.slot].read_ptr = bell.next % RingSize]
  /\ UNCHANGED <<cq, g_eq_regs, irq_hits>>
dingdong_end ==
  /\ bell # NoBell /\ bell.spans = <<>> /\ bell' = NoBell
  /\ cqueue' = [cqueue EXCEPT ![bell.slot].next_offs = bell.next,
                              ![bell.slot].read_ptr = IF bell.waiting THEN @ ELSE bell.next % RingSize]
  /\ UNCHANGED <<cq, g_eq_regs, irq_hits>>

\* The slot of the same hardware queue, else the first free one; submissions
\* of the old mapping are dropped.
sceGnmMapComputeQueue(h) ==
  LET same == {i \in CqSlots : cqueue[i].hw = h}
      free == {i \in CqSlots : cqueue[i].hw = "none"}
      i == Min(IF same # {} THEN same ELSE free)
  IN  /\ bell = NoBell /\ same \cup free # {}
      /\ cqueue' = [cqueue EXCEPT ![i] = [Unmapped EXCEPT !.hw = h]]
      /\ cq' = [cq EXCEPT ![i] = EmptyCq]
      /\ UNCHANGED <<bell, g_eq_regs, irq_hits>>

sceGnmUnmapComputeQueue(i) ==
  /\ bell = NoBell /\ cqueue[i].hw # "none"
  /\ cqueue' = [cqueue EXCEPT ![i] = Unmapped] /\ cq' = [cq EXCEPT ![i] = EmptyCq]
  /\ UNCHANGED <<bell, g_eq_regs, irq_hits>>

-----------------------------------------------------------------------------
(* Interrupts and event queues                                             *)

\* A registration that is there keeps its entry.
sceGnmAddEqEvent(q, id) ==
  LET same == {i \in DOMAIN g_eq_regs : g_eq_regs[i] = <<q, id>>}
      free == {i \in DOMAIN g_eq_regs : g_eq_regs[i] = NoReg}
  IN  /\ same = {} /\ free # {}
      /\ g_eq_regs' = [g_eq_regs EXCEPT ![Min(free)] = <<q, id>>]
      /\ UNCHANGED <<cqueue, cq, bell, irq_hits>>

\* The events of the interrupt leave the queue too (EventQueue).
sceGnmDeleteEqEvent(q, id) ==
  /\ g_eq_regs' = [i \in DOMAIN g_eq_regs |-> IF g_eq_regs[i] = <<q, id>> THEN NoReg ELSE g_eq_regs[i]]
  /\ UNCHANGED <<cqueue, cq, bell, irq_hits>>

\* The registrations are copied under g_gnm_eq_mutex and triggered after it.
ps4_gnm_signal_interrupt(id) ==
  /\ irq_hits = {}
  /\ irq_hits' = {r \in Range(g_eq_regs) : r # NoReg /\ r[2] = id}
  /\ UNCHANGED <<cqueue, cq, bell, g_eq_regs>>
trigger_hit ==
  /\ \E h \in irq_hits : irq_hits' = irq_hits \ {h}
  /\ UNCHANGED <<cqueue, cq, bell, g_eq_regs>>

GnmRingNext ==
  \/ gnm_process_ring_span \/ dingdong_end
  \/ \E i \in CqSlots : ps4_gnm_dingdong(i) \/ ResumeComputeQueues(i) \/ sceGnmUnmapComputeQueue(i)
  \/ \E h \in GnmQueues : sceGnmMapComputeQueue(h)
GnmIrqNext ==
  \/ \E q \in GnmEqs, id \in GnmIrqs : sceGnmAddEqEvent(q, id) \/ sceGnmDeleteEqEvent(q, id)
  \/ \E id \in GnmIrqs : ps4_gnm_signal_interrupt(id)
  \/ trigger_hit

-----------------------------------------------------------------------------
\* What a queue has still to run is, span after span, what the guest rang for
\* from the read pointer to the last offset, so that no packet is skipped, run
\* twice or given back to the guest before it ran, whatever waits and wraps; a
\* hardware queue has one slot; and an interrupt reaches a queue once.
RingRunsInOrder ==
  /\ \A i \in CqSlots : LET p == cq[i].pending \o (IF bell.slot = i THEN bell.spans ELSE <<>>)
                            last == IF bell.slot = i THEN bell.next ELSE cqueue[i].next_offs
                        IN  /\ \A j \in 1..Len(p) - 1 : p[j].end % RingSize = p[j + 1].at
                            /\ p # <<>> => p[1].at = cqueue[i].read_ptr /\ p[Len(p)].end % RingSize = last % RingSize
                            /\ p = <<>> => cqueue[i].read_ptr = last % RingSize
  /\ \A i, j \in CqSlots : i # j /\ cqueue[i].hw # "none" => cqueue[i].hw # cqueue[j].hw
  /\ \A i, j \in DOMAIN g_eq_regs : i # j /\ g_eq_regs[i] # NoReg => g_eq_regs[i] # g_eq_regs[j]

-----------------------------------------------------------------------------
(***************************************************************************)
(* Command buffers as the GNM driver writes, patches and submits them:     *)
(* pkg/runtime/modules/libSceGnmDriver/ps4_gnmdriver.c.                    *)
(*                                                                         *)
(* A PM4 packet is its length in dwords, as its header says it, and what   *)
(* it does.  A builder writes one call's packets into the dwords the guest *)
(* set aside for it, which must be exactly filled: the command processor   *)
(* goes from header to header.  The guest's own flip requests are packets  *)
(* too, a sentinel (HLE sceGnmPrepareFlip) or a 64-dword NOP at the end.   *)
(***************************************************************************)

CONSTANT GnmDwords  \* bound: a buffer this long gets no more calls

VARIABLES dcb,      \* the command buffer: packets [len, does]
          dcb_size, \* the dwords the guest reserved for them
          dcb_at,   \* "build", "patched" (with an interrupt to come: "patched_eop") or "flip"
          dcb_flip, \* the flip request in it, or "none"
          dcb_done  \* what patching and running it did, in order

pkt_vars == <<dcb, dcb_size, dcb_at, dcb_flip, dcb_done>>

Nop(n) == [len |-> n, does |-> "nop"]
Cmd(n) == [len |-> n, does |-> "run"]
\* write_trailing_nop: a header and n dwords.
write_trailing_nop(n) == Nop(n + 1)
Cmds(lens) == [j \in DOMAIN lens |-> Cmd(lens[j])]

\* The dwords of each draw and dispatch call, and its packets.
DrawPackets ==
  {<<10, Cmds(<<6>>) \o <<write_trailing_nop(3)>>>>,                    \* sceGnmDrawIndex
   <<7, Cmds(<<3>>) \o <<write_trailing_nop(3)>>>>,                     \* DrawIndexAuto, DispatchIndirect
   <<9, Cmds(<<5>>) \o <<write_trailing_nop(3)>>>>,                     \* DrawIndexOffset, the indirect draws, DispatchDirect
   <<16, <<Nop(3)>> \o Cmds(<<10>>) \o <<write_trailing_nop(2)>>>>,     \* DrawIndexIndirectCountMulti
   <<11, Cmds(<<7>>) \o <<write_trailing_nop(3)>>>>,                    \* the multi draws
   <<8, Cmds(<<4>>) \o <<Nop(4)>>>>}                                    \* DispatchIndirectOnMec

\* The register writes of the vertex and pixel stages.
VsPsPackets ==
  {<<29, Cmds(<<4, 4, 3, 3, 3>>) \o <<write_trailing_nop(11)>>>>,       \* sceGnmSetVsShader
   <<29, <<write_trailing_nop(28)>>>>,                                  \* SetEmbeddedVsShader
   <<40, Cmds(<<4, 3>>) \o <<write_trailing_nop(32)>>>>,                \* SetPsShader, none
   <<40, Cmds(<<4, 3, 3>>) \o <<write_trailing_nop(29)>>>>,             \* SetPsShader350, none
   <<40, Cmds(<<4, 4, 4, 4, 3, 3, 3, 3>>) \o <<write_trailing_nop(11)>>>>, \* SetPsShader350
   <<40, <<write_trailing_nop(39)>>>>}                                  \* SetEmbeddedPsShader

\* The other stages.
StagePackets ==
  {<<29, Cmds(<<4, 4, 3, 3, 3>>) \o <<write_trailing_nop(11)>>>>,       \* sceGnmSetGsShader
   <<30, Cmds(<<4, 4, 4, 3, 3>>) \o <<write_trailing_nop(11)>>>>,       \* SetHsShader
   <<20, Cmds(<<4, 4>>) \o <<write_trailing_nop(11)>>>>,                \* SetEsShader
   <<23, Cmds(<<4, 4>>) \o <<write_trailing_nop(11)>> \o Cmds(<<3>>)>>, \* SetLsShader
   <<25, Cmds(<<4, 4, 5>>) \o <<write_trailing_nop(11)>>>>}             \* SetCsShader

g_initSequence350 == [j \in 1..42 |-> CASE j \in {1, 20} -> Cmd(2) [] j = 40 -> Cmd(5) [] OTHER -> Cmd(3)]
\* Its last packet is a NOP over the rest of the buffer.
g_ctxInitSequence400 ==
  [j \in 1..33 |-> CASE j \in {2, 18} -> Cmd(2) [] j = 31 -> Cmd(5) [] j = 33 -> Nop(160) [] OTHER -> Cmd(3)]
InitPackets ==
  {<<256, g_initSequence350 \o <<write_trailing_nop(256 - 126 - 1)>>>>, \* DrawInitDefaultHardwareState350
   <<256, g_ctxInitSequence400>>,                                       \* DrawInitToDefaultContextState400
   <<3, Cmds(<<3>>)>>, <<4, <<Nop(4)>>>>}                                \* VGT, GS ring, wave limits; DispatchInit

\* A marker of n characters, with and without a color.
MarkerPackets ==
  LET size(n, c) == ((n + 8 + c) \div 4) + ((n + 12 + c) \div 8) * 2
  IN  {<<4, <<Nop(4)>>>>, <<6, <<Nop(6)>>>>, <<7, Cmds(<<7>>)>>}         \* DingDong, Pop, WaitFlipDone
        \cup {<<size(n, c) + 2, <<Nop(size(n, c) + 2)>>>> : n \in 0..8, c \in {0, 4}}
sceGnmComputeWaitOnAddress == {<<14, <<Nop(3)>> \o Cmds(<<7>>) \o <<Nop(4)>>>>}

Builders == DrawPackets \cup VsPsPackets \cup StagePackets \cup InitPackets \cup MarkerPackets \cup sceGnmComputeWaitOnAddress

\* sceGnmPrepareFlip, ...WithEopInterrupt(Requeued): a sentinel, not a packet.
sceGnmPrepareFlip(eop) == [len |-> IF eop THEN 20 ELSE 15, does |-> IF eop THEN "sentinel_eop" ELSE "sentinel"]
\* The SDK's prepareFlip*: one NOP of 64 dwords with what the flip asks for.
FlipKinds == {"flip", "flip_label", "flip_interrupt", "flip_interrupt_label"}

-----------------------------------------------------------------------------
PktInit == dcb = <<>> /\ dcb_size = 0 /\ dcb_at = "build" /\ dcb_flip = "none" /\ dcb_done = <<>>

Dwords(ps) == FoldSeq(LAMBDA p, n : p.len + n, 0, ps)

\* A flip request of the SDK is the last thing in its buffer.
Build ==
  /\ dcb_at = "build" /\ dcb_size < GnmDwords /\ dcb_flip \notin FlipKinds
  /\ \E b \in Builders : dcb' = dcb \o b[2] /\ dcb_size' = dcb_size + b[1]
  /\ UNCHANGED <<dcb_at, dcb_flip, dcb_done>>
PrepareFlip ==
  /\ dcb_at = "build" /\ dcb_size < GnmDwords /\ dcb_flip = "none"
  /\ \E p \in {sceGnmPrepareFlip(eop) : eop \in BOOLEAN} \cup {[len |-> 64, does |-> k] : k \in FlipKinds} :
       dcb' = Append(dcb, p) /\ dcb_size' = dcb_size + p.len /\ dcb_flip' = p.does
  /\ UNCHANGED <<dcb_at, dcb_done>>

\* Mutant: the EVENT_WRITE_EOP packet is laid over a NOP as long as WRITE_DATA's.
patch_overlaps(k) ==
  <<Nop(5)>> \o CASE k = "flip" -> <<Nop(59)>>
                  [] k = "flip_label" -> <<Nop(54), [len |-> 5, does |-> "label"]>>
                  [] OTHER -> <<Nop(54), [len |-> 6, does |-> "eop"]>>
\* What takes the place of a flip request at the end of the buffer.
FlipPatch(k) ==
  <<Nop(5)>> \o CASE k = "flip" -> <<Nop(59)>>
                  [] k = "flip_label" -> <<Nop(54), [len |-> 5, does |-> "label"]>>
                  [] k = "flip_interrupt_label" -> <<Nop(53), [len |-> 6, does |-> "label_eop"]>>
                  [] OTHER -> <<Nop(53), [len |-> 6, does |-> "eop"]>>

\* PatchFlipRequest: sentinels become NOPs, their label is stored and their
\* interrupt fires when the buffers have run; the NOP of the SDK is rewritten
\* only when it is the last packet.
Sentinel(p) == p.does \in {"sentinel", "sentinel_eop"}
PatchFlipRequest ==
  /\ dcb_at = "build" /\ dcb # <<>>
  /\ LET swept == [j \in DOMAIN dcb |-> IF Sentinel(dcb[j]) THEN Nop(dcb[j].len) ELSE dcb[j]]
         last == swept[Len(swept)]
     IN  dcb' = IF last.does \in FlipKinds THEN Front(swept) \o FlipPatch(last.does) ELSE swept
  /\ dcb_done' = [j \in DOMAIN SelectSeq(dcb, Sentinel) |-> "label"]
  /\ dcb_at' = IF \E j \in DOMAIN dcb : dcb[j].does = "sentinel_eop" THEN "patched_eop" ELSE "patched"
  /\ UNCHANGED <<dcb_size, dcb_flip>>

\* ps4_gnm_process_command_buffers and what follows it: an interrupt, the flip.
sceGnmSubmitAndFlipCommandBuffers ==
  LET effects == [j \in 1..Len(dcb) |-> dcb[j].does]
      seen == SelectSeq(effects, LAMBDA e : e \in {"label", "eop", "label_eop"})
  IN  /\ dcb_at \in {"patched", "patched_eop"}
      /\ dcb_done' = dcb_done \o seen \o (IF dcb_at = "patched_eop" THEN <<"eop">> ELSE <<>>) \o <<"present">>
      /\ dcb_at' = "flip" /\ UNCHANGED <<dcb, dcb_size, dcb_flip>>

PktNext == Build \/ PrepareFlip \/ PatchFlipRequest \/ sceGnmSubmitAndFlipCommandBuffers

\* The packets of a buffer, built and patched, fill the dwords reserved for
\* them exactly, so that the command processor finds a header after each; and
\* when the flip is presented its label is stored and its interrupt raised,
\* once each, if it asked for them.
BuffersTile ==
  /\ Dwords(dcb) = dcb_size
  /\ dcb_at = "flip" =>
       LET times(es) == Len(SelectSeq(dcb_done, LAMBDA e : e \in es))
       IN  /\ times({"label", "label_eop"}) = (IF dcb_flip \in {"none", "flip", "flip_interrupt"} THEN 0 ELSE 1)
           /\ times({"eop", "label_eop"}) = (IF dcb_flip \in {"sentinel_eop", "flip_interrupt", "flip_interrupt_label"} THEN 1 ELSE 0)
=============================================================================
