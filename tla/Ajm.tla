-------------------------------- MODULE Ajm ---------------------------------
(***************************************************************************)
(* libSceAjm (ps4_ajm.c) in three parts: the batches and their worker, the *)
(* decoders a job runs on, and the chunks a batch buffer is made of.       *)
(***************************************************************************)
EXTENDS Sequences, FiniteSets, FiniteSetsExt, SequencesExt, Integers, TLC

-----------------------------------------------------------------------------
(***************************************************************************)
(* Contexts, instances and batches of the audio job manager:               *)
(* pkg/runtime/modules/libSceAjm/ps4_ajm.c.                                *)
(*                                                                         *)
(* Every context has a worker thread that runs its batches one by one.     *)
(* g_ajm_lock is held for one step, except by sceAjmFinalize, which keeps   *)
(* it while it joins the worker; a batch's own mutex orders `finished`.    *)
(* Guest threads finalize a context when its batches have been waited for  *)
(* and wait for a batch one at a time.                                     *)
(***************************************************************************)

CONSTANTS AjmThreads,
          AJM_CONTEXTS, AJM_INSTANCES, AJM_BATCHES,  \* slots 1 .. of the three tables
          AjmCodecs,
          AjmJobs,    \* bound: jobs of a batch
          AjmStarts   \* bound: batches started

ASSUME AjmAssumption == {AJM_CONTEXTS, AJM_INSTANCES, AJM_BATCHES, AjmJobs, AjmStarts} \subseteq Nat

VARIABLES actx,     \* g_ajm_contexts: [codecs, stop, queue] of each slot
          aworker,  \* the worker thread of each slot: [at, slot, job]
          ainst,    \* g_ajm_instances: <<context, codec>>, or NoInst
          abatch,   \* g_ajm_batches
          ajm_ids,  \* g_next_batch_id - 1
          aholder,  \* the context that is being finalized, with g_ajm_lock held
          await     \* each guest thread's sceAjmBatchWait: [at, slot, id, timed]

ajm_vars == <<actx, aworker, ainst, abatch, ajm_ids, aholder, await>>

NoCtx == [in_use |-> FALSE, codecs |-> {}, stop |-> FALSE, queue |-> <<>>]
NoWorker == [at |-> "none", slot |-> 0, job |-> 0]
NoInst == <<>>
NoBatch == [in_use |-> FALSE, id |-> 0, ctx |-> 0, jobs |-> <<>>, finished |-> FALSE, canceled |-> FALSE, error |-> 0]
NotWaiting == [at |-> "idle", slot |-> 0, id |-> 0, timed |-> FALSE]

Contexts == 1..AJM_CONTEXTS
InstSlots == 1..AJM_INSTANCES
BatchSlots == 1..AJM_BATCHES
Unlocked == aholder = 0

AjmInit ==
  /\ actx = [c \in Contexts |-> NoCtx] /\ aworker = [c \in Contexts |-> NoWorker]
  /\ ainst = [i \in InstSlots |-> NoInst] /\ abatch = [b \in BatchSlots |-> NoBatch]
  /\ ajm_ids = 0 /\ aholder = 0 /\ await = [t \in AjmThreads |-> NotWaiting]

-----------------------------------------------------------------------------
(* Contexts and instances                                                  *)

shim_sceAjmInitialize ==
  LET free == {c \in Contexts : ~actx[c].in_use}
  IN  /\ Unlocked /\ free # {}
      /\ actx' = [actx EXCEPT ![Min(free)] = [NoCtx EXCEPT !.in_use = TRUE]]
      /\ aworker' = [aworker EXCEPT ![Min(free)] = [NoWorker EXCEPT !.at = "idle"]]
      /\ UNCHANGED <<ainst, abatch, ajm_ids, aholder, await>>

\* The lock is kept until the worker has ended.
Quiescent(c) == \A b \in BatchSlots : abatch[b].in_use => abatch[b].ctx # c
shim_sceAjmFinalize(c) ==
  /\ Unlocked /\ actx[c].in_use /\ Quiescent(c)
  /\ actx' = [actx EXCEPT ![c].stop = TRUE] /\ aholder' = c
  /\ UNCHANGED <<aworker, ainst, abatch, ajm_ids, await>>
finalize_joined(c) ==
  /\ aholder = c /\ aworker[c].at = "none"
  /\ actx' = [actx EXCEPT ![c].in_use = FALSE] /\ aholder' = 0
  /\ UNCHANGED <<aworker, ainst, abatch, ajm_ids, await>>

shim_sceAjmModuleRegister(c, k) ==
  /\ Unlocked /\ actx[c].in_use /\ k \notin actx[c].codecs
  /\ actx' = [actx EXCEPT ![c].codecs = @ \cup {k}]
  /\ UNCHANGED <<aworker, ainst, abatch, ajm_ids, aholder, await>>
shim_sceAjmModuleUnregister(c, k) ==
  /\ Unlocked /\ actx[c].in_use
  /\ actx' = [actx EXCEPT ![c].codecs = @ \ {k}]
  /\ UNCHANGED <<aworker, ainst, abatch, ajm_ids, aholder, await>>

\* The id the guest gets is the slot and the codec; jobs are looked up by slot.
shim_sceAjmInstanceCreate(c, k) ==
  LET free == {i \in InstSlots : ainst[i] = NoInst}
  IN  /\ Unlocked /\ actx[c].in_use /\ k \in actx[c].codecs /\ free # {}
      /\ ainst' = [ainst EXCEPT ![Min(free)] = <<c, k>>]
      /\ UNCHANGED <<actx, aworker, abatch, ajm_ids, aholder, await>>
shim_sceAjmInstanceDestroy(i) ==
  /\ Unlocked /\ ainst[i] # NoInst
  /\ ainst' = [ainst EXCEPT ![i] = NoInst]
  /\ UNCHANGED <<actx, aworker, abatch, ajm_ids, aholder, await>>

-----------------------------------------------------------------------------
(* Batches                                                                 *)

\* A job of a parsed buffer names the instance slot it is for.
shim_sceAjmBatchStartBuffer(c, jobs) ==
  LET free == {b \in BatchSlots : ~abatch[b].in_use}
  IN  /\ Unlocked /\ actx[c].in_use /\ ajm_ids < AjmStarts /\ free # {}
      /\ abatch' = [abatch EXCEPT ![Min(free)] =
                      [NoBatch EXCEPT !.in_use = TRUE, !.id = ajm_ids + 1, !.ctx = c, !.jobs = jobs]]
      /\ ajm_ids' = ajm_ids + 1
      /\ actx' = [actx EXCEPT ![c].queue = Append(@, Min(free))]
      /\ UNCHANGED <<aworker, ainst, aholder, await>>

\* ajm_worker_thread.
worker_take(c) ==
  /\ aworker[c].at = "idle" /\ ~actx[c].stop /\ actx[c].queue # <<>>
  /\ actx' = [actx EXCEPT ![c].queue = Tail(@)]
  /\ aworker' = [aworker EXCEPT ![c] = [at |-> "look", slot |-> Head(actx[c].queue), job |-> 1]]
  /\ UNCHANGED <<ainst, abatch, ajm_ids, aholder, await>>
\* `canceled` is looked at once, before the first job.
worker_look(c) ==
  /\ aworker[c].at = "look"
  /\ aworker' = [aworker EXCEPT ![c].at = IF abatch[aworker[c].slot].canceled THEN "done" ELSE "jobs"]
  /\ UNCHANGED <<actx, ainst, abatch, ajm_ids, aholder, await>>
\* process_single_job, under g_ajm_lock: the first job without an instance is recorded.
worker_job(c) ==
  LET w == aworker[c]
      b == abatch[w.slot]
      failed == ainst[b.jobs[w.job]] = NoInst
  IN  /\ w.at = "jobs" /\ w.job <= Len(b.jobs) /\ Unlocked
      /\ abatch' = [abatch EXCEPT ![w.slot].error = IF failed /\ @ = 0 THEN w.job ELSE @]
      /\ aworker' = [aworker EXCEPT ![c].job = @ + 1]
      /\ UNCHANGED <<actx, ainst, ajm_ids, aholder, await>>
WakeBatch(b) == [t \in AjmThreads |-> IF await[t].at = "asleep" /\ await[t].slot = b
                                      THEN [await[t] EXCEPT !.at = "look"] ELSE await[t]]
worker_finish(c) ==
  LET w == aworker[c]
  IN  /\ w.at = "done" \/ (w.at = "jobs" /\ w.job > Len(abatch[w.slot].jobs))
      /\ abatch' = [abatch EXCEPT ![w.slot].finished = TRUE] /\ await' = WakeBatch(w.slot)
      /\ aworker' = [aworker EXCEPT ![c] = [NoWorker EXCEPT !.at = "idle"]]
      /\ UNCHANGED <<actx, ainst, ajm_ids, aholder>>
worker_exit(c) ==
  /\ aworker[c].at = "idle" /\ actx[c].stop
  /\ aworker' = [aworker EXCEPT ![c] = NoWorker]
  /\ UNCHANGED <<actx, ainst, abatch, ajm_ids, aholder, await>>

\* The batch is found under g_ajm_lock and locked after it.
shim_sceAjmBatchWait(t, b, timed) ==
  /\ Unlocked /\ await[t].at = "idle" /\ abatch[b].in_use
  /\ \A u \in AjmThreads : await[u].at # "idle" => await[u].id # abatch[b].id
  /\ await' = [await EXCEPT ![t] = [at |-> "look", slot |-> b, id |-> abatch[b].id, timed |-> timed]]
  /\ UNCHANGED <<actx, aworker, ainst, abatch, ajm_ids, aholder>>
wait_look(t) ==
  /\ await[t].at = "look"
  /\ await' = [await EXCEPT ![t].at = IF abatch[await[t].slot].finished THEN "free" ELSE "asleep"]
  /\ UNCHANGED <<actx, aworker, ainst, abatch, ajm_ids, aholder>>
\* Mutant: a wait that times out gives its batch up.
wait_timeout_frees(t) ==
  /\ await[t].at = "asleep" /\ await[t].timed /\ await' = [await EXCEPT ![t].at = "free"]
  /\ UNCHANGED <<actx, aworker, ainst, abatch, ajm_ids, aholder>>
\* IN_PROGRESS: the batch stays and may be waited for again.
wait_timeout(t) ==
  /\ await[t].at = "asleep" /\ await[t].timed /\ await' = [await EXCEPT ![t] = NotWaiting]
  /\ UNCHANGED <<actx, aworker, ainst, abatch, ajm_ids, aholder>>
wait_free(t) ==
  /\ await[t].at = "free" /\ Unlocked
  /\ abatch' = [abatch EXCEPT ![await[t].slot] = [NoBatch EXCEPT !.id = abatch[await[t].slot].id]]
  /\ await' = [await EXCEPT ![t] = NotWaiting]
  /\ UNCHANGED <<actx, aworker, ainst, ajm_ids, aholder>>

\* A queued batch that is cancelled still goes through the worker; the waiters
\* are woken and wait on for `finished`.
shim_sceAjmBatchCancel(b) ==
  /\ Unlocked /\ abatch[b].in_use
  /\ abatch' = [abatch EXCEPT ![b].canceled = TRUE] /\ await' = WakeBatch(b)
  /\ UNCHANGED <<actx, aworker, ainst, ajm_ids, aholder>>

AjmNext ==
  \/ shim_sceAjmInitialize
  \/ \E c \in Contexts : \/ shim_sceAjmFinalize(c) \/ finalize_joined(c)
                         \/ \E k \in AjmCodecs : shim_sceAjmModuleRegister(c, k) \/ shim_sceAjmModuleUnregister(c, k)
                                                   \/ shim_sceAjmInstanceCreate(c, k)
                         \/ \E n \in 0..AjmJobs : \E jobs \in [1..n -> InstSlots] : shim_sceAjmBatchStartBuffer(c, jobs)
                         \/ worker_take(c) \/ worker_look(c) \/ worker_job(c) \/ worker_finish(c) \/ worker_exit(c)
  \/ \E i \in InstSlots : shim_sceAjmInstanceDestroy(i)
  \/ \E t \in AjmThreads : \/ wait_look(t) \/ wait_timeout(t) \/ wait_free(t)
                           \/ \E b \in BatchSlots, timed \in BOOLEAN : shim_sceAjmBatchWait(t, b, timed)
  \/ \E b \in BatchSlots : shim_sceAjmBatchCancel(b)

-----------------------------------------------------------------------------
\* Every batch that was started and not waited for is in its context's queue,
\* with the worker or finished, in one of them only and in the order of the
\* starts; a waiting thread's slot still holds its batch, whatever timed out,
\* was cancelled or was reused, and it sleeps only until the batch is finished;
\* and a finalizer never waits for a worker that waits for its lock.
BatchesServed ==
  /\ \A c \in Contexts :
       LET busy == IF aworker[c].slot = 0 THEN <<>> ELSE <<aworker[c].slot>>
           todo == busy \o actx[c].queue
       IN  /\ \A j \in 1..Len(todo) - 1 : abatch[todo[j]].id < abatch[todo[j + 1]].id
           /\ ToSet(todo) = {b \in BatchSlots : abatch[b].in_use /\ abatch[b].ctx = c /\ ~abatch[b].finished}
           /\ aholder = c => aworker[c].at # "jobs"
  /\ \A t \in AjmThreads : await[t].at # "idle" =>
       LET b == abatch[await[t].slot]
       IN  b.in_use /\ b.id = await[t].id /\ (await[t].at = "asleep" => ~b.finished)

-----------------------------------------------------------------------------
(***************************************************************************)
(* A decoding instance of the audio job manager: process_single_job and    *)
(* the decode loops of pkg/runtime/modules/libSceAjm/ps4_ajm.c.            *)
(*                                                                         *)
(* Input is counted in bytes and output in samples of one channel.  A      *)
(* superframe has SuperBytes bytes and SuperFrames frames, whose lengths   *)
(* vary; the guest submits any part of what it has not consumed yet, with  *)
(* any room for output.  The stream starts with its RIFF header when the   *)
(* guest leaves it in, whole.                                              *)
(***************************************************************************)

CONSTANTS FrameSamples, SuperFrames, SuperBytes,
          DecTotals, DecSkips,  \* gapless totals (0: unknown) and samples to skip
          DecInput, DecRoom,    \* bounds: bytes and samples of a job
          DecHeard              \* bound: samples written

ASSUME DecAssumption ==
  /\ {FrameSamples, SuperFrames, SuperBytes} \subseteq Nat \ {0} /\ SuperFrames <= SuperBytes
  \* A total shorter than a frame is left out: at9_decode asks for less room
  \* than such a frame fills after its skip, and drops what does not fit.
  /\ \A n \in DecTotals : n = 0 \/ n >= FrameSamples

VARIABLES dinst,  \* the instance: codec, gapless.init and .current, the superframe's state
          djob,   \* the job being run, or NoJob
          dpos,   \* where the stream is: bytes and frames into the superframe
          dlog    \* since the last reset: decoded, heard, lost (neither skipped as told nor heard)

dec_vars == <<dinst, djob, dpos, dlog>>

NoJob == [at |-> "idle", rem |-> 0, room |-> 0, frames |-> 0, multi |-> FALSE, result |-> "ok"]
Start == [bytes |-> 0, frames |-> 0]
Silence == [heard |-> 0, lost |-> 0]
NewDecoder == [inited |-> FALSE, itotal |-> 0, total |-> 0, iskip |-> 0, skip |-> 0, remain |-> 0, nframes |-> 0]
\* at9_init with a configuration the decoder takes.
at9_init(d) == [d EXCEPT !.inited = TRUE, !.remain = SuperBytes, !.nframes = 0]
ajm_gapless_end(d) == d.itotal # 0 /\ d.total = 0

DecInit ==
  /\ dinst \in {[codec |-> k] @@ NewDecoder @@ [loop |-> l] : k \in {"at9", "mp3"}, l \in BOOLEAN}
  /\ djob = NoJob /\ dpos = Start /\ dlog = Silence

-----------------------------------------------------------------------------
(* The start of a job: control flags and sidebands                         *)

\* ajm_instance_reset, and the gapless sideband that comes with it.
Reset(d, n, s) == [(IF d.inited THEN at9_init(d) ELSE d) EXCEPT !.itotal = n, !.total = n, !.iskip = s, !.skip = s]

\* Without a reset the gapless sideband can only raise what is still to come.
Raise(d, n, s) ==
  LET tn == Max({n, d.itotal})  sn == Max({s, d.iskip})
  IN  [d EXCEPT !.total = @ + (tn - d.itotal), !.itotal = tn, !.skip = @ + (sn - d.iskip), !.iskip = sn]

job(rem, room, multi) == [NoJob EXCEPT !.at = "run", !.rem = rem, !.room = room, !.multi = multi]

\* A control job with RESET (and, for a decoder that was never set up, INITIALIZE).
ajm_instance_reset ==
  /\ djob = NoJob
  /\ \E n \in DecTotals, s \in DecSkips, i \in BOOLEAN :
       dinst' = Reset(IF i THEN at9_init(dinst) ELSE dinst, n, s)
  /\ dpos' = Start /\ dlog' = Silence /\ UNCHANGED djob
\* The total grows before the end was reached.
ajm_apply_gapless_input ==
  /\ djob = NoJob /\ dinst.inited /\ dinst.itotal # 0 /\ ~ajm_gapless_end(dinst) /\ dlog.heard < DecHeard
  /\ \E n \in DecTotals : dinst' = Raise(dinst, n, dinst.iskip)
  /\ UNCHANGED <<djob, dpos, dlog>>

\* A run job with input, from the stream's start with or without its header.
run_job ==
  /\ djob = NoJob /\ dlog.heard < DecHeard
  /\ \E rem \in 1..DecInput, room \in 1..DecRoom, multi \in BOOLEAN : djob' = job(rem, room, multi)
  /\ UNCHANGED <<dinst, dpos, dlog>>
\* at9_parse_riff: the format chunk sets the decoder up, the fact chunk the
\* totals; a header may lack either.
at9_parse_riff ==
  /\ dinst.codec = "at9" /\ djob.at = "run" /\ djob.frames = 0 /\ dpos = Start /\ dlog = Silence
  /\ \E d \in {dinst, at9_init(dinst)}, n \in DecTotals, s \in DecSkips : dinst' \in {d, Reset(d, n, s)}
  /\ UNCHANGED <<djob, dpos, dlog>>

-----------------------------------------------------------------------------
(* The decode loops, one frame at a time                                   *)

more == djob.at = "run" /\ djob.rem > 0 /\ djob.room > 0 /\ ~ajm_gapless_end(dinst)
need == LET most == IF dinst.itotal # 0 THEN Min({dinst.total, FrameSamples}) ELSE FrameSamples
        IN  most - Min({dinst.skip, most})

\* NOT_INITIALIZED, PARTIAL_INPUT, NOT_ENOUGH_ROOM (the latter two not told behind
\* other frames of a job) and what the decoder refuses: nothing is consumed.
at9_stop ==
  /\ dinst.codec = "at9" /\ djob.at = "run"
  /\ \E r \in (IF ~dinst.inited THEN {"not_initialized"} ELSE {})
              \cup (IF dinst.inited /\ more /\ djob.rem < dinst.remain THEN {"partial_input"} ELSE {})
              \cup (IF dinst.inited /\ more /\ djob.rem >= dinst.remain
                    THEN IF djob.room < need THEN {"not_enough_room"} ELSE {"codec_error"} ELSE {}) :
       djob' = [djob EXCEPT !.at = "end",
                            !.result = IF djob.frames > 0 /\ (r = "partial_input" \/ (r = "not_enough_room" /\ djob.multi))
                                       THEN @ ELSE r]
  /\ UNCHANGED <<dinst, dpos, dlog>>

\* Mutant: the room for a frame is taken as given.
enough_room_always == TRUE
enough_room == djob.room >= need

at9_frame ==
  LET last == dinst.nframes + 1 = SuperFrames
      skip == Min({dinst.skip, FrameSamples})
      avail == FrameSamples - skip
      n == IF dinst.itotal # 0 THEN Min({avail, dinst.total}) ELSE avail
      wrote == Min({n, djob.room})
  IN  /\ dinst.codec = "at9" /\ dinst.inited /\ more /\ djob.rem >= dinst.remain /\ enough_room
      /\ \E used \in 1..dinst.remain - (SuperFrames - 1 - dinst.nframes) :
           LET pad == IF last THEN Min({dinst.remain - used, djob.rem - used}) ELSE 0
           IN  /\ dinst' = [dinst EXCEPT !.skip = @ - skip, !.total = IF dinst.itotal # 0 THEN @ - wrote ELSE @,
                                         !.remain = IF last THEN SuperBytes ELSE @ - used,
                                         !.nframes = IF last THEN 0 ELSE @ + 1]
               /\ djob' = [djob EXCEPT !.rem = @ - used - pad, !.room = @ - wrote, !.frames = @ + 1,
                                       !.at = IF djob.multi THEN "run" ELSE "end"]
               /\ dpos' = [bytes |-> (dpos.bytes + used + pad) % SuperBytes, frames |-> (dpos.frames + 1) % SuperFrames]
      /\ dlog' = [heard |-> dlog.heard + wrote,
                  lost |-> dlog.lost + (IF dinst.itotal # 0 /\ dinst.total = wrote THEN 0 ELSE avail - wrote)]

\* A frame of an MP3 stream, or junk, which gives no samples.  What does not
\* fit is lost: told as NOT_ENOUGH_ROOM, but not behind another frame.
mp3_frame ==
  LET wrote == Min({FrameSamples, djob.room})
      told == djob.room < FrameSamples /\ (~djob.multi \/ djob.frames = 0)
  IN  /\ dinst.codec = "mp3" /\ djob.at = "run" /\ djob.rem > 0 /\ djob.room > 0
      /\ \E used \in 1..djob.rem :
           \/ djob' = [djob EXCEPT !.rem = @ - used] /\ UNCHANGED <<dinst, dpos, dlog>>
           \/ /\ djob' = [djob EXCEPT !.rem = @ - used, !.room = @ - wrote, !.frames = @ + 1,
                                      !.result = IF told THEN "not_enough_room" ELSE @,
                                      !.at = IF told \/ ~djob.multi THEN "end" ELSE "run"]
              /\ dlog' = [heard |-> dlog.heard + wrote, lost |-> dlog.lost + (FrameSamples - wrote)]
              /\ UNCHANGED <<dinst, dpos>>

\* The end of the loop.  A looping instance that reached its end drops the rest
\* of the input and starts over.
decode_end ==
  /\ djob.at = "end" \/ (djob.at = "run" /\ (dinst.codec = "at9" => dinst.inited /\ ~more))
  /\ djob' = NoJob
  /\ IF dinst.codec = "at9" /\ dinst.loop /\ ajm_gapless_end(dinst)
     THEN /\ dinst' = [at9_init(dinst) EXCEPT !.total = dinst.itotal, !.skip = dinst.iskip]
          /\ dpos' = Start /\ dlog' = Silence
     ELSE UNCHANGED <<dinst, dpos, dlog>>

DecNext == \/ ajm_instance_reset \/ ajm_apply_gapless_input \/ run_job \/ at9_parse_riff
           \/ at9_stop \/ at9_frame \/ mp3_frame \/ decode_end

-----------------------------------------------------------------------------
\* However a stream is cut into jobs, the decoder reads whole superframes from
\* their start: the bytes and frames it counts are where the stream is; and
\* between the samples to skip and the total told, no sample is left out and
\* none is added.  (An MP3 frame that does not fit loses its tail.)
DecodesContiguously ==
  dinst.codec = "at9" =>
    /\ dinst.inited => dinst.remain = SuperBytes - dpos.bytes /\ dinst.nframes = dpos.frames
    /\ dlog.lost = 0
    /\ dinst.itotal # 0 => dlog.heard = dinst.itotal - dinst.total

-----------------------------------------------------------------------------
(***************************************************************************)
(* Batch buffers of the audio job manager as the guest builds them and     *)
(* sceAjmBatchStartBuffer parses them:                                     *)
(* pkg/runtime/modules/libSceAjm/ps4_ajm.c.                                *)
(*                                                                         *)
(* A buffer is a sequence of 8-byte words: a header [ident, payload, size] *)
(* or the address behind a buffer's header.                                *)
(***************************************************************************)

CONSTANTS MAX_AJM_OUTPUT_BUFS,
          ChunkInstances,
          ChunkBufs,   \* bound: data buffers of a split job, in and out
          ChunkWords   \* bound: a buffer this long gets no more chunks

ASSUME ChunkAssumption == {MAX_AJM_OUTPUT_BUFS, ChunkBufs, ChunkWords} \subseteq Nat

VARIABLES abuf,   \* the words of the batch buffer
          abuilt  \* the jobs the guest asked for: [instance, input, outputs, control, sideband, flags, ra, offset]

chunk_vars == <<abuf, abuilt>>

make_chunk_header(ident, payload, size) == [ident |-> ident, payload |-> payload, size |-> size]
Addr(a) == make_chunk_header("addr", a, 0)
\* AjmChunkBuffer and AjmChunkFlags.
Buffer(ident, a) == <<make_chunk_header(ident, 0, 1), Addr(a)>>
Flags(ident, f) == <<make_chunk_header(ident, f, 0)>>
ReturnAddress(ra) == IF ra THEN Buffer("ra", "ra") ELSE <<>>

ControlChunks(ra) ==
  ReturnAddress(ra) \o Buffer("in_control", "c") \o Flags("flags", "fc") \o Buffer("out_control", "s")
\* Empty input buffers are skipped by the parser; of others the first counts.
RunChunks(ra, ins, outs) ==
  ReturnAddress(ra) \o FlattenSeq([j \in DOMAIN ins |-> Buffer("in_run", ins[j])]) \o Flags("flags", "fr")
    \o FlattenSeq([j \in DOMAIN outs |-> Buffer("out_run", outs[j])]) \o Buffer("out_control", "s")

\* The outputs a parsed job has room for.
Kept(outs) == SubSeq(outs, 1, Min({Len(outs), MAX_AJM_OUTPUT_BUFS}))
Job(i, ra) == [instance |-> i, input |-> "none", outputs |-> <<>>, control |-> "none", sideband |-> "s",
               flags |-> "none", ra |-> ra, offset |-> Len(abuf)]

\* Mutant: the size of a job leaves its sideband out.
append_chunks_short(i, subs) == abuf' = abuf \o <<make_chunk_header("job", i, Len(subs) - 2)>> \o subs
append_chunks(i, subs) == abuf' = abuf \o <<make_chunk_header("job", i, Len(subs))>> \o subs

shim_sceAjmBatchJobControlBufferRa(i, ra) ==
  /\ append_chunks(i, ControlChunks(ra))
  /\ abuilt' = Append(abuilt, [Job(i, ra) EXCEPT !.control = "c", !.flags = "fc"])

\* sceAjmBatchJobRunBufferRa is the case of one input and one output.
shim_sceAjmBatchJobRunSplitBufferRa(i, ra, ins, outs) ==
  /\ append_chunks(i, RunChunks(ra, ins, outs))
  /\ abuilt' = Append(abuilt, [Job(i, ra) EXCEPT !.input = IF ins = <<>> THEN "none" ELSE ins[1], !.flags = "fr",
                                                 !.outputs = Kept(outs)])
shim_sceAjmBatchJobRunBufferRa(i, ra) == shim_sceAjmBatchJobRunSplitBufferRa(i, ra, <<"d1">>, <<"o1">>)

\* Inline data of the guest, which may look like anything.
shim_sceAjmBatchJobInlineBuffer(data) ==
  /\ abuf' = abuf \o <<make_chunk_header("inline", 0, Len(data))>> \o data
  /\ UNCHANGED abuilt

-----------------------------------------------------------------------------
(* sceAjmBatchStartBuffer's parser                                         *)

\* The chunks of a job: <<header, address>> from word i on, before word e.
Subs(i, e) ==
  LET from[k \in i..e] == IF k >= e THEN <<>>
                          ELSE IF abuf[k].size = 1 THEN <<<<abuf[k], abuf[k + 1].payload>>>> \o from[k + 2]
                          ELSE <<<<abuf[k], "none">>>> \o from[k + 1]
  IN  from[i]
\* What the chunks named id say: the first of the buffers, the last of the others.
Said(subs, id) == SelectSeq(subs, LAMBDA c : c[1].ident = id)
LastSaid(subs, id) == IF Said(subs, id) = <<>> THEN "none" ELSE Said(subs, id)[Len(Said(subs, id))][2]
ParsedJob(i) ==
  LET subs == Subs(i + 1, i + 1 + abuf[i].size)
      ins == Said(subs, "in_run")  outs == Said(subs, "out_run")  flags == Said(subs, "flags")
  IN  [instance |-> abuf[i].payload, offset |-> i - 1,
       input |-> IF ins = <<>> THEN "none" ELSE ins[1][2],
       outputs |-> [j \in DOMAIN Kept(outs) |-> outs[j][2]],
       control |-> LastSaid(subs, "in_control"), sideband |-> LastSaid(subs, "out_control"),
       flags |-> IF flags = <<>> THEN "none" ELSE flags[Len(flags)][1].payload,
       ra |-> Said(subs, "ra") # <<>>]

ParsedJobs ==
  LET n == Len(abuf)
      from[i \in 1..n + 1] ==
        IF i > n \/ abuf[i].ident \notin {"job", "inline"} THEN <<>>
        ELSE (IF abuf[i].ident = "job" THEN <<ParsedJob(i)>> ELSE <<>>) \o from[i + 1 + abuf[i].size]
  IN  from[1]

-----------------------------------------------------------------------------
ChunkInit == abuf = <<>> /\ abuilt = <<>>
BufLists == {[j \in 1..n |-> <<"d1", "d2", "d3">>[j]] : n \in 0..ChunkBufs}
ChunkNext ==
  /\ Len(abuf) < ChunkWords
  /\ \/ \E i \in ChunkInstances, ra \in BOOLEAN :
          \/ shim_sceAjmBatchJobControlBufferRa(i, ra)
          \/ shim_sceAjmBatchJobRunBufferRa(i, ra)
          \/ \E ins, outs \in BufLists : shim_sceAjmBatchJobRunSplitBufferRa(i, ra, ins, outs)
     \/ \E data \in {<<>>, <<make_chunk_header("job", 0, 0)>>, Buffer("out_run", "o1")} : shim_sceAjmBatchJobInlineBuffer(data)

\* The engine runs the jobs the guest put into the batch, in order, each with
\* its first input, its first MAX_AJM_OUTPUT_BUFS outputs, its sidebands and
\* the offset a batch error names; inline data is never taken for a job.
JobsParsed == ParsedJobs = abuilt
=============================================================================
