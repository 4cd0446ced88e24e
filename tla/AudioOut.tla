------------------------------ MODULE AudioOut ------------------------------
(***************************************************************************)
(* libSceAudioOut (ps4_audioout.c) in two parts: the ports the device mixes,*)
(* and the dump of what was played.                                        *)
(***************************************************************************)
EXTENDS Naturals, Sequences, FiniteSets, FiniteSetsExt, SequencesExt

-----------------------------------------------------------------------------
(***************************************************************************)
(* libSceAudioOut's ports (ps4_audioout.c): guest threads output grains    *)
(* into a port's ring under g_audio_lock and sleep on g_audio_cond while   *)
(* the ring is full; the device mixes the rings.  A frame is the number of *)
(* the frame in its port's life and the life it was output to.  alock is   *)
(* the thread that holds g_audio_lock from one step to the next; the sleep *)
(* has a timeout of 20 ms, so a sleeper may look again at any time.        *)
(***************************************************************************)

CONSTANTS AudThreads,
          MAX_AUDIO_PORTS, \* handles 1 .. MAX_AUDIO_PORTS - 1
          AudGrains,       \* lengths of a grain, in frames
          AudSlack,        \* the 1024 frames of slack in ring_limit
          AudPeriod,       \* frames of a period of the device
          AudLives,        \* bound: opens
          AudFrames,       \* bound: frames output in one life
          ReopenBusy       \* TRUE: a handle may be opened again under a call on it

ASSUME AudAssumption ==
  /\ MAX_AUDIO_PORTS \in Nat \ {0} /\ AudGrains \subseteq Nat \ {0} /\ AudSlack \in Nat
  /\ AudPeriod \in Nat \ {0} /\ AudLives \in Nat /\ AudFrames \in Nat /\ ReopenBusy \in BOOLEAN

VARIABLES aport,     \* g_ports
          g_host_running,
          astalled,  \* no render call for 250 ms
          alock,
          aout,      \* each thread's output call
          aud_count  \* opens so far; frames dropped under a running device

aud_vars == <<aport, g_host_running, astalled, alock, aout, aud_count>>

Handles == 1..MAX_AUDIO_PORTS - 1
Unheld == 0
Closed == [in_use |-> FALSE, life |-> 0, length |-> 1, ring |-> <<>>, read |-> 0, fill |-> 0, sent |-> 0]
NoOutput == [at |-> "idle", to |-> <<>>, i |-> 0]
ring_limit(p) == 2 * p.length + AudSlack
ring_cap(p) == ring_limit(p) + p.length

AudInit ==
  /\ aport = [h \in Handles |-> Closed] /\ g_host_running = FALSE /\ astalled = FALSE
  /\ alock = Unheld /\ aout = [t \in AudThreads |-> NoOutput] /\ aud_count = [opens |-> 0, dropped |-> 0]

-----------------------------------------------------------------------------
\* The lowest free handle; the device is started by the first open, if at all.
ps4_audioout_port_open ==
  /\ alock = Unheld /\ aud_count.opens < AudLives
  /\ \E h \in Handles, n \in AudGrains :
       /\ h = Min({g \in Handles : ~aport[g].in_use})
       /\ ReopenBusy \/ \A t \in AudThreads : \A k \in DOMAIN aout[t].to : aout[t].to[k].h # h
       /\ aport' = [aport EXCEPT ![h] = [Closed EXCEPT !.in_use = TRUE, !.life = aud_count.opens + 1, !.length = n,
                                                       !.ring = [k \in 1..3 * n + AudSlack |-> <<0, 0>>]]]
  /\ aud_count' = [aud_count EXCEPT !.opens = @ + 1]
  /\ IF aud_count.opens = 0 THEN g_host_running' \in BOOLEAN ELSE UNCHANGED g_host_running
  /\ UNCHANGED <<astalled, alock, aout>>

ps4_audioout_port_close(h) ==
  /\ alock = Unheld /\ aport[h].in_use
  /\ aport' = [aport EXCEPT ![h].in_use = FALSE, ![h].ring = <<>>]
  /\ UNCHANGED <<g_host_running, astalled, alock, aout, aud_count>>

-----------------------------------------------------------------------------
\* The ring after the oldest n frames went.
Advance(p, n) == [p EXCEPT !.read = (@ + n) % ring_cap(p), !.fill = @ - n]

\* audio_mix, and the broadcast every sleeper may act on: at most a period
\* from every ring.
audio_mix ==
  /\ alock = Unheld /\ g_host_running /\ ~astalled
  /\ aport' = [h \in Handles |-> IF aport[h].in_use THEN Advance(aport[h], Min({aport[h].fill, AudPeriod})) ELSE aport[h]]
  /\ UNCHANGED <<g_host_running, astalled, alock, aout, aud_count>>

device_stalls == astalled' = TRUE /\ g_host_running /\ UNCHANGED <<aport, g_host_running, alock, aout, aud_count>>

\* sceAudioOutOutput, and sceAudioOutOutputs with several ports: every port is
\* open, then all of them are waited for and then all are given their grain.
\* A call without samples only waits.
OutputTargets == {<<h>> : h \in Handles} \cup {hs \in Handles \X Handles : hs[1] # hs[2]}
shim_sceAudioOutOutputs(t) ==
  /\ alock = Unheld /\ aout[t].at = "idle"
  /\ \E hs \in OutputTargets, pcm \in BOOLEAN :
       /\ \A k \in DOMAIN hs : aport[hs[k]].in_use /\ aport[hs[k]].sent + aport[hs[k]].length <= AudFrames
       /\ aout' = [aout EXCEPT ![t] = [at |-> IF pcm THEN "output" ELSE "wait", i |-> 1,
                                       to |-> [k \in DOMAIN hs |-> [h |-> hs[k], life |-> aport[hs[k]].life]]]]
  /\ alock' = t
  /\ UNCHANGED <<aport, g_host_running, astalled, aud_count>>

Current(t) == aport[aout[t].to[aout[t].i].h]
Full(p) == p.fill + p.length > ring_limit(p)

\* One round of audio_port_wait_room for the port whose turn it is: a closed
\* port ends the call, a full ring of a running device puts the caller to
\* sleep without the lock, and a stalled device loses the oldest grain.
audio_port_wait_room(t) ==
  LET p == Current(t)
      h == aout[t].to[aout[t].i].h
      drop == Full(p) /\ g_host_running /\ astalled
  IN  /\ alock \in {t, Unheld} /\ aout[t].i \in DOMAIN aout[t].to
      /\ \/ /\ ~p.in_use
            /\ aout' = [aout EXCEPT ![t] = NoOutput] /\ alock' = Unheld /\ UNCHANGED aport
         \/ /\ p.in_use /\ Full(p) /\ g_host_running /\ ~astalled
            /\ alock' = Unheld /\ UNCHANGED <<aport, aout>>
         \/ /\ p.in_use /\ (Full(p) => ~g_host_running \/ astalled)
            /\ aport' = [aport EXCEPT ![h] = IF drop THEN Advance(p, Min({p.length, p.fill})) ELSE p]
            /\ aout' = [aout EXCEPT ![t].i = @ + 1] /\ alock' = t
      /\ UNCHANGED <<g_host_running, astalled, aud_count>>

\* Mutant: the write position forgets where the ring is read.
push_at_fill(p, life) ==
  [p EXCEPT !.ring = [k \in DOMAIN p.ring |-> IF k - 1 \in {(p.fill + j) % ring_cap(p) : j \in 0..p.length - 1}
                                              THEN <<life, p.sent + 1>> ELSE @[k]],
            !.fill = @ + p.length, !.sent = @ + p.length]

\* audio_port_push: a grain behind what is queued; what no longer fits goes.
audio_port_push(p, life) ==
  LET over == IF p.fill + p.length > ring_cap(p) THEN p.fill + p.length - ring_cap(p) ELSE 0
      q == Advance(p, over)
      w == q.read + q.fill
  IN  IF ~g_host_running THEN p
      ELSE [q EXCEPT !.ring = [k \in DOMAIN p.ring |->
                                 LET js == {j \in 0..p.length - 1 : (w + j) % ring_cap(p) = k - 1}
                                 IN  IF js = {} THEN @[k] ELSE <<life, p.sent + 1 + Min(js)>>],
                     !.fill = @ + p.length, !.sent = @ + p.length]

\* All ports were waited for: grains go to those that are still open.
outputs_push(t) ==
  /\ aout[t].at # "idle" /\ alock = t /\ aout[t].i > Len(aout[t].to)
  /\ LET given(h) == {e \in {aout[t].to[k] : k \in DOMAIN aout[t].to} : e.h = h /\ aout[t].at = "output" /\ aport[h].in_use}
     IN  /\ aport' = [h \in Handles |-> IF given(h) = {} THEN aport[h]
                                        ELSE audio_port_push(aport[h], (CHOOSE e \in given(h) : TRUE).life)]
         /\ aud_count' = [aud_count EXCEPT !.dropped =
              @ + Cardinality({h \in Handles : given(h) # {} /\ g_host_running /\ ~astalled
                                               /\ aport[h].fill + aport[h].length > ring_cap(aport[h])})]
  /\ aout' = [aout EXCEPT ![t] = NoOutput] /\ alock' = Unheld
  /\ UNCHANGED <<g_host_running, astalled>>

AudNext ==
  \/ ps4_audioout_port_open \/ audio_mix \/ device_stalls
  \/ \E h \in Handles : ps4_audioout_port_close(h)
  \/ \E t \in AudThreads : shim_sceAudioOutOutputs(t) \/ audio_port_wait_room(t) \/ outputs_push(t)

-----------------------------------------------------------------------------
\* A ring holds the last frames output to its port in this life of it, in the
\* order they were output, so that a grain never lands in a port opened after
\* its call began and no frame is played twice or out of order; and two
\* threads that output together lose nothing to each other under a running
\* device, though one may have waited for room before the other took it.
AudioInOrder ==
  /\ \A h \in Handles : aport[h].in_use =>
       LET p == aport[h]
       IN  /\ p.fill <= ring_cap(p)
           /\ \A k \in 0..p.fill - 1 : p.ring[((p.read + k) % ring_cap(p)) + 1] = <<p.life, p.sent - p.fill + k + 1>>
  /\ aud_count.dropped = 0

-----------------------------------------------------------------------------
(***************************************************************************)
(* PS4_AUDIO_DUMP (ps4_audioout.c): the device copies every period it mixes*)
(* into a ring without a lock the writer takes (dump_write); the writer    *)
(* thread writes the ring to a WAV file under g_dump_io_lock; the exit     *)
(* handler writes the rest and the final header.  Frames are numbered as   *)
(* the device mixed them.  A step is what lies between two accesses of     *)
(* g_dump_put and g_dump_taken.                                            *)
(***************************************************************************)

CONSTANTS DUMP_RING_FRAMES,
          DumpPeriods, \* lengths of a period
          DumpRate,    \* AUDIO_RATE: frames between two headers
          DumpFrames   \* bound: frames mixed

ASSUME DumpAssumption ==
  /\ DUMP_RING_FRAMES \in Nat \ {0} /\ DumpPeriods \subseteq Nat \ {0} /\ DumpRate \in Nat /\ DumpFrames \in Nat

VARIABLES dring, g_dump_put, g_dump_taken,
          g_dump_on,
          g_dump_errno,
          dfile,      \* [frames written, frames the header names, open]
          ddev,       \* the device's dump_write
          dwriter,    \* who drains, and the drain
          g_dump_frames, g_dump_lost,
          dkept       \* the frames put into the ring, in order

dump_vars == <<dring, g_dump_put, g_dump_taken, g_dump_on, g_dump_errno, dfile, ddev, dwriter, g_dump_frames,
               g_dump_lost, dkept>>

NoWrite == [at |-> "idle", frames |-> 0, n |-> 0]
NoDrain == [who |-> "none", at |-> "idle", put |-> 0, n |-> 0]
DumpAt(k) == k % DUMP_RING_FRAMES

\* dump_open: the file exists with a header of no frames.
DumpInit ==
  /\ dring = [k \in 0..DUMP_RING_FRAMES - 1 |-> 0] /\ g_dump_put = 0 /\ g_dump_taken = 0 /\ g_dump_on = TRUE
  /\ g_dump_errno = FALSE /\ dfile = [data |-> <<>>, header |-> 0, open |-> TRUE] /\ ddev = NoWrite
  /\ dwriter = NoDrain /\ g_dump_frames = 0 /\ g_dump_lost = 0 /\ dkept = <<>>

writer_state == <<dfile, dwriter, g_dump_taken, g_dump_errno>>
device_state == <<dring, g_dump_put, ddev, g_dump_frames, g_dump_lost, dkept>>

-----------------------------------------------------------------------------
(* The device                                                              *)

\* Mutant: a period is put whole, room or not.
write_uncut ==
  /\ ddev = NoWrite /\ g_dump_on /\ ~g_dump_errno
  /\ \E f \in DumpPeriods : g_dump_frames + f <= DumpFrames /\ ddev' = [at |-> "copy", frames |-> f, n |-> f]
  /\ UNCHANGED <<dring, g_dump_put, g_dump_on, g_dump_frames, g_dump_lost, dkept>> /\ UNCHANGED writer_state

\* dump_write reads how much room there is; a period that has too little is cut.
dump_write ==
  /\ ddev = NoWrite /\ g_dump_on /\ ~g_dump_errno
  /\ \E f \in DumpPeriods :
       /\ g_dump_frames + f <= DumpFrames
       /\ ddev' = [at |-> "copy", frames |-> f, n |-> Min({f, DUMP_RING_FRAMES - (g_dump_put - g_dump_taken)})]
  /\ UNCHANGED <<dring, g_dump_put, g_dump_on, g_dump_frames, g_dump_lost, dkept>> /\ UNCHANGED writer_state

\* Its two copies: up to the end of the ring, and the rest from its start.
write_copy ==
  /\ ddev.at = "copy"
  /\ dring' = [k \in DOMAIN dring |-> LET js == {j \in 0..ddev.n - 1 : DumpAt(g_dump_put + j) = k}
                                      IN  IF js = {} THEN dring[k] ELSE g_dump_frames + 1 + Min(js)]
  /\ ddev' = [ddev EXCEPT !.at = "publish"]
  /\ UNCHANGED <<g_dump_put, g_dump_on, g_dump_frames, g_dump_lost, dkept>> /\ UNCHANGED writer_state

write_publish ==
  /\ ddev.at = "publish"
  /\ g_dump_put' = g_dump_put + ddev.n /\ g_dump_frames' = g_dump_frames + ddev.frames
  /\ g_dump_lost' = g_dump_lost + (ddev.frames - ddev.n)
  /\ dkept' = dkept \o [j \in 1..ddev.n |-> g_dump_frames + j]
  /\ ddev' = NoWrite
  /\ UNCHANGED <<dring, g_dump_on>> /\ UNCHANGED writer_state

-----------------------------------------------------------------------------
(* Draining: the writer thread and the exit handler, under g_dump_io_lock  *)

NobodyDrains == dwriter.who = "none"

\* The writer found frames; it drains those put by now.
dump_writer_main ==
  /\ NobodyDrains /\ dfile.open /\ ~g_dump_errno /\ g_dump_put # g_dump_taken
  /\ dwriter' = [who |-> "writer", at |-> "write", put |-> g_dump_put, n |-> 0]
  /\ UNCHANGED <<g_dump_on, dfile, g_dump_taken, g_dump_errno>> /\ UNCHANGED device_state

\* The exit handler; it gives up when the lock is not free for 2 s.
dump_finish ==
  /\ g_dump_on /\ g_dump_on' = FALSE
  /\ \/ /\ NobodyDrains
        /\ dwriter' = [who |-> "exit", put |-> g_dump_put, n |-> 0,
                       at |-> IF g_dump_taken = g_dump_put \/ g_dump_errno THEN "end" ELSE "write"]
     \/ ~NobodyDrains /\ UNCHANGED dwriter
  /\ UNCHANGED <<dfile, g_dump_taken, g_dump_errno>> /\ UNCHANGED device_state

\* Up to the end of the ring, or all: one fwrite.
Chunk == LET n == dwriter.put - g_dump_taken IN Min({n, DUMP_RING_FRAMES - DumpAt(g_dump_taken)})

dump_drain_locked ==
  /\ dwriter.at = "write" /\ g_dump_taken < dwriter.put
  /\ \/ /\ dfile' = [dfile EXCEPT !.data = @ \o [j \in 1..Chunk |-> dring[DumpAt(g_dump_taken + j - 1)]]]
        /\ dwriter' = [dwriter EXCEPT !.at = "took", !.n = g_dump_taken + Chunk] /\ UNCHANGED g_dump_errno
     \/ \* a part of it, and an error
        /\ \E n \in 0..Chunk - 1 :
             dfile' = [dfile EXCEPT !.data = @ \o [j \in 1..n |-> dring[DumpAt(g_dump_taken + j - 1)]]]
        /\ g_dump_errno' = TRUE /\ dwriter' = [dwriter EXCEPT !.at = "end"]
  /\ UNCHANGED <<g_dump_on, g_dump_taken>> /\ UNCHANGED device_state

drain_took ==
  /\ dwriter.at = "took"
  /\ g_dump_taken' = dwriter.n
  /\ dwriter' = [dwriter EXCEPT !.at = IF dwriter.n < dwriter.put THEN "write" ELSE "header"]
  /\ UNCHANGED <<g_dump_on, dfile, g_dump_errno>> /\ UNCHANGED device_state

\* The header once per DumpRate frames, otherwise a flush; either may fail.
drain_header ==
  /\ dwriter.at = "header"
  /\ \/ /\ dfile' = IF g_dump_taken - dfile.header >= DumpRate THEN [dfile EXCEPT !.header = g_dump_taken] ELSE dfile
        /\ UNCHANGED g_dump_errno
     \/ g_dump_errno' = TRUE /\ UNCHANGED dfile
  /\ dwriter' = [dwriter EXCEPT !.at = "end"]
  /\ UNCHANGED <<g_dump_on, g_dump_taken>> /\ UNCHANGED device_state

\* The lock is given back; the exit handler first names every frame and closes.
drain_end ==
  /\ dwriter.at = "end"
  /\ dfile' = CASE dwriter.who = "writer" -> dfile
                [] OTHER -> [dfile EXCEPT !.open = FALSE, !.header = IF g_dump_errno THEN @ ELSE g_dump_taken]
  /\ dwriter' = NoDrain
  /\ UNCHANGED <<g_dump_on, g_dump_taken, g_dump_errno>> /\ UNCHANGED device_state

DumpNext ==
  \/ dump_write \/ write_copy \/ write_publish
  \/ dump_writer_main \/ dump_finish \/ dump_drain_locked \/ drain_took \/ drain_header \/ drain_end

-----------------------------------------------------------------------------
\* The file holds the frames put into the ring, all of them in order and none
\* twice however the device and the writer interleave and whatever was cut;
\* every frame mixed was put or is counted as lost; a header never names a
\* frame that is not there, and after a normal end it names all.
DumpFaithful ==
  /\ IsPrefix(dfile.data, dkept) /\ g_dump_put - g_dump_taken \in 0..DUMP_RING_FRAMES
  /\ Len(dkept) + g_dump_lost = g_dump_frames
  /\ \A k \in g_dump_taken..g_dump_put - 1 : dring[DumpAt(k)] = dkept[k + 1]
  /\ dfile.header <= Len(dfile.data)
  /\ ~dfile.open /\ ~g_dump_errno => dfile.header = Len(dfile.data)
=============================================================================
