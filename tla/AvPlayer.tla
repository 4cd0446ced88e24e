------------------------------ MODULE AvPlayer ------------------------------
(***************************************************************************)
(* libSceAvPlayer's player (ps4_avplayer.cpp): the demuxer reads packets   *)
(* into a queue for each enabled stream, a decoder per stream takes a free *)
(* guest buffer, fills it and queues it as ready, the guest takes ready    *)
(* frames and so gives the buffer of the frame before back, and the        *)
(* controller delivers events and starts playback by itself when told to.  *)
(* Every queue is a SafeQueue, one step per operation on it.  A packet is  *)
(* its number in the stream; a decoder makes one frame of it, or none.     *)
(***************************************************************************)
EXTENDS Naturals, Sequences, FiniteSets, FiniteSetsExt, SequencesExt

CONSTANTS AvStreams,  \* "video" and "audio", the streams of the source
          AvBuffers,  \* guest buffers there can be of each stream
          max_fb,     \* buffers playback allocates for a stream
          AvPackets,  \* packets of each stream
          AvPending,  \* packets queued that make the demuxer sleep
          AvCalls     \* bound: calls that start or stop

ASSUME AvAssumption ==
  /\ max_fb \in Nat \ {0} /\ AvPackets \in Nat /\ AvPending \in Nat /\ AvCalls \in Nat

VARIABLES av,       \* the player's flags: m_state, m_is_eof, m_workers_stop, streams and buffers
          apackets, afree, aready, acurr, \* the queues and the frame the guest has, of each stream
          adecoder, ademuxer,             \* the workers
          aevents, acontroller,
          astart,   \* who is in a start or a stop (under m_state_mutex) and where
          ashown    \* the last packet whose frame the guest got, of each stream

av_vars == <<av, apackets, afree, aready, acurr, adecoder, ademuxer, aevents, acontroller, astart, ashown>>
queues == <<apackets, afree, aready, acurr, ashown>>
workers == <<adecoder, ademuxer>>

NoBuf == 0
NoFrame == [buf |-> NoBuf, pkt |-> 0]
Ended == [at |-> "none", frame |-> NoFrame]
NobodyStarts == [by |-> "none", op |-> "none", at |-> "none"]
Of(v) == [s \in AvStreams |-> v]

AvInit ==
  /\ av \in [state : {"initial"}, eof : {FALSE}, stop : {FALSE}, closed : {FALSE}, looping : BOOLEAN,
             auto : BOOLEAN, enabled : {{}}, alloc : {Of({})}, calls : {0}]
  /\ apackets = Of(<<>>) /\ afree = Of(<<>>) /\ aready = Of(<<>>) /\ acurr = Of(NoBuf) /\ ashown = Of(0)
  /\ adecoder = Of(Ended) /\ ademuxer = [at |-> "none", next |-> 1]
  /\ aevents = <<>> /\ acontroller = "wait" /\ astart = NobodyStarts

GuestFree == astart.by # "guest" /\ ~av.closed
-----------------------------------------------------------------------------
(* Calls of the guest                                                      *)

\* A source may be added before the first start and after a stop.
add_source ==
  /\ GuestFree /\ av.state \in {"initial", "stop"} /\ astart = NobodyStarts /\ av.calls < AvCalls
  /\ \/ /\ av' = [av EXCEPT !.state = "ready", !.calls = @ + 1] /\ aevents' = Append(aevents, "ready")
        /\ ademuxer' = [ademuxer EXCEPT !.next = 1] /\ ashown' = Of(0)
     \/ av' = [av EXCEPT !.state = "error", !.calls = @ + 1] /\ UNCHANGED <<aevents, ademuxer, ashown>>
  /\ UNCHANGED <<apackets, afree, aready, acurr, adecoder, acontroller, astart>>

enable_stream(s) ==
  /\ GuestFree /\ astart = NobodyStarts /\ av.state = "ready" /\ ~av.auto
  /\ av' = [av EXCEPT !.enabled = @ \cup {s}]
  /\ UNCHANGED queues /\ UNCHANGED workers /\ UNCHANGED <<aevents, acontroller, astart>>

Playing == av.state \in {"play", "pause"}

\* start_playback, stop_playback and the destructor begin; only one holds
\* m_state_mutex.  A start of a player that plays stops it first.
begin(by, op) ==
  /\ astart = NobodyStarts
  /\ astart' = [by |-> by, op |-> op, at |-> IF op = "start" /\ ~Playing THEN "start" ELSE "join"]
  /\ av' = [av EXCEPT !.stop = IF op = "start" /\ ~Playing THEN @ ELSE TRUE, !.calls = @ + 1]
start_playback == GuestFree /\ av.calls < AvCalls /\ av.enabled # {} /\ begin("guest", "start")
                    /\ UNCHANGED queues /\ UNCHANGED workers /\ UNCHANGED <<aevents, acontroller>>
stop_playback == GuestFree /\ av.calls < AvCalls /\ begin("guest", "stop")
                   /\ UNCHANGED queues /\ UNCHANGED workers /\ UNCHANGED <<aevents, acontroller>>
shim_sceAvPlayerClose == GuestFree /\ begin("guest", "close")
                           /\ UNCHANGED queues /\ UNCHANGED workers /\ UNCHANGED <<aevents, acontroller>>

\* stop_playback_internal once the workers have ended: packets and buffers go.
stop_playback_internal ==
  /\ astart.at = "join" /\ ademuxer.at = "none" /\ \A s \in AvStreams : adecoder[s] = Ended
  /\ apackets' = Of(<<>>) /\ afree' = Of(<<>>) /\ aready' = Of(<<>>) /\ acurr' = Of(NoBuf)
  /\ av' = [av EXCEPT !.state = "stop", !.closed = astart.op = "close",
                      !.alloc = [s \in AvStreams |-> @[s] \ (ToSet(afree[s]) \cup {f.buf : f \in ToSet(aready[s])} \cup {acurr[s]})]]
  /\ aevents' = IF astart.op = "stop" THEN Append(aevents, "stop") ELSE aevents
  /\ astart' = IF astart.op = "start" THEN [astart EXCEPT !.at = "start"] ELSE NobodyStarts
  /\ UNCHANGED workers /\ UNCHANGED <<acontroller, ashown>>

\* The rest of start_playback: decoders and buffers, then the workers.  When an
\* allocation fails the buffers so far stay in the queue and nothing starts.
start_workers ==
  /\ astart.at = "start"
  /\ \E got \in [av.enabled -> 0..max_fb] :
       LET fresh(s) == SetToSeq(CHOOSE B \in SUBSET (AvBuffers \ av.alloc[s]) : Cardinality(B) = got[s])
           ok == \A s \in av.enabled : got[s] = max_fb
       IN  /\ \A s \in av.enabled : Cardinality(AvBuffers \ av.alloc[s]) >= got[s]
           /\ afree' = [s \in AvStreams |-> IF s \in av.enabled THEN afree[s] \o fresh(s) ELSE afree[s]]
           /\ av' = [av EXCEPT !.alloc = [s \in AvStreams |-> IF s \in av.enabled THEN @[s] \cup ToSet(fresh(s)) ELSE @[s]],
                               !.eof = IF ok THEN FALSE ELSE @, !.stop = IF ok THEN FALSE ELSE @,
                               !.state = IF ok THEN "play" ELSE @]
           /\ adecoder' = IF ok THEN [s \in AvStreams |-> IF s \in av.enabled THEN [Ended EXCEPT !.at = "loop"] ELSE Ended]
                          ELSE adecoder
           /\ ademuxer' = IF ok THEN [ademuxer EXCEPT !.at = "loop"] ELSE ademuxer
           /\ aevents' = IF ok THEN Append(aevents, "play") ELSE aevents
  /\ astart' = NobodyStarts
  /\ acontroller' = IF astart.by = "controller" THEN "wait" ELSE acontroller
  /\ UNCHANGED <<apackets, aready, acurr, ashown>>

pause_playback ==
  /\ GuestFree /\ av.calls < AvCalls
  /\ \/ av.state = "play" /\ av' = [av EXCEPT !.state = "pause", !.calls = @ + 1] /\ aevents' = Append(aevents, "pause")
     \/ av.state = "pause" /\ av' = [av EXCEPT !.state = "play", !.calls = @ + 1] /\ aevents' = Append(aevents, "play")
  /\ UNCHANGED queues /\ UNCHANGED workers /\ UNCHANGED <<acontroller, astart>>

is_active ==
  /\ av.state \notin {"initial", "stop", "error"}
  /\ ~av.eof \/ \E s \in AvStreams : aready[s] # <<>> \/ apackets[s] # <<>>

\* Mutant: the buffer of the frame before is not given back.
get_data_forgets(s) ==
  /\ GuestFree /\ is_active /\ av.state = "play" /\ aready[s] # <<>>
  /\ acurr' = [acurr EXCEPT ![s] = Head(aready[s]).buf] /\ aready' = [aready EXCEPT ![s] = Tail(@)]
  /\ ashown' = [ashown EXCEPT ![s] = Head(aready[s]).pkt]
  /\ UNCHANGED workers /\ UNCHANGED <<av, apackets, afree, aevents, acontroller, astart>>

\* get_video_data_ex, when the frame is due, and get_audio_data.
get_data(s) ==
  /\ GuestFree /\ is_active /\ av.state = "play" /\ aready[s] # <<>>
  /\ afree' = [afree EXCEPT ![s] = IF acurr[s] = NoBuf THEN @ ELSE Append(@, acurr[s])]
  /\ acurr' = [acurr EXCEPT ![s] = Head(aready[s]).buf] /\ aready' = [aready EXCEPT ![s] = Tail(@)]
  /\ ashown' = [ashown EXCEPT ![s] = Head(aready[s]).pkt]
  /\ UNCHANGED workers /\ UNCHANGED <<av, apackets, aevents, acontroller, astart>>

-----------------------------------------------------------------------------
(* The workers                                                             *)

\* Demuxed for the stream, and the next packet.
demuxer_worker ==
  /\ ademuxer.at = "loop"
  /\ \/ /\ av.stop /\ ademuxer' = [ademuxer EXCEPT !.at = "none"] /\ UNCHANGED <<av, apackets>>
     \/ /\ ~av.stop /\ ademuxer.next <= AvPackets /\ \A s \in AvStreams : Len(apackets[s]) <= AvPending
        /\ apackets' = [s \in AvStreams |-> IF s \in av.enabled THEN Append(apackets[s], ademuxer.next) ELSE apackets[s]]
        /\ ademuxer' = [ademuxer EXCEPT !.next = @ + 1] /\ UNCHANGED av
     \/ \* the end: once more from the start, or no more
        /\ ~av.stop /\ ademuxer.next > AvPackets /\ \A s \in AvStreams : Len(apackets[s]) <= AvPending
        /\ IF av.looping THEN ademuxer' = [ademuxer EXCEPT !.next = 1] /\ UNCHANGED av
           ELSE av' = [av EXCEPT !.eof = TRUE] /\ ademuxer' = [ademuxer EXCEPT !.at = "none"]
        /\ UNCHANGED apackets
  /\ UNCHANGED <<afree, aready, acurr, ashown, adecoder, aevents, acontroller, astart>>

\* video_decoder_worker and audio_decoder_worker: the loop's test, wait_pop of
\* a packet, wait_pop of a buffer, and the push of the frame.
decoder_test(s) ==
  /\ adecoder[s].at = "loop"
  /\ adecoder' = [adecoder EXCEPT ![s] = IF av.stop \/ (av.eof /\ apackets[s] = <<>>) THEN Ended ELSE [@ EXCEPT !.at = "packet"]]
  /\ UNCHANGED <<av, apackets, afree, aready, acurr, ashown, ademuxer, aevents, acontroller, astart>>

decoder_packet(s) ==
  /\ adecoder[s].at = "packet"
  /\ \/ av.stop /\ adecoder' = [adecoder EXCEPT ![s].at = "loop"] /\ UNCHANGED apackets
     \/ /\ ~av.stop /\ apackets[s] # <<>> /\ apackets' = [apackets EXCEPT ![s] = Tail(@)]
        /\ \/ adecoder' = [adecoder EXCEPT ![s] = [at |-> "buffer", frame |-> [NoFrame EXCEPT !.pkt = Head(apackets[s])]]]
           \/ adecoder' = [adecoder EXCEPT ![s].at = "loop"]  \* the decoder refuses it
  /\ UNCHANGED <<av, afree, aready, acurr, ashown, ademuxer, aevents, acontroller, astart>>

decoder_buffer(s) ==
  /\ adecoder[s].at = "buffer"
  /\ \/ av.stop /\ adecoder' = [adecoder EXCEPT ![s] = [Ended EXCEPT !.at = "loop"]] /\ UNCHANGED afree
     \/ /\ ~av.stop /\ afree[s] # <<>> /\ afree' = [afree EXCEPT ![s] = Tail(@)]
        /\ adecoder' = [adecoder EXCEPT ![s].at = "copy", ![s].frame.buf = Head(afree[s])]
  /\ UNCHANGED <<av, apackets, aready, acurr, ashown, ademuxer, aevents, acontroller, astart>>

\* The frame is ready; audio that cannot be converted gives its buffer back.
decoder_push(s) ==
  /\ adecoder[s].at = "copy"
  /\ \/ aready' = [aready EXCEPT ![s] = Append(@, adecoder[s].frame)] /\ UNCHANGED afree
     \/ s = "audio" /\ afree' = [afree EXCEPT ![s] = Append(@, adecoder[s].frame.buf)] /\ UNCHANGED aready
  /\ adecoder' = [adecoder EXCEPT ![s] = [Ended EXCEPT !.at = "loop"]]
  /\ UNCHANGED <<av, apackets, acurr, ashown, ademuxer, aevents, acontroller, astart>>

\* The controller sleeps in wait_pop, which returns with an event or when the
\* player is closed and at no other time; READY starts a player told to.
controller_worker ==
  /\ acontroller = "wait"
  /\ \/ /\ av.closed /\ acontroller' = "none" /\ UNCHANGED <<av, aevents, astart>>
     \/ /\ ~av.closed /\ aevents # <<>> /\ aevents' = Tail(aevents)
        /\ IF Head(aevents) = "ready" /\ av.auto
           THEN /\ astart = NobodyStarts
                /\ astart' = [by |-> "controller", op |-> "start", at |-> IF Playing THEN "join" ELSE "start"]
                /\ av' = [av EXCEPT !.enabled = AvStreams, !.stop = IF Playing THEN TRUE ELSE @]
                /\ acontroller' = "start"
           ELSE UNCHANGED <<av, astart, acontroller>>
  /\ UNCHANGED queues /\ UNCHANGED workers

AvWorker(s) == decoder_test(s) \/ decoder_packet(s) \/ decoder_buffer(s) \/ decoder_push(s)
AvNext ==
  \/ add_source \/ start_playback \/ stop_playback \/ shim_sceAvPlayerClose \/ pause_playback
  \/ stop_playback_internal \/ start_workers \/ demuxer_worker \/ controller_worker
  \/ \E s \in AvStreams : enable_stream(s) \/ get_data(s) \/ AvWorker(s)

\* Threads run and a guest that plays goes on asking for frames.
AvSpec ==
  /\ AvInit /\ [][AvNext]_av_vars
  /\ WF_av_vars(demuxer_worker) /\ WF_av_vars(controller_worker) /\ WF_av_vars(stop_playback_internal \/ start_workers)
  /\ \A s \in AvStreams : WF_av_vars(AvWorker(s)) /\ WF_av_vars(get_data(s))

-----------------------------------------------------------------------------
\* Every guest buffer is in one place: free, with the decoder, ready or with
\* the guest, so that none the guest reads is written and none is lost to
\* stops, failed starts and closes, and a stopped player's decoders have none;
\* the guest gets frames in the order of their packets.
AvBuffersKept ==
  /\ \A s \in AvStreams :
       LET held == afree[s] \o [k \in DOMAIN aready[s] |-> aready[s][k].buf]
                     \o SelectSeq(<<acurr[s], adecoder[s].frame.buf>>, LAMBDA b : b # NoBuf)
       IN  IsInjective(held) /\ ToSet(held) = av.alloc[s]
  /\ av.closed => av.alloc = Of({}) /\ \A s \in AvStreams : adecoder[s] = Ended
  /\ ~av.looping => \A s \in AvStreams :
       LET f == <<ashown[s]>> \o [k \in DOMAIN aready[s] |-> aready[s][k].pkt]
       IN  \A j \in 1..Len(aready[s]) : f[j] < f[j + 1]

\* A source that does not loop and was played to its end stops the player:
\* "Natural EOF reached and all frames consumed, emitting STOP event to game".
StopsAtEof ==
  (av.state = "play" /\ av.eof /\ ~is_active /\ astart = NobodyStarts /\ \A s \in AvStreams : adecoder[s].frame = NoFrame)
    ~> (av.state # "play")
=============================================================================
