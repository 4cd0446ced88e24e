---------------------------- MODULE MCLibraries -----------------------------
(***************************************************************************)
(* The graphics and media libraries, which share no state with one         *)
(* another, on small instances: a behaviour is one of the library focus    *)
(* names.                                                                  *)
(***************************************************************************)
EXTENDS GnmDriver, Ajm, VideoOut, AudioOut, AvPlayer, Audio3d, Decoders,
        Ngs2

CONSTANT Foci
VARIABLE focus

vars == <<focus, gnm_vars, pkt_vars, ajm_vars, dec_vars, chunk_vars, vo_vars,
          aud_vars, dump_vars, av_vars, a3d_vars, h264_vars, vsw_vars, adec_vars, ngs_vars>>

FlipArgs == {-2}

\* Access units for an audio decoder: each check of sceAudiodecDecode fails once.
Unit(b, r, c, a, room) == [unit |-> [bytes |-> b, rate |-> r, channels |-> c, accepted |-> a], room |-> room]
Units == {Unit("whole", 1, 2, TRUE, 4), Unit("whole", 2, 1, TRUE, 2), Unit("whole", 1, 1, FALSE, 8),
          Unit("short", 1, 0, TRUE, 4), Unit("whole", 1, 3, TRUE, 8), Unit("whole", 1, 2, TRUE, 2)}

\* A library the behaviour is not about starts in one of its initial states.
Init ==
  /\ focus \in Foci
  /\ GnmInit /\ PktInit /\ AjmInit /\ DecInit /\ ChunkInit /\ VoInit
  /\ AudInit /\ DumpInit /\ AvInit /\ A3dInit /\ H264Init /\ VswInit /\ AdecInit /\ NgsInit
  /\ focus # "decode" => dinst.codec = "at9" /\ ~dinst.loop
  /\ focus # "av_player" => ~av.looping /\ ~av.auto
  /\ focus # "h264" => enc.type = 0 /\ enc.step = CHOOSE step \in H264Steps : TRUE

Next ==
  /\ UNCHANGED focus
  /\ CASE focus = "gnm_rings" -> GnmRingNext [] focus = "gnm_events" -> GnmIrqNext [] OTHER -> UNCHANGED gnm_vars
  /\ IF focus = "gnm_packets" THEN PktNext ELSE UNCHANGED pkt_vars
  /\ IF focus = "ajm" THEN AjmNext ELSE UNCHANGED ajm_vars
  /\ IF focus = "decode" THEN DecNext ELSE UNCHANGED dec_vars
  /\ IF focus = "ajm_chunks" THEN ChunkNext ELSE UNCHANGED chunk_vars
  /\ CASE focus = "video_out" -> VoNext [] focus = "vblank" -> VoVblankNext [] OTHER -> UNCHANGED vo_vars
  /\ IF focus = "audio_out" THEN AudNext ELSE UNCHANGED aud_vars
  /\ IF focus = "audio_dump" THEN DumpNext ELSE UNCHANGED dump_vars
  /\ IF focus = "av_player" THEN AvNext ELSE UNCHANGED av_vars
  /\ IF focus = "audio3d" THEN A3dNext ELSE UNCHANGED a3d_vars
  /\ IF focus = "h264" THEN H264Next ELSE UNCHANGED h264_vars
  /\ IF focus = "vdecsw" THEN VswNext ELSE UNCHANGED vsw_vars
  /\ IF focus = "audiodec" THEN AdecNext ELSE UNCHANGED adec_vars
  /\ IF focus = "ngs2" THEN NgsNext ELSE UNCHANGED ngs_vars

Spec == Init /\ [][Next]_vars

-----------------------------------------------------------------------------
(* A library that the behaviour is not about does not move, and its        *)
(* property is not evaluated again.                                        *)

(* What is handed over is taken once and given back: a compute ring's      *)
(* packets run once and in ring order, a buffer label stays locked until   *)
(* the flip that follows its own is done and is released then, a started   *)
(* AJM batch is run or found cancelled and its waiter is woken, an audio   *)
(* decoder's calls keep to its table, format and room, and a video         *)
(* decoder's calls keep the decoder and its stream.                        *)
HandOversExact ==
  /\ focus \in {"gnm_rings", "gnm_events"} => RingRunsInOrder
  /\ focus \in {"video_out", "vblank"} => LabelsReleased
  /\ focus = "ajm" => BatchesServed
  /\ focus = "audiodec" => AudiodecExact
  /\ focus = "vdecsw" => CallsKeepDecoders

(* What is parsed: every command buffer's packets tile it whatever is      *)
(* patched in, a batch is parsed into the jobs appended to it, and a       *)
(* decoder's samples are contiguous with none lost but those to be skipped.*)
ParsesExact ==
  /\ focus = "gnm_packets" => BuffersTile
  /\ focus = "ajm_chunks" => JobsParsed
  /\ focus = "decode" => DecodesContiguously

(* Sound: what is output is played once and in order, the dump holds what  *)
(* was played, a 3D port's grains are queued, mixed or dropped as told,    *)
(* and the NGS2 tree holds no racks or voices of destroyed parents.        *)
SoundExact ==
  /\ focus = "audio_out" => AudioInOrder
  /\ focus = "audio_dump" => DumpFaithful
  /\ focus = "audio3d" => GrainsConserved
  /\ focus = "ngs2" => NgsTree

(* Video: pictures come out in display order, and every frame buffer of a  *)
(* player has one owner.                                                   *)
VideoExact ==
  /\ focus = "h264" => DisplayOrder
  /\ focus = "av_player" => AvBuffersKept

(* The streams of packets, samples and pictures keep all of it.            *)
StreamsExact == ParsesExact /\ SoundExact /\ VideoExact
=============================================================================
