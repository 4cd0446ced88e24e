-------------------------------- MODULE Ngs2 --------------------------------
(***************************************************************************)
(* libSceNgs2 (ps4_ngs2.cpp): a registry of systems, their racks and the   *)
(* racks' voices under one mutex, with handles from one counter.  Creating *)
(* a system or a rack calls the guest's allocation handler: for a system   *)
(* before the mutex is taken, for a rack while it is held.  The handler is *)
(* guest code and may itself call the library.                             *)
(***************************************************************************)
EXTENDS Naturals, Sequences, FiniteSets, SequencesExt

CONSTANTS NgsThreads,
          NgsVoices,      \* the option's maxVoices
          NgsGrains,      \* grain sizes the guest asks for, in units of MinGrainSamples
          MaxGrains,      \* MaxGrainSamples / MinGrainSamples
          NgsCreates      \* bound: handles given out

ASSUME NgsAssumption ==
  /\ NgsVoices \in Nat \ {0} /\ NgsGrains \subseteq Nat /\ MaxGrains \in Nat \ {0} /\ NgsCreates \in Nat

VARIABLES systems, racks, voices,  \* g_ngs2's maps, by handle
          next_handle,
          ngs_mtx,                 \* the thread holding g_ngs2.mtx, or {}
          ngs_call                 \* thread -> what it is in the middle of

ngs_vars == <<systems, racks, voices, next_handle, ngs_mtx, ngs_call>>

Outside == [at |-> "guest", sys |-> 0]
Nothing == [h \in {} |-> 0]

NgsInit ==
  /\ systems = Nothing /\ racks = Nothing /\ voices = Nothing /\ next_handle = 1
  /\ ngs_mtx = {} /\ ngs_call = [t \in NgsThreads |-> Outside]

NgsHandles == 1..NgsCreates
Without(f, S) == Restrict(f, DOMAIN f \ S)
\* A call that runs under std::lock_guard in one step.
Locked(t) == ngs_mtx = {} /\ ngs_call[t].at \in {"guest", "allocating"} /\ UNCHANGED <<ngs_mtx, ngs_call>>

-----------------------------------------------------------------------------
\* CallGuestAlloc, outside the lock; without a buffer the runtime allocates one.
SystemAlloc(t) ==
  /\ ngs_call[t].at = "guest" /\ next_handle <= NgsCreates
  /\ ngs_call' = [ngs_call EXCEPT ![t].at = "allocating"]
  /\ UNCHANGED <<systems, racks, voices, next_handle, ngs_mtx>>

shim_sceNgs2SystemCreateWithAllocator(t) ==
  /\ ngs_call[t].at = "allocating" /\ ngs_mtx = {} /\ next_handle <= NgsCreates
  /\ systems' = (next_handle :> [racks |-> <<>>, grain |-> 1, renders |-> 0]) @@ systems
  /\ next_handle' = next_handle + 1
  /\ ngs_call' = [ngs_call EXCEPT ![t] = Outside]
  /\ UNCHANGED <<racks, voices, ngs_mtx>>

VoicesOf(rs) == {v \in DOMAIN voices : \E r \in rs : v \in Range(racks[r].voices)}

shim_sceNgs2SystemDestroy(t, h) ==
  /\ Locked(t) /\ h \in DOMAIN systems
  /\ LET rs == Range(systems[h].racks) \cap DOMAIN racks
     IN  voices' = Without(voices, VoicesOf(rs)) /\ racks' = Without(racks, rs)
  /\ systems' = Without(systems, {h})
  /\ UNCHANGED next_handle

\* ValidGrain refuses the other sizes.
shim_sceNgs2SystemSetGrainSamples(t, h, g) ==
  /\ Locked(t) /\ h \in DOMAIN systems /\ g \in 1..MaxGrains
  /\ systems' = [systems EXCEPT ![h].grain = g]
  /\ UNCHANGED <<racks, voices, next_handle>>

shim_sceNgs2SystemRender(t, h) ==
  /\ Locked(t) /\ h \in DOMAIN systems /\ systems[h].renders < 1
  /\ systems' = [systems EXCEPT ![h].renders = @ + 1]
  /\ UNCHANGED <<racks, voices, next_handle>>

-----------------------------------------------------------------------------
\* Mutant: the mutex is given up while the guest's handler runs.
rack_begin_unlocked(t, h) ==
  /\ ngs_call[t].at = "guest" /\ ngs_mtx = {} /\ h \in DOMAIN systems
  /\ next_handle + NgsVoices <= NgsCreates
  /\ ngs_call' = [ngs_call EXCEPT ![t] = [at |-> "rack", sys |-> h]]
  /\ UNCHANGED <<systems, racks, voices, next_handle, ngs_mtx>>

\* The system is looked up, then the guest's handler runs, the mutex held.
rack_begin(t, h) ==
  /\ ngs_call[t].at = "guest" /\ ngs_mtx = {} /\ h \in DOMAIN systems
  /\ next_handle + NgsVoices <= NgsCreates
  /\ ngs_mtx' = {t}
  /\ ngs_call' = [ngs_call EXCEPT ![t] = [at |-> "rack", sys |-> h]]
  /\ UNCHANGED <<systems, racks, voices, next_handle>>

\* The handler calls a function of the library: std::mutex is not recursive,
\* and the thread and every later caller wait for ever.
rack_reenter(t) ==
  /\ ngs_call[t].at = "rack"
  /\ ngs_call' = [ngs_call EXCEPT ![t].at = "stuck"]
  /\ UNCHANGED <<systems, racks, voices, next_handle, ngs_mtx>>

\* Rack and voice handles follow one another; sys_it is still the system.
shim_sceNgs2RackCreateWithAllocator(t) ==
  LET r == next_handle
      h == ngs_call[t].sys
  IN  /\ ngs_call[t].at = "rack" /\ r + NgsVoices <= NgsCreates
      /\ racks' = (r :> [sys |-> h, voices |-> [i \in 1..NgsVoices |-> r + i]]) @@ racks
      /\ voices' = [v \in (r + 1)..(r + NgsVoices) |-> [rack |-> r, index |-> v - r - 1]] @@ voices
      /\ systems' = IF h \in DOMAIN systems THEN [systems EXCEPT ![h].racks = Append(@, r)] ELSE systems
      /\ next_handle' = r + NgsVoices + 1
      /\ ngs_mtx' = ngs_mtx \ {t}
      /\ ngs_call' = [ngs_call EXCEPT ![t] = Outside]

shim_sceNgs2RackDestroy(t, r) ==
  /\ Locked(t) /\ r \in DOMAIN racks
  /\ voices' = Without(voices, VoicesOf({r}))
  /\ LET h == racks[r].sys
     IN  systems' = IF h \in DOMAIN systems
                    THEN [systems EXCEPT ![h].racks = SelectSeq(@, LAMBDA x : x # r)] ELSE systems
  /\ racks' = Without(racks, {r})
  /\ UNCHANGED next_handle

\* The queries, which answer 0 for an invalid handle or index.
shim_sceNgs2RackGetVoiceHandle(r, i) ==
  IF r \in DOMAIN racks /\ i < Len(racks[r].voices) THEN racks[r].voices[i + 1] ELSE 0
shim_sceNgs2VoiceGetOwner(v) ==
  IF v \in DOMAIN voices THEN <<voices[v].rack, voices[v].index>> ELSE <<0, 0>>
shim_sceNgs2SystemGetInfo(h) ==
  [rackCount |-> Len(systems[h].racks), numGrainSamples |-> systems[h].grain]
shim_sceNgs2RackGetInfo(r) ==
  [ownerSystemHandle |-> racks[r].sys, activeVoiceCount |-> Len(racks[r].voices)]

NgsNext == \E t \in NgsThreads :
  \/ SystemAlloc(t) \/ shim_sceNgs2SystemCreateWithAllocator(t) \/ rack_reenter(t)
  \/ shim_sceNgs2RackCreateWithAllocator(t)
  \/ \E h \in NgsHandles :
       \/ shim_sceNgs2SystemDestroy(t, h) \/ shim_sceNgs2SystemRender(t, h) \/ rack_begin(t, h)
       \/ shim_sceNgs2RackDestroy(t, h)
       \/ \E g \in NgsGrains : shim_sceNgs2SystemSetGrainSamples(t, h, g)

-----------------------------------------------------------------------------
\* The queries answer from one tree: a rack's owner is a system that counts
\* it once, the handle of a rack's voice finds that rack and index and no other
\* voice is found, and no handle names two things.
NgsTree ==
  /\ \A r \in DOMAIN racks :
       /\ shim_sceNgs2RackGetInfo(r).ownerSystemHandle \in DOMAIN systems
       /\ shim_sceNgs2RackGetInfo(r).activeVoiceCount = NgsVoices
       /\ \A i \in 0..(NgsVoices - 1) :
            shim_sceNgs2VoiceGetOwner(shim_sceNgs2RackGetVoiceHandle(r, i)) = <<r, i>>
  /\ \A h \in DOMAIN systems :
       /\ shim_sceNgs2SystemGetInfo(h).rackCount = Cardinality({r \in DOMAIN racks : racks[r].sys = h})
       /\ Range(systems[h].racks) = {r \in DOMAIN racks : racks[r].sys = h}
       /\ shim_sceNgs2SystemGetInfo(h).numGrainSamples \in 1..MaxGrains
  /\ \A v \in DOMAIN voices : shim_sceNgs2VoiceGetOwner(v)[1] \in DOMAIN racks
  /\ DOMAIN systems \cap DOMAIN racks = {} /\ DOMAIN voices \cap (DOMAIN systems \cup DOMAIN racks) = {}
=============================================================================
