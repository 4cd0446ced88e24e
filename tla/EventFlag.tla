----------------------------- MODULE EventFlag ------------------------------
(***************************************************************************)
(* Kernel event flags: pkg/runtime/kernel/sync/ps4_event_flag.c.           *)
(*                                                                         *)
(* A pattern is a set of bits.  A call looks its slot up without a lock    *)
(* (get_evf) and enters the flag's mutex in a later step; life tells the   *)
(* flags of a slot apart.  A section of the mutex is one step.             *)
(***************************************************************************)
EXTENDS Naturals

CONSTANTS EvfThreads, EvfSlots,  \* EvfSlots: the slots 1 .. MAX_EVENT_FLAGS - 1
          EvfBits,               \* the bits of a pattern in use
          EvfLives               \* bound: flags made in one slot

VARIABLES evf,    \* g_evf_table
          fcall   \* the call each thread is in

evf_vars == <<evf, fcall>>

WaitModes == [or : BOOLEAN, clear : {"none", "all", "pat"}]
NoEvfCall == [at |-> "idle", op |-> "none", slot |-> 0, life |-> 0, bits |-> {},
              mode |-> [or |-> FALSE, clear |-> "none"], timed |-> FALSE]

EvfInit ==
  /\ evf = [i \in EvfSlots |-> [in_use |-> FALSE, magic |-> FALSE, pattern |-> {}, life |-> 0]]
  /\ fcall = [t \in EvfThreads |-> NoEvfCall]

OnEvf(t, i) == fcall[t].at # "idle" /\ fcall[t].slot = i
EvfSleepers(i) == {t \in EvfThreads : OnEvf(t, i) /\ fcall[t].at = "asleep"}

-----------------------------------------------------------------------------
alloc_evf_slot(i) == ~evf[i].in_use /\ \A j \in EvfSlots : j < i => evf[j].in_use

sceKernelCreateEventFlag(t) ==
  /\ fcall[t].at = "idle"
  /\ \E i \in EvfSlots, init \in {{}, EvfBits} :
       /\ alloc_evf_slot(i) /\ evf[i].life < EvfLives
       /\ evf' = [evf EXCEPT ![i] = [in_use |-> TRUE, magic |-> TRUE, pattern |-> init, life |-> @.life + 1]]
  /\ UNCHANGED fcall

\* Every other call: the lookup.
get_evf(t) ==
  /\ fcall[t].at = "idle"
  /\ \E i \in EvfSlots, op \in {"wait", "poll", "set", "clear", "cancel", "delete"},
        bits \in SUBSET EvfBits, mode \in WaitModes, timed \in BOOLEAN :
       /\ evf[i].in_use /\ evf[i].magic
       /\ op \notin {"wait", "poll"} => mode = NoEvfCall.mode
       /\ op # "wait" => ~timed
       /\ op = "delete" => bits = {}
       /\ fcall' = [fcall EXCEPT ![t] = [at |-> "enter", op |-> op, slot |-> i, life |-> evf[i].life,
                                         bits |-> bits, mode |-> mode, timed |-> timed]]
  /\ UNCHANGED evf

check_evf_condition(pattern, bits, mode) ==
  IF mode.or THEN pattern \cap bits # {} ELSE bits \subseteq pattern

EvfEntering(t, op) == fcall[t].at = "enter" /\ fcall[t].op = op
EvfAfter(t, at) == [fcall EXCEPT ![t] = IF at = "idle" THEN NoEvfCall ELSE [@ EXCEPT !.at = at]]
SetPattern(i, p) == evf' = [evf EXCEPT ![i].pattern = p]
\* pthread_cond_broadcast, by t whose call goes on at "at".
EvfBroadcast(t, at) ==
  fcall' = [w \in EvfThreads |-> IF w \in EvfSleepers(fcall[t].slot) THEN [fcall[w] EXCEPT !.at = "woken"]
                                 ELSE EvfAfter(t, at)[w]]

Met(t) == check_evf_condition(evf[fcall[t].slot].pattern, fcall[t].bits, fcall[t].mode)
\* A condition met: CLEAR_ALL wins over CLEAR_PAT.
Consume(t) ==
  LET c == fcall[t]
      p == evf[c.slot].pattern
  IN  /\ SetPattern(c.slot, CASE c.mode.clear = "all" -> {} [] c.mode.clear = "pat" -> p \ c.bits [] OTHER -> p)
      /\ fcall' = EvfAfter(t, "idle")

sceKernelPollEventFlag(t) ==
  /\ EvfEntering(t, "poll")
  /\ IF Met(t) THEN Consume(t) ELSE UNCHANGED evf /\ fcall' = EvfAfter(t, "idle")

\* The wait on entry and after every wakeup; a zero timeout only tests.
sceKernelWaitEventFlag(t) ==
  LET f == evf[fcall[t].slot]
      entry == EvfEntering(t, "wait")
  IN  /\ entry \/ fcall[t].at = "woken"
      /\ \/ f.magic /\ Met(t) /\ Consume(t)
         \/ f.magic /\ ~Met(t) /\ fcall' = EvfAfter(t, "asleep") /\ UNCHANGED evf
         \/ ~f.magic /\ fcall' = EvfAfter(t, "idle") /\ UNCHANGED evf
         \/ entry /\ fcall[t].timed /\ (IF Met(t) THEN Consume(t) ELSE fcall' = EvfAfter(t, "idle") /\ UNCHANGED evf)

\* A timeout is reported whatever the pattern has become.
wait_evf_late(t) ==
  /\ fcall[t].at = "late"
  /\ fcall' = EvfAfter(t, "idle") /\ UNCHANGED evf

sceKernelSetEventFlag(t) ==
  LET i == fcall[t].slot
  IN  EvfEntering(t, "set") /\ SetPattern(i, evf[i].pattern \cup fcall[t].bits) /\ EvfBroadcast(t, "idle")

\* ClearEventFlag keeps the bits it is given.
sceKernelClearEventFlag(t) ==
  LET i == fcall[t].slot
  IN  EvfEntering(t, "clear") /\ SetPattern(i, evf[i].pattern \cap fcall[t].bits) /\ fcall' = EvfAfter(t, "idle")

\* Mutant: the pattern is set and nobody told.
cancel_silent(t) ==
  EvfEntering(t, "cancel") /\ SetPattern(fcall[t].slot, fcall[t].bits) /\ fcall' = EvfAfter(t, "idle")

sceKernelCancelEventFlag(t) ==
  EvfEntering(t, "cancel") /\ SetPattern(fcall[t].slot, fcall[t].bits) /\ EvfBroadcast(t, "idle")

\* magic and the broadcast in the mutex ...
sceKernelDeleteEventFlag(t) ==
  /\ EvfEntering(t, "delete")
  /\ evf' = [evf EXCEPT ![fcall[t].slot].magic = FALSE] /\ EvfBroadcast(t, "free")

\* ... and the slot given back under the table's lock.
delete_evf_slot(t) ==
  /\ fcall[t].at = "free"
  /\ evf' = [evf EXCEPT ![fcall[t].slot].in_use = FALSE]
  /\ fcall' = EvfAfter(t, "idle")

\* The host's condition variable: spurious wakeups and timeouts.
evf_cond(t) ==
  /\ fcall[t].at = "asleep"
  /\ \E how \in {"woken"} \cup (IF fcall[t].timed THEN {"late"} ELSE {}) : fcall' = EvfAfter(t, how)
  /\ UNCHANGED evf

EvfNext ==
  \E t \in EvfThreads :
    \/ sceKernelCreateEventFlag(t) \/ get_evf(t) \/ sceKernelPollEventFlag(t) \/ sceKernelWaitEventFlag(t)
    \/ wait_evf_late(t) \/ sceKernelSetEventFlag(t) \/ sceKernelClearEventFlag(t) \/ sceKernelCancelEventFlag(t)
    \/ sceKernelDeleteEventFlag(t) \/ delete_evf_slot(t) \/ evf_cond(t)

-----------------------------------------------------------------------------
(* No thread sleeps on a live flag it looked up itself while the pattern   *)
(* satisfies it, however sets, cancels, clearing waits and stale calls of  *)
(* an earlier flag in the slot interleave; and nobody sleeps on a flag     *)
(* that was deleted.                                                       *)
EvfWaitersServed ==
  \A i \in EvfSlots : \A t \in EvfSleepers(i) :
    evf[i].magic /\ (fcall[t].life = evf[i].life => ~Met(t))
=============================================================================
