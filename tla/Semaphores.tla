----------------------------- MODULE Semaphores -----------------------------
(***************************************************************************)
(* Guest semaphores (kernel/sync/ps4_semaphore.c): the POSIX ones and those*)
(* of the kernel, two tables that share no state.                          *)
(***************************************************************************)
EXTENDS FiniteSets, Integers

-----------------------------------------------------------------------------
(***************************************************************************)
(* The semaphores of sem_* and scePthreadSem* in                           *)
(* pkg/runtime/kernel/sync/ps4_semaphore.c: one table of slots, each with  *)
(* a mutex and a condition variable.                                       *)
(*                                                                         *)
(* A call looks its slot up without a lock (get_sem) and enters the slot's *)
(* mutex later, so a slot may be destroyed, and even taken by another      *)
(* semaphore, in between: life tells the semaphores of a slot apart.  A    *)
(* section of the mutex is one step, also when the mutex was destroyed.    *)
(***************************************************************************)

CONSTANTS SemThreads, SemSlots,  \* SemSlots: the slots 1 .. MAX_SEMS - 1
          SemLives,              \* bound: semaphores made in one slot
          SemMax                 \* bound: value of a semaphore

ASSUME SemFinite == IsFiniteSet(SemThreads)

VARIABLES sem,    \* g_sem_table
          scall   \* the call each thread is in

sem_vars == <<sem, scall>>

SemWaits == {"sem_wait", "sem_timedwait", "scePthreadSemWait", "scePthreadSemTimedwait"}
Timed == {"sem_timedwait", "scePthreadSemTimedwait"}
NoCall == [at |-> "idle", op |-> "none", slot |-> 0, life |-> 0]

SemInit ==
  /\ sem = [i \in SemSlots |-> [in_use |-> FALSE, magic |-> FALSE, value |-> 0, life |-> 0]]
  /\ scall = [t \in SemThreads |-> NoCall]

OnSem(t, i) == scall[t].at # "idle" /\ scall[t].slot = i
SemSleepers(i) == {t \in SemThreads : OnSem(t, i) /\ scall[t].at = "asleep"}
SemWoken(i) == {t \in SemThreads : OnSem(t, i) /\ scall[t].at = "woken"}

-----------------------------------------------------------------------------
\* sem_init and scePthreadSemInit: the first free slot; none is ENOSPC.
alloc_sem_slot(i) == ~sem[i].in_use /\ \A j \in SemSlots : j < i => sem[j].in_use
sem_init(t) ==
  /\ scall[t].at = "idle"
  /\ \E i \in SemSlots, v \in 0..SemMax :
       /\ alloc_sem_slot(i) /\ sem[i].life < SemLives
       /\ sem' = [sem EXCEPT ![i] = [in_use |-> TRUE, magic |-> TRUE, value |-> v, life |-> @.life + 1]]
  /\ UNCHANGED scall

\* Every other call: the lookup.
get_sem(t) ==
  /\ scall[t].at = "idle"
  /\ \E i \in SemSlots, op \in SemWaits \cup {"trywait", "post", "destroy"} :
       /\ sem[i].in_use /\ sem[i].magic
       /\ scall' = [scall EXCEPT ![t] = [at |-> "enter", op |-> op, slot |-> i, life |-> sem[i].life]]
  /\ UNCHANGED sem

Here(t, op) == scall[t].op = op /\ scall[t].at \in {"enter", "woken", "late"}
SemReturns(t) == scall' = [scall EXCEPT ![t] = NoCall]
TakesToken(t) ==
  /\ sem[scall[t].slot].value > 0
  /\ sem' = [sem EXCEPT ![scall[t].slot].value = @ - 1]
  /\ SemReturns(t)
Fails(t) == SemReturns(t) /\ UNCHANGED sem
Sleeps(t) == scall' = [scall EXCEPT ![t].at = "asleep"] /\ UNCHANGED sem

\* sem_wait looks at the value only.
sem_wait(t) ==
  /\ Here(t, "sem_wait")
  /\ TakesToken(t) \/ (sem[scall[t].slot].value = 0 /\ Sleeps(t))

\* A token is taken before the timespec and magic are looked at; after a
\* wait magic comes first, and a post that raced the timeout still wins.
sem_timedwait(t) ==
  LET s == sem[scall[t].slot]
      first == scall[t].at = "enter"
  IN  /\ Here(t, "sem_timedwait")
      /\ \/ (first \/ s.magic) /\ TakesToken(t)
         \/ s.value = 0 /\ s.magic /\ scall[t].at # "late" /\ Sleeps(t)
         \/ ~first /\ ~s.magic /\ Fails(t)
         \/ s.value = 0 /\ (first \/ scall[t].at = "late") /\ Fails(t)

scePthreadSemWait(t) ==
  LET s == sem[scall[t].slot]
  IN  /\ Here(t, "scePthreadSemWait")
      /\ \/ s.magic /\ TakesToken(t)
         \/ s.magic /\ s.value = 0 /\ Sleeps(t)
         \/ ~s.magic /\ Fails(t)

\* A timeout is reported whatever the value has become.
scePthreadSemTimedwait(t) ==
  LET s == sem[scall[t].slot]
  IN  /\ Here(t, "scePthreadSemTimedwait")
      /\ IF scall[t].at = "late" THEN Fails(t)
         ELSE \/ s.magic /\ TakesToken(t)
              \/ s.magic /\ s.value = 0 /\ Sleeps(t)
              \/ ~s.magic /\ Fails(t)

sem_trywait(t) ==
  /\ Here(t, "trywait")
  /\ TakesToken(t) \/ (sem[scall[t].slot].value = 0 /\ Fails(t))

\* Mutant: a wakeup only when the semaphore was empty.
sem_post_first(t) ==
  LET i == scall[t].slot
      posted == [scall EXCEPT ![t] = NoCall]
  IN  /\ Here(t, "post") /\ sem[i].value < SemMax
      /\ sem' = [sem EXCEPT ![i].value = @ + 1]
      /\ IF SemSleepers(i) = {} \/ sem[i].value > 0 THEN scall' = posted
         ELSE \E w \in SemSleepers(i) : scall' = [posted EXCEPT ![w].at = "woken"]

\* pthread_cond_signal wakes one sleeper of the slot, if there is one.
sem_post(t) ==
  LET i == scall[t].slot
      posted == [scall EXCEPT ![t] = NoCall]
  IN  /\ Here(t, "post") /\ sem[i].value < SemMax
      /\ sem' = [sem EXCEPT ![i].value = @ + 1]
      /\ IF SemSleepers(i) = {} THEN scall' = posted
         ELSE \E w \in SemSleepers(i) : scall' = [posted EXCEPT ![w].at = "woken"]

\* sem_destroy, scePthreadSemDestroy: magic and the broadcast in the mutex,
\* the slot given back later, under the table's lock.
sem_destroy(t) ==
  LET i == scall[t].slot
  IN  /\ Here(t, "destroy")
      /\ sem' = [sem EXCEPT ![i].magic = FALSE]
      /\ scall' = [w \in SemThreads |->
                     IF w = t THEN [scall[t] EXCEPT !.at = "free"]
                     ELSE IF w \in SemSleepers(i) THEN [scall[w] EXCEPT !.at = "woken"] ELSE scall[w]]

sem_free(t) ==
  /\ scall[t].at = "free"
  /\ sem' = [sem EXCEPT ![scall[t].slot].in_use = FALSE]
  /\ SemReturns(t)

\* The host's condition variable: spurious wakeups and timeouts.
sem_cond(t) ==
  /\ scall[t].at = "asleep"
  /\ \E how \in {"woken"} \cup (IF scall[t].op \in Timed THEN {"late"} ELSE {}) :
       scall' = [scall EXCEPT ![t].at = how]
  /\ UNCHANGED sem

\* The sce calls with the same code as the POSIX ones but for the error codes.
scePthreadSemInit(t) == sem_init(t)
scePthreadSemDestroy(t) == sem_destroy(t)
scePthreadSemTrywait(t) == sem_trywait(t)
scePthreadSemPost(t) == sem_post(t)

SemNext ==
  \E t \in SemThreads :
    \/ sem_init(t) \/ get_sem(t) \/ sem_wait(t) \/ sem_timedwait(t) \/ scePthreadSemWait(t)
    \/ scePthreadSemTimedwait(t) \/ sem_trywait(t) \/ sem_post(t) \/ sem_destroy(t) \/ sem_free(t)
    \/ scePthreadSemInit(t) \/ scePthreadSemDestroy(t) \/ scePthreadSemTrywait(t) \/ scePthreadSemPost(t)
    \/ sem_cond(t)

-----------------------------------------------------------------------------
\* A semaphore no call of an earlier life of its slot is still in.
OwnLife(i) == sem[i].magic /\ \A t \in SemThreads : OnSem(t, i) => scall[t].life = sem[i].life

(* A thread sleeps on a live semaphore only while every token it holds has *)
(* a woken thread coming for it: no post is lost among waiters that time   *)
(* out, waiters that wake for nothing and threads that take the token      *)
(* without waiting.                                                        *)
SemNoLostPost ==
  \A i \in SemSlots :
    OwnLife(i) /\ SemSleepers(i) # {} => sem[i].value <= Cardinality(SemWoken(i))

-----------------------------------------------------------------------------
(***************************************************************************)
(* The kernel semaphores (sceKernelCreateSema and its kin) in              *)
(* pkg/runtime/kernel/sync/ps4_semaphore.c.                                *)
(*                                                                         *)
(* As for the POSIX ones, a call looks its slot up without a lock and      *)
(* enters the slot's mutex in a later step; life tells the semaphores of a *)
(* slot apart, and strayed names the slots in which a call of an earlier   *)
(* life has run.  Arguments that are refused outright are left out.        *)
(***************************************************************************)

CONSTANTS KsemThreads, KsemSlots,  \* KsemSlots: the slots 1 .. MAX_KSEMS - 1
          KsemLives,               \* bound: semaphores made in one slot
          KsemMax                  \* bound: maxCount, and the counts asked for

ASSUME KsemFinite == IsFiniteSet(KsemThreads)

VARIABLES ksem,     \* g_ksem_table
          kcall,    \* the call each thread is in
          strayed   \* slots a call of an earlier life has acted on

ksem_vars == <<ksem, kcall, strayed>>

NoKsemCall == [at |-> "idle", op |-> "none", slot |-> 0, life |-> 0, n |-> 0, timed |-> FALSE]

KsemInit ==
  /\ ksem = [i \in KsemSlots |-> [in_use |-> FALSE, magic |-> FALSE, current_count |-> 0, init_count |-> 0,
                                  max_count |-> 0, num_waiters |-> 0, life |-> 0, set |-> FALSE]]
  /\ kcall = [t \in KsemThreads |-> NoKsemCall] /\ strayed = {}

OnKsem(t, i) == kcall[t].at # "idle" /\ kcall[t].slot = i
KsemSleepers(i) == {t \in KsemThreads : OnKsem(t, i) /\ kcall[t].at = "asleep"}
KsemWaiters(i) == {t \in KsemThreads : OnKsem(t, i) /\ kcall[t].at \in {"asleep", "woken", "late"}}

-----------------------------------------------------------------------------
alloc_ksem_slot(i) == ~ksem[i].in_use /\ \A j \in KsemSlots : j < i => ksem[j].in_use

sceKernelCreateSema(t) ==
  /\ kcall[t].at = "idle"
  /\ \E i \in KsemSlots, max \in 1..KsemMax : \E init \in 0..max :
       /\ alloc_ksem_slot(i) /\ ksem[i].life < KsemLives
       /\ ksem' = [ksem EXCEPT ![i] = [in_use |-> TRUE, magic |-> TRUE, current_count |-> init,
                     init_count |-> init, max_count |-> max, num_waiters |-> 0, life |-> @.life + 1,
                     set |-> FALSE]]
  /\ UNCHANGED <<kcall, strayed>>

\* The lookup of every other call; n is the count it asks for (-1: the
\* negative setCount of a cancel).
get_ksem(t) ==
  /\ kcall[t].at = "idle"
  /\ \E i \in KsemSlots, op \in {"wait", "poll", "signal", "cancel", "delete"},
        n \in -1..KsemMax, timed \in BOOLEAN :
       /\ ksem[i].in_use /\ ksem[i].magic
       /\ op \in {"wait", "poll", "signal"} => n > 0
       /\ op = "delete" => n = 0
       /\ op # "wait" => ~timed
       /\ kcall' = [kcall EXCEPT ![t] = [at |-> "enter", op |-> op, slot |-> i, life |-> ksem[i].life,
                                         n |-> n, timed |-> timed]]
  /\ UNCHANGED <<ksem, strayed>>

\* A section of t's slot: r is the slot's new value, calls the new calls.
KsemSection(t, r, calls) ==
  LET i == kcall[t].slot
  IN  /\ ksem' = [ksem EXCEPT ![i] = r]
      /\ kcall' = calls
      /\ strayed' = IF kcall[t].life = ksem[i].life THEN strayed ELSE strayed \cup {i}

Entering(t, op) == kcall[t].at = "enter" /\ kcall[t].op = op
KsemAfter(t, at) == [kcall EXCEPT ![t] = IF at = "idle" THEN NoKsemCall ELSE [@ EXCEPT !.at = at]]
\* pthread_cond_broadcast, by t whose call goes on at "at".
KsemBroadcast(t, at) ==
  LET i == kcall[t].slot
  IN  [w \in KsemThreads |-> IF w \in KsemSleepers(i) THEN [kcall[w] EXCEPT !.at = "woken"]
                             ELSE KsemAfter(t, at)[w]]

\* The wait's first look: enough tokens, a zero timeout, or counted waiting.
sceKernelWaitSema(t) ==
  LET s == ksem[kcall[t].slot]
      n == kcall[t].n
  IN  /\ Entering(t, "wait")
      /\ \/ s.current_count >= n /\ KsemSection(t, [s EXCEPT !.current_count = @ - n], KsemAfter(t, "idle"))
         \/ s.current_count < n /\ kcall[t].timed /\ KsemSection(t, s, KsemAfter(t, "idle"))
         \/ /\ s.current_count < n
            /\ IF s.magic THEN KsemSection(t, [s EXCEPT !.num_waiters = @ + 1], KsemAfter(t, "asleep"))
                          ELSE KsemSection(t, s, KsemAfter(t, "idle"))

\* Awake again: the loop's test, then ESRCH or the tokens.
wait_sema_woken(t) ==
  LET s == ksem[kcall[t].slot]
      n == kcall[t].n
      left == [s EXCEPT !.num_waiters = @ - 1]
  IN  /\ kcall[t].at = "woken"
      /\ IF ~s.magic THEN KsemSection(t, left, KsemAfter(t, "idle"))
         ELSE IF s.current_count < n THEN KsemSection(t, s, KsemAfter(t, "asleep"))
         ELSE KsemSection(t, [left EXCEPT !.current_count = @ - n], KsemAfter(t, "idle"))

wait_sema_late(t) ==
  LET s == ksem[kcall[t].slot]
  IN  /\ kcall[t].at = "late"
      /\ KsemSection(t, [s EXCEPT !.num_waiters = @ - 1], KsemAfter(t, "idle"))

sceKernelPollSema(t) ==
  LET s == ksem[kcall[t].slot]
      n == kcall[t].n
  IN  /\ Entering(t, "poll")
      /\ KsemSection(t, IF s.current_count >= n THEN [s EXCEPT !.current_count = @ - n] ELSE s, KsemAfter(t, "idle"))

\* Mutant: a broadcast only for the first token.
signal_when_zero(t) ==
  LET s == ksem[kcall[t].slot]
      n == kcall[t].n
  IN  /\ Entering(t, "signal")
      /\ IF s.current_count + n > s.max_count THEN KsemSection(t, s, KsemAfter(t, "idle"))
         ELSE KsemSection(t, [s EXCEPT !.current_count = @ + n],
                          IF s.current_count = 0 THEN KsemBroadcast(t, "idle") ELSE KsemAfter(t, "idle"))

sceKernelSignalSema(t) ==
  LET s == ksem[kcall[t].slot]
      n == kcall[t].n
  IN  /\ Entering(t, "signal")
      /\ IF s.current_count + n > s.max_count THEN KsemSection(t, s, KsemAfter(t, "idle"))
         ELSE KsemSection(t, [s EXCEPT !.current_count = @ + n], KsemBroadcast(t, "idle"))

\* The count is set without a look at max_count.
sceKernelCancelSema(t) ==
  LET s == ksem[kcall[t].slot]
      n == kcall[t].n
  IN  /\ Entering(t, "cancel")
      /\ KsemSection(t, [s EXCEPT !.current_count = IF n < 0 THEN s.init_count ELSE n,
                                  !.set = @ \/ n > s.max_count], KsemBroadcast(t, "idle"))

\* magic and the broadcast in the mutex ...
sceKernelDeleteSema(t) ==
  LET s == ksem[kcall[t].slot]
  IN  /\ Entering(t, "delete")
      /\ KsemSection(t, [s EXCEPT !.magic = FALSE], KsemBroadcast(t, "free"))

\* ... and the slot given back under the table's lock.
delete_sema_slot(t) ==
  LET s == ksem[kcall[t].slot]
  IN  /\ kcall[t].at = "free"
      /\ KsemSection(t, [s EXCEPT !.in_use = FALSE], KsemAfter(t, "idle"))

\* The host's condition variable: spurious wakeups and timeouts.
ksem_cond(t) ==
  /\ kcall[t].at = "asleep"
  /\ \E how \in {"woken"} \cup (IF kcall[t].timed THEN {"late"} ELSE {}) : kcall' = KsemAfter(t, how)
  /\ UNCHANGED <<ksem, strayed>>

KsemNext ==
  \E t \in KsemThreads :
    \/ sceKernelCreateSema(t) \/ get_ksem(t) \/ sceKernelWaitSema(t) \/ wait_sema_woken(t) \/ wait_sema_late(t)
    \/ sceKernelPollSema(t) \/ sceKernelSignalSema(t) \/ sceKernelCancelSema(t) \/ sceKernelDeleteSema(t)
    \/ delete_sema_slot(t) \/ ksem_cond(t)

-----------------------------------------------------------------------------
(* In a live semaphore that no call of an earlier life of the slot has     *)
(* disturbed, nobody sleeps on a count that would satisfy it, the count    *)
(* sceKernelCancelSema reports is that of the threads really waiting, and  *)
(* the count stays within 0 and max_count unless a cancel set it higher.   *)
KsemWaitersServed ==
  \A i \in KsemSlots \ strayed :
    LET s == ksem[i]
        own == {t \in KsemWaiters(i) : kcall[t].life = s.life}
    IN  s.magic => /\ \A t \in KsemSleepers(i) : t \in own => s.current_count < kcall[t].n
                   /\ s.num_waiters = Cardinality(own)
                   /\ s.current_count >= 0
                   /\ s.current_count <= s.max_count \/ s.set
=============================================================================
