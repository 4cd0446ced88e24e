----------------------------- MODULE GuestMutex -----------------------------
(***************************************************************************)
(* The default ("atomic") guest mutex and condition variable of            *)
(* pkg/runtime/kernel/sync/ps4_sync.c: one GuestMutex node m and one       *)
(* CondNode cn, used by the guest threads Threads.                         *)
(*                                                                         *)
(* m->owner is taken by compare-and-swap and cleared by a store; a         *)
(* contended lock spins, then sleeps on m->cv under the host lock m->lk.   *)
(* m->waiters counts the threads of that slow path.  The operations on     *)
(* owner and waiters that race with one another are separate steps here;   *)
(* steps on data only the owner or the holder of lk touches are merged     *)
(* with their neighbours.  owner and waiters are sequentially consistent:  *)
(* the code asks for it, and arm64 compiles the failing compare-and-swap   *)
(* to the same CASAL instruction as the successful one.                    *)
(*                                                                         *)
(* A call that returns an error without changing anything (EPERM, EBUSY,   *)
(* EDEADLK, the ETIMEDOUT of a timed relock) is a stuttering step.         *)
(***************************************************************************)
EXTENDS Naturals, FiniteSets

CONSTANTS Threads,   \* guest thread ids
          NoThread,  \* the owner word's 0, and the free state of m->lk
          Types,     \* the mutex types the guest uses, of 0 .. 4
          MaxDepth   \* bound on the recursion depth m->count

ASSUME ThreadsAssumption == NoThread \notin Threads /\ IsFiniteSet(Threads)
ASSUME TypesAssumption == Types \subseteq 0 .. 4 /\ Types # {}
ASSUME MaxDepthAssumption == MaxDepth \in Nat \ {0}

VARIABLES
  owner,    \* m->owner
  count,    \* m->count
  type,     \* m->type
  waiters,  \* m->waiters
  lk,       \* holder of the host mutex m->lk
  cnm,      \* cn->m has been set (it is m from the first wait on)
  live,     \* the node is reachable from the handle table
  pc,       \* where each thread is
  mode,     \* why a thread sleeps: "lock", "timed" or "cond"
  late,     \* r == ETIMEDOUT in gm_sleep
  depth,    \* gm_cond_wait's local: the depth to restore
  held,     \* history: the depth the guest thread believes it holds m with
  owed      \* history: the condition waiters that had given up m when this
            \* thread took it, and that nothing has woken since

vars == <<owner, count, type, waiters, lk, cnm, live, pc, mode, late, depth,
          held, owed>>

Recursive == {0, 2}

\* Threads counted by m->waiters: in the slow path, past its increment.
SlowPath == {"cas", "park", "asleep", "woken", "leave"}
\* Threads in gm_cond_wait that gave up m and that nothing has woken.
Parked == {"cw_load", "cond_asleep"}
Labels == SlowPath \cup Parked \cup
  {"idle", "spin", "slp_lk", "inc", "acq", "rel_store", "rel_load", "rel_sig",
   "cw_lk", "cw_store", "cond_woken", "sig", "sig_lk", "bcast", "bcast_lk"}

At(S) == {t \in Threads : pc[t] \in S}

Goto(t, l) == pc' = [pc EXCEPT ![t] = l]

\* The thread that takes m owes a wake-up to those waiting on cn now.
Takes(t) ==
  /\ owner' = t
  /\ owed' = [owed EXCEPT ![t] = At(Parked)]

-----------------------------------------------------------------------------
(* gm_lock, gm_relock, gm_trylock                                          *)

\* Mutant: a relock that forgets the mutex's type.
relock_any_type(t) ==
  /\ pc[t] = "idle" /\ live
  /\ owner = t /\ count < MaxDepth
  /\ count' = count + 1
  /\ held' = [held EXCEPT ![t] = @ + 1]
  /\ UNCHANGED <<owner, type, waiters, lk, cnm, live, pc, mode, late, depth, owed>>

\* Lock of a mutex the caller owns: recursive types count.
gm_relock(t) ==
  /\ pc[t] = "idle" /\ live
  /\ owner = t /\ type \in Recursive /\ count < MaxDepth
  /\ count' = count + 1
  /\ held' = [held EXCEPT ![t] = @ + 1]
  /\ UNCHANGED <<owner, type, waiters, lk, cnm, live, pc, mode, late, depth, owed>>

\* gm_lock up to its fast path: the load of owner and the compare-and-swap.
\* A contended call keeps whether it has a timeout.
gm_lock(t) ==
  /\ pc[t] = "idle" /\ live /\ owner # t
  /\ \/ /\ owner = NoThread /\ Takes(t)
        /\ Goto(t, "acq") /\ UNCHANGED mode
     \/ /\ owner # NoThread /\ UNCHANGED <<owner, owed>>
        /\ Goto(t, "spin")
        /\ \E k \in {"lock", "timed"} : mode' = [mode EXCEPT ![t] = k]
  /\ UNCHANGED <<count, type, waiters, lk, cnm, live, late, depth, held>>

\* A trylock that finds the mutex free (EBUSY otherwise).
gm_trylock(t) ==
  /\ pc[t] = "idle" /\ live /\ owner = NoThread
  /\ Takes(t) /\ Goto(t, "acq")
  /\ UNCHANGED <<count, type, waiters, lk, cnm, live, mode, late, depth, held>>

\* gm_acquired: the owner resets the depth and the call returns 0.
gm_acquired(t) ==
  /\ pc[t] = "acq" /\ Goto(t, "idle")
  /\ count' = 1
  /\ held' = [held EXCEPT ![t] = 1]
  /\ UNCHANGED <<owner, type, waiters, lk, cnm, live, mode, late, depth, owed>>

\* gm_spin: takes the mutex as soon as it is free, or gives up.
gm_spin(t) ==
  /\ pc[t] = "spin"
  /\ \/ /\ owner = NoThread /\ Takes(t)
        /\ Goto(t, "acq") /\ mode' = [mode EXCEPT ![t] = "lock"]
     \/ Goto(t, "slp_lk") /\ UNCHANGED <<owner, owed, mode>>
  /\ UNCHANGED <<count, type, waiters, lk, cnm, live, late, depth, held>>

-----------------------------------------------------------------------------
(* gm_sleep and the second half of gm_cond_wait: both take m under lk.     *)

\* gm_lk_lock, from gm_sleep or on the way out of a condition wait.
gm_lk_lock(t) ==
  /\ lk = NoThread /\ lk' = t
  /\ \/ pc[t] = "slp_lk" /\ Goto(t, "inc")
     \/ pc[t] = "cond_woken" /\ Goto(t, "inc")
     \/ pc[t] = "woken" /\ Goto(t, "cas")
  /\ UNCHANGED <<owner, count, type, waiters, cnm, live, mode, late, depth, held, owed>>

\* Mutant: a sleeper that does not count itself.
sleep_uncounted(t) ==
  /\ pc[t] = "inc" /\ Goto(t, "cas")
  /\ UNCHANGED <<owner, count, type, waiters, lk, cnm, live, mode, late, depth, held, owed>>

sleep_enter(t) ==
  /\ pc[t] = "inc" /\ Goto(t, "cas")
  /\ waiters' = waiters + 1
  /\ UNCHANGED <<owner, count, type, lk, cnm, live, mode, late, depth, held, owed>>

\* gm_cas inside the wait loop; a timed-out sleeper gets one last try.
sleep_cas(t) ==
  /\ pc[t] = "cas"
  /\ \/ owner = NoThread /\ Takes(t) /\ Goto(t, "leave")
     \/ /\ owner # NoThread /\ UNCHANGED <<owner, owed>>
        /\ Goto(t, IF late[t] THEN "leave" ELSE "park")
  /\ UNCHANGED <<count, type, waiters, lk, cnm, live, mode, late, depth, held>>

\* pthread_cond_wait(&m->cv, &m->lk): atomically sleeps and gives up lk.
sleep_park(t) ==
  /\ pc[t] = "park" /\ Goto(t, "asleep")
  /\ lk' = NoThread
  /\ UNCHANGED <<owner, count, type, waiters, cnm, live, mode, late, depth, held, owed>>

\* A host condition variable may wake spuriously, or by its timeout.
host_wake(t) ==
  /\ \/ /\ pc[t] = "asleep" /\ Goto(t, "woken")
        /\ \/ UNCHANGED late
           \/ mode[t] = "timed" /\ late' = [late EXCEPT ![t] = TRUE]
        /\ UNCHANGED owed
     \/ /\ pc[t] = "cond_asleep" /\ Goto(t, "cond_woken") /\ UNCHANGED late
        /\ owed' = [u \in Threads |-> owed[u] \ {t}]
  /\ UNCHANGED <<owner, count, type, waiters, lk, cnm, live, mode, depth, held>>

\* Mutant: a condition wait that comes back with depth 1.
leave_depth_one(t) ==
  /\ pc[t] = "leave"
  /\ waiters' = waiters - 1
  /\ lk' = NoThread
  /\ \/ /\ owner = t /\ mode[t] = "cond" /\ Goto(t, "idle")
        /\ count' = 1
        /\ held' = [held EXCEPT ![t] = depth[t]]
     \/ owner = t /\ mode[t] # "cond" /\ Goto(t, "acq") /\ UNCHANGED <<count, held>>
     \/ owner # t /\ Goto(t, "idle") /\ UNCHANGED <<count, held>>
  /\ mode' = [mode EXCEPT ![t] = "lock"]
  /\ late' = [late EXCEPT ![t] = FALSE]
  /\ depth' = [depth EXCEPT ![t] = 0]
  /\ UNCHANGED <<owner, type, cnm, live, owed>>

\* Mutant: a lock that times out returns without uncounting itself.
leave_counted_if_late(t) ==
  /\ pc[t] = "leave"
  /\ waiters' = IF owner = t THEN waiters - 1 ELSE waiters
  /\ lk' = NoThread
  /\ \/ /\ owner = t /\ mode[t] = "cond" /\ Goto(t, "idle")
        /\ count' = depth[t]
        /\ held' = [held EXCEPT ![t] = depth[t]]
     \/ owner = t /\ mode[t] # "cond" /\ Goto(t, "acq") /\ UNCHANGED <<count, held>>
     \/ owner # t /\ Goto(t, "idle") /\ UNCHANGED <<count, held>>
  /\ mode' = [mode EXCEPT ![t] = "lock"]
  /\ late' = [late EXCEPT ![t] = FALSE]
  /\ depth' = [depth EXCEPT ![t] = 0]
  /\ UNCHANGED <<owner, type, cnm, live, owed>>

\* waiters - 1, the depth a condition wait restores, and lk released.  A lock
\* goes on to gm_acquired; a lock that timed out returns.  The locals die.
sleep_leave(t) ==
  /\ pc[t] = "leave"
  /\ waiters' = waiters - 1
  /\ lk' = NoThread
  /\ \/ /\ owner = t /\ mode[t] = "cond" /\ Goto(t, "idle")
        /\ count' = depth[t]
        /\ held' = [held EXCEPT ![t] = depth[t]]
     \/ owner = t /\ mode[t] # "cond" /\ Goto(t, "acq") /\ UNCHANGED <<count, held>>
     \/ owner # t /\ Goto(t, "idle") /\ UNCHANGED <<count, held>>
  /\ mode' = [mode EXCEPT ![t] = "lock"]
  /\ late' = [late EXCEPT ![t] = FALSE]
  /\ depth' = [depth EXCEPT ![t] = 0]
  /\ UNCHANGED <<owner, type, cnm, live, owed>>

-----------------------------------------------------------------------------
(* gm_unlock and gm_release                                                *)

gm_unlock(t) ==
  /\ pc[t] = "idle" /\ live /\ owner = t
  /\ count' = count - 1
  /\ held' = [held EXCEPT ![t] = @ - 1]
  /\ Goto(t, IF count = 1 THEN "rel_store" ELSE "idle")
  /\ UNCHANGED <<owner, type, waiters, lk, cnm, live, mode, late, depth, owed>>

gm_release(t) ==
  /\ pc[t] = "rel_store" /\ Goto(t, "rel_load")
  /\ owner' = NoThread
  /\ UNCHANGED <<count, type, waiters, lk, cnm, live, mode, late, depth, held, owed>>

\* Mutant: an unlock that overlooks a single waiter.
check_off_by_one(t) ==
  /\ pc[t] = "rel_load"
  /\ Goto(t, IF waiters > 1 THEN "rel_sig" ELSE "idle")
  /\ UNCHANGED <<owner, count, type, waiters, lk, cnm, live, mode, late, depth, held, owed>>

release_check(t) ==
  /\ pc[t] = "rel_load"
  /\ Goto(t, IF waiters # 0 THEN "rel_sig" ELSE "idle")
  /\ UNCHANGED <<owner, count, type, waiters, lk, cnm, live, mode, late, depth, held, owed>>

\* pthread_cond_signal(&m->cv), which moves thread t to l: wakes one sleeper.
SignalCv(t, l) ==
  \/ At({"asleep"}) = {} /\ Goto(t, l)
  \/ \E w \in At({"asleep"}) : pc' = [pc EXCEPT ![t] = l, ![w] = "woken"]

release_signal(t) ==
  /\ pc[t] = "rel_sig" /\ lk = NoThread
  /\ SignalCv(t, "idle")
  /\ UNCHANGED <<owner, count, type, waiters, lk, cnm, live, mode, late, depth, held, owed>>

-----------------------------------------------------------------------------
(* gm_cond_wait up to its sleep, and gc_signal                             *)

gm_cond_wait(t) ==
  /\ pc[t] = "idle" /\ live /\ owner = t
  /\ Goto(t, "cw_lk")
  /\ mode' = [mode EXCEPT ![t] = "cond"]
  /\ depth' = [depth EXCEPT ![t] = count]
  /\ UNCHANGED <<owner, count, type, waiters, lk, cnm, live, late, held, owed>>

cond_lk(t) ==
  /\ pc[t] = "cw_lk" /\ Goto(t, "cw_store")
  /\ lk = NoThread /\ lk' = t
  /\ cnm' = TRUE
  /\ count' = 0
  /\ UNCHANGED <<owner, type, waiters, live, mode, late, depth, held, owed>>

cond_release(t) ==
  /\ pc[t] = "cw_store" /\ Goto(t, "cw_load")
  /\ owner' = NoThread
  /\ held' = [held EXCEPT ![t] = 0]
  /\ UNCHANGED <<count, type, waiters, lk, cnm, live, mode, late, depth, owed>>

\* Mutant: a condition wait that gives m up without signalling its sleepers.
cond_sleep_silent(t) ==
  /\ pc[t] = "cw_load" /\ Goto(t, "cond_asleep")
  /\ lk' = NoThread
  /\ UNCHANGED <<owner, count, type, waiters, cnm, live, mode, late, depth, held, owed>>

\* The load of waiters, the signal and the sleep on cn->host_cond, under lk.
cond_sleep(t) ==
  /\ pc[t] = "cw_load"
  /\ lk' = NoThread
  /\ \/ waiters # 0 /\ SignalCv(t, "cond_asleep")
     \/ waiters = 0 /\ Goto(t, "cond_asleep")
  /\ UNCHANGED <<owner, count, type, waiters, cnm, live, mode, late, depth, held, owed>>

\* Mutant: a signal that never takes m->lk.
signal_without_lk(t) ==
  /\ pc[t] = "idle"
  /\ \E l \in {"sig", "bcast"} : Goto(t, l)
  /\ UNCHANGED <<owner, count, type, waiters, lk, cnm, live, mode, late, depth, held, owed>>

\* gc_signal's load of cn->m decides whether it takes m->lk.
gc_signal(t) ==
  /\ pc[t] = "idle"
  /\ \E l \in IF cnm THEN {"sig_lk", "bcast_lk"} ELSE {"sig", "bcast"} : Goto(t, l)
  /\ UNCHANGED <<owner, count, type, waiters, lk, cnm, live, mode, late, depth, held, owed>>

\* Threads W sleeping on cn->host_cond wake up; t returns from gc_signal.
WakeCond(t, W) ==
  /\ pc' = [u \in Threads |-> IF u \in W THEN "cond_woken"
                              ELSE IF u = t THEN "idle" ELSE pc[u]]
  /\ owed' = [u \in Threads |-> owed[u] \ W]
  /\ UNCHANGED <<owner, count, type, waiters, lk, cnm, live, mode, late, depth, held>>

cond_signal(t) ==
  /\ \/ pc[t] = "sig"
     \/ pc[t] = "sig_lk" /\ lk = NoThread
  /\ \/ At({"cond_asleep"}) = {} /\ WakeCond(t, {})
     \/ \E w \in At({"cond_asleep"}) : WakeCond(t, {w})

cond_broadcast(t) ==
  /\ \/ pc[t] = "bcast"
     \/ pc[t] = "bcast_lk" /\ lk = NoThread
  /\ WakeCond(t, At({"cond_asleep"}))

-----------------------------------------------------------------------------
(* Destroyed nodes are recycled: the memory of m stays a GuestMutex.       *)

\* The guest may destroy a mutex nobody holds or is about to take.  A thread
\* may still be behind its unlock's store of owner: it has given m up.
Quiet ==
  /\ owner = NoThread
  /\ At(Labels \ {"idle", "rel_load", "rel_sig", "sig", "sig_lk", "bcast", "bcast_lk"}) = {}

shim_pthread_mutex_destroy ==
  /\ live /\ Quiet
  /\ live' = FALSE
  /\ UNCHANGED <<owner, count, type, waiters, lk, cnm, pc, mode, late, depth, held, owed>>

\* shim_pthread_mutex_init takes the node off the free list.
gm_alloc_locked ==
  /\ ~live /\ live' = TRUE
  /\ owner' = NoThread /\ count' = 0 /\ waiters' = 0
  /\ type' \in Types
  /\ UNCHANGED <<lk, cnm, pc, mode, late, depth, held, owed>>

Init ==
  /\ owner = NoThread /\ count = 0 /\ waiters = 0 /\ type \in Types
  /\ lk = NoThread /\ cnm = FALSE /\ live = TRUE
  /\ pc = [t \in Threads |-> "idle"]
  /\ mode = [t \in Threads |-> "lock"]
  /\ late = [t \in Threads |-> FALSE]
  /\ depth = [t \in Threads |-> 0]
  /\ held = [t \in Threads |-> 0]
  /\ owed = [t \in Threads |-> {}]

\* The steps a call takes by itself once the guest has made it.
Internal(t) ==
  \/ gm_acquired(t) \/ gm_spin(t) \/ gm_lk_lock(t) \/ sleep_enter(t)
  \/ sleep_cas(t) \/ sleep_park(t) \/ sleep_leave(t)
  \/ gm_release(t) \/ release_check(t) \/ release_signal(t)
  \/ cond_lk(t) \/ cond_release(t) \/ cond_sleep(t)
  \/ cond_signal(t) \/ cond_broadcast(t)

\* What the guest decides to call.
Call(t) ==
  \/ gm_lock(t) \/ gm_relock(t) \/ gm_trylock(t) \/ gm_unlock(t)
  \/ gm_cond_wait(t) \/ gc_signal(t)

Next ==
  \/ \E t \in Threads : Internal(t) \/ Call(t) \/ host_wake(t)
  \/ shim_pthread_mutex_destroy
  \/ gm_alloc_locked

\* The host schedules every runnable thread; the guest owes nothing.
Fairness == \A t \in Threads : WF_vars(Internal(t))

Spec == Init /\ [][Next]_vars
FairSpec == Spec /\ Fairness

-----------------------------------------------------------------------------
(* Properties                                                              *)

\* Every variable has its type, and the depth stays within its bound.
TypeOK ==
  /\ owner \in Threads \cup {NoThread} /\ lk \in Threads \cup {NoThread}
  /\ count \in 0 .. MaxDepth /\ waiters \in Nat /\ type \in Types
  /\ cnm \in BOOLEAN /\ live \in BOOLEAN
  /\ pc \in [Threads -> Labels]
  /\ mode \in [Threads -> {"lock", "timed", "cond"}]
  /\ late \in [Threads -> BOOLEAN]
  /\ depth \in [Threads -> 0 .. MaxDepth] /\ held \in [Threads -> 0 .. MaxDepth]
  /\ owed \in [Threads -> SUBSET Threads]

\* A thread that believes it holds the mutex is the owner in the node, with
\* the recursion depth it counted itself: no two threads ever hold it, and
\* neither a timed-out lock nor a condition wait loses or invents a level.
HolderIsOwner ==
  \A t \in Threads : held[t] > 0 =>
    /\ owner = t
    /\ pc[t] # "cw_store" => count = held[t]

\* m->waiters is the number of threads in the slow path, through time-outs,
\* condition waits and the recycling of the node (which resets it to 0).
WaitersCounted == waiters = Cardinality(At(SlowPath))

\* The comment on GuestMutex: "either the waiter sees the mutex free or the
\* unlock sees the waiter and signals it under lk".  While the mutex is free
\* and a thread sleeps on m->cv, some thread is on its way to wake a sleeper
\* or to try the compare-and-swap itself.
NoLostWakeup ==
  (owner = NoThread /\ At({"asleep"}) # {}) =>
    At({"rel_load", "rel_sig", "cw_load", "woken", "cas"}) # {}

\* The comment on gm_cond_wait: "a wake-up sent after the next owner took m
\* cannot slip in before we sleep".  A signal by a thread that took m after
\* some waiter gave it up wakes a waiter; a broadcast wakes all of those.
SignalReaches ==
  [][\A t \in Threads : pc[t] # "idle" /\ pc'[t] = "idle" =>
       /\ pc[t] \in {"sig", "sig_lk"} /\ owed[t] # {} =>
            \E w \in Threads : pc[w] = "cond_asleep" /\ pc'[w] = "cond_woken"
       /\ pc[t] \in {"bcast", "bcast_lk"} =>
            \A w \in owed[t] : pc'[w] = "cond_woken"]_vars

\* A free mutex does not stay free while a thread sleeps on it: somebody
\* takes it, or the sleeper runs.
FreeMutexIsTaken ==
  (owner = NoThread /\ At({"asleep"}) # {}) ~>
    (owner # NoThread \/ At({"asleep"}) = {})

-----------------------------------------------------------------------------
(* The promise to the guest.  A call takes effect when it returns, an unlock *)
(* when it has decremented the depth, a condition wait when it clears owner. *)

Abs == INSTANCE AbstractMutex WITH
  saved <- [t \in Threads |-> IF held[t] = 0 THEN depth[t] ELSE 0]

\* The node's code implements the abstract mutex: every step of it either
\* leaves what the guest threads hold alone or is one abstract operation.
RefinesAbstractMutex == Abs!Spec
=============================================================================
