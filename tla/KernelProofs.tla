---------------------------- MODULE KernelProofs ----------------------------
(***************************************************************************)
(* Proofs about the kernel components of MCRuntime, for every number of    *)
(* threads, slots, lives, tokens, bits and ids: guest threads, the objects *)
(* threads wait on, asynchronous I/O, the synchronization objects behind   *)
(* guest variables, one-time initialization and save data; guest memory is *)
(* in MemoryProofs.  Each part has an inductive invariant (...IInv), a     *)
(* lemma that the initial states satisfy it and one that every step keeps  *)
(* it; the last part puts them together for the specification TLC runs.    *)
(***************************************************************************)
EXTENDS MCRuntime, MemoryProofs, Integers, FiniteSetTheorems, TLAPS

-----------------------------------------------------------------------------
(* Guest threads.  A PthreadObj is freed by the collector only when it is  *)
(* on no list: ThreadInv ties its memory to the lists and to its host      *)
(* thread, CallInv to the join, detach or create that names it, and        *)
(* ReclaimInv keeps what one collector took away from every other.         *)
ThreadLabels == {"idle", "collect", "free", "create", "create_host", "create_ready", "join_lock", "join_wait",
                 "join_end", "detach_lock"}
\* Labels at which a call names no thread, and at which it has claimed one.
Nameless == {"idle", "collect", "free", "create"}
Claiming == {"join_lock", "join_wait", "join_end", "detach_lock"}

ThreadRecs == [mem : {"none", "live", "freed"}, term : BOOLEAN, dead : BOOLEAN, refcount : {0, 1},
               detached : BOOLEAN, joined : BOOLEAN, joiner : Callers \cup {NoObj},
               ctx : {"none", "live", "freed"}, ready : BOOLEAN, claimed : BOOLEAN]
ThreadTypes ==
  /\ thr \in [ThreadObjs -> ThreadRecs]
  /\ g_threads \subseteq ThreadObjs /\ g_gc_list \subseteq ThreadObjs
  /\ thost \in [ThreadObjs -> {"none", "spin", "guest", "term", "bcast", "unlocking", "gone", "system"}]
  /\ tcall \in [Callers -> [at : ThreadLabels, t : ThreadObjs \cup {NoObj}, then : {"idle", "create"},
                            reclaim : SUBSET ThreadObjs]]

\* What a list or the host thread of t says about t.
ThreadInv(t) ==
  /\ t \in g_threads \cup g_gc_list => thr[t].mem = "live"
  /\ t \in g_gc_list => should_collect_locked(thr[t]) /\ t \notin g_threads
  /\ thr[t].mem = "none" => thost[t] = "none"
  /\ thr[t].mem # "none" /\ ~thr[t].detached => t \in g_threads
  /\ thost[t] \in {"spin", "guest", "system"} => thr[t].refcount = 1 /\ t \in g_threads
  /\ thost[t] = "term" => t \in g_threads \cup g_gc_list
  /\ thost[t] \in {"none", "spin", "guest", "term"} => ~thr[t].term
  /\ thr[t].joined => thost[t] = "gone"
  /\ t \in g_threads => thr[t].ctx = "live" \/ (thr[t].dead /\ thost[t] = "none")

\* What a's call says about the thread it names.
CallInv(a) ==
  LET t == tcall[a].t
  IN  /\ tcall[a].at \in Nameless <=> t = NoObj
      /\ t # NoObj => t \in g_threads
      /\ tcall[a].at = "create_host" => thost[t] = "none" /\ ~thr[t].dead /\ ~thr[t].ready /\ thr[t].refcount = 1
      /\ tcall[a].at = "create_ready" => thost[t] = "spin" /\ ~thr[t].ready
      /\ tcall[a].at \in Claiming => thr[t].claimed /\ thr[t].ready /\ ~thr[t].detached
      /\ tcall[a].at = "join_end" => thost[t] = "gone"
      /\ \A b \in Callers : b # a /\ t # NoObj => tcall[b].t # t

\* What a is about to free is reached by nobody.
ReclaimInv(a) ==
  \A t \in tcall[a].reclaim :
    /\ thr[t].mem = "live" /\ t \notin g_threads \cup g_gc_list
    /\ should_collect_locked(thr[t]) /\ thr[t].term
    /\ \A b \in Callers \ {a} : t \notin tcall[b].reclaim

ThreadIInv ==
  /\ ThreadTypes
  /\ \A t \in ThreadObjs : ThreadInv(t)
  /\ \A a \in Callers : CallInv(a)
  /\ \A a \in Callers : tcall[a].at # "free" => tcall[a].reclaim = {}
  /\ \A a \in Callers : ReclaimInv(a)

\* What the code writes into a PthreadObj leaves it one.
LEMMA ThreadRecsKept ==
  ASSUME NEW r \in ThreadRecs
  PROVE  /\ [r EXCEPT !.mem = "freed", !.ctx = "freed"] \in ThreadRecs
         /\ [r EXCEPT !.refcount = 0, !.dead = TRUE, !.ctx = "freed"] \in ThreadRecs
         /\ [r EXCEPT !.refcount = 0, !.dead = TRUE] \in ThreadRecs
         /\ r.refcount = 1 => [r EXCEPT !.refcount = @ - 1, !.dead = TRUE] \in ThreadRecs
         /\ [r EXCEPT !.ready = TRUE] \in ThreadRecs
         /\ [r EXCEPT !.term = TRUE] \in ThreadRecs
         /\ [r EXCEPT !.claimed = TRUE] \in ThreadRecs
<1>1. /\ [r EXCEPT !.mem = "freed", !.ctx = "freed"] \in ThreadRecs
      /\ [r EXCEPT !.refcount = 0, !.dead = TRUE, !.ctx = "freed"] \in ThreadRecs
      /\ [r EXCEPT !.refcount = 0, !.dead = TRUE] \in ThreadRecs
  BY DEF ThreadRecs
<1>2. /\ [r EXCEPT !.ready = TRUE] \in ThreadRecs /\ [r EXCEPT !.term = TRUE] \in ThreadRecs
      /\ [r EXCEPT !.claimed = TRUE] \in ThreadRecs
  BY DEF ThreadRecs
<1>3. ASSUME r.refcount = 1 PROVE [r EXCEPT !.refcount = r.refcount - 1, !.dead = TRUE] \in ThreadRecs
  <2>1. r.refcount - 1 = 0
    BY <1>3
  <2>2. QED
    BY <1>1, <2>1
<1>4. QED
  BY <1>1, <1>2, <1>3

\* Before the first call there is the main thread and no other.
LEMMA ThreadInitInv == ThreadInit => ThreadIInv
BY ThreadAssumption DEF ThreadInit, ThreadIInv, ThreadTypes, ThreadInv, CallInv, ReclaimInv, Idle, Callers, ThreadLabels,
   Nameless, Claiming, should_collect_locked, ThreadRecs

\* create, join, detach, exit, the host threads and the collector, step by
\* step.
LEMMA ThreadStepInv == ThreadIInv /\ [ThreadNext]_thread_vars => ThreadIInv'
<1> SUFFICES ASSUME ThreadIInv, [ThreadNext]_thread_vars PROVE ThreadIInv'
  OBVIOUS
<1> USE ThreadAssumption DEF ThreadIInv, ThreadTypes, ThreadInv, CallInv, ReclaimInv, Callers, ThreadLabels,
      Nameless, Claiming, should_collect_locked, ThreadRecs
<1>1. ASSUME NEW a \in Callers, recomp_thread_collect(a) PROVE ThreadIInv'
  BY <1>1, SMTT(60) DEF recomp_thread_collect, InCall
<1>2. ASSUME NEW a \in Callers, collect_free(a) PROVE ThreadIInv'
  <2>1. ASSUME NEW t \in tcall[a].reclaim, thr' = [thr EXCEPT ![t] = [@ EXCEPT !.mem = "freed", !.ctx = "freed"]],
               tcall' = [tcall EXCEPT ![a].reclaim = @ \ {t}], UNCHANGED <<g_threads, g_gc_list, thost>>,
               tcall[a].at = "free"
        PROVE  ThreadIInv'
    <3>1. t \in ThreadObjs
      OBVIOUS
    <3>2. ThreadTypes'
      <4> HIDE DEF ThreadRecs
      <4>1. thr' \in [ThreadObjs -> ThreadRecs]
        BY <2>1, <3>1, ThreadRecsKept
      <4>2. QED
        BY <2>1, <4>1
    <3>3. ASSUME NEW u \in ThreadObjs PROVE ThreadInv(u)'
      BY <2>1, <3>1, SMTT(30)
    <3>4. ASSUME NEW b \in Callers PROVE CallInv(b)'
      BY <2>1, <3>1, SMTT(30)
    <3>5. \A b \in Callers : tcall'[b].at # "free" => tcall'[b].reclaim = {}
      BY <2>1, SMTT(30)
    <3>6. ASSUME NEW b \in Callers PROVE ReclaimInv(b)'
      BY <2>1, <3>1, SMTT(30)
    <3>7. QED
      BY <3>2, <3>3, <3>4, <3>5, <3>6 DEF ThreadIInv
  <2>2. CASE tcall[a].reclaim = {} /\ UNCHANGED thr /\ CallGoes(a, tcall[a].then)
    <3>1. UNCHANGED <<thr, g_threads, g_gc_list, thost>> /\ tcall[a].at = "free"
      BY <1>2, <2>2 DEF collect_free, InCall
    <3>2. QED
      BY <2>2, <3>1, SMTT(30) DEF CallGoes
  <2>3. QED
    BY <1>2, <2>1, <2>2 DEF collect_free, InCall
<1>3. ASSUME NEW a \in Callers, do_create_thread(a) PROVE ThreadIInv'
  <2>1. ThreadTypes'
    BY <1>3, SMTT(30) DEF do_create_thread, InCall, NewThread, Idle
  <2>2. ASSUME NEW u \in ThreadObjs PROVE ThreadInv(u)'
    BY <1>3, SMTT(30) DEF do_create_thread, InCall, NewThread, Idle
  <2>3. ASSUME NEW b \in Callers PROVE CallInv(b)'
    BY <1>3, SMTT(30) DEF do_create_thread, InCall, NewThread, Idle
  <2>4. \A b \in Callers : tcall'[b].at # "free" => tcall'[b].reclaim = {}
    BY <1>3, SMTT(30) DEF do_create_thread, InCall, NewThread, Idle
  <2>5. ASSUME NEW b \in Callers PROVE ReclaimInv(b)'
    BY <1>3, SMTT(30) DEF do_create_thread, InCall, NewThread, Idle
  <2>6. QED
    BY <2>1, <2>2, <2>3, <2>4, <2>5 DEF ThreadIInv
<1>4. ASSUME NEW a \in Callers, create_host(a) PROVE ThreadIInv'
  BY <1>4, SMTT(60) DEF create_host, InCall, CallGoes
<1>5. ASSUME NEW a \in Callers, create_failed(a) PROVE ThreadIInv'
  <2>1. ThreadTypes'
    <3> HIDE DEF ThreadRecs
    <3>1. thr' \in [ThreadObjs -> ThreadRecs]
      BY <1>5, ThreadRecsKept DEF create_failed, InCall, try_collect_locked, Idle
    <3>2. QED
      BY <1>5, <3>1 DEF create_failed, InCall, try_collect_locked, Idle
  <2>2. ASSUME NEW u \in ThreadObjs PROVE ThreadInv(u)'
    BY <1>5, SMTT(30) DEF create_failed, InCall, try_collect_locked, Idle
  <2>3. ASSUME NEW b \in Callers PROVE CallInv(b)'
    BY <1>5, SMTT(30) DEF create_failed, InCall, try_collect_locked, Idle
  <2>4. \A b \in Callers : tcall'[b].at # "free" => tcall'[b].reclaim = {}
    BY <1>5, SMTT(30) DEF create_failed, InCall, try_collect_locked, Idle
  <2>5. ASSUME NEW b \in Callers PROVE ReclaimInv(b)'
    BY <1>5, SMTT(30) DEF create_failed, InCall, try_collect_locked, Idle
  <2>6. QED
    BY <2>1, <2>2, <2>3, <2>4, <2>5 DEF ThreadIInv
<1>6. ASSUME NEW a \in Callers, create_ready(a) PROVE ThreadIInv'
  <2>1. ThreadTypes'
    <3> HIDE DEF ThreadRecs
    <3>1. thr' \in [ThreadObjs -> ThreadRecs]
      BY <1>6, ThreadRecsKept DEF create_ready, InCall, Idle
    <3>2. QED
      BY <1>6, <3>1 DEF create_ready, InCall, Idle
  <2>2. ASSUME NEW u \in ThreadObjs PROVE ThreadInv(u)'
    BY <1>6, SMTT(30) DEF create_ready, InCall, Idle
  <2>3. ASSUME NEW b \in Callers PROVE CallInv(b)'
    BY <1>6, SMTT(30) DEF create_ready, InCall, Idle
  <2>4. \A b \in Callers : tcall'[b].at # "free" => tcall'[b].reclaim = {}
    BY <1>6, SMTT(30) DEF create_ready, InCall, Idle
  <2>5. ASSUME NEW b \in Callers PROVE ReclaimInv(b)'
    BY <1>6, SMTT(30) DEF create_ready, InCall, Idle
  <2>6. QED
    BY <2>1, <2>2, <2>3, <2>4, <2>5 DEF ThreadIInv
<1>7. ASSUME NEW a \in Callers, do_thread_join(a) PROVE ThreadIInv'
  BY <1>7, SMTT(60) DEF do_thread_join, InCall, CallGoes
<1>8. ASSUME NEW a \in Callers, join_wait(a) PROVE ThreadIInv'
  BY <1>8, SMTT(60) DEF join_wait, InCall, CallGoes
<1>9. ASSUME NEW a \in Callers, join_end(a) PROVE ThreadIInv'
  BY <1>9, SMTT(60) DEF join_end, InCall, try_collect_locked
<1>10. ASSUME NEW a \in Callers, do_thread_detach(a) PROVE ThreadIInv'
  BY <1>10, SMTT(60) DEF do_thread_detach, InCall, try_collect_locked
<1>11. ASSUME NEW a \in Callers, shim_pthread_create(a) PROVE ThreadIInv'
  BY <1>11, SMTT(60) DEF shim_pthread_create, Calling
<1>12. ASSUME NEW a \in Callers, NEW t \in ThreadObjs, recomp_find_thread(a, t) PROVE ThreadIInv'
  <2>1. ThreadTypes'
    <3> HIDE DEF ThreadRecs
    <3>1. thr' \in [ThreadObjs -> ThreadRecs]
      BY <1>12, ThreadRecsKept DEF recomp_find_thread
    <3>2. QED
      BY <1>12, <3>1 DEF recomp_find_thread, Calling, Nameable
  <2>2. ASSUME NEW u \in ThreadObjs PROVE ThreadInv(u)'
    BY <1>12, SMTT(30) DEF recomp_find_thread, Calling, Nameable
  <2>3. ASSUME NEW b \in Callers PROVE CallInv(b)'
    BY <1>12, SMTT(30) DEF recomp_find_thread, Calling, Nameable
  <2>4. \A b \in Callers : tcall'[b].at # "free" => tcall'[b].reclaim = {}
    BY <1>12, SMTT(30) DEF recomp_find_thread, Calling, Nameable
  <2>5. ASSUME NEW b \in Callers PROVE ReclaimInv(b)'
    BY <1>12, SMTT(30) DEF recomp_find_thread, Calling, Nameable
  <2>6. QED
    BY <2>1, <2>2, <2>3, <2>4, <2>5 DEF ThreadIInv
<1>13. ASSUME NEW t \in ThreadObjs, recomp_host_thread_runner(t) PROVE ThreadIInv'
  BY <1>13, SMTT(60) DEF recomp_host_thread_runner
<1>14. ASSUME NEW t \in ThreadObjs, exit_terminated(t) PROVE ThreadIInv'
  <2>1. ThreadTypes'
    <3> HIDE DEF ThreadRecs
    <3>1. thr' \in [ThreadObjs -> ThreadRecs]
      BY <1>14, ThreadRecsKept DEF exit_terminated
    <3>2. QED
      BY <1>14, <3>1 DEF exit_terminated
  <2>2. ASSUME NEW u \in ThreadObjs PROVE ThreadInv(u)'
    BY <1>14, SMTT(30) DEF exit_terminated
  <2>3. ASSUME NEW b \in Callers PROVE CallInv(b)'
    BY <1>14, SMTT(30) DEF exit_terminated
  <2>4. \A b \in Callers : tcall'[b].at # "free" => tcall'[b].reclaim = {}
    BY <1>14, SMTT(30) DEF exit_terminated
  <2>5. ASSUME NEW b \in Callers PROVE ReclaimInv(b)'
    BY <1>14, SMTT(30) DEF exit_terminated
  <2>6. QED
    BY <2>1, <2>2, <2>3, <2>4, <2>5 DEF ThreadIInv
<1>15. ASSUME NEW t \in ThreadObjs, exit_unlock(t) PROVE ThreadIInv'
  BY <1>15, SMTT(60) DEF exit_unlock
<1>16. ASSUME NEW t \in ThreadObjs, recomp_thread_exit(t) PROVE ThreadIInv'
  <2>1. ThreadTypes'
    <3> HIDE DEF ThreadRecs
    <3>1. thr' \in [ThreadObjs -> ThreadRecs]
      BY <1>16, ThreadRecsKept DEF recomp_thread_exit, try_collect_locked
    <3>2. QED
      BY <1>16, <3>1 DEF recomp_thread_exit, try_collect_locked
  <2>2. ASSUME NEW u \in ThreadObjs PROVE ThreadInv(u)'
    BY <1>16, SMTT(30) DEF recomp_thread_exit, try_collect_locked
  <2>3. ASSUME NEW b \in Callers PROVE CallInv(b)'
    BY <1>16, SMTT(30) DEF recomp_thread_exit, try_collect_locked
  <2>4. \A b \in Callers : tcall'[b].at # "free" => tcall'[b].reclaim = {}
    BY <1>16, SMTT(30) DEF recomp_thread_exit, try_collect_locked
  <2>5. ASSUME NEW b \in Callers PROVE ReclaimInv(b)'
    BY <1>16, SMTT(30) DEF recomp_thread_exit, try_collect_locked
  <2>6. QED
    BY <2>1, <2>2, <2>3, <2>4, <2>5 DEF ThreadIInv
<1>17. ASSUME NEW t \in ThreadObjs, recomp_init_system_thread(t) PROVE ThreadIInv'
  <2>1. ThreadTypes'
    <3>1. [NewThread(TRUE) EXCEPT !.ready = TRUE] \in ThreadRecs
      BY DEF NewThread
    <3> HIDE DEF ThreadRecs
    <3>2. QED
      BY <1>17, <3>1 DEF recomp_init_system_thread
  <2>2. ASSUME NEW u \in ThreadObjs PROVE ThreadInv(u)'
    BY <1>17, SMTT(30) DEF recomp_init_system_thread, NewThread
  <2>3. ASSUME NEW b \in Callers PROVE CallInv(b)'
    BY <1>17, SMTT(30) DEF recomp_init_system_thread, NewThread
  <2>4. \A b \in Callers : tcall'[b].at # "free" => tcall'[b].reclaim = {}
    BY <1>17, SMTT(30) DEF recomp_init_system_thread, NewThread
  <2>5. ASSUME NEW b \in Callers PROVE ReclaimInv(b)'
    BY <1>17, SMTT(30) DEF recomp_init_system_thread, NewThread
  <2>6. QED
    BY <2>1, <2>2, <2>3, <2>4, <2>5 DEF ThreadIInv
<1>18. ASSUME NEW t \in ThreadObjs, recomp_cleanup_system_thread(t) PROVE ThreadIInv'
  <2>1. ThreadTypes'
    <3> HIDE DEF ThreadRecs
    <3>1. thr' \in [ThreadObjs -> ThreadRecs]
      BY <1>18, ThreadRecsKept DEF recomp_cleanup_system_thread, try_collect_locked
    <3>2. QED
      BY <1>18, <3>1 DEF recomp_cleanup_system_thread, try_collect_locked
  <2>2. ASSUME NEW u \in ThreadObjs PROVE ThreadInv(u)'
    BY <1>18, SMTT(30) DEF recomp_cleanup_system_thread, try_collect_locked
  <2>3. ASSUME NEW b \in Callers PROVE CallInv(b)'
    BY <1>18, SMTT(30) DEF recomp_cleanup_system_thread, try_collect_locked
  <2>4. \A b \in Callers : tcall'[b].at # "free" => tcall'[b].reclaim = {}
    BY <1>18, SMTT(30) DEF recomp_cleanup_system_thread, try_collect_locked
  <2>5. ASSUME NEW b \in Callers PROVE ReclaimInv(b)'
    BY <1>18, SMTT(30) DEF recomp_cleanup_system_thread, try_collect_locked
  <2>6. QED
    BY <2>1, <2>2, <2>3, <2>4, <2>5 DEF ThreadIInv
<1>19. CASE UNCHANGED thread_vars
  BY <1>19 DEF thread_vars
<1>20. QED
  BY <1>1, <1>2, <1>3, <1>4, <1>5, <1>6, <1>7, <1>8, <1>9, <1>10, <1>11, <1>12, <1>13, <1>14, <1>15, <1>16, <1>17,
     <1>18, <1>19 DEF ThreadNext, ThreadStep, ExitStep

\* Who is on a list, named by a call or still running has live memory, and
\* nothing is freed twice.
LEMMA ThreadInvSafe == ThreadIInv => ThreadMemorySafe
BY ThreadAssumption, SMTT(60) DEF ThreadIInv, ThreadTypes, ThreadInv, CallInv, ReclaimInv, Callers, ThreadLabels,
      Nameless, Claiming, should_collect_locked, ThreadMemorySafe, InUse

-----------------------------------------------------------------------------
(* Event flags.  A call made in an earlier life of its slot must not count *)
(* as a waiter of the present flag: the life of a call never exceeds that  *)
(* of its slot, so that a new flag starts with no sleeper of its own.      *)
EvfRecs == [in_use : BOOLEAN, magic : BOOLEAN, pattern : SUBSET EvfBits, life : Nat]
EvfCalls == [at : {"idle", "enter", "asleep", "woken", "late", "free"},
             op : {"none", "wait", "poll", "set", "clear", "cancel", "delete"}, slot : EvfSlots \cup {0}, life : Nat,
             bits : SUBSET EvfBits, mode : WaitModes, timed : BOOLEAN]
\* A call keeps a slot, and was made in this life of it or an earlier one.
EvfTypes ==
  /\ evf \in [EvfSlots -> EvfRecs]
  /\ fcall \in [EvfThreads -> EvfCalls]
  /\ \A t \in EvfThreads : fcall[t].at # "idle" => fcall[t].slot \in EvfSlots
EvfIInv ==
  /\ EvfTypes
  /\ \A t \in EvfThreads : fcall[t].at # "idle" => fcall[t].life <= evf[fcall[t].slot].life
  /\ EvfWaitersServed

\* No flag exists and no call is made.
LEMMA EvfInitInv == EvfInit => EvfIInv
BY DEF EvfInit, EvfIInv, EvfTypes, EvfRecs, EvfCalls, NoEvfCall, WaitModes, EvfWaitersServed, EvfSleepers, OnEvf

\* Where a call of t goes is a call again.
LEMMA EvfAfterTyped ==
  ASSUME EvfTypes, NEW t \in EvfThreads, fcall[t].at # "idle", NEW at \in {"idle", "asleep", "woken", "late", "free"}
  PROVE  /\ EvfAfter(t, at) \in [EvfThreads -> EvfCalls]
         /\ \A w \in EvfThreads : w # t => EvfAfter(t, at)[w] = fcall[w]
         /\ EvfAfter(t, at)[t].at = at
         /\ at # "idle" => /\ EvfAfter(t, at)[t].slot = fcall[t].slot /\ EvfAfter(t, at)[t].life = fcall[t].life
                           /\ EvfAfter(t, at)[t].bits = fcall[t].bits /\ EvfAfter(t, at)[t].mode = fcall[t].mode
<1>1. NoEvfCall \in EvfCalls /\ NoEvfCall.at = "idle"
  BY DEF NoEvfCall, EvfCalls, WaitModes
<1>2. fcall[t] \in EvfCalls /\ fcall \in [EvfThreads -> EvfCalls]
  BY DEF EvfTypes
<1> DEFINE c == [fcall[t] EXCEPT !.at = at]
<1>3. c \in EvfCalls /\ c.at = at /\ c.slot = fcall[t].slot /\ c.life = fcall[t].life /\ c.bits = fcall[t].bits
      /\ c.mode = fcall[t].mode
  BY <1>2 DEF EvfCalls
<1>4. EvfAfter(t, at) = [fcall EXCEPT ![t] = IF at = "idle" THEN NoEvfCall ELSE c]
  BY DEF EvfAfter
<1> HIDE DEF c
<1>5. QED
  BY <1>1, <1>2, <1>3, <1>4

\* A call that leaves the flags alone goes on, to sleep only when the flag is
\* live and its condition not met.
LEMMA EvfGoesOn ==
  ASSUME EvfIInv, NEW t \in EvfThreads, fcall[t].at # "idle", UNCHANGED evf,
         NEW at \in {"idle", "asleep", "woken", "late", "free"}, fcall' = EvfAfter(t, at),
         at = "asleep" => evf[fcall[t].slot].magic /\ ~Met(t)
  PROVE  EvfIInv'
<1> USE DEF EvfIInv
<1> DEFINE g == EvfAfter(t, at)
<1>0. /\ g \in [EvfThreads -> EvfCalls] /\ (\A w \in EvfThreads : w # t => g[w] = fcall[w]) /\ g[t].at = at
      /\ at # "idle" => /\ g[t].slot = fcall[t].slot /\ g[t].life = fcall[t].life
                        /\ g[t].bits = fcall[t].bits /\ g[t].mode = fcall[t].mode
  BY EvfAfterTyped
<1>a. fcall' = g
  OBVIOUS
<1> HIDE DEF g
<1>1. EvfTypes'
  BY <1>0, <1>a DEF EvfTypes
<1>2. \A w \in EvfThreads : fcall'[w].at # "idle" => fcall'[w].slot = fcall[w].slot /\ fcall'[w].life = fcall[w].life
                                                /\ fcall'[w].bits = fcall[w].bits /\ fcall'[w].mode = fcall[w].mode
                                                /\ fcall[w].at # "idle"
  BY <1>0, <1>a
<1>3. \A w \in EvfThreads : fcall'[w].at = "asleep" => fcall[w].at = "asleep" \/ (w = t /\ at = "asleep")
  BY <1>0, <1>a
<1>4. QED
  BY <1>1, <1>2, <1>3 DEF EvfWaitersServed, EvfSleepers, OnEvf, Met, EvfTypes

\* A pattern that loses bits satisfies nobody it did not satisfy before.
LEMMA EvfNarrows ==
  ASSUME EvfIInv, NEW t \in EvfThreads, fcall[t].at # "idle", NEW p,
         p \subseteq evf[fcall[t].slot].pattern, SetPattern(fcall[t].slot, p), fcall' = EvfAfter(t, "idle")
  PROVE  EvfIInv'
<1> USE DEF EvfIInv
<1> DEFINE i == fcall[t].slot
<1>1. i \in EvfSlots /\ evf[i] \in EvfRecs /\ [evf[i] EXCEPT !.pattern = p] \in EvfRecs
  BY DEF EvfTypes, EvfRecs
<1>2. evf' = [evf EXCEPT ![i] = [evf[i] EXCEPT !.pattern = p]]
  BY DEF SetPattern
<1>a. fcall' \in [EvfThreads -> EvfCalls] /\ (\A w \in EvfThreads : w # t => fcall'[w] = fcall[w]) /\ fcall'[t].at = "idle"
  BY EvfAfterTyped
<1>3. EvfTypes'
  BY <1>1, <1>2, <1>a DEF EvfTypes
<1>4. \A j \in EvfSlots : evf'[j].magic = evf[j].magic /\ evf'[j].life = evf[j].life /\ evf'[j].pattern \subseteq evf[j].pattern
  BY <1>1, <1>2 DEF EvfTypes, EvfRecs
<1>5. \A w \in EvfThreads : fcall'[w].at # "idle" => fcall'[w] = fcall[w]
  BY <1>a
<1>6. ASSUME NEW j \in EvfSlots, NEW w \in EvfSleepers(j)' PROVE evf'[j].magic /\ (fcall'[w].life = evf'[j].life => ~Met(w)')
  <2>1. w \in EvfSleepers(j) /\ fcall'[w] = fcall[w] /\ fcall[w].slot = j /\ fcall[w] \in EvfCalls
    BY <1>5 DEF EvfSleepers, OnEvf, EvfTypes
  <2>2. evf[j].magic /\ (fcall[w].life = evf[j].life => ~Met(w))
    BY <2>1 DEF EvfWaitersServed
  <2>3. ~Met(w) => ~Met(w)'
    BY <1>4, <2>1 DEF Met, check_evf_condition
  <2>4. QED
    BY <1>4, <2>1, <2>2, <2>3
<1>7. \A w \in EvfThreads : fcall'[w].at # "idle" => fcall'[w].life <= evf'[fcall'[w].slot].life
  BY <1>4, <1>5 DEF EvfTypes
<1>8. QED
  BY <1>3, <1>6, <1>7 DEF EvfWaitersServed

\* After a change of the flag's record with a broadcast nobody sleeps on it.
LEMMA EvfTells ==
  ASSUME EvfIInv, NEW t \in EvfThreads, fcall[t].at = "enter", NEW r \in EvfRecs,
         r.life = evf[fcall[t].slot].life, evf' = [evf EXCEPT ![fcall[t].slot] = r],
         NEW at \in {"idle", "free"}, EvfBroadcast(t, at)
  PROVE  EvfIInv'
<1> USE DEF EvfIInv
<1> DEFINE i == fcall[t].slot
<1>1. i \in EvfSlots
  BY DEF EvfTypes
<1>2. ASSUME NEW w \in EvfThreads
      PROVE  LET c == [fcall[w] EXCEPT !.at = "woken"]
             IN  c \in EvfCalls /\ c.at = "woken" /\ c.slot = fcall[w].slot /\ c.life = fcall[w].life
  BY DEF EvfTypes, EvfCalls
<1> DEFINE g == EvfAfter(t, at)
<1>3. /\ g \in [EvfThreads -> EvfCalls] /\ (\A w \in EvfThreads : w # t => g[w] = fcall[w]) /\ g[t].at = at
      /\ at # "idle" => g[t].slot = fcall[t].slot /\ g[t].life = fcall[t].life
  BY EvfAfterTyped
<1>4. fcall' = [w \in EvfThreads |-> IF w \in EvfSleepers(i) THEN [fcall[w] EXCEPT !.at = "woken"] ELSE g[w]]
  BY DEF EvfBroadcast
<1> HIDE DEF g
<1>5. ASSUME NEW w \in EvfThreads
      PROVE  /\ fcall'[w] \in EvfCalls
             /\ fcall'[w].at # "idle" => fcall[w].at # "idle" /\ fcall'[w].slot = fcall[w].slot
                                         /\ fcall'[w].life = fcall[w].life
             /\ fcall'[w].at = "asleep" => fcall'[w] = fcall[w] /\ fcall[w].slot # i
  <2>1. CASE w \in EvfSleepers(i)
    BY <1>2, <1>4, <2>1 DEF EvfSleepers, OnEvf
  <2>2. CASE w \notin EvfSleepers(i) /\ w # t
    BY <1>3, <1>4, <2>2 DEF EvfSleepers, OnEvf
  <2>3. CASE w = t
    BY <1>3, <1>4, <2>3 DEF EvfSleepers, OnEvf
  <2>4. QED
    BY <2>1, <2>2, <2>3
<1>6. \A j \in EvfSlots : evf'[j].life = evf[j].life /\ (j # i => evf'[j] = evf[j])
  BY <1>1 DEF EvfTypes
<1>7. EvfTypes'
  BY <1>1, <1>4, <1>5 DEF EvfTypes
<1>8. EvfWaitersServed'
  BY <1>5, <1>6 DEF EvfWaitersServed, EvfSleepers, OnEvf, Met
<1>9. QED
  BY <1>5, <1>6, <1>7, <1>8 DEF EvfTypes

\* Every call of the event flags keeps the invariant.
LEMMA EvfStepInv == EvfIInv /\ [EvfNext]_evf_vars => EvfIInv'
<1> SUFFICES ASSUME EvfIInv, [EvfNext]_evf_vars PROVE EvfIInv'
  OBVIOUS
<1>1. EvfTypes
  BY DEF EvfIInv
<1>2. ASSUME NEW t \in EvfThreads, sceKernelCreateEventFlag(t) PROVE EvfIInv'
  <2>1. PICK i \in EvfSlots, init \in {{}, EvfBits} :
             evf' = [evf EXCEPT ![i] = [in_use |-> TRUE, magic |-> TRUE, pattern |-> init, life |-> evf[i].life + 1]]
    BY <1>1, <1>2 DEF sceKernelCreateEventFlag, EvfTypes
  <2>2. UNCHANGED fcall
    BY <1>2 DEF sceKernelCreateEventFlag
  <2>3. evf[i].life \in Nat /\ \A w \in EvfThreads : fcall[w].life \in Nat
    BY <1>1 DEF EvfTypes, EvfRecs, EvfCalls
  <2>4. EvfTypes'
    BY <1>1, <2>1, <2>2, <2>3 DEF EvfTypes, EvfRecs
  <2>5. \A j \in EvfSlots : j # i => evf'[j] = evf[j]
    BY <1>1, <2>1 DEF EvfTypes
  <2>6. evf'[i].life = evf[i].life + 1 /\ evf'[i].magic
    BY <1>1, <2>1 DEF EvfTypes
  <2>7. QED
    BY <1>1, <2>2, <2>3, <2>4, <2>5, <2>6 DEF EvfIInv, EvfTypes, EvfWaitersServed, EvfSleepers, OnEvf, Met
<1>3. ASSUME NEW t \in EvfThreads, get_evf(t) PROVE EvfIInv'
  <2>1. PICK i \in EvfSlots, op \in {"wait", "poll", "set", "clear", "cancel", "delete"},
             bits \in SUBSET EvfBits, mode \in WaitModes, timed \in BOOLEAN :
               /\ evf[i].in_use /\ evf[i].magic
               /\ op \notin {"wait", "poll"} => mode = NoEvfCall.mode
               /\ op # "wait" => ~timed
               /\ op = "delete" => bits = {}
               /\ fcall' = [fcall EXCEPT ![t] = [at |-> "enter", op |-> op, slot |-> i, life |-> evf[i].life,
                                                 bits |-> bits, mode |-> mode, timed |-> timed]]
    BY <1>3, Zenon DEF get_evf
  <2>2. UNCHANGED evf /\ evf[i].life \in Nat
    BY <1>1, <1>3 DEF get_evf, EvfTypes, EvfRecs
  <2>3. fcall'[t].at = "enter" /\ fcall'[t].slot = i /\ fcall'[t].life = evf[i].life /\ fcall'[t] \in EvfCalls
    BY <1>1, <2>1, <2>2 DEF EvfTypes, EvfCalls
  <2>4. \A w \in EvfThreads : w # t => fcall'[w] = fcall[w]
    BY <1>1, <2>1 DEF EvfTypes
  <2>5. EvfTypes'
    BY <1>1, <2>1, <2>2, <2>3, <2>4 DEF EvfTypes
  <2>6. QED
    BY <1>1, <2>2, <2>3, <2>4, <2>5 DEF EvfIInv, EvfTypes, EvfWaitersServed, EvfSleepers, OnEvf, Met
<1>4. ASSUME NEW t \in EvfThreads, fcall[t].at # "idle", Consume(t) PROVE EvfIInv'
  <2>1. PICK p : p \subseteq evf[fcall[t].slot].pattern /\ SetPattern(fcall[t].slot, p)
    BY <1>4 DEF Consume
  <2>2. fcall' = EvfAfter(t, "idle")
    BY <1>4 DEF Consume
  <2>3. QED
    BY <1>4, <2>1, <2>2, EvfNarrows
<1>5. ASSUME NEW t \in EvfThreads, sceKernelPollEventFlag(t) PROVE EvfIInv'
  BY <1>4, <1>5, EvfGoesOn DEF sceKernelPollEventFlag, EvfEntering
<1>6. ASSUME NEW t \in EvfThreads, sceKernelWaitEventFlag(t) PROVE EvfIInv'
  BY <1>4, <1>6, EvfGoesOn DEF sceKernelWaitEventFlag, EvfEntering
<1>7. ASSUME NEW t \in EvfThreads, wait_evf_late(t) PROVE EvfIInv'
  BY <1>7, EvfGoesOn DEF wait_evf_late
<1>8. ASSUME NEW t \in EvfThreads, NEW p \in SUBSET EvfBits, fcall[t].at = "enter", SetPattern(fcall[t].slot, p),
             EvfBroadcast(t, "idle")
      PROVE  EvfIInv'
  <2>1. [evf[fcall[t].slot] EXCEPT !.pattern = p] \in EvfRecs
    BY <1>1, <1>8 DEF EvfTypes, EvfRecs
  <2>2. evf' = [evf EXCEPT ![fcall[t].slot] = [evf[fcall[t].slot] EXCEPT !.pattern = p]]
    BY <1>8 DEF SetPattern
  <2>3. [evf[fcall[t].slot] EXCEPT !.pattern = p].life = evf[fcall[t].slot].life
    BY <1>1, <1>8 DEF EvfTypes, EvfRecs
  <2>4. QED
    BY <1>8, <2>1, <2>2, <2>3, EvfTells
<1>9. ASSUME NEW t \in EvfThreads, sceKernelSetEventFlag(t) PROVE EvfIInv'
  <2>1. evf[fcall[t].slot].pattern \cup fcall[t].bits \in SUBSET EvfBits
    BY <1>1, <1>9 DEF sceKernelSetEventFlag, EvfEntering, EvfTypes, EvfRecs, EvfCalls
  <2>2. QED
    BY <1>8, <1>9, <2>1 DEF sceKernelSetEventFlag, EvfEntering
<1>10. ASSUME NEW t \in EvfThreads, sceKernelClearEventFlag(t) PROVE EvfIInv'
  BY <1>10, EvfNarrows DEF sceKernelClearEventFlag, EvfEntering
<1>11. ASSUME NEW t \in EvfThreads, sceKernelCancelEventFlag(t) PROVE EvfIInv'
  BY <1>1, <1>8, <1>11 DEF sceKernelCancelEventFlag, EvfEntering, EvfTypes, EvfCalls
<1>12. ASSUME NEW t \in EvfThreads, sceKernelDeleteEventFlag(t) PROVE EvfIInv'
  <2> DEFINE r == [evf[fcall[t].slot] EXCEPT !.magic = FALSE]
  <2>1. fcall[t].at = "enter" /\ EvfBroadcast(t, "free")
    BY <1>12 DEF sceKernelDeleteEventFlag, EvfEntering
  <2>2. r \in EvfRecs /\ r.life = evf[fcall[t].slot].life
    BY <1>1, <2>1 DEF EvfTypes, EvfRecs
  <2>3. evf' = [evf EXCEPT ![fcall[t].slot] = r]
    BY <1>12 DEF sceKernelDeleteEventFlag
  <2> HIDE DEF r
  <2>4. QED
    BY <2>1, <2>2, <2>3, EvfTells
<1>13. ASSUME NEW t \in EvfThreads, delete_evf_slot(t) PROVE EvfIInv'
  <2> DEFINE i == fcall[t].slot
  <2>1. i \in EvfSlots /\ fcall[t].at = "free" /\ fcall' = EvfAfter(t, "idle")
    BY <1>1, <1>13 DEF delete_evf_slot, EvfTypes
  <2>2. evf' = [evf EXCEPT ![i] = [evf[i] EXCEPT !.in_use = FALSE]] /\ [evf[i] EXCEPT !.in_use = FALSE] \in EvfRecs
    BY <1>1, <1>13, <2>1 DEF delete_evf_slot, EvfTypes, EvfRecs
  <2>3. \A j \in EvfSlots : evf'[j].magic = evf[j].magic /\ evf'[j].life = evf[j].life /\ evf'[j].pattern = evf[j].pattern
    BY <1>1, <2>1, <2>2 DEF EvfTypes, EvfRecs
  <2>4. \A w \in EvfThreads : fcall'[w].at # "idle" => fcall'[w] = fcall[w]
    BY <1>1, <2>1, EvfAfterTyped
  <2>5. EvfTypes'
    BY <1>1, <2>1, <2>2, <2>4, EvfAfterTyped DEF EvfTypes, NoEvfCall
  <2>6. QED
    BY <1>1, <2>3, <2>4, <2>5 DEF EvfIInv, EvfTypes, EvfWaitersServed, EvfSleepers, OnEvf, Met
<1>14. ASSUME NEW t \in EvfThreads, evf_cond(t) PROVE EvfIInv'
  BY <1>14, EvfGoesOn DEF evf_cond
<1>15. CASE UNCHANGED evf_vars
  BY <1>15 DEF evf_vars, EvfIInv, EvfTypes, EvfWaitersServed, EvfSleepers, OnEvf, Met
<1>16. QED
  BY <1>2, <1>3, <1>5, <1>6, <1>7, <1>9, <1>10, <1>11, <1>12, <1>13, <1>14, <1>15 DEF EvfNext

-----------------------------------------------------------------------------
(* Event queues.  EqNoLostEvent is inductive over the types: a post adds   *)
(* one event and one woken thread, a woken thread takes one event at least *)
(* when there is one, and a thread goes to sleep on an empty queue only,   *)
(* also one left over from a queue deleted earlier in the slot.            *)
EqFields == {"in_use", "is_deleted", "id", "head", "tail", "count", "events"}
EqCalls == [at : {"idle", "asleep", "woken", "late"}, slot : EqSlots \cup {0}, id : Nat, num : Nat, timed : BOOLEAN]
EqTypes ==
  /\ g_equeues = [i \in EqSlots |-> g_equeues[i]]
  /\ \A i \in EqSlots : /\ g_equeues[i] = [f \in EqFields |-> g_equeues[i][f]]
                        /\ g_equeues[i].count \in Nat /\ g_equeues[i].id \in Nat
  /\ g_next_eq_id \in Nat
  /\ qcall \in [EqThreads -> EqCalls]
  /\ \A t \in EqThreads : qcall[t].at # "idle" => qcall[t].slot \in EqSlots /\ qcall[t].num > 0
EqIInv ==
  /\ EqTypes
  /\ \A i \in EqSlots : g_equeues[i].in_use => ~g_equeues[i].is_deleted
  /\ EqNoLostEvent

\* No queue exists and no thread waits.
LEMMA EqInitInv == EqInit => EqIInv
<1> SUFFICES ASSUME EqInit PROVE EqIInv
  OBVIOUS
<1>1. EqTypes
  BY DEF EqInit, EqTypes, EqFields, EqCalls, NoWait
<1>2. \A i \in EqSlots : ~g_equeues[i].in_use
  BY DEF EqInit
<1>3. QED
  BY <1>1, <1>2 DEF EqIInv, EqNoLostEvent

\* What a queue's slot becomes matters only by its count and flags: with the
\* waiters of the other slots where they were, the invariant holds again when
\* it holds for slot i.
LEMMA EqSlotChange ==
  ASSUME EqIInv, NEW i \in EqSlots, NEW q, EqTypes',
         g_equeues' = [g_equeues EXCEPT ![i] = q],
         q.in_use => ~q.is_deleted,
         \A t \in EqThreads : qcall'[t] # qcall[t] => (qcall[t].at # "idle" => qcall[t].slot = i)
                                                     /\ (qcall'[t].at # "idle" => qcall'[t].slot = i),
         q.in_use /\ EqWaiting(i, "asleep")' # {} => q.count <= Cardinality(EqWaiting(i, "woken")')
  PROVE  EqIInv'
<1>1. g_equeues'[i] = q /\ \A j \in EqSlots : j # i => g_equeues'[j] = g_equeues[j]
  BY DEF EqIInv, EqTypes
<1>2. ASSUME NEW j \in EqSlots, j # i, NEW at \in {"asleep", "woken"} PROVE EqWaiting(j, at)' = EqWaiting(j, at)
  BY <1>2 DEF EqWaiting
<1>3. EqNoLostEvent'
  BY <1>1, <1>2 DEF EqNoLostEvent, EqIInv
<1>4. QED
  BY <1>1, <1>3 DEF EqIInv

\* Counting the threads woken from a queue.
LEMMA EqWokenCount ==
  ASSUME NEW S \in SUBSET EqThreads
  PROVE  /\ IsFiniteSet(S) /\ Cardinality(S) \in Nat
         /\ \A t : t \in S => Cardinality(S \ {t}) = Cardinality(S) - 1
         /\ \A t : t \notin S => Cardinality(S \cup {t}) = Cardinality(S) + 1
         /\ \A R \in SUBSET S : Cardinality(R) <= Cardinality(S)
<1>1. IsFiniteSet(S)
  BY EqFinite, FS_Subset
<1>2. QED
  BY <1>1, FS_CardinalityType, FS_RemoveElement, FS_AddElement, FS_Subset

\* Up to num > 0 events are taken; nobody but t, who is not asleep, moves, and
\* a woken t takes one event at least.
LEMMA EqTakeInv ==
  ASSUME EqIInv, NEW t \in EqThreads, NEW i \in EqSlots, NEW num \in Nat, num > 0, Take(t, i, num),
         qcall[t].at # "idle" => qcall[t].slot = i, qcall[t].at = "woken" => g_equeues[i].count > 0,
         UNCHANGED g_next_eq_id
  PROVE  EqIInv'
<1> DEFINE n == IF g_equeues[i].count < num THEN g_equeues[i].count ELSE num
           q == [g_equeues[i] EXCEPT !.head = Idx(@ + n), !.count = @ - n]
<1>1. n \in Nat /\ n <= g_equeues[i].count /\ (g_equeues[i].count > 0 => n > 0) /\ g_equeues[i].count \in Nat
  BY DEF EqIInv, EqTypes
<1>2. /\ g_equeues' = [g_equeues EXCEPT ![i] = q]
      /\ qcall' = [qcall EXCEPT ![t] = NoWait]
  BY DEF Take, EqBecomes
<1> HIDE DEF n
<1>3. /\ q = [f \in EqFields |-> q[f]] /\ q.count = g_equeues[i].count - n /\ q.id = g_equeues[i].id
      /\ q.in_use = g_equeues[i].in_use /\ q.is_deleted = g_equeues[i].is_deleted
  BY DEF EqIInv, EqTypes, EqFields
<1> HIDE DEF q
<1>4. NoWait \in EqCalls /\ NoWait.at = "idle"
  BY DEF NoWait, EqCalls
<1>5. EqTypes'
  BY <1>1, <1>2, <1>3, <1>4 DEF EqIInv, EqTypes
<1>6. EqWaiting(i, "woken")' = EqWaiting(i, "woken") \ {t} /\ EqWaiting(i, "asleep")' \subseteq EqWaiting(i, "asleep")
  BY <1>2, <1>4 DEF EqWaiting, EqIInv, EqTypes
<1>7. ASSUME q.in_use, EqWaiting(i, "asleep")' # {} PROVE q.count <= Cardinality(EqWaiting(i, "woken")')
  <2>1. g_equeues[i].count <= Cardinality(EqWaiting(i, "woken"))
    BY <1>3, <1>6, <1>7 DEF EqIInv, EqNoLostEvent
  <2>2. EqWaiting(i, "woken") \in SUBSET EqThreads
    BY DEF EqWaiting
  <2>3. CASE t \in EqWaiting(i, "woken")
    <3>1. Cardinality(EqWaiting(i, "woken")') = Cardinality(EqWaiting(i, "woken")) - 1
      BY <1>6, <2>2, <2>3, EqWokenCount
    <3>2. n > 0
      BY <1>1, <2>3 DEF EqWaiting
    <3>3. QED
      BY <1>1, <1>3, <2>1, <2>2, <3>1, <3>2, EqWokenCount
  <2>4. CASE t \notin EqWaiting(i, "woken")
    <3>1. EqWaiting(i, "woken")' = EqWaiting(i, "woken")
      BY <1>6, <2>4
    <3>2. QED
      BY <1>1, <1>3, <2>1, <2>2, <3>1, EqWokenCount
  <2>5. QED
    BY <2>3, <2>4
<1>8. \A u \in EqThreads : qcall'[u] # qcall[u] => u = t
  BY <1>2 DEF EqIInv, EqTypes
<1>9. q.in_use => ~q.is_deleted
  BY <1>3 DEF EqIInv
<1>10. qcall'[t].at = "idle"
  BY <1>2, <1>4 DEF EqIInv, EqTypes
<1>11. QED
  BY <1>2, <1>5, <1>7, <1>8, <1>9, <1>10, EqSlotChange

\* One call moves to another label of the same wait.
LEMMA EqCallMoves ==
  ASSUME EqIInv, NEW t \in EqThreads, qcall[t].at # "idle", NEW at \in {"asleep", "woken", "late"},
         qcall' = [qcall EXCEPT ![t].at = at], UNCHANGED <<g_equeues, g_next_eq_id>>,
         at = "asleep" => g_equeues[qcall[t].slot].count = 0,
         at # "asleep" => qcall[t].at = "asleep"
  PROVE  EqIInv'
<1>0. PICK i \in EqSlots : i = qcall[t].slot
  BY DEF EqIInv, EqTypes
<1>1. qcall[t].slot = i /\ qcall[t] \in EqCalls /\ g_equeues[i].count \in Nat
  BY <1>0 DEF EqIInv, EqTypes
<1>2. /\ qcall' = [qcall EXCEPT ![t] = [qcall[t] EXCEPT !.at = at]]
      /\ [qcall[t] EXCEPT !.at = at] \in EqCalls /\ [qcall[t] EXCEPT !.at = at].at = at
      /\ [qcall[t] EXCEPT !.at = at].slot = i /\ [qcall[t] EXCEPT !.at = at].num = qcall[t].num
  BY <1>1 DEF EqCalls
<1>3. EqTypes'
  BY <1>1, <1>2 DEF EqIInv, EqTypes
<1>4. g_equeues' = [g_equeues EXCEPT ![i] = g_equeues[i]]
  BY <1>1 DEF EqIInv, EqTypes
<1>5. \A u \in EqThreads : u # t => qcall'[u] = qcall[u]
  BY <1>2 DEF EqIInv, EqTypes
<1>6. ASSUME g_equeues[i].in_use, EqWaiting(i, "asleep")' # {}
      PROVE  g_equeues[i].count <= Cardinality(EqWaiting(i, "woken")')
  <2>1. EqWaiting(i, "woken")' \in SUBSET EqThreads /\ EqWaiting(i, "woken") \in SUBSET EqThreads
    BY DEF EqWaiting
  <2>2. CASE at = "asleep"
    BY <1>1, <2>1, <2>2, EqWokenCount
  <2>3. CASE at # "asleep"
    <3>1. EqWaiting(i, "woken") \subseteq EqWaiting(i, "woken")'
      BY <1>5, <2>3 DEF EqWaiting
    <3>2. EqWaiting(i, "asleep") # {}
      BY <1>1, <2>3 DEF EqWaiting
    <3>3. QED
      BY <1>1, <1>6, <2>1, <3>1, <3>2, EqWokenCount DEF EqIInv, EqNoLostEvent
  <2>4. QED
    BY <2>2, <2>3
<1>7. \A u \in EqThreads : qcall'[u] # qcall[u] => (qcall[u].at # "idle" => qcall[u].slot = i)
                                                 /\ (qcall'[u].at # "idle" => qcall'[u].slot = i)
  BY <1>2, <1>5 DEF EqIInv, EqTypes
<1>8. g_equeues[i].in_use => ~g_equeues[i].is_deleted
  BY <1>1 DEF EqIInv
<1>9. QED
  BY <1>1, <1>3, <1>4, <1>6, <1>7, <1>8, EqSlotChange

\* Push changes the ring, the tail and the count, nothing else.
LEMMA EqPushed ==
  ASSUME EqIInv, NEW i \in EqSlots, NEW e
  PROVE  LET q == Push(g_equeues[i], e)
         IN  /\ q = [f \in EqFields |-> q[f]] /\ q.count = g_equeues[i].count + 1 /\ q.id = g_equeues[i].id
             /\ q.in_use = g_equeues[i].in_use /\ q.is_deleted = g_equeues[i].is_deleted
<1> DEFINE r == g_equeues[i]
           ev == [r.events EXCEPT ![r.tail] = e]
           tl == Idx(r.tail + 1)
           n == r.count + 1
           q == [r EXCEPT !.events = ev, !.tail = tl, !.count = n]
<1>1. Push(r, e) = q
  BY DEF Push
<1>2. r = [f \in EqFields |-> r[f]]
  BY DEF EqIInv, EqTypes
<1> HIDE DEF r, ev, tl, n
<1>3. /\ q = [f \in EqFields |-> q[f]] /\ q.count = n /\ q.id = r.id
      /\ q.in_use = r.in_use /\ q.is_deleted = r.is_deleted
  BY <1>2 DEF EqFields
<1>4. QED
  BY <1>1, <1>3 DEF r, n

\* A queue that takes one event and wakes one sleeper of its own, if any.
LEMMA EqPushInv ==
  ASSUME EqIInv, NEW i \in EqSlots, NEW e, EqSignal(i), g_equeues[i].in_use,
         g_equeues' = [g_equeues EXCEPT ![i] = Push(g_equeues[i], e)], UNCHANGED g_next_eq_id
  PROVE  EqIInv'
<1> DEFINE q == Push(g_equeues[i], e)
<1>1. /\ q = [f \in EqFields |-> q[f]] /\ q.count = g_equeues[i].count + 1 /\ q.id = g_equeues[i].id
      /\ q.in_use = g_equeues[i].in_use /\ q.is_deleted = g_equeues[i].is_deleted
  BY EqPushed
<1>2. g_equeues' = [g_equeues EXCEPT ![i] = q] /\ g_equeues[i].count \in Nat
  BY DEF EqIInv, EqTypes
<1> HIDE DEF q
<1>3. CASE EqWaiting(i, "asleep") = {}
  <2>1. UNCHANGED qcall /\ EqWaiting(i, "asleep")' = EqWaiting(i, "asleep")
    BY <1>3 DEF EqSignal, EqWaiting
  <2>2. EqTypes'
    BY <1>1, <1>2, <2>1 DEF EqIInv, EqTypes
  <2>3. q.in_use => ~q.is_deleted
    BY <1>1 DEF EqIInv
  <2>4. QED
    BY <1>2, <1>3, <2>1, <2>2, <2>3, EqSlotChange
<1>4. CASE EqWaiting(i, "asleep") # {}
  <2>1. PICK w \in EqWaiting(i, "asleep") : qcall' = [qcall EXCEPT ![w].at = "woken"]
    BY <1>4 DEF EqSignal
  <2>2. w \in EqThreads /\ qcall[w] \in EqCalls /\ qcall[w].at = "asleep" /\ qcall[w].slot = i
    BY <2>1 DEF EqWaiting, EqIInv, EqTypes
  <2>3. /\ qcall' = [qcall EXCEPT ![w] = [qcall[w] EXCEPT !.at = "woken"]]
        /\ [qcall[w] EXCEPT !.at = "woken"] \in EqCalls /\ [qcall[w] EXCEPT !.at = "woken"].at = "woken"
        /\ [qcall[w] EXCEPT !.at = "woken"].slot = i /\ [qcall[w] EXCEPT !.at = "woken"].num = qcall[w].num
    BY <2>1, <2>2 DEF EqCalls
  <2>4. EqTypes'
    BY <1>1, <1>2, <2>2, <2>3 DEF EqIInv, EqTypes
  <2>5. \A u \in EqThreads : u # w => qcall'[u] = qcall[u]
    BY <2>2, <2>3 DEF EqIInv, EqTypes
  <2>6. EqWaiting(i, "woken")' = EqWaiting(i, "woken") \cup {w} /\ w \notin EqWaiting(i, "woken")
    BY <2>2, <2>3, <2>5 DEF EqWaiting, EqIInv, EqTypes
  <2>7. EqWaiting(i, "woken") \in SUBSET EqThreads
    BY DEF EqWaiting
  <2>8. g_equeues[i].count <= Cardinality(EqWaiting(i, "woken"))
    BY <2>1 DEF EqIInv, EqNoLostEvent
  <2>9. Cardinality(EqWaiting(i, "woken")') = Cardinality(EqWaiting(i, "woken")) + 1 /\ Cardinality(EqWaiting(i, "woken")) \in Nat
    BY <2>6, <2>7, EqWokenCount
  <2>10. q.count <= Cardinality(EqWaiting(i, "woken")')
    BY <1>1, <1>2, <2>8, <2>9
  <2>11. q.in_use => ~q.is_deleted
    BY <1>1 DEF EqIInv
  <2>12. qcall'[w].slot = i
    BY <2>2, <2>3 DEF EqIInv, EqTypes
  <2>13. \A u \in EqThreads : qcall'[u] # qcall[u] => (qcall[u].at # "idle" => qcall[u].slot = i)
                                                   /\ (qcall'[u].at # "idle" => qcall'[u].slot = i)
    BY <2>2, <2>5, <2>12
  <2>14. QED
    BY <1>2, <2>4, <2>10, <2>11, <2>13, EqSlotChange
<1>5. QED
  BY <1>3, <1>4

\* After a broadcast nobody sleeps on the queue.
LEMMA EqBroadcastCalls ==
  ASSUME EqIInv, NEW S \in SUBSET EqSlots, EqBroadcast(S)
  PROVE  /\ qcall' \in [EqThreads -> EqCalls]
         /\ \A t \in EqThreads : qcall'[t].slot = qcall[t].slot /\ qcall'[t].num = qcall[t].num
                                 /\ (qcall'[t].at = "idle" <=> qcall[t].at = "idle")
                                 /\ (qcall'[t] # qcall[t] => qcall[t].slot \in S)
         /\ \A i \in S : EqWaiting(i, "asleep")' = {}
<1>1. ASSUME NEW t \in EqThreads
      PROVE  /\ [qcall[t] EXCEPT !.at = "woken"] \in EqCalls /\ [qcall[t] EXCEPT !.at = "woken"].at = "woken"
             /\ [qcall[t] EXCEPT !.at = "woken"].slot = qcall[t].slot /\ [qcall[t] EXCEPT !.at = "woken"].num = qcall[t].num
             /\ qcall[t] \in EqCalls
  BY DEF EqIInv, EqTypes, EqCalls
<1>2. qcall' = [t \in EqThreads |-> IF \E i \in S : t \in EqWaiting(i, "asleep")
                                    THEN [qcall[t] EXCEPT !.at = "woken"] ELSE qcall[t]]
  BY DEF EqBroadcast
<1>3. ASSUME NEW t \in EqThreads
      PROVE  /\ qcall'[t] \in EqCalls
             /\ qcall'[t].slot = qcall[t].slot /\ qcall'[t].num = qcall[t].num
             /\ (qcall'[t].at = "idle" <=> qcall[t].at = "idle")
             /\ (qcall'[t] # qcall[t] => qcall[t].slot \in S)
             /\ (qcall[t].slot \in S => qcall'[t].at # "asleep")
  <2>1. CASE \E i \in S : t \in EqWaiting(i, "asleep")
    BY <1>1, <1>2, <2>1 DEF EqWaiting
  <2>2. CASE ~\E i \in S : t \in EqWaiting(i, "asleep")
    BY <1>1, <1>2, <2>2 DEF EqWaiting
  <2>3. QED
    BY <2>1, <2>2
<1>4. QED
  BY <1>2, <1>3 DEF EqWaiting

\* Every call of the event queues keeps the invariant.
LEMMA EqStepInv == EqIInv /\ [EqNext]_eq_vars => EqIInv'
<1> SUFFICES ASSUME EqIInv, [EqNext]_eq_vars PROVE EqIInv'
  OBVIOUS
<1>t. EqTypes /\ \A i \in EqSlots : g_equeues[i].count \in Nat
  BY DEF EqIInv, EqTypes
<1>1. CASE UNCHANGED eq_vars
  BY <1>1 DEF EqIInv, EqTypes, EqNoLostEvent, EqWaiting, eq_vars
<1>2. CASE sceKernelCreateEqueue
  <2>1. PICK i \in EqSlots : /\ ~g_equeues[i].in_use
                             /\ g_equeues' = [g_equeues EXCEPT ![i] = NewQueue(g_next_eq_id, g_equeues[i].events)]
                             /\ g_next_eq_id' = g_next_eq_id + 1 /\ UNCHANGED qcall
    BY <1>2 DEF sceKernelCreateEqueue, EqBecomes
  <2> DEFINE q == NewQueue(g_next_eq_id, g_equeues[i].events)
  <2>2. q = [f \in EqFields |-> q[f]] /\ q.count = 0 /\ q.id = g_next_eq_id /\ ~q.is_deleted
    BY DEF NewQueue, EqFields
  <2>3. g_equeues' = [g_equeues EXCEPT ![i] = q]
    BY <2>1
  <2> HIDE DEF q
  <2>4. EqTypes'
    BY <1>t, <2>1, <2>2, <2>3 DEF EqTypes
  <2>5. Cardinality(EqWaiting(i, "woken")') \in Nat
    <3>1. EqWaiting(i, "woken")' \in SUBSET EqThreads
      BY DEF EqWaiting
    <3>2. QED
      BY <3>1, EqWokenCount
  <2>6. q.count <= Cardinality(EqWaiting(i, "woken")')
    BY <2>2, <2>5
  <2>7. QED
    BY <2>1, <2>2, <2>3, <2>4, <2>6, EqSlotChange
<1>3. ASSUME NEW S \in SUBSET EqSlots, delete_queues(S) PROVE EqIInv'
  <2>1. /\ g_equeues' = [i \in EqSlots |-> IF i \in S THEN [g_equeues[i] EXCEPT !.is_deleted = TRUE, !.in_use = FALSE]
                                           ELSE g_equeues[i]]
        /\ EqBroadcast(S) /\ g_next_eq_id' = g_next_eq_id
    BY <1>3 DEF delete_queues
  <2>2. ASSUME NEW i \in EqSlots
        PROVE  LET q == [g_equeues[i] EXCEPT !.is_deleted = TRUE, !.in_use = FALSE]
               IN  q = [f \in EqFields |-> q[f]] /\ q.count = g_equeues[i].count /\ q.id = g_equeues[i].id /\ ~q.in_use
    <3> DEFINE r == g_equeues[i]
    <3>1. r = [f \in EqFields |-> r[f]]
      BY <1>t DEF EqTypes
    <3> HIDE DEF r
    <3>2. LET q == [r EXCEPT !.is_deleted = TRUE, !.in_use = FALSE]
          IN  q = [f \in EqFields |-> q[f]] /\ q.count = r.count /\ q.id = r.id /\ q.in_use = FALSE
      BY <3>1 DEF EqFields
    <3>3. QED
      BY <3>2 DEF r
  <2>3. /\ qcall' \in [EqThreads -> EqCalls]
        /\ \A t \in EqThreads : qcall'[t].slot = qcall[t].slot /\ qcall'[t].num = qcall[t].num
                                /\ (qcall'[t].at = "idle" <=> qcall[t].at = "idle")
                                /\ (qcall'[t] # qcall[t] => qcall[t].slot \in S)
    BY <2>1, EqBroadcastCalls
  <2>4. EqTypes'
    <3>1. g_equeues' = [i \in EqSlots |-> g_equeues'[i]]
      BY <2>1
    <3>2. ASSUME NEW i \in EqSlots
          PROVE  /\ g_equeues'[i] = [f \in EqFields |-> g_equeues'[i][f]]
                 /\ g_equeues'[i].count \in Nat /\ g_equeues'[i].id \in Nat
      BY <1>t, <2>1, <2>2 DEF EqTypes
    <3>3. QED
      BY <1>t, <2>1, <2>3, <3>1, <3>2 DEF EqTypes
  <2>5. ASSUME NEW i \in EqSlots
        PROVE  /\ g_equeues'[i].in_use => ~g_equeues'[i].is_deleted
               /\ g_equeues'[i].in_use /\ EqWaiting(i, "asleep")' # {}
                    => g_equeues'[i].count <= Cardinality(EqWaiting(i, "woken")')
    <3>1. CASE i \in S
      BY <2>1, <2>2, <3>1
    <3>2. CASE i \notin S
      <4>1. g_equeues'[i] = g_equeues[i]
        BY <2>1, <3>2
      <4>2. EqWaiting(i, "asleep")' = EqWaiting(i, "asleep") /\ EqWaiting(i, "woken")' = EqWaiting(i, "woken")
        BY <2>3, <3>2 DEF EqWaiting
      <4>3. QED
        BY <4>1, <4>2 DEF EqIInv, EqNoLostEvent
    <3>3. QED
      BY <3>1, <3>2
  <2>6. QED
    BY <2>4, <2>5 DEF EqIInv, EqNoLostEvent
<1>4. CASE ps4_equeue_post_event
  <2>1. PICK i \in EqSlots, e \in EqEvents :
          /\ find_equeue_locked(i)
          /\ IF g_equeues[i].count < EQUEUE_CAPACITY
             THEN EqBecomes(i, Push(g_equeues[i], e), Append(posted[i], e)) /\ EqSignal(i)
             ELSE UNCHANGED <<g_equeues, posted, qcall>>
          /\ UNCHANGED g_next_eq_id
    BY <1>4 DEF ps4_equeue_post_event
  <2>2. CASE g_equeues[i].count < EQUEUE_CAPACITY
    BY <2>1, <2>2, EqPushInv DEF EqBecomes, find_equeue_locked
  <2>3. CASE ~(g_equeues[i].count < EQUEUE_CAPACITY)
    BY <2>1, <2>3 DEF EqIInv, EqTypes, EqNoLostEvent, EqWaiting
  <2>4. QED
    BY <2>2, <2>3
<1>5. CASE ps4_equeue_trigger_event
  <2>1. PICK i \in EqSlots, e \in EqEvents :
          /\ \/ g_equeues' = [g_equeues EXCEPT ![i] = Push(g_equeues[i], e)]
             \/ g_equeues' = g_equeues
          /\ EqBroadcast({i}) /\ UNCHANGED g_next_eq_id
    BY <1>5 DEF ps4_equeue_trigger_event, EqBecomes
  <2>2. PICK q : /\ g_equeues' = [g_equeues EXCEPT ![i] = q] /\ q = [f \in EqFields |-> q[f]]
                 /\ q.count \in Nat /\ q.id = g_equeues[i].id
                 /\ q.in_use = g_equeues[i].in_use /\ q.is_deleted = g_equeues[i].is_deleted
    <3>1. CASE g_equeues' = [g_equeues EXCEPT ![i] = Push(g_equeues[i], e)]
      <4>1. g_equeues[i].count \in Nat
        BY <1>t
      <4>2. LET q == Push(g_equeues[i], e)
            IN  /\ q = [f \in EqFields |-> q[f]]
                /\ q.count = g_equeues[i].count + 1 /\ q.id = g_equeues[i].id
                /\ q.in_use = g_equeues[i].in_use /\ q.is_deleted = g_equeues[i].is_deleted
        BY EqPushed
      <4>3. Push(g_equeues[i], e).count \in Nat
        BY <4>1, <4>2
      <4>4. QED
        BY <3>1, <4>2, <4>3
    <3>2. CASE g_equeues' = g_equeues
      <4>1. g_equeues' = [g_equeues EXCEPT ![i] = g_equeues[i]]
        BY <1>t, <3>2 DEF EqTypes
      <4>2. g_equeues[i] = [f \in EqFields |-> g_equeues[i][f]] /\ g_equeues[i].count \in Nat
        BY <1>t DEF EqTypes
      <4>3. QED
        BY <4>1, <4>2
    <3>3. QED
      BY <2>1, <3>1, <3>2
  <2>3. /\ qcall' \in [EqThreads -> EqCalls]
        /\ \A t \in EqThreads : qcall'[t].slot = qcall[t].slot /\ qcall'[t].num = qcall[t].num
                                /\ (qcall'[t].at = "idle" <=> qcall[t].at = "idle")
                                /\ (qcall'[t] # qcall[t] => qcall[t].slot = i)
        /\ EqWaiting(i, "asleep")' = {}
    BY <2>1, EqBroadcastCalls
  <2>4. EqTypes'
    BY <1>t, <2>1, <2>2, <2>3 DEF EqTypes
  <2>5. q.in_use => ~q.is_deleted
    BY <2>2 DEF EqIInv
  <2>6. \A u \in EqThreads : qcall'[u] # qcall[u] => (qcall[u].at # "idle" => qcall[u].slot = i)
                                                  /\ (qcall'[u].at # "idle" => qcall'[u].slot = i)
    BY <2>3
  <2>7. QED
    BY <2>2, <2>3, <2>4, <2>5, <2>6, EqSlotChange
<1>6. CASE ps4_equeue_remove_events
  <2>1. PICK i \in EqSlots, e \in EqEvents :
          /\ g_equeues' = [g_equeues EXCEPT ![i] = remove_events_locked(g_equeues[i], e)]
          /\ UNCHANGED <<g_next_eq_id, qcall>>
    BY <1>6 DEF ps4_equeue_remove_events, EqBecomes
  <2> DEFINE q == remove_events_locked(g_equeues[i], e)
             kept == {k \in 0..g_equeues[i].count - 1 : g_equeues[i].events[Idx(g_equeues[i].head + k)] # e}
  <2>2. q = [f \in EqFields |-> q[f]] /\ q.count = Cardinality(kept) /\ q.id = g_equeues[i].id
        /\ q.in_use = g_equeues[i].in_use /\ q.is_deleted = g_equeues[i].is_deleted
    BY <1>t DEF EqTypes, EqFields, remove_events_locked
  <2>3. Cardinality(kept) \in Nat /\ Cardinality(kept) <= g_equeues[i].count
    <3>1. g_equeues[i].count \in Nat
      BY <1>t
    <3>2. IsFiniteSet(0..g_equeues[i].count - 1) /\ Cardinality(0..g_equeues[i].count - 1) = g_equeues[i].count
      <4> DEFINE m == g_equeues[i].count - 1
      <4>1. m \in Int /\ 0 \in Int /\ (IF 0 > m THEN 0 ELSE m - 0 + 1) = g_equeues[i].count
        BY <3>1
      <4> HIDE DEF m
      <4>2. IsFiniteSet(0..m) /\ Cardinality(0..m) = IF 0 > m THEN 0 ELSE m - 0 + 1
        BY <4>1, FS_Interval
      <4>3. QED
        BY <4>1, <4>2 DEF m
    <3>3. kept \in SUBSET (0..g_equeues[i].count - 1)
      OBVIOUS
    <3> HIDE DEF kept
    <3>4. QED
      BY <3>2, <3>3, FS_Subset, FS_CardinalityType
  <2>4. g_equeues' = [g_equeues EXCEPT ![i] = q]
    BY <2>1
  <2> HIDE DEF q, kept
  <2>5. EqTypes'
    BY <1>t, <2>1, <2>2, <2>3, <2>4 DEF EqTypes
  <2>6. EqWaiting(i, "asleep")' = EqWaiting(i, "asleep") /\ EqWaiting(i, "woken")' = EqWaiting(i, "woken")
    BY <2>1 DEF EqWaiting
  <2>7. ASSUME q.in_use, EqWaiting(i, "asleep")' # {} PROVE q.count <= Cardinality(EqWaiting(i, "woken")')
    <3>1. g_equeues[i].count <= Cardinality(EqWaiting(i, "woken"))
      BY <2>2, <2>6, <2>7 DEF EqIInv, EqNoLostEvent
    <3>2. Cardinality(EqWaiting(i, "woken")) \in Nat
      <4>1. EqWaiting(i, "woken") \in SUBSET EqThreads
        BY DEF EqWaiting
      <4>2. QED
        BY <4>1, EqWokenCount
    <3>3. QED
      BY <1>t, <2>2, <2>3, <2>6, <3>1, <3>2
  <2>8. q.in_use => ~q.is_deleted
    BY <2>2 DEF EqIInv
  <2>9. QED
    BY <2>1, <2>4, <2>5, <2>7, <2>8, EqSlotChange
<1>7. ASSUME NEW t \in EqThreads, sceKernelWaitEqueue(t) PROVE EqIInv'
  <2>1. PICK i \in EqSlots, num \in 1..EQUEUE_CAPACITY, timed \in BOOLEAN :
          \/ Take(t, i, num)
          \/ /\ g_equeues[i].count = 0
             /\ qcall' = [qcall EXCEPT ![t] = [at |-> "asleep", slot |-> i, id |-> g_equeues[i].id,
                                               num |-> num, timed |-> timed]]
             /\ UNCHANGED g_equeues
    BY <1>7 DEF sceKernelWaitEqueue
  <2>2. num \in Nat /\ num > 0 /\ qcall[t].at = "idle" /\ UNCHANGED g_next_eq_id
    BY <1>7, EqAssumption DEF sceKernelWaitEqueue
  <2>3. CASE Take(t, i, num)
    BY <2>2, <2>3, EqTakeInv
  <2>4. CASE g_equeues[i].count = 0 /\ UNCHANGED g_equeues
             /\ qcall' = [qcall EXCEPT ![t] = [at |-> "asleep", slot |-> i, id |-> g_equeues[i].id,
                                               num |-> num, timed |-> timed]]
    <3> DEFINE c == [at |-> "asleep", slot |-> i, id |-> g_equeues[i].id, num |-> num, timed |-> timed]
    <3>1. c \in EqCalls /\ c.slot = i /\ c.num = num
      BY <1>t, <2>2 DEF EqTypes, EqCalls
    <3>2. qcall' = [qcall EXCEPT ![t] = c]
      BY <2>4
    <3> HIDE DEF c
    <3>3. EqTypes'
      BY <1>t, <2>2, <2>4, <3>1, <3>2 DEF EqTypes
    <3>4. g_equeues' = [g_equeues EXCEPT ![i] = g_equeues[i]]
      BY <1>t, <2>4 DEF EqTypes
    <3>5. \A u \in EqThreads : qcall'[u] # qcall[u] => (qcall[u].at # "idle" => qcall[u].slot = i)
                                                   /\ (qcall'[u].at # "idle" => qcall'[u].slot = i)
      BY <1>t, <2>2, <3>1, <3>2 DEF EqTypes
    <3>6. g_equeues[i].count <= Cardinality(EqWaiting(i, "woken")')
      <4>1. EqWaiting(i, "woken")' \in SUBSET EqThreads
        BY DEF EqWaiting
      <4>2. Cardinality(EqWaiting(i, "woken")') \in Nat
        BY <4>1, EqWokenCount
      <4>3. QED
        BY <2>4, <4>2
    <3>7. g_equeues[i].in_use => ~g_equeues[i].is_deleted
      BY DEF EqIInv
    <3>8. QED
      BY <3>3, <3>4, <3>5, <3>6, <3>7, EqSlotChange
  <2>5. QED
    BY <2>1, <2>3, <2>4
<1>8. ASSUME NEW t \in EqThreads, wait_equeue_woken(t) PROVE EqIInv'
  <2>0. PICK i \in EqSlots : i = qcall[t].slot
    BY <1>8, <1>t DEF EqTypes, wait_equeue_woken
  <2>1. /\ qcall[t].slot = i /\ qcall[t].num \in Nat /\ qcall[t].num > 0 /\ qcall[t] \in EqCalls
        /\ qcall[t].at \in {"woken", "late"} /\ UNCHANGED g_next_eq_id /\ g_equeues[i].count \in Nat
    BY <1>8, <1>t, <2>0 DEF EqTypes, EqCalls, wait_equeue_woken
  <2>2. CASE g_equeues[i].is_deleted
    <3>1. qcall' = [qcall EXCEPT ![t] = NoWait] /\ UNCHANGED g_equeues
      BY <1>8, <2>1, <2>2 DEF wait_equeue_woken
    <3>2. NoWait \in EqCalls /\ NoWait.at = "idle"
      BY DEF NoWait, EqCalls
    <3>3. EqTypes'
      BY <1>t, <2>1, <3>1, <3>2 DEF EqTypes
    <3>4. g_equeues' = [g_equeues EXCEPT ![i] = g_equeues[i]]
      BY <1>t, <3>1 DEF EqTypes
    <3>5. \A u \in EqThreads : qcall'[u] # qcall[u] => (qcall[u].at # "idle" => qcall[u].slot = i)
                                                   /\ (qcall'[u].at # "idle" => qcall'[u].slot = i)
      BY <1>t, <2>1, <3>1, <3>2 DEF EqTypes
    <3>6. ~g_equeues[i].in_use
      BY <2>1, <2>2 DEF EqIInv
    <3>7. QED
      BY <2>1, <3>3, <3>4, <3>5, <3>6, EqSlotChange
  <2>3. CASE ~g_equeues[i].is_deleted /\ (g_equeues[i].count > 0 \/ qcall[t].at = "late")
    <3>1. Take(t, i, qcall[t].num)
      BY <1>8, <2>1, <2>3 DEF wait_equeue_woken
    <3>2. qcall[t].at = "woken" => g_equeues[i].count > 0
      BY <2>3
    <3>3. QED
      BY <2>1, <3>1, <3>2, EqTakeInv
  <2>4. CASE ~g_equeues[i].is_deleted /\ ~(g_equeues[i].count > 0 \/ qcall[t].at = "late")
    <3>1. qcall' = [qcall EXCEPT ![t].at = "asleep"] /\ UNCHANGED g_equeues /\ g_equeues[i].count = 0
      BY <1>8, <2>1, <2>4 DEF wait_equeue_woken
    <3>2. QED
      BY <2>1, <3>1, EqCallMoves
  <2>5. QED
    BY <2>2, <2>3, <2>4
<1>9. ASSUME NEW t \in EqThreads, eq_cond(t) PROVE EqIInv'
  <2>1. PICK how \in {"woken", "late"} : qcall' = [qcall EXCEPT ![t].at = how]
    BY <1>9 DEF eq_cond
  <2>2. qcall[t].at = "asleep" /\ UNCHANGED <<g_equeues, g_next_eq_id>>
    BY <1>9 DEF eq_cond
  <2>3. QED
    BY <2>1, <2>2, EqCallMoves
<1>10. sceKernelDeleteEqueue \/ ps4_equeue_destroy => EqIInv'
  BY <1>3 DEF sceKernelDeleteEqueue, ps4_equeue_destroy
<1>11. QED
  BY <1>1, <1>2, <1>4, <1>5, <1>6, <1>7, <1>8, <1>9, <1>10 DEF EqNext

-----------------------------------------------------------------------------
(* POSIX semaphores.  SemNoLostPost alone is not inductive: it says nothing*)
(* while a call of an earlier life is still in the slot, and such a call   *)
(* leaves.  What is kept is that a sleeper of the present life is enough   *)
(* for every token to have a woken thread, whoever that is.                *)
SemRecs == [in_use : BOOLEAN, magic : BOOLEAN, value : Nat, life : Nat]
SemCalls == [at : {"idle", "enter", "asleep", "woken", "late", "free"},
             op : SemWaits \cup {"none", "trywait", "post", "destroy"}, slot : SemSlots \cup {0}, life : Nat]
SemCallOK(c) == c.at # "idle" => c.slot \in SemSlots /\ (c.at \in {"asleep", "woken", "late"} => c.op \in SemWaits)
SemTypes ==
  /\ sem \in [SemSlots -> SemRecs] /\ scall \in [SemThreads -> SemCalls]
  /\ \A t \in SemThreads : SemCallOK(scall[t])
SemIInv ==
  /\ SemTypes
  /\ \A t \in SemThreads : scall[t].at # "idle" => scall[t].life <= sem[scall[t].slot].life
  /\ \A i \in SemSlots :
       sem[i].magic /\ (\E t \in SemSleepers(i) : scall[t].life = sem[i].life)
         => sem[i].value <= Cardinality(SemWoken(i))

\* No semaphore exists and no call is made.
LEMMA SemInitInv == SemInit => SemIInv
<1> SUFFICES ASSUME SemInit PROVE SemIInv
  OBVIOUS
<1>1. NoCall \in SemCalls /\ NoCall.at = "idle"
  BY DEF NoCall, SemCalls
<1>2. SemTypes /\ (\A t \in SemThreads : scall[t].at = "idle")
  BY <1>1 DEF SemInit, SemTypes, SemRecs, SemCallOK
<1>3. QED
  BY <1>2 DEF SemIInv, SemSleepers, OnSem

\* Counting the threads woken from a semaphore.
LEMMA SemCount ==
  ASSUME NEW S \in SUBSET SemThreads
  PROVE  /\ Cardinality(S) \in Nat
         /\ \A t : t \in S => Cardinality(S \ {t}) = Cardinality(S) - 1
         /\ \A t : t \notin S => Cardinality(S \cup {t}) = Cardinality(S) + 1
         /\ \A R \in SUBSET S : Cardinality(R) <= Cardinality(S)
<1>1. IsFiniteSet(S)
  BY SemFinite, FS_Subset
<1>2. QED
  BY <1>1, FS_CardinalityType, FS_RemoveElement, FS_AddElement, FS_Subset

\* A section of slot i: its calls may move, the waiters of the other slots
\* stay, and the invariant is to be shown for slot i.
LEMMA SemSlotChange ==
  ASSUME SemIInv, NEW i \in SemSlots, NEW s \in SemRecs, sem' = [sem EXCEPT ![i] = s],
         s.life >= sem[i].life, scall' \in [SemThreads -> SemCalls],
         \A t \in SemThreads : SemCallOK(scall'[t]),
         \A t \in SemThreads : scall'[t] # scall[t] =>
            /\ scall[t].at = "idle" \/ scall[t].slot = i
            /\ scall'[t].at = "idle" \/ (scall'[t].slot = i /\ scall'[t].life <= s.life),
         s.magic /\ (\E t \in SemSleepers(i)' : scall'[t].life = s.life) => s.value <= Cardinality(SemWoken(i)')
  PROVE  SemIInv'
<1>1. sem'[i] = s /\ sem' \in [SemSlots -> SemRecs] /\ \A j \in SemSlots : j # i => sem'[j] = sem[j]
  BY DEF SemIInv, SemTypes
<1>2. SemTypes'
  BY <1>1 DEF SemTypes
<1>3. ASSUME NEW t \in SemThreads, scall'[t].at # "idle" PROVE scall'[t].life <= sem'[scall'[t].slot].life
  <2>1. CASE scall'[t] # scall[t]
    BY <1>1, <1>3, <2>1
  <2>2. CASE scall'[t] = scall[t]
    <3>1. scall[t].life <= sem[scall[t].slot].life /\ scall[t].slot \in SemSlots /\ scall[t].life \in Nat
      BY <1>3, <2>2 DEF SemIInv, SemTypes, SemCalls, SemCallOK
    <3>2. sem[i].life \in Nat /\ s.life \in Nat
      BY DEF SemIInv, SemTypes, SemRecs
    <3>3. QED
      BY <1>1, <2>2, <3>1, <3>2
  <2>3. QED
    BY <2>1, <2>2
<1>4. ASSUME NEW j \in SemSlots, j # i
      PROVE  SemSleepers(j)' = SemSleepers(j) /\ SemWoken(j)' = SemWoken(j)
             /\ \A t \in SemSleepers(j) : scall'[t] = scall[t]
  BY <1>4 DEF SemSleepers, SemWoken, OnSem
<1>5. ASSUME NEW j \in SemSlots, sem'[j].magic, \E t \in SemSleepers(j)' : scall'[t].life = sem'[j].life
      PROVE  sem'[j].value <= Cardinality(SemWoken(j)')
  <2>1. CASE j = i
    BY <1>1, <1>5, <2>1
  <2>2. CASE j # i
    BY <1>1, <1>4, <1>5, <2>2 DEF SemIInv
  <2>3. QED
    BY <2>1, <2>2
<1>6. QED
  BY <1>2, <1>3, <1>5 DEF SemIInv

\* t, not asleep, takes a token and returns.
LEMMA SemTakes ==
  ASSUME SemIInv, NEW t \in SemThreads, scall[t].at \in {"enter", "woken", "late"}, TakesToken(t)
  PROVE  SemIInv'
<1>0. PICK i \in SemSlots : i = scall[t].slot
  BY DEF SemIInv, SemTypes, SemCallOK
<1>1. sem[i] \in SemRecs /\ sem[i].value \in Nat /\ sem[i].value > 0 /\ sem[i].life \in Nat
  BY <1>0 DEF SemIInv, SemTypes, SemRecs, TakesToken
<1>2. sem' = [sem EXCEPT ![i] = [sem[i] EXCEPT !.value = sem[i].value - 1]] /\ scall' = [scall EXCEPT ![t] = NoCall]
  BY <1>0 DEF TakesToken, SemReturns
<1>3. PICK s \in SemRecs : /\ sem' = [sem EXCEPT ![i] = s] /\ s.value = sem[i].value - 1
                           /\ s.life = sem[i].life /\ s.magic = sem[i].magic
  <2>1. sem[i].value - 1 \in Nat
    BY <1>1
  <2>2. [sem[i] EXCEPT !.value = sem[i].value - 1] \in SemRecs
    BY <1>1, <2>1 DEF SemRecs
  <2>3. QED
    BY <1>1, <1>2, <2>2 DEF SemRecs
<1>4. NoCall \in SemCalls /\ NoCall.at = "idle"
  BY DEF NoCall, SemCalls
<1>5. scall' \in [SemThreads -> SemCalls] /\ scall'[t].at = "idle" /\ \A u \in SemThreads : u # t => scall'[u] = scall[u]
  BY <1>2, <1>4 DEF SemIInv, SemTypes
<1>6. SemSleepers(i)' = SemSleepers(i) /\ SemWoken(i)' = SemWoken(i) \ {t} /\ SemWoken(i) \in SUBSET SemThreads
  BY <1>5 DEF SemSleepers, SemWoken, OnSem
<1>7. ASSUME s.magic, \E u \in SemSleepers(i)' : scall'[u].life = s.life PROVE s.value <= Cardinality(SemWoken(i)')
  <2>1. sem[i].value <= Cardinality(SemWoken(i))
    <3>1. t \notin SemSleepers(i) /\ SemSleepers(i) \subseteq SemThreads
      BY DEF SemSleepers
    <3>2. QED
      BY <1>3, <1>5, <1>6, <1>7, <3>1 DEF SemIInv
  <2>2. Cardinality(SemWoken(i)) \in Nat /\ (Cardinality(SemWoken(i)') = Cardinality(SemWoken(i))
                                            \/ Cardinality(SemWoken(i)') = Cardinality(SemWoken(i)) - 1)
    <3>1. CASE t \in SemWoken(i)
      BY <1>6, <3>1, SemCount
    <3>2. CASE t \notin SemWoken(i)
      <4>1. SemWoken(i)' = SemWoken(i)
        BY <1>6, <3>2
      <4>2. QED
        BY <1>6, <4>1, SemCount
    <3>3. QED
      BY <3>1, <3>2
  <2>3. QED
    BY <1>1, <1>3, <2>1, <2>2
<1>8. \A u \in SemThreads : SemCallOK(scall'[u])
  BY <1>5 DEF SemIInv, SemTypes, SemCallOK
<1>9. \A u \in SemThreads : scall'[u] # scall[u] =>
            /\ scall[u].at = "idle" \/ scall[u].slot = i
            /\ scall'[u].at = "idle" \/ (scall'[u].slot = i /\ scall'[u].life <= s.life)
  BY <1>0, <1>5
<1>10. s.life >= sem[i].life
  BY <1>1, <1>3
<1>11. QED
  BY <1>3, <1>5, <1>7, <1>8, <1>9, <1>10, SemSlotChange

\* The slot stays as it is; a call t moves, on the same slot or back to idle,
\* and a woken t leaves only for a dead semaphore or an empty one.
LEMMA SemMoves ==
  ASSUME SemIInv, NEW t \in SemThreads, scall[t].at # "idle", NEW c \in SemCalls, UNCHANGED sem, SemCallOK(c),
         scall' = [scall EXCEPT ![t] = c],
         c.at # "idle" => c.slot = scall[t].slot /\ c.life = scall[t].life,
         c.at = "asleep" => sem[scall[t].slot].value = 0,
         scall[t].at = "woken" => sem[scall[t].slot].value = 0 \/ ~sem[scall[t].slot].magic
  PROVE  SemIInv'
<1>0. PICK i \in SemSlots : i = scall[t].slot
  BY DEF SemIInv, SemTypes, SemCallOK
<1>1. sem[i] \in SemRecs /\ sem[i].value \in Nat /\ sem[i].life \in Nat /\ sem' = [sem EXCEPT ![i] = sem[i]]
  BY DEF SemIInv, SemTypes, SemRecs
<1>2. scall' \in [SemThreads -> SemCalls] /\ scall'[t] = c /\ \A u \in SemThreads : u # t => scall'[u] = scall[u]
  BY DEF SemIInv, SemTypes
<1>3. ASSUME sem[i].magic, \E u \in SemSleepers(i)' : scall'[u].life = sem[i].life
      PROVE  sem[i].value <= Cardinality(SemWoken(i)')
  <2>1. SemWoken(i)' \in SUBSET SemThreads /\ SemWoken(i) \in SUBSET SemThreads
    BY DEF SemWoken
  <2>2. CASE sem[i].value = 0
    BY <1>1, <2>1, <2>2, SemCount
  <2>3. CASE sem[i].value # 0
    <3>1. SemSleepers(i)' \subseteq SemSleepers(i) /\ t \notin SemSleepers(i)' /\ SemSleepers(i)' \subseteq SemThreads
      BY <1>0, <1>2, <2>3 DEF SemSleepers, OnSem
    <3>2. sem[i].value <= Cardinality(SemWoken(i))
      BY <1>2, <1>3, <3>1 DEF SemIInv
    <3>3. SemWoken(i) \subseteq SemWoken(i)'
      BY <1>0, <1>2, <1>3, <2>3 DEF SemWoken, OnSem
    <3>4. QED
      BY <1>1, <2>1, <3>2, <3>3, SemCount
  <2>4. QED
    BY <2>2, <2>3
<1>4. scall[t].life <= sem[i].life
  BY <1>0 DEF SemIInv
<1>5. \A u \in SemThreads : scall'[u] # scall[u] =>
            /\ scall[u].at = "idle" \/ scall[u].slot = i
            /\ scall'[u].at = "idle" \/ (scall'[u].slot = i /\ scall'[u].life <= sem[i].life)
  BY <1>0, <1>2, <1>4
<1>6. \A u \in SemThreads : SemCallOK(scall'[u])
  BY <1>2 DEF SemIInv, SemTypes
<1>7. sem[i].life >= sem[i].life
  BY <1>1
<1>8. QED
  BY <1>1, <1>2, <1>3, <1>5, <1>6, <1>7, SemSlotChange

\* A call that gives up.
LEMMA SemFails ==
  ASSUME SemIInv, NEW t \in SemThreads, scall[t].at # "idle", Fails(t),
         scall[t].at = "woken" => sem[scall[t].slot].value = 0 \/ ~sem[scall[t].slot].magic
  PROVE  SemIInv'
<1>1. NoCall \in SemCalls /\ NoCall.at = "idle" /\ scall' = [scall EXCEPT ![t] = NoCall] /\ UNCHANGED sem
  BY DEF NoCall, SemCalls, Fails, SemReturns
<1>2. SemCallOK(NoCall)
  BY <1>1 DEF SemCallOK
<1>3. QED
  BY <1>1, <1>2, SemMoves

\* A wait goes to sleep, on no token.
LEMMA SemSleeps ==
  ASSUME SemIInv, NEW t \in SemThreads, scall[t].at # "idle", scall[t].op \in SemWaits, Sleeps(t), sem[scall[t].slot].value = 0
  PROVE  SemIInv'
<1>1. scall[t] \in SemCalls
  BY DEF SemIInv, SemTypes
<1>2. PICK c \in SemCalls : scall' = [scall EXCEPT ![t] = c] /\ c.at = "asleep" /\ c.slot = scall[t].slot /\ c.life = scall[t].life /\ c.op = scall[t].op
  <2>1. [scall[t] EXCEPT !.at = "asleep"] \in SemCalls
    BY <1>1 DEF SemCalls
  <2>2. QED
    BY <1>1, <2>1 DEF Sleeps, SemCalls
<1>3. SemCallOK(c)
  BY <1>2 DEF SemCallOK, SemIInv, SemTypes
<1>4. QED
  BY <1>2, <1>3, SemMoves DEF Sleeps

\* Every call of the POSIX semaphores keeps the invariant.
LEMMA SemStepInv == SemIInv /\ [SemNext]_sem_vars => SemIInv'
<1> SUFFICES ASSUME SemIInv, [SemNext]_sem_vars PROVE SemIInv'
  OBVIOUS
<1>t. SemTypes
  BY DEF SemIInv
<1>1. CASE UNCHANGED sem_vars
  BY <1>1 DEF SemIInv, SemTypes, SemSleepers, SemWoken, OnSem, sem_vars
<1> SUFFICES ASSUME NEW t \in SemThreads,
                    \/ sem_init(t) \/ get_sem(t) \/ sem_wait(t) \/ sem_timedwait(t) \/ scePthreadSemWait(t)
                    \/ scePthreadSemTimedwait(t) \/ sem_trywait(t) \/ sem_post(t) \/ sem_destroy(t) \/ sem_free(t)
                    \/ sem_cond(t)
             PROVE  SemIInv'
  BY <1>1 DEF SemNext, scePthreadSemInit, scePthreadSemDestroy, scePthreadSemTrywait, scePthreadSemPost
<1>c. scall[t] \in SemCalls /\ (scall[t].at # "idle" => scall[t].slot \in SemSlots)
  BY <1>t DEF SemTypes, SemCallOK
<1>2. CASE sem_init(t)
  <2>1. PICK i \in SemSlots, v \in 0..SemMax :
          /\ sem' = [sem EXCEPT ![i] = [in_use |-> TRUE, magic |-> TRUE, value |-> v, life |-> @.life + 1]]
    BY <1>2 DEF sem_init
  <2>2. sem[i].life \in Nat /\ v \in Nat
    BY <1>t DEF SemTypes, SemRecs
  <2>3. PICK s \in SemRecs : sem' = [sem EXCEPT ![i] = s] /\ s.life = sem[i].life + 1
    <3>1. [in_use |-> TRUE, magic |-> TRUE, value |-> v, life |-> sem[i].life + 1] \in SemRecs
      BY <2>2 DEF SemRecs
    <3>2. QED
      BY <1>t, <2>1, <3>1 DEF SemTypes
  <2>4. UNCHANGED scall
    BY <1>2 DEF sem_init
  <2>5. ASSUME NEW u \in SemSleepers(i)' PROVE scall'[u].life # s.life
    <3>1. u \in SemThreads /\ scall[u].at # "idle" /\ scall[u].slot = i /\ scall'[u] = scall[u]
      BY <2>4, <2>5 DEF SemSleepers, OnSem
    <3>2. scall[u].life <= sem[i].life /\ scall[u].life \in Nat
      BY <3>1, <1>t DEF SemIInv, SemTypes, SemCalls
    <3>3. QED
      BY <2>2, <2>3, <3>1, <3>2
  <2>6. s.life >= sem[i].life
    BY <2>2, <2>3
  <2>7. scall' \in [SemThreads -> SemCalls] /\ \A u \in SemThreads : SemCallOK(scall'[u])
    BY <1>t, <2>4 DEF SemTypes
  <2>8. QED
    BY <2>3, <2>4, <2>5, <2>6, <2>7, SemSlotChange
<1>3. CASE get_sem(t)
  <2>1. PICK i \in SemSlots, op \in SemWaits \cup {"trywait", "post", "destroy"} :
          scall' = [scall EXCEPT ![t] = [at |-> "enter", op |-> op, slot |-> i, life |-> sem[i].life]]
    BY <1>3 DEF get_sem
  <2>2. sem[i] \in SemRecs /\ sem[i].life \in Nat /\ scall[t].at = "idle" /\ UNCHANGED sem
    BY <1>3, <1>t DEF get_sem, SemTypes, SemRecs
  <2>3. PICK c \in SemCalls : scall' = [scall EXCEPT ![t] = c] /\ c.at = "enter" /\ c.slot = i /\ c.life = sem[i].life
    <3>1. [at |-> "enter", op |-> op, slot |-> i, life |-> sem[i].life] \in SemCalls
      BY <2>2 DEF SemCalls
    <3>2. QED
      BY <2>1, <3>1
  <2>4. scall' \in [SemThreads -> SemCalls] /\ scall'[t] = c /\ \A u \in SemThreads : u # t => scall'[u] = scall[u]
    BY <1>t, <2>3 DEF SemTypes
  <2>5. SemSleepers(i)' = SemSleepers(i) /\ SemWoken(i)' = SemWoken(i) /\ t \notin SemSleepers(i)
        /\ SemSleepers(i) \subseteq SemThreads
    BY <2>2, <2>3, <2>4 DEF SemSleepers, SemWoken, OnSem
  <2>6. sem[i].magic /\ (\E u \in SemSleepers(i)' : scall'[u].life = sem[i].life) => sem[i].value <= Cardinality(SemWoken(i)')
    BY <2>4, <2>5 DEF SemIInv
  <2>7. sem' = [sem EXCEPT ![i] = sem[i]] /\ sem[i].life >= sem[i].life
    BY <1>t, <2>2 DEF SemTypes
  <2>8. \A u \in SemThreads : scall'[u] # scall[u] =>
            /\ scall[u].at = "idle" \/ scall[u].slot = i
            /\ scall'[u].at = "idle" \/ (scall'[u].slot = i /\ scall'[u].life <= sem[i].life)
    BY <2>2, <2>3, <2>4
  <2>9. \A u \in SemThreads : SemCallOK(scall'[u])
    BY <1>t, <2>3, <2>4 DEF SemTypes, SemCallOK
  <2>10. QED
    BY <2>2, <2>4, <2>6, <2>7, <2>8, <2>9, SemSlotChange
<1>4. CASE sem_wait(t) \/ sem_timedwait(t) \/ scePthreadSemWait(t) \/ scePthreadSemTimedwait(t) \/ sem_trywait(t)
  <2>1. scall[t].at \in {"enter", "woken", "late"}
    BY <1>4 DEF sem_wait, sem_timedwait, scePthreadSemWait, scePthreadSemTimedwait, sem_trywait, Here
  <2>2. \/ TakesToken(t)
        \/ sem[scall[t].slot].value = 0 /\ Sleeps(t) /\ scall[t].op \in SemWaits
        \/ Fails(t) /\ (scall[t].at = "woken" => sem[scall[t].slot].value = 0 \/ ~sem[scall[t].slot].magic)
    BY <1>4, <2>1 DEF sem_wait, sem_timedwait, scePthreadSemWait, scePthreadSemTimedwait, sem_trywait, Here, SemWaits
  <2>3. QED
    BY <2>1, <2>2, SemTakes, SemSleeps, SemFails
<1>5. CASE sem_post(t)
  <2>0. PICK i \in SemSlots : i = scall[t].slot
    BY <1>5, <1>c DEF sem_post, Here
  <2>1. sem[i] \in SemRecs /\ sem[i].value \in Nat /\ sem[i].life \in Nat /\ scall[t].at \in {"enter", "woken", "late"}
        /\ scall[t].op = "post"
    BY <1>5, <1>t DEF SemTypes, SemRecs, sem_post, Here
  <2>2. PICK s \in SemRecs : /\ sem' = [sem EXCEPT ![i] = s] /\ s.value = sem[i].value + 1
                             /\ s.life = sem[i].life /\ s.magic = sem[i].magic
    <3>1. [sem[i] EXCEPT !.value = sem[i].value + 1] \in SemRecs
      BY <2>1 DEF SemRecs
    <3>2. sem' = [sem EXCEPT ![i] = [sem[i] EXCEPT !.value = sem[i].value + 1]]
      BY <1>5, <2>0 DEF sem_post
    <3>3. QED
      BY <2>1, <3>1, <3>2 DEF SemRecs
  <2> DEFINE p == [scall EXCEPT ![t] = NoCall]
  <2>3. NoCall \in SemCalls /\ NoCall.at = "idle"
    BY DEF NoCall, SemCalls
  <2>4. p \in [SemThreads -> SemCalls] /\ p[t] = NoCall /\ \A u \in SemThreads : u # t => p[u] = scall[u]
    BY <1>t, <2>3 DEF SemTypes
  <2>5. IF SemSleepers(i) = {} THEN scall' = p ELSE \E w \in SemSleepers(i) : scall' = [p EXCEPT ![w].at = "woken"]
    BY <1>5, <2>0 DEF sem_post
  <2> HIDE DEF p
  <2>6. s.life >= sem[i].life
    BY <2>1, <2>2
  <2>7. CASE SemSleepers(i) = {}
    <3>1. SemSleepers(i)' = {}
      BY <2>1, <2>3, <2>4, <2>5, <2>7 DEF SemSleepers, OnSem
    <3>2. \A u \in SemThreads : SemCallOK(scall'[u])
      BY <1>t, <2>3, <2>4, <2>5, <2>7 DEF SemTypes, SemCallOK
    <3>3. \A u \in SemThreads : scall'[u] # scall[u] =>
            /\ scall[u].at = "idle" \/ scall[u].slot = i
            /\ scall'[u].at = "idle" \/ (scall'[u].slot = i /\ scall'[u].life <= s.life)
      BY <2>0, <2>3, <2>4, <2>5, <2>7
    <3>4. QED
      BY <2>2, <2>4, <2>5, <2>6, <2>7, <3>1, <3>2, <3>3, SemSlotChange
  <2>8. CASE SemSleepers(i) # {}
    <3>1. PICK w \in SemSleepers(i) : scall' = [p EXCEPT ![w].at = "woken"]
      BY <2>5, <2>8
    <3>2. w \in SemThreads /\ w # t /\ scall[w].at = "asleep" /\ scall[w].slot = i /\ p[w] = scall[w] /\ scall[w] \in SemCalls
      BY <1>t, <2>1, <2>4, <3>1 DEF SemSleepers, OnSem, SemTypes
    <3>3. PICK c \in SemCalls : scall' = [p EXCEPT ![w] = c] /\ c.at = "woken" /\ c.slot = i /\ c.life = scall[w].life
      <4>1. [scall[w] EXCEPT !.at = "woken"] \in SemCalls
        BY <3>2 DEF SemCalls
      <4>2. QED
        BY <3>1, <3>2, <4>1 DEF SemCalls
    <3>4. /\ scall' \in [SemThreads -> SemCalls] /\ scall'[t] = NoCall /\ scall'[w] = c
          /\ \A u \in SemThreads : u # t /\ u # w => scall'[u] = scall[u]
      BY <2>4, <3>2, <3>3
    <3>5. SemWoken(i) \ {t} \subseteq SemWoken(i)' /\ w \in SemWoken(i)' /\ w \notin SemWoken(i)
          /\ SemSleepers(i)' \subseteq SemSleepers(i)
      BY <2>3, <3>2, <3>3, <3>4 DEF SemWoken, SemSleepers, OnSem
    <3>6. ASSUME s.magic, \E u \in SemSleepers(i)' : scall'[u].life = s.life
          PROVE  s.value <= Cardinality(SemWoken(i)')
      <4>1. sem[i].value <= Cardinality(SemWoken(i))
        <5>1. \A u \in SemSleepers(i)' : scall'[u] = scall[u] \/ u = w
          BY <3>4, <2>3 DEF SemSleepers, OnSem
        <5>2. w \notin SemSleepers(i)'
          BY <3>3, <3>4 DEF SemSleepers
        <5>3. \E u \in SemSleepers(i) : scall[u].life = sem[i].life
          BY <2>2, <3>5, <3>6, <5>1, <5>2
        <5>4. QED
          BY <2>2, <3>6, <5>3 DEF SemIInv
      <4>2. t \notin SemWoken(i)
        BY <1>t, <2>1 DEF SemWoken, SemTypes, SemCallOK, SemWaits
      <4>3. SemWoken(i) \cup {w} \in SUBSET SemWoken(i)' /\ SemWoken(i)' \in SUBSET SemThreads /\ SemWoken(i) \in SUBSET SemThreads
        BY <3>2, <3>5, <4>2 DEF SemWoken
      <4>4. Cardinality(SemWoken(i) \cup {w}) = Cardinality(SemWoken(i)) + 1 /\ Cardinality(SemWoken(i)) \in Nat
        BY <3>5, <4>3, SemCount
      <4>5. Cardinality(SemWoken(i) \cup {w}) <= Cardinality(SemWoken(i)') /\ Cardinality(SemWoken(i)') \in Nat
        BY <4>3, SemCount
      <4>6. QED
        BY <2>1, <2>2, <4>1, <4>4, <4>5
    <3>7. scall[w].life <= sem[i].life
      BY <3>2 DEF SemIInv
    <3>8. \A u \in SemThreads : scall'[u] # scall[u] =>
            /\ scall[u].at = "idle" \/ scall[u].slot = i
            /\ scall'[u].at = "idle" \/ (scall'[u].slot = i /\ scall'[u].life <= s.life)
      BY <2>0, <2>2, <2>3, <3>2, <3>3, <3>4, <3>7
    <3>9. SemCallOK(NoCall) /\ SemCallOK(scall'[w])
      <4>1. scall[w].op \in SemWaits
        BY <1>t, <3>2 DEF SemTypes, SemCallOK
      <4>2. scall'[w].op = scall[w].op
        BY <2>4, <3>1, <3>2 DEF SemCalls
      <4>3. QED
        BY <2>3, <3>3, <3>4, <4>1, <4>2 DEF SemCallOK
    <3>10. \A u \in SemThreads : SemCallOK(scall'[u])
      BY <1>t, <3>4, <3>9 DEF SemTypes
    <3>11. QED
      BY <2>2, <2>6, <3>4, <3>6, <3>8, <3>10, SemSlotChange
  <2>9. QED
    BY <2>7, <2>8
<1>6. CASE sem_destroy(t)
  <2>0. PICK i \in SemSlots : i = scall[t].slot
    BY <1>6, <1>c DEF sem_destroy, Here
  <2>1. sem[i] \in SemRecs /\ sem[i].life \in Nat /\ scall[t].at \in {"enter", "woken", "late"}
    BY <1>6, <1>t DEF SemTypes, SemRecs, sem_destroy, Here
  <2>2. PICK s \in SemRecs : sem' = [sem EXCEPT ![i] = s] /\ s.life = sem[i].life /\ s.magic = FALSE
    <3>1. [sem[i] EXCEPT !.magic = FALSE] \in SemRecs
      BY <2>1 DEF SemRecs
    <3>2. sem' = [sem EXCEPT ![i] = [sem[i] EXCEPT !.magic = FALSE]]
      BY <1>6, <2>0 DEF sem_destroy
    <3>3. QED
      BY <2>1, <3>1, <3>2 DEF SemRecs
  <2>3. scall' = [w \in SemThreads |->
                     IF w = t THEN [scall[t] EXCEPT !.at = "free"]
                     ELSE IF w \in SemSleepers(i) THEN [scall[w] EXCEPT !.at = "woken"] ELSE scall[w]]
    BY <1>6, <2>0 DEF sem_destroy
  <2>4. ASSUME NEW u \in SemThreads, NEW at \in {"free", "woken"}
        PROVE  LET c == [scall[u] EXCEPT !.at = at]
               IN  c \in SemCalls /\ c.at = at /\ c.slot = scall[u].slot /\ c.life = scall[u].life /\ c.op = scall[u].op
    BY <1>t DEF SemTypes, SemCalls
  <2>5. ASSUME NEW u \in SemThreads
        PROVE  /\ scall'[u] \in SemCalls /\ SemCallOK(scall'[u])
               /\ scall'[u] # scall[u] => (scall[u].at = "idle" \/ scall[u].slot = i)
                    /\ (scall'[u].at = "idle" \/ (scall'[u].slot = i /\ scall'[u].life <= s.life))
    <3>1. scall[u] \in SemCalls /\ SemCallOK(scall[u]) /\ (scall[u].at # "idle" => scall[u].life <= sem[scall[u].slot].life)
      BY <1>t DEF SemTypes, SemIInv
    <3>2. CASE u = t
      BY <1>c, <2>0, <2>1, <2>2, <2>3, <2>4, <3>1, <3>2 DEF SemCallOK
    <3>3. CASE u # t /\ u \in SemSleepers(i)
      BY <2>2, <2>3, <2>4, <3>1, <3>3 DEF SemCallOK, SemSleepers, OnSem
    <3>4. CASE u # t /\ u \notin SemSleepers(i)
      BY <2>3, <3>1, <3>4
    <3>5. QED
      BY <3>2, <3>3, <3>4
  <2>6. scall' \in [SemThreads -> SemCalls]
    BY <2>3, <2>5
  <2>7. s.life >= sem[i].life
    BY <2>1, <2>2
  <2>8. QED
    BY <2>2, <2>5, <2>6, <2>7, SemSlotChange
<1>7. CASE sem_free(t)
  <2>0. PICK i \in SemSlots : i = scall[t].slot
    BY <1>7, <1>c DEF sem_free
  <2>1. sem[i] \in SemRecs /\ sem[i].life \in Nat /\ scall[t].at = "free"
    BY <1>7, <1>t DEF SemTypes, SemRecs, sem_free
  <2>2. PICK s \in SemRecs : sem' = [sem EXCEPT ![i] = s] /\ s.life = sem[i].life /\ s.magic = sem[i].magic /\ s.value = sem[i].value
    <3>1. [sem[i] EXCEPT !.in_use = FALSE] \in SemRecs
      BY <2>1 DEF SemRecs
    <3>2. sem' = [sem EXCEPT ![i] = [sem[i] EXCEPT !.in_use = FALSE]]
      BY <1>7, <2>0 DEF sem_free
    <3>3. QED
      BY <2>1, <3>1, <3>2 DEF SemRecs
  <2>3. NoCall \in SemCalls /\ NoCall.at = "idle" /\ SemCallOK(NoCall) /\ scall' = [scall EXCEPT ![t] = NoCall]
    BY <1>7 DEF NoCall, SemCalls, SemCallOK, sem_free, SemReturns
  <2>4. scall' \in [SemThreads -> SemCalls] /\ scall'[t] = NoCall /\ \A u \in SemThreads : u # t => scall'[u] = scall[u]
    BY <1>t, <2>3 DEF SemTypes
  <2>5. SemSleepers(i)' = SemSleepers(i) /\ SemWoken(i)' = SemWoken(i) /\ t \notin SemSleepers(i) /\ SemSleepers(i) \subseteq SemThreads
    BY <2>1, <2>3, <2>4 DEF SemSleepers, SemWoken, OnSem
  <2>6. s.magic /\ (\E u \in SemSleepers(i)' : scall'[u].life = s.life) => s.value <= Cardinality(SemWoken(i)')
    BY <2>2, <2>4, <2>5 DEF SemIInv
  <2>7. s.life >= sem[i].life
    BY <2>1, <2>2
  <2>8. \A u \in SemThreads : SemCallOK(scall'[u])
    BY <1>t, <2>3, <2>4 DEF SemTypes
  <2>9. \A u \in SemThreads : scall'[u] # scall[u] =>
            /\ scall[u].at = "idle" \/ scall[u].slot = i
            /\ scall'[u].at = "idle" \/ (scall'[u].slot = i /\ scall'[u].life <= s.life)
    BY <2>0, <2>3, <2>4
  <2>10. QED
    BY <2>2, <2>4, <2>6, <2>7, <2>8, <2>9, SemSlotChange
<1>8. CASE sem_cond(t)
  <2>1. PICK how \in {"woken", "late"} : scall' = [scall EXCEPT ![t].at = how]
    BY <1>8 DEF sem_cond
  <2>2. scall[t].at = "asleep" /\ UNCHANGED sem
    BY <1>8 DEF sem_cond
  <2>3. PICK c \in SemCalls : scall' = [scall EXCEPT ![t] = c] /\ c.at = how /\ c.slot = scall[t].slot
                               /\ c.life = scall[t].life /\ c.op = scall[t].op
    <3>1. [scall[t] EXCEPT !.at = how] \in SemCalls
      BY <1>c DEF SemCalls
    <3>2. QED
      BY <1>c, <2>1, <3>1 DEF SemCalls
  <2>4. SemCallOK(c)
    BY <1>t, <2>2, <2>3 DEF SemCallOK, SemTypes
  <2>5. QED
    BY <2>2, <2>3, <2>4, SemMoves
<1>9. QED
  BY <1>2, <1>3, <1>4, <1>5, <1>6, <1>7, <1>8

\* A sleeper of the present life is all that SemNoLostPost needs.
LEMMA SemInvServes == SemIInv => SemNoLostPost
  BY DEF SemIInv, SemNoLostPost, OwnLife, SemSleepers

-----------------------------------------------------------------------------
(* Kernel semaphores.  KsemServed is what KsemWaitersServed says of one    *)
(* slot; it holds again after every section of a call of the slot's present*)
(* life, and a section of an older call takes the slot out of it (strayed).*)
KsemRecs == {r \in [in_use : BOOLEAN, magic : BOOLEAN, current_count : Nat, init_count : Nat, max_count : Nat,
                     num_waiters : Int, life : Nat, set : BOOLEAN] : r.init_count <= r.max_count}
KsemAsleep == {"asleep", "woken", "late"}
KsemCalls == [at : {"idle", "enter", "free"} \cup KsemAsleep,
              op : {"none", "wait", "poll", "signal", "cancel", "delete"}, slot : KsemSlots \cup {0}, life : Nat,
              n : Int, timed : BOOLEAN]
KsemCallOK(c) ==
  c.at # "idle" => /\ c.slot \in KsemSlots
                   /\ c.at \in KsemAsleep => c.op = "wait"
                   /\ c.op \in {"wait", "poll", "signal"} => c.n > 0
KsemTypes ==
  /\ ksem \in [KsemSlots -> KsemRecs] /\ kcall \in [KsemThreads -> KsemCalls]
  /\ \A t \in KsemThreads : KsemCallOK(kcall[t])
KsemOwn(i) == {t \in KsemWaiters(i) : kcall[t].life = ksem[i].life}
KsemServed(i) ==
  ksem[i].magic => /\ \A t \in KsemSleepers(i) : t \in KsemOwn(i) => ksem[i].current_count < kcall[t].n
                   /\ ksem[i].num_waiters = Cardinality(KsemOwn(i))
                   /\ ksem[i].current_count >= 0
                   /\ ksem[i].current_count <= ksem[i].max_count \/ ksem[i].set
KsemIInv ==
  /\ KsemTypes
  /\ \A t \in KsemThreads : kcall[t].at # "idle" => kcall[t].life <= ksem[kcall[t].slot].life
  /\ \A i \in KsemSlots \ strayed : KsemServed(i)

\* The invariant says KsemWaitersServed slot by slot.
LEMMA KsemInvServes == KsemIInv => KsemWaitersServed
  BY DEF KsemIInv, KsemWaitersServed, KsemServed, KsemOwn

\* No semaphore exists and no call is made.
LEMMA KsemInitInv == KsemInit => KsemIInv
<1> SUFFICES ASSUME KsemInit PROVE KsemIInv
  OBVIOUS
<1>1. NoKsemCall \in KsemCalls /\ NoKsemCall.at = "idle" /\ KsemCallOK(NoKsemCall)
  BY DEF NoKsemCall, KsemCalls, KsemCallOK, KsemAsleep
<1>2. KsemTypes /\ (\A t \in KsemThreads : kcall[t].at = "idle")
  BY <1>1 DEF KsemInit, KsemTypes, KsemRecs
<1>3. \A i \in KsemSlots : ~ksem[i].magic
  BY DEF KsemInit
<1>4. QED
  BY <1>2, <1>3 DEF KsemIInv, KsemServed

\* Counting the threads that wait for a semaphore.
LEMMA KsemCount ==
  ASSUME NEW S \in SUBSET KsemThreads
  PROVE  /\ Cardinality(S) \in Nat
         /\ \A t : t \in S => Cardinality(S \ {t}) = Cardinality(S) - 1
         /\ \A t : t \notin S => Cardinality(S \cup {t}) = Cardinality(S) + 1
<1>1. IsFiniteSet(S)
  BY KsemFinite, FS_Subset
<1>2. QED
  BY <1>1, FS_CardinalityType, FS_RemoveElement, FS_AddElement, FS_Subset

\* What happens in the section of slot i concerns the calls on slot i only.
LEMMA KsemSlotChange ==
  ASSUME KsemIInv, NEW i \in KsemSlots, NEW s \in KsemRecs, ksem' = [ksem EXCEPT ![i] = s],
         s.life >= ksem[i].life, kcall' \in [KsemThreads -> KsemCalls],
         \A t \in KsemThreads : KsemCallOK(kcall'[t]),
         \A t \in KsemThreads : kcall'[t] # kcall[t] =>
            /\ kcall[t].at = "idle" \/ kcall[t].slot = i
            /\ kcall'[t].at = "idle" \/ (kcall'[t].slot = i /\ kcall'[t].life <= s.life),
         strayed \subseteq strayed', i \notin strayed' => KsemServed(i)'
  PROVE  KsemIInv'
<1>1. ksem'[i] = s /\ ksem' \in [KsemSlots -> KsemRecs] /\ \A j \in KsemSlots : j # i => ksem'[j] = ksem[j]
  BY DEF KsemIInv, KsemTypes
<1>2. KsemTypes'
  BY <1>1 DEF KsemTypes
<1>3. ASSUME NEW t \in KsemThreads, kcall'[t].at # "idle" PROVE kcall'[t].life <= ksem'[kcall'[t].slot].life
  <2>1. CASE kcall'[t] # kcall[t]
    BY <1>1, <1>3, <2>1
  <2>2. CASE kcall'[t] = kcall[t]
    <3>1. kcall[t].life <= ksem[kcall[t].slot].life /\ kcall[t].slot \in KsemSlots /\ kcall[t].life \in Nat
      BY <1>3, <2>2 DEF KsemIInv, KsemTypes, KsemCalls, KsemCallOK
    <3>2. ksem[i].life \in Nat /\ s.life \in Nat
      BY DEF KsemIInv, KsemTypes, KsemRecs
    <3>3. QED
      BY <1>1, <2>2, <3>1, <3>2
  <2>3. QED
    BY <2>1, <2>2
<1>4. ASSUME NEW j \in KsemSlots, j # i, j \notin strayed' PROVE KsemServed(j)'
  <2>1. KsemServed(j) /\ ksem'[j] = ksem[j]
    BY <1>1, <1>4 DEF KsemIInv
  <2>2. \A t \in KsemThreads : (OnKsem(t, j) \/ OnKsem(t, j)') => kcall'[t] = kcall[t]
    BY <1>4 DEF OnKsem
  <2>3. KsemSleepers(j)' = KsemSleepers(j) /\ KsemWaiters(j)' = KsemWaiters(j)
        /\ \A t \in KsemWaiters(j) : kcall'[t] = kcall[t]
    BY <2>2 DEF KsemSleepers, KsemWaiters, OnKsem
  <2>4. KsemOwn(j)' = KsemOwn(j)
    BY <2>1, <2>3 DEF KsemOwn
  <2>5. QED
    BY <2>1, <2>3, <2>4 DEF KsemServed, KsemOwn
<1>5. QED
  BY <1>2, <1>3, <1>4 DEF KsemIInv

\* What the call of t becomes.
LEMMA KsemAfterTyped ==
  ASSUME KsemIInv, NEW t \in KsemThreads, kcall[t].at # "idle", NEW at \in {"idle", "free"} \cup KsemAsleep,
         at \in KsemAsleep => kcall[t].op = "wait", NEW calls, calls = KsemAfter(t, at)
  PROVE  /\ calls \in [KsemThreads -> KsemCalls] /\ calls[t].at = at
         /\ KsemCallOK(calls[t]) /\ \A u \in KsemThreads : u # t => calls[u] = kcall[u]
         /\ at # "idle" => /\ calls[t].slot = kcall[t].slot /\ calls[t].life = kcall[t].life
                           /\ calls[t].n = kcall[t].n
<1>1. kcall[t] \in KsemCalls /\ KsemCallOK(kcall[t]) /\ kcall \in [KsemThreads -> KsemCalls]
  BY DEF KsemIInv, KsemTypes
<1>2. NoKsemCall \in KsemCalls /\ NoKsemCall.at = "idle" /\ KsemCallOK(NoKsemCall)
  BY DEF NoKsemCall, KsemCalls, KsemCallOK, KsemAsleep
<1> DEFINE c == [kcall[t] EXCEPT !.at = at]
<1>3. /\ c \in KsemCalls /\ c.at = at /\ c.slot = kcall[t].slot /\ c.life = kcall[t].life
      /\ c.n = kcall[t].n /\ c.op = kcall[t].op
  BY <1>1 DEF KsemCalls, KsemAsleep
<1>4. KsemCallOK(c)
  BY <1>1, <1>3 DEF KsemCallOK
<1> DEFINE d == IF at = "idle" THEN NoKsemCall ELSE c
<1>5. calls = [kcall EXCEPT ![t] = d]
  BY DEF KsemAfter
<1>6. d \in KsemCalls /\ d.at = at /\ KsemCallOK(d) /\ (at # "idle" => d = c)
  BY <1>2, <1>3, <1>4
<1> HIDE DEF c, d
<1>7. calls \in [KsemThreads -> KsemCalls] /\ calls[t] = d /\ \A u \in KsemThreads : u # t => calls[u] = kcall[u]
  BY <1>1, <1>5, <1>6
<1>8. QED
  BY <1>3, <1>6, <1>7

\* A section after which t's call goes on at "at" and nobody is woken: the
\* count went down by what t took, and num_waiters follows t.
LEMMA KsemOneMoves ==
  ASSUME KsemIInv, NEW t \in KsemThreads, NEW i \in KsemSlots, kcall[t].slot = i,
         kcall[t].at \notin {"idle", "asleep"},
         NEW at \in {"idle", "free"} \cup KsemAsleep, at \in KsemAsleep => kcall[t].op = "wait",
         NEW s \in KsemRecs, KsemSection(t, s, KsemAfter(t, at)),
         s.life = ksem[i].life, s.magic = ksem[i].magic, s.max_count = ksem[i].max_count, s.set = ksem[i].set,
         s.current_count <= ksem[i].current_count, at = "asleep" => s.current_count < kcall[t].n,
         kcall[t].at \in KsemAsleep /\ at \in KsemAsleep => s.num_waiters = ksem[i].num_waiters,
         kcall[t].at \in KsemAsleep /\ at \notin KsemAsleep => s.num_waiters = ksem[i].num_waiters - 1,
         kcall[t].at \notin KsemAsleep /\ at \in KsemAsleep => s.num_waiters = ksem[i].num_waiters + 1,
         kcall[t].at \notin KsemAsleep /\ at \notin KsemAsleep => s.num_waiters = ksem[i].num_waiters
  PROVE  KsemIInv'
<1>1. /\ ksem' = [ksem EXCEPT ![i] = s] /\ kcall' = KsemAfter(t, at)
      /\ strayed' = IF kcall[t].life = ksem[i].life THEN strayed ELSE strayed \cup {i}
  BY DEF KsemSection
<1>2. /\ kcall' \in [KsemThreads -> KsemCalls] /\ kcall'[t].at = at
      /\ KsemCallOK(kcall'[t]) /\ \A u \in KsemThreads : u # t => kcall'[u] = kcall[u]
      /\ at # "idle" => /\ kcall'[t].slot = kcall[t].slot /\ kcall'[t].life = kcall[t].life
                        /\ kcall'[t].n = kcall[t].n
  <2>1. kcall[t].at # "idle"
    OBVIOUS
  <2>2. QED
    BY <1>1, <2>1, KsemAfterTyped
<1>3. ksem'[i] = s /\ ksem[i] \in KsemRecs /\ ksem[i].current_count \in Nat /\ s.current_count \in Nat
      /\ ksem[i].max_count \in Nat /\ ksem[i].num_waiters \in Int /\ s.life \in Nat
  BY <1>1 DEF KsemIInv, KsemTypes, KsemRecs
<1>4. ASSUME i \notin strayed', s.magic PROVE KsemServed(i)'
  <2>1. kcall[t].life = ksem[i].life /\ i \notin strayed
    BY <1>1, <1>4
  <2>2. KsemServed(i) /\ ksem[i].magic
    BY <1>4, <2>1 DEF KsemIInv
  <2>3. KsemOwn(i) \in SUBSET KsemThreads
    BY DEF KsemOwn, KsemWaiters
  <2>4. t \in KsemOwn(i) <=> kcall[t].at \in KsemAsleep
    BY <2>1 DEF KsemOwn, KsemWaiters, OnKsem, KsemAsleep
  <2>5. KsemOwn(i)' = IF at \in KsemAsleep THEN KsemOwn(i) \cup {t} ELSE KsemOwn(i) \ {t}
    BY <1>2, <1>3, <2>1 DEF KsemOwn, KsemWaiters, OnKsem, KsemAsleep
  <2>6. s.num_waiters = Cardinality(KsemOwn(i)')
    <3>1. ksem[i].num_waiters = Cardinality(KsemOwn(i)) /\ Cardinality(KsemOwn(i)) \in Nat
      BY <2>2, <2>3, KsemCount DEF KsemServed
    <3>2. CASE kcall[t].at \in KsemAsleep /\ at \in KsemAsleep
      <4>1. KsemOwn(i)' = KsemOwn(i)
        BY <2>4, <2>5, <3>2
      <4>2. QED
        BY <3>1, <3>2, <4>1
    <3>3. CASE kcall[t].at \in KsemAsleep /\ at \notin KsemAsleep
      BY <2>3, <2>4, <2>5, <3>1, <3>3, KsemCount
    <3>4. CASE kcall[t].at \notin KsemAsleep /\ at \in KsemAsleep
      BY <2>3, <2>4, <2>5, <3>1, <3>4, KsemCount
    <3>5. CASE kcall[t].at \notin KsemAsleep /\ at \notin KsemAsleep
      <4>1. KsemOwn(i)' = KsemOwn(i)
        BY <2>4, <2>5, <3>5
      <4>2. QED
        BY <3>1, <3>5, <4>1
    <3>6. QED
      BY <3>2, <3>3, <3>4, <3>5
  <2>7. ASSUME NEW u \in KsemSleepers(i)', u \in KsemOwn(i)' PROVE s.current_count < kcall'[u].n
    <3>1. CASE u = t
      BY <1>2, <2>7, <3>1 DEF KsemSleepers, OnKsem
    <3>2. CASE u # t
      <4>1. u \in KsemThreads /\ kcall'[u] = kcall[u] /\ u \in KsemSleepers(i) /\ u \in KsemOwn(i)
        BY <1>2, <1>3, <2>5, <2>7, <3>2 DEF KsemSleepers, OnKsem
      <4>2. ksem[i].current_count < kcall[u].n /\ kcall[u].n \in Int
        BY <2>2, <4>1 DEF KsemServed, KsemIInv, KsemTypes, KsemCalls
      <4>3. QED
        BY <1>3, <4>1, <4>2
    <3>3. QED
      BY <3>1, <3>2
  <2>8. s.current_count >= 0 /\ (s.current_count <= s.max_count \/ s.set)
    BY <1>3, <2>2 DEF KsemServed
  <2>9. QED
    BY <1>3, <2>6, <2>7, <2>8 DEF KsemServed
<1>5. i \notin strayed' => KsemServed(i)'
  BY <1>3, <1>4 DEF KsemServed
<1>6. kcall[t].life <= ksem[i].life
  BY DEF KsemIInv
<1>7. \A u \in KsemThreads : kcall'[u] # kcall[u] =>
            /\ kcall[u].at = "idle" \/ kcall[u].slot = i
            /\ kcall'[u].at = "idle" \/ (kcall'[u].slot = i /\ kcall'[u].life <= s.life)
  BY <1>2, <1>6
<1>8. \A u \in KsemThreads : KsemCallOK(kcall'[u])
  BY <1>2 DEF KsemIInv, KsemTypes
<1>9. s.life >= ksem[i].life /\ strayed \subseteq strayed'
  BY <1>1, <1>3
<1>10. QED
  BY <1>1, <1>2, <1>5, <1>7, <1>8, <1>9, KsemSlotChange

\* A section of an entering t that ends in a broadcast: nobody sleeps on the
\* slot, and who waited there still counts.
LEMMA KsemAllWake ==
  ASSUME KsemIInv, NEW t \in KsemThreads, NEW i \in KsemSlots, kcall[t].slot = i, kcall[t].at = "enter",
         NEW at \in {"idle", "free"}, NEW s \in KsemRecs, KsemSection(t, s, KsemBroadcast(t, at)),
         s.life = ksem[i].life, s.magic => ksem[i].magic, s.num_waiters = ksem[i].num_waiters,
         s.magic /\ KsemServed(i) => s.current_count <= s.max_count \/ s.set
  PROVE  KsemIInv'
<1> DEFINE after == KsemAfter(t, at)
<1>1. /\ ksem' = [ksem EXCEPT ![i] = s] /\ kcall' = KsemBroadcast(t, at)
      /\ strayed' = IF kcall[t].life = ksem[i].life THEN strayed ELSE strayed \cup {i}
  BY DEF KsemSection
<1>2. kcall' = [w \in KsemThreads |-> IF w \in KsemSleepers(i) THEN [kcall[w] EXCEPT !.at = "woken"] ELSE after[w]]
  BY <1>1 DEF KsemBroadcast
<1>3. /\ after \in [KsemThreads -> KsemCalls] /\ after[t].at = at
      /\ KsemCallOK(after[t]) /\ \A u \in KsemThreads : u # t => after[u] = kcall[u]
      /\ at # "idle" => after[t].slot = kcall[t].slot /\ after[t].life = kcall[t].life
  <2>1. kcall[t].at # "idle" /\ at \in {"idle", "free"} \cup KsemAsleep /\ (at \in KsemAsleep => kcall[t].op = "wait")
    BY DEF KsemAsleep
  <2> HIDE DEF after
  <2>2. QED
    BY <2>1, KsemAfterTyped DEF after
<1> HIDE DEF after
<1>4. ASSUME NEW u \in KsemThreads
      PROVE  LET c == [kcall[u] EXCEPT !.at = "woken"]
             IN  /\ c \in KsemCalls /\ c.at = "woken" /\ c.slot = kcall[u].slot /\ c.life = kcall[u].life
                 /\ c.op = kcall[u].op /\ c.n = kcall[u].n
  BY DEF KsemIInv, KsemTypes, KsemCalls, KsemAsleep
<1>5. ksem'[i] = s /\ ksem[i] \in KsemRecs /\ s.life \in Nat
  BY <1>1 DEF KsemIInv, KsemTypes, KsemRecs
<1>6. ASSUME NEW u \in KsemThreads
      PROVE  /\ kcall'[u] \in KsemCalls /\ KsemCallOK(kcall'[u])
             /\ kcall'[u] # kcall[u] => (kcall[u].at = "idle" \/ kcall[u].slot = i)
                  /\ (kcall'[u].at = "idle" \/ (kcall'[u].slot = i /\ kcall'[u].life <= s.life))
             /\ kcall[u].slot = i => kcall'[u].at # "asleep"
             /\ OnKsem(u, i)' /\ kcall'[u].at \in KsemAsleep <=> OnKsem(u, i) /\ kcall[u].at \in KsemAsleep
             /\ kcall[u].at \in KsemAsleep => kcall'[u].life = kcall[u].life
  <2>1. kcall[u] \in KsemCalls /\ KsemCallOK(kcall[u]) /\ (kcall[u].at # "idle" => kcall[u].life <= ksem[kcall[u].slot].life)
    BY DEF KsemIInv, KsemTypes
  <2>2. CASE u \in KsemSleepers(i)
    <3>1. kcall'[u] = [kcall[u] EXCEPT !.at = "woken"] /\ kcall[u].at = "asleep" /\ kcall[u].slot = i
      BY <1>2, <2>2 DEF KsemSleepers, OnKsem
    <3>2. KsemCallOK(kcall'[u])
      BY <1>4, <2>1, <3>1 DEF KsemCallOK, KsemAsleep
    <3>3. QED
      BY <1>4, <2>1, <3>1, <3>2 DEF OnKsem, KsemAsleep
  <2>3. CASE u \notin KsemSleepers(i) /\ u # t
    <3>1. kcall'[u] = kcall[u] /\ ~(kcall[u].at = "asleep" /\ kcall[u].slot = i)
      BY <1>2, <1>3, <2>3 DEF KsemSleepers, OnKsem
    <3>2. QED
      BY <2>1, <3>1 DEF OnKsem
  <2>4. CASE u = t
    <3>1. kcall'[t] = after[t]
      BY <1>2 DEF KsemSleepers
    <3>2. QED
      BY <1>3, <2>1, <2>4, <3>1 DEF OnKsem, KsemAsleep
  <2>5. QED
    BY <2>2, <2>3, <2>4
<1>7. KsemSleepers(i)' = {} /\ KsemWaiters(i)' = KsemWaiters(i)
  <2>1. ASSUME NEW u \in KsemSleepers(i)' PROVE FALSE
    <3>1. u \in KsemThreads /\ OnKsem(u, i)' /\ kcall'[u].at = "asleep"
      BY <2>1 DEF KsemSleepers
    <3>2. OnKsem(u, i)
      BY <1>6, <3>1 DEF KsemAsleep
    <3>3. QED
      BY <1>6, <3>1, <3>2 DEF OnKsem
  <2>2. KsemWaiters(i)' = KsemWaiters(i)
    BY <1>6 DEF KsemWaiters, KsemAsleep
  <2>3. QED
    BY <2>1, <2>2
<1>8. ASSUME i \notin strayed', s.magic PROVE KsemServed(i)'
  <2>1. KsemServed(i) /\ ksem[i].magic
    BY <1>1, <1>8 DEF KsemIInv
  <2>2. KsemOwn(i)' = KsemOwn(i)
    BY <1>5, <1>6, <1>7 DEF KsemOwn, KsemWaiters, KsemAsleep
  <2>3. s.num_waiters = Cardinality(KsemOwn(i)') /\ (s.current_count <= s.max_count \/ s.set)
    BY <1>8, <2>1, <2>2 DEF KsemServed
  <2>4. s.current_count >= 0
    BY DEF KsemRecs
  <2>5. QED
    BY <1>5, <1>7, <2>3, <2>4 DEF KsemServed
<1>9. i \notin strayed' => KsemServed(i)'
  BY <1>5, <1>8 DEF KsemServed
<1>10. kcall' \in [KsemThreads -> KsemCalls]
  BY <1>2, <1>6
<1>11. s.life >= ksem[i].life /\ strayed \subseteq strayed'
  BY <1>1, <1>5
<1>12. QED
  BY <1>1, <1>6, <1>9, <1>10, <1>11, KsemSlotChange

\* The records the sections write.
LEMMA KsemCountChange ==
  ASSUME NEW r \in KsemRecs, NEW c \in Nat, NEW s, s = [r EXCEPT !.current_count = c]
  PROVE  s \in KsemRecs /\ s.current_count = c /\ s.life = r.life /\ s.magic = r.magic
         /\ s.max_count = r.max_count /\ s.set = r.set /\ s.num_waiters = r.num_waiters
  BY DEF KsemRecs
\* ... of the count, and of num_waiters.
LEMMA KsemWaitersChange ==
  ASSUME NEW r \in KsemRecs, NEW w \in Int, NEW s, s = [r EXCEPT !.num_waiters = w]
  PROVE  s \in KsemRecs /\ s.num_waiters = w /\ s.life = r.life /\ s.magic = r.magic
         /\ s.max_count = r.max_count /\ s.set = r.set /\ s.current_count = r.current_count
  BY DEF KsemRecs

\* Every call of the kernel semaphores keeps the invariant.
LEMMA KsemStepInv == KsemIInv /\ [KsemNext]_ksem_vars => KsemIInv'
<1> SUFFICES ASSUME KsemIInv, [KsemNext]_ksem_vars PROVE KsemIInv'
  OBVIOUS
<1>t. KsemTypes
  BY DEF KsemIInv
<1>0. CASE UNCHANGED ksem_vars
  BY <1>0 DEF KsemIInv, KsemTypes, KsemServed, KsemSleepers, KsemOwn, KsemWaiters, OnKsem, ksem_vars
<1> SUFFICES ASSUME NEW t \in KsemThreads,
                    \/ sceKernelCreateSema(t) \/ get_ksem(t) \/ sceKernelWaitSema(t) \/ wait_sema_woken(t) \/ wait_sema_late(t)
                    \/ sceKernelPollSema(t) \/ sceKernelSignalSema(t) \/ sceKernelCancelSema(t) \/ sceKernelDeleteSema(t)
                    \/ delete_sema_slot(t) \/ ksem_cond(t)
             PROVE  KsemIInv'
  BY <1>0 DEF KsemNext
<1>c. /\ kcall[t] \in KsemCalls /\ KsemCallOK(kcall[t]) /\ kcall[t].n \in Int
      /\ kcall[t].at # "idle" => kcall[t].slot \in KsemSlots /\ ksem[kcall[t].slot] \in KsemRecs
  BY <1>t DEF KsemTypes, KsemCallOK, KsemCalls
<1> DEFINE r == ksem[kcall[t].slot]
           n == kcall[t].n
<1>1. CASE sceKernelCreateSema(t)
  <2>1. PICK i \in KsemSlots, max \in 1..KsemMax : \E init \in 0..max :
          ksem' = [ksem EXCEPT ![i] = [in_use |-> TRUE, magic |-> TRUE, current_count |-> init,
                     init_count |-> init, max_count |-> max, num_waiters |-> 0, life |-> @.life + 1, set |-> FALSE]]
    BY <1>1 DEF sceKernelCreateSema
  <2>i. PICK init \in 0..max :
          ksem' = [ksem EXCEPT ![i] = [in_use |-> TRUE, magic |-> TRUE, current_count |-> init,
                     init_count |-> init, max_count |-> max, num_waiters |-> 0, life |-> @.life + 1, set |-> FALSE]]
    BY <2>1
  <2>2. ksem[i].life \in Nat /\ init \in Nat /\ max \in Nat /\ init <= max /\ UNCHANGED <<kcall, strayed>>
    BY <1>1, <1>t DEF KsemTypes, KsemRecs, sceKernelCreateSema
  <2> DEFINE s == [in_use |-> TRUE, magic |-> TRUE, current_count |-> init, init_count |-> init, max_count |-> max,
                   num_waiters |-> 0, life |-> ksem[i].life + 1, set |-> FALSE]
  <2>3. s \in KsemRecs /\ ksem' = [ksem EXCEPT ![i] = s] /\ s.life = ksem[i].life + 1 /\ s.num_waiters = 0
        /\ s.current_count = init /\ s.max_count = max
    BY <1>t, <2>i, <2>2 DEF KsemRecs, KsemTypes
  <2> HIDE DEF s
  <2>4. ksem'[i] = s
    BY <1>t, <2>3 DEF KsemTypes
  <2>5. KsemOwn(i)' = {}
    <3>1. ASSUME NEW u \in KsemThreads, OnKsem(u, i)' PROVE kcall'[u].life # s.life
      <4>1. kcall[u].at # "idle" /\ kcall[u].slot = i /\ kcall'[u] = kcall[u]
        BY <2>2, <3>1 DEF OnKsem
      <4>2. kcall[u].life <= ksem[i].life /\ kcall[u].life \in Nat
        BY <1>t, <4>1 DEF KsemIInv, KsemTypes, KsemCalls
      <4>3. QED
        BY <2>2, <2>3, <4>1, <4>2
    <3>2. QED
      BY <2>4, <3>1 DEF KsemOwn, KsemWaiters
  <2>6. KsemServed(i)'
    BY <2>2, <2>3, <2>4, <2>5, FS_EmptySet DEF KsemServed
  <2>7. s.life >= ksem[i].life /\ strayed \subseteq strayed'
    BY <2>2, <2>3
  <2>8. kcall' \in [KsemThreads -> KsemCalls] /\ \A u \in KsemThreads : KsemCallOK(kcall'[u])
    BY <1>t, <2>2 DEF KsemTypes
  <2>9. QED
    BY <2>2, <2>3, <2>6, <2>7, <2>8, KsemSlotChange
<1>2. CASE get_ksem(t)
  <2>1. PICK i \in KsemSlots, op \in {"wait", "poll", "signal", "cancel", "delete"}, m \in -1..KsemMax, timed \in BOOLEAN :
          /\ op \in {"wait", "poll", "signal"} => m > 0
          /\ kcall' = [kcall EXCEPT ![t] = [at |-> "enter", op |-> op, slot |-> i, life |-> ksem[i].life,
                                            n |-> m, timed |-> timed]]
    BY <1>2 DEF get_ksem
  <2>2. ksem[i] \in KsemRecs /\ ksem[i].life \in Nat /\ kcall[t].at = "idle" /\ UNCHANGED <<ksem, strayed>> /\ m \in Int
    BY <1>2, <1>t DEF get_ksem, KsemTypes, KsemRecs
  <2> DEFINE c == [at |-> "enter", op |-> op, slot |-> i, life |-> ksem[i].life, n |-> m, timed |-> timed]
  <2>3. c \in KsemCalls /\ KsemCallOK(c) /\ c.at = "enter" /\ c.slot = i /\ c.life = ksem[i].life
    BY <2>1, <2>2 DEF KsemCalls, KsemCallOK, KsemAsleep
  <2>4. kcall' = [kcall EXCEPT ![t] = c]
    BY <2>1
  <2> HIDE DEF c
  <2>5. kcall' \in [KsemThreads -> KsemCalls] /\ kcall'[t] = c /\ \A u \in KsemThreads : u # t => kcall'[u] = kcall[u]
    BY <1>t, <2>3, <2>4 DEF KsemTypes
  <2>6. /\ KsemSleepers(i)' = KsemSleepers(i) /\ KsemOwn(i)' = KsemOwn(i)
        /\ \A u \in KsemSleepers(i) : kcall'[u] = kcall[u]
    BY <2>2, <2>3, <2>5 DEF KsemSleepers, KsemOwn, KsemWaiters, OnKsem
  <2>7. i \notin strayed' => KsemServed(i)'
    BY <2>2, <2>6 DEF KsemIInv, KsemServed
  <2>8. ksem' = [ksem EXCEPT ![i] = ksem[i]] /\ ksem[i].life >= ksem[i].life /\ strayed \subseteq strayed'
    BY <1>t, <2>2 DEF KsemTypes
  <2>9. \A u \in KsemThreads : KsemCallOK(kcall'[u])
    BY <1>t, <2>3, <2>5 DEF KsemTypes
  <2>10. \A u \in KsemThreads : kcall'[u] # kcall[u] =>
            /\ kcall[u].at = "idle" \/ kcall[u].slot = i
            /\ kcall'[u].at = "idle" \/ (kcall'[u].slot = i /\ kcall'[u].life <= ksem[i].life)
    BY <2>2, <2>3, <2>5
  <2>11. QED
    BY <2>2, <2>5, <2>7, <2>8, <2>9, <2>10, KsemSlotChange
<1>3. CASE sceKernelWaitSema(t)
  <2>0. PICK i \in KsemSlots : i = kcall[t].slot
    BY <1>3, <1>c DEF sceKernelWaitSema, Entering
  <2>1. /\ kcall[t].slot = i /\ kcall[t].at = "enter" /\ kcall[t].op = "wait" /\ n > 0 /\ ksem[i] \in KsemRecs
        /\ kcall[t].at \notin {"idle", "asleep"} /\ kcall[t].at \notin KsemAsleep
    BY <1>3, <1>c, <2>0 DEF sceKernelWaitSema, Entering, KsemCallOK, KsemAsleep
  <2>2. ksem[i].current_count \in Nat /\ ksem[i].num_waiters \in Int
    BY <2>1 DEF KsemRecs
  <2>3. \/ ksem[i].current_count >= n /\ KsemSection(t, [ksem[i] EXCEPT !.current_count = ksem[i].current_count - n], KsemAfter(t, "idle"))
        \/ KsemSection(t, ksem[i], KsemAfter(t, "idle"))
        \/ /\ ksem[i].current_count < n
           /\ KsemSection(t, [ksem[i] EXCEPT !.num_waiters = ksem[i].num_waiters + 1], KsemAfter(t, "asleep"))
    BY <1>3, <2>0 DEF sceKernelWaitSema
  <2>4. "idle" \in {"idle", "free"} \cup KsemAsleep /\ "idle" \notin KsemAsleep /\ "asleep" \in KsemAsleep
    BY DEF KsemAsleep
  <2>5. CASE ksem[i].current_count >= n /\ KsemSection(t, [ksem[i] EXCEPT !.current_count = ksem[i].current_count - n], KsemAfter(t, "idle"))
    <3>1. ksem[i].current_count - n \in Nat /\ ksem[i].current_count - n <= ksem[i].current_count
      BY <1>c, <2>1, <2>2, <2>5
    <3> DEFINE s == [ksem[i] EXCEPT !.current_count = ksem[i].current_count - n]
    <3>2. /\ s \in KsemRecs
          /\ s = [ksem[i] EXCEPT !.current_count = ksem[i].current_count - n]
          /\ s.current_count = ksem[i].current_count - n /\ s.life = ksem[i].life
          /\ s.magic = ksem[i].magic /\ s.max_count = ksem[i].max_count /\ s.set = ksem[i].set
          /\ s.num_waiters = ksem[i].num_waiters
      BY <2>1, <2>2, <3>1, KsemCountChange
    <3> HIDE DEF s
    <3>3. KsemSection(t, s, KsemAfter(t, "idle"))
      BY <2>5, <3>2
    <3>4. QED
      BY <2>1, <2>4, <3>1, <3>2, <3>3, KsemOneMoves
  <2>6. CASE KsemSection(t, ksem[i], KsemAfter(t, "idle"))
    <3>1. ksem[i].current_count <= ksem[i].current_count
      BY <2>2
    <3>2. QED
      BY <2>1, <2>4, <2>6, <3>1, KsemOneMoves
  <2>7. CASE ksem[i].current_count < n
             /\ KsemSection(t, [ksem[i] EXCEPT !.num_waiters = ksem[i].num_waiters + 1], KsemAfter(t, "asleep"))
    <3>1. ksem[i].num_waiters + 1 \in Int /\ ksem[i].current_count <= ksem[i].current_count
      BY <2>2
    <3> DEFINE s == [ksem[i] EXCEPT !.num_waiters = ksem[i].num_waiters + 1]
    <3>2. /\ s \in KsemRecs
          /\ s = [ksem[i] EXCEPT !.num_waiters = ksem[i].num_waiters + 1]
          /\ s.current_count = ksem[i].current_count /\ s.life = ksem[i].life
          /\ s.magic = ksem[i].magic /\ s.max_count = ksem[i].max_count /\ s.set = ksem[i].set
          /\ s.num_waiters = ksem[i].num_waiters + 1
      BY <2>1, <2>2, <3>1, KsemWaitersChange
    <3> HIDE DEF s
    <3>3. KsemSection(t, s, KsemAfter(t, "asleep"))
      BY <2>7, <3>2
    <3>4. QED
      BY <2>1, <2>4, <2>7, <3>1, <3>2, <3>3, KsemOneMoves
  <2>8. QED
    BY <2>3, <2>5, <2>6, <2>7
<1>4. CASE wait_sema_woken(t) \/ wait_sema_late(t)
  <2>0. PICK i \in KsemSlots : i = kcall[t].slot
    BY <1>4, <1>c DEF wait_sema_woken, wait_sema_late
  <2>1. /\ kcall[t].slot = i /\ kcall[t].at \in KsemAsleep /\ kcall[t].op = "wait" /\ n > 0 /\ ksem[i] \in KsemRecs
        /\ kcall[t].at \notin {"idle", "asleep"}
    BY <1>4, <1>c, <2>0 DEF wait_sema_woken, wait_sema_late, KsemCallOK, KsemAsleep
  <2>2. ksem[i].current_count \in Nat /\ ksem[i].num_waiters \in Int /\ ksem[i].num_waiters - 1 \in Int
    BY <2>1 DEF KsemRecs
  <2> DEFINE left == [ksem[i] EXCEPT !.num_waiters = ksem[i].num_waiters - 1]
  <2>3. \/ KsemSection(t, left, KsemAfter(t, "idle"))
        \/ ksem[i].current_count < n /\ KsemSection(t, ksem[i], KsemAfter(t, "asleep"))
        \/ ~(ksem[i].current_count < n)
           /\ KsemSection(t, [left EXCEPT !.current_count = left.current_count - n], KsemAfter(t, "idle"))
    BY <1>4, <2>0 DEF wait_sema_woken, wait_sema_late
  <2>4. "idle" \in {"idle", "free"} \cup KsemAsleep /\ "idle" \notin KsemAsleep /\ "asleep" \in KsemAsleep
    BY DEF KsemAsleep
  <2> DEFINE s == left
  <2>5. /\ s \in KsemRecs
        /\ s = left /\ s.current_count = ksem[i].current_count /\ s.life = ksem[i].life
        /\ s.magic = ksem[i].magic /\ s.max_count = ksem[i].max_count /\ s.set = ksem[i].set
        /\ s.num_waiters = ksem[i].num_waiters - 1
    BY <2>1, <2>2, KsemWaitersChange
  <2> HIDE DEF s
  <2> HIDE DEF left
  <2>6. CASE KsemSection(t, left, KsemAfter(t, "idle"))
    <3>1. s.current_count <= ksem[i].current_count /\ KsemSection(t, s, KsemAfter(t, "idle"))
      BY <2>2, <2>5, <2>6
    <3>2. QED
      BY <2>1, <2>4, <2>5, <3>1, KsemOneMoves
  <2>7. CASE ksem[i].current_count < n /\ KsemSection(t, ksem[i], KsemAfter(t, "asleep"))
    <3>1. ksem[i].current_count <= ksem[i].current_count
      BY <2>2
    <3>2. QED
      BY <2>1, <2>4, <2>7, <3>1, KsemOneMoves
  <2>8. CASE ~(ksem[i].current_count < n)
             /\ KsemSection(t, [left EXCEPT !.current_count = left.current_count - n], KsemAfter(t, "idle"))
    <3>1. ksem[i].current_count - n \in Nat /\ ksem[i].current_count - n <= ksem[i].current_count
      BY <1>c, <2>1, <2>2, <2>8
    <3> DEFINE q == [s EXCEPT !.current_count = s.current_count - n]
    <3>2. /\ q \in KsemRecs
          /\ q = [s EXCEPT !.current_count = s.current_count - n]
          /\ q.current_count = s.current_count - n /\ q.life = s.life
          /\ q.magic = s.magic /\ q.max_count = s.max_count /\ q.set = s.set
          /\ q.num_waiters = s.num_waiters
      BY <2>2, <2>5, <3>1, KsemCountChange
    <3> HIDE DEF q
    <3>3. KsemSection(t, q, KsemAfter(t, "idle"))
      BY <2>5, <2>8, <3>2
    <3>4. QED
      BY <2>1, <2>4, <2>5, <3>1, <3>2, <3>3, KsemOneMoves
  <2>9. QED
    BY <2>3, <2>6, <2>7, <2>8
<1>5. CASE sceKernelPollSema(t)
  <2>0. PICK i \in KsemSlots : i = kcall[t].slot
    BY <1>5, <1>c DEF sceKernelPollSema, Entering
  <2>1. /\ kcall[t].slot = i /\ n > 0 /\ ksem[i] \in KsemRecs
        /\ kcall[t].at \notin {"idle", "asleep"} /\ kcall[t].at \notin KsemAsleep
    BY <1>5, <1>c, <2>0 DEF sceKernelPollSema, Entering, KsemCallOK, KsemAsleep
  <2>2. ksem[i].current_count \in Nat /\ ksem[i].num_waiters \in Int
    BY <2>1 DEF KsemRecs
  <2>3. \/ ksem[i].current_count >= n /\ KsemSection(t, [ksem[i] EXCEPT !.current_count = ksem[i].current_count - n], KsemAfter(t, "idle"))
        \/ KsemSection(t, ksem[i], KsemAfter(t, "idle"))
    BY <1>5, <2>0 DEF sceKernelPollSema
  <2>4. "idle" \in {"idle", "free"} \cup KsemAsleep /\ "idle" \notin KsemAsleep
    BY DEF KsemAsleep
  <2>5. CASE ksem[i].current_count >= n /\ KsemSection(t, [ksem[i] EXCEPT !.current_count = ksem[i].current_count - n], KsemAfter(t, "idle"))
    <3>1. ksem[i].current_count - n \in Nat /\ ksem[i].current_count - n <= ksem[i].current_count
      BY <1>c, <2>1, <2>2, <2>5
    <3> DEFINE s == [ksem[i] EXCEPT !.current_count = ksem[i].current_count - n]
    <3>2. /\ s \in KsemRecs
          /\ s = [ksem[i] EXCEPT !.current_count = ksem[i].current_count - n]
          /\ s.current_count = ksem[i].current_count - n /\ s.life = ksem[i].life
          /\ s.magic = ksem[i].magic /\ s.max_count = ksem[i].max_count /\ s.set = ksem[i].set
          /\ s.num_waiters = ksem[i].num_waiters
      BY <2>1, <2>2, <3>1, KsemCountChange
    <3> HIDE DEF s
    <3>3. KsemSection(t, s, KsemAfter(t, "idle"))
      BY <2>5, <3>2
    <3>4. QED
      BY <2>1, <2>4, <3>1, <3>2, <3>3, KsemOneMoves
  <2>6. CASE KsemSection(t, ksem[i], KsemAfter(t, "idle"))
    <3>1. ksem[i].current_count <= ksem[i].current_count
      BY <2>2
    <3>2. QED
      BY <2>1, <2>4, <2>6, <3>1, KsemOneMoves
  <2>7. QED
    BY <2>3, <2>5, <2>6
<1>6. CASE sceKernelSignalSema(t)
  <2>0. PICK i \in KsemSlots : i = kcall[t].slot
    BY <1>6, <1>c DEF sceKernelSignalSema, Entering
  <2>1. /\ kcall[t].slot = i /\ kcall[t].at = "enter" /\ n > 0 /\ ksem[i] \in KsemRecs
        /\ kcall[t].at \notin {"idle", "asleep"} /\ kcall[t].at \notin KsemAsleep
    BY <1>6, <1>c, <2>0 DEF sceKernelSignalSema, Entering, KsemCallOK, KsemAsleep
  <2>2. ksem[i].current_count \in Nat /\ ksem[i].num_waiters \in Int /\ ksem[i].max_count \in Nat
    BY <2>1 DEF KsemRecs
  <2>3. \/ KsemSection(t, ksem[i], KsemAfter(t, "idle"))
        \/ /\ ~(ksem[i].current_count + n > ksem[i].max_count)
           /\ KsemSection(t, [ksem[i] EXCEPT !.current_count = ksem[i].current_count + n], KsemBroadcast(t, "idle"))
    BY <1>6, <2>0 DEF sceKernelSignalSema
  <2>4. "idle" \in {"idle", "free"} \cup KsemAsleep /\ "idle" \notin KsemAsleep
    BY DEF KsemAsleep
  <2>5. CASE KsemSection(t, ksem[i], KsemAfter(t, "idle"))
    <3>1. ksem[i].current_count <= ksem[i].current_count
      BY <2>2
    <3>2. QED
      BY <2>1, <2>4, <2>5, <3>1, KsemOneMoves
  <2>6. CASE ~(ksem[i].current_count + n > ksem[i].max_count)
             /\ KsemSection(t, [ksem[i] EXCEPT !.current_count = ksem[i].current_count + n], KsemBroadcast(t, "idle"))
    <3>1. ksem[i].current_count + n \in Nat /\ ksem[i].current_count + n <= ksem[i].max_count
      BY <1>c, <2>1, <2>2, <2>6
    <3> DEFINE s == [ksem[i] EXCEPT !.current_count = ksem[i].current_count + n]
    <3>2. /\ s \in KsemRecs
          /\ s = [ksem[i] EXCEPT !.current_count = ksem[i].current_count + n]
          /\ s.current_count = ksem[i].current_count + n /\ s.life = ksem[i].life
          /\ s.magic = ksem[i].magic /\ s.max_count = ksem[i].max_count
          /\ s.num_waiters = ksem[i].num_waiters
      BY <2>1, <2>2, <3>1, KsemCountChange
    <3> HIDE DEF s
    <3>3. KsemSection(t, s, KsemBroadcast(t, "idle"))
      BY <2>6, <3>2
    <3>4. QED
      BY <2>1, <3>1, <3>2, <3>3, KsemAllWake
  <2>7. QED
    BY <2>3, <2>5, <2>6
<1>7. CASE sceKernelCancelSema(t)
  <2>0. PICK i \in KsemSlots : i = kcall[t].slot
    BY <1>7, <1>c DEF sceKernelCancelSema, Entering
  <2>1. kcall[t].slot = i /\ kcall[t].at = "enter" /\ ksem[i] \in KsemRecs
    BY <1>7, <1>c, <2>0 DEF sceKernelCancelSema, Entering
  <2> DEFINE m == IF n < 0 THEN ksem[i].init_count ELSE n
             b == ksem[i].set \/ n > ksem[i].max_count
  <2>2. KsemSection(t, [ksem[i] EXCEPT !.current_count = m, !.set = b], KsemBroadcast(t, "idle"))
    BY <1>7, <2>0 DEF sceKernelCancelSema
  <2>3. m \in Nat /\ b \in BOOLEAN /\ (n < 0 => m = ksem[i].init_count) /\ (~(n < 0) => m = n) /\ ksem[i].max_count \in Nat
    BY <1>c, <2>1 DEF KsemRecs
  <2>4. b <=> ksem[i].set \/ n > ksem[i].max_count
    OBVIOUS
  <2> HIDE DEF m, b
  <2> DEFINE s == [ksem[i] EXCEPT !.current_count = m, !.set = b]
  <2>5. /\ s \in KsemRecs
        /\ s = [ksem[i] EXCEPT !.current_count = m, !.set = b]
        /\ s.current_count = m /\ s.set = b /\ s.life = ksem[i].life
        /\ s.magic = ksem[i].magic /\ s.max_count = ksem[i].max_count
        /\ s.num_waiters = ksem[i].num_waiters
    BY <2>1, <2>3 DEF KsemRecs
  <2> HIDE DEF s
  <2>6. KsemServed(i) /\ s.magic => s.current_count <= s.max_count \/ s.set
    <3>1. n >= 0 => m <= ksem[i].max_count \/ b
      BY <1>c, <2>3, <2>4
    <3>2. CASE n >= 0
      BY <2>5, <3>1, <3>2
    <3>3. CASE n < 0
      BY <2>1, <2>3, <2>5, <3>3 DEF KsemRecs
    <3>4. QED
      BY <1>c, <3>2, <3>3
  <2>7. KsemSection(t, s, KsemBroadcast(t, "idle"))
    BY <2>2, <2>5
  <2>8. QED
    BY <2>1, <2>5, <2>6, <2>7, KsemAllWake
<1>8. CASE sceKernelDeleteSema(t)
  <2>0. PICK i \in KsemSlots : i = kcall[t].slot
    BY <1>8, <1>c DEF sceKernelDeleteSema, Entering
  <2>1. kcall[t].slot = i /\ kcall[t].at = "enter" /\ ksem[i] \in KsemRecs
    BY <1>8, <1>c, <2>0 DEF sceKernelDeleteSema, Entering
  <2> DEFINE s == [ksem[i] EXCEPT !.magic = FALSE]
  <2>2. /\ s \in KsemRecs
        /\ s = [ksem[i] EXCEPT !.magic = FALSE]
        /\ s.life = ksem[i].life /\ s.magic = FALSE /\ s.num_waiters = ksem[i].num_waiters
    BY <2>1 DEF KsemRecs
  <2> HIDE DEF s
  <2>3. KsemSection(t, s, KsemBroadcast(t, "free"))
    BY <1>8, <2>0, <2>2 DEF sceKernelDeleteSema
  <2>4. QED
    BY <2>1, <2>2, <2>3, KsemAllWake
<1>9. CASE delete_sema_slot(t)
  <2>0. PICK i \in KsemSlots : i = kcall[t].slot
    BY <1>9, <1>c DEF delete_sema_slot
  <2>1. /\ kcall[t].slot = i /\ ksem[i] \in KsemRecs
        /\ kcall[t].at \notin {"idle", "asleep"} /\ kcall[t].at \notin KsemAsleep
    BY <1>9, <1>c, <2>0 DEF delete_sema_slot, KsemAsleep
  <2> DEFINE s == [ksem[i] EXCEPT !.in_use = FALSE]
  <2>2. /\ s \in KsemRecs
        /\ s = [ksem[i] EXCEPT !.in_use = FALSE]
        /\ s.current_count = ksem[i].current_count /\ s.life = ksem[i].life
        /\ s.magic = ksem[i].magic /\ s.max_count = ksem[i].max_count /\ s.set = ksem[i].set
        /\ s.num_waiters = ksem[i].num_waiters
    BY <2>1 DEF KsemRecs
  <2> HIDE DEF s
  <2>3. KsemSection(t, s, KsemAfter(t, "idle"))
    BY <1>9, <2>0, <2>2 DEF delete_sema_slot
  <2>4. "idle" \in {"idle", "free"} \cup KsemAsleep /\ "idle" \notin KsemAsleep
    BY DEF KsemAsleep
  <2>5. s.current_count <= ksem[i].current_count
    BY <2>1, <2>2 DEF KsemRecs
  <2>6. QED
    BY <2>1, <2>2, <2>3, <2>4, <2>5, KsemOneMoves
<1>10. CASE ksem_cond(t)
  <2>0. PICK i \in KsemSlots : i = kcall[t].slot
    BY <1>10, <1>c DEF ksem_cond
  <2>1. kcall[t].at = "asleep" /\ kcall[t].slot = i /\ ksem[i] \in KsemRecs /\ kcall[t].op = "wait" /\ UNCHANGED <<ksem, strayed>>
    BY <1>10, <1>c, <2>0 DEF ksem_cond, KsemCallOK, KsemAsleep
  <2>2. PICK how \in {"woken", "late"} : kcall' = KsemAfter(t, how)
    BY <1>10 DEF ksem_cond
  <2>3. /\ kcall' \in [KsemThreads -> KsemCalls] /\ kcall'[t].at = how
        /\ KsemCallOK(kcall'[t]) /\ (\A u \in KsemThreads : u # t => kcall'[u] = kcall[u])
        /\ kcall'[t].slot = i /\ kcall'[t].life = kcall[t].life
    <3>1. how \in {"idle", "free"} \cup KsemAsleep /\ how # "idle"
      BY DEF KsemAsleep
    <3>2. QED
      BY <2>1, <2>2, <3>1, KsemAfterTyped
  <2>4. KsemSleepers(i)' \subseteq KsemSleepers(i) /\ t \notin KsemSleepers(i)' /\ KsemOwn(i)' = KsemOwn(i)
    BY <2>1, <2>3 DEF KsemSleepers, KsemOwn, KsemWaiters, OnKsem
  <2>5. \A u \in KsemSleepers(i)' : kcall'[u] = kcall[u]
    BY <2>3, <2>4 DEF KsemSleepers
  <2>6. i \notin strayed' => KsemServed(i)'
    BY <2>1, <2>4, <2>5 DEF KsemIInv, KsemServed
  <2>7. ksem' = [ksem EXCEPT ![i] = ksem[i]] /\ ksem[i].life >= ksem[i].life /\ strayed \subseteq strayed'
    BY <1>t, <2>1 DEF KsemTypes, KsemRecs
  <2>8. kcall[t].life <= ksem[i].life
    BY <2>1 DEF KsemIInv
  <2>9. \A u \in KsemThreads : kcall'[u] # kcall[u] =>
            /\ kcall[u].at = "idle" \/ kcall[u].slot = i
            /\ kcall'[u].at = "idle" \/ (kcall'[u].slot = i /\ kcall'[u].life <= ksem[i].life)
    BY <2>1, <2>3, <2>8
  <2>10. \A u \in KsemThreads : KsemCallOK(kcall'[u])
    BY <1>t, <2>3 DEF KsemTypes
  <2>11. QED
    BY <2>1, <2>3, <2>6, <2>7, <2>9, <2>10, KsemSlotChange
<1>11. QED
  BY <1>1, <1>2, <1>3, <1>4, <1>5, <1>6, <1>7, <1>8, <1>9, <1>10

-----------------------------------------------------------------------------
(* Asynchronous I/O.  A submit keeps its id until it has marked it; the    *)
(* next id is in the table and not 0, wherever the ids go round.           *)
\* The fields the properties look at.
AioTyped ==
  /\ g_id_state = [i \in Ids |-> g_id_state[i]] /\ g_id_index \in Ids
  /\ acall = [t \in AioThreads |-> acall[t]]
  /\ \A t \in AioThreads : /\ acall[t] = [f \in {"at", "id", "todo", "ids", "any", "stop"} |-> acall[t][f]]
                           /\ acall[t].at = "submit" => acall[t].id \in Ids
AioIInv == AioTyped /\ AioInProgress

\* The ids go round and leave out 0.
LEMMA NextId == ASSUME NEW i \in Ids PROVE next_id(i) \in Ids \ {0}
<1>1. i \in Int /\ AIO_MAX_QUEUES \in Int /\ AIO_MAX_QUEUES > 1
  BY AioAssumption DEF Ids
<1>2. (i + 1) % AIO_MAX_QUEUES \in 0..AIO_MAX_QUEUES - 1
  BY <1>1
<1>3. QED
  BY <1>1, <1>2 DEF next_id, Ids

\* No id is in use, the first to be given out is 1.
LEMMA AioInitInv == AioInit => AioIInv
  BY AioAssumption DEF AioInit, AioIInv, AioTyped, AioInProgress, NoAio, Ids, Settled

\* A call that is no submit, or keeps its id and does not end it, changes
\* nothing for the ids.
LEMMA AioCallMoves ==
  ASSUME AioIInv, NEW t \in AioThreads, NEW c, acall' = [acall EXCEPT ![t] = c],
         c = [f \in {"at", "id", "todo", "ids", "any", "stop"} |-> c[f]],
         c.at = "submit" => acall[t].at = "submit" /\ c.id = acall[t].id,
         acall[t].at = "submit" => c.at = "submit",
         UNCHANGED <<g_id_state, g_id_index>>
  PROVE  AioIInv'
<1>1. acall'[t] = c /\ \A u \in AioThreads : u # t => acall'[u] = acall[u]
  BY DEF AioIInv, AioTyped
<1>2. AioTyped'
  BY <1>1 DEF AioIInv, AioTyped
<1>3. ASSUME NEW u \in AioThreads PROVE acall'[u].at = "submit" <=> acall[u].at = "submit"
  BY <1>1
<1>4. ASSUME NEW u \in AioThreads, acall[u].at = "submit" PROVE acall'[u].id = acall[u].id
  BY <1>1, <1>4
<1>5. QED
  BY <1>2, <1>3, <1>4 DEF AioIInv, AioInProgress, Settled

\* Every call of the asynchronous I/O keeps the invariant.
LEMMA AioStepInv == AioIInv /\ [AioNext]_aio_vars => AioIInv'
<1> SUFFICES ASSUME AioIInv, [AioNext]_aio_vars PROVE AioIInv'
  OBVIOUS
<1> DEFINE Fields == {"at", "id", "todo", "ids", "any", "stop"}
<1>t. AioTyped
  BY DEF AioIInv
<1>0. CASE UNCHANGED aio_vars
  BY <1>0 DEF AioIInv, AioTyped, AioInProgress, Settled, aio_vars
<1>1. ASSUME NEW t \in AioThreads, NEW todo, NEW ids, TakeId(t, todo, ids), acall[t].at # "submit" PROVE AioIInv'
  <2> DEFINE c == [NoAio EXCEPT !.at = "submit", !.id = g_id_index, !.todo = todo, !.ids = ids]
  <2>1. /\ c = [f \in Fields |-> c[f]] /\ c.at = "submit" /\ c.id = g_id_index
        /\ acall' = [acall EXCEPT ![t] = c] /\ g_id_index' \in Ids \ {0}
        /\ g_id_state' = [g_id_state EXCEPT ![g_id_index] = "processing"]
    BY <1>1, <1>t, NextId DEF TakeId, NoAio, AioTyped
  <2> HIDE DEF c
  <2>2. acall'[t] = c /\ \A u \in AioThreads : u # t => acall'[u] = acall[u]
    BY <1>t, <2>1 DEF AioTyped
  <2>3. AioTyped'
    BY <1>t, <2>1, <2>2 DEF AioTyped
  <2>4. ASSUME NEW i \in Ids, ~Settled(i)' PROVE \E u \in AioThreads : acall'[u].at = "submit" /\ acall'[u].id = i
    <3>1. CASE i = g_id_index
      BY <2>1, <2>2, <3>1
    <3>2. CASE i # g_id_index
      <4>1. ~Settled(i)
        BY <1>t, <2>1, <2>4, <3>2 DEF Settled, AioTyped
      <4>2. PICK u \in AioThreads : acall[u].at = "submit" /\ acall[u].id = i
        BY <4>1 DEF AioIInv, AioInProgress
      <4>3. QED
        BY <1>1, <2>2, <4>2
    <3>3. QED
      BY <3>1, <3>2
  <2>5. QED
    BY <2>1, <2>2, <2>3, <2>4 DEF AioIInv, AioInProgress
<1>2. ASSUME NEW t \in AioThreads, AioSubmitCommands(t) \/ AioSubmitCommandsMultiple(t) PROVE AioIInv'
  BY <1>1, <1>2 DEF AioSubmitCommands, AioSubmitCommandsMultiple
<1>3. ASSUME NEW t \in AioThreads, execute_request(t) PROVE AioIInv'
  <2> DEFINE c == [acall[t] EXCEPT !.todo = @ - 1]
  <2>1. acall' = [acall EXCEPT ![t] = c] /\ UNCHANGED <<g_id_state, g_id_index>>
    BY <1>3 DEF execute_request
  <2>2. c = [f \in Fields |-> c[f]] /\ c.at = acall[t].at /\ c.id = acall[t].id
    BY <1>t DEF AioTyped
  <2> HIDE DEF c
  <2>3. QED
    BY <2>1, <2>2, AioCallMoves
<1>4. ASSUME NEW t \in AioThreads, submit_completed(t) PROVE AioIInv'
  <2> DEFINE c == [acall[t] EXCEPT !.at = "next"]
  <2>1. acall' = [acall EXCEPT ![t] = c] /\ UNCHANGED g_id_index /\ acall[t].at = "submit"
        /\ g_id_state' = [g_id_state EXCEPT ![acall[t].id] = "completed"]
    BY <1>4 DEF submit_completed
  <2>2. c = [f \in Fields |-> c[f]] /\ c.at = "next"
    BY <1>t DEF AioTyped
  <2> HIDE DEF c
  <2>3. acall'[t] = c /\ \A u \in AioThreads : u # t => acall'[u] = acall[u]
    BY <1>t, <2>1 DEF AioTyped
  <2>4. AioTyped'
    BY <1>t, <2>1, <2>2, <2>3 DEF AioTyped
  <2>5. ASSUME NEW i \in Ids, ~Settled(i)' PROVE \E u \in AioThreads : acall'[u].at = "submit" /\ acall'[u].id = i
    <3>1. i # acall[t].id /\ ~Settled(i)
      BY <1>t, <2>1, <2>5 DEF AioTyped, Settled
    <3>2. PICK u \in AioThreads : acall[u].at = "submit" /\ acall[u].id = i
      BY <3>1 DEF AioIInv, AioInProgress
    <3>3. QED
      BY <2>3, <3>1, <3>2
  <2>6. QED
    BY <2>1, <2>2, <2>3, <2>4, <2>5 DEF AioIInv, AioInProgress
<1>5. NoAio = [f \in Fields |-> NoAio[f]] /\ NoAio.at = "idle"
  BY DEF NoAio
<1>6. ASSUME NEW t \in AioThreads, submit_next(t) PROVE AioIInv'
  <2>1. acall[t].at = "next"
    BY <1>6 DEF submit_next
  <2>2. CASE acall[t].ids = {}
    <3>1. acall' = [acall EXCEPT ![t] = NoAio] /\ UNCHANGED <<g_id_state, g_id_index>>
      BY <1>6, <2>2 DEF submit_next
    <3>2. QED
      BY <1>5, <2>1, <3>1, AioCallMoves
  <2>3. CASE acall[t].ids # {}
    BY <1>1, <1>6, <2>1, <2>3 DEF submit_next
  <2>4. QED
    BY <2>2, <2>3
<1>7. ASSUME NEW t \in AioThreads, NEW ids, AioAbort(t, ids) PROVE AioIInv'
  <2>1. PICK S \in SUBSET ids : g_id_state' = [i \in Ids |-> IF i \in S THEN "aborted" ELSE g_id_state[i]]
    BY <1>7 DEF AioAbort
  <2>2. UNCHANGED <<g_id_index, acall>>
    BY <1>7 DEF AioAbort
  <2>3. \A i \in Ids : ~Settled(i)' => ~Settled(i)
    BY <2>1 DEF Settled
  <2>4. g_id_state' = [i \in Ids |-> g_id_state'[i]]
    BY <2>1
  <2>5. AioTyped'
    BY <1>t, <2>2, <2>4 DEF AioTyped
  <2>6. QED
    BY <2>2, <2>3, <2>5 DEF AioIInv, AioInProgress
<1>8. ASSUME NEW t \in AioThreads, AioWaitRequests(t) PROVE AioIInv'
  <2>1. PICK S \in SUBSET Known \ {{}}, any \in BOOLEAN :
          acall' = [acall EXCEPT ![t] = [NoAio EXCEPT !.at = "wait", !.ids = S, !.any = any]]
    BY <1>8 DEF AioWaitRequests
  <2> DEFINE c == [NoAio EXCEPT !.at = "wait", !.ids = S, !.any = any]
  <2>2. acall' = [acall EXCEPT ![t] = c] /\ UNCHANGED <<g_id_state, g_id_index>> /\ acall[t].at = "idle"
    BY <1>8, <2>1 DEF AioWaitRequests
  <2>3. c = [f \in Fields |-> c[f]] /\ c.at = "wait"
    BY DEF NoAio
  <2> HIDE DEF c
  <2>4. QED
    BY <2>2, <2>3, AioCallMoves
<1>9. ASSUME NEW t \in AioThreads, wait_polled(t) PROVE AioIInv'
  <2>1. PICK i \in acall[t].ids, late \in BOOLEAN :
          acall' = [acall EXCEPT ![t] = [acall[t] EXCEPT !.at = "read", !.id = i, !.ids = acall[t].ids \ {i},
                                                         !.stop = acall[t].stop \/ late]]
    BY <1>9 DEF wait_polled
  <2> DEFINE c == [acall[t] EXCEPT !.at = "read", !.id = i, !.ids = acall[t].ids \ {i}, !.stop = acall[t].stop \/ late]
  <2>2. acall' = [acall EXCEPT ![t] = c] /\ UNCHANGED <<g_id_state, g_id_index>> /\ acall[t].at = "wait"
    BY <1>9, <2>1 DEF wait_polled
  <2>3. c = [f \in Fields |-> c[f]] /\ c.at = "read"
    BY <1>t DEF AioTyped
  <2> HIDE DEF c
  <2>4. QED
    BY <2>2, <2>3, AioCallMoves
<1>10. ASSUME NEW t \in AioThreads, wait_read(t) PROVE AioIInv'
  <2> DEFINE d == [acall[t] EXCEPT !.at = "wait", !.stop = @ \/ (acall[t].any /\ g_id_state[acall[t].id] = "completed")]
             c == IF acall[t].ids = {} THEN NoAio ELSE d
  <2>1. acall' = [acall EXCEPT ![t] = c] /\ UNCHANGED <<g_id_state, g_id_index>> /\ acall[t].at = "read"
    BY <1>10 DEF wait_read
  <2>2. d = [f \in Fields |-> d[f]] /\ d.at = "wait"
    BY <1>t DEF AioTyped
  <2> HIDE DEF d
  <2>3. c = [f \in Fields |-> c[f]] /\ c.at # "submit"
    BY <1>5, <2>2
  <2> HIDE DEF c
  <2>4. QED
    BY <2>1, <2>3, AioCallMoves
<1>11. QED
  BY <1>0, <1>2, <1>3, <1>4, <1>6, <1>7, <1>8, <1>9, <1>10
     DEF AioNext, AioSubmitWriteCommands, AioSubmitWriteCommandsMultiple, AioDeleteRequests, AioCancelRequests

-----------------------------------------------------------------------------
(* Once controls and guards.  A control in progress is one thread's, a busy*)
(* guard is its holder's, and both remember that the initialization was    *)
(* made.                                                                   *)
OnceTypes ==
  /\ ctrl \in {0, 1, 2} /\ guard \in [done : BOOLEAN, busy : BOOLEAN, holder : OnceThreads \cup {NoHolder}]
  /\ once_at \in [OnceThreads -> {"idle", "woken", "asleep", "returned", "routine"}]
  /\ guard_at \in [OnceThreads -> {"idle", "locked", "asleep", "uses", "initializes"}]
  /\ made \in [once : {0, 1}, guard : {0, 1}]

\* A control in progress is one thread's, a busy guard is its holder's; the
\* control and the guard remember whether the initialization was made.
OnceIInv ==
  /\ OnceTypes
  /\ ctrl = 2 <=> \E t \in OnceThreads : once_at[t] = "routine"
  /\ \A t, u \in OnceThreads : once_at[t] = "routine" /\ once_at[u] = "routine" => t = u
  /\ made.once = 1 <=> ctrl = 1
  /\ guard.busy => guard.holder \in OnceThreads /\ guard_at[guard.holder] = "initializes"
  /\ \A t \in OnceThreads : guard_at[t] = "initializes" => guard.busy /\ guard.holder = t
  /\ made.guard = 1 <=> guard.done
  /\ guard.done => ~guard.busy
  /\ \A t \in OnceThreads : /\ once_at[t] = "returned" => ctrl = 1
                            /\ once_at[t] = "asleep" => ctrl = 2
                            /\ guard_at[t] = "uses" => guard.done
                            /\ guard_at[t] = "asleep" => guard.busy

\* Nothing is initialized.
LEMMA OnceInitInv == OnceInit => OnceIInv
  BY DEF OnceInit, OnceIInv, OnceTypes, FreeGuard
\* A completed initialization is one that made counts.
LEMMA OnceInvOnce == OnceIInv => InitializedOnce
  BY DEF OnceIInv, OnceTypes, InitializedOnce

\* Every step of pthread_once and of the guards keeps the invariant.
LEMMA OnceStepInv == OnceIInv /\ [OnceNext]_once_vars => OnceIInv'
<1> SUFFICES ASSUME OnceIInv, [OnceNext]_once_vars PROVE OnceIInv'
  OBVIOUS
<1>0. CASE UNCHANGED once_vars
  BY <1>0 DEF OnceIInv, OnceTypes, once_vars
<1>1. ASSUME NEW t \in OnceThreads, shim_pthread_once(t) PROVE OnceIInv'
  <2>1. UNCHANGED <<guard, guard_at, made>> /\ once_at[t] \in {"idle", "woken"}
    BY <1>1 DEF shim_pthread_once
  <2>2. CASE ctrl = 2
    <3>1. once_at' = [once_at EXCEPT ![t] = "asleep"] /\ UNCHANGED ctrl
      BY <1>1, <2>2 DEF shim_pthread_once
    <3>2. QED
      BY <2>1, <2>2, <3>1 DEF OnceIInv, OnceTypes
  <2>3. CASE ctrl = 1
    <3>1. once_at' = [once_at EXCEPT ![t] = "returned"] /\ UNCHANGED ctrl
      BY <1>1, <2>3 DEF shim_pthread_once
    <3>2. QED
      BY <2>1, <2>3, <3>1 DEF OnceIInv, OnceTypes
  <2>4. CASE ctrl = 0
    <3>1. once_at' = [once_at EXCEPT ![t] = "routine"] /\ ctrl' = 2
      BY <1>1, <2>4 DEF shim_pthread_once
    <3>2. QED
      BY <2>1, <2>4, <3>1 DEF OnceIInv, OnceTypes
  <2>5. QED
    BY <2>2, <2>3, <2>4 DEF OnceIInv, OnceTypes
<1>2. ASSUME NEW t \in OnceThreads, once_end(t) PROVE OnceIInv'
  <2>1. once_at[t] = "routine" /\ ctrl = 2 /\ made.once = 0
    BY <1>2 DEF OnceIInv, OnceTypes, once_end
  <2>2. made' = [made EXCEPT !.once = 1] /\ ctrl' = 1 /\ UNCHANGED <<guard, guard_at>>
    BY <1>2, <2>1 DEF once_end
  <2>3. made'.once = 1 /\ made'.guard = made.guard /\ made' \in [once : {0, 1}, guard : {0, 1}]
    BY <2>2 DEF OnceIInv, OnceTypes
  <2>4. \A u \in OnceThreads : once_at'[u] = IF u = t THEN "returned" ELSE IF once_at[u] = "asleep" THEN "woken" ELSE once_at[u]
    BY <1>2 DEF once_end, Woken
  <2>5. once_at' \in [OnceThreads -> {"idle", "woken", "asleep", "returned", "routine"}]
    BY <1>2 DEF once_end, Woken, OnceIInv, OnceTypes
  <2>6. \A u \in OnceThreads : once_at'[u] \notin {"routine", "asleep"}
    BY <2>1, <2>4 DEF OnceIInv
  <2>7. QED
    BY <2>2, <2>3, <2>5, <2>6 DEF OnceIInv, OnceTypes
<1>3. ASSUME NEW t \in OnceThreads, shim_cxa_guard_acquire(t) PROVE OnceIInv'
  BY <1>3 DEF OnceIInv, OnceTypes, shim_cxa_guard_acquire
<1>4. ASSUME NEW t \in OnceThreads, acquire_loop(t) PROVE OnceIInv'
  <2>1. guard_at[t] = "locked" /\ UNCHANGED <<ctrl, once_at, made>>
    BY <1>4 DEF acquire_loop
  <2>2. CASE guard.done
    <3>1. guard_at' = [guard_at EXCEPT ![t] = "uses"] /\ UNCHANGED guard
      BY <1>4, <2>2 DEF acquire_loop
    <3>2. QED
      BY <2>1, <2>2, <3>1 DEF OnceIInv, OnceTypes
  <2>3. CASE ~guard.done /\ guard.busy
    <3>1. guard_at' = [guard_at EXCEPT ![t] = "asleep"] /\ UNCHANGED guard
      BY <1>4, <2>3 DEF acquire_loop
    <3>2. QED
      BY <2>1, <2>3, <3>1 DEF OnceIInv, OnceTypes
  <2>4. CASE ~guard.done /\ ~guard.busy
    <3>1. guard' = [guard EXCEPT !.busy = TRUE, !.holder = t] /\ guard_at' = [guard_at EXCEPT ![t] = "initializes"]
      BY <1>4, <2>4 DEF acquire_loop
    <3>2. /\ guard' \in [done : BOOLEAN, busy : BOOLEAN, holder : OnceThreads \cup {NoHolder}]
          /\ guard'.busy = TRUE /\ guard'.holder = t /\ guard'.done = guard.done
      BY <3>1 DEF OnceIInv, OnceTypes
    <3>3. \A u \in OnceThreads : guard_at[u] # "initializes"
      BY <2>4 DEF OnceIInv
    <3>4. guard_at' \in [OnceThreads -> {"idle", "locked", "asleep", "uses", "initializes"}] /\ guard_at'[t] = "initializes"
          /\ \A u \in OnceThreads : u # t => guard_at'[u] = guard_at[u]
      BY <3>1 DEF OnceIInv, OnceTypes
    <3>5. QED
      BY <2>1, <2>4, <3>2, <3>3, <3>4 DEF OnceIInv, OnceTypes
  <2>5. QED
    BY <2>2, <2>3, <2>4 DEF OnceIInv, OnceTypes
<1>5. ASSUME NEW t \in OnceThreads, shim_cxa_guard_release(t) PROVE OnceIInv'
  BY <1>5 DEF OnceIInv, OnceTypes, shim_cxa_guard_release, Woken
<1>6. ASSUME NEW t \in OnceThreads, shim_cxa_guard_abort(t) PROVE OnceIInv'
  BY <1>6 DEF OnceIInv, OnceTypes, shim_cxa_guard_abort, Woken
<1>7. ASSUME NEW t \in OnceThreads, once_again(t) PROVE OnceIInv'
  BY <1>7 DEF OnceIInv, OnceTypes, once_again
<1>8. QED
  BY <1>0, <1>1, <1>2, <1>3, <1>4, <1>5, <1>6, <1>7 DEF OnceNext, OnceStep

-----------------------------------------------------------------------------
(* The objects behind guest variables.  A slot that a variable or a call   *)
(* names is live, a variable's slot has an object of its kind only, and a  *)
(* call that destroys a slot is the last thing that names it.              *)
ObjCalls == [at : {"idle", "fresh", "table", "using", "d_table", "d_slot"}, var : ObjVars \cup {0},
             h : ObjSlots \cup {0}, m : Nat]
ObjTypes ==
  /\ g_live \subseteq ObjSlots /\ g_free \in Seq(ObjSlots) /\ g_next \in Nat \ {0}
  /\ ovar \in [ObjVars -> ObjSlots \cup {0}]
  /\ g_mtab \in [ObjSlots -> Nat] /\ g_mutex_free \in Seq(Nat) /\ g_mutex_all \in Nat
  /\ ocall \in [ObjThreads -> ObjCalls]
ArenaInv == IsInjective(g_free) /\ Range(g_free) \cap g_live = {} /\ Range(g_free) \cup g_live = 1..g_next - 1
MutexListInv ==
  /\ IsInjective(g_mutex_free) /\ Range(g_mutex_free) \subseteq 1..g_mutex_all
  /\ \A s \in ObjSlots : g_mtab[s] <= g_mutex_all /\ g_mtab[s] \notin Range(g_mutex_free)
  /\ \A r, s \in ObjSlots : r # s /\ g_mtab[r] # 0 => g_mtab[r] # g_mtab[s]
LiveObjects == g_nodes \subseteq g_live /\ \A s \in ObjSlots : g_mtab[s] # 0 => s \in g_live
VarInv ==
  /\ \A v \in ObjVars : ovar[v] # 0 => ovar[v] \in g_live
  /\ \A v \in MutexVars : ovar[v] \notin g_nodes /\ \A w \in NodeVars : ovar[v] = ovar[w] => ovar[v] = 0
  /\ \A w \in NodeVars : ovar[w] # 0 => g_mtab[ovar[w]] = 0
ObjCallInv(t) ==
  LET c == ocall[t]
  IN  /\ c.at = "idle" => c = NoObjCall
      /\ c.at # "idle" => c.var \in ObjVars
      /\ c.at = "fresh" => c.h = 0
      /\ c.at \in {"table", "using"} => c.h = ovar[c.var] /\ c.h # 0
      /\ c.at = "using" => c.m = (IF c.var \in MutexVars THEN g_mtab[c.h] ELSE 0) /\ (c.var \in MutexVars => c.m # 0)
      /\ c.at \in {"d_table", "d_slot"} =>
           /\ c.h \in g_live /\ \A w \in ObjVars : ovar[w] # c.h
           /\ \A u \in ObjThreads : u # t => ocall[u].h # c.h
           /\ c.at = "d_slot" \/ c.var \in NodeVars => g_mtab[c.h] = 0
           /\ c.at = "d_slot" \/ c.var \in MutexVars => c.h \notin g_nodes
ObjIInv ==
  /\ ObjTypes /\ ArenaInv /\ MutexListInv /\ LiveObjects /\ VarInv
  /\ \A t \in ObjThreads : ObjCallInv(t)

\* Nothing is made.
LEMMA ObjInitInv == ObjInit => ObjIInv
<1> SUFFICES ASSUME ObjInit PROVE ObjIInv
  OBVIOUS
<1>1. ObjTypes /\ LiveObjects /\ VarInv /\ MutexListInv /\ ArenaInv
  BY DEF ObjInit, ObjTypes, LiveObjects, VarInv, MutexListInv, ArenaInv, ObjCalls, NoObjCall, IsInjective, Range, ObjVars
<1>2. \A t \in ObjThreads : ObjCallInv(t)
  BY DEF ObjInit, ObjCallInv, NoObjCall
<1>3. QED
  BY <1>1, <1>2 DEF ObjIInv

\* The invariant is the property.
LEMMA ObjInvOnce == ObjIInv => OneObjectPerHandle
<1> SUFFICES ASSUME ObjIInv PROVE OneObjectPerHandle
  OBVIOUS
<1>1. ASSUME NEW t \in ObjThreads, NEW u \in ObjThreads, ocall[t].at = "using", ocall[u].at = "using",
             ocall[t].var = ocall[u].var
      PROVE  ocall[t].m = ocall[u].m
  BY <1>1 DEF ObjIInv, ObjCallInv
<1>2. g_live \subseteq ObjSlots
  BY DEF ObjIInv, ObjTypes
<1>3. QED
  BY <1>1, <1>2 DEF ObjIInv, OneObjectPerHandle, ArenaInv, MutexListInv, LiveObjects, VarInv

\* Sequences without repetition.
LEMMA LastGoes ==
  ASSUME NEW S, NEW q \in Seq(S), q # <<>>, IsInjective(q)
  PROVE  /\ Front(q) \in Seq(S) /\ IsInjective(Front(q))
         /\ Last(q) \in Range(q) /\ Range(Front(q)) = Range(q) \ {Last(q)}
<1>1. Len(q) \in Nat \ {0} /\ DOMAIN q = 1..Len(q)
  OBVIOUS
<1>2. /\ Front(q) \in Seq(S) /\ DOMAIN Front(q) = 1..Len(q) - 1
      /\ \A i \in 1..Len(q) - 1 : Front(q)[i] = q[i]
  BY <1>1 DEF Front
<1>3. QED
  BY <1>1, <1>2 DEF Last, IsInjective, Range

\* Taking the first of a list without repeats takes one member.
LEMMA HeadGoes ==
  ASSUME NEW S, NEW q \in Seq(S), q # <<>>, IsInjective(q)
  PROVE  /\ Tail(q) \in Seq(S) /\ IsInjective(Tail(q))
         /\ Head(q) \in Range(q) /\ Range(Tail(q)) = Range(q) \ {Head(q)}
<1>1. Len(q) \in Nat \ {0} /\ DOMAIN q = 1..Len(q) /\ Head(q) = q[1]
  OBVIOUS
<1>2. /\ Tail(q) \in Seq(S) /\ DOMAIN Tail(q) = 1..Len(q) - 1
      /\ \A i \in 1..Len(q) - 1 : Tail(q)[i] = q[i + 1]
  BY <1>1
<1>3. IsInjective(Tail(q)) /\ Head(q) \in Range(q) /\ Range(Tail(q)) \subseteq Range(q) \ {Head(q)}
  BY <1>1, <1>2 DEF IsInjective, Range
<1>4. ASSUME NEW i \in 2..Len(q) PROVE q[i] \in Range(Tail(q))
  <2>1. i - 1 \in 1..Len(q) - 1 /\ q[i] = Tail(q)[i - 1]
    BY <1>1, <1>2
  <2>2. QED
    BY <1>2, <2>1 DEF Range
<1>5. ASSUME NEW e \in Range(q), e # Head(q) PROVE e \in Range(Tail(q))
  <2>1. PICK i \in 1..Len(q) : q[i] = e
    BY <1>1 DEF Range
  <2>2. i \in 2..Len(q)
    BY <1>1, <1>5, <2>1
  <2>3. QED
    BY <1>4, <2>1, <2>2
<1>6. QED
  BY <1>2, <1>3, <1>5

\* Adding a new member at the end adds that member.
LEMMA JoinsEnd ==
  ASSUME NEW S, NEW q \in Seq(S), IsInjective(q), NEW e \in S, e \notin Range(q)
  PROVE  Append(q, e) \in Seq(S) /\ IsInjective(Append(q, e)) /\ Range(Append(q, e)) = Range(q) \cup {e}
<1>1. Len(q) \in Nat /\ DOMAIN q = 1..Len(q)
  OBVIOUS
<1>2. /\ Append(q, e) \in Seq(S) /\ DOMAIN Append(q, e) = 1..Len(q) + 1
      /\ \A i \in 1..Len(q) : Append(q, e)[i] = q[i]
      /\ Append(q, e)[Len(q) + 1] = e
  BY <1>1
<1>3. QED
  BY <1>1, <1>2 DEF IsInjective, Range

\* So does adding it at the front.
LEMMA JoinsFront ==
  ASSUME NEW S, NEW q \in Seq(S), IsInjective(q), NEW e \in S, e \notin Range(q)
  PROVE  <<e>> \o q \in Seq(S) /\ IsInjective(<<e>> \o q) /\ Range(<<e>> \o q) = Range(q) \cup {e}
<1>1. Len(q) \in Nat /\ DOMAIN q = 1..Len(q)
  OBVIOUS
<1>2. /\ <<e>> \o q \in Seq(S) /\ DOMAIN (<<e>> \o q) = 1..Len(q) + 1
      /\ \A i \in 1..Len(q) : (<<e>> \o q)[i + 1] = q[i]
      /\ (<<e>> \o q)[1] = e
  BY <1>1
<1> DEFINE r == <<e>> \o q
<1> HIDE DEF r
<1>3. \A i \in 2..Len(q) + 1 : i - 1 \in 1..Len(q) /\ r[i] = q[i - 1]
  <2>1. \A i \in 2..Len(q) + 1 : i - 1 \in 1..Len(q) /\ (i - 1) + 1 = i
    BY <1>1
  <2>2. QED
    BY <1>2, <2>1 DEF r
<1>4. IsInjective(r)
  BY <1>1, <1>2, <1>3 DEF IsInjective, Range, r
<1>5. Range(r) = Range(q) \cup {e}
  <2>1. \A i \in 1..Len(q) : i + 1 \in DOMAIN r /\ r[i + 1] = q[i] /\ 1 \in DOMAIN r /\ r[1] = e
    BY <1>1, <1>2 DEF r
  <2>2. 1 \in DOMAIN r /\ r[1] = e
    BY <1>1, <1>2 DEF r
  <2>3. Range(r) \subseteq Range(q) \cup {e}
    BY <1>1, <1>2, <1>3 DEF Range, r
  <2>4. Range(q) \subseteq Range(r)
    BY <1>1, <2>1 DEF Range
  <2>5. e \in Range(r)
    BY <2>2 DEF Range
  <2>6. QED
    BY <2>3, <2>4, <2>5
<1>6. QED
  BY <1>2, <1>4, <1>5 DEF r

\* The larger of two.
LEMMA MaxOfTwo == ASSUME NEW a \in Nat, NEW b \in Nat PROVE Max({a, b}) = IF a >= b THEN a ELSE b
<1> DEFINE m == IF a >= b THEN a ELSE b
<1>1. m \in {a, b} /\ \A y \in {a, b} : m >= y
  OBVIOUS
<1>2. \A x \in {a, b} : (\A y \in {a, b} : x >= y) => x = m
  OBVIOUS
<1>3. QED
  BY <1>1, <1>2 DEF Max

\* The slot that is handed out was not live and has no object.
LEMMA SlotMade ==
  ASSUME ObjIInv, NEW s \in ObjSlots, sync_obj_alloc(s)
  PROVE  /\ s \notin g_live /\ s \notin g_nodes /\ g_mtab[s] = 0 /\ g_live' = g_live \cup {s}
         /\ g_free' \in Seq(ObjSlots) /\ g_next' \in Nat \ {0} /\ ArenaInv'
<1> USE DEF ObjIInv, ObjTypes
<1>1. CASE g_free # <<>>
  <2>1. s = Last(g_free) /\ g_free' = Front(g_free) /\ g_next' = g_next /\ g_live' = g_live \cup {s}
    BY <1>1 DEF sync_obj_alloc
  <2>2. /\ Front(g_free) \in Seq(ObjSlots) /\ IsInjective(Front(g_free))
        /\ Last(g_free) \in Range(g_free) /\ Range(Front(g_free)) = Range(g_free) \ {Last(g_free)}
    BY <1>1, LastGoes DEF ArenaInv
  <2>3. s \notin g_live
    BY <2>1, <2>2 DEF ArenaInv
  <2>4. ArenaInv'
    BY <2>1, <2>2, <2>3 DEF ArenaInv
  <2>5. QED
    BY <2>1, <2>2, <2>3, <2>4 DEF LiveObjects
<1>2. CASE g_free = <<>>
  <2>1. s = g_next /\ g_next' = g_next + 1 /\ g_free' = g_free /\ g_live' = g_live \cup {s}
    BY <1>2 DEF sync_obj_alloc
  <2>2. g_next \notin 1..g_next - 1 /\ 1..(g_next + 1) - 1 = (1..g_next - 1) \cup {g_next}
    OBVIOUS
  <2>3. s \notin g_live /\ s \notin Range(g_free)
    BY <2>1, <2>2 DEF ArenaInv
  <2>4. ArenaInv'
    BY <2>1, <2>2, <2>3 DEF ArenaInv
  <2>5. QED
    BY <2>1, <2>3, <2>4 DEF LiveObjects
<1>3. QED
  BY <1>1, <1>2

\* A fresh object: v names a slot that nothing named.
LEMMA ObjMade ==
  ASSUME ObjIInv, NEW t \in ObjThreads, NEW v \in ObjVars, NEW s \in ObjSlots, sync_obj_alloc(s),
         ocall[t].at \in {"idle", "fresh"}, \A u \in ObjThreads : ocall[u].at \in {"table", "using"} => ocall[u].var # v,
         ovar' = [ovar EXCEPT ![v] = s], ObjGoes(t, "table", v, s, 0), UNCHANGED tables
  PROVE  ObjIInv'
<1>1. /\ s \notin g_live /\ s \notin g_nodes /\ g_mtab[s] = 0 /\ g_live' = g_live \cup {s}
      /\ g_free' \in Seq(ObjSlots) /\ g_next' \in Nat \ {0} /\ ArenaInv'
  BY SlotMade
<1>2. ovar'[v] = s /\ \A w \in ObjVars \ {v} : ovar'[w] = ovar[w]
  BY DEF ObjIInv, ObjTypes
<1>3. /\ ocall'[t] = [at |-> "table", var |-> v, h |-> s, m |-> 0]
      /\ \A u \in ObjThreads \ {t} : ocall'[u] = ocall[u]
  BY DEF ObjIInv, ObjTypes, ObjGoes
<1>4. ObjTypes'
  BY <1>1 DEF ObjIInv, ObjTypes, ObjGoes, ObjCalls, tables
<1>5. MutexListInv' /\ LiveObjects'
  BY <1>1 DEF ObjIInv, MutexListInv, LiveObjects, tables
<1>6. VarInv'
  <2>1. s # 0 /\ \A w \in ObjVars : ovar[w] # s
    BY <1>1 DEF ObjIInv, VarInv, ObjTypes, ObjSlots
  <2>2. g_mtab' = g_mtab /\ g_nodes' = g_nodes
    BY DEF tables
  <2>3. QED
    BY <1>1, <1>2, <2>1, <2>2, ObjAssumption DEF ObjIInv, VarInv, ObjVars
<1>7. ASSUME NEW u \in ObjThreads PROVE ObjCallInv(u)'
  <2>1. g_mtab' = g_mtab /\ g_nodes' = g_nodes /\ s # 0 /\ \A w \in ObjVars : ovar[w] # s
    BY <1>1 DEF tables, ObjSlots, ObjIInv, VarInv
  <2>2. CASE u = t
    BY <1>2, <1>3, <2>1, <2>2 DEF ObjCallInv
  <2>3. CASE u # t
    <3>1. ocall'[u] = ocall[u] /\ ObjCallInv(u)
      BY <1>3, <2>3 DEF ObjIInv
    <3>2. ocall[u].at \in {"table", "using"} => ocall[u].var # v
      OBVIOUS
    <3>3. ocall[u].at \in {"d_table", "d_slot"} => ocall[u].h # s
      BY <1>1, <3>1 DEF ObjCallInv
    <3>4. QED
      BY <1>1, <1>2, <1>3, <2>1, <3>1, <3>2, <3>3 DEF ObjCallInv
  <2>4. QED
    BY <2>2, <2>3
<1>8. QED
  BY <1>1, <1>4, <1>5, <1>6, <1>7 DEF ObjIInv

\* Only t's call changes.
LEMMA ObjCallMoves ==
  ASSUME ObjIInv, NEW t \in ObjThreads, NEW c \in ObjCalls, ocall' = [ocall EXCEPT ![t] = c],
         c.h \in {0, ocall[t].h} \/ \E v \in ObjVars : c.h = ovar[v], UNCHANGED <<ovar, arena, tables>>,
         ObjCallInv(t)'
  PROVE  ObjIInv'
<1>1. ocall'[t] = c /\ \A u \in ObjThreads \ {t} : ocall'[u] = ocall[u]
  BY DEF ObjIInv, ObjTypes
<1>2. ObjTypes' /\ ArenaInv' /\ MutexListInv' /\ LiveObjects' /\ VarInv'
  BY DEF ObjIInv, ObjTypes, ArenaInv, MutexListInv, LiveObjects, VarInv, arena, tables
<1>3. ASSUME NEW u \in ObjThreads, u # t PROVE ObjCallInv(u)'
  <2>1. ocall[u].at \in {"d_table", "d_slot"} => c.h # ocall[u].h
    BY <1>3 DEF ObjIInv, ObjCallInv, ObjTypes, ObjSlots
  <2>2. QED
    BY <1>1, <1>3, <2>1 DEF ObjIInv, ObjCallInv, arena, tables
<1>4. QED
  BY <1>2, <1>3 DEF ObjIInv

\* Every step keeps the invariant.
LEMMA ObjStepInv == ObjIInv /\ [ObjNext]_obj_vars => ObjIInv'
<1> SUFFICES ASSUME ObjIInv, [ObjNext]_obj_vars PROVE ObjIInv'
  OBVIOUS
<1>1. ASSUME NEW t \in ObjThreads, NEW v \in ObjVars, sync_init(t, v) PROVE ObjIInv'
  BY <1>1, ObjMade DEF sync_init
<1>2. ASSUME NEW t \in ObjThreads, NEW v \in ObjVars, sync_handle(t, v) PROVE ObjIInv'
  <2>1. CASE ovar[v] \in g_live
    <3>1. ocall' = [ocall EXCEPT ![t] = [at |-> "table", var |-> v, h |-> ovar[v], m |-> 0]]
          /\ [at |-> "table", var |-> v, h |-> ovar[v], m |-> 0] \in ObjCalls
      BY <1>2, <2>1 DEF sync_handle, ObjGoes, ObjIInv, ObjTypes, ObjCalls
    <3>2. ObjCallInv(t)'
      BY <1>2, <2>1, <3>1 DEF sync_handle, ObjCallInv, ObjIInv, ObjTypes, ObjSlots
    <3>3. QED
      BY <1>2, <3>1, <3>2, ObjCallMoves DEF sync_handle
  <2>2. CASE ovar[v] \notin g_live
    <3>1. ocall' = [ocall EXCEPT ![t] = [at |-> "fresh", var |-> v, h |-> 0, m |-> 0]]
          /\ [at |-> "fresh", var |-> v, h |-> 0, m |-> 0] \in ObjCalls
      BY <1>2, <2>2 DEF sync_handle, ObjGoes, ObjCalls
    <3>2. ObjCallInv(t)'
      BY <1>2, <3>1 DEF ObjCallInv, ObjIInv, ObjTypes
    <3>3. QED
      BY <1>2, <3>1, <3>2, ObjCallMoves DEF sync_handle
  <2>3. QED
    BY <2>1, <2>2
<1>3. ASSUME NEW t \in ObjThreads, handle_fresh(t) PROVE ObjIInv'
  <2> DEFINE v == ocall[t].var
  <2>1. ocall[t].at = "fresh" /\ v \in ObjVars /\ UNCHANGED tables
    BY <1>3 DEF handle_fresh, ObjIInv, ObjCallInv
  <2>2. CASE ovar[v] \in g_live
    <3>1. ocall' = [ocall EXCEPT ![t] = [at |-> "table", var |-> v, h |-> ovar[v], m |-> 0]]
          /\ [at |-> "table", var |-> v, h |-> ovar[v], m |-> 0] \in ObjCalls /\ UNCHANGED <<ovar, arena>>
      BY <1>3, <2>1, <2>2 DEF handle_fresh, ObjGoes, ObjIInv, ObjTypes, ObjCalls
    <3>2. ObjCallInv(t)'
      BY <2>1, <2>2, <3>1 DEF ObjCallInv, ObjIInv, ObjTypes, ObjSlots
    <3>3. QED
      BY <2>1, <3>1, <3>2, ObjCallMoves
  <2>3. CASE ovar[v] \notin g_live
    <3>1. PICK s \in ObjSlots : sync_obj_alloc(s) /\ ovar' = [ovar EXCEPT ![v] = s] /\ ObjGoes(t, "table", v, s, 0)
      BY <1>3, <2>3 DEF handle_fresh
    <3>2. \A u \in ObjThreads : ocall[u].at \in {"table", "using"} => ocall[u].var # v
      BY <2>1, <2>3 DEF ObjIInv, ObjCallInv, VarInv, ObjTypes, ObjCalls
    <3>3. QED
      BY <2>1, <3>1, <3>2, ObjMade
  <2>4. QED
    BY <2>2, <2>3
<1>4. ASSUME NEW t \in ObjThreads, gm_get_locked(t) PROVE ObjIInv'
  <2> DEFINE h == ocall[t].h
             v == ocall[t].var
             m == IF g_mutex_free # <<>> THEN Head(g_mutex_free) ELSE g_mutex_all + 1
  <2>1. ocall[t].at = "table" /\ v \in MutexVars /\ h = ovar[v] /\ h \in ObjSlots /\ UNCHANGED <<ovar, arena>>
    BY <1>4 DEF gm_get_locked, ObjIInv, ObjTypes, ObjCalls, ObjCallInv
  <2>2. h \in g_live /\ h \notin g_nodes /\ (\A w \in NodeVars : ovar[w] # h)
    BY <2>1 DEF ObjIInv, VarInv, ObjSlots, ObjVars
  <2>3. CASE g_mtab[h] # 0
    <3>1. /\ ocall' = [ocall EXCEPT ![t] = [at |-> "using", var |-> v, h |-> h, m |-> g_mtab[h]]]
          /\ [at |-> "using", var |-> v, h |-> h, m |-> g_mtab[h]] \in ObjCalls /\ UNCHANGED tables
      BY <1>4, <2>1, <2>3 DEF gm_get_locked, ObjGoes, ObjCalls, ObjIInv, ObjTypes, ObjVars
    <3>2. ObjCallInv(t)'
      BY <2>1, <2>3, <3>1 DEF ObjCallInv, ObjIInv, ObjTypes, ObjSlots, tables, ObjVars
    <3>3. QED
      BY <2>1, <3>1, <3>2, ObjCallMoves
  <2>4. CASE g_mtab[h] = 0
    <3>1. /\ g_mtab' = [g_mtab EXCEPT ![h] = m]
          /\ g_mutex_free' = IF g_mutex_free # <<>> THEN Tail(g_mutex_free) ELSE <<>>
          /\ g_mutex_all' = Max({g_mutex_all, m}) /\ ObjGoes(t, "using", v, h, m) /\ g_nodes' = g_nodes
      BY <1>4, <2>4 DEF gm_get_locked
    <3>2. /\ m \in Nat \ {0} /\ \A s \in ObjSlots : g_mtab[s] # m
          /\ IsInjective(g_mutex_free') /\ g_mutex_free' \in Seq(Nat) /\ m \notin Range(g_mutex_free')
          /\ Range(g_mutex_free') \subseteq Range(g_mutex_free)
          /\ g_mutex_all' \in Nat /\ g_mutex_all' >= g_mutex_all /\ g_mutex_all' >= m
      <4>0. g_mutex_all \in Nat /\ g_mutex_free \in Seq(Nat) /\ MutexListInv /\ g_mtab \in [ObjSlots -> Nat]
        BY DEF ObjIInv, ObjTypes
      <4>1. CASE g_mutex_free # <<>>
        <5>1. /\ Tail(g_mutex_free) \in Seq(Nat) /\ IsInjective(Tail(g_mutex_free))
              /\ m \in Range(g_mutex_free) /\ Range(Tail(g_mutex_free)) = Range(g_mutex_free) \ {m}
          BY <4>0, <4>1, HeadGoes DEF MutexListInv
        <5>2. m \in 1..g_mutex_all /\ g_mutex_free' = Tail(g_mutex_free)
          BY <3>1, <4>0, <4>1, <5>1 DEF MutexListInv
        <5>3. g_mutex_all' = g_mutex_all
          BY <3>1, <4>0, <5>2, MaxOfTwo
        <5>4. QED
          BY <4>0, <5>1, <5>2, <5>3 DEF MutexListInv
      <4>2. CASE g_mutex_free = <<>>
        <5>1. m = g_mutex_all + 1 /\ g_mutex_free' = <<>> /\ g_mutex_all' = m
          BY <3>1, <4>0, <4>2, MaxOfTwo
        <5>2. Range(<<>>) = {} /\ IsInjective(<<>>) /\ <<>> \in Seq(Nat)
          BY DEF Range, IsInjective
        <5>3. QED
          BY <4>0, <5>1, <5>2 DEF MutexListInv
      <4>3. QED
        BY <4>1, <4>2
    <3>3. /\ ocall'[t] = [at |-> "using", var |-> v, h |-> h, m |-> m]
          /\ \A u \in ObjThreads \ {t} : ocall'[u] = ocall[u]
          /\ g_mtab'[h] = m /\ \A s \in ObjSlots \ {h} : g_mtab'[s] = g_mtab[s]
      BY <2>1, <3>1 DEF ObjIInv, ObjTypes, ObjGoes
    <3>4. ObjTypes'
      BY <2>1, <3>1, <3>2 DEF ObjIInv, ObjTypes, ObjGoes, ObjCalls, ObjVars, arena
    <3>5. MutexListInv'
      <4>1. Range(g_mutex_free') \subseteq 1..g_mutex_all'
        BY <3>2 DEF ObjIInv, MutexListInv, ObjTypes
      <4>2. \A s \in ObjSlots : g_mtab'[s] <= g_mutex_all' /\ g_mtab'[s] \notin Range(g_mutex_free')
        <5>1. ASSUME NEW s \in ObjSlots, s # h PROVE g_mtab'[s] <= g_mutex_all' /\ g_mtab'[s] \notin Range(g_mutex_free')
          <6>1. g_mtab'[s] = g_mtab[s] /\ g_mtab[s] \in Nat /\ g_mutex_all \in Nat /\ g_mtab[s] <= g_mutex_all
            BY <3>3, <5>1 DEF ObjIInv, MutexListInv, ObjTypes
          <6>2. g_mtab[s] \notin Range(g_mutex_free)
            BY DEF ObjIInv, MutexListInv
          <6>3. QED
            BY <3>2, <6>1, <6>2
        <5>2. QED
          BY <2>1, <3>2, <3>3, <5>1
      <4>3. \A r, s \in ObjSlots : r # s /\ g_mtab'[r] # 0 => g_mtab'[r] # g_mtab'[s]
        BY <2>1, <3>2, <3>3 DEF ObjIInv, MutexListInv
      <4>4. QED
        BY <3>2, <4>1, <4>2, <4>3 DEF MutexListInv
    <3>6. ArenaInv' /\ LiveObjects' /\ VarInv'
      BY <2>1, <2>2, <3>1, <3>3 DEF ObjIInv, ObjTypes, ArenaInv, LiveObjects, VarInv, arena, ObjVars
    <3>7. ASSUME NEW u \in ObjThreads PROVE ObjCallInv(u)'
      <4>1. CASE u = t
        BY <2>1, <3>2, <3>3, <4>1 DEF ObjCallInv, ObjSlots, ObjVars
      <4>2. CASE u # t
        <5>1. ocall'[u] = ocall[u] /\ ObjCallInv(u) /\ ocall[u].h \in ObjSlots \cup {0}
          BY <3>3, <4>2 DEF ObjIInv, ObjTypes, ObjCalls
        <5>2. ocall[u].at \in {"d_table", "d_slot"} => ocall[u].h # h
          BY <2>1, <5>1 DEF ObjCallInv, ObjVars
        <5>3. ocall[u].at = "using" /\ ocall[u].var \in MutexVars => ocall[u].h # h
          BY <2>4, <5>1 DEF ObjCallInv
        <5>4. QED
          BY <2>1, <2>2, <3>1, <3>3, <5>1, <5>2, <5>3, <4>2 DEF ObjCallInv, arena, ObjSlots
      <4>3. QED
        BY <4>1, <4>2
    <3>8. QED
      BY <3>4, <3>5, <3>6, <3>7 DEF ObjIInv
  <2>5. QED
    BY <2>3, <2>4
<1>5. ASSUME NEW t \in ObjThreads, get_host_cond(t) PROVE ObjIInv'
  <2> DEFINE h == ocall[t].h
             v == ocall[t].var
  <2>1. /\ ocall[t].at = "table" /\ v \in NodeVars /\ h = ovar[v] /\ h \in ObjSlots
        /\ UNCHANGED <<ovar, arena, g_mtab, g_mutex_free, g_mutex_all>> /\ g_nodes' = g_nodes \cup {h}
    BY <1>5 DEF get_host_cond, ObjIInv, ObjTypes, ObjCalls, ObjCallInv
  <2>2. h \in g_live /\ (\A w \in MutexVars : ovar[w] # h) /\ v \notin MutexVars
    BY <2>1, ObjAssumption DEF ObjIInv, VarInv, ObjSlots, ObjVars
  <2>3. /\ ocall'[t] = [at |-> "using", var |-> v, h |-> h, m |-> 0]
        /\ \A u \in ObjThreads \ {t} : ocall'[u] = ocall[u]
    BY <1>5 DEF get_host_cond, ObjIInv, ObjTypes, ObjGoes
  <2>4. ObjTypes'
    BY <1>5, <2>1 DEF get_host_cond, ObjIInv, ObjTypes, ObjGoes, ObjCalls, ObjVars, arena
  <2>5. ArenaInv' /\ MutexListInv' /\ LiveObjects' /\ VarInv'
    BY <2>1, <2>2 DEF ObjIInv, ArenaInv, MutexListInv, LiveObjects, VarInv, arena
  <2>6. ASSUME NEW u \in ObjThreads PROVE ObjCallInv(u)'
    <3>1. CASE u = t
      BY <2>1, <2>2, <2>3, <3>1 DEF ObjCallInv, ObjSlots, ObjVars
    <3>2. CASE u # t
      <4>1. ocall'[u] = ocall[u] /\ ObjCallInv(u)
        BY <2>3, <3>2 DEF ObjIInv
      <4>2. ocall[u].at \in {"d_table", "d_slot"} => ocall[u].h # h
        BY <2>1, <4>1 DEF ObjCallInv, ObjVars
      <4>3. QED
        BY <2>1, <2>3, <3>2, <4>1, <4>2 DEF ObjCallInv, arena
    <3>3. QED
      BY <3>1, <3>2
  <2>7. QED
    BY <2>4, <2>5, <2>6 DEF ObjIInv
<1>6. ASSUME NEW t \in ObjThreads, sync_return(t) PROVE ObjIInv'
  <2>1. ObjCallInv(t)' /\ NoObjCall \in ObjCalls
    BY <1>6 DEF sync_return, ObjIInv, ObjTypes, ObjCallInv, NoObjCall, ObjCalls
  <2>2. QED
    BY <1>6, <2>1, ObjCallMoves DEF sync_return, NoObjCall
<1>7. ASSUME NEW t \in ObjThreads, NEW v \in ObjVars, sync_handle_take(t, v) PROVE ObjIInv'
  <2>1. /\ ocall[t].at = "idle" /\ UNCHANGED <<arena, tables>> /\ ovar' = [ovar EXCEPT ![v] = 0]
        /\ \A w \in ObjVars \ {v} : ovar[v] # 0 => ovar[w] # ovar[v]
        /\ \A u \in ObjThreads : ocall[u].var # v /\ (ocall[u].h # ovar[v] \/ ovar[v] = 0)
    BY <1>7 DEF sync_handle_take
  <2>2. ovar'[v] = 0 /\ \A w \in ObjVars \ {v} : ovar'[w] = ovar[w]
    BY <2>1 DEF ObjIInv, ObjTypes
  <2>3. ArenaInv' /\ MutexListInv' /\ LiveObjects' /\ g_mtab' = g_mtab /\ g_nodes' = g_nodes /\ g_live' = g_live
    BY <2>1 DEF ObjIInv, ArenaInv, MutexListInv, LiveObjects, arena, tables
  <2>4. VarInv'
    <3>1. 0 \notin g_nodes
      BY DEF ObjIInv, ObjTypes, LiveObjects, ObjSlots
    <3>2. QED
      BY <2>2, <2>3, <3>1 DEF ObjIInv, VarInv, ObjVars
  <2>5. CASE ovar[v] \in g_live
    <3>1. /\ ocall' = [ocall EXCEPT ![t] = [at |-> "d_table", var |-> v, h |-> ovar[v], m |-> 0]]
          /\ ovar[v] # 0
      BY <1>7, <2>5 DEF sync_handle_take, ObjGoes, ObjIInv, ObjTypes, ObjSlots
    <3>2. /\ ocall'[t] = [at |-> "d_table", var |-> v, h |-> ovar[v], m |-> 0]
          /\ \A u \in ObjThreads \ {t} : ocall'[u] = ocall[u]
      BY <3>1 DEF ObjIInv, ObjTypes
    <3>3. ObjTypes'
      BY <2>1, <3>1 DEF ObjIInv, ObjTypes, ObjCalls, arena, tables
    <3>4. ObjCallInv(t)'
      <4>1. \A w \in ObjVars : ovar'[w] # ovar[v]
        BY <2>1, <2>2, <3>1
      <4>2. (v \in NodeVars => g_mtab[ovar[v]] = 0) /\ (v \in MutexVars => ovar[v] \notin g_nodes)
        BY <3>1 DEF ObjIInv, VarInv
      <4>3. \A u \in ObjThreads \ {t} : ocall'[u].h # ovar[v]
        BY <2>1, <3>1, <3>2
      <4>4. QED
        BY <2>3, <2>5, <3>1, <3>2, <4>1, <4>2, <4>3 DEF ObjCallInv
    <3>5. ASSUME NEW u \in ObjThreads, u # t PROVE ObjCallInv(u)'
      <4>1. ObjCallInv(u) /\ ocall'[u] = ocall[u] /\ ocall[u].var # v
        BY <2>1, <3>2, <3>5 DEF ObjIInv
      <4>2. ocall[u].at \in {"d_table", "d_slot"} => ocall[u].h # 0 /\ ocall'[t].h # ocall[u].h
        BY <2>1, <3>1, <3>2, <4>1 DEF ObjIInv, ObjCallInv, ObjTypes, ObjSlots
      <4>3. QED
        BY <2>2, <2>3, <3>2, <4>1, <4>2 DEF ObjCallInv
    <3>6. QED
      BY <2>3, <2>4, <3>3, <3>4, <3>5 DEF ObjIInv
  <2>6. CASE ovar[v] \notin g_live
    <3>1. ovar[v] = 0 /\ ocall' = ocall
      BY <1>7, <2>6 DEF sync_handle_take, ObjIInv, VarInv
    <3>2. ovar' = ovar
      BY <2>1, <3>1 DEF ObjIInv, ObjTypes
    <3>3. QED
      BY <2>1, <3>1, <3>2 DEF ObjIInv, ObjTypes, ArenaInv, MutexListInv, LiveObjects, VarInv, ObjCallInv, arena, tables
  <2>7. QED
    BY <2>5, <2>6
<1>8. ASSUME NEW t \in ObjThreads, destroy_table(t) PROVE ObjIInv'
  <2> DEFINE h == ocall[t].h
             v == ocall[t].var
  <2>1. /\ ocall[t].at = "d_table" /\ v \in ObjVars /\ h \in ObjSlots /\ h \in g_live
        /\ ocall' = [ocall EXCEPT ![t].at = "d_slot"] /\ UNCHANGED <<ovar, arena, g_mutex_all>>
        /\ (\A w \in ObjVars : ovar[w] # h) /\ \A u \in ObjThreads : u # t => ocall[u].h # h
    BY <1>8 DEF destroy_table, ObjIInv, ObjTypes, ObjCallInv, ObjCalls
  <2>2. /\ ocall'[t] = [ocall[t] EXCEPT !.at = "d_slot"] /\ ocall'[t].h = h /\ ocall'[t].var = v
        /\ ocall'[t].at = "d_slot" /\ ocall'[t] \in ObjCalls
        /\ \A u \in ObjThreads \ {t} : ocall'[u] = ocall[u]
    BY <2>1 DEF ObjIInv, ObjTypes, ObjCalls
  <2>3. /\ g_mtab' \in [ObjSlots -> Nat] /\ g_mtab'[h] = 0 /\ \A s \in ObjSlots \ {h} : g_mtab'[s] = g_mtab[s]
        /\ g_nodes' = g_nodes \ {h} /\ g_mutex_free' \in Seq(Nat) /\ MutexListInv'
    <3>1. CASE v \in MutexVars
      <4>1. /\ g_mtab' = [g_mtab EXCEPT ![h] = 0] /\ g_nodes' = g_nodes /\ h \notin g_nodes
            /\ g_mutex_free' = (IF g_mtab[h] # 0 THEN <<g_mtab[h]>> ELSE <<>>) \o g_mutex_free
        BY <1>8, <3>1 DEF destroy_table, ObjIInv, ObjCallInv
      <4>2. /\ g_mtab' \in [ObjSlots -> Nat] /\ g_mtab'[h] = 0 /\ g_mtab[h] \in Nat
            /\ \A s \in ObjSlots \ {h} : g_mtab'[s] = g_mtab[s]
        BY <2>1, <4>1 DEF ObjIInv, ObjTypes
      <4>3. CASE g_mtab[h] = 0
        <5>1. g_mutex_free' = g_mutex_free
          BY <4>1, <4>3 DEF ObjIInv, ObjTypes
        <5>2. g_mtab' = g_mtab
          BY <4>1, <4>3 DEF ObjIInv, ObjTypes
        <5>3. QED
          <6>1. MutexListInv'
            BY <2>1, <5>1, <5>2 DEF ObjIInv, MutexListInv
          <6>2. g_mutex_free' \in Seq(Nat)
            BY <5>1 DEF ObjIInv, ObjTypes
          <6>3. QED
            BY <4>1, <4>2, <6>1, <6>2
      <4>4. CASE g_mtab[h] # 0
        <5>1. g_mutex_free' = <<g_mtab[h]>> \o g_mutex_free
          BY <4>1, <4>4
        <5>2. /\ g_mutex_free' \in Seq(Nat) /\ IsInjective(g_mutex_free')
              /\ Range(g_mutex_free') = Range(g_mutex_free) \cup {g_mtab[h]}
          <6>1. /\ IsInjective(g_mutex_free) /\ g_mutex_free \in Seq(Nat) /\ g_mtab[h] \in Nat
                /\ g_mtab[h] \notin Range(g_mutex_free)
            BY <2>1, <4>2 DEF ObjIInv, ObjTypes, MutexListInv
          <6>2. QED
            BY <5>1, <6>1, JoinsFront
        <5>3. Range(g_mutex_free') \subseteq 1..g_mutex_all
          BY <2>1, <4>2, <4>4, <5>2 DEF ObjIInv, MutexListInv, ObjTypes
        <5>4. \A s \in ObjSlots : g_mtab'[s] <= g_mutex_all /\ g_mtab'[s] \notin Range(g_mutex_free')
          <6>1. \A s \in ObjSlots : g_mtab[s] <= g_mutex_all /\ g_mtab[s] \notin Range(g_mutex_free)
            BY DEF ObjIInv, MutexListInv
          <6>2. \A s \in ObjSlots \ {h} : g_mtab[s] # g_mtab[h]
            BY <2>1, <4>4 DEF ObjIInv, MutexListInv
          <6>3. 0 <= g_mutex_all /\ 0 \notin 1..g_mutex_all
            BY DEF ObjIInv, ObjTypes
          <6>4. QED
            BY <4>2, <5>2, <5>3, <6>1, <6>2, <6>3
        <5>5. \A r, s \in ObjSlots : r # s /\ g_mtab'[r] # 0 => g_mtab'[r] # g_mtab'[s]
          BY <2>1, <4>2 DEF ObjIInv, MutexListInv
        <5>6. QED
          BY <2>1, <4>1, <4>2, <5>2, <5>3, <5>4, <5>5 DEF MutexListInv
      <4>5. QED
        BY <4>3, <4>4
    <3>2. CASE v \notin MutexVars
      BY <1>8, <2>1, <3>2 DEF destroy_table, ObjIInv, ObjTypes, ObjCallInv, ObjVars, MutexListInv
    <3>3. QED
      BY <3>1, <3>2
  <2>4. ObjTypes'
    BY <2>1, <2>2, <2>3 DEF ObjIInv, ObjTypes, arena
  <2>5. ArenaInv' /\ LiveObjects' /\ VarInv'
    <3>1. ArenaInv' /\ LiveObjects'
      BY <2>1, <2>3 DEF ObjIInv, ArenaInv, LiveObjects, arena
    <3>2. \A w \in NodeVars : ovar[w] # 0 => ovar[w] \in ObjSlots \ {h}
      BY <2>1 DEF ObjIInv, ObjTypes, ObjVars
    <3>3. QED
      BY <2>1, <2>3, <3>1, <3>2 DEF ObjIInv, VarInv, arena
  <2>6. ASSUME NEW u \in ObjThreads PROVE ObjCallInv(u)'
    <3>1. CASE u = t
      BY <2>1, <2>2, <2>3, <3>1 DEF ObjCallInv, arena
    <3>2. CASE u # t
      <4>1. ocall'[u] = ocall[u] /\ ObjCallInv(u) /\ ocall[u].h \in (ObjSlots \ {h}) \cup {0}
        BY <2>1, <2>2, <3>2 DEF ObjIInv, ObjTypes, ObjCalls
      <4>2. ocall[u].at \in {"d_table", "d_slot"} => ocall[u].h \in ObjSlots \ {h}
        BY <4>1 DEF ObjIInv, ObjCallInv, ObjTypes, ObjSlots
      <4>3. \A x \in ObjThreads : ocall'[x].h = ocall[x].h
        BY <2>2
      <4>4. ocall[u].at = "using" => ocall[u].h \in ObjSlots \ {h}
        BY <4>1 DEF ObjCallInv
      <4>5. QED
        BY <2>1, <2>3, <4>1, <4>2, <4>3, <4>4 DEF ObjCallInv, arena
    <3>3. QED
      BY <3>1, <3>2
  <2>7. QED
    BY <2>3, <2>4, <2>5, <2>6 DEF ObjIInv
<1>9. ASSUME NEW t \in ObjThreads, sync_obj_free(t) PROVE ObjIInv'
  <2> DEFINE h == ocall[t].h
  <2>1. /\ ocall[t].at = "d_slot" /\ h \in ObjSlots /\ h \in g_live /\ UNCHANGED <<g_next, ovar, tables>>
        /\ g_live' = g_live \ {h} /\ g_free' = Append(g_free, h) /\ ocall' = [ocall EXCEPT ![t] = NoObjCall]
        /\ (\A w \in ObjVars : ovar[w] # h) /\ (\A u \in ObjThreads : u # t => ocall[u].h # h)
        /\ g_mtab[h] = 0 /\ h \notin g_nodes
    BY <1>9 DEF sync_obj_free, ObjIInv, ObjTypes, ObjCallInv
  <2>2. ocall'[t] = NoObjCall /\ \A u \in ObjThreads \ {t} : ocall'[u] = ocall[u]
    BY <2>1 DEF ObjIInv, ObjTypes
  <2>3. /\ g_free' \in Seq(ObjSlots) /\ IsInjective(g_free') /\ Range(g_free') = Range(g_free) \cup {h}
    BY <2>1, JoinsEnd DEF ObjIInv, ObjTypes, ArenaInv
  <2>4. ArenaInv'
    BY <2>1, <2>3 DEF ObjIInv, ArenaInv
  <2>5. ObjTypes'
    BY <2>1, <2>3 DEF ObjIInv, ObjTypes, ObjCalls, NoObjCall, tables
  <2>6. MutexListInv' /\ LiveObjects' /\ VarInv'
    BY <2>1 DEF ObjIInv, MutexListInv, LiveObjects, VarInv, tables
  <2>7. ASSUME NEW u \in ObjThreads PROVE ObjCallInv(u)'
    <3>1. CASE u = t
      BY <2>2, <3>1 DEF ObjCallInv, NoObjCall
    <3>2. CASE u # t
      <4>1. ocall'[u] = ocall[u] /\ ObjCallInv(u) /\ ocall[u].h # h
        BY <2>1, <2>2, <3>2 DEF ObjIInv
      <4>2. ocall[u].at \in {"d_table", "d_slot"} => ocall[u].h # 0
        BY <4>1 DEF ObjIInv, ObjCallInv, ObjTypes, ObjSlots
      <4>3. QED
        BY <2>1, <2>2, <4>1, <4>2 DEF ObjCallInv, tables, NoObjCall
    <3>3. QED
      BY <3>1, <3>2
  <2>8. QED
    BY <2>4, <2>5, <2>6, <2>7 DEF ObjIInv
<1>10. ASSUME NEW v \in ObjVars, NEW w \in ObjVars, handle_copy(v, w) PROVE ObjIInv'
  <2>1. /\ {v, w} \subseteq MutexVars \/ {v, w} \subseteq NodeVars
        /\ Alive(v) /\ \A t \in ObjThreads : ocall[t].var # w
        /\ ovar' = [ovar EXCEPT ![w] = ovar[v]] /\ UNCHANGED <<arena, tables, ocall>>
    BY <1>10 DEF handle_copy
  <2>2. ovar'[w] = ovar[v] /\ \A x \in ObjVars \ {w} : ovar'[x] = ovar[x]
    BY <2>1 DEF ObjIInv, ObjTypes
  <2>3. ObjTypes' /\ ArenaInv' /\ MutexListInv' /\ LiveObjects'
    BY <2>1 DEF ObjIInv, ObjTypes, ArenaInv, MutexListInv, LiveObjects, arena, tables
  <2>4. VarInv'
    BY <2>1, <2>2, ObjAssumption DEF ObjIInv, VarInv, ObjVars, arena, tables
  <2>5. ASSUME NEW t \in ObjThreads PROVE ObjCallInv(t)'
    <3>1. ocall'[t] = ocall[t] /\ ObjCallInv(t) /\ ocall[t].var # w
      BY <2>1 DEF ObjIInv
    <3>2. QED
      BY <2>1, <2>2, <3>1 DEF ObjCallInv, arena, tables
  <2>6. QED
    BY <2>3, <2>4, <2>5 DEF ObjIInv
<1>11. CASE UNCHANGED obj_vars
  BY <1>11 DEF obj_vars, ObjIInv, ObjTypes, ArenaInv, MutexListInv, LiveObjects, VarInv, ObjCallInv
<1>12. QED
  BY <1>1, <1>2, <1>3, <1>4, <1>5, <1>6, <1>7, <1>8, <1>9, <1>10, <1>11 DEF ObjNext, get_host_rwlock

-----------------------------------------------------------------------------
(* Save data.  A process may end between any two writes of a call: SavedInv *)
(* says what the files of a save hold at every write of it, PointsInv that *)
(* the mount table of the file system is the table of mounted saves.       *)
SaveVals == {Missing, Empty, Default} \cup SaveValues
MountEntries == [prefix : MountSlots, host : SaveDirs, active : BOOLEAN]
SaveTypes ==
  /\ sd_mounts \in [MountSlots -> SaveDirs \cup {NoSave}]
  /\ sd_files \in [SaveDirs -> [sfo : SaveVals, bin : SaveVals]]
  /\ sd_mem \in [user : SaveUsers \cup {NoSave}, cache : SaveVals, dirty : BOOLEAN]
  /\ mem_file \in [SaveUsers -> SaveVals] /\ mem_tmp \in [SaveUsers -> SaveVals]
  /\ sd_call \in [at : {"idle", "sfo", "sfo_open", "bin", "bin_open", "stored", "delete", "tmp", "rename"},
                  dir : SaveDirs \cup {NoSave}, val : {Default} \cup SaveValues, mount : BOOLEAN]
  /\ sd_said \in [param : [SaveDirs -> SaveVals], mem : [SaveUsers -> SaveVals]]
  /\ sd_count \in [mounts : Nat, crashes : Nat]
  /\ g_mounts \in Seq(MountEntries)

\* What a call under way names: a save, or the save data memory.
SaveCallInv ==
  /\ sd_call.at = "idle" => sd_call = NoCallNow
  /\ sd_call.at \in {"tmp", "rename"} => sd_call.dir = NoSave /\ sd_mem.cache # Missing /\ ~sd_call.mount
  /\ sd_call.at \in {"sfo", "sfo_open", "bin", "bin_open", "stored", "delete"} => sd_call.dir \in SaveDirs
  /\ sd_call.at = "delete" => sd_said.param[sd_call.dir] = Default
  /\ sd_call.mount => sd_call.val = Default /\ MountedAt(sd_call.dir) = {} /\ sd_count.mounts < SaveMounts
  /\ sd_count.crashes <= SaveCrashes

\* Both files of save d hold v, or there is no save and v is the default.
StoredBoth(d, v) ==
  \/ sd_files[d].sfo = v /\ sd_files[d].bin = v /\ v \notin {Missing, Empty}
  \/ sd_files[d].sfo = Missing /\ sd_files[d].bin = Missing /\ v = Default
\* As StoredBoth, of param.bin alone.
StoredBin(d, v) ==
  \/ sd_files[d].bin = v /\ v \notin {Missing, Empty}
  \/ sd_files[d].bin = Missing /\ v = Default

\* What is on disk of save d: with no call under way the parameters load; a
\* process that found two good files leaves one when it ends.
SavedInv(d) ==
  /\ sd_call.dir # d => sd_load_param(d) = sd_said.param[d]
  /\ sd_call.dir = d /\ sd_call.at \in {"bin", "bin_open", "stored"} => sd_files[d].sfo = sd_call.val
  /\ sd_call.dir = d /\ sd_call.at = "stored" => sd_files[d].bin = sd_call.val
  /\ sd_count.crashes < SaveCrashes =>
       /\ sd_call.dir # d \/ sd_call.at = "sfo" => StoredBoth(d, sd_said.param[d])
       /\ sd_call.dir = d /\ sd_call.at = "sfo_open" =>
            sd_files[d].sfo = Empty /\ StoredBin(d, sd_said.param[d])

\* memory.dat is what the last sync that returned wrote.
SavedMemInv ==
  /\ \A u \in SaveUsers : mem_file[u] = sd_said.mem[u]
  /\ sd_mem.cache # Missing => sd_mem.user \in SaveUsers
  /\ sd_mem.cache # Missing /\ ~sd_mem.dirty => mem_file[sd_mem.user] \in {sd_mem.cache, Missing}
  /\ sd_call.at = "rename" => mem_tmp[sd_mem.user] = sd_mem.cache

\* A mounted save is in one slot, with one entry of the mount table.
PointsInv ==
  /\ \A i, k \in MountSlots : sd_mounts[i] = sd_mounts[k] /\ sd_mounts[i] # NoSave => i = k
  /\ \A j, k \in DOMAIN g_mounts :
       g_mounts[j].active /\ g_mounts[k].active /\ g_mounts[j].prefix = g_mounts[k].prefix => j = k
  /\ \A j \in DOMAIN g_mounts : g_mounts[j].active => sd_mounts[g_mounts[j].prefix] = g_mounts[j].host
  /\ \A i \in MountSlots : sd_mounts[i] # NoSave => \E j \in DOMAIN g_mounts : g_mounts[j].active /\ g_mounts[j].prefix = i
  /\ Len(g_mounts) <= sd_count.mounts /\ sd_count.mounts <= SaveMounts

SaveIInv == SaveTypes /\ SaveCallInv /\ (\A d \in SaveDirs : SavedInv(d)) /\ SavedMemInv /\ PointsInv

\* Two names a save's contents and directory do not have; no more mounts than
\* the file system has entries; and one process that ends in a call.
SaveSound ==
  /\ Missing \notin SaveValues /\ Empty \notin SaveValues /\ NoSave \notin SaveDirs
  /\ SaveMounts <= MAX_VFS_MOUNTS /\ SaveCrashes <= 1

LEMMA SaveConstants ==
  /\ SD_MAX_MOUNTS \in Nat \ {0} /\ SaveMounts \in Nat /\ SaveCrashes \in Nat /\ MAX_VFS_MOUNTS \in Nat
  /\ MountSlots \subseteq Nat /\ IsFiniteSet(MountSlots)
<1>1. SD_MAX_MOUNTS - 1 \in Int /\ 0 \in Int
  BY SaveAssumption
<1>2. IsFiniteSet(MountSlots)
  BY <1>1, FS_Interval DEF MountSlots
<1>3. QED
  BY <1>2, SaveAssumption, VfsAssumption DEF MountSlots

LEMMA SaveInitInv == SaveInit => SaveIInv
<1> SUFFICES ASSUME SaveInit PROVE SaveIInv
  OBVIOUS
<1>1. g_mounts = <<>> /\ Len(g_mounts) = 0 /\ DOMAIN g_mounts = {} /\ g_mounts \in Seq(MountEntries)
  BY DEF SaveInit, ps4_vfs_init
<1>2. SaveTypes
  BY <1>1 DEF SaveInit, SaveTypes, NoCallNow, NoMem, SaveVals
<1>3. SaveCallInv
  BY SaveConstants DEF SaveInit, SaveCallInv, NoCallNow
<1>4. ASSUME NEW d \in SaveDirs PROVE SavedInv(d)
  BY <1>4 DEF SaveInit, SavedInv, NoCallNow, sd_load_param, StoredBoth, Missing, Empty, Default
<1>5. SavedMemInv
  BY DEF SaveInit, SavedMemInv, NoMem, NoCallNow
<1>6. PointsInv
  BY <1>1, SaveConstants DEF SaveInit, PointsInv
<1>7. QED
  BY <1>2, <1>3, <1>4, <1>5, <1>6 DEF SaveIInv

\* The entry of a prefix.
LEMMA MountOfIs ==
  ASSUME SaveIInv, NEW p \in MountSlots
  PROVE  /\ MountOf(p) \in 1..Len(g_mounts) + 1 /\ Len(g_mounts) \in Nat
         /\ MountOf(p) <= Len(g_mounts) => g_mounts[MountOf(p)].active /\ g_mounts[MountOf(p)].prefix = p
         /\ \A j \in DOMAIN g_mounts : g_mounts[j].active /\ g_mounts[j].prefix = p => MountOf(p) = j
<1>1. DOMAIN g_mounts = 1..Len(g_mounts) /\ Len(g_mounts) \in Nat
  BY DEF SaveIInv, SaveTypes
<1> DEFINE S == {i \in DOMAIN g_mounts : g_mounts[i].active /\ g_mounts[i].prefix = p} \cup {Len(g_mounts) + 1}
<1>2. S \subseteq Nat /\ S # {} /\ S \subseteq 1..Len(g_mounts) + 1
  BY <1>1
<1>3. Min(S) \in S /\ \A y \in S : Min(S) <= y
  BY <1>2, LeastOf
<1>4. MountOf(p) = Min(S)
  BY DEF MountOf
<1> DEFINE m == MountOf(p)
<1>5. m \in S /\ \A y \in S : m <= y
  BY <1>3, <1>4
<1> HIDE DEF m
<1>6. m \in 1..Len(g_mounts) + 1
  BY <1>2, <1>5
<1>7. m <= Len(g_mounts) => m \in DOMAIN g_mounts /\ g_mounts[m].active /\ g_mounts[m].prefix = p
  BY <1>1, <1>5
<1>8. ASSUME NEW j \in DOMAIN g_mounts, g_mounts[j].active, g_mounts[j].prefix = p PROVE m = j
  <2>1. j \in S /\ m <= j /\ m <= Len(g_mounts)
    BY <1>1, <1>5, <1>6, <1>8
  <2>2. QED
    BY <1>7, <1>8, <2>1 DEF SaveIInv, PointsInv
<1>9. QED
  BY <1>1, <1>6, <1>7, <1>8 DEF m

\* Where the paths under a mount point go.
LEMMA SaveInvIs == ASSUME SaveSound, SaveIInv PROVE SaveDurable /\ MountsResolve
<1>1. ASSUME NEW d \in SaveDirs
      PROVE  \/ sd_load_param(d) = sd_said.param[d]
             \/ sd_call.dir = d /\ (sd_load_param(d) = sd_call.val \/ sd_call.at = "delete" \/ sd_count.crashes = SaveCrashes)
  <2>1. CASE sd_call.dir # d
    BY <2>1 DEF SaveIInv, SavedInv
  <2>2. CASE sd_call.dir = d /\ sd_count.crashes < SaveCrashes
    <3>1. SavedInv(d)
      BY DEF SaveIInv
    <3>2. sd_call.at \in {"sfo", "sfo_open", "bin", "bin_open", "stored", "delete"}
      BY <2>2, <1>1 DEF SaveIInv, SaveTypes, SaveCallInv, SaveSound, NoCallNow
    <3>3. sd_call.val \notin {Missing, Empty}
      BY DEF SaveIInv, SaveTypes, SaveSound, Missing, Empty, Default
    <3>4. CASE sd_call.at = "sfo"
      BY <2>2, <3>1, <3>4 DEF SavedInv, StoredBoth, sd_load_param
    <3>5. CASE sd_call.at = "sfo_open"
      BY <2>2, <3>1, <3>5 DEF SavedInv, StoredBin, sd_load_param
    <3>6. CASE sd_call.at \in {"bin", "bin_open", "stored"}
      BY <2>2, <3>1, <3>3, <3>6 DEF SavedInv, sd_load_param
    <3>7. QED
      BY <2>2, <3>2, <3>4, <3>5, <3>6
  <2>3. sd_count.crashes \in Nat /\ sd_count.crashes <= SaveCrashes
    BY DEF SaveIInv, SaveTypes, SaveCallInv
  <2>4. QED
    BY <2>1, <2>2, <2>3, SaveConstants
<1>2. SaveDurable
  BY <1>1 DEF SaveDurable, SaveIInv, SavedMemInv
<1>3. ASSUME NEW d \in SaveDirs PROVE Cardinality(MountedAt(d)) <= 1
  <2>1. \A i, k \in MountedAt(d) : i = k
    BY DEF MountedAt, SaveIInv, PointsInv, SaveSound
  <2>2. CASE MountedAt(d) = {}
    BY <2>2, FS_EmptySet
  <2>3. CASE MountedAt(d) # {}
    <3>1. PICK i \in MountedAt(d) : TRUE
      BY <2>3
    <3>2. MountedAt(d) = {i}
      BY <2>1, <3>1
    <3>3. Cardinality({i}) = 1
      BY FS_Singleton
    <3>4. QED
      BY <3>2, <3>3
  <2>4. QED
    BY <2>2, <2>3
<1>4. ASSUME NEW i \in MountSlots, sd_mounts[i] # NoSave PROVE ps4_vfs_resolve(i) = sd_mounts[i]
  <2>1. PICK j \in DOMAIN g_mounts : g_mounts[j].active /\ g_mounts[j].prefix = i
    BY <1>4 DEF SaveIInv, PointsInv
  <2>2. MountOf(i) = j /\ DOMAIN g_mounts = 1..Len(g_mounts)
    BY <2>1, MountOfIs DEF SaveIInv, SaveTypes
  <2>3. Mounted(i) /\ sd_mounts[i] = g_mounts[j].host
    BY <2>1, <2>2, MountOfIs DEF Mounted, SaveIInv, PointsInv
  <2>4. QED
    BY <2>2, <2>3 DEF ps4_vfs_resolve
<1>5. QED
  BY <1>2, <1>3, <1>4 DEF MountsResolve

-----------------------------------------------------------------------------
\* A step that writes none of what a part of the invariant is about keeps it.
LEMMA PointsSame == ASSUME PointsInv, UNCHANGED <<sd_mounts, sd_count, g_mounts>> PROVE PointsInv'
  BY DEF PointsInv
LEMMA SavedMemSame ==
  ASSUME SavedMemInv, UNCHANGED <<sd_mem, mem_file, mem_tmp>>, sd_said'.mem = sd_said.mem, sd_call'.at # "rename"
  PROVE  SavedMemInv'
  BY DEF SavedMemInv

\* The prefixes of the mounted saves that end are given up.
LEMMA UnmountKeeps ==
  ASSUME SaveIInv, NEW S \in SUBSET MountSlots, ps4_vfs_unmount(S), UNCHANGED sd_count,
         sd_mounts' = [i \in MountSlots |-> IF i \in S THEN NoSave ELSE sd_mounts[i]]
  PROVE  PointsInv' /\ g_mounts' \in Seq(MountEntries) /\ sd_mounts' \in [MountSlots -> SaveDirs \cup {NoSave}]
<1>1. DOMAIN g_mounts = 1..Len(g_mounts) /\ Len(g_mounts) \in Nat /\ \A j \in DOMAIN g_mounts : g_mounts[j] \in MountEntries
  BY DEF SaveIInv, SaveTypes
<1>2. g_mounts' = [i \in DOMAIN g_mounts |->
                    IF \E p \in S : i = MountOf(p) THEN [g_mounts[i] EXCEPT !.active = FALSE] ELSE g_mounts[i]]
  BY DEF ps4_vfs_unmount
<1>3. ASSUME NEW j \in DOMAIN g_mounts
      PROVE  /\ g_mounts'[j] \in MountEntries
             /\ g_mounts'[j].prefix = g_mounts[j].prefix /\ g_mounts'[j].host = g_mounts[j].host
             /\ g_mounts'[j].active <=> g_mounts[j].active /\ g_mounts[j].prefix \notin S
  <2>1. g_mounts[j] \in MountEntries /\ g_mounts[j].prefix \in MountSlots
    BY <1>1 DEF MountEntries
  <2>2. CASE \E p \in S : j = MountOf(p)
    <3>1. PICK p \in S : j = MountOf(p)
      BY <2>2
    <3>2. g_mounts[j].prefix = p
      BY <1>1, <3>1, MountOfIs
    <3>3. g_mounts'[j] = [g_mounts[j] EXCEPT !.active = FALSE]
      BY <1>2, <2>2
    <3>4. QED
      BY <2>1, <3>2, <3>3 DEF MountEntries
  <2>3. CASE ~\E p \in S : j = MountOf(p)
    <3>1. g_mounts'[j] = g_mounts[j]
      BY <1>2, <2>3
    <3>2. g_mounts[j].active => g_mounts[j].prefix \notin S
      BY <2>1, <2>3, MountOfIs
    <3>3. QED
      BY <2>1, <3>1, <3>2
  <2>4. QED
    BY <2>2, <2>3
<1>4. DOMAIN g_mounts' = DOMAIN g_mounts
  BY <1>2
<1>5. g_mounts' \in Seq(MountEntries) /\ Len(g_mounts') = Len(g_mounts)
  <2>1. g_mounts' \in [1..Len(g_mounts) -> MountEntries]
    BY <1>1, <1>2, <1>3
  <2>2. QED
    BY <1>1, <2>1
<1>6. sd_mounts \in [MountSlots -> SaveDirs \cup {NoSave}]
  BY DEF SaveIInv, SaveTypes
<1>7. sd_mounts' \in [MountSlots -> SaveDirs \cup {NoSave}]
  BY <1>6
<1>8. \A i \in MountSlots : (i \in S => sd_mounts'[i] = NoSave) /\ (i \notin S => sd_mounts'[i] = sd_mounts[i])
  OBVIOUS
<1>9. PointsInv
  BY DEF SaveIInv
<1>10. \A j \in DOMAIN g_mounts : g_mounts[j].prefix \in MountSlots
  BY <1>1 DEF MountEntries
<1>11. \A i, k \in MountSlots : sd_mounts'[i] = sd_mounts'[k] /\ sd_mounts'[i] # NoSave => i = k
  BY <1>8, <1>9 DEF PointsInv
<1>12. \A j, k \in DOMAIN g_mounts :
         g_mounts'[j].active /\ g_mounts'[k].active /\ g_mounts'[j].prefix = g_mounts'[k].prefix => j = k
  BY <1>3, <1>9 DEF PointsInv
<1>13. \A j \in DOMAIN g_mounts : g_mounts'[j].active => sd_mounts'[g_mounts'[j].prefix] = g_mounts'[j].host
  BY <1>3, <1>8, <1>9, <1>10 DEF PointsInv
<1>14. ASSUME NEW i \in MountSlots, sd_mounts'[i] # NoSave
       PROVE  \E j \in DOMAIN g_mounts : g_mounts'[j].active /\ g_mounts'[j].prefix = i
  <2>1. i \notin S /\ sd_mounts[i] # NoSave
    BY <1>8, <1>14
  <2>2. QED
    BY <1>3, <1>9, <2>1 DEF PointsInv
<1>15. QED
  BY <1>4, <1>5, <1>7, <1>9, <1>11, <1>12, <1>13, <1>14 DEF PointsInv

\* A save that is in no slot gets a free one and an entry for its prefix.
LEMMA MountKeeps ==
  ASSUME SaveSound, SaveIInv, NEW d \in SaveDirs, MountedAt(d) = {}, take_mount_slot(d), sd_count.mounts < SaveMounts
  PROVE  /\ PointsInv' /\ g_mounts' \in Seq(MountEntries) /\ sd_mounts' \in [MountSlots -> SaveDirs \cup {NoSave}]
         /\ sd_count' \in [mounts : Nat, crashes : Nat] /\ sd_count'.crashes = sd_count.crashes
<1> DEFINE s == Min(FreeMounts)
<1>1. FreeMounts \subseteq Nat /\ FreeMounts # {}
  BY SaveConstants DEF FreeMounts, take_mount_slot
<1>2. s \in FreeMounts
  BY <1>1, LeastOf
<1>3. /\ sd_mounts' = [sd_mounts EXCEPT ![s] = d] /\ ps4_vfs_mount(s, d)
      /\ sd_count' = [sd_count EXCEPT !.mounts = @ + 1]
  BY DEF take_mount_slot
<1> HIDE DEF s
<1>4. s \in MountSlots /\ sd_mounts[s] = NoSave
  BY <1>2 DEF FreeMounts
<1>5. DOMAIN g_mounts = 1..Len(g_mounts) /\ Len(g_mounts) \in Nat /\ g_mounts \in Seq(MountEntries)
  BY DEF SaveIInv, SaveTypes
<1>6. sd_mounts \in [MountSlots -> SaveDirs \cup {NoSave}] /\ sd_count \in [mounts : Nat, crashes : Nat]
  BY DEF SaveIInv, SaveTypes
<1>7. PointsInv
  BY DEF SaveIInv
<1>8. \A j \in DOMAIN g_mounts : g_mounts[j].prefix \in MountSlots /\ g_mounts[j].host \in SaveDirs
  <2>1. \A j \in DOMAIN g_mounts : g_mounts[j] \in MountEntries
    BY <1>5
  <2>2. QED
    BY <2>1 DEF MountEntries
<1>9. \A j \in DOMAIN g_mounts : g_mounts[j].active => g_mounts[j].prefix # s
  BY <1>4, <1>7, <1>8 DEF PointsInv, SaveSound
<1>10. ~Mounted(s)
  <2>1. MountOf(s) \in 1..Len(g_mounts) + 1
    BY <1>4, MountOfIs
  <2>2. ~(MountOf(s) <= Len(g_mounts))
    BY <1>4, <1>5, <1>9, <2>1, MountOfIs
  <2>3. QED
    BY <2>2 DEF Mounted
<1>11. Len(g_mounts) < MAX_VFS_MOUNTS
  BY <1>5, <1>6, <1>7, SaveConstants DEF PointsInv, SaveSound
<1> DEFINE e == [prefix |-> s, host |-> d, active |-> TRUE]
<1>12. g_mounts' = Append(g_mounts, e)
  <2>1. ~(Len(g_mounts) >= MAX_VFS_MOUNTS)
    BY <1>5, <1>11, SaveConstants
  <2>2. QED
    BY <1>3, <1>10, <2>1 DEF ps4_vfs_mount
<1>13. e \in MountEntries /\ e.prefix = s /\ e.host = d /\ e.active
  BY <1>4 DEF MountEntries
<1> HIDE DEF e
<1>14. /\ g_mounts' \in Seq(MountEntries) /\ Len(g_mounts') = Len(g_mounts) + 1
       /\ DOMAIN g_mounts' = 1..Len(g_mounts) + 1 /\ g_mounts'[Len(g_mounts) + 1] = e
       /\ \A j \in 1..Len(g_mounts) : g_mounts'[j] = g_mounts[j]
  BY <1>5, <1>12, <1>13
<1>15. /\ sd_mounts' \in [MountSlots -> SaveDirs \cup {NoSave}] /\ sd_mounts'[s] = d
       /\ \A i \in MountSlots : i # s => sd_mounts'[i] = sd_mounts[i]
  BY <1>3, <1>4, <1>6
<1>16. /\ sd_count' \in [mounts : Nat, crashes : Nat] /\ sd_count'.crashes = sd_count.crashes
       /\ sd_count'.mounts = sd_count.mounts + 1
  BY <1>3, <1>6
<1>17. \A i \in MountSlots : sd_mounts[i] # d
  BY DEF MountedAt
<1>18. \A i, k \in MountSlots : sd_mounts'[i] = sd_mounts'[k] /\ sd_mounts'[i] # NoSave => i = k
  BY <1>7, <1>15, <1>17 DEF PointsInv
<1>19. \A j, k \in DOMAIN g_mounts' :
         g_mounts'[j].active /\ g_mounts'[k].active /\ g_mounts'[j].prefix = g_mounts'[k].prefix => j = k
  <2>1. \A j \in DOMAIN g_mounts' : j \in DOMAIN g_mounts \/ j = Len(g_mounts) + 1
    BY <1>5, <1>14
  <2>2. \A j \in DOMAIN g_mounts : g_mounts'[j] = g_mounts[j]
    BY <1>5, <1>14
  <2>3. QED
    BY <1>7, <1>9, <1>13, <1>14, <2>1, <2>2 DEF PointsInv
<1>20. \A j \in DOMAIN g_mounts' : g_mounts'[j].active => sd_mounts'[g_mounts'[j].prefix] = g_mounts'[j].host
  <2>1. ASSUME NEW j \in DOMAIN g_mounts, g_mounts[j].active PROVE sd_mounts'[g_mounts[j].prefix] = g_mounts[j].host
    BY <1>7, <1>8, <1>9, <1>15, <2>1 DEF PointsInv
  <2>2. QED
    BY <1>5, <1>13, <1>14, <1>15, <2>1
<1>21. ASSUME NEW i \in MountSlots, sd_mounts'[i] # NoSave
       PROVE  \E j \in DOMAIN g_mounts' : g_mounts'[j].active /\ g_mounts'[j].prefix = i
  <2>1. CASE i = s
    BY <1>5, <1>13, <1>14, <2>1
  <2>2. CASE i # s
    <3>1. PICK j \in DOMAIN g_mounts : g_mounts[j].active /\ g_mounts[j].prefix = i
      BY <1>7, <1>15, <1>21, <2>2 DEF PointsInv
    <3>2. j \in DOMAIN g_mounts' /\ g_mounts'[j] = g_mounts[j]
      BY <1>5, <1>14, <3>1
    <3>3. QED
      BY <3>1, <3>2
  <2>3. QED
    BY <2>1, <2>2
<1>22. Len(g_mounts') <= sd_count'.mounts /\ sd_count'.mounts <= SaveMounts
  BY <1>5, <1>6, <1>7, <1>14, <1>16, SaveConstants DEF PointsInv
<1>23. QED
  BY <1>14, <1>15, <1>16, <1>18, <1>19, <1>20, <1>21, <1>22 DEF PointsInv

-----------------------------------------------------------------------------
\* Starting to store, and to delete.
LEMMA StoreKeeps ==
  ASSUME SaveSound, SaveIInv, SaveIdle, NEW d \in SaveDirs, NEW a \in {"sfo", "delete"},
         NEW v \in {Default} \cup SaveValues, NEW m \in BOOLEAN,
         m => v = Default /\ MountedAt(d) = {} /\ sd_count.mounts < SaveMounts,
         sd_call' = [at |-> a, dir |-> d, val |-> v, mount |-> m],
         sd_said' = IF a = "delete" THEN [sd_said EXCEPT !.param[d] = Default] ELSE sd_said,
         UNCHANGED <<sd_mounts, sd_mem, sd_count, g_mounts>>, UNCHANGED on_disk
  PROVE  SaveIInv'
<1>1. SaveTypes /\ SaveCallInv /\ SavedMemInv /\ PointsInv /\ sd_call = NoCallNow
  BY DEF SaveIInv, SaveCallInv, SaveIdle
<1>2. sd_call'.at = a /\ sd_call'.dir = d /\ sd_call'.val = v /\ sd_call'.mount = m
  OBVIOUS
<1>3. sd_call' \in [at : {"idle", "sfo", "sfo_open", "bin", "bin_open", "stored", "delete", "tmp", "rename"},
                    dir : SaveDirs \cup {NoSave}, val : {Default} \cup SaveValues, mount : BOOLEAN]
  OBVIOUS
<1>4. /\ sd_said' \in [param : [SaveDirs -> SaveVals], mem : [SaveUsers -> SaveVals]] /\ sd_said'.mem = sd_said.mem
      /\ \A x \in SaveDirs : x # d => sd_said'.param[x] = sd_said.param[x]
      /\ sd_call'.at = "delete" => sd_said'.param[d] = Default
      /\ sd_call'.at = "sfo" => sd_said'.param = sd_said.param
  <2>1. sd_said \in [param : [SaveDirs -> SaveVals], mem : [SaveUsers -> SaveVals]] /\ Default \in SaveVals
    BY <1>1 DEF SaveTypes, SaveVals
  <2>2. QED
    BY <1>2, <2>1
<1>5. SaveTypes'
  BY <1>1, <1>3, <1>4 DEF SaveTypes, on_disk
<1>6. SaveCallInv'
  BY <1>1, <1>2, <1>4 DEF SaveCallInv, MountedAt
<1>7. ASSUME NEW x \in SaveDirs PROVE SavedInv(x)'
  <2>1. SavedInv(x) /\ sd_call.dir # x
    BY <1>1 DEF SaveIInv, NoCallNow, SaveSound
  <2>2. sd_load_param(x)' = sd_load_param(x) /\ UNCHANGED <<sd_files, sd_count>>
    BY DEF sd_load_param, on_disk
  <2>3. QED
    BY <1>2, <1>4, <2>1, <2>2 DEF SavedInv, StoredBoth, StoredBin
<1>8. SavedMemInv'
  BY <1>1, <1>2, <1>4, SavedMemSame DEF on_disk
<1>9. QED
  BY <1>1, <1>5, <1>6, <1>7, <1>8, PointsSame DEF SaveIInv

\* The writes of a save's files.
LEMMA FilesKeep ==
  ASSUME SaveSound, SaveIInv, sd_write_sfo \/ write_bin \/ sd_rm_cb, NEW d \in SaveDirs, d = sd_call.dir
  PROVE  SaveIInv'
<1>1. SaveTypes /\ SaveCallInv /\ SavedMemInv /\ PointsInv
  BY DEF SaveIInv
<1>2. /\ UNCHANGED <<sd_mounts, sd_mem, mem_file, mem_tmp, sd_said, sd_count, g_mounts>>
      /\ sd_call.at \in {"sfo", "sfo_open", "bin", "bin_open", "delete"}
      /\ \/ sd_call' \in {NoCallNow, sd_call} /\ sd_call.at = "delete"
         \/ \E a \in {"sfo_open", "bin", "bin_open", "stored"} : sd_call' = [sd_call EXCEPT !.at = a] /\ sd_call.at # "delete"
  BY <1>1 DEF sd_write_sfo, write_bin, sd_rm_cb, SaveCallInv
<1>3. /\ sd_files' \in [SaveDirs -> [sfo : SaveVals, bin : SaveVals]]
      /\ \A x \in SaveDirs : x # d => sd_files'[x] = sd_files[x]
  <2>1. sd_files \in [SaveDirs -> [sfo : SaveVals, bin : SaveVals]] /\ Empty \in SaveVals /\ Missing \in SaveVals
        /\ sd_call.val \in SaveVals
    BY <1>1 DEF SaveTypes, SaveVals
  <2>2. QED
    BY <1>2, <2>1 DEF sd_write_sfo, write_bin, sd_rm_cb
<1>4. /\ sd_call' \in [at : {"idle", "sfo", "sfo_open", "bin", "bin_open", "stored", "delete", "tmp", "rename"},
                       dir : SaveDirs \cup {NoSave}, val : {Default} \cup SaveValues, mount : BOOLEAN]
      /\ sd_call'.at \notin {"tmp", "rename"}
      /\ sd_call'.at \in {"sfo", "sfo_open", "bin", "bin_open", "stored", "delete"} =>
           sd_call'.dir = d /\ sd_call'.val = sd_call.val /\ sd_call'.mount = sd_call.mount
      /\ sd_call'.at = "idle" => sd_call' = NoCallNow /\ sd_call.at = "delete"
      /\ sd_call'.at = "delete" => sd_call.at = "delete"
  <2>1. sd_call \in [at : {"idle", "sfo", "sfo_open", "bin", "bin_open", "stored", "delete", "tmp", "rename"},
                     dir : SaveDirs \cup {NoSave}, val : {Default} \cup SaveValues, mount : BOOLEAN]
    BY <1>1 DEF SaveTypes
  <2>2. CASE sd_call' = sd_call /\ sd_call.at = "delete"
    BY <2>1, <2>2
  <2>5. CASE sd_call' = NoCallNow /\ sd_call.at = "delete"
    <3>1. NoCallNow.at = "idle" /\ NoCallNow \in [at : {"idle"}, dir : {NoSave}, val : {Default}, mount : {FALSE}]
      BY DEF NoCallNow
    <3>2. QED
      BY <2>5, <3>1
  <2>3. ASSUME NEW a \in {"sfo_open", "bin", "bin_open", "stored"}, sd_call' = [sd_call EXCEPT !.at = a],
               sd_call.at # "delete"
        PROVE  /\ sd_call'.at = a /\ sd_call'.dir = d /\ sd_call'.val = sd_call.val /\ sd_call'.mount = sd_call.mount
               /\ sd_call' \in [at : {"idle", "sfo", "sfo_open", "bin", "bin_open", "stored", "delete", "tmp", "rename"},
                                dir : SaveDirs \cup {NoSave}, val : {Default} \cup SaveValues, mount : BOOLEAN]
    BY <2>1, <2>3
  <2>4. QED
    BY <1>2, <2>2, <2>3, <2>5
<1>5. SaveTypes'
  BY <1>1, <1>2, <1>3, <1>4 DEF SaveTypes
<1>6. SaveCallInv'
  BY <1>1, <1>2, <1>4 DEF SaveCallInv, MountedAt, NoCallNow, SaveTypes
<1>7. SavedInv(d)'
  <2>1. SavedInv(d) /\ sd_files[d] \in [sfo : SaveVals, bin : SaveVals] /\ d \in DOMAIN sd_files
    BY <1>1, <1>2 DEF SaveIInv, SaveTypes
  <2>2. sd_call.val \notin {Missing, Empty} /\ d # NoSave
    BY <1>1, <1>2 DEF SaveTypes, SaveSound, Missing, Empty, Default
  <2>3. CASE sd_call.at = "sfo"
    <3>1. sd_call' = [sd_call EXCEPT !.at = "sfo_open"] /\ sd_files' = [sd_files EXCEPT ![d].sfo = Empty]
      BY <2>3 DEF sd_write_sfo, write_bin, sd_rm_cb
    <3>2. sd_call'.at = "sfo_open" /\ sd_call'.dir = d /\ sd_files'[d].sfo = Empty /\ sd_files'[d].bin = sd_files[d].bin
      BY <1>4, <2>1, <3>1, <1>1 DEF SaveTypes
    <3>3. sd_count.crashes < SaveCrashes => StoredBin(d, sd_said.param[d])
      BY <2>1, <2>3 DEF SavedInv, StoredBoth, StoredBin
    <3>4. sd_count.crashes < SaveCrashes => StoredBin(d, sd_said.param[d])'
      BY <1>2, <3>2, <3>3 DEF StoredBin
    <3>5. QED
      BY <1>2, <3>2, <3>4 DEF SavedInv
  <2>4. CASE sd_call.at = "sfo_open"
    <3>1. sd_call' = [sd_call EXCEPT !.at = "bin"] /\ sd_files' = [sd_files EXCEPT ![d].sfo = sd_call.val]
      BY <2>4 DEF sd_write_sfo, write_bin, sd_rm_cb
    <3>2. sd_call'.at = "bin" /\ sd_call'.dir = d /\ sd_call'.val = sd_call.val /\ sd_files'[d].sfo = sd_call.val
      BY <1>4, <2>1, <3>1, <1>1 DEF SaveTypes
    <3>3. QED
      BY <3>2 DEF SavedInv
  <2>5. CASE sd_call.at = "bin"
    <3>1. sd_call' = [sd_call EXCEPT !.at = "bin_open"] /\ sd_files' = [sd_files EXCEPT ![d].bin = Empty]
      BY <2>5 DEF sd_write_sfo, write_bin, sd_rm_cb
    <3>2. sd_call'.at = "bin_open" /\ sd_call'.dir = d /\ sd_call'.val = sd_call.val /\ sd_files'[d].sfo = sd_files[d].sfo
      BY <1>4, <2>1, <3>1, <1>1 DEF SaveTypes
    <3>3. QED
      BY <2>1, <2>5, <3>2 DEF SavedInv
  <2>6. CASE sd_call.at = "bin_open"
    <3>1. sd_call' = [sd_call EXCEPT !.at = "stored"] /\ sd_files' = [sd_files EXCEPT ![d].bin = sd_call.val]
      BY <2>6 DEF sd_write_sfo, write_bin, sd_rm_cb
    <3>2. /\ sd_call'.at = "stored" /\ sd_call'.dir = d /\ sd_call'.val = sd_call.val
          /\ sd_files'[d].sfo = sd_files[d].sfo /\ sd_files'[d].bin = sd_call.val
      BY <1>4, <2>1, <3>1, <1>1 DEF SaveTypes
    <3>3. QED
      BY <2>1, <2>6, <3>2 DEF SavedInv
  <2>7. CASE sd_call.at = "delete" /\ sd_call' = sd_call
    BY <1>2, <2>7 DEF SavedInv
  <2>8. CASE sd_call.at = "delete" /\ sd_call' # sd_call
    <3>1. sd_call' = NoCallNow /\ ~sd_save_exists(d) /\ sd_files' = sd_files
      BY <2>8 DEF sd_write_sfo, write_bin, sd_rm_cb
    <3>2. sd_said.param[d] = Default
      BY <1>1, <2>8 DEF SaveCallInv
    <3>3. QED
      BY <1>2, <2>2, <3>1, <3>2 DEF SavedInv, sd_save_exists, sd_load_param, NoCallNow, StoredBoth
  <2>9. QED
    BY <1>2, <2>3, <2>4, <2>5, <2>6, <2>7, <2>8
<1>8. ASSUME NEW x \in SaveDirs, x # d PROVE SavedInv(x)'
  <2>1. SavedInv(x) /\ sd_files'[x] = sd_files[x]
    BY <1>3, <1>8 DEF SaveIInv
  <2>2. sd_call'.dir # x
    BY <1>2, <1>8, <1>4 DEF NoCallNow, SaveSound
  <2>3. sd_load_param(x)' = sd_load_param(x)
    BY <2>1 DEF sd_load_param
  <2>4. QED
    BY <1>2, <1>8, <2>1, <2>2, <2>3 DEF SavedInv, StoredBoth
<1>9. SavedMemInv'
  BY <1>1, <1>2, <1>4, SavedMemSame
<1>10. QED
  BY <1>1, <1>2, <1>5, <1>6, <1>7, <1>8, <1>9, PointsSame DEF SaveIInv

\* What a call that ends says is stored is on disk.
LEMMA StoredEnds ==
  ASSUME SaveSound, SaveIInv, NEW d \in SaveDirs, d = sd_call.dir, NEW v, v = sd_call.val,
         sd_call.at = "stored", sd_call' = NoCallNow, sd_said' = [sd_said EXCEPT !.param[d] = v],
         UNCHANGED sd_mem, UNCHANGED on_disk, sd_count'.crashes = sd_count.crashes,
         sd_count' \in [mounts : Nat, crashes : Nat], g_mounts' \in Seq(MountEntries),
         sd_mounts' \in [MountSlots -> SaveDirs \cup {NoSave}], PointsInv'
  PROVE  SaveIInv'
<1>1. SaveTypes /\ SaveCallInv /\ SavedMemInv
  BY DEF SaveIInv
<1>2. v \in {Default} \cup SaveValues /\ v \in SaveVals /\ v \notin {Missing, Empty}
  BY <1>1 DEF SaveTypes, SaveVals, SaveSound, Missing, Empty, Default
<1>3. /\ sd_said' \in [param : [SaveDirs -> SaveVals], mem : [SaveUsers -> SaveVals]] /\ sd_said'.mem = sd_said.mem
      /\ \A x \in SaveDirs : x # d => sd_said'.param[x] = sd_said.param[x]
      /\ sd_said'.param[d] = v
  <2>1. sd_said \in [param : [SaveDirs -> SaveVals], mem : [SaveUsers -> SaveVals]]
    BY <1>1 DEF SaveTypes
  <2>2. QED
    BY <1>2, <2>1
<1>4. sd_call'.at = "idle" /\ sd_call'.dir = NoSave /\ sd_call'.mount = FALSE /\ sd_call'.val = Default
  BY DEF NoCallNow
<1>5. SaveTypes'
  BY <1>1, <1>3 DEF SaveTypes, NoCallNow, on_disk
<1>6. SaveCallInv'
  BY <1>1, <1>4 DEF SaveCallInv
<1>7. SavedInv(d)'
  <2>1. sd_files[d].sfo = v /\ sd_files[d].bin = v
    BY DEF SaveIInv, SavedInv
  <2>2. sd_load_param(d)' = v
    BY <1>2, <2>1 DEF sd_load_param, on_disk
  <2>3. QED
    BY <1>2, <1>3, <1>4, <2>1, <2>2 DEF SavedInv, StoredBoth, on_disk, SaveSound
<1>8. ASSUME NEW x \in SaveDirs, x # d PROVE SavedInv(x)'
  <2>1. SavedInv(x) /\ sd_files' = sd_files
    BY DEF SaveIInv, on_disk
  <2>2. sd_load_param(x)' = sd_load_param(x)
    BY <2>1 DEF sd_load_param
  <2>3. QED
    BY <1>3, <1>4, <1>8, <2>1, <2>2 DEF SavedInv, StoredBoth, SaveSound
<1>9. SavedMemInv'
  BY <1>1, <1>3, <1>4, SavedMemSame DEF on_disk
<1>10. QED
  BY <1>5, <1>6, <1>7, <1>8, <1>9 DEF SaveIInv

\* A step that only mounts or unmounts.
LEMMA PointsMove ==
  ASSUME SaveSound, SaveIInv, SaveIdle, UNCHANGED <<sd_call, sd_said>>, UNCHANGED on_disk,
         UNCHANGED sd_mem \/ sd_mem' = NoMem,
         sd_count'.crashes = sd_count.crashes, sd_count' \in [mounts : Nat, crashes : Nat],
         g_mounts' \in Seq(MountEntries), sd_mounts' \in [MountSlots -> SaveDirs \cup {NoSave}], PointsInv'
  PROVE  SaveIInv'
<1>1. SaveTypes /\ SaveCallInv /\ SavedMemInv /\ sd_call = NoCallNow
  BY DEF SaveIInv, SaveCallInv, SaveIdle
<1>2. sd_call.at = "idle" /\ sd_call.dir = NoSave /\ sd_call.mount = FALSE
  BY <1>1 DEF NoCallNow
<1>3. NoMem \in [user : SaveUsers \cup {NoSave}, cache : SaveVals, dirty : BOOLEAN] /\ NoMem.cache = Missing
  BY DEF NoMem, SaveVals
<1>4. SaveTypes'
  BY <1>1, <1>3 DEF SaveTypes, on_disk
<1>5. SaveCallInv'
  BY <1>1, <1>2 DEF SaveCallInv
<1>6. ASSUME NEW x \in SaveDirs PROVE SavedInv(x)'
  <2>1. SavedInv(x) /\ sd_files' = sd_files
    BY DEF SaveIInv, on_disk
  <2>2. sd_load_param(x)' = sd_load_param(x)
    BY <2>1 DEF sd_load_param
  <2>3. QED
    BY <2>1, <2>2 DEF SavedInv, StoredBoth, StoredBin
<1>7. SavedMemInv'
  BY <1>1, <1>2, <1>3 DEF SavedMemInv, on_disk
<1>8. QED
  BY <1>4, <1>5, <1>6, <1>7 DEF SaveIInv

LEMMA MountSteps == ASSUME SaveSound, SaveIInv, NEW d \in SaveDirs, sd_mount_internal(d) PROVE SaveIInv'
<1>1. CASE take_mount_slot(d) /\ UNCHANGED sd_call
  <2>1. SaveIdle /\ MountedAt(d) = {} /\ sd_count.mounts < SaveMounts /\ UNCHANGED <<sd_mem, sd_said>> /\ UNCHANGED on_disk
    BY DEF sd_mount_internal
  <2>2. QED
    BY <1>1, <2>1, MountKeeps, PointsMove
<1>2. CASE sd_store_param(d, Default, TRUE) /\ UNCHANGED <<sd_mounts, g_mounts, sd_count>>
  <2>1. SaveIdle /\ MountedAt(d) = {} /\ sd_count.mounts < SaveMounts /\ UNCHANGED <<sd_mem, sd_said>> /\ UNCHANGED on_disk
    BY DEF sd_mount_internal
  <2>2. sd_call' = [at |-> "sfo", dir |-> d, val |-> Default, mount |-> TRUE]
    BY <1>2 DEF sd_store_param
  <2>3. QED
    BY <1>2, <2>1, <2>2, StoreKeeps
<1>3. QED
  BY <1>1, <1>2 DEF sd_mount_internal

LEMMA CreatedSteps == ASSUME SaveSound, SaveIInv, mount_created PROVE SaveIInv'
<1>1. SaveTypes /\ SaveCallInv /\ PointsInv
  BY DEF SaveIInv
<1> DEFINE d == sd_call.dir
<1>2. /\ sd_call.at = "stored" /\ sd_call.mount /\ sd_call' = NoCallNow
      /\ sd_said' = [sd_said EXCEPT !.param[d] = Default] /\ UNCHANGED sd_mem /\ UNCHANGED on_disk
      /\ take_mount_slot(d) \/ UNCHANGED <<sd_mounts, g_mounts, sd_count>>
  BY DEF mount_created
<1>3. d \in SaveDirs /\ sd_call.val = Default /\ MountedAt(d) = {} /\ sd_count.mounts < SaveMounts
  BY <1>1, <1>2 DEF SaveCallInv
<1>4. /\ sd_count' \in [mounts : Nat, crashes : Nat] /\ sd_count'.crashes = sd_count.crashes
      /\ g_mounts' \in Seq(MountEntries) /\ sd_mounts' \in [MountSlots -> SaveDirs \cup {NoSave}] /\ PointsInv'
  <2>1. CASE take_mount_slot(d)
    BY <1>3, <2>1, MountKeeps
  <2>2. CASE UNCHANGED <<sd_mounts, g_mounts, sd_count>>
    BY <1>1, <2>2, PointsSame DEF SaveTypes
  <2>3. QED
    BY <1>2, <2>1, <2>2
<1>5. QED
  BY <1>2, <1>3, <1>4, StoredEnds

LEMMA StoredSteps == ASSUME SaveSound, SaveIInv, param_stored PROVE SaveIInv'
<1>1. SaveTypes /\ SaveCallInv /\ PointsInv
  BY DEF SaveIInv
<1>2. /\ sd_call.at = "stored" /\ sd_call' = NoCallNow /\ UNCHANGED <<sd_mounts, sd_mem, sd_count, g_mounts>>
      /\ sd_said' = [sd_said EXCEPT !.param[sd_call.dir] = sd_call.val] /\ UNCHANGED on_disk
  BY DEF param_stored
<1>3. sd_call.dir \in SaveDirs
  BY <1>1, <1>2 DEF SaveCallInv
<1>4. PointsInv'
  BY <1>1, <1>2, PointsSame
<1>5. QED
  BY <1>1, <1>2, <1>3, <1>4, StoredEnds DEF SaveTypes

LEMMA ParamSteps == ASSUME SaveSound, SaveIInv, NEW d \in SaveDirs, NEW v \in SaveValues, sceSaveDataSetParam(d, v) PROVE SaveIInv'
<1>1. /\ SaveIdle /\ UNCHANGED <<sd_mounts, sd_mem, sd_said, sd_count, g_mounts>> /\ UNCHANGED on_disk
      /\ sd_call' = [at |-> "sfo", dir |-> d, val |-> v, mount |-> FALSE]
  BY DEF sceSaveDataSetParam, sd_store_param
<1>2. QED
  BY <1>1, StoreKeeps

LEMMA DeleteSteps == ASSUME SaveSound, SaveIInv, NEW d \in SaveDirs, sceSaveDataDelete(d) PROVE SaveIInv'
<1>1. /\ SaveIdle /\ UNCHANGED <<sd_mounts, sd_mem, sd_count, g_mounts>> /\ UNCHANGED on_disk
      /\ sd_call' = [NoCallNow EXCEPT !.at = "delete", !.dir = d] /\ sd_said' = [sd_said EXCEPT !.param[d] = Default]
  BY DEF sceSaveDataDelete
<1>2. sd_call' = [at |-> "delete", dir |-> d, val |-> Default, mount |-> FALSE]
  BY <1>1 DEF NoCallNow
<1>3. QED
  BY <1>1, <1>2, StoreKeeps

LEMMA UmountSteps == ASSUME SaveSound, SaveIInv, NEW d \in SaveDirs, sceSaveDataUmount(d) PROVE SaveIInv'
<1>1. /\ SaveIdle /\ UNCHANGED <<sd_mem, sd_call, sd_said, sd_count>> /\ UNCHANGED on_disk /\ ps4_vfs_unmount(MountedAt(d))
      /\ sd_mounts' = [i \in MountSlots |-> IF i \in MountedAt(d) THEN NoSave ELSE sd_mounts[i]]
  BY DEF sceSaveDataUmount
<1>2. MountedAt(d) \in SUBSET MountSlots
  BY DEF MountedAt
<1>3. sd_count \in [mounts : Nat, crashes : Nat]
  BY DEF SaveIInv, SaveTypes
<1>4. QED
  BY <1>1, <1>2, <1>3, UnmountKeeps, PointsMove

LEMMA TerminateSteps == ASSUME SaveSound, SaveIInv, sceSaveDataTerminate PROVE SaveIInv'
<1> DEFINE S == {i \in MountSlots : sd_mounts[i] # NoSave}
<1>1. /\ SaveIdle /\ UNCHANGED <<sd_call, sd_said, sd_count>> /\ UNCHANGED on_disk /\ ps4_vfs_unmount(S)
      /\ sd_mem' = NoMem /\ sd_mounts' = [i \in MountSlots |-> NoSave]
  BY DEF sceSaveDataTerminate
<1>2. sd_mounts' = [i \in MountSlots |-> IF i \in S THEN NoSave ELSE sd_mounts[i]]
  BY <1>1
<1>3. sd_count \in [mounts : Nat, crashes : Nat] /\ S \in SUBSET MountSlots
  BY DEF SaveIInv, SaveTypes
<1>4. QED
  BY <1>1, <1>2, <1>3, UnmountKeeps, PointsMove

\* A process that ends leaves what its call had written.
LEMMA CrashSteps == ASSUME SaveSound, SaveIInv, SaveCrash PROVE SaveIInv'
<1>1. SaveTypes /\ SaveCallInv /\ SavedMemInv
  BY DEF SaveIInv
<1>2. /\ sd_mounts' = [i \in MountSlots |-> NoSave] /\ sd_mem' = NoMem /\ sd_call' = NoCallNow /\ g_mounts' = <<>>
      /\ sd_count.crashes < SaveCrashes /\ sd_count' = [mounts |-> 0, crashes |-> sd_count.crashes + 1] /\ UNCHANGED on_disk
      /\ sd_said' = IF sd_call.dir = NoSave THEN sd_said
                    ELSE [sd_said EXCEPT !.param[sd_call.dir] = sd_load_param(sd_call.dir)]
  BY DEF SaveCrash, Fresh
<1>3. g_mounts' \in Seq(MountEntries) /\ Len(g_mounts') = 0 /\ DOMAIN g_mounts' = {}
  BY <1>2
<1>4. sd_count'.crashes = SaveCrashes /\ sd_count'.mounts = 0 /\ sd_count' \in [mounts : Nat, crashes : Nat]
  BY <1>1, <1>2, SaveConstants DEF SaveTypes, SaveSound
<1>5. \A x \in SaveDirs : sd_load_param(x) \in SaveVals
  BY <1>1 DEF SaveTypes, sd_load_param, SaveVals
<1>6. /\ sd_said' \in [param : [SaveDirs -> SaveVals], mem : [SaveUsers -> SaveVals]] /\ sd_said'.mem = sd_said.mem
      /\ \A x \in SaveDirs : sd_said'.param[x] = IF x = sd_call.dir THEN sd_load_param(x) ELSE sd_said.param[x]
  <2>1. sd_said \in [param : [SaveDirs -> SaveVals], mem : [SaveUsers -> SaveVals]] /\ sd_call.dir \in SaveDirs \cup {NoSave}
    BY <1>1 DEF SaveTypes
  <2>2. CASE sd_call.dir = NoSave
    BY <1>2, <2>1, <2>2 DEF SaveSound
  <2>3. CASE sd_call.dir # NoSave
    <3>1. sd_call.dir \in SaveDirs /\ sd_said' = [sd_said EXCEPT !.param[sd_call.dir] = sd_load_param(sd_call.dir)]
      BY <1>2, <2>1, <2>3
    <3>2. QED
      BY <1>5, <2>1, <3>1
  <2>4. QED
    BY <2>2, <2>3
<1>7. NoCallNow.at = "idle" /\ NoCallNow.dir = NoSave /\ NoCallNow.mount = FALSE /\ NoMem.cache = Missing
  BY DEF NoCallNow, NoMem
<1>8. SaveTypes'
  BY <1>1, <1>2, <1>3, <1>4, <1>6 DEF SaveTypes, NoCallNow, NoMem, SaveVals, on_disk
<1>9. SaveCallInv'
  BY <1>2, <1>4, <1>7, SaveConstants DEF SaveCallInv
<1>10. ASSUME NEW x \in SaveDirs PROVE SavedInv(x)'
  <2>1. sd_load_param(x)' = sd_load_param(x)
    BY <1>2 DEF sd_load_param, on_disk
  <2>2. sd_call.dir # x => sd_load_param(x) = sd_said.param[x]
    BY DEF SaveIInv, SavedInv
  <2>3. sd_load_param(x)' = sd_said'.param[x]
    BY <1>6, <2>1, <2>2
  <2>4. ~(sd_count'.crashes < SaveCrashes) /\ sd_call'.at = "idle"
    BY <1>2, <1>4, <1>7, SaveConstants
  <2>5. QED
    BY <2>3, <2>4 DEF SavedInv
<1>11. SavedMemInv'
  BY <1>1, <1>2, <1>6, <1>7 DEF SavedMemInv, on_disk
<1>12. PointsInv'
  BY <1>2, <1>3, <1>4, SaveConstants DEF PointsInv
<1>13. QED
  BY <1>8, <1>9, <1>10, <1>11, <1>12 DEF SaveIInv

\* The save data memory: a step that leaves the saves and the mounts alone.
LEMMA MemoryMoves ==
  ASSUME SaveSound, SaveIInv, SaveTypes', SavedMemInv', UNCHANGED <<sd_mounts, sd_files, sd_count, g_mounts>>,
         sd_said'.param = sd_said.param, sd_call.dir = NoSave, sd_call'.dir = NoSave, sd_call'.mount = FALSE,
         sd_call'.at \in {"idle", "tmp", "rename"},
         sd_call'.at = "idle" => sd_call' = NoCallNow, sd_call'.at # "idle" => sd_mem'.cache # Missing
  PROVE  SaveIInv'
<1>1. SaveCallInv /\ PointsInv
  BY DEF SaveIInv
<1>2. SaveCallInv'
  BY <1>1 DEF SaveCallInv
<1>3. ASSUME NEW x \in SaveDirs PROVE SavedInv(x)'
  <2>1. SavedInv(x) /\ x # NoSave
    BY DEF SaveIInv, SaveSound
  <2>2. sd_load_param(x)' = sd_load_param(x)
    BY DEF sd_load_param
  <2>3. QED
    BY <2>1, <2>2 DEF SavedInv, StoredBoth
<1>4. QED
  BY <1>1, <1>2, <1>3, PointsSame DEF SaveIInv

LEMMA SetupSteps == ASSUME SaveSound, SaveIInv, NEW u \in SaveUsers, sceSaveDataSetupSaveDataMemory2(u) PROVE SaveIInv'
<1>1. SaveTypes /\ SaveCallInv /\ SavedMemInv /\ sd_call = NoCallNow
  BY DEF SaveIInv, SaveCallInv, sceSaveDataSetupSaveDataMemory2, SaveIdle
<1>2. /\ UNCHANGED <<sd_mounts, sd_call, sd_said, sd_count, g_mounts>> /\ UNCHANGED on_disk
      /\ sd_mem' = [user |-> u, cache |-> IF mem_file[u] = Missing THEN Default ELSE mem_file[u], dirty |-> FALSE]
  BY DEF sceSaveDataSetupSaveDataMemory2
<1>3. /\ sd_mem' \in [user : SaveUsers \cup {NoSave}, cache : SaveVals, dirty : BOOLEAN] /\ sd_mem'.user = u
      /\ mem_file[u] \in {sd_mem'.cache, Missing}
  <2>1. mem_file[u] \in SaveVals /\ Default \in SaveVals
    BY <1>1 DEF SaveTypes, SaveVals
  <2>2. QED
    BY <1>2, <2>1
<1>4. SaveTypes'
  BY <1>1, <1>2, <1>3 DEF SaveTypes, on_disk
<1>5. sd_call.at = "idle" /\ sd_call.dir = NoSave /\ sd_call.mount = FALSE
  BY <1>1 DEF NoCallNow
<1>6. SavedMemInv'
  BY <1>1, <1>2, <1>3, <1>5 DEF SavedMemInv, on_disk
<1>7. QED
  BY <1>1, <1>2, <1>4, <1>5, <1>6, MemoryMoves DEF on_disk

LEMMA MemWriteSteps == ASSUME SaveSound, SaveIInv, NEW v \in SaveValues, save_data_memory_write(v) PROVE SaveIInv'
<1>1. SaveTypes /\ SaveCallInv /\ SavedMemInv /\ sd_call = NoCallNow
  BY DEF SaveIInv, SaveCallInv, save_data_memory_write, SaveIdle
<1>2. /\ UNCHANGED <<sd_mounts, sd_call, sd_said, sd_count, g_mounts>> /\ UNCHANGED on_disk
      /\ sd_mem' = [sd_mem EXCEPT !.cache = v, !.dirty = TRUE] /\ sd_mem.cache # Missing
  BY DEF save_data_memory_write
<1>3. /\ sd_mem' \in [user : SaveUsers \cup {NoSave}, cache : SaveVals, dirty : BOOLEAN] /\ sd_mem'.user = sd_mem.user
      /\ sd_mem'.dirty = TRUE
  BY <1>1, <1>2 DEF SaveTypes, SaveVals
<1>4. SaveTypes'
  BY <1>1, <1>2, <1>3 DEF SaveTypes, on_disk
<1>5. sd_call.at = "idle" /\ sd_call.dir = NoSave /\ sd_call.mount = FALSE
  BY <1>1 DEF NoCallNow
<1>6. SavedMemInv'
  BY <1>1, <1>2, <1>3, <1>5 DEF SavedMemInv, on_disk
<1>7. QED
  BY <1>1, <1>2, <1>4, <1>5, <1>6, MemoryMoves DEF on_disk

LEMMA SyncSteps == ASSUME SaveSound, SaveIInv, sceSaveDataSyncSaveDataMemory PROVE SaveIInv'
<1> DEFINE u == sd_mem.user
           Calls == [at : {"idle", "sfo", "sfo_open", "bin", "bin_open", "stored", "delete", "tmp", "rename"},
                     dir : SaveDirs \cup {NoSave}, val : {Default} \cup SaveValues, mount : BOOLEAN]
<1>1. SaveTypes /\ SaveCallInv /\ SavedMemInv /\ sd_call \in Calls
  BY DEF SaveIInv, SaveTypes
<1>2. UNCHANGED <<sd_mounts, sd_files, sd_count, g_mounts>>
  BY DEF sceSaveDataSyncSaveDataMemory
<1>3. /\ sd_call.at \in {"idle", "tmp", "rename"} /\ sd_call.dir = NoSave /\ sd_call.mount = FALSE /\ sd_mem.cache # Missing
      /\ u \in SaveUsers
  <2>1. sd_call.at \in {"idle", "tmp", "rename"} /\ (sd_call.at = "idle" => sd_mem.cache # Missing)
    BY DEF sceSaveDataSyncSaveDataMemory, SaveIdle
  <2>2. sd_call.dir = NoSave /\ sd_call.mount = FALSE /\ sd_mem.cache # Missing
    BY <1>1, <2>1 DEF SaveCallInv, NoCallNow
  <2>3. QED
    BY <1>1, <2>1, <2>2 DEF SavedMemInv
<1>4. /\ mem_file \in [SaveUsers -> SaveVals] /\ mem_tmp \in [SaveUsers -> SaveVals]
      /\ sd_mem \in [user : SaveUsers \cup {NoSave}, cache : SaveVals, dirty : BOOLEAN]
      /\ sd_said \in [param : [SaveDirs -> SaveVals], mem : [SaveUsers -> SaveVals]]
      /\ Empty \in SaveVals /\ Missing \in SaveVals /\ sd_mem.cache \in SaveVals
  BY <1>1 DEF SaveTypes, SaveVals
<1>5. /\ NoCallNow \in Calls /\ NoCallNow.at = "idle" /\ NoCallNow.dir = NoSave /\ NoCallNow.mount = FALSE
  BY DEF NoCallNow
<1> HIDE DEF u
<1>6. ASSUME UNCHANGED <<sd_mem, sd_said, mem_file>>, NEW a \in SaveVals, mem_tmp' = [mem_tmp EXCEPT ![u] = a],
             sd_call' \in Calls, sd_call'.dir = NoSave, sd_call'.mount = FALSE, sd_call'.at \in {"idle", "tmp", "rename"},
             sd_call'.at = "idle" => sd_call' = NoCallNow, sd_call'.at = "rename" => a = sd_mem.cache
      PROVE  SaveIInv'
  <2>1. SaveTypes'
    BY <1>1, <1>2, <1>4, <1>6 DEF SaveTypes
  <2>2. mem_tmp'[u] = a
    BY <1>3, <1>4, <1>6
  <2>3. SavedMemInv'
    BY <1>1, <1>6, <2>2 DEF SavedMemInv, u
  <2>4. QED
    BY <1>2, <1>3, <1>6, <2>1, <2>3, MemoryMoves
<1>7. CASE SaveIdle /\ sd_call' = [NoCallNow EXCEPT !.at = "tmp"] /\ mem_tmp' = [mem_tmp EXCEPT ![u] = Empty]
           /\ UNCHANGED <<sd_mem, sd_said, mem_file>>
  <2>1. sd_call' \in Calls /\ sd_call'.at = "tmp" /\ sd_call'.dir = NoSave /\ sd_call'.mount = FALSE
    BY <1>5, <1>7
  <2>2. QED
    BY <1>4, <1>6, <1>7, <2>1
<1>8. CASE sd_call.at = "tmp" /\ sd_call' = [sd_call EXCEPT !.at = "rename"]
           /\ mem_tmp' = [mem_tmp EXCEPT ![u] = sd_mem.cache] /\ UNCHANGED <<sd_mem, sd_said, mem_file>>
  <2>1. sd_call' \in Calls /\ sd_call'.at = "rename" /\ sd_call'.dir = NoSave /\ sd_call'.mount = FALSE
    BY <1>1, <1>3, <1>8
  <2>2. QED
    BY <1>4, <1>6, <1>8, <2>1
<1>9. CASE sd_call.at = "tmp" /\ sd_call' = NoCallNow
           /\ mem_tmp' = [mem_tmp EXCEPT ![u] = Missing] /\ UNCHANGED <<sd_mem, sd_said, mem_file>>
  BY <1>4, <1>5, <1>6, <1>9
<1>10. CASE sd_call.at = "rename" /\ sd_call' = NoCallNow
            /\ mem_file' = [mem_file EXCEPT ![u] = mem_tmp[u]] /\ mem_tmp' = [mem_tmp EXCEPT ![u] = Missing]
            /\ sd_mem' = [sd_mem EXCEPT !.dirty = FALSE] /\ sd_said' = [sd_said EXCEPT !.mem[u] = sd_mem.cache]
  <2>1. mem_tmp[u] = sd_mem.cache
    BY <1>1, <1>10 DEF SavedMemInv, u
  <2>2. /\ mem_file' \in [SaveUsers -> SaveVals] /\ mem_tmp' \in [SaveUsers -> SaveVals]
        /\ \A x \in SaveUsers : mem_file'[x] = IF x = u THEN sd_mem.cache ELSE mem_file[x]
    BY <1>3, <1>4, <1>10, <2>1
  <2>3. /\ sd_mem' \in [user : SaveUsers \cup {NoSave}, cache : SaveVals, dirty : BOOLEAN]
        /\ sd_mem'.user = u /\ sd_mem'.cache = sd_mem.cache
    BY <1>4, <1>10 DEF u
  <2>4. /\ sd_said' \in [param : [SaveDirs -> SaveVals], mem : [SaveUsers -> SaveVals]] /\ sd_said'.param = sd_said.param
        /\ \A x \in SaveUsers : sd_said'.mem[x] = IF x = u THEN sd_mem.cache ELSE sd_said.mem[x]
    BY <1>3, <1>4, <1>10
  <2>5. SaveTypes'
    BY <1>1, <1>2, <1>5, <1>10, <2>2, <2>3, <2>4 DEF SaveTypes
  <2>6. \A x \in SaveUsers : mem_file'[x] = sd_said'.mem[x]
    BY <1>1, <2>2, <2>4 DEF SavedMemInv
  <2>7. sd_call'.at = "idle" /\ mem_file'[sd_mem'.user] = sd_mem'.cache
    BY <1>3, <1>5, <1>10, <2>2, <2>3
  <2>8. SavedMemInv'
    BY <1>3, <2>3, <2>6, <2>7 DEF SavedMemInv
  <2>9. QED
    BY <1>2, <1>3, <1>5, <1>10, <2>4, <2>5, <2>8, MemoryMoves
<1>11. QED
  BY <1>7, <1>8, <1>9, <1>10 DEF sceSaveDataSyncSaveDataMemory, u

LEMMA SaveStepInv ==
  ASSUME SaveSound, SaveIInv, SaveDirsNext \/ SaveMemNext \/ UNCHANGED save_vars
  PROVE  SaveIInv'
<1>1. CASE sceSaveDataInitialize \/ UNCHANGED save_vars
  <2>1. UNCHANGED <<sd_mounts, sd_files, sd_mem, mem_file, mem_tmp, sd_call, sd_said, sd_count, g_mounts>>
    BY <1>1 DEF sceSaveDataInitialize, save_vars, on_disk
  <2>2. SaveTypes /\ SaveCallInv /\ SavedMemInv /\ PointsInv
    BY DEF SaveIInv
  <2>3. SaveTypes' /\ SaveCallInv'
    BY <2>1, <2>2 DEF SaveTypes, SaveCallInv, MountedAt
  <2>4. SavedMemInv' /\ PointsInv'
    BY <2>1, <2>2, PointsSame DEF SavedMemInv
  <2>5. ASSUME NEW x \in SaveDirs PROVE SavedInv(x)'
    <3>1. SavedInv(x)
      BY DEF SaveIInv
    <3>2. QED
      BY <2>1, <3>1 DEF SavedInv, sd_load_param, StoredBoth, StoredBin
  <2>6. QED
    BY <2>3, <2>4, <2>5 DEF SaveIInv
<1>2. CASE sd_write_sfo \/ write_bin \/ sd_rm_cb
  <2>1. sd_call.at \in {"sfo", "sfo_open", "bin", "bin_open", "delete"}
    BY <1>2 DEF sd_write_sfo, write_bin, sd_rm_cb
  <2>2. sd_call.dir \in SaveDirs
    BY <2>1 DEF SaveIInv, SaveCallInv
  <2>3. QED
    BY <1>2, <2>2, FilesKeep
<1>3. CASE sceSaveDataTerminate
  BY <1>3, TerminateSteps
<1>4. CASE SaveCrash
  BY <1>4, CrashSteps
<1>5. CASE mount_created \/ param_stored
  BY <1>5, CreatedSteps, StoredSteps
<1>6. CASE \E d \in SaveDirs : sd_mount_internal(d) \/ sceSaveDataUmount(d) \/ sceSaveDataDelete(d)
  BY <1>6, MountSteps, UmountSteps, DeleteSteps
<1>7. CASE \E d \in SaveDirs, v \in SaveValues : sceSaveDataSetParam(d, v)
  BY <1>7, ParamSteps
<1>8. CASE \E u \in SaveUsers : sceSaveDataSetupSaveDataMemory2(u)
  BY <1>8, SetupSteps
<1>9. CASE \E v \in SaveValues : save_data_memory_write(v)
  BY <1>9, MemWriteSteps
<1>10. CASE sceSaveDataSyncSaveDataMemory
  BY <1>10, SyncSteps
<1>11. QED
  BY <1>1, <1>2, <1>3, <1>4, <1>5, <1>6, <1>7, <1>8, <1>9, <1>10 DEF SaveDirsNext, SaveMemNext

-----------------------------------------------------------------------------
(* The specification of MCRuntime: the component a behaviour is about      *)
(* moves, the others do not.                                               *)
KernelIInv == ThreadIInv /\ SemIInv /\ KsemIInv /\ EvfIInv /\ EqIInv /\ AioIInv /\ ObjIInv /\ OnceIInv /\ MemIInv

\* The initial states of the whole are those of the components.
LEMMA KernelInitInv == Init => KernelIInv
  BY ThreadInitInv, SemInitInv, KsemInitInv, EvfInitInv, EqInitInv, AioInitInv, ObjInitInv, OnceInitInv, MemInitInv
  DEF Init, KernelIInv

\* A step of the whole is a step of each component, or leaves it alone.
LEMMA KernelStepInv == KernelIInv /\ [Next]_vars => KernelIInv' /\ (vm_name' # vm_name => vm_gen' # vm_gen)
<1> SUFFICES ASSUME KernelIInv, [Next]_vars PROVE KernelIInv' /\ (vm_name' # vm_name => vm_gen' # vm_gen)
  OBVIOUS
<1>1. [ThreadNext]_thread_vars /\ [SemNext]_sem_vars /\ [KsemNext]_ksem_vars /\ [EvfNext]_evf_vars
      /\ [EqNext]_eq_vars /\ [AioNext]_aio_vars /\ [ObjNext]_obj_vars /\ [OnceNext]_once_vars
  <2>1. CASE Next
    BY <2>1 DEF Next
  <2>2. CASE UNCHANGED vars
    BY <2>2 DEF vars
  <2>3. QED
    BY <2>1, <2>2
<1>2. DmNext({3}) \/ DmBlockNext(1..3) \/ UNCHANGED dm_vars
  <2>1. CASE Next
    BY <2>1 DEF Next
  <2>2. CASE UNCHANGED vars
    BY <2>2 DEF vars
  <2>3. QED
    BY <2>1, <2>2
<1>3. MemIInv' /\ (vm_name' # vm_name => vm_gen' # vm_gen)
  <2>1. MemIInv
    BY DEF KernelIInv
  <2>2. CASE UNCHANGED dm_vars
    BY <2>1, <2>2, MemSameInv DEF dm_vars
  <2>3. {3} \subseteq Nat \ {0} /\ 1..3 \subseteq Nat \ {0}
    OBVIOUS
  <2>4. CASE DmNext({3})
    BY <2>1, <2>3, <2>4, MemStepInv
  <2>5. CASE DmBlockNext(1..3)
    BY <2>1, <2>3, <2>5, MemStepInv
  <2>6. QED
    BY <1>2, <2>2, <2>4, <2>5
<1>4. QED
  BY <1>1, <1>3, ThreadStepInv, SemStepInv, KsemStepInv, EvfStepInv, EqStepInv, AioStepInv, ObjStepInv, OnceStepInv
  DEF KernelIInv

\* The invariant holds always.
LEMMA KernelInvariant == Spec => []KernelIInv
  BY KernelInitInv, KernelStepInv, PTL DEF Spec

(* For any set of threads, callers and objects: no memory of a guest       *)
(* thread is used after it was freed or freed twice, whatever joins,       *)
(* detaches, exits and collections interleave (recomp_thread_collect).     *)
THEOREM GuestThreadsSafe == Spec => []ThreadMemorySafe
<1>1. KernelIInv => ThreadMemorySafe
  BY ThreadInvSafe DEF KernelIInv
<1>2. QED
  BY <1>1, KernelInvariant, PTL

(* For any number of threads and objects: nobody sleeps on a POSIX or      *)
(* kernel semaphore, an event flag or an event queue while what it waits   *)
(* for is there, nor polls for an AIO id that nobody serves, nor waits for *)
(* an initialization that no thread makes.                                 *)
THEOREM WaitersAreServed == Spec => []WaitersServed
<1>1. KernelIInv => WaitersServed
  BY SemInvServes, KsemInvServes, OnceInvOnce DEF KernelIInv, WaitersServed, EvfIInv, EqIInv, AioIInv
<1>2. QED
  BY <1>1, KernelInvariant, PTL

(* For any number of threads: what a once control or a C++ static guard    *)
(* protects is initialized at most once, and nobody uses it before or      *)
(* sleeps for an initialization that no thread is making.                  *)
THEOREM InitializedAtMostOnce == Spec => []InitializedOnce
<1>1. KernelIInv => InitializedOnce
  BY OnceInvOnce DEF KernelIInv
<1>2. QED
  BY <1>1, KernelInvariant, PTL

(* For any sets of threads and variables and any arena: a guest variable   *)
(* never gets two synchronization objects, and none is another's           *)
(* (ensure_mutex, sync_arena_alloc), whatever creates, uses and destroys   *)
(* interleave.                                                             *)
THEOREM ObjectsAreOnesOwn == Spec => []OneObjectPerHandle
<1>1. KernelIInv => OneObjectPerHandle
  BY ObjInvOnce DEF KernelIInv
<1>2. QED
  BY <1>1, KernelInvariant, PTL

(* For any window, direct memory, lengths and alignments, whatever the     *)
(* guest maps: extents stay uniform, blocks stay uniform with no two free  *)
(* ones side by side, and what sceKernelAvailableDirectMemorySize reports  *)
(* is what an allocation there gets.                                       *)
THEOREM ExtentsAndBlocksSound == Spec => [](ExtentsUniform /\ BlocksSound /\ AvailableAllocates)
<1>1. KernelIInv => ExtentsUniform /\ BlocksSound /\ AvailableAllocates
  BY MemIs DEF KernelIInv
<1>2. QED
  BY <1>1, KernelInvariant, PTL

(* When the guest maps nothing into a reservation it is unmapping, the     *)
(* bookkeeping of memory is exact: so are the aliases the host has of      *)
(* direct memory after any maps, partial unmaps and remaps                 *)
(* (ps4_direct_mem_on_unmap), with other calls between the phases of       *)
(* recomp_vm_free.                                                         *)
THEOREM MemoryIsExact == ASSUME ~MapWhileFreed PROVE Spec => []MemoryExact
<1>1. KernelIInv => MemoryExact
  BY MemIs, ObjInvOnce DEF KernelIInv, MemoryExact
<1>2. QED
  BY <1>1, KernelInvariant, PTL

(* No page is mapped or unmapped, reserved or freed without a new          *)
(* generation (recomp_vm_note_change), from which the renderer knows that  *)
(* its copy of the unmapped ranges is old.                                 *)
THEOREM ChangesAreNoted == Spec => UnmappedChangeNoted
<1>1. KernelIInv /\ [Next]_vars
        => [recomp_vm_unmapped_ranges' # recomp_vm_unmapped_ranges => vm_gen' # vm_gen]_vm_vars
  BY KernelStepInv DEF recomp_vm_unmapped_ranges
<1>2. QED
  BY <1>1, KernelInvariant, PTL DEF Spec, UnmappedChangeNoted

\* Saves move by themselves.
LEMMA SaveInvariant == ASSUME SaveSound PROVE Spec => []SaveIInv
<1>1. Init => SaveIInv
  BY SaveInitInv DEF Init
<1>2. SaveIInv /\ [Next]_vars => SaveIInv'
  <2>1. [Next]_vars => SaveDirsNext \/ SaveMemNext \/ UNCHANGED save_vars
    BY DEF Next, vars
  <2>2. QED
    BY <2>1, SaveStepInv
<1>3. QED
  BY <1>1, <1>2, PTL DEF Spec

(* For any saves, users and slots: with a process that ends at any write   *)
(* of any call, the parameters of a save that load are those last stored   *)
(* or being stored, memory.dat is what the last sync that returned wrote   *)
(* (save_data_memory_sync's rename), and a mount point given to the guest  *)
(* leads to the save mounted there; where one process ends so, and no      *)
(* process makes more mounts than the mount table has entries, which       *)
(* ps4_vfs_unmount does not reuse.                                         *)
THEOREM SavesAreKept == ASSUME SaveSound PROVE Spec => []StorageKept
<1>1. SaveIInv => StorageKept
  BY SaveInvIs DEF StorageKept
<1>2. QED
  BY <1>1, SaveInvariant, PTL
=============================================================================
