----------------------------- MODULE Threading -----------------------------
(***************************************************************************)
(* Guest threads: creation, exit, join, detach and collection in           *)
(* pkg/runtime/kernel/threading/ps4_threading.c.                           *)
(*                                                                         *)
(* A RecompThread is reached through g_threads, moves to g_gc_list when it *)
(* is dead, detached and unreferenced, and is freed by whichever thread    *)
(* collects next, once its tid is TID_TERMINATED.  refcount, state and     *)
(* flags change only under t->lock, so try_collect_locked is one step with *)
(* the section that calls it; the steps outside t->lock are separate.      *)
(*                                                                         *)
(* The guest may name a thread in one call of join or detach, after its    *)
(* creation returned (POSIX); a call that returns an error stutters.       *)
(***************************************************************************)
EXTENDS Naturals

CONSTANTS ThreadObjs,  \* RecompThread blocks; each is allocated once
          MainThread,  \* g_main_thread_obj: never exits here, only calls
          NoObj

ASSUME ThreadAssumption == MainThread \notin ThreadObjs /\ NoObj \notin ThreadObjs

VARIABLES
  thr,        \* the fields of each RecompThread
  g_threads, g_gc_list,
  thost,      \* where the host thread of a RecompThread is
  tcall       \* the threading call each guest thread is in

thread_vars == <<thr, g_threads, g_gc_list, thost, tcall>>

Callers == ThreadObjs \cup {MainThread}
Idle == [at |-> "idle", t |-> NoObj, then |-> "idle", reclaim |-> {}]

ThreadInit ==
  /\ thr = [o \in ThreadObjs |-> [mem |-> "none", term |-> FALSE, dead |-> FALSE, refcount |-> 0,
              detached |-> FALSE, joined |-> FALSE, joiner |-> NoObj, ctx |-> "none", ready |-> FALSE,
              claimed |-> FALSE]]
  /\ g_threads = {} /\ g_gc_list = {}
  /\ thost = [o \in ThreadObjs |-> "none"]
  /\ tcall = [a \in Callers |-> Idle]

\* a is in guest code and may call.
Calling(a) == tcall[a].at = "idle" /\ (a \in ThreadObjs => thost[a] = "guest")
InCall(a, l) == tcall[a].at = l
CallGoes(a, l) == tcall' = [tcall EXCEPT ![a].at = l]

\* should_collect_locked after the change of t to r, in a section of t->lock.
should_collect_locked(r) == r.refcount = 0 /\ r.dead /\ r.detached

\* try_collect_locked: t goes from g_threads to g_gc_list.
try_collect_locked(t, r) ==
  /\ thr' = [thr EXCEPT ![t] = r]
  /\ IF should_collect_locked(r)
     THEN g_threads' = g_threads \ {t} /\ g_gc_list' = g_gc_list \cup {t}
     ELSE UNCHANGED <<g_threads, g_gc_list>>

-----------------------------------------------------------------------------
(* recomp_thread_collect                                                   *)

\* Mutant: threads on the list are taken for ended.
collect_all(a) ==
  /\ InCall(a, "collect")
  /\ tcall' = [tcall EXCEPT ![a].at = "free", ![a].reclaim = g_gc_list]
  /\ g_gc_list' = {}
  /\ UNCHANGED <<thr, g_threads, thost>>

\* The terminated threads leave the list under g_threads_mutex ...
recomp_thread_collect(a) ==
  LET R == {t \in g_gc_list : thr[t].term}
  IN  /\ InCall(a, "collect")
      /\ tcall' = [tcall EXCEPT ![a].at = "free", ![a].reclaim = R]
      /\ g_gc_list' = g_gc_list \ R
      /\ UNCHANGED <<thr, g_threads, thost>>

\* ... and are freed one by one without it.
collect_free(a) ==
  /\ InCall(a, "free")
  /\ \/ \E t \in tcall[a].reclaim :
          /\ thr' = [thr EXCEPT ![t] = [@ EXCEPT !.mem = "freed", !.ctx = "freed"]]
          /\ tcall' = [tcall EXCEPT ![a].reclaim = @ \ {t}]
     \/ /\ tcall[a].reclaim = {} /\ UNCHANGED thr
        /\ CallGoes(a, tcall[a].then)
  /\ UNCHANGED <<g_threads, g_gc_list, thost>>

-----------------------------------------------------------------------------
(* do_create_thread, recomp_host_thread_runner, recomp_thread_exit         *)

shim_pthread_create(a) ==
  /\ Calling(a) /\ \E o \in ThreadObjs : thr[o].mem = "none"
  /\ tcall' = [tcall EXCEPT ![a].at = "collect", ![a].then = "create"]
  /\ UNCHANGED <<thr, g_threads, g_gc_list, thost>>

NewThread(d) == [mem |-> "live", term |-> FALSE, dead |-> FALSE, refcount |-> 1, detached |-> d,
                 joined |-> FALSE, joiner |-> NoObj, ctx |-> "live", ready |-> FALSE, claimed |-> FALSE]

\* Allocation and register_thread; without memory the call fails.
do_create_thread(a) ==
  /\ InCall(a, "create")
  /\ \/ \E o \in ThreadObjs, d \in BOOLEAN :
          /\ thr[o].mem = "none"
          /\ thr' = [thr EXCEPT ![o] = NewThread(d)]
          /\ g_threads' = g_threads \cup {o}
          /\ tcall' = [tcall EXCEPT ![a].at = "create_host", ![a].t = o]
     \/ tcall' = [tcall EXCEPT ![a] = Idle] /\ UNCHANGED <<thr, g_threads>>
  /\ UNCHANGED <<g_gc_list, thost>>

create_host(a) ==
  LET t == tcall[a].t
  IN  /\ InCall(a, "create_host")
      /\ thost' = [thost EXCEPT ![t] = "spin"]
      /\ CallGoes(a, "create_ready")
      /\ UNCHANGED <<thr, g_threads, g_gc_list>>

\* pthread_create failed: the thread is dead, and its context freed.
create_failed(a) ==
  LET t == tcall[a].t
  IN  /\ InCall(a, "create_host")
      /\ try_collect_locked(t, [thr[t] EXCEPT !.refcount = 0, !.dead = TRUE, !.ctx = "freed"])
      /\ tcall' = [tcall EXCEPT ![a] = Idle]
      /\ UNCHANGED thost

\* The last access to t: from here on the new thread may exit and be freed.
create_ready(a) ==
  /\ InCall(a, "create_ready")
  /\ thr' = [thr EXCEPT ![tcall[a].t].ready = TRUE]
  /\ tcall' = [tcall EXCEPT ![a] = Idle]
  /\ UNCHANGED <<g_threads, g_gc_list, thost>>

recomp_host_thread_runner(t) ==
  /\ thost[t] = "spin" /\ thr[t].ready
  /\ thost' = [thost EXCEPT ![t] = "guest"]
  /\ UNCHANGED <<thr, g_threads, g_gc_list, tcall>>

\* The guest's start routine returns (or calls scePthreadExit).
recomp_thread_exit(t) ==
  /\ thost[t] = "guest" /\ tcall[t].at = "idle"
  /\ try_collect_locked(t, [thr[t] EXCEPT !.refcount = @ - 1, !.dead = TRUE])
  /\ thost' = [thost EXCEPT ![t] = "term"]
  /\ UNCHANGED tcall

\* Mutant: the tid keeps its value, as in recomp_cleanup_system_thread.
exit_forgets_tid(t) ==
  /\ thost[t] = "term"
  /\ thost' = [thost EXCEPT ![t] = "bcast"]
  /\ UNCHANGED <<thr, g_threads, g_gc_list, tcall>>

\* Under join_wait_mutex: the store of TID_TERMINATED ...
exit_terminated(t) ==
  /\ thost[t] = "term"
  /\ thr' = [thr EXCEPT ![t].term = TRUE]
  /\ thost' = [thost EXCEPT ![t] = "bcast"]
  /\ UNCHANGED <<g_threads, g_gc_list, tcall>>

\* ... the broadcast and the unlock, whose end may come after another thread
\* has got the mutex, and pthread_exit.
exit_unlock(t) ==
  /\ \/ thost[t] = "bcast" /\ thost' = [thost EXCEPT ![t] = "unlocking"]
     \/ thost[t] = "unlocking" /\ thost' = [thost EXCEPT ![t] = "gone"]
  /\ UNCHANGED <<thr, g_threads, g_gc_list, tcall>>

-----------------------------------------------------------------------------
(* do_thread_join, do_thread_detach                                        *)

\* What the guest may name: a running thread nobody joined or detached.
Nameable(t) == t \in g_threads /\ thr[t].ready /\ ~thr[t].detached /\ ~thr[t].claimed

recomp_find_thread(a, t) ==
  /\ Calling(a) /\ Nameable(t)
  /\ thr' = [thr EXCEPT ![t].claimed = TRUE]
  /\ \E op \in {"join_lock", "detach_lock"} :
       /\ op = "join_lock" => a # t
       /\ tcall' = [tcall EXCEPT ![a].at = op, ![a].t = t, ![a].then = "idle"]
  /\ UNCHANGED <<g_threads, g_gc_list, thost>>

do_thread_join(a) ==
  LET t == tcall[a].t
  IN  /\ InCall(a, "join_lock") /\ ~thr[t].detached /\ thr[t].joiner = NoObj
      /\ thr' = [thr EXCEPT ![t].joiner = a]
      /\ CallGoes(a, "join_wait")
      /\ UNCHANGED <<g_threads, g_gc_list, thost>>

\* Mutant: the joiner does not wait for the host thread to end.
join_no_host(a) ==
  LET t == tcall[a].t
  IN  /\ InCall(a, "join_wait") /\ thr[t].term /\ thost[t] # "bcast"
      /\ CallGoes(a, "join_end")
      /\ UNCHANGED <<thr, g_threads, g_gc_list, thost>>

\* The wait on join_wait_cv under join_wait_mutex, and pthread_join.
join_wait(a) ==
  LET t == tcall[a].t
  IN  /\ InCall(a, "join_wait") /\ thr[t].term /\ thost[t] = "gone"
      /\ CallGoes(a, "join_end")
      /\ UNCHANGED <<thr, g_threads, g_gc_list, thost>>

join_end(a) ==
  LET t == tcall[a].t
  IN  /\ InCall(a, "join_end")
      /\ try_collect_locked(t, [thr[t] EXCEPT !.detached = TRUE, !.joined = TRUE, !.joiner = NoObj])
      /\ tcall' = [tcall EXCEPT ![a].at = "collect", ![a].t = NoObj]
      /\ UNCHANGED thost

do_thread_detach(a) ==
  LET t == tcall[a].t
  IN  /\ InCall(a, "detach_lock") /\ ~thr[t].detached /\ thr[t].joiner = NoObj
      /\ try_collect_locked(t, [thr[t] EXCEPT !.detached = TRUE])
      /\ tcall' = [tcall EXCEPT ![a].at = "collect", ![a].t = NoObj]
      /\ UNCHANGED thost

-----------------------------------------------------------------------------
(* recomp_init_system_thread, recomp_cleanup_system_thread: a host thread  *)
(* of the runtime that appears among the guest threads for a while.        *)

recomp_init_system_thread(o) ==
  /\ thr[o].mem = "none"
  /\ thr' = [thr EXCEPT ![o] = [NewThread(TRUE) EXCEPT !.ready = TRUE]]
  /\ g_threads' = g_threads \cup {o}
  /\ thost' = [thost EXCEPT ![o] = "system"]
  /\ UNCHANGED <<g_gc_list, tcall>>

recomp_cleanup_system_thread(o) ==
  /\ thost[o] = "system"
  /\ try_collect_locked(o, [thr[o] EXCEPT !.refcount = 0, !.dead = TRUE])
  /\ thost' = [thost EXCEPT ![o] = "gone"]
  /\ UNCHANGED tcall

-----------------------------------------------------------------------------
ThreadStep(a) ==
  \/ recomp_thread_collect(a) \/ collect_free(a) \/ do_create_thread(a) \/ create_host(a)
  \/ create_failed(a) \/ create_ready(a) \/ do_thread_join(a) \/ join_wait(a) \/ join_end(a)
  \/ do_thread_detach(a)
ExitStep(t) == recomp_host_thread_runner(t) \/ exit_terminated(t) \/ exit_unlock(t)

ThreadNext ==
  \/ \E a \in Callers : ThreadStep(a) \/ shim_pthread_create(a)
                        \/ \E t \in ThreadObjs : recomp_find_thread(a, t)
  \/ \E t \in ThreadObjs : ExitStep(t) \/ recomp_thread_exit(t) \/ recomp_init_system_thread(t)
                           \/ recomp_cleanup_system_thread(t)

\* Host threads run; the guest owes neither a call nor an exit.
ThreadFairness ==
  /\ \A a \in Callers : WF_thread_vars(ThreadStep(a))
  /\ \A t \in ThreadObjs : WF_thread_vars(ExitStep(t))

-----------------------------------------------------------------------------
\* The RecompThread blocks host threads and calls are using.  A detached
\* thread's own broadcast and unlock are left out: nothing keeps a collector
\* from freeing the block between its store of TID_TERMINATED and them.
InUse ==
  {t \in ThreadObjs :
     \/ thost[t] \in {"spin", "guest", "term", "system"}
     \/ thost[t] \in {"bcast", "unlocking"} /\ (~thr[t].detached \/ thr[t].joined)
     \/ \E a \in Callers : tcall[a].t = t /\ tcall[a].at # "idle"}

(* No thread block is freed while a list, a call or its own host thread    *)
(* reaches it, a block is on at most one list and waits for one collector, *)
(* and the context of every thread recomp_find_thread walks over is there  *)
(* (except that of a thread whose creation failed).                        *)
ThreadMemorySafe ==
  /\ \A t \in InUse \cup g_threads \cup g_gc_list : thr[t].mem = "live"
  /\ g_threads \cap g_gc_list = {}
  /\ \A a \in Callers : \A t \in tcall[a].reclaim :
       /\ thr[t].mem = "live" /\ t \notin g_threads \cup g_gc_list
       /\ \A b \in Callers \ {a} : t \notin tcall[b].reclaim
  /\ \A t \in g_threads : thr[t].ctx = "live" \/ (thr[t].dead /\ thost[t] = "none")

(* A joiner returns once the guest code of the thread it waits for has     *)
(* ended: do_thread_join's wait is not left behind by the exit's broadcast.*)
JoinReturns ==
  \A a \in Callers, t \in ThreadObjs :
    (tcall[a].at = "join_wait" /\ tcall[a].t = t /\ thost[t] \notin {"spin", "guest"})
      ~> (tcall[a].at = "idle")
=============================================================================
