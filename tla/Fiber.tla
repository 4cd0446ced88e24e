------------------------------- MODULE Fiber -------------------------------
(***************************************************************************)
(* Fibers of pkg/runtime/modules/libSceFiber/ps4_fiber.c.                  *)
(*                                                                         *)
(* A guest thread (a member of Workers) runs at most one fiber at a time.  *)
(* An endpoint is a guest thread's own code or a fiber; each has a host    *)
(* stack.  By default (~ThreadMode) fibers are coroutines: the host        *)
(* thread of the guest thread leaves one stack and continues on another,   *)
(* and a fiber that suspended on one guest thread may continue on another. *)
(* With PS4_FIBER_THREADS every fiber has a host thread of its own, and a  *)
(* hand-over is a post of the target's baton.                              *)
(*                                                                         *)
(* Meanwhile signal handlers look up, through the table g_workers, which   *)
(* host thread runs a guest context.  They can neither lock nor wait, so   *)
(* whoever frees a worker or a fiber waits for them.                       *)
(*                                                                         *)
(* Every load and store of state, current, g_workers and g_lookups is a    *)
(* step; steps on data only the running endpoint uses are merged with      *)
(* them.  A call that returns an error without changing anything stutters, *)
(* and so does fiber_take_idle while it spins on a SUSPENDING fiber.       *)
(***************************************************************************)
EXTENDS Naturals, FiniteSets

CONSTANTS Workers,    \* guest threads
          Objects,    \* guest addresses of fiber objects
          Hosts,      \* FiberHost blocks; each is allocated once
          Lookers,    \* signal handlers that may look up a context
          None,       \* NULL
          MaxSlots,   \* MAX_WORKERS
          Scenarios   \* the settings and environments considered

ASSUME SetsAssumption ==
  /\ Workers \cap Hosts = {} /\ None \notin Workers \cup Hosts \cup Objects
  /\ MaxSlots \in Nat \ {0} /\ IsFiniteSet(Lookers)
  /\ Scenarios \subseteq [threads : BOOLEAN, create_fails : BOOLEAN, guests : SUBSET Workers]

\* Host threads; without ThreadMode those of the fibers do not exist.
Procs == Workers \cup Hosts

VARIABLES
  scenario, \* threads: g_fiber_threads; create_fails: pthread_create of a
            \* fiber's host thread may fail; guests: the guest threads alive
  state,    \* f->state of each object
  host,     \* f->host; None when the object is not valid
  obj,      \* h->guest_addr
  hstat,    \* whether the block h is unused, live or freed
  hworker,  \* h->worker
  started,  \* h->host_started
  kill,     \* h->kill
  release,  \* h->release, w->release: the object to mark IDLE
  baton,    \* ready of the endpoint's baton
  current,  \* w->current
  wstat,    \* whether the FiberWorker of a thread is none, live or freed
  slot,     \* w->slot, 0 for -1
  tcb,      \* the endpoint the TCB slot of a guest thread names
  pc,       \* where each endpoint is
  tgt,      \* its local f
  wk,       \* its local w
  scan,     \* worker_publish's locals i and n
  cpu,      \* the endpoint whose stack each host thread is on
  tl,       \* tl_fiber_self of each host thread
  table,    \* g_workers
  nworkers, \* g_nworkers
  look      \* each lookup: where it is, and its locals i, n, w and h

objvars == <<state, host>>
hostvars == <<obj, hstat, hworker, started, kill>>
callvars == <<tgt, wk, scan>>
tabvars == <<table, nworkers, slot, wstat>>
vars == <<scenario, state, host, obj, hstat, hworker, started, kill, release, baton, current,
          wstat, slot, tcb, pc, tgt, wk, scan, cpu, tl, table, nworkers, look>>

ThreadMode == scenario.threads

At(p, l) == cpu[p] # None /\ pc[cpu[p]] = l
Goto(p, l) == pc' = [pc EXCEPT ![cpu[p]] = l]
\* The call is over: its locals die.
Done(p, l) ==
  /\ Goto(p, l)
  /\ tgt' = [tgt EXCEPT ![cpu[p]] = None]
  /\ wk' = [wk EXCEPT ![cpu[p]] = None]
  /\ UNCHANGED scan
\* free(h): its contents die.
Free(h) ==
  /\ hstat' = [hstat EXCEPT ![h] = "freed"]
  /\ obj' = [obj EXCEPT ![h] = None]
  /\ hworker' = [hworker EXCEPT ![h] = None]
  /\ started' = [started EXCEPT ![h] = FALSE]
  /\ kill' = [kill EXCEPT ![h] = FALSE]
\* The locals of the call the host thread p is in.
F(p) == tgt[cpu[p]]
H(p) == host[tgt[cpu[p]]]
W(p) == wk[cpu[p]]
SelfObj(p) == obj[tl[p]]

\* The number of lookups in progress.
g_lookups == Cardinality({l \in Lookers : look[l].at # "off"})

-----------------------------------------------------------------------------
(* Claiming a fiber, sceFiberRun and sceFiberSwitch up to the hand-over.   *)

\* fiber_valid, then fiber_take_idle.
take_idle(o, to) ==
  /\ host[o] # None /\ state[o] = "IDLE"
  /\ state' = [state EXCEPT ![o] = to]

\* sceFiberRun by thread code.
fiber_run(p, o) ==
  /\ At(p, "guest") /\ tl[p] = None
  /\ take_idle(o, "RUNNING")
  /\ tgt' = [tgt EXCEPT ![cpu[p]] = o]
  /\ wk' = [wk EXCEPT ![cpu[p]] = p]
  /\ Goto(p, IF wstat[p] = "none" THEN "worker" ELSE "checks")
  /\ UNCHANGED <<scenario, host, hostvars, release, baton, current, tabvars, tcb, scan, cpu, tl, look>>

\* sceFiberSwitch by a fiber.
fiber_switch(p, o) ==
  /\ At(p, "guest") /\ tl[p] # None
  /\ take_idle(o, "RUNNING")
  /\ tgt' = [tgt EXCEPT ![cpu[p]] = o]
  /\ wk' = [wk EXCEPT ![cpu[p]] = hworker[tl[p]]]
  /\ Goto(p, "claimed")
  /\ UNCHANGED <<scenario, host, hostvars, release, baton, current, tabvars, tcb, scan, cpu, tl, look>>

\* The fiber's context is missing or refused, or memory runs out.
claim_undone(p) ==
  /\ \E l \in {"worker", "checks", "claimed"} : At(p, l)
  /\ state' = [state EXCEPT ![F(p)] = "IDLE"]
  /\ Done(p, "guest")
  /\ UNCHANGED <<scenario, host, hostvars, release, baton, current, tabvars, tcb, cpu, tl, look>>

\* get_worker of a thread that has no FiberWorker yet.
get_worker(p) ==
  /\ At(p, "worker")
  /\ wstat' = [wstat EXCEPT ![p] = "live"]
  /\ scan' = [scan EXCEPT ![p] = [i |-> 1, n |-> nworkers]]
  /\ Goto(p, "publish")
  /\ UNCHANGED <<scenario, objvars, hostvars, release, baton, current, table, nworkers,
                 slot, tcb, tgt, wk, cpu, tl, look>>

\* In coroutine mode the fiber's stack is still to be mapped.
Published == IF ThreadMode THEN "ready" ELSE "checks"

\* Mutant: the slot is stored to, taken or not.
publish_store(p) ==
  /\ At(p, "publish") /\ scan[p].i <= scan[p].n
  /\ table' = [table EXCEPT ![scan[p].i] = p]
  /\ slot' = [slot EXCEPT ![p] = scan[p].i]
  /\ Goto(p, Published)
  /\ scan' = [scan EXCEPT ![p] = [i |-> 0, n |-> 0]]
  /\ UNCHANGED <<scenario, objvars, hostvars, release, baton, current, nworkers, wstat,
                 tcb, tgt, wk, cpu, tl, look>>

\* worker_publish: one compare-and-swap of a slot or, past the last, of g_nworkers.
publish_slot(p) ==
  /\ At(p, "publish") /\ scan[p].i <= scan[p].n
  /\ IF table[scan[p].i] = None
     THEN /\ table' = [table EXCEPT ![scan[p].i] = p]
          /\ slot' = [slot EXCEPT ![p] = scan[p].i]
          /\ Goto(p, Published)
          /\ scan' = [scan EXCEPT ![p] = [i |-> 0, n |-> 0]]
     ELSE /\ scan' = [scan EXCEPT ![p].i = @ + 1]
          /\ UNCHANGED <<table, slot, pc>>
  /\ UNCHANGED <<scenario, objvars, hostvars, release, baton, current, nworkers, wstat,
                 tcb, tgt, wk, cpu, tl, look>>

\* Mutant: the table grows by one slot too many.
grow_past_end(p) ==
  /\ At(p, "publish") /\ scan[p].i > scan[p].n
  /\ IF scan[p].n > MaxSlots
     THEN /\ Goto(p, Published) /\ UNCHANGED nworkers
          /\ scan' = [scan EXCEPT ![p] = [i |-> 0, n |-> 0]]
     ELSE LET n == IF nworkers = scan[p].n THEN nworkers + 1 ELSE nworkers
          IN /\ nworkers' = n
             /\ scan' = [scan EXCEPT ![p] = [i |-> 1, n |-> n]]
             /\ UNCHANGED pc
  /\ UNCHANGED <<scenario, objvars, hostvars, release, baton, current, table, slot, wstat,
                 tcb, tgt, wk, cpu, tl, look>>

publish_grow(p) ==
  /\ At(p, "publish") /\ scan[p].i > scan[p].n
  /\ IF scan[p].n >= MaxSlots
     THEN /\ Goto(p, Published) /\ UNCHANGED nworkers
          /\ scan' = [scan EXCEPT ![p] = [i |-> 0, n |-> 0]]
     ELSE LET n == IF nworkers = scan[p].n THEN nworkers + 1 ELSE nworkers
          IN /\ nworkers' = n
             /\ scan' = [scan EXCEPT ![p] = [i |-> 1, n |-> n]]
             /\ UNCHANGED pc
  /\ UNCHANGED <<scenario, objvars, hostvars, release, baton, current, table, slot, wstat,
                 tcb, tgt, wk, cpu, tl, look>>

-----------------------------------------------------------------------------
(* Coroutine mode.                                                         *)

\* Mutant: the suspending fiber may be claimed while its stack is in use.
suspending_idle(p) ==
  /\ ~ThreadMode /\ At(p, "claimed")
  /\ state' = [state EXCEPT ![SelfObj(p)] = "IDLE"]
  /\ Goto(p, "ready")
  /\ UNCHANGED <<scenario, host, hostvars, release, baton, current, tabvars, tcb, callvars,
                 cpu, tl, look>>

suspending(p) ==
  /\ ~ThreadMode /\ At(p, "claimed")
  /\ state' = [state EXCEPT ![SelfObj(p)] = "SUSPENDING"]
  /\ Goto(p, "ready")
  /\ UNCHANGED <<scenario, host, hostvars, release, baton, current, tabvars, tcb, callvars,
                 cpu, tl, look>>

\* Mutant: a fiber keeps the worker it first ran on.
enter_first_worker(p) ==
  /\ ~ThreadMode /\ (At(p, "ready") \/ At(p, "checks"))
  /\ hworker' = [hworker EXCEPT ![H(p)] = IF @ = None THEN W(p) ELSE @]
  /\ release' = [release EXCEPT ![H(p)] = IF tl[p] = None THEN None ELSE SelfObj(p)]
  /\ current' = [current EXCEPT ![W(p)] = H(p)]
  /\ tl' = [tl EXCEPT ![p] = H(p)]
  /\ tcb' = [tcb EXCEPT ![W(p)] = H(p)]
  /\ Goto(p, "switch")
  /\ UNCHANGED <<scenario, objvars, obj, hstat, started, kill, baton, tabvars, callvars, cpu, look>>

\* co_enter: the target becomes the thread's current endpoint.
co_enter(p) ==
  /\ ~ThreadMode /\ (At(p, "ready") \/ At(p, "checks"))
  /\ hworker' = [hworker EXCEPT ![H(p)] = W(p)]
  /\ release' = [release EXCEPT ![H(p)] = IF tl[p] = None THEN None ELSE SelfObj(p)]
  /\ current' = [current EXCEPT ![W(p)] = H(p)]
  /\ tl' = [tl EXCEPT ![p] = H(p)]
  /\ tcb' = [tcb EXCEPT ![W(p)] = H(p)]
  /\ Goto(p, "switch")
  /\ UNCHANGED <<scenario, objvars, obj, hstat, started, kill, baton, tabvars, callvars, cpu, look>>

\* ps4_fiber_ctx_switch, to the fiber tl_fiber_self or back to the thread's code.
ctx_switch(p) ==
  /\ At(p, "switch") /\ Done(p, "finish")
  /\ cpu' = [cpu EXCEPT ![p] = IF tl[p] = None THEN W(p) ELSE tl[p]]
  /\ UNCHANGED <<scenario, objvars, hostvars, release, baton, current, tabvars, tcb, tl, look>>

\* Mutant: the endpoint switched to forgets the one it came from.
finish_forgets(p) ==
  /\ At(p, "finish") /\ Goto(p, "guest")
  /\ release' = [release EXCEPT ![cpu[p]] = None]
  /\ UNCHANGED <<scenario, objvars, hostvars, baton, current, tabvars, tcb, callvars, cpu, tl, look>>

\* co_finish_switch, on the stack switched to: the one left may be claimed now.
co_finish_switch(p) ==
  /\ At(p, "finish") /\ Goto(p, "guest")
  /\ LET st == release[cpu[p]]
     IN IF st = None THEN UNCHANGED <<state, release>>
        ELSE /\ release' = [release EXCEPT ![cpu[p]] = None]
             /\ state' = [state EXCEPT ![st] = "IDLE"]
  /\ UNCHANGED <<scenario, host, hostvars, baton, current, tabvars, tcb, callvars, cpu, tl, look>>

\* sceFiberReturnToThread up to giving up the fiber.
return_to_thread(p) ==
  /\ At(p, "guest") /\ tl[p] # None
  /\ wk' = [wk EXCEPT ![cpu[p]] = hworker[tl[p]]]
  /\ current' = [current EXCEPT ![hworker[tl[p]]] = None]
  /\ tcb' = [tcb EXCEPT ![hworker[tl[p]]] = hworker[tl[p]]]
  /\ Goto(p, "return")
  /\ UNCHANGED <<scenario, objvars, hostvars, release, baton, tabvars, tgt, scan, cpu, tl, look>>

co_return(p) ==
  /\ ~ThreadMode /\ At(p, "return")
  /\ state' = [state EXCEPT ![SelfObj(p)] = "SUSPENDING"]
  /\ release' = [release EXCEPT ![W(p)] = SelfObj(p)]
  /\ tl' = [tl EXCEPT ![p] = None]
  /\ Goto(p, "switch")
  /\ UNCHANGED <<scenario, host, hostvars, baton, current, tabvars, tcb, callvars, cpu, look>>

-----------------------------------------------------------------------------
(* Thread mode.                                                            *)

\* Mutant: the switching fiber is IDLE while it is still the current one.
switch_current_late(p) ==
  /\ ThreadMode /\ At(p, "claimed") /\ Goto(p, "idle")
  /\ UNCHANGED <<scenario, objvars, hostvars, release, baton, current, tabvars, tcb,
                 callvars, cpu, tl, look>>

\* The target is the worker's current fiber before the caller is IDLE.
switch_current(p) ==
  /\ ThreadMode /\ At(p, "claimed") /\ Goto(p, "idle")
  /\ current' = [current EXCEPT ![W(p)] = H(p)]
  /\ UNCHANGED <<scenario, objvars, hostvars, release, baton, tabvars, tcb, callvars, cpu, tl, look>>

switch_idle(p) ==
  /\ At(p, "idle") /\ Goto(p, "ready")
  /\ state' = [state EXCEPT ![SelfObj(p)] = "IDLE"]
  /\ UNCHANGED <<scenario, host, hostvars, release, baton, current, tabvars, tcb, callvars,
                 cpu, tl, look>>

fiber_resume(p) ==
  /\ ThreadMode /\ (At(p, "ready") \/ At(p, "checks"))
  /\ hworker' = [hworker EXCEPT ![H(p)] = W(p)]
  /\ current' = [current EXCEPT ![W(p)] = H(p)]
  /\ Goto(p, IF started[H(p)] THEN "post" ELSE "create")
  /\ UNCHANGED <<scenario, objvars, obj, hstat, started, kill, release, baton, tabvars,
                 tcb, callvars, cpu, tl, look>>

\* pthread_create; the new thread waits for its baton in fiber_host_main.
resume_create(p) ==
  /\ At(p, "create")
  /\ started' = [started EXCEPT ![H(p)] = TRUE]
  /\ pc' = [pc EXCEPT ![cpu[p]] = "post", ![H(p)] = "wait"]
  /\ UNCHANGED <<scenario, objvars, obj, hstat, hworker, kill, release, baton, current,
                 tabvars, tcb, callvars, cpu, tl, look>>

resume_failed(p) ==
  /\ scenario.create_fails /\ At(p, "create")
  /\ current' = [current EXCEPT ![W(p)] = None]
  /\ Goto(p, IF tl[p] = None THEN "undo" ELSE "reclaim")
  /\ UNCHANGED <<scenario, objvars, hostvars, release, baton, tabvars, tcb, callvars, cpu, tl, look>>

\* fiber_switch after a failed fiber_resume: the caller runs on, claimed or not.
switch_reclaim(p) ==
  /\ At(p, "reclaim")
  /\ IF state[SelfObj(p)] = "IDLE"
     THEN state' = [state EXCEPT ![SelfObj(p)] = "RUNNING"] /\ Goto(p, "regain")
     ELSE UNCHANGED state /\ Goto(p, "undo")
  /\ UNCHANGED <<scenario, host, hostvars, release, baton, current, tabvars, tcb, callvars,
                 cpu, tl, look>>

switch_regain(p) ==
  /\ At(p, "regain") /\ Goto(p, "undo")
  /\ current' = [current EXCEPT ![W(p)] = tl[p]]
  /\ UNCHANGED <<scenario, objvars, hostvars, release, baton, tabvars, tcb, callvars, cpu, tl, look>>

resume_undone(p) ==
  /\ At(p, "undo") /\ Done(p, "guest")
  /\ state' = [state EXCEPT ![F(p)] = "IDLE"]
  /\ UNCHANGED <<scenario, host, hostvars, release, baton, current, tabvars, tcb, cpu, tl, look>>

\* Mutant: a resumed fiber finds the TCB slot of the last endpoint.
post_stale_tcb(p) ==
  /\ At(p, "post") /\ Done(p, "wait")
  /\ baton' = [baton EXCEPT ![H(p)] = TRUE]
  /\ UNCHANGED <<scenario, objvars, hostvars, release, current, tabvars, tcb, cpu, tl, look>>

\* Mutant: a post is a mere signal, lost on a target that does not wait yet.
post_signal_only(p) ==
  /\ At(p, "post") /\ Done(p, "wait")
  /\ tcb' = [tcb EXCEPT ![W(p)] = H(p)]
  /\ baton' = [baton EXCEPT ![H(p)] = pc[H(p)] = "wait"]
  /\ UNCHANGED <<scenario, objvars, hostvars, release, current, tabvars, cpu, tl, look>>

resume_post(p) ==
  /\ At(p, "post") /\ Done(p, "wait")
  /\ tcb' = [tcb EXCEPT ![W(p)] = H(p)]
  /\ baton' = [baton EXCEPT ![H(p)] = TRUE]
  /\ UNCHANGED <<scenario, objvars, hostvars, release, current, tabvars, cpu, tl, look>>

return_idle(p) ==
  /\ ThreadMode /\ At(p, "return") /\ Goto(p, "returned")
  /\ state' = [state EXCEPT ![SelfObj(p)] = "IDLE"]
  /\ UNCHANGED <<scenario, host, hostvars, release, baton, current, tabvars, tcb, callvars,
                 cpu, tl, look>>

return_post(p) ==
  /\ At(p, "returned") /\ Done(p, "wait")
  /\ baton' = [baton EXCEPT ![W(p)] = TRUE]
  /\ UNCHANGED <<scenario, objvars, hostvars, release, current, tabvars, tcb, cpu, tl, look>>

\* baton_wait of a thread in fiber_run or of a fiber in fiber_suspend.
baton_wait(p) ==
  /\ At(p, "wait") /\ baton[p]
  /\ baton' = [baton EXCEPT ![p] = FALSE]
  /\ Goto(p, IF p \in Hosts /\ kill[p] THEN "killed" ELSE "guest")
  /\ UNCHANGED <<scenario, objvars, hostvars, release, current, tabvars, tcb, callvars, cpu, tl, look>>

\* A finalized fiber's host thread frees the fiber and ends.
host_exit(p) ==
  /\ At(p, "killed") /\ g_lookups = 0
  /\ Free(p)
  /\ Goto(p, "dead")
  /\ UNCHANGED <<scenario, objvars, release, baton, current, tabvars, tcb, callvars, cpu, tl, look>>

-----------------------------------------------------------------------------
(* Initialize, Finalize and the end of a guest thread.                     *)

\* The guest initializes only memory that is not a valid fiber.
fiber_initialize(p, o) ==
  /\ At(p, "guest") /\ host[o] = None
  /\ \E h \in Hosts :
       /\ hstat[h] = "unused"
       /\ hstat' = [hstat EXCEPT ![h] = "live"]
       /\ obj' = [obj EXCEPT ![h] = o]
       /\ host' = [host EXCEPT ![o] = h]
  /\ state' = [state EXCEPT ![o] = "IDLE"]
  /\ UNCHANGED <<scenario, hworker, started, kill, release, baton, current, tabvars, tcb,
                 pc, callvars, cpu, tl, look>>

finalize(p, o) ==
  /\ At(p, "guest")
  /\ take_idle(o, "FINALIZED")
  /\ tgt' = [tgt EXCEPT ![cpu[p]] = o]
  /\ Goto(p, "finalize")
  /\ UNCHANGED <<scenario, host, hostvars, release, baton, current, tabvars, tcb, wk, scan,
                 cpu, tl, look>>

finalize_kill(p) ==
  /\ At(p, "finalize") /\ started[H(p)]
  /\ kill' = [kill EXCEPT ![H(p)] = TRUE]
  /\ baton' = [baton EXCEPT ![H(p)] = TRUE]
  /\ Goto(p, "clear")
  /\ UNCHANGED <<scenario, objvars, obj, hstat, hworker, started, release, current,
                 tabvars, tcb, callvars, cpu, tl, look>>

\* Mutant: the fiber is freed under the lookups.
free_at_once(p) ==
  /\ At(p, "finalize") /\ ~started[H(p)]
  /\ Free(H(p))
  /\ Goto(p, "clear")
  /\ UNCHANGED <<scenario, objvars, release, baton, current, tabvars, tcb, callvars, cpu, tl, look>>

\* fiber_free_host after lookup_quiesce.
fiber_free_host(p) ==
  /\ At(p, "finalize") /\ ~started[H(p)] /\ g_lookups = 0
  /\ Free(H(p))
  /\ Goto(p, "clear")
  /\ UNCHANGED <<scenario, objvars, release, baton, current, tabvars, tcb, callvars, cpu, tl, look>>

finalize_clear(p) ==
  /\ At(p, "clear") /\ Done(p, "guest")
  /\ host' = [host EXCEPT ![F(p)] = None]
  /\ UNCHANGED <<scenario, state, hostvars, release, baton, current, tabvars, tcb, cpu, tl, look>>

\* worker_destroy at the end of a guest thread that ran fibers.
worker_destroy(p) ==
  /\ At(p, "guest") /\ tl[p] = None /\ wstat[p] = "live"
  /\ table' = IF slot[p] = 0 THEN table ELSE [table EXCEPT ![slot[p]] = None]
  /\ Goto(p, "exit")
  /\ UNCHANGED <<scenario, objvars, hostvars, release, baton, current, nworkers, slot,
                 wstat, tcb, callvars, cpu, tl, look>>

worker_free(p) ==
  /\ At(p, "exit") /\ (slot[p] = 0 \/ g_lookups = 0)
  /\ wstat' = [wstat EXCEPT ![p] = "freed"]
  /\ Goto(p, "dead")
  /\ UNCHANGED <<scenario, objvars, hostvars, release, baton, current, table, nworkers,
                 slot, tcb, callvars, cpu, tl, look>>

-----------------------------------------------------------------------------
(* ps4_fiber_endpoint_host_thread.                                         *)

Looking(l, r) == look' = [look EXCEPT ![l] = r]
worldvars == <<scenario, objvars, hostvars, release, baton, current, tabvars, tcb, pc, callvars, cpu, tl>>
Off == [at |-> "off", i |-> 0, n |-> 0, w |-> None, h |-> None]

\* Counts itself in g_lookups, then loads g_nworkers.
lookup_begin(l) ==
  /\ look[l].at = "off" /\ Looking(l, [Off EXCEPT !.at = "begin"])
  /\ UNCHANGED worldvars

lookup_scan(l) ==
  /\ look[l].at = "begin"
  /\ Looking(l, [look[l] EXCEPT !.at = "slot", !.i = 1, !.n = nworkers])
  /\ UNCHANGED worldvars

lookup_slot(l) ==
  /\ look[l].at = "slot" /\ look[l].i <= look[l].n
  /\ LET w == table[look[l].i]
     IN Looking(l, IF w = None THEN [look[l] EXCEPT !.i = @ + 1]
                   ELSE [look[l] EXCEPT !.at = "worker", !.w = w])
  /\ UNCHANGED worldvars

lookup_current(l) ==
  /\ look[l].at = "worker"
  /\ Looking(l, [look[l] EXCEPT !.at = "fiber", !.h = current[look[l].w]])
  /\ UNCHANGED worldvars

\* Compares w->ctx and h->fctx with the context looked for; next slot if neither is.
lookup_next(l) ==
  /\ look[l].at = "fiber"
  /\ Looking(l, [look[l] EXCEPT !.at = "slot", !.i = @ + 1, !.w = None, !.h = None])
  /\ UNCHANGED worldvars

\* Found, or past the last slot.
lookup_end(l) ==
  /\ look[l].at = "fiber" \/ (look[l].at = "slot" /\ look[l].i > look[l].n)
  /\ Looking(l, Off)
  /\ UNCHANGED worldvars

-----------------------------------------------------------------------------
Init ==
  /\ scenario \in Scenarios
  /\ state = [o \in Objects |-> "IDLE"] /\ host = [o \in Objects |-> None]
  /\ obj = [h \in Hosts |-> None] /\ hstat = [h \in Hosts |-> "unused"]
  /\ hworker = [h \in Hosts |-> None]
  /\ started = [h \in Hosts |-> FALSE] /\ kill = [h \in Hosts |-> FALSE]
  /\ release = [e \in Procs |-> None] /\ baton = [e \in Procs |-> FALSE]
  /\ current = [w \in Workers |-> None] /\ wstat = [w \in Workers |-> "none"]
  /\ slot = [w \in Workers |-> 0] /\ tcb = [w \in Workers |-> w]
  /\ pc = [e \in Procs |-> IF e \in scenario.guests THEN "guest"
                           ELSE IF e \in Workers THEN "dead"
                           ELSE IF ThreadMode THEN "none" ELSE "finish"]
  /\ tgt = [e \in Procs |-> None] /\ wk = [e \in Procs |-> None]
  /\ scan = [w \in Workers |-> [i |-> 0, n |-> 0]]
  /\ cpu = [p \in Procs |-> IF ThreadMode \/ p \in Workers THEN p ELSE None]
  /\ tl = [p \in Procs |-> IF ThreadMode /\ p \in Hosts THEN p ELSE None]
  /\ table = [i \in 1 .. MaxSlots |-> None] /\ nworkers = 0
  /\ look = [l \in Lookers |-> Off]

\* Steps of a call that does not wait for lookups.
Running(p) ==
  \/ claim_undone(p) \/ get_worker(p) \/ publish_slot(p) \/ publish_grow(p)
  \/ suspending(p) \/ co_enter(p) \/ ctx_switch(p) \/ co_finish_switch(p) \/ co_return(p)
  \/ switch_current(p) \/ switch_idle(p) \/ fiber_resume(p) \/ resume_create(p) \/ resume_failed(p)
  \/ switch_reclaim(p) \/ switch_regain(p) \/ resume_undone(p) \/ resume_post(p)
  \/ return_idle(p) \/ return_post(p) \/ baton_wait(p)
  \/ finalize_kill(p) \/ finalize_clear(p)

Freeing(p) == fiber_free_host(p) \/ host_exit(p) \/ worker_free(p)

\* What the guest calls, and the end of a thread.
Guest(p) ==
  \/ \E o \in Objects : fiber_run(p, o) \/ fiber_switch(p, o) \/ fiber_initialize(p, o) \/ finalize(p, o)
  \/ return_to_thread(p) \/ worker_destroy(p)

Lookup(l) ==
  \/ lookup_begin(l) \/ lookup_scan(l) \/ lookup_slot(l) \/ lookup_current(l)
  \/ lookup_next(l) \/ lookup_end(l)

Next ==
  \/ \E p \in Procs : Running(p) \/ Freeing(p) \/ Guest(p)
  \/ \E l \in Lookers : Lookup(l)

Spec == Init /\ [][Next]_vars

\* Host threads keep running; what the guest calls is up to the guest.
FairSpec ==
  /\ Spec
  /\ \A p \in Procs : WF_vars(Running(p))

-----------------------------------------------------------------------------
(* Properties.                                                             *)

Fibers == {h \in Hosts : hstat[h] = "live"}

\* Every variable keeps its type; g_nworkers never exceeds the table.
TypeOK ==
  /\ state \in [Objects -> {"IDLE", "RUNNING", "SUSPENDING", "FINALIZED"}]
  /\ host \in [Objects -> Hosts \cup {None}] /\ obj \in [Hosts -> Objects \cup {None}]
  /\ hstat \in [Hosts -> {"unused", "live", "freed"}]
  /\ hworker \in [Hosts -> Workers \cup {None}]
  /\ started \in [Hosts -> BOOLEAN] /\ kill \in [Hosts -> BOOLEAN]
  /\ release \in [Procs -> Objects \cup {None}] /\ baton \in [Procs -> BOOLEAN]
  /\ current \in [Workers -> Hosts \cup {None}]
  /\ wstat \in [Workers -> {"none", "live", "freed"}]
  /\ slot \in [Workers -> 0 .. MaxSlots] /\ tcb \in [Workers -> Procs]
  /\ tgt \in [Procs -> Objects \cup {None}] /\ wk \in [Procs -> Workers \cup {None}]
  /\ scan \in [Workers -> [i : 0 .. MaxSlots + 1, n : 0 .. MaxSlots]]
  /\ cpu \in [Procs -> Procs \cup {None}] /\ tl \in [Procs -> Hosts \cup {None}]
  /\ table \in [1 .. MaxSlots -> Workers \cup {None}] /\ nworkers \in 0 .. MaxSlots

\* No two host threads are on the same stack, and none is on the stack of a
\* freed fiber (FIBER_STATE_SUSPENDING keeps a fiber from being claimed until
\* its stack is free).
StackExclusive ==
  /\ \A p, q \in Procs : cpu[p] # None /\ cpu[p] = cpu[q] => p = q
  /\ \A p \in Procs : cpu[p] \in Hosts /\ pc[cpu[p]] \notin {"none", "dead"} => hstat[cpu[p]] = "live"

\* A fiber that is IDLE or freed is not any worker's current fiber.
IdleNotCurrent ==
  \A w \in Workers : current[w] # None =>
    /\ hstat[current[w]] = "live"
    /\ state[obj[current[w]]] \notin {"IDLE", "FINALIZED"}

\* A worker keeps its slot of the table as long as it lives: no other worker
\* takes it, and g_nworkers covers it, so lookups find the worker.
WorkerListed ==
  \A w \in Workers : slot[w] # 0 /\ wstat[w] = "live" /\ pc[w] # "exit" =>
    slot[w] <= nworkers /\ table[slot[w]] = w

\* A lookup never reads a freed worker or a freed fiber.
LookupSafe ==
  \A l \in Lookers :
    /\ look[l].w # None => wstat[look[l].w] = "live"
    /\ look[l].h # None => hstat[look[l].h] = "live"

\* A fiber in guest code is RUNNING, it is the current fiber of the guest
\* thread it believes to be on, and the thread's own code waits for it.
RunningIsCurrent ==
  \A h \in Fibers : pc[h] = "guest" =>
    /\ state[obj[h]] = "RUNNING"
    /\ current[hworker[h]] = h
    /\ pc[hworker[h]] \in {"wait", "finish"}

\* The TCB slot of a guest thread names the endpoint that is in guest code on
\* it: the thread's own, or its fiber.
TcbNamesRunning ==
  /\ \A w \in Workers : pc[w] = "guest" => tcb[w] = w
  /\ \A h \in Fibers : pc[h] = "guest" => tcb[hworker[h]] = h

\* A hand-over is completed: a fiber that becomes the current one of a guest
\* thread gets to run there, unless the hand-over fails.
HandedOver ==
  \A h \in Hosts : (\E w \in Workers : current[w] = h)
                   ~> (pc[h] \notin {"none", "wait", "finish"} \/ \A w \in Workers : current[w] # h)

\* A fiber that suspends becomes claimable.
SuspendedBecomesIdle ==
  \A o \in Objects : state[o] = "SUSPENDING" ~> state[o] = "IDLE"
=============================================================================
