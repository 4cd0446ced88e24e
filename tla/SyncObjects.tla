---------------------------- MODULE SyncObjects -----------------------------
(***************************************************************************)
(* Guest synchronization objects of kernel/sync in two parts: the objects  *)
(* behind guest variables, and once controls and initialization guards.    *)
(***************************************************************************)
EXTENDS Naturals, FiniteSets, Sequences, SequencesExt, FiniteSetsExt

-----------------------------------------------------------------------------
(***************************************************************************)
(* Where guest sync objects live: the arena of                             *)
(* pkg/runtime/kernel/sync/ps4_sync_objects.c, the handles guest variables *)
(* hold, and the tables of ps4_sync.c from a handle to the host object.    *)
(*                                                                         *)
(* A handle is a slot number (0: static initializer).  Mutexes come from   *)
(* a free list and go back to it; condition variables and read-write locks *)
(* are nodes made on first use and freed, both "node" here.  Variables are *)
(* copied by the guest, which has no copy left when it destroys an object  *)
(* and is in no other call on it.                                          *)
(***************************************************************************)

CONSTANTS ObjThreads, MutexVars, NodeVars,
          SYNC_OBJ_SLOTS, \* slots of the arena; none left ends the program
          ObjMutexes      \* bound: mutexes ever made

ASSUME ObjAssumption ==
  /\ SYNC_OBJ_SLOTS \in Nat \ {0} /\ ObjMutexes \in Nat \ {0}
  /\ MutexVars \cap NodeVars = {} /\ 0 \notin MutexVars \cup NodeVars

VARIABLES g_live, g_free, g_next, \* the arena
          ovar,                   \* what each guest variable holds
          g_mtab,                 \* mutex of each slot, 0 for none
          g_nodes,                \* slots with a node in the other tables
          g_mutex_free, g_mutex_all,
          ocall                   \* the call each thread is in

obj_vars == <<g_live, g_free, g_next, ovar, g_mtab, g_nodes, g_mutex_free, g_mutex_all, ocall>>
arena == <<g_live, g_free, g_next>>
tables == <<g_mtab, g_nodes, g_mutex_free, g_mutex_all>>

ObjVars == MutexVars \cup NodeVars
ObjSlots == 1..SYNC_OBJ_SLOTS
NoObjCall == [at |-> "idle", var |-> 0, h |-> 0, m |-> 0]

ObjInit ==
  /\ g_live = {} /\ g_free = <<>> /\ g_next = 1
  /\ ovar = [v \in ObjVars |-> 0]
  /\ g_mtab = [s \in ObjSlots |-> 0] /\ g_nodes = {} /\ g_mutex_free = <<>> /\ g_mutex_all = 0
  /\ ocall = [t \in ObjThreads |-> NoObjCall]

-----------------------------------------------------------------------------
\* The last slot freed, or one never used.
sync_obj_alloc(s) ==
  /\ g_live' = g_live \cup {s}
  /\ IF g_free # <<>> THEN s = Last(g_free) /\ g_free' = Front(g_free) /\ UNCHANGED g_next
     ELSE s = g_next /\ g_next' = g_next + 1 /\ UNCHANGED g_free

\* No other thread is in a call that destroys what v names.
Alive(v) ==
  \A u \in ObjThreads : ~(ocall[u].at \in {"d_table", "d_slot"} /\ (ocall[u].var = v \/ (ocall[u].h = ovar[v] /\ ovar[v] # 0)))
ObjGoes(t, at, v, h, m) == ocall' = [ocall EXCEPT ![t] = [at |-> at, var |-> v, h |-> h, m |-> m]]

\* shim_pthread_mutex_init, cond_init, rwlock_init: always a fresh object.
sync_init(t, v) ==
  /\ ocall[t].at = "idle" /\ \A u \in ObjThreads : ocall[u].var # v
  /\ \E s \in ObjSlots : /\ sync_obj_alloc(s)
                         /\ ovar' = [ovar EXCEPT ![v] = s]
                         /\ ObjGoes(t, "table", v, s, 0)
  /\ UNCHANGED tables

\* Any other call on v: the handle is read without a lock ...
sync_handle(t, v) ==
  /\ ocall[t].at = "idle" /\ Alive(v)
  /\ IF ovar[v] \in g_live THEN ObjGoes(t, "table", v, ovar[v], 0) ELSE ObjGoes(t, "fresh", v, 0, 0)
  /\ UNCHANGED <<ovar, arena, tables>>
\* ... and read again under g_sync_handle_lock when it names nothing.
fresh_unchecked(t) ==
  LET v == ocall[t].var
  IN  /\ ocall[t].at = "fresh"
      /\ \E s \in ObjSlots : /\ sync_obj_alloc(s)
                             /\ ovar' = [ovar EXCEPT ![v] = s]
                             /\ ObjGoes(t, "table", v, s, 0)
      /\ UNCHANGED tables
handle_fresh(t) ==
  LET v == ocall[t].var
  IN  /\ ocall[t].at = "fresh"
      /\ IF ovar[v] \in g_live
         THEN ObjGoes(t, "table", v, ovar[v], 0) /\ UNCHANGED <<ovar, arena>>
         ELSE \E s \in ObjSlots : /\ sync_obj_alloc(s)
                                  /\ ovar' = [ovar EXCEPT ![v] = s]
                                  /\ ObjGoes(t, "table", v, s, 0)
      /\ UNCHANGED tables

\* get_host_mutex_with_type / get_host_cond / get_host_rwlock: the object of
\* the handle, made when the table has none.
gm_get_locked(t) ==
  LET h == ocall[t].h
      m == IF g_mutex_free # <<>> THEN Head(g_mutex_free) ELSE g_mutex_all + 1
  IN  /\ ocall[t].at = "table" /\ ocall[t].var \in MutexVars
      /\ IF g_mtab[h] # 0
         THEN ObjGoes(t, "using", ocall[t].var, h, g_mtab[h]) /\ UNCHANGED tables
         ELSE /\ m <= ObjMutexes
              /\ g_mtab' = [g_mtab EXCEPT ![h] = m]
              /\ g_mutex_free' = IF g_mutex_free # <<>> THEN Tail(g_mutex_free) ELSE <<>>
              /\ g_mutex_all' = Max({g_mutex_all, m})
              /\ ObjGoes(t, "using", ocall[t].var, h, m)
              /\ UNCHANGED g_nodes
      /\ UNCHANGED <<ovar, arena>>
get_host_cond(t) ==
  /\ ocall[t].at = "table" /\ ocall[t].var \in NodeVars
  /\ g_nodes' = g_nodes \cup {ocall[t].h}
  /\ ObjGoes(t, "using", ocall[t].var, ocall[t].h, 0)
  /\ UNCHANGED <<ovar, arena, g_mtab, g_mutex_free, g_mutex_all>>

get_host_rwlock(t) == get_host_cond(t)

\* The operation on the object is over.
sync_return(t) ==
  /\ ocall[t].at = "using" /\ ocall' = [ocall EXCEPT ![t] = NoObjCall]
  /\ UNCHANGED <<ovar, arena, tables>>

-----------------------------------------------------------------------------
\* shim_pthread_mutex_destroy, cond_destroy, rwlock_destroy: the variable is
\* cleared, the host object leaves its table, the slot is freed.
sync_handle_take(t, v) ==
  /\ ocall[t].at = "idle" /\ Alive(v)
  /\ \A w \in ObjVars \ {v} : ovar[v] # 0 => ovar[w] # ovar[v]
  /\ \A u \in ObjThreads : ocall[u].var # v /\ (ocall[u].h # ovar[v] \/ ovar[v] = 0)
  /\ ovar' = [ovar EXCEPT ![v] = 0]
  /\ IF ovar[v] \in g_live THEN ObjGoes(t, "d_table", v, ovar[v], 0) ELSE UNCHANGED ocall
  /\ UNCHANGED <<arena, tables>>

destroy_table(t) ==
  LET h == ocall[t].h
  IN  /\ ocall[t].at = "d_table"
      /\ ocall' = [ocall EXCEPT ![t].at = "d_slot"]
      /\ IF ocall[t].var \in MutexVars
         THEN /\ g_mtab' = [g_mtab EXCEPT ![h] = 0]
              /\ g_mutex_free' = (IF g_mtab[h] # 0 THEN <<g_mtab[h]>> ELSE <<>>) \o g_mutex_free
              /\ UNCHANGED g_nodes
         ELSE g_nodes' = g_nodes \ {h} /\ UNCHANGED <<g_mtab, g_mutex_free>>
      /\ UNCHANGED <<ovar, arena, g_mutex_all>>
sync_obj_free(t) ==
  /\ ocall[t].at = "d_slot"
  /\ g_live' = g_live \ {ocall[t].h} /\ g_free' = Append(g_free, ocall[t].h)
  /\ ocall' = [ocall EXCEPT ![t] = NoObjCall]
  /\ UNCHANGED <<g_next, ovar, tables>>

\* The guest copies a handle to another variable, or drops a copy.
handle_copy(v, w) ==
  /\ {v, w} \subseteq MutexVars \/ {v, w} \subseteq NodeVars
  /\ v # w /\ Alive(v) /\ Alive(w) /\ \A t \in ObjThreads : ocall[t].var # w
  /\ \E u \in ObjVars \ {w} : ovar[w] \in {0, ovar[u]}
  /\ ovar' = [ovar EXCEPT ![w] = ovar[v]]
  /\ UNCHANGED <<arena, tables, ocall>>

ObjNext ==
  \/ \E t \in ObjThreads :
       \/ \E v \in ObjVars : sync_init(t, v) \/ sync_handle(t, v) \/ sync_handle_take(t, v)
       \/ handle_fresh(t) \/ gm_get_locked(t) \/ get_host_cond(t) \/ get_host_rwlock(t) \/ sync_return(t)
       \/ destroy_table(t) \/ sync_obj_free(t)
  \/ \E v, w \in ObjVars : handle_copy(v, w)

-----------------------------------------------------------------------------
\* Every slot used once is live or free and not both; only a live slot has a
\* host object, so that a fresh object never inherits one; no mutex has two
\* slots or is free and in a slot; and threads that use one variable at the
\* same time use the same mutex, also when both were the first to use it.
OneObjectPerHandle ==
  /\ IsInjective(g_free) /\ Range(g_free) \cap g_live = {} /\ Range(g_free) \cup g_live = 1..g_next - 1
  /\ g_nodes \subseteq g_live /\ \A s \in ObjSlots : g_mtab[s] # 0 => s \in g_live
  /\ \A r, s \in g_live : r # s /\ g_mtab[r] # 0 => g_mtab[r] # g_mtab[s]
  /\ IsInjective(g_mutex_free) /\ \A s \in ObjSlots : g_mtab[s] \notin Range(g_mutex_free)
  /\ \A v \in ObjVars : ovar[v] # 0 => ovar[v] \in g_live
  /\ \A t, u \in ObjThreads : ocall[t].at = "using" /\ ocall[u].at = "using" /\ ocall[t].var = ocall[u].var
                                => ocall[t].m = ocall[u].m

-----------------------------------------------------------------------------
(***************************************************************************)
(* One-time initialization: pthread_once and the C++ static guards of      *)
(* pkg/runtime/kernel/sync/ps4_sync.c.                                     *)
(*                                                                         *)
(* The once control is 0, 2 (in progress) or 1 (done).  A guard's bytes    *)
(* are done, busy and the holder's thread id.  A static initializer may    *)
(* acquire its own guard again, which returns 0 and changes nothing, and   *)
(* may end by an exception (abort).                                        *)
(***************************************************************************)

CONSTANTS OnceThreads, NoHolder

ASSUME OnceAssumption == NoHolder \notin OnceThreads

VARIABLES ctrl, guard,
          once_at,   \* where each thread is in pthread_once
          guard_at,  \* and in the guarded static's code
          made       \* initializations completed: [once, guard]

once_vars == <<ctrl, guard, once_at, guard_at, made>>
FreeGuard == [done |-> FALSE, busy |-> FALSE, holder |-> NoHolder]

OnceInit ==
  /\ ctrl = 0 /\ guard = FreeGuard
  /\ once_at = [t \in OnceThreads |-> "idle"] /\ guard_at = [t \in OnceThreads |-> "idle"]
  /\ made = [once |-> 0, guard |-> 0]

-----------------------------------------------------------------------------
\* Threads in a set are woken by a broadcast.
Woken(at, from, to) == [t \in OnceThreads |-> IF at[t] = from THEN to ELSE at[t]]

\* shim_pthread_once up to the routine, when called and when woken.
shim_pthread_once(t) ==
  /\ once_at[t] \in {"idle", "woken"}
  /\ CASE ctrl = 2 -> once_at' = [once_at EXCEPT ![t] = "asleep"] /\ UNCHANGED ctrl
       [] ctrl = 1 -> once_at' = [once_at EXCEPT ![t] = "returned"] /\ UNCHANGED ctrl
       [] ctrl = 0 -> once_at' = [once_at EXCEPT ![t] = "routine"] /\ ctrl' = 2
  /\ UNCHANGED <<guard, guard_at, made>>
\* The routine returned: done, and every sleeper is woken.
once_end(t) ==
  /\ once_at[t] = "routine" /\ ctrl' = 1 /\ made' = [made EXCEPT !.once = @ + 1]
  /\ once_at' = [Woken(once_at, "asleep", "woken") EXCEPT ![t] = "returned"]
  /\ UNCHANGED <<guard, guard_at>>

-----------------------------------------------------------------------------
\* The guard's first check is made without the lock; a hit returns at once.
shim_cxa_guard_acquire(t) ==
  /\ guard_at[t] = "idle"
  /\ guard_at' = [guard_at EXCEPT ![t] = IF guard.done THEN "uses" ELSE "locked"]
  /\ UNCHANGED <<ctrl, guard, once_at, made>>
\* The loop under the lock, entered and after a wakeup.
acquire_loop(t) ==
  /\ guard_at[t] = "locked"
  /\ \/ guard.done /\ guard_at' = [guard_at EXCEPT ![t] = "uses"] /\ UNCHANGED guard
     \/ /\ ~guard.done /\ guard.busy /\ guard.holder # t
        /\ guard_at' = [guard_at EXCEPT ![t] = "asleep"] /\ UNCHANGED guard
     \/ /\ ~guard.done /\ ~guard.busy
        /\ guard' = [guard EXCEPT !.busy = TRUE, !.holder = t]
        /\ guard_at' = [guard_at EXCEPT ![t] = "initializes"]
  /\ UNCHANGED <<ctrl, once_at, made>>
shim_cxa_guard_release(t) ==
  /\ guard_at[t] = "initializes"
  /\ guard' = [done |-> TRUE, busy |-> FALSE, holder |-> NoHolder]
  /\ guard_at' = [Woken(guard_at, "asleep", "locked") EXCEPT ![t] = "uses"]
  /\ made' = [made EXCEPT !.guard = @ + 1]
  /\ UNCHANGED <<ctrl, once_at>>
abort_silent(t) ==
  /\ guard_at[t] = "initializes"
  /\ guard' = [guard EXCEPT !.busy = FALSE, !.holder = NoHolder]
  /\ guard_at' = [guard_at EXCEPT ![t] = "idle"]
  /\ UNCHANGED <<ctrl, once_at, made>>
shim_cxa_guard_abort(t) ==
  /\ guard_at[t] = "initializes"
  /\ guard' = [guard EXCEPT !.busy = FALSE, !.holder = NoHolder]
  /\ guard_at' = [Woken(guard_at, "asleep", "locked") EXCEPT ![t] = "idle"]
  /\ UNCHANGED <<ctrl, once_at, made>>

\* The call is over; the next one starts from the beginning.
once_again(t) ==
  /\ \/ once_at[t] = "returned" /\ once_at' = [once_at EXCEPT ![t] = "idle"] /\ UNCHANGED guard_at
     \/ guard_at[t] = "uses" /\ guard_at' = [guard_at EXCEPT ![t] = "idle"] /\ UNCHANGED once_at
  /\ UNCHANGED <<ctrl, guard, made>>

OnceStep(t) ==
  \/ shim_pthread_once(t) \/ once_end(t)
  \/ acquire_loop(t) \/ shim_cxa_guard_release(t)
OnceNext ==
  \E t \in OnceThreads :
    \/ OnceStep(t) \/ shim_cxa_guard_acquire(t) \/ shim_cxa_guard_abort(t) \/ once_again(t)

-----------------------------------------------------------------------------
\* Whatever callers meet and however often an initializer is aborted, each
\* initialization completes at most once, no thread is past it before it did,
\* and no thread sleeps when no other is initializing (nobody would wake it).
InitializedOnce ==
  /\ made.once <= 1 /\ made.guard <= 1
  /\ \A t \in OnceThreads :
       /\ once_at[t] = "returned" => made.once = 1
       /\ guard_at[t] = "uses" => made.guard = 1
       /\ once_at[t] = "asleep" => \E u \in OnceThreads : once_at[u] = "routine"
       /\ guard_at[t] = "asleep" => \E u \in OnceThreads : guard_at[u] = "initializes"
=============================================================================
