----------------------------- MODULE EventQueue -----------------------------
(***************************************************************************)
(* Kernel event queues: pkg/runtime/kernel/equeue/ps4_equeue.c.            *)
(*                                                                         *)
(* Every operation finds its queue under g_eq_table_mutex and takes the    *)
(* queue's mutex before it lets go of the table's, so each is one step;    *)
(* only a waiter asleep in sceKernelWaitEqueue keeps a pointer to the slot *)
(* over other steps, also when the queue is deleted and the slot reused.   *)
(* An event is its ident and filter; fflags, data and udata are left out.  *)
(***************************************************************************)
EXTENDS Naturals, Sequences, FiniteSets

CONSTANTS EqThreads, EqSlots,   \* EqSlots: the MAX_EQUEUES slots, from 0
          EqEvents,             \* the (ident, filter) pairs posted
          EQUEUE_CAPACITY,
          EqMaxId               \* bound: queues ever created

ASSUME EqAssumption == EQUEUE_CAPACITY \in Nat \ {0}
ASSUME EqFinite == IsFiniteSet(EqThreads)

VARIABLES g_equeues,    \* the slots
          g_next_eq_id,
          qcall,        \* the wait each thread is in
          posted        \* what each slot's queue should hold, in order

eq_vars == <<g_equeues, g_next_eq_id, qcall, posted>>

NoWait == [at |-> "idle", slot |-> 0, id |-> 0, num |-> 0, timed |-> FALSE]
NewQueue(id, ev) == [in_use |-> TRUE, is_deleted |-> FALSE, id |-> id, head |-> 0, tail |-> 0, count |-> 0,
                    events |-> ev]
Idx(k) == k % EQUEUE_CAPACITY

EqInit ==
  LET e == CHOOSE x \in EqEvents : TRUE IN
    /\ g_equeues = [i \in EqSlots |-> [in_use |-> FALSE, is_deleted |-> FALSE, id |-> 0, head |-> 0, tail |-> 0,
                                       count |-> 0, events |-> [k \in 0..EQUEUE_CAPACITY - 1 |-> e]]]
    /\ g_next_eq_id = 1 /\ qcall = [t \in EqThreads |-> NoWait] /\ posted = [i \in EqSlots |-> <<>>]

EqWaiting(i, at) == {t \in EqThreads : qcall[t].at = at /\ qcall[t].slot = i}
find_equeue_locked(i) == g_equeues[i].in_use
Ring(q) == [k \in 1..q.count |-> q.events[Idx(q.head + k - 1)]]

\* The queue in slot i becomes q, and should hold s.
EqBecomes(i, q, s) ==
  /\ g_equeues' = [g_equeues EXCEPT ![i] = q]
  /\ posted' = [posted EXCEPT ![i] = s]
\* Mutant: a post wakes nobody when the queue was not empty.
signal_first_only(i) ==
  IF EqWaiting(i, "asleep") = {} \/ g_equeues[i].count > 0 THEN UNCHANGED qcall
  ELSE \E w \in EqWaiting(i, "asleep") : qcall' = [qcall EXCEPT ![w].at = "woken"]
EqSignal(i) ==
  IF EqWaiting(i, "asleep") = {} THEN UNCHANGED qcall
  ELSE \E w \in EqWaiting(i, "asleep") : qcall' = [qcall EXCEPT ![w].at = "woken"]
EqBroadcast(S) ==
  qcall' = [t \in EqThreads |-> IF \E i \in S : t \in EqWaiting(i, "asleep")
                                THEN [qcall[t] EXCEPT !.at = "woken"] ELSE qcall[t]]

-----------------------------------------------------------------------------
sceKernelCreateEqueue ==
  \E i \in EqSlots :
    /\ ~g_equeues[i].in_use /\ (\A j \in EqSlots : j < i => g_equeues[j].in_use)
    /\ g_next_eq_id <= EqMaxId
    /\ EqBecomes(i, NewQueue(g_next_eq_id, g_equeues[i].events), <<>>)
    /\ g_next_eq_id' = g_next_eq_id + 1
    /\ UNCHANGED qcall

\* sceKernelDeleteEqueue, and ps4_equeue_destroy for all queues at once.
delete_queues(S) ==
  /\ S # {} /\ \A i \in S : find_equeue_locked(i)
  /\ g_equeues' = [i \in EqSlots |-> IF i \in S THEN [g_equeues[i] EXCEPT !.is_deleted = TRUE, !.in_use = FALSE]
                                     ELSE g_equeues[i]]
  /\ EqBroadcast(S)
  /\ UNCHANGED <<g_next_eq_id, posted>>
sceKernelDeleteEqueue == \E i \in EqSlots : delete_queues({i})
ps4_equeue_destroy == delete_queues({i \in EqSlots : find_equeue_locked(i)})

\* The event at the tail, when there is room.
Push(q, e) == [q EXCEPT !.events = [@ EXCEPT ![q.tail] = e], !.tail = Idx(@ + 1), !.count = @ + 1]

\* A full queue drops the event, and the poster is told nothing.
ps4_equeue_post_event ==
  \E i \in EqSlots, e \in EqEvents :
    /\ find_equeue_locked(i)
    /\ IF g_equeues[i].count < EQUEUE_CAPACITY
       THEN EqBecomes(i, Push(g_equeues[i], e), Append(posted[i], e)) /\ EqSignal(i)
       ELSE UNCHANGED <<g_equeues, posted, qcall>>
    /\ UNCHANGED g_next_eq_id

\* One that is queued already absorbs the new one.
ps4_equeue_trigger_event ==
  \E i \in EqSlots, e \in EqEvents :
    LET q == g_equeues[i]
        coalesced == \E k \in 1..q.count : Ring(q)[k] = e
    IN  /\ find_equeue_locked(i)
        /\ IF ~coalesced /\ q.count < EQUEUE_CAPACITY
           THEN EqBecomes(i, Push(q, e), Append(posted[i], e))
           ELSE UNCHANGED <<g_equeues, posted>>
        /\ EqBroadcast({i})
        /\ UNCHANGED g_next_eq_id

\* Mutant: the kept events stay where they are.
remove_in_place(q, e) ==
  LET kept == {k \in 0..q.count - 1 : q.events[Idx(q.head + k)] # e}
  IN  [q EXCEPT !.count = Cardinality(kept), !.tail = Idx(q.head + Cardinality(kept))]

\* The kept events move down over the gaps, in place, from the head on: the
\* n-th of them goes to the n-th place.
remove_events_locked(q, e) ==
  LET kept == {k \in 0..q.count - 1 : q.events[Idx(q.head + k)] # e}
      nth(n) == CHOOSE k \in kept : Cardinality({j \in kept : j < k}) = n
      n == Cardinality(kept)
  IN  [q EXCEPT !.count = n, !.tail = Idx(q.head + n),
         !.events = [x \in DOMAIN @ |->
                       IF \E w \in 0..n - 1 : x = Idx(q.head + w)
                       THEN q.events[Idx(q.head + nth(CHOOSE w \in 0..n - 1 : x = Idx(q.head + w)))]
                       ELSE @[x]]]

\* ps4_equeue_remove_events, sceKernelDeleteUserEvent
ps4_equeue_remove_events ==
  \E i \in EqSlots, e \in EqEvents :
    /\ find_equeue_locked(i)
    /\ EqBecomes(i, remove_events_locked(g_equeues[i], e), SelectSeq(posted[i], LAMBDA x : x # e))
    /\ UNCHANGED <<g_next_eq_id, qcall>>

-----------------------------------------------------------------------------
(* sceKernelWaitEqueue                                                     *)

\* Up to num events leave at the head.
Take(t, i, num) ==
  LET q == g_equeues[i]
      n == IF q.count < num THEN q.count ELSE num
  IN  /\ EqBecomes(i, [q EXCEPT !.head = Idx(@ + n), !.count = @ - n], SubSeq(posted[i], n + 1, Len(posted[i])))
      /\ qcall' = [qcall EXCEPT ![t] = NoWait]

\* The call finds events, polls (a zero timeout), or goes to sleep.
sceKernelWaitEqueue(t) ==
  /\ qcall[t].at = "idle"
  /\ \E i \in EqSlots, num \in 1..EQUEUE_CAPACITY, timed \in BOOLEAN :
       /\ find_equeue_locked(i)
       /\ \/ (timed \/ g_equeues[i].count > 0) /\ Take(t, i, num)
          \/ /\ g_equeues[i].count = 0
             /\ qcall' = [qcall EXCEPT ![t] = [at |-> "asleep", slot |-> i, id |-> g_equeues[i].id,
                                               num |-> num, timed |-> timed]]
             /\ UNCHANGED <<g_equeues, posted>>
  /\ UNCHANGED g_next_eq_id

\* Awake again: EBADF, the events there are, or back to sleep.
wait_equeue_woken(t) ==
  LET q == g_equeues[qcall[t].slot]
  IN  /\ qcall[t].at \in {"woken", "late"}
      /\ IF q.is_deleted THEN qcall' = [qcall EXCEPT ![t] = NoWait] /\ UNCHANGED <<g_equeues, posted>>
         ELSE IF q.count > 0 \/ qcall[t].at = "late" THEN Take(t, qcall[t].slot, qcall[t].num)
         ELSE qcall' = [qcall EXCEPT ![t].at = "asleep"] /\ UNCHANGED <<g_equeues, posted>>
      /\ UNCHANGED g_next_eq_id

\* The host's condition variable: spurious wakeups and timeouts.
eq_cond(t) ==
  /\ qcall[t].at = "asleep"
  /\ \E how \in {"woken"} \cup (IF qcall[t].timed THEN {"late"} ELSE {}) : qcall' = [qcall EXCEPT ![t].at = how]
  /\ UNCHANGED <<g_equeues, g_next_eq_id, posted>>

EqNext ==
  \/ sceKernelCreateEqueue \/ sceKernelDeleteEqueue \/ ps4_equeue_destroy \/ ps4_equeue_post_event
  \/ ps4_equeue_trigger_event \/ ps4_equeue_remove_events
  \/ \E t \in EqThreads : sceKernelWaitEqueue(t) \/ wait_equeue_woken(t) \/ eq_cond(t)

-----------------------------------------------------------------------------
(* The ring of every queue holds, from head to tail and across the wrap,   *)
(* the events accepted and not yet taken or removed, in order.             *)
EqRingIsQueue ==
  \A i \in EqSlots : LET q == g_equeues[i]
                     IN  q.in_use => Ring(q) = posted[i] /\ q.tail = Idx(q.head + q.count)

(* No event waits for a thread that is asleep: while somebody sleeps on a  *)
(* queue, every event in it has a woken thread on its way, though posts    *)
(* wake one waiter each and waiters take several events, time out, or are  *)
(* left over from a queue deleted earlier in the slot.                     *)
EqNoLostEvent ==
  \A i \in EqSlots : g_equeues[i].in_use /\ EqWaiting(i, "asleep") # {}
                       => g_equeues[i].count <= Cardinality(EqWaiting(i, "woken"))
=============================================================================
