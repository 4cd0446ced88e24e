-------------------------- MODULE GuestMutexProofs --------------------------
(***************************************************************************)
(* Proofs about GuestMutex for any finite set of threads.  The invariants  *)
(* of GuestMutex are not inductive by themselves: HolderIsOwner needs to   *)
(* know where an owner can be, WaitersCounted that only the holder of lk   *)
(* changes the slow path's size, NoLostWakeup that a thread about to sleep *)
(* still holds lk.  IInv adds those facts.                                 *)
(***************************************************************************)
EXTENDS GuestMutex, FiniteSetTheorems, TLAPS

\* Where a thread holds m->lk.
InLk == {"inc", "cas", "park", "leave", "cw_store", "cw_load"}

\* Where a thread's call has not begun, or has nothing to do with m.
Outside == {"idle", "sig", "sig_lk", "bcast", "bcast_lk"}

\* m->lk is held exactly by the thread inside one of its sections.
LkInv == \A t \in Threads : pc[t] \in InLk <=> lk = t

\* A thread in a condition wait has a depth to restore, and only a timed lock
\* can be late.
ModeInv ==
  \A t \in Threads :
    /\ mode[t] = "cond" => pc[t] \in {"cw_lk", "cw_store", "cond_woken", "inc"} \cup Parked \cup SlowPath
    /\ pc[t] \in {"cw_lk", "cw_store", "cond_woken"} \cup Parked => mode[t] = "cond"
    /\ mode[t] = "cond" <=> depth[t] > 0
    /\ late[t] => mode[t] = "timed" /\ pc[t] \in SlowPath

\* What the guest thread holds, by where it is and by the owner word.
OwnInv ==
  \A t \in Threads :
    /\ pc[t] \in Outside /\ owner = t => held[t] = count /\ count > 0
    /\ pc[t] \in Outside /\ owner # t => held[t] = 0
    /\ pc[t] = "cw_lk" => owner = t /\ held[t] = count /\ count = depth[t]
    /\ pc[t] = "cw_store" => owner = t /\ held[t] = depth[t]
    /\ pc[t] \in {"acq", "rel_store"} => owner = t /\ held[t] = 0
    /\ pc[t] = "leave" => held[t] = 0 /\ (mode[t] = "cond" => owner = t)
    /\ pc[t] \notin Outside \cup {"cw_lk", "cw_store", "acq", "rel_store", "leave"} =>
         owner # t /\ held[t] = 0

\* A destroyed node is quiet: all that is left are the tails of unlocks.
LiveInv == ~live => Quiet

\* NoLostWakeup also for a thread that has decided to sleep.
WakeupInv ==
  (owner = NoThread /\ At({"asleep", "park"}) # {}) =>
    At({"rel_load", "rel_sig", "cw_load", "woken", "cas"}) # {}

\* Nobody is owed a wake-up who is not waiting; a signaller that goes without
\* lk owes nobody.
SigInv ==
  /\ \A t \in Threads : owed[t] \subseteq At(Parked)
  /\ \A t \in Threads : pc[t] \in {"sig", "bcast"} => owed[t] = {}
  /\ ~cnm => At(Parked \cup {"cw_store"}) = {}

IInv ==
  /\ TypeOK /\ LkInv /\ ModeInv /\ OwnInv
  /\ WaitersCounted /\ LiveInv /\ WakeupInv /\ SigInv

-----------------------------------------------------------------------------
(* Facts about sets of threads.                                            *)

\* The threads at some labels are finitely many.
LEMMA AtFinite == ASSUME NEW S PROVE IsFiniteSet(At(S)) /\ Cardinality(At(S)) \in Nat
<1>1. IsFiniteSet(At(S))
  BY ThreadsAssumption, FS_Subset DEF At
<1> QED  BY <1>1, FS_CardinalityType

-----------------------------------------------------------------------------
(* One lemma per conjunct of IInv, one step per action.                    *)

USE ThreadsAssumption, TypesAssumption, MaxDepthAssumption

\* While some thread is in the slow path the counter is not 0.
LEMMA SlowPathNonEmpty ==
  ASSUME WaitersCounted, NEW t \in Threads, pc[t] \in SlowPath
  PROVE  waiters # 0
BY AtFinite, FS_EmptySet DEF WaitersCounted, At

\* The types are preserved; the depth never falls below 0 because only an owner
\* with a positive depth unlocks.
LEMMA TypeStep == IInv /\ Next => TypeOK'
<1> SUFFICES ASSUME IInv, Next PROVE TypeOK'  OBVIOUS
<1> USE DEF IInv, TypeOK, OwnInv, ModeInv, Labels, SlowPath, Parked, Outside
<1>1. ASSUME NEW t \in Threads, gm_lock(t) PROVE TypeOK'
  BY <1>1 DEF gm_lock, Goto, Takes, At
<1>2. ASSUME NEW t \in Threads, gm_relock(t) PROVE TypeOK'
  BY <1>2 DEF gm_relock
<1>3. ASSUME NEW t \in Threads, gm_trylock(t) PROVE TypeOK'
  BY <1>3 DEF gm_trylock, Goto, Takes, At
<1>4. ASSUME NEW t \in Threads, gm_acquired(t) PROVE TypeOK'
  BY <1>4 DEF gm_acquired, Goto
<1>5. ASSUME NEW t \in Threads, gm_spin(t) PROVE TypeOK'
  BY <1>5 DEF gm_spin, Goto, Takes, At
<1>6. ASSUME NEW t \in Threads, gm_lk_lock(t) PROVE TypeOK'
  BY <1>6 DEF gm_lk_lock, Goto
<1>7. ASSUME NEW t \in Threads, sleep_enter(t) PROVE TypeOK'
  BY <1>7 DEF sleep_enter, Goto
<1>8. ASSUME NEW t \in Threads, sleep_cas(t) PROVE TypeOK'
  BY <1>8 DEF sleep_cas, Goto, Takes, At
<1>9. ASSUME NEW t \in Threads, sleep_park(t) PROVE TypeOK'
  BY <1>9 DEF sleep_park, Goto
<1>10. ASSUME NEW t \in Threads, host_wake(t) PROVE TypeOK'
  <2>1. late' \in [Threads -> BOOLEAN]
    <3>1. late \in [Threads -> BOOLEAN]  OBVIOUS
    <3>2. late' = late \/ late' = [late EXCEPT ![t] = TRUE]  BY <1>10 DEF host_wake
    <3> HIDE DEF IInv
    <3> QED  BY <3>1, <3>2
  <2>2. pc' \in [Threads -> Labels]  BY <1>10 DEF host_wake, Goto
  <2>3. owed' \in [Threads -> SUBSET Threads]  BY <1>10 DEF host_wake, Goto
  <2> QED  BY <1>10, <2>1, <2>2, <2>3 DEF host_wake
<1>11. ASSUME NEW t \in Threads, sleep_leave(t) PROVE TypeOK'
  <2>1. waiters # 0  BY <1>11, SlowPathNonEmpty DEF sleep_leave
  <2> QED  BY <1>11, <2>1 DEF sleep_leave, Goto
<1>12. ASSUME NEW t \in Threads, gm_unlock(t) PROVE TypeOK'
  BY <1>12 DEF gm_unlock, Goto
<1>13. ASSUME NEW t \in Threads, gm_release(t) PROVE TypeOK'
  BY <1>13 DEF gm_release, Goto
<1>14. ASSUME NEW t \in Threads, release_check(t) PROVE TypeOK'
  BY <1>14 DEF release_check, Goto
<1>15. ASSUME NEW t \in Threads, release_signal(t) PROVE TypeOK'
  BY <1>15 DEF release_signal, SignalCv, Goto, At
<1>16. ASSUME NEW t \in Threads, gm_cond_wait(t) PROVE TypeOK'
  BY <1>16 DEF gm_cond_wait, Goto
<1>17. ASSUME NEW t \in Threads, cond_lk(t) PROVE TypeOK'
  BY <1>17 DEF cond_lk, Goto
<1>18. ASSUME NEW t \in Threads, cond_release(t) PROVE TypeOK'
  BY <1>18 DEF cond_release, Goto
<1>19. ASSUME NEW t \in Threads, cond_sleep(t) PROVE TypeOK'
  BY <1>19 DEF cond_sleep, SignalCv, Goto, At
<1>20. ASSUME NEW t \in Threads, gc_signal(t) PROVE TypeOK'
  BY <1>20 DEF gc_signal, Goto
<1>21. ASSUME NEW t \in Threads, cond_signal(t) PROVE TypeOK'
  BY <1>21 DEF cond_signal, WakeCond, At
<1>22. ASSUME NEW t \in Threads, cond_broadcast(t) PROVE TypeOK'
  BY <1>22 DEF cond_broadcast, WakeCond, At
<1>23. ASSUME shim_pthread_mutex_destroy PROVE TypeOK'
  BY <1>23 DEF shim_pthread_mutex_destroy, Quiet, At
<1>24. ASSUME gm_alloc_locked PROVE TypeOK'
  BY <1>24 DEF gm_alloc_locked
<1> QED
  BY <1>1, <1>2, <1>3, <1>4, <1>5, <1>6, <1>7, <1>8, <1>9, <1>10, <1>11, <1>12, <1>13,
     <1>14, <1>15, <1>16, <1>17, <1>18, <1>19, <1>20, <1>21, <1>22, <1>23, <1>24
  DEF Next, Internal, Call

\* Every step hands lk over with the section it protects.
LEMMA LkStep == IInv /\ Next => LkInv'
<1> SUFFICES ASSUME IInv, Next PROVE LkInv'  OBVIOUS
<1> USE DEF IInv, TypeOK, LkInv, InLk, SlowPath, Parked
<1>1. ASSUME NEW t \in Threads, gm_lock(t) PROVE LkInv'
  BY <1>1 DEF gm_lock, Goto, Takes, At
<1>2. ASSUME NEW t \in Threads, gm_relock(t) PROVE LkInv'
  BY <1>2 DEF gm_relock
<1>3. ASSUME NEW t \in Threads, gm_trylock(t) PROVE LkInv'
  BY <1>3 DEF gm_trylock, Goto, Takes, At
<1>4. ASSUME NEW t \in Threads, gm_acquired(t) PROVE LkInv'
  BY <1>4 DEF gm_acquired, Goto
<1>5. ASSUME NEW t \in Threads, gm_spin(t) PROVE LkInv'
  BY <1>5 DEF gm_spin, Goto, Takes, At
<1>6. ASSUME NEW t \in Threads, gm_lk_lock(t) PROVE LkInv'
  BY <1>6 DEF gm_lk_lock, Goto
<1>7. ASSUME NEW t \in Threads, sleep_enter(t) PROVE LkInv'
  BY <1>7 DEF sleep_enter, Goto
<1>8. ASSUME NEW t \in Threads, sleep_cas(t) PROVE LkInv'
  BY <1>8 DEF sleep_cas, Goto, Takes, At
<1>9. ASSUME NEW t \in Threads, sleep_park(t) PROVE LkInv'
  BY <1>9 DEF sleep_park, Goto
<1>10. ASSUME NEW t \in Threads, host_wake(t) PROVE LkInv'
  BY <1>10 DEF host_wake, Goto
<1>11. ASSUME NEW t \in Threads, sleep_leave(t) PROVE LkInv'
  BY <1>11 DEF sleep_leave, Goto
<1>12. ASSUME NEW t \in Threads, gm_unlock(t) PROVE LkInv'
  BY <1>12 DEF gm_unlock, Goto
<1>13. ASSUME NEW t \in Threads, gm_release(t) PROVE LkInv'
  BY <1>13 DEF gm_release, Goto
<1>14. ASSUME NEW t \in Threads, release_check(t) PROVE LkInv'
  BY <1>14 DEF release_check, Goto
<1>15. ASSUME NEW t \in Threads, release_signal(t) PROVE LkInv'
  BY <1>15 DEF release_signal, SignalCv, Goto, At
<1>16. ASSUME NEW t \in Threads, gm_cond_wait(t) PROVE LkInv'
  BY <1>16 DEF gm_cond_wait, Goto
<1>17. ASSUME NEW t \in Threads, cond_lk(t) PROVE LkInv'
  BY <1>17 DEF cond_lk, Goto
<1>18. ASSUME NEW t \in Threads, cond_release(t) PROVE LkInv'
  BY <1>18 DEF cond_release, Goto
<1>19. ASSUME NEW t \in Threads, cond_sleep(t) PROVE LkInv'
  BY <1>19 DEF cond_sleep, SignalCv, Goto, At
<1>20. ASSUME NEW t \in Threads, gc_signal(t) PROVE LkInv'
  BY <1>20 DEF gc_signal, Goto
<1>21. ASSUME NEW t \in Threads, cond_signal(t) PROVE LkInv'
  BY <1>21 DEF cond_signal, WakeCond, At
<1>22. ASSUME NEW t \in Threads, cond_broadcast(t) PROVE LkInv'
  BY <1>22 DEF cond_broadcast, WakeCond, At
<1>23. ASSUME shim_pthread_mutex_destroy PROVE LkInv'
  BY <1>23 DEF shim_pthread_mutex_destroy, Quiet, At
<1>24. ASSUME gm_alloc_locked PROVE LkInv'
  BY <1>24 DEF gm_alloc_locked
<1> QED
  BY <1>1, <1>2, <1>3, <1>4, <1>5, <1>6, <1>7, <1>8, <1>9, <1>10, <1>11, <1>12, <1>13,
     <1>14, <1>15, <1>16, <1>17, <1>18, <1>19, <1>20, <1>21, <1>22, <1>23, <1>24
  DEF Next, Internal, Call

\* The locals of a sleeping call stay those of its kind.
LEMMA ModeStep == IInv /\ Next => ModeInv'
<1> SUFFICES ASSUME IInv, Next PROVE ModeInv'  OBVIOUS
<1> USE DEF IInv, TypeOK, ModeInv, OwnInv, SlowPath, Parked, Outside
<1>1. ASSUME NEW t \in Threads, gm_lock(t) PROVE ModeInv'
  BY <1>1 DEF gm_lock, Goto, Takes, At
<1>2. ASSUME NEW t \in Threads, gm_relock(t) PROVE ModeInv'
  BY <1>2 DEF gm_relock
<1>3. ASSUME NEW t \in Threads, gm_trylock(t) PROVE ModeInv'
  BY <1>3 DEF gm_trylock, Goto, Takes, At
<1>4. ASSUME NEW t \in Threads, gm_acquired(t) PROVE ModeInv'
  BY <1>4 DEF gm_acquired, Goto
<1>5. ASSUME NEW t \in Threads, gm_spin(t) PROVE ModeInv'
  BY <1>5 DEF gm_spin, Goto, Takes, At
<1>6. ASSUME NEW t \in Threads, gm_lk_lock(t) PROVE ModeInv'
  BY <1>6 DEF gm_lk_lock, Goto
<1>7. ASSUME NEW t \in Threads, sleep_enter(t) PROVE ModeInv'
  BY <1>7 DEF sleep_enter, Goto
<1>8. ASSUME NEW t \in Threads, sleep_cas(t) PROVE ModeInv'
  BY <1>8 DEF sleep_cas, Goto, Takes, At
<1>9. ASSUME NEW t \in Threads, sleep_park(t) PROVE ModeInv'
  BY <1>9 DEF sleep_park, Goto
<1>10. ASSUME NEW t \in Threads, host_wake(t) PROVE ModeInv'
  BY <1>10 DEF host_wake, Goto
<1>11. ASSUME NEW t \in Threads, sleep_leave(t) PROVE ModeInv'
  BY <1>11 DEF sleep_leave, Goto
<1>12. ASSUME NEW t \in Threads, gm_unlock(t) PROVE ModeInv'
  BY <1>12 DEF gm_unlock, Goto
<1>13. ASSUME NEW t \in Threads, gm_release(t) PROVE ModeInv'
  BY <1>13 DEF gm_release, Goto
<1>14. ASSUME NEW t \in Threads, release_check(t) PROVE ModeInv'
  BY <1>14 DEF release_check, Goto
<1>15. ASSUME NEW t \in Threads, release_signal(t) PROVE ModeInv'
  BY <1>15 DEF release_signal, SignalCv, Goto, At
<1>16. ASSUME NEW t \in Threads, gm_cond_wait(t) PROVE ModeInv'
  BY <1>16 DEF gm_cond_wait, Goto
<1>17. ASSUME NEW t \in Threads, cond_lk(t) PROVE ModeInv'
  BY <1>17 DEF cond_lk, Goto
<1>18. ASSUME NEW t \in Threads, cond_release(t) PROVE ModeInv'
  BY <1>18 DEF cond_release, Goto
<1>19. ASSUME NEW t \in Threads, cond_sleep(t) PROVE ModeInv'
  BY <1>19 DEF cond_sleep, SignalCv, Goto, At
<1>20. ASSUME NEW t \in Threads, gc_signal(t) PROVE ModeInv'
  BY <1>20 DEF gc_signal, Goto
<1>21. ASSUME NEW t \in Threads, cond_signal(t) PROVE ModeInv'
  BY <1>21 DEF cond_signal, WakeCond, At
<1>22. ASSUME NEW t \in Threads, cond_broadcast(t) PROVE ModeInv'
  BY <1>22 DEF cond_broadcast, WakeCond, At
<1>23. ASSUME shim_pthread_mutex_destroy PROVE ModeInv'
  BY <1>23 DEF shim_pthread_mutex_destroy, Quiet, At
<1>24. ASSUME gm_alloc_locked PROVE ModeInv'
  BY <1>24 DEF gm_alloc_locked
<1> QED
  BY <1>1, <1>2, <1>3, <1>4, <1>5, <1>6, <1>7, <1>8, <1>9, <1>10, <1>11, <1>12, <1>13,
     <1>14, <1>15, <1>16, <1>17, <1>18, <1>19, <1>20, <1>21, <1>22, <1>23, <1>24
  DEF Next, Internal, Call

\* Ownership and depth move together.
LEMMA OwnStep == IInv /\ Next => OwnInv'
<1> SUFFICES ASSUME IInv, Next PROVE OwnInv'  OBVIOUS
<1> USE DEF IInv, TypeOK, OwnInv, ModeInv, SlowPath, Parked, Outside
<1>1. ASSUME NEW t \in Threads, gm_lock(t) PROVE OwnInv'
  BY <1>1 DEF gm_lock, Goto, Takes, At
<1>2. ASSUME NEW t \in Threads, gm_relock(t) PROVE OwnInv'
  BY <1>2 DEF gm_relock
<1>3. ASSUME NEW t \in Threads, gm_trylock(t) PROVE OwnInv'
  BY <1>3 DEF gm_trylock, Goto, Takes, At
<1>4. ASSUME NEW t \in Threads, gm_acquired(t) PROVE OwnInv'
  BY <1>4 DEF gm_acquired, Goto
<1>5. ASSUME NEW t \in Threads, gm_spin(t) PROVE OwnInv'
  BY <1>5 DEF gm_spin, Goto, Takes, At
<1>6. ASSUME NEW t \in Threads, gm_lk_lock(t) PROVE OwnInv'
  BY <1>6 DEF gm_lk_lock, Goto
<1>7. ASSUME NEW t \in Threads, sleep_enter(t) PROVE OwnInv'
  BY <1>7 DEF sleep_enter, Goto
<1>8. ASSUME NEW t \in Threads, sleep_cas(t) PROVE OwnInv'
  BY <1>8 DEF sleep_cas, Goto, Takes, At
<1>9. ASSUME NEW t \in Threads, sleep_park(t) PROVE OwnInv'
  BY <1>9 DEF sleep_park, Goto
<1>10. ASSUME NEW t \in Threads, host_wake(t) PROVE OwnInv'
  BY <1>10 DEF host_wake, Goto
<1>11. ASSUME NEW t \in Threads, sleep_leave(t) PROVE OwnInv'
  BY <1>11 DEF sleep_leave, Goto
<1>12. ASSUME NEW t \in Threads, gm_unlock(t) PROVE OwnInv'
  BY <1>12 DEF gm_unlock, Goto
<1>13. ASSUME NEW t \in Threads, gm_release(t) PROVE OwnInv'
  BY <1>13 DEF gm_release, Goto
<1>14. ASSUME NEW t \in Threads, release_check(t) PROVE OwnInv'
  BY <1>14 DEF release_check, Goto
<1>15. ASSUME NEW t \in Threads, release_signal(t) PROVE OwnInv'
  BY <1>15 DEF release_signal, SignalCv, Goto, At
<1>16. ASSUME NEW t \in Threads, gm_cond_wait(t) PROVE OwnInv'
  BY <1>16 DEF gm_cond_wait, Goto
<1>17. ASSUME NEW t \in Threads, cond_lk(t) PROVE OwnInv'
  BY <1>17 DEF cond_lk, Goto
<1>18. ASSUME NEW t \in Threads, cond_release(t) PROVE OwnInv'
  BY <1>18 DEF cond_release, Goto
<1>19. ASSUME NEW t \in Threads, cond_sleep(t) PROVE OwnInv'
  BY <1>19 DEF cond_sleep, SignalCv, Goto, At
<1>20. ASSUME NEW t \in Threads, gc_signal(t) PROVE OwnInv'
  BY <1>20 DEF gc_signal, Goto
<1>21. ASSUME NEW t \in Threads, cond_signal(t) PROVE OwnInv'
  BY <1>21 DEF cond_signal, WakeCond, At
<1>22. ASSUME NEW t \in Threads, cond_broadcast(t) PROVE OwnInv'
  BY <1>22 DEF cond_broadcast, WakeCond, At
<1>23. ASSUME shim_pthread_mutex_destroy PROVE OwnInv'
  BY <1>23 DEF shim_pthread_mutex_destroy, Quiet, At
<1>24. ASSUME gm_alloc_locked PROVE OwnInv'
  BY <1>24 DEF gm_alloc_locked, LiveInv, Quiet, Labels, At
<1> QED
  BY <1>1, <1>2, <1>3, <1>4, <1>5, <1>6, <1>7, <1>8, <1>9, <1>10, <1>11, <1>12, <1>13,
     <1>14, <1>15, <1>16, <1>17, <1>18, <1>19, <1>20, <1>21, <1>22, <1>23, <1>24
  DEF Next, Internal, Call

\* No call on a destroyed node is left that could take it.
LEMMA LiveStep == IInv /\ Next => LiveInv'
<1> SUFFICES ASSUME IInv, Next PROVE LiveInv'  OBVIOUS
<1> USE DEF IInv, TypeOK, LiveInv, SlowPath, Parked, Outside, Quiet, Labels, At
<1>1. ASSUME NEW t \in Threads, gm_lock(t) PROVE LiveInv'
  BY <1>1 DEF gm_lock, Goto, Takes
<1>2. ASSUME NEW t \in Threads, gm_relock(t) PROVE LiveInv'
  BY <1>2 DEF gm_relock
<1>3. ASSUME NEW t \in Threads, gm_trylock(t) PROVE LiveInv'
  BY <1>3 DEF gm_trylock, Goto, Takes
<1>4. ASSUME NEW t \in Threads, gm_acquired(t) PROVE LiveInv'
  BY <1>4 DEF gm_acquired, Goto
<1>5. ASSUME NEW t \in Threads, gm_spin(t) PROVE LiveInv'
  BY <1>5 DEF gm_spin, Goto, Takes
<1>6. ASSUME NEW t \in Threads, gm_lk_lock(t) PROVE LiveInv'
  BY <1>6 DEF gm_lk_lock, Goto
<1>7. ASSUME NEW t \in Threads, sleep_enter(t) PROVE LiveInv'
  BY <1>7 DEF sleep_enter, Goto
<1>8. ASSUME NEW t \in Threads, sleep_cas(t) PROVE LiveInv'
  BY <1>8 DEF sleep_cas, Goto, Takes
<1>9. ASSUME NEW t \in Threads, sleep_park(t) PROVE LiveInv'
  BY <1>9 DEF sleep_park, Goto
<1>10. ASSUME NEW t \in Threads, host_wake(t) PROVE LiveInv'
  BY <1>10 DEF host_wake, Goto
<1>11. ASSUME NEW t \in Threads, sleep_leave(t) PROVE LiveInv'
  BY <1>11 DEF sleep_leave, Goto
<1>12. ASSUME NEW t \in Threads, gm_unlock(t) PROVE LiveInv'
  BY <1>12 DEF gm_unlock, Goto
<1>13. ASSUME NEW t \in Threads, gm_release(t) PROVE LiveInv'
  BY <1>13 DEF gm_release, Goto
<1>14. ASSUME NEW t \in Threads, release_check(t) PROVE LiveInv'
  BY <1>14 DEF release_check, Goto
<1>15. ASSUME NEW t \in Threads, release_signal(t) PROVE LiveInv'
  BY <1>15 DEF release_signal, SignalCv, Goto
<1>16. ASSUME NEW t \in Threads, gm_cond_wait(t) PROVE LiveInv'
  BY <1>16 DEF gm_cond_wait, Goto
<1>17. ASSUME NEW t \in Threads, cond_lk(t) PROVE LiveInv'
  BY <1>17 DEF cond_lk, Goto
<1>18. ASSUME NEW t \in Threads, cond_release(t) PROVE LiveInv'
  BY <1>18 DEF cond_release, Goto
<1>19. ASSUME NEW t \in Threads, cond_sleep(t) PROVE LiveInv'
  BY <1>19 DEF cond_sleep, SignalCv, Goto
<1>20. ASSUME NEW t \in Threads, gc_signal(t) PROVE LiveInv'
  BY <1>20 DEF gc_signal, Goto
<1>21. ASSUME NEW t \in Threads, cond_signal(t) PROVE LiveInv'
  BY <1>21 DEF cond_signal, WakeCond
<1>22. ASSUME NEW t \in Threads, cond_broadcast(t) PROVE LiveInv'
  BY <1>22 DEF cond_broadcast, WakeCond
<1>23. ASSUME shim_pthread_mutex_destroy PROVE LiveInv'
  BY <1>23 DEF shim_pthread_mutex_destroy
<1>24. ASSUME gm_alloc_locked PROVE LiveInv'
  BY <1>24 DEF gm_alloc_locked
<1> QED
  BY <1>1, <1>2, <1>3, <1>4, <1>5, <1>6, <1>7, <1>8, <1>9, <1>10, <1>11, <1>12, <1>13,
     <1>14, <1>15, <1>16, <1>17, <1>18, <1>19, <1>20, <1>21, <1>22, <1>23, <1>24
  DEF Next, Internal, Call

\* Whoever clears the owner word, or uses up a wake-up, leaves a successor.
LEMMA WakeupStep == IInv /\ Next => WakeupInv'
<1> SUFFICES ASSUME IInv, Next PROVE WakeupInv'  OBVIOUS
<1> USE DEF IInv, TypeOK, LkInv, WakeupInv, SlowPath, Parked, InLk, At
<1>1. ASSUME NEW t \in Threads, gm_lock(t) PROVE WakeupInv'
  BY <1>1 DEF gm_lock, Goto, Takes
<1>2. ASSUME NEW t \in Threads, gm_relock(t) PROVE WakeupInv'
  BY <1>2 DEF gm_relock
<1>3. ASSUME NEW t \in Threads, gm_trylock(t) PROVE WakeupInv'
  BY <1>3 DEF gm_trylock, Goto, Takes
<1>4. ASSUME NEW t \in Threads, gm_acquired(t) PROVE WakeupInv'
  BY <1>4 DEF gm_acquired, Goto
<1>5. ASSUME NEW t \in Threads, gm_spin(t) PROVE WakeupInv'
  BY <1>5 DEF gm_spin, Goto, Takes
<1>6. ASSUME NEW t \in Threads, gm_lk_lock(t) PROVE WakeupInv'
  BY <1>6 DEF gm_lk_lock, Goto
<1>7. ASSUME NEW t \in Threads, sleep_enter(t) PROVE WakeupInv'
  BY <1>7 DEF sleep_enter, Goto
<1>8. ASSUME NEW t \in Threads, sleep_cas(t) PROVE WakeupInv'
  BY <1>8 DEF sleep_cas, Goto, Takes
<1>9. ASSUME NEW t \in Threads, sleep_park(t) PROVE WakeupInv'
  BY <1>9 DEF sleep_park, Goto
<1>10. ASSUME NEW t \in Threads, host_wake(t) PROVE WakeupInv'
  BY <1>10 DEF host_wake, Goto
<1>11. ASSUME NEW t \in Threads, sleep_leave(t) PROVE WakeupInv'
  BY <1>11 DEF sleep_leave, Goto
<1>12. ASSUME NEW t \in Threads, gm_unlock(t) PROVE WakeupInv'
  BY <1>12 DEF gm_unlock, Goto
<1>13. ASSUME NEW t \in Threads, gm_release(t) PROVE WakeupInv'
  BY <1>13 DEF gm_release, Goto
<1>14. ASSUME NEW t \in Threads, release_check(t) PROVE WakeupInv'
  BY <1>14, SlowPathNonEmpty DEF release_check, Goto
<1>15. ASSUME NEW t \in Threads, release_signal(t) PROVE WakeupInv'
  BY <1>15 DEF release_signal, SignalCv, Goto
<1>16. ASSUME NEW t \in Threads, gm_cond_wait(t) PROVE WakeupInv'
  BY <1>16 DEF gm_cond_wait, Goto
<1>17. ASSUME NEW t \in Threads, cond_lk(t) PROVE WakeupInv'
  BY <1>17 DEF cond_lk, Goto
<1>18. ASSUME NEW t \in Threads, cond_release(t) PROVE WakeupInv'
  BY <1>18 DEF cond_release, Goto
<1>19. ASSUME NEW t \in Threads, cond_sleep(t) PROVE WakeupInv'
  BY <1>19, SlowPathNonEmpty DEF cond_sleep, SignalCv, Goto
<1>20. ASSUME NEW t \in Threads, gc_signal(t) PROVE WakeupInv'
  BY <1>20 DEF gc_signal, Goto
<1>21. ASSUME NEW t \in Threads, cond_signal(t) PROVE WakeupInv'
  BY <1>21 DEF cond_signal, WakeCond
<1>22. ASSUME NEW t \in Threads, cond_broadcast(t) PROVE WakeupInv'
  BY <1>22 DEF cond_broadcast, WakeCond
<1>23. ASSUME shim_pthread_mutex_destroy PROVE WakeupInv'
  BY <1>23 DEF shim_pthread_mutex_destroy, Quiet
<1>24. ASSUME gm_alloc_locked PROVE WakeupInv'
  BY <1>24 DEF gm_alloc_locked, LiveInv, Quiet, Labels, At
<1> QED
  BY <1>1, <1>2, <1>3, <1>4, <1>5, <1>6, <1>7, <1>8, <1>9, <1>10, <1>11, <1>12, <1>13,
     <1>14, <1>15, <1>16, <1>17, <1>18, <1>19, <1>20, <1>21, <1>22, <1>23, <1>24
  DEF Next, Internal, Call

\* Debts of wake-ups are to waiters only.
LEMMA SigStep == IInv /\ Next => SigInv'
<1> SUFFICES ASSUME IInv, Next PROVE SigInv'  OBVIOUS
<1> USE DEF IInv, TypeOK, SigInv, SlowPath, Parked, At
<1>1. ASSUME NEW t \in Threads, gm_lock(t) PROVE SigInv'
  BY <1>1 DEF gm_lock, Goto, Takes
<1>2. ASSUME NEW t \in Threads, gm_relock(t) PROVE SigInv'
  BY <1>2 DEF gm_relock
<1>3. ASSUME NEW t \in Threads, gm_trylock(t) PROVE SigInv'
  BY <1>3 DEF gm_trylock, Goto, Takes
<1>4. ASSUME NEW t \in Threads, gm_acquired(t) PROVE SigInv'
  BY <1>4 DEF gm_acquired, Goto
<1>5. ASSUME NEW t \in Threads, gm_spin(t) PROVE SigInv'
  BY <1>5 DEF gm_spin, Goto, Takes
<1>6. ASSUME NEW t \in Threads, gm_lk_lock(t) PROVE SigInv'
  BY <1>6 DEF gm_lk_lock, Goto
<1>7. ASSUME NEW t \in Threads, sleep_enter(t) PROVE SigInv'
  BY <1>7 DEF sleep_enter, Goto
<1>8. ASSUME NEW t \in Threads, sleep_cas(t) PROVE SigInv'
  BY <1>8 DEF sleep_cas, Goto, Takes
<1>9. ASSUME NEW t \in Threads, sleep_park(t) PROVE SigInv'
  BY <1>9 DEF sleep_park, Goto
<1>10. ASSUME NEW t \in Threads, host_wake(t) PROVE SigInv'
  BY <1>10 DEF host_wake, Goto
<1>11. ASSUME NEW t \in Threads, sleep_leave(t) PROVE SigInv'
  BY <1>11 DEF sleep_leave, Goto
<1>12. ASSUME NEW t \in Threads, gm_unlock(t) PROVE SigInv'
  BY <1>12 DEF gm_unlock, Goto
<1>13. ASSUME NEW t \in Threads, gm_release(t) PROVE SigInv'
  BY <1>13 DEF gm_release, Goto
<1>14. ASSUME NEW t \in Threads, release_check(t) PROVE SigInv'
  BY <1>14 DEF release_check, Goto
<1>15. ASSUME NEW t \in Threads, release_signal(t) PROVE SigInv'
  BY <1>15 DEF release_signal, SignalCv, Goto
<1>16. ASSUME NEW t \in Threads, gm_cond_wait(t) PROVE SigInv'
  BY <1>16 DEF gm_cond_wait, Goto
<1>17. ASSUME NEW t \in Threads, cond_lk(t) PROVE SigInv'
  BY <1>17 DEF cond_lk, Goto
<1>18. ASSUME NEW t \in Threads, cond_release(t) PROVE SigInv'
  BY <1>18 DEF cond_release, Goto
<1>19. ASSUME NEW t \in Threads, cond_sleep(t) PROVE SigInv'
  BY <1>19 DEF cond_sleep, SignalCv, Goto
<1>20. ASSUME NEW t \in Threads, gc_signal(t) PROVE SigInv'
  BY <1>20 DEF gc_signal, Goto
<1>21. ASSUME NEW t \in Threads, cond_signal(t) PROVE SigInv'
  BY <1>21 DEF cond_signal, WakeCond
<1>22. ASSUME NEW t \in Threads, cond_broadcast(t) PROVE SigInv'
  BY <1>22 DEF cond_broadcast, WakeCond
<1>23. ASSUME shim_pthread_mutex_destroy PROVE SigInv'
  BY <1>23 DEF shim_pthread_mutex_destroy, Quiet
<1>24. ASSUME gm_alloc_locked PROVE SigInv'
  BY <1>24 DEF gm_alloc_locked
<1> QED
  BY <1>1, <1>2, <1>3, <1>4, <1>5, <1>6, <1>7, <1>8, <1>9, <1>10, <1>11, <1>12, <1>13,
     <1>14, <1>15, <1>16, <1>17, <1>18, <1>19, <1>20, <1>21, <1>22, <1>23, <1>24
  DEF Next, Internal, Call

\* Only entering and leaving the slow path changes its size, by one.
LEMMA WaitersStep == IInv /\ Next => WaitersCounted'
<1> SUFFICES ASSUME IInv, Next PROVE WaitersCounted'  OBVIOUS
<1> USE DEF IInv, TypeOK, WaitersCounted
<1>1. ASSUME NEW t \in Threads, gm_lock(t) PROVE WaitersCounted'
  <2>1. At(SlowPath)' = At(SlowPath)  BY <1>1 DEF gm_lock, Goto, Takes, At, SlowPath, Parked
  <2> QED  BY <1>1, <2>1 DEF gm_lock
<1>2. ASSUME NEW t \in Threads, gm_relock(t) PROVE WaitersCounted'
  <2>1. At(SlowPath)' = At(SlowPath)  BY <1>2 DEF gm_relock, At, SlowPath, Parked
  <2> QED  BY <1>2, <2>1 DEF gm_relock
<1>3. ASSUME NEW t \in Threads, gm_trylock(t) PROVE WaitersCounted'
  <2>1. At(SlowPath)' = At(SlowPath)  BY <1>3 DEF gm_trylock, Goto, Takes, At, SlowPath, Parked
  <2> QED  BY <1>3, <2>1 DEF gm_trylock
<1>4. ASSUME NEW t \in Threads, gm_acquired(t) PROVE WaitersCounted'
  <2>1. At(SlowPath)' = At(SlowPath)  BY <1>4 DEF gm_acquired, Goto, At, SlowPath, Parked
  <2> QED  BY <1>4, <2>1 DEF gm_acquired
<1>5. ASSUME NEW t \in Threads, gm_spin(t) PROVE WaitersCounted'
  <2>1. At(SlowPath)' = At(SlowPath)  BY <1>5 DEF gm_spin, Goto, Takes, At, SlowPath, Parked
  <2> QED  BY <1>5, <2>1 DEF gm_spin
<1>6. ASSUME NEW t \in Threads, gm_lk_lock(t) PROVE WaitersCounted'
  <2>1. At(SlowPath)' = At(SlowPath)  BY <1>6 DEF gm_lk_lock, Goto, At, SlowPath, Parked
  <2> QED  BY <1>6, <2>1 DEF gm_lk_lock
<1>7. ASSUME NEW t \in Threads, sleep_enter(t) PROVE WaitersCounted'
  <2>1. At(SlowPath)' = At(SlowPath) \cup {t} /\ t \notin At(SlowPath)
    BY <1>7 DEF sleep_enter, Goto, At, SlowPath, Parked
  <2>2. Cardinality(At(SlowPath) \cup {t}) = Cardinality(At(SlowPath)) + 1
    BY <2>1, AtFinite, FS_AddElement
  <2> QED  BY <1>7, <2>1, <2>2 DEF sleep_enter
<1>8. ASSUME NEW t \in Threads, sleep_cas(t) PROVE WaitersCounted'
  <2>1. At(SlowPath)' = At(SlowPath)  BY <1>8 DEF sleep_cas, Goto, Takes, At, SlowPath, Parked
  <2> QED  BY <1>8, <2>1 DEF sleep_cas
<1>9. ASSUME NEW t \in Threads, sleep_park(t) PROVE WaitersCounted'
  <2>1. At(SlowPath)' = At(SlowPath)  BY <1>9 DEF sleep_park, Goto, At, SlowPath, Parked
  <2> QED  BY <1>9, <2>1 DEF sleep_park
<1>10. ASSUME NEW t \in Threads, host_wake(t) PROVE WaitersCounted'
  <2>1. At(SlowPath)' = At(SlowPath)  BY <1>10 DEF host_wake, Goto, At, SlowPath, Parked
  <2> QED  BY <1>10, <2>1 DEF host_wake
<1>11. ASSUME NEW t \in Threads, sleep_leave(t) PROVE WaitersCounted'
  <2>1. At(SlowPath)' = At(SlowPath) \ {t} /\ t \in At(SlowPath)  BY <1>11 DEF sleep_leave, Goto, At, SlowPath, Parked
  <2>2. Cardinality(At(SlowPath) \ {t}) = Cardinality(At(SlowPath)) - 1
    BY <2>1, AtFinite, FS_RemoveElement
  <2> QED  BY <1>11, <2>1, <2>2 DEF sleep_leave
<1>12. ASSUME NEW t \in Threads, gm_unlock(t) PROVE WaitersCounted'
  <2>1. At(SlowPath)' = At(SlowPath)  BY <1>12 DEF gm_unlock, Goto, At, SlowPath, Parked
  <2> QED  BY <1>12, <2>1 DEF gm_unlock
<1>13. ASSUME NEW t \in Threads, gm_release(t) PROVE WaitersCounted'
  <2>1. At(SlowPath)' = At(SlowPath)  BY <1>13 DEF gm_release, Goto, At, SlowPath, Parked
  <2> QED  BY <1>13, <2>1 DEF gm_release
<1>14. ASSUME NEW t \in Threads, release_check(t) PROVE WaitersCounted'
  <2>1. At(SlowPath)' = At(SlowPath)  BY <1>14 DEF release_check, Goto, At, SlowPath, Parked
  <2> QED  BY <1>14, <2>1 DEF release_check
<1>15. ASSUME NEW t \in Threads, release_signal(t) PROVE WaitersCounted'
  <2>1. At(SlowPath)' = At(SlowPath)  BY <1>15 DEF release_signal, SignalCv, Goto, At, SlowPath, Parked
  <2> QED  BY <1>15, <2>1 DEF release_signal
<1>16. ASSUME NEW t \in Threads, gm_cond_wait(t) PROVE WaitersCounted'
  <2>1. At(SlowPath)' = At(SlowPath)  BY <1>16 DEF gm_cond_wait, Goto, At, SlowPath, Parked
  <2> QED  BY <1>16, <2>1 DEF gm_cond_wait
<1>17. ASSUME NEW t \in Threads, cond_lk(t) PROVE WaitersCounted'
  <2>1. At(SlowPath)' = At(SlowPath)  BY <1>17 DEF cond_lk, Goto, At, SlowPath, Parked
  <2> QED  BY <1>17, <2>1 DEF cond_lk
<1>18. ASSUME NEW t \in Threads, cond_release(t) PROVE WaitersCounted'
  <2>1. At(SlowPath)' = At(SlowPath)  BY <1>18 DEF cond_release, Goto, At, SlowPath, Parked
  <2> QED  BY <1>18, <2>1 DEF cond_release
<1>19. ASSUME NEW t \in Threads, cond_sleep(t) PROVE WaitersCounted'
  <2>1. At(SlowPath)' = At(SlowPath)  BY <1>19 DEF cond_sleep, SignalCv, Goto, At, SlowPath, Parked
  <2> QED  BY <1>19, <2>1 DEF cond_sleep
<1>20. ASSUME NEW t \in Threads, gc_signal(t) PROVE WaitersCounted'
  <2>1. At(SlowPath)' = At(SlowPath)  BY <1>20 DEF gc_signal, Goto, At, SlowPath, Parked
  <2> QED  BY <1>20, <2>1 DEF gc_signal
<1>21. ASSUME NEW t \in Threads, cond_signal(t) PROVE WaitersCounted'
  <2>1. At(SlowPath)' = At(SlowPath)  BY <1>21 DEF cond_signal, WakeCond, At, SlowPath, Parked
  <2> QED  BY <1>21, <2>1 DEF cond_signal, WakeCond
<1>22. ASSUME NEW t \in Threads, cond_broadcast(t) PROVE WaitersCounted'
  <2>1. At(SlowPath)' = At(SlowPath)  BY <1>22 DEF cond_broadcast, WakeCond, At, SlowPath, Parked
  <2> QED  BY <1>22, <2>1 DEF cond_broadcast, WakeCond
<1>23. ASSUME shim_pthread_mutex_destroy PROVE WaitersCounted'
  <2>1. At(SlowPath)' = At(SlowPath)  BY <1>23 DEF shim_pthread_mutex_destroy, Quiet, At, SlowPath, Parked
  <2> QED  BY <1>23, <2>1 DEF shim_pthread_mutex_destroy
<1>24. ASSUME gm_alloc_locked PROVE WaitersCounted'
  <2>1. At(SlowPath)' = {}  BY <1>24 DEF gm_alloc_locked, LiveInv, Quiet, Labels, At, SlowPath, Parked
  <2> QED  BY <1>24, <2>1, FS_EmptySet DEF gm_alloc_locked
<1> QED
  BY <1>1, <1>2, <1>3, <1>4, <1>5, <1>6, <1>7, <1>8, <1>9, <1>10, <1>11, <1>12, <1>13,
     <1>14, <1>15, <1>16, <1>17, <1>18, <1>19, <1>20, <1>21, <1>22, <1>23, <1>24
  DEF Next, Internal, Call


-----------------------------------------------------------------------------
(* Theorems                                                                *)

\* The inductive invariant holds in every reachable state, for any finite set
\* of threads, any set of mutex types and any bound on the recursion depth.
THEOREM Invariance == Spec => []IInv
<1>1. Init => IInv
  <2> SUFFICES ASSUME Init PROVE IInv  OBVIOUS
  <2> USE DEF Init, At, InLk, Outside, SlowPath, Parked, Labels
  <2>a. TypeOK
    <3>1. late \in [Threads -> BOOLEAN] /\ cnm \in BOOLEAN /\ live \in BOOLEAN  OBVIOUS
    <3> QED  BY <3>1 DEF TypeOK
  <2>b. LkInv  BY DEF LkInv
  <2>c. ModeInv  BY DEF ModeInv
  <2>d. OwnInv  BY DEF OwnInv
  <2>e. LiveInv /\ WakeupInv  BY DEF LiveInv, WakeupInv
  <2>f. SigInv  BY DEF SigInv
  <2>2. At(SlowPath) = {}
    BY DEF Init, At, SlowPath
  <2>3. WaitersCounted
    BY <2>2, FS_EmptySet DEF Init, WaitersCounted
  <2> QED  BY <2>a, <2>b, <2>c, <2>d, <2>e, <2>f, <2>3 DEF IInv
<1>2. IInv /\ [Next]_vars => IInv'
  <2>1. IInv /\ Next => IInv'
    BY TypeStep, LkStep, ModeStep, OwnStep, WaitersStep, LiveStep, WakeupStep, SigStep
       DEF IInv
  <2>2. IInv /\ UNCHANGED vars => IInv'
    BY DEF vars, IInv, TypeOK, LkInv, ModeInv, OwnInv, WaitersCounted, LiveInv,
           WakeupInv, SigInv, At, Quiet
  <2> QED  BY <2>1, <2>2
<1> QED  BY <1>1, <1>2, PTL DEF Spec

\* Type correctness of the mutex node and of every call in progress on it.
THEOREM TypeCorrect == Spec => []TypeOK
<1>1. IInv => TypeOK  BY DEF IInv
<1> QED  BY <1>1, Invariance, PTL

\* Mutual exclusion with recursion depths: a guest thread that holds the mutex
\* is its owner, with the depth it has counted.
THEOREM MutualExclusion == Spec => []HolderIsOwner
<1>1. IInv => HolderIsOwner
  BY DEF IInv, TypeOK, OwnInv, HolderIsOwner, Outside
<1> QED  BY <1>1, Invariance, PTL

\* The waiter counter never drifts from the slow path it counts.
THEOREM WaiterCount == Spec => []WaitersCounted
<1>1. IInv => WaitersCounted  BY DEF IInv
<1> QED  BY <1>1, Invariance, PTL

\* The seq_cst handshake of owner and waiters loses no wake-up.
THEOREM WakeupSafety == Spec => []NoLostWakeup
<1>1. IInv => NoLostWakeup
  BY DEF IInv, WakeupInv, NoLostWakeup, At
<1> QED  BY <1>1, Invariance, PTL

\* No signal of a thread that took the mutex after a waiter gave it up falls
\* into the gap before that waiter sleeps.
THEOREM SignalSafety == Spec => SignalReaches
<1> DEFINE Reaches(t) ==
      pc[t] # "idle" /\ pc'[t] = "idle" =>
        /\ pc[t] \in {"sig", "sig_lk"} /\ owed[t] # {} =>
             \E w \in Threads : pc[w] = "cond_asleep" /\ pc'[w] = "cond_woken"
        /\ pc[t] \in {"bcast", "bcast_lk"} =>
             \A w \in owed[t] : pc'[w] = "cond_woken"
<1>1. ASSUME IInv, Next, NEW t \in Threads PROVE Reaches(t)
  <2> USE <1>1 DEF IInv, TypeOK, LkInv, SigInv, InLk, Parked, At
  <2>1. CASE cond_signal(t)
    BY <2>1 DEF cond_signal, WakeCond
  <2>2. CASE cond_broadcast(t)
    BY <2>2 DEF cond_broadcast, WakeCond
  <2>3. CASE ~cond_signal(t) /\ ~cond_broadcast(t)
    <3>1. pc[t] \in {"sig", "sig_lk", "bcast", "bcast_lk"} => pc'[t] = pc[t]
      BY <2>3 DEF Next, Internal, Call, Goto, Takes, SignalCv, WakeCond,
        gm_lock, gm_relock, gm_trylock, gm_acquired, gm_spin, gm_lk_lock, sleep_enter,
        sleep_cas, sleep_park, host_wake, sleep_leave, gm_unlock, gm_release,
        release_check, release_signal, gm_cond_wait, cond_lk, cond_release, cond_sleep,
        gc_signal, cond_signal, cond_broadcast, shim_pthread_mutex_destroy, gm_alloc_locked
    <3> QED  BY <3>1
  <2> QED  BY <2>1, <2>2, <2>3
<1>2. IInv /\ [Next]_vars => [\A t \in Threads : Reaches(t)]_vars
  BY <1>1
<1>3. Spec => [][\A t \in Threads : Reaches(t)]_vars
  BY <1>2, Invariance, PTL DEF Spec
<1> QED  BY <1>3 DEF SignalReaches

\* Every step of the node's code is a step of the abstract mutex or leaves what
\* the guest threads hold unchanged: the code implements AbstractMutex.
THEOREM Refinement == Spec => RefinesAbstractMutex
<1>1. Init => Abs!Init
  BY DEF Init, Abs!Init
<1>2. ASSUME IInv, Next PROVE Abs!Next \/ UNCHANGED Abs!vars
  <2> USE <1>2 DEF IInv, TypeOK, ModeInv, OwnInv, Outside, Abs!vars
  <2>1. ASSUME NEW t \in Threads, gm_relock(t) PROVE Abs!Next
    <3>1. Abs!Relock(t)  BY <2>1 DEF gm_relock, Abs!Relock
    <3> QED  BY <3>1 DEF Abs!Next
  <2>2. ASSUME NEW t \in Threads, gm_acquired(t) PROVE Abs!Next
    <3>1. Abs!Lock(t)  BY <2>2 DEF gm_acquired, Goto, Abs!Lock, Abs!Free, SlowPath, Parked
    <3> QED  BY <3>1 DEF Abs!Next
  <2>3. ASSUME NEW t \in Threads, gm_unlock(t) PROVE Abs!Next
    <3>1. Abs!Unlock(t)  BY <2>3 DEF gm_unlock, Goto, Abs!Unlock, SlowPath, Parked
    <3> QED  BY <3>1 DEF Abs!Next
  <2>4. ASSUME NEW t \in Threads, cond_release(t) PROVE Abs!Next
    <3>1. Abs!GiveUp(t)  BY <2>4 DEF cond_release, Goto, Abs!GiveUp
    <3> QED  BY <3>1 DEF Abs!Next
  <2>5. ASSUME NEW t \in Threads, sleep_leave(t) PROVE Abs!Next \/ UNCHANGED Abs!vars
    <3>1. CASE mode[t] = "cond"
      <4>1. Abs!TakeBack(t)  BY <2>5, <3>1 DEF sleep_leave, Goto, Abs!TakeBack, Abs!Free
      <4> QED  BY <4>1 DEF Abs!Next
    <3>2. CASE mode[t] # "cond"
      BY <2>5, <3>2 DEF sleep_leave, Goto
    <3> QED  BY <3>1, <3>2
  <2>6. ASSUME NEW t \in Threads, gm_cond_wait(t) PROVE UNCHANGED Abs!vars
    BY <2>6 DEF gm_cond_wait, Goto
  <2>7. ASSUME gm_alloc_locked PROVE Abs!Next
    <3>1. Abs!Recycle
      BY <2>7 DEF gm_alloc_locked, Abs!Recycle, Abs!Free, LiveInv, Quiet, At, Labels, Parked, SlowPath
    <3> QED  BY <3>1 DEF Abs!Next
  <2>8. ASSUME UNCHANGED <<held, depth, type>> PROVE UNCHANGED Abs!vars
    BY <2>8
  <2>9. \/ UNCHANGED <<held, depth, type>>
        \/ gm_alloc_locked
        \/ \E t \in Threads : \/ gm_relock(t) \/ gm_acquired(t) \/ gm_unlock(t)
                              \/ cond_release(t) \/ sleep_leave(t) \/ gm_cond_wait(t)
    BY DEF Next, Internal, Call, WakeCond,
      gm_lock, gm_trylock, gm_spin, gm_lk_lock, sleep_enter, sleep_cas, sleep_park,
      host_wake, gm_release, release_check, release_signal, cond_lk, cond_sleep,
      gc_signal, cond_signal, cond_broadcast, shim_pthread_mutex_destroy
  <2> QED  BY <2>1, <2>2, <2>3, <2>4, <2>5, <2>6, <2>7, <2>8, <2>9
<1>3. IInv /\ [Next]_vars => [Abs!Next]_(Abs!vars)
  <2>1. UNCHANGED vars => UNCHANGED Abs!vars  BY DEF vars, Abs!vars
  <2> QED  BY <1>2, <2>1
<1> QED  BY <1>1, <1>3, Invariance, PTL DEF Spec, RefinesAbstractMutex, Abs!Spec

=============================================================================
