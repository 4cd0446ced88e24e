------------------------- MODULE PresentQueueProofs -------------------------
(***************************************************************************)
(* Proofs about PresentQueue for every number of slots, both policies and  *)
(* any number of frames.  ShownInOrder needs OrderInv: what is queued is   *)
(* numbered after what is on screen, and in the FIFO modes the one frame   *)
(* that NeverAhead allows is exactly the next number.                      *)
(***************************************************************************)
EXTENDS PresentQueue, TLAPS

Queued(s) == state[s] = "QUEUED"

\* Submission numbers of queued slots against the frame on screen.
OrderInv ==
  /\ shown <= next_order
  /\ \A s \in Slots : Queued(s) => order[s] > shown /\ order[s] <= next_order
  /\ \A r, s \in Slots : Queued(r) /\ Queued(s) /\ order[r] = order[s] => r = s
  /\ ~mailbox => next_order = shown \/ (next_order = shown + 1 /\ \E s \in Slots : Queued(s))

IInv ==
  /\ TypeOK /\ NeverAhead /\ OwnedByProducer
  /\ NoLostWakeup /\ DrainedFirst /\ OrderInv

-----------------------------------------------------------------------------
(* Every step keeps the types: the credit never leaves 0..1.               *)
LEMMA TypeStep == IInv /\ [Next]_vars => TypeOK'
<1> SUFFICES ASSUME IInv, [Next]_vars PROVE TypeOK'  OBVIOUS
<1> USE NAssumption, PoliciesAssumption DEF Slots, States, qvars, IInv, TypeOK, QTypeOK
<1>1. ASSUME NEW s \in Slots, acquire_slot(s) PROVE TypeOK'
    BY <1>1 DEF acquire_slot, Acquiring, try_acquire_locked, acquirable, NeverAhead, Pending,
      OwnedByProducer
<1>2. CASE acquire_wait
  BY <1>2 DEF acquire_wait, Acquiring, NeverAhead, Pending, OwnedByProducer
<1>3. CASE acquire_failed
  BY <1>3 DEF acquire_failed, Acquiring, NeverAhead, Pending, OwnedByProducer
<1>4. ASSUME NEW k \in BOOLEAN, submit(k) PROVE TypeOK'
  BY <1>4 DEF submit, submit_locked, NeverAhead, Pending, OwnedByProducer
<1>5. CASE cancel
  BY <1>5 DEF cancel, cancel_locked, NeverAhead, Pending, OwnedByProducer
<1>6. CASE drain
  BY <1>6 DEF drain, idle_locked, NeverAhead, Pending, OwnedByProducer
<1>7. CASE cpu_presented
  BY <1>7 DEF cpu_presented, NeverAhead, Pending, OwnedByProducer
<1>8. CASE grant
  BY <1>8 DEF grant, grant_locked, NeverAhead, Pending, OwnedByProducer
<1>9. CASE no_grant
  BY <1>9 DEF no_grant, NeverAhead, Pending, OwnedByProducer
<1>10. ASSUME NEW s \in Slots, take(s) PROVE TypeOK'
  BY <1>10 DEF take, try_take_locked, oldest_queued, NeverAhead, Pending, OwnedByProducer
<1>11. CASE take_wait
  BY <1>11 DEF take_wait, NeverAhead, Pending, OwnedByProducer
<1>12. CASE take_stopped
  BY <1>12 DEF take_stopped, NeverAhead, Pending, OwnedByProducer
<1>13. ASSUME NEW s \in Slots, release(s) PROVE TypeOK'
  BY <1>13 DEF release, release_locked, NeverAhead, Pending, OwnedByProducer
<1>14. CASE pq_stop
  BY <1>14 DEF pq_stop, NeverAhead, Pending, OwnedByProducer
<1>15. ASSUME NEW t \in {"producer", "presenter"}, spurious_wake(t) PROVE TypeOK'
  BY <1>15 DEF spurious_wake, NeverAhead, Pending, OwnedByProducer
<1>16. CASE UNCHANGED vars
  BY <1>16 DEF vars, NeverAhead, Pending, OwnedByProducer
<1> QED  BY <1>1, <1>2, <1>3, <1>4, <1>5, <1>6, <1>7, <1>8, <1>9, <1>10, <1>11, <1>12, <1>13, <1>14,
    <1>15, <1>16 DEF Next, Renderer, Presenter

(* Every step keeps the one drawable lent at most once. *)
LEMMA AheadStep == IInv /\ [Next]_vars => NeverAhead'
<1> SUFFICES ASSUME IInv, [Next]_vars PROVE NeverAhead'  OBVIOUS
<1> USE NAssumption, PoliciesAssumption DEF Slots, States, qvars, IInv, TypeOK, QTypeOK
<1>1. ASSUME NEW s \in Slots, acquire_slot(s) PROVE NeverAhead'
    BY <1>1 DEF acquire_slot, Acquiring, try_acquire_locked, acquirable, NeverAhead, Pending,
      OwnedByProducer
<1>2. CASE acquire_wait
  BY <1>2 DEF acquire_wait, Acquiring, NeverAhead, Pending, OwnedByProducer
<1>3. CASE acquire_failed
  BY <1>3 DEF acquire_failed, Acquiring, NeverAhead, Pending, OwnedByProducer
<1>4. ASSUME NEW k \in BOOLEAN, submit(k) PROVE NeverAhead'
  BY <1>4 DEF submit, submit_locked, NeverAhead, Pending, OwnedByProducer
<1>5. CASE cancel
  BY <1>5 DEF cancel, cancel_locked, NeverAhead, Pending, OwnedByProducer
<1>6. CASE drain
  BY <1>6 DEF drain, idle_locked, NeverAhead, Pending, OwnedByProducer
<1>7. CASE cpu_presented
  BY <1>7 DEF cpu_presented, NeverAhead, Pending, OwnedByProducer
<1>8. CASE grant
  BY <1>8 DEF grant, grant_locked, NeverAhead, Pending, OwnedByProducer
<1>9. CASE no_grant
  BY <1>9 DEF no_grant, NeverAhead, Pending, OwnedByProducer
<1>10. ASSUME NEW s \in Slots, take(s) PROVE NeverAhead'
  BY <1>10 DEF take, try_take_locked, oldest_queued, NeverAhead, Pending, OwnedByProducer
<1>11. CASE take_wait
  BY <1>11 DEF take_wait, NeverAhead, Pending, OwnedByProducer
<1>12. CASE take_stopped
  BY <1>12 DEF take_stopped, NeverAhead, Pending, OwnedByProducer
<1>13. ASSUME NEW s \in Slots, release(s) PROVE NeverAhead'
  BY <1>13 DEF release, release_locked, NeverAhead, Pending, OwnedByProducer
<1>14. CASE pq_stop
  BY <1>14 DEF pq_stop, NeverAhead, Pending, OwnedByProducer
<1>15. ASSUME NEW t \in {"producer", "presenter"}, spurious_wake(t) PROVE NeverAhead'
  BY <1>15 DEF spurious_wake, NeverAhead, Pending, OwnedByProducer
<1>16. CASE UNCHANGED vars
  BY <1>16 DEF vars, NeverAhead, Pending, OwnedByProducer
<1> QED  BY <1>1, <1>2, <1>3, <1>4, <1>5, <1>6, <1>7, <1>8, <1>9, <1>10, <1>11, <1>12, <1>13, <1>14,
    <1>15, <1>16 DEF Next, Renderer, Presenter

(* Every step keeps rendered slots and the producer's slot the same.       *)
LEMMA OwnedStep == IInv /\ [Next]_vars => OwnedByProducer'
<1> SUFFICES ASSUME IInv, [Next]_vars PROVE OwnedByProducer'  OBVIOUS
<1> USE NAssumption, PoliciesAssumption DEF Slots, States, qvars, IInv, TypeOK, QTypeOK
<1>1. ASSUME NEW s \in Slots, acquire_slot(s) PROVE OwnedByProducer'
  BY <1>1 DEF acquire_slot, Acquiring, try_acquire_locked, acquirable, OwnedByProducer
<1>2. CASE acquire_wait
  BY <1>2 DEF acquire_wait, Acquiring, OwnedByProducer
<1>3. CASE acquire_failed
  BY <1>3 DEF acquire_failed, Acquiring, OwnedByProducer
<1>4. ASSUME NEW k \in BOOLEAN, submit(k) PROVE OwnedByProducer'
  BY <1>4 DEF submit, submit_locked, OwnedByProducer
<1>5. CASE cancel
  BY <1>5 DEF cancel, cancel_locked, OwnedByProducer
<1>6. CASE drain
  BY <1>6 DEF drain, idle_locked, OwnedByProducer
<1>7. CASE cpu_presented
  BY <1>7 DEF cpu_presented, OwnedByProducer
<1>8. CASE grant
  BY <1>8 DEF grant, grant_locked, OwnedByProducer
<1>9. CASE no_grant
  BY <1>9 DEF no_grant, OwnedByProducer
<1>10. ASSUME NEW s \in Slots, take(s) PROVE OwnedByProducer'
  BY <1>10 DEF take, try_take_locked, oldest_queued, OwnedByProducer
<1>11. CASE take_wait
  BY <1>11 DEF take_wait, OwnedByProducer
<1>12. CASE take_stopped
  BY <1>12 DEF take_stopped, OwnedByProducer
<1>13. ASSUME NEW s \in Slots, release(s) PROVE OwnedByProducer'
  BY <1>13 DEF release, release_locked, OwnedByProducer
<1>14. CASE pq_stop
  BY <1>14 DEF pq_stop, OwnedByProducer
<1>15. ASSUME NEW t \in {"producer", "presenter"}, spurious_wake(t) PROVE OwnedByProducer'
  BY <1>15 DEF spurious_wake, OwnedByProducer
<1>16. CASE UNCHANGED vars
  BY <1>16 DEF vars, OwnedByProducer
<1> QED  BY <1>1, <1>2, <1>3, <1>4, <1>5, <1>6, <1>7, <1>8, <1>9, <1>10, <1>11, <1>12, <1>13, <1>14,
    <1>15, <1>16 DEF Next, Renderer, Presenter

(* Every step keeps sleepers without work. *)
LEMMA WakeStep == IInv /\ [Next]_vars => NoLostWakeup'
<1> SUFFICES ASSUME IInv, [Next]_vars PROVE NoLostWakeup'  OBVIOUS
<1> USE NAssumption, PoliciesAssumption DEF Slots, States, qvars, IInv, TypeOK, QTypeOK
<1>1. ASSUME NEW s \in Slots, acquire_slot(s) PROVE NoLostWakeup'
    BY <1>1 DEF acquire_slot, Acquiring, try_acquire_locked, acquirable, LowestFree, Free,
      oldest_queued, Replaceable, NoLostWakeup, CanAcquire, idle_locked
<1>2. CASE acquire_wait
    BY <1>2 DEF acquire_wait, Acquiring, NoLostWakeup, CanAcquire, acquirable, LowestFree, Free,
      Replaceable, oldest_queued, idle_locked
<1>3. CASE acquire_failed
    BY <1>3 DEF acquire_failed, Acquiring, NoLostWakeup, CanAcquire, acquirable, LowestFree, Free,
      Replaceable, oldest_queued, idle_locked
<1>4. ASSUME NEW k \in BOOLEAN, submit(k) PROVE NoLostWakeup'
    BY <1>4 DEF submit, submit_locked, NoLostWakeup, CanAcquire, acquirable, LowestFree, Free,
      Replaceable, oldest_queued, idle_locked
<1>5. CASE cancel
    BY <1>5 DEF cancel, cancel_locked, NoLostWakeup, CanAcquire, acquirable, LowestFree, Free,
      Replaceable, oldest_queued, idle_locked
<1>6. CASE drain
    BY <1>6 DEF drain, idle_locked, NoLostWakeup, CanAcquire, acquirable, LowestFree, Free,
      Replaceable, oldest_queued
<1>7. CASE cpu_presented
    BY <1>7 DEF cpu_presented, NoLostWakeup, CanAcquire, acquirable, LowestFree, Free, Replaceable,
      oldest_queued, idle_locked
<1>8. CASE grant
    BY <1>8 DEF grant, grant_locked, NoLostWakeup, CanAcquire, acquirable, LowestFree, Free,
      Replaceable, oldest_queued, idle_locked
<1>9. CASE no_grant
    BY <1>9 DEF no_grant, NoLostWakeup, CanAcquire, acquirable, LowestFree, Free, Replaceable,
      oldest_queued, idle_locked
<1>10. ASSUME NEW s \in Slots, take(s) PROVE NoLostWakeup'
    BY <1>10 DEF take, try_take_locked, oldest_queued, NoLostWakeup, CanAcquire, acquirable,
      LowestFree, Free, Replaceable, idle_locked
<1>11. CASE take_wait
    BY <1>11 DEF take_wait, NoLostWakeup, CanAcquire, acquirable, LowestFree, Free, Replaceable,
      oldest_queued, idle_locked
<1>12. CASE take_stopped
    BY <1>12 DEF take_stopped, NoLostWakeup, CanAcquire, acquirable, LowestFree, Free, Replaceable,
      oldest_queued, idle_locked
<1>13. ASSUME NEW s \in Slots, release(s) PROVE NoLostWakeup'
    BY <1>13 DEF release, release_locked, NoLostWakeup, CanAcquire, acquirable, LowestFree, Free,
      Replaceable, oldest_queued, idle_locked
<1>14. CASE pq_stop
    BY <1>14 DEF pq_stop, NoLostWakeup, CanAcquire, acquirable, LowestFree, Free, Replaceable,
      oldest_queued, idle_locked
<1>15. ASSUME NEW t \in {"producer", "presenter"}, spurious_wake(t) PROVE NoLostWakeup'
    BY <1>15 DEF spurious_wake, NoLostWakeup, CanAcquire, acquirable, LowestFree, Free, Replaceable,
      oldest_queued, idle_locked
<1>16. CASE UNCHANGED vars
    BY <1>16 DEF vars, NoLostWakeup, CanAcquire, acquirable, LowestFree, Free, Replaceable,
      oldest_queued, idle_locked
<1> QED  BY <1>1, <1>2, <1>3, <1>4, <1>5, <1>6, <1>7, <1>8, <1>9, <1>10, <1>11, <1>12, <1>13, <1>14,
    <1>15, <1>16 DEF Next, Renderer, Presenter

(* Every step keeps a drained queue idle. *)
LEMMA DrainStep == IInv /\ [Next]_vars => DrainedFirst'
<1> SUFFICES ASSUME IInv, [Next]_vars PROVE DrainedFirst'  OBVIOUS
<1> USE NAssumption, PoliciesAssumption DEF Slots, States, qvars, IInv, TypeOK, QTypeOK
<1>1. ASSUME NEW s \in Slots, acquire_slot(s) PROVE DrainedFirst'
    BY <1>1 DEF acquire_slot, Acquiring, try_acquire_locked, acquirable, DrainedFirst, idle_locked,
      OwnedByProducer
<1>2. CASE acquire_wait
  BY <1>2 DEF acquire_wait, Acquiring, DrainedFirst, idle_locked, OwnedByProducer
<1>3. CASE acquire_failed
  BY <1>3 DEF acquire_failed, Acquiring, DrainedFirst, idle_locked, OwnedByProducer
<1>4. ASSUME NEW k \in BOOLEAN, submit(k) PROVE DrainedFirst'
  BY <1>4 DEF submit, submit_locked, DrainedFirst, idle_locked, OwnedByProducer
<1>5. CASE cancel
  BY <1>5 DEF cancel, cancel_locked, DrainedFirst, idle_locked, OwnedByProducer
<1>6. CASE drain
  BY <1>6 DEF drain, idle_locked, DrainedFirst, OwnedByProducer
<1>7. CASE cpu_presented
  BY <1>7 DEF cpu_presented, DrainedFirst, idle_locked, OwnedByProducer
<1>8. CASE grant
  BY <1>8 DEF grant, grant_locked, DrainedFirst, idle_locked, OwnedByProducer
<1>9. CASE no_grant
  BY <1>9 DEF no_grant, DrainedFirst, idle_locked, OwnedByProducer
<1>10. ASSUME NEW s \in Slots, take(s) PROVE DrainedFirst'
  BY <1>10 DEF take, try_take_locked, oldest_queued, DrainedFirst, idle_locked, OwnedByProducer
<1>11. CASE take_wait
  BY <1>11 DEF take_wait, DrainedFirst, idle_locked, OwnedByProducer
<1>12. CASE take_stopped
  BY <1>12 DEF take_stopped, DrainedFirst, idle_locked, OwnedByProducer
<1>13. ASSUME NEW s \in Slots, release(s) PROVE DrainedFirst'
  BY <1>13 DEF release, release_locked, DrainedFirst, idle_locked, OwnedByProducer
<1>14. CASE pq_stop
  BY <1>14 DEF pq_stop, DrainedFirst, idle_locked, OwnedByProducer
<1>15. ASSUME NEW t \in {"producer", "presenter"}, spurious_wake(t) PROVE DrainedFirst'
  BY <1>15 DEF spurious_wake, DrainedFirst, idle_locked, OwnedByProducer
<1>16. CASE UNCHANGED vars
  BY <1>16 DEF vars, DrainedFirst, idle_locked, OwnedByProducer
<1> QED  BY <1>1, <1>2, <1>3, <1>4, <1>5, <1>6, <1>7, <1>8, <1>9, <1>10, <1>11, <1>12, <1>13, <1>14,
    <1>15, <1>16 DEF Next, Renderer, Presenter

(* Every step keeps the queued numbers distinct and ahead of the screen.   *)
LEMMA OrderStep == IInv /\ [Next]_vars => OrderInv'
<1> SUFFICES ASSUME IInv, [Next]_vars PROVE OrderInv'  OBVIOUS
<1> USE NAssumption, PoliciesAssumption DEF Slots, States, qvars, IInv, TypeOK, QTypeOK
<1>1. ASSUME NEW s \in Slots, acquire_slot(s) PROVE OrderInv'
    BY <1>1 DEF acquire_slot, Acquiring, try_acquire_locked, acquirable, OrderInv, Queued,
      NeverAhead, Pending, OwnedByProducer
<1>2. CASE acquire_wait
  BY <1>2 DEF acquire_wait, Acquiring, OrderInv, Queued, NeverAhead, Pending, OwnedByProducer
<1>3. CASE acquire_failed
  BY <1>3 DEF acquire_failed, Acquiring, OrderInv, Queued, NeverAhead, Pending, OwnedByProducer
<1>4. ASSUME NEW k \in BOOLEAN, submit(k) PROVE OrderInv'
  BY <1>4 DEF submit, submit_locked, OrderInv, Queued, NeverAhead, Pending, OwnedByProducer
<1>5. CASE cancel
  BY <1>5 DEF cancel, cancel_locked, OrderInv, Queued, NeverAhead, Pending, OwnedByProducer
<1>6. CASE drain
  BY <1>6 DEF drain, idle_locked, OrderInv, Queued, NeverAhead, Pending, OwnedByProducer
<1>7. CASE cpu_presented
  BY <1>7 DEF cpu_presented, OrderInv, Queued, NeverAhead, Pending, OwnedByProducer
<1>8. CASE grant
  BY <1>8 DEF grant, grant_locked, OrderInv, Queued, NeverAhead, Pending, OwnedByProducer
<1>9. CASE no_grant
  BY <1>9 DEF no_grant, OrderInv, Queued, NeverAhead, Pending, OwnedByProducer
<1>10. ASSUME NEW s \in Slots, take(s) PROVE OrderInv'
    BY <1>10 DEF take, try_take_locked, oldest_queued, OrderInv, Queued, NeverAhead, Pending,
      OwnedByProducer
<1>11. CASE take_wait
  BY <1>11 DEF take_wait, OrderInv, Queued, NeverAhead, Pending, OwnedByProducer
<1>12. CASE take_stopped
  BY <1>12 DEF take_stopped, OrderInv, Queued, NeverAhead, Pending, OwnedByProducer
<1>13. ASSUME NEW s \in Slots, release(s) PROVE OrderInv'
  BY <1>13 DEF release, release_locked, OrderInv, Queued, NeverAhead, Pending, OwnedByProducer
<1>14. CASE pq_stop
  BY <1>14 DEF pq_stop, OrderInv, Queued, NeverAhead, Pending, OwnedByProducer
<1>15. ASSUME NEW t \in {"producer", "presenter"}, spurious_wake(t) PROVE OrderInv'
  BY <1>15 DEF spurious_wake, OrderInv, Queued, NeverAhead, Pending, OwnedByProducer
<1>16. CASE UNCHANGED vars
  BY <1>16 DEF vars, OrderInv, Queued, NeverAhead, Pending, OwnedByProducer
<1> QED  BY <1>1, <1>2, <1>3, <1>4, <1>5, <1>6, <1>7, <1>8, <1>9, <1>10, <1>11, <1>12, <1>13, <1>14,
    <1>15, <1>16 DEF Next, Renderer, Presenter
-----------------------------------------------------------------------------
(* The inductive invariant holds in every reachable state.                 *)
THEOREM Invariance == Spec => []IInv
<1>1. Init => IInv
  <2> SUFFICES ASSUME Init PROVE IInv  OBVIOUS
  <2> USE NAssumption DEF Init, QInit, Slots
  <2>1. TypeOK
    <3>1. keep \in [Slots -> BOOLEAN] /\ stop \in BOOLEAN  OBVIOUS
    <3>2. mailbox \in BOOLEAN  BY PoliciesAssumption
    <3> QED  BY <3>1, <3>2 DEF TypeOK, QTypeOK, States
  <2>2. NeverAhead  BY DEF NeverAhead, Pending
  <2>3. OwnedByProducer  BY DEF OwnedByProducer
  <2>4. NoLostWakeup /\ DrainedFirst  BY DEF NoLostWakeup, DrainedFirst
  <2>5. OrderInv  BY DEF OrderInv, Queued
  <2> QED  BY <2>1, <2>2, <2>3, <2>4, <2>5 DEF IInv
<1>2. IInv /\ [Next]_vars => IInv'
  <2> SUFFICES ASSUME IInv, [Next]_vars PROVE IInv'  OBVIOUS
  <2> QED  BY TypeStep, AheadStep, OwnedStep, WakeStep, DrainStep, OrderStep DEF IInv
<1> QED  BY <1>1, <1>2, PTL DEF Spec

(* Every variable keeps its type; there is never more than one credit.     *)
THEOREM TypeCorrect == Spec => []TypeOK
<1>1. IInv => TypeOK  BY DEF IInv
<1> QED  BY Invariance, <1>1, PTL

(* The FIFO producer never runs ahead of the display. *)
THEOREM NeverRunsAhead == Spec => []NeverAhead
<1>1. IInv => NeverAhead  BY DEF IInv
<1> QED  BY Invariance, <1>1, PTL

(* No thread sleeps on q->cv while what it waits for is there.             *)
THEOREM WakeupSafety == Spec => []NoLostWakeup
<1>1. IInv => NoLostWakeup  BY DEF IInv
<1> QED  BY Invariance, <1>1, PTL

(* A CPU present that was told the queue is idle finds no frame queued or  *)
(* on its way to the screen (ps4_pq_drain).                                *)
THEOREM DrainedBeforeCpu == Spec => []DrainedFirst
<1>1. IInv => DrainedFirst  BY DEF IInv
<1> QED  BY Invariance, <1>1, PTL

(* Frames reach the screen in submission order; no FIFO frame is skipped.  *)
THEOREM DisplayOrder == Spec => ShownInOrder
<1>1. IInv /\ [Next]_vars => [shown' # shown => shown' > shown /\ (~mailbox => shown' = shown + 1)]_vars
  <2> SUFFICES ASSUME IInv, Next, shown' # shown
               PROVE shown' > shown /\ (~mailbox => shown' = shown + 1)
    BY DEF vars
  <2>1. PICK s \in Slots : shown' = order[s] /\ Queued(s)
    BY DEF Next, Renderer, Presenter, acquire_slot, acquire_wait, acquire_failed, submit, cancel, drain,
           cpu_presented, grant, no_grant, take, take_wait, take_stopped, release, pq_stop,
           spurious_wake, try_take_locked, oldest_queued, Queued
  <2> QED  BY <2>1 DEF IInv, OrderInv, TypeOK, QTypeOK
<1> QED  BY Invariance, <1>1, PTL DEF Spec, ShownInOrder

(* A frame that carries a screenshot leaves the queue only to the screen.  *)
THEOREM KeptFrames == Spec => KeptIsPresented
<1> DEFINE A == \A s \in Slots :
      (state[s] = "QUEUED" /\ keep[s] /\ state'[s] # "QUEUED") => state'[s] = "PRESENTING"
<1>1. IInv /\ [Next]_vars => [A]_vars
  <2> SUFFICES ASSUME IInv, Next, NEW s \in Slots, state[s] = "QUEUED", keep[s], state'[s] # "QUEUED"
               PROVE state'[s] = "PRESENTING"
    BY DEF vars
  <2> USE NAssumption DEF IInv, TypeOK, QTypeOK, Slots, States
  <2>1. ASSUME NEW r \in Slots, acquire_slot(r) PROVE FALSE
    BY <2>1 DEF acquire_slot, try_acquire_locked, acquirable, LowestFree, Free, Replaceable, oldest_queued
  <2>2. ASSUME NEW r \in Slots, take(r) PROVE state'[s] = "PRESENTING"
    BY <2>2 DEF take, try_take_locked
  <2>3. ASSUME NEW k \in BOOLEAN, submit(k) PROVE FALSE  BY <2>3 DEF submit, submit_locked
  <2>4. CASE cancel  BY <2>4 DEF cancel, cancel_locked
  <2>5. ASSUME NEW r \in Slots, release(r) PROVE FALSE  BY <2>5 DEF release, release_locked
  <2>6. ASSUME state' = state PROVE FALSE  BY <2>6
  <2> QED
    BY <2>1, <2>2, <2>3, <2>4, <2>5, <2>6
    DEF Next, Renderer, Presenter, acquire_wait, acquire_failed, drain, cpu_presented, grant, grant_locked,
        no_grant, take_wait, take_stopped, pq_stop, spurious_wake, qvars
<1> QED  BY Invariance, <1>1, PTL DEF Spec, KeptIsPresented
=============================================================================
