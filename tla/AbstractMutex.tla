--------------------------- MODULE AbstractMutex ----------------------------
(***************************************************************************)
(* What the guest is promised of a mutex: at most one thread holds it, with *)
(* a depth above one only for the recursive types; a condition wait gives  *)
(* the whole depth up and gets exactly that depth back.                    *)
(***************************************************************************)
EXTENDS Naturals

CONSTANTS Threads, Types, Recursive, MaxDepth

VARIABLES held,   \* the depth each thread holds the mutex with
          saved,  \* the depth a thread in a condition wait gets back
          type    \* the mutex's type

vars == <<held, saved, type>>

Free == \A t \in Threads : held[t] = 0

Init ==
  /\ held = [t \in Threads |-> 0]
  /\ saved = [t \in Threads |-> 0]
  /\ type \in Types

Lock(t) ==
  /\ Free /\ saved[t] = 0
  /\ held' = [held EXCEPT ![t] = 1]
  /\ UNCHANGED <<saved, type>>

Relock(t) ==
  /\ held[t] \in 1 .. MaxDepth - 1 /\ type \in Recursive
  /\ held' = [held EXCEPT ![t] = @ + 1]
  /\ UNCHANGED <<saved, type>>

Unlock(t) ==
  /\ held[t] > 0
  /\ held' = [held EXCEPT ![t] = @ - 1]
  /\ UNCHANGED <<saved, type>>

GiveUp(t) ==
  /\ held[t] > 0
  /\ held' = [held EXCEPT ![t] = 0]
  /\ saved' = [saved EXCEPT ![t] = held[t]]
  /\ UNCHANGED type

TakeBack(t) ==
  /\ Free /\ saved[t] > 0
  /\ held' = [held EXCEPT ![t] = saved[t]]
  /\ saved' = [saved EXCEPT ![t] = 0]
  /\ UNCHANGED type

\* Another mutex in the same node.
Recycle ==
  /\ Free /\ \A t \in Threads : saved[t] = 0
  /\ type' \in Types
  /\ UNCHANGED <<held, saved>>

Next ==
  \/ \E t \in Threads : Lock(t) \/ Relock(t) \/ Unlock(t) \/ GiveUp(t) \/ TakeBack(t)
  \/ Recycle

Spec == Init /\ [][Next]_vars
=============================================================================
