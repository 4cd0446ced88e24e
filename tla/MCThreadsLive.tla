--------------------------- MODULE MCThreadsLive ----------------------------
(* Liveness of guest threads and of fibers, which share no state: a        *)
(* behaviour is one of the two.                                            *)
EXTENDS Fiber, Threading

VARIABLE side

live_vars == <<side, thread_vars, vars>>

\* Both modes, and a failing pthread_create when no other guest thread can
\* claim the fiber that runs on.
Sound ==
  {[threads |-> t, create_fails |-> FALSE, guests |-> Workers] : t \in BOOLEAN}
    \cup {[threads |-> TRUE, create_fails |-> TRUE, guests |-> {w}] : w \in Workers}

OnFibers(A) == side = "fibers" /\ A /\ UNCHANGED <<side, thread_vars>>
OnThreads(A) == side = "threads" /\ A /\ UNCHANGED <<side, vars>>

LiveInit == side \in {"fibers", "threads"} /\ Init /\ ThreadInit /\ (side = "threads" => scenario = CHOOSE s \in Sound : TRUE)
LiveNext == OnFibers(Next) \/ OnThreads(ThreadNext)

\* Host threads run and a fiber that runs goes on; the guest owes neither a
\* call nor an exit.
LiveSpec ==
  /\ LiveInit /\ [][LiveNext]_live_vars
  /\ \A p \in Procs : WF_live_vars(OnFibers(Running(p)))
  /\ \A a \in Callers : WF_live_vars(OnThreads(ThreadStep(a)))
  /\ \A t \in ThreadObjs : WF_live_vars(OnThreads(ExitStep(t)))
=============================================================================
