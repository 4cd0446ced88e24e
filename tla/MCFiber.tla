------------------------------ MODULE MCFiber ------------------------------
(* Fiber on a small instance. *)
EXTENDS Fiber, TLC

Symmetry == Permutations(Workers) \cup Permutations(Objects) \cup Permutations(Hosts)

Modes == {[threads |-> t, create_fails |-> FALSE, guests |-> Workers] : t \in BOOLEAN}

\* Both modes, and a failing pthread_create when no other guest thread can
\* claim the fiber that runs on.
Sound ==
  Modes \cup {[threads |-> TRUE, create_fails |-> TRUE, guests |-> {w}] : w \in Workers}

\* A failing pthread_create with every guest thread alive.
CreateFails == {[threads |-> TRUE, create_fails |-> TRUE, guests |-> Workers]}
=============================================================================
