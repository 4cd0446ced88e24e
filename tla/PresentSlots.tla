---------------------------- MODULE PresentSlots ----------------------------
(***************************************************************************)
(* The slots of the present queue and their transitions                    *)
(* (ps4_present_queue.c), each made by a caller that holds q->mu.  A slot  *)
(* goes FREE -> RENDERING (the producer owns it) -> QUEUED -> PRESENTING   *)
(* (the presenter owns it) -> FREE.                                        *)
(*                                                                         *)
(* FIFO modes (uncapped, vsync) lend the producer a slot only against a    *)
(* credit backed by a drawable the presenter already holds; mailbox mode   *)
(* lends any slot and replaces the oldest queued frame instead of waiting. *)
(***************************************************************************)
EXTENDS Integers, FiniteSets

CONSTANTS N,         \* slots of the queue, 1..PS4_PRESENT_MAX_SLOTS
          Policies   \* the values ps4_pq_init may be given for q->mailbox

ASSUME NAssumption == N \in 1..4
ASSUME PoliciesAssumption == Policies \subseteq BOOLEAN

Slots == 0..(N - 1)
States == {"FREE", "RENDERING", "QUEUED", "PRESENTING"}

VARIABLES
  mailbox,     \* the replacing policy, fixed by ps4_pq_init
  state,       \* [Slots -> States]
  keep,        \* the queued frame must be presented (it carries a screenshot)
  order,       \* submission number of the frame in each slot
  next_order,  \* submissions so far
  credits      \* FIFO: drawables held for frames not acquired yet

qvars == <<mailbox, state, keep, order, next_order, credits>>

QInit ==
  /\ mailbox \in Policies
  /\ state = [s \in Slots |-> "FREE"]
  /\ keep = [s \in Slots |-> FALSE]
  /\ order = [s \in Slots |-> 0]
  /\ next_order = 0
  /\ credits = 0

QTypeOK ==
  /\ mailbox \in BOOLEAN
  /\ state \in [Slots -> States]
  /\ keep \in [Slots -> BOOLEAN]
  /\ order \in [Slots -> Nat]
  /\ next_order \in Nat
  /\ credits \in 0..1

\* The candidate s is queued before every other candidate.
oldest_queued(s, C) ==
  /\ s \in C /\ state[s] = "QUEUED"
  /\ \A r \in C : state[r] = "QUEUED" => order[s] <= order[r]

Free == {s \in Slots : state[s] = "FREE"}

\* Mutant: mailbox replaces a frame that must be presented.
replace_any == Slots

\* skip_keep: the frames mailbox may replace.
Replaceable == {s \in Slots : ~keep[s]}

LowestFree(s) == s \in Free /\ \A r \in Free : s <= r

\* Mutant: one credit more is lent than there is.
acquirable_off_by_one(s) ==
  /\ mailbox \/ credits >= 0
  /\ LowestFree(s)

\* The slot a producer would get now: the lowest free one, with mailbox else
\* the oldest queued frame that need not be presented.
acquirable(s) ==
  /\ mailbox \/ credits > 0
  /\ IF Free # {}
     THEN LowestFree(s)
     ELSE mailbox /\ oldest_queued(s, Replaceable)

CanAcquire == \E s \in Slots : acquirable(s)

\* Mutant: the credit stays with the presenter, so it is lent out twice.
acquire_on_credit(s) ==
  /\ acquirable(s)
  /\ state' = [state EXCEPT ![s] = "RENDERING"]
  /\ UNCHANGED <<mailbox, keep, order, next_order, credits>>

try_acquire_locked(s) ==
  /\ acquirable(s)
  /\ state' = [state EXCEPT ![s] = "RENDERING"]
  /\ credits' = IF mailbox THEN credits ELSE credits - 1
  /\ UNCHANGED <<mailbox, keep, order, next_order>>

submit_locked(s, k) ==
  /\ state[s] = "RENDERING"
  /\ state' = [state EXCEPT ![s] = "QUEUED"]
  /\ keep' = [keep EXCEPT ![s] = k]
  /\ next_order' = next_order + 1
  /\ order' = [order EXCEPT ![s] = next_order + 1]
  /\ UNCHANGED <<mailbox, credits>>

\* Mutant: the abandoned slot is never given back.
cancel_leaks(s) ==
  /\ state[s] = "RENDERING"
  /\ credits' = IF ~mailbox /\ credits < 1 THEN credits + 1 ELSE credits
  /\ UNCHANGED <<mailbox, state, keep, order, next_order>>

\* The presenter still holds the drawable of an abandoned frame: its credit
\* comes back.
cancel_locked(s) ==
  /\ state[s] = "RENDERING"
  /\ state' = [state EXCEPT ![s] = "FREE"]
  /\ credits' = IF ~mailbox /\ credits < 1 THEN credits + 1 ELSE credits
  /\ UNCHANGED <<mailbox, keep, order, next_order>>

\* Mutant: the presenter takes whichever queued slot the scan meets.
take_any(s) ==
  /\ state[s] = "QUEUED"
  /\ state' = [state EXCEPT ![s] = "PRESENTING"]
  /\ UNCHANGED <<mailbox, keep, order, next_order, credits>>

try_take_locked(s) ==
  /\ oldest_queued(s, Slots)
  /\ state' = [state EXCEPT ![s] = "PRESENTING"]
  /\ UNCHANGED <<mailbox, keep, order, next_order, credits>>

release_locked(s) ==
  /\ state[s] = "PRESENTING"
  /\ state' = [state EXCEPT ![s] = "FREE"]
  /\ keep' = [keep EXCEPT ![s] = FALSE]
  /\ UNCHANGED <<mailbox, order, next_order, credits>>

grant_locked ==
  /\ credits' = IF credits < 1 THEN credits + 1 ELSE credits
  /\ UNCHANGED <<mailbox, state, keep, order, next_order>>

\* Mutant: a frame still being presented counts as gone.
idle_unqueued == \A s \in Slots : state[s] # "QUEUED"

idle_locked == \A s \in Slots : state[s] \notin {"QUEUED", "PRESENTING"}

\* May the drawable go to a frame from outside the slots?  Only when no slot
\* frame is ahead of it; the credit is used up with the drawable.
Unclaimed == \A s \in Slots : state[s] \notin {"RENDERING", "QUEUED"}

\* Mutant: the drawable is used up and its credit stays.
claim_keeps_credit ==
  /\ Unclaimed
  /\ UNCHANGED qvars

claim_drawable_locked ==
  /\ Unclaimed
  /\ credits' = IF ~mailbox /\ credits > 0 THEN credits - 1 ELSE credits
  /\ UNCHANGED <<mailbox, state, keep, order, next_order>>
=============================================================================
