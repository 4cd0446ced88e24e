---------------------------- MODULE PresentQueue ----------------------------
(***************************************************************************)
(* The present queue with its threads: the renderer acquires, fills and    *)
(* queues slots, the presenter thread (presenter_main of                   *)
(* ps4_metal_screen.m) takes them for drawables, and the GPU's completion  *)
(* handler gives them back.  Every operation runs under q->mu and          *)
(* broadcasts q->cv, so each one is a single step; a thread in cond_wait is *)
(* a member of asleep.                                                     *)
(***************************************************************************)
EXTENDS PresentSlots

CONSTANT MaxFrames  \* bound on the frames submitted

ASSUME MaxFramesAssumption == MaxFrames \in Nat

VARIABLES
  stop,        \* ps4_pq_stop was called
  producer,    \* "idle", "acquire", "rendering", "drain" or "drained"
  mine,        \* the slot the producer owns, -1 when none
  presenter,   \* "next" (no drawable), "take" (holds one), "exit"
  asleep,      \* the threads waiting on q->cv
  shown        \* history: number of the frame taken last, 0 before the first

vars == <<qvars, stop, producer, mine, presenter, asleep, shown>>

Init ==
  /\ QInit
  /\ stop = FALSE
  /\ producer = "idle"
  /\ mine = -1
  /\ presenter = "next"
  /\ asleep = {}
  /\ shown = 0

-----------------------------------------------------------------------------
(* The renderer thread.                                                    *)

\* ps4_pq_acquire finds the producer outside any wait, or back from one.
Acquiring == producer \in {"idle", "acquire"} /\ "producer" \notin asleep

\* ps4_pq_acquire returns a slot ...
acquire_slot(s) ==
  /\ Acquiring /\ ~stop
  /\ try_acquire_locked(s)
  /\ producer' = "rendering" /\ mine' = s
  /\ UNCHANGED <<stop, presenter, asleep, shown>>

\* ... or waits on q->cv ...
acquire_wait ==
  /\ Acquiring /\ ~stop /\ ~CanAcquire
  /\ producer' = "acquire" /\ asleep' = asleep \cup {"producer"}
  /\ UNCHANGED <<qvars, stop, mine, presenter, shown>>

\* ... or returns -1: the queue is stopped, or the deadline has passed.
acquire_failed ==
  /\ Acquiring /\ producer = "acquire" /\ (stop \/ ~CanAcquire)
  /\ producer' = "idle"
  /\ UNCHANGED <<qvars, stop, mine, presenter, asleep, shown>>

\* Mutant: the presenter is not told of the frame.
submit_silent(k) ==
  /\ producer = "rendering" /\ next_order < MaxFrames
  /\ submit_locked(mine, k)
  /\ producer' = "idle" /\ mine' = -1
  /\ UNCHANGED <<stop, presenter, asleep, shown>>

submit(k) ==
  /\ producer = "rendering" /\ next_order < MaxFrames
  /\ submit_locked(mine, k)
  /\ producer' = "idle" /\ mine' = -1
  /\ asleep' = {}
  /\ UNCHANGED <<stop, presenter, shown>>

cancel ==
  /\ producer = "rendering"
  /\ cancel_locked(mine)
  /\ producer' = "idle" /\ mine' = -1
  /\ asleep' = {}
  /\ UNCHANGED <<stop, presenter, shown>>

\* ps4_pq_drain, for the CPU present path: "drained" is a return of true.
drain ==
  /\ producer \in {"idle", "drain"} /\ "producer" \notin asleep
  /\ IF idle_locked
     THEN producer' = "drained" /\ UNCHANGED asleep
     ELSE \/ producer' = "drain" /\ asleep' = asleep \cup {"producer"}
          \/ producer = "drain" /\ producer' = "idle" /\ UNCHANGED asleep
  /\ UNCHANGED <<qvars, stop, mine, presenter, shown>>

\* The CPU path has presented its frame.
cpu_presented ==
  /\ producer = "drained"
  /\ producer' = "idle"
  /\ UNCHANGED <<qvars, stop, mine, presenter, asleep, shown>>

-----------------------------------------------------------------------------
(* The presenter thread, the GPU's completion handler and shutdown.        *)

\* presenter_main: a drawable came; in the FIFO modes it backs a credit.
grant ==
  /\ presenter = "next" /\ ~mailbox
  /\ grant_locked
  /\ presenter' = "take" /\ asleep' = {}
  /\ UNCHANGED <<stop, producer, mine, shown>>

\* mailbox lends without credits.
no_grant ==
  /\ presenter = "next" /\ mailbox
  /\ presenter' = "take"
  /\ UNCHANGED <<qvars, stop, producer, mine, asleep, shown>>

\* The presenter's loop under q->mu: the oldest queued frame goes to the
\* drawable ...
take(s) ==
  /\ presenter = "take" /\ "presenter" \notin asleep /\ ~stop
  /\ try_take_locked(s)
  /\ presenter' = "next" /\ shown' = order[s]
  /\ UNCHANGED <<stop, producer, mine, asleep>>

\* ... or the presenter waits for one ...
take_wait ==
  /\ presenter = "take" /\ "presenter" \notin asleep /\ ~stop
  /\ \A s \in Slots : state[s] # "QUEUED"
  /\ asleep' = asleep \cup {"presenter"}
  /\ UNCHANGED <<qvars, stop, producer, mine, presenter, shown>>

\* ... or the thread ends.
take_stopped ==
  /\ presenter = "take" /\ "presenter" \notin asleep /\ stop
  /\ presenter' = "exit"
  /\ UNCHANGED <<qvars, stop, producer, mine, asleep, shown>>

\* Mutant: the completion handler frees the slot without waking anyone.
release_silent(s) ==
  /\ release_locked(s)
  /\ UNCHANGED <<stop, producer, mine, presenter, asleep, shown>>

\* present_slot's completion handler.
release(s) ==
  /\ release_locked(s)
  /\ asleep' = {}
  /\ UNCHANGED <<stop, producer, mine, presenter, shown>>

pq_stop ==
  /\ ~stop /\ stop' = TRUE
  /\ asleep' = {}
  /\ UNCHANGED <<qvars, producer, mine, presenter, shown>>

\* A timed wait ends, or a wait returns with nothing changed.
spurious_wake(t) ==
  /\ t \in asleep
  /\ asleep' = asleep \ {t}
  /\ UNCHANGED <<qvars, stop, producer, mine, presenter, shown>>

Presenter == grant \/ no_grant \/ (\E s \in Slots : take(s)) \/ take_wait \/ take_stopped
Renderer ==
  \/ (\E s \in Slots : acquire_slot(s)) \/ acquire_wait \/ acquire_failed
  \/ (\E k \in BOOLEAN : submit(k)) \/ cancel \/ drain \/ cpu_presented

Next ==
  \/ Renderer
  \/ Presenter
  \/ \E s \in Slots : release(s)
  \/ pq_stop
  \/ \E t \in {"producer", "presenter"} : spurious_wake(t)

Spec == Init /\ [][Next]_vars

\* The presenter thread runs, next_drawable_timed gives up after a second,
\* and a committed command buffer completes.  The renderer owes nothing.
FairSpec ==
  Spec /\ WF_vars(Presenter) /\ \A s \in Slots : WF_vars(release(s))

-----------------------------------------------------------------------------
(* Every variable keeps its type: at most one credit, the producer owns at *)
(* most one slot.                                                          *)
TypeOK ==
  /\ QTypeOK
  /\ stop \in BOOLEAN
  /\ producer \in {"idle", "acquire", "rendering", "drain", "drained"}
  /\ mine \in Slots \cup {-1}
  /\ presenter \in {"next", "take", "exit"}
  /\ asleep \subseteq {"producer", "presenter"}
  /\ shown \in Nat

Pending(s) == state[s] \in {"RENDERING", "QUEUED"}

(* "The producer ... never runs ahead of the display": in the FIFO modes   *)
(* the frames ahead of the display and the unclaimed credit together never *)
(* exceed the one drawable the presenter holds, so at most one frame is    *)
(* being rendered or queued.                                               *)
NeverAhead ==
  ~mailbox =>
    /\ \A r, s \in Slots : Pending(r) /\ Pending(s) => r = s
    /\ credits = 1 => \A s \in Slots : ~Pending(s)
    /\ (credits = 1 \/ \E s \in Slots : Pending(s)) => presenter # "next"

(* A slot is rendered into by nobody but the producer that acquired it, and *)
(* no acquired slot is forgotten.                                          *)
OwnedByProducer ==
  /\ \A s \in Slots : state[s] = "RENDERING" <=> mine = s
  /\ producer = "rendering" <=> mine # -1

(* No wake-up is lost: nobody sleeps on q->cv while what it waits for is   *)
(* there, or after the queue was stopped.                                  *)
NoLostWakeup ==
  /\ "presenter" \in asleep => ~stop /\ presenter = "take" /\ \A s \in Slots : state[s] # "QUEUED"
  /\ "producer" \in asleep =>
       \/ producer = "acquire" /\ ~stop /\ ~CanAcquire
       \/ producer = "drain" /\ ~idle_locked

(* ps4_pq_drain lets queued frames go first: when it reports an idle queue, *)
(* and until the CPU path has presented its own frame, no slot frame is    *)
(* waiting for the screen.                                                 *)
DrainedFirst == producer = "drained" => \A s \in Slots : state[s] \notin {"QUEUED", "PRESENTING"}

(* Frames reach the screen in the order they were submitted, and no FIFO   *)
(* frame is skipped.                                                       *)
ShownInOrder ==
  [][shown' # shown => shown' > shown /\ (~mailbox => shown' = shown + 1)]_vars

(* A frame that carries a screenshot leaves the queue only to the screen,  *)
(* whatever mailbox replaces.                                              *)
KeptIsPresented ==
  [][\A s \in Slots :
       (state[s] = "QUEUED" /\ keep[s] /\ state'[s] # "QUEUED") => state'[s] = "PRESENTING"]_vars

(* Every frame of the FIFO modes, and every kept frame of mailbox, that is *)
(* queued reaches the screen unless the queue is stopped.                  *)
QueuedIsShown ==
  \A s \in Slots :
    (state[s] = "QUEUED" /\ (mailbox => keep[s])) ~> (state[s] = "PRESENTING" \/ stop)
=============================================================================
