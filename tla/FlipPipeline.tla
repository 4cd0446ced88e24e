---------------------------- MODULE FlipPipeline ----------------------------
(***************************************************************************)
(* A guest flip from the renderer to the screen: Present and CompleteFlip  *)
(* (ps4_gnm_draw.mm), the present slots (PresentSlots), and the held       *)
(* frames of ps4_metal_screen.m, which carry the flips that find no slot.  *)
(*                                                                         *)
(* Actors: the renderer (one Present at a time), the presenter thread, the *)
(* GPU's two queues (the renderer's conversions and the presenter's        *)
(* copies), their completion handlers, the held-frame timer, the drop      *)
(* listeners, and the watchdog that gives up on the GPU.                   *)
(*                                                                         *)
(* A flip is its sequence number.  g_held.next_order and g_held.ev_value   *)
(* advance together, in held_begin, so one number is both a held frame's   *)
(* order and the event value it waits for; likewise a slot's submission    *)
(* number is its g_pr.ready value.                                         *)
(***************************************************************************)
EXTENDS PresentSlots, Sequences

CONSTANTS H,          \* held textures: indices 0..H-1 (kHeldTextures)
          HoldDepths, \* the values g_hold_depth may have when it is read
          MaxFlips,   \* bound on the flips of the guest
          FaultSets   \* the scenarios: which faults may occur together

ASSUME HAssumption == H \in Nat \ {0}
ASSUME HoldDepthsAssumption == HoldDepths \subseteq 1..3
ASSUME MaxFlipsAssumption == MaxFlips \in Nat
ASSUME FaultSetsAssumption == FaultSets \subseteq SUBSET {"texture", "fail", "hang", "cpu"}

Held == 0..(H - 1)
Seqs == 0..(MaxFlips - 1)
None == -1
Events == {"slot", "held"}

VARIABLES
  faults,      \* the faults of this scenario, fixed at the start
  slot_seq,    \* the flip whose frame each slot carries
  f,           \* the held textures: state, order (= ready), completed, seq
  held_order,  \* g_held.next_order and g_held.ev_value
  timer_armed, \* g_held.timer_armed
  timer,       \* the pending held_timeout call: the order it was armed for, 0 = none
  ev,          \* signaledValue of g_pr.ready ("slot") and g_held.ev ("held")
  renderer,    \* where the renderer is in Present
  cur,         \* its frame: seq, behind_held, where (slot or texture index)
  gpuq,        \* committed conversions, in order: [e, value, seq]
  fences,      \* flips whose completion waits for the GPU (AfterGpu)
  presenter,   \* where the presenter thread is
  pqueue,      \* its committed copies, in order: [e, i, value]
  jobs,        \* handlers and listeners under way: [i, order, pc, arg, then, on]
  failing,     \* present_failed calls under way: [e, value, pc]
  dones,       \* flips whose completion callback is about to run
  flip_next, flip_done, flip_ready,  \* g_flip_next, g_flip_done, g_flip_ready
  watchdog,    \* "off", "hung" (S.hung set), "released" (release_held ran)
  screen       \* history: the flip the presenter took last, -1 before the first

hvars == <<f, held_order, timer_armed, timer>>
flipvars == <<flip_next, flip_done, flip_ready>>
gpuvars == <<ev, gpuq, fences, pqueue, failing>>
vars == <<faults, qvars, slot_seq, hvars, gpuvars, renderer, cur, presenter, jobs, dones,
          flipvars, watchdog, screen>>

NoFrame == [seq |-> None, behind |-> FALSE, i |-> None]

Init ==
  /\ faults \in FaultSets
  /\ QInit
  /\ slot_seq = [s \in Slots |-> None]
  /\ f = [h \in Held |-> [state |-> "FREE", order |-> 0, completed |-> FALSE, seq |-> None]]
  /\ held_order = 0 /\ timer_armed = FALSE /\ timer = 0
  /\ ev = [e \in Events |-> 0]
  /\ renderer = "idle" /\ cur = NoFrame
  /\ gpuq = <<>> /\ fences = {} /\ pqueue = <<>> /\ failing = {}
  /\ presenter = "next"
  /\ jobs = {} /\ dones = {}
  /\ flip_next = 0 /\ flip_done = 0 /\ flip_ready = {}
  /\ watchdog = "off"
  /\ screen = -1

-----------------------------------------------------------------------------
(* Shared pieces.                                                          *)

Hung == watchdog # "off"
HeldIn(st) == {h \in Held : f[h].state = st}
held_oldest_locked(h, st) == h \in HeldIn(st) /\ \A g \in HeldIn(st) : f[h].order <= f[g].order
FramesHeld == HeldIn("QUEUED") # {}

\* The presenter holds q->mu from its look at the slots until it waits.
QFree == presenter \notin {"held", "park"}
Woken == IF presenter = "asleep" THEN "take" ELSE presenter

Job(h, pc) == [i |-> h, order |-> f[h].order, pc |-> pc, arg |-> None, then |-> "free", on |-> "heldq"]

\* Mutant: one flip too many is counted as completed.
complete_off_by_one(seq) ==
  IF seq = flip_done
  THEN flip_done' = seq + 2 /\ flip_ready' = flip_ready
  ELSE flip_done' = flip_done /\ flip_ready' = flip_ready \cup {seq}

\* Mutant: the flips that became ready early are not looked at again.
complete_one(seq) ==
  IF seq = flip_done
  THEN flip_done' = seq + 1 /\ flip_ready' = flip_ready
  ELSE flip_done' = flip_done /\ flip_ready' = flip_ready \cup {seq}

\* CompleteFlip: flips run in sequence order, early ones wait in flip_ready.
CompleteFlip(seq) ==
  LET ready == flip_ready \cup {seq}
      ends == {d \in flip_done..MaxFlips : flip_done..(d - 1) \subseteq ready}
      d == CHOOSE d \in ends : \A e \in ends : e <= d
  IN  /\ flip_done' = d
      /\ flip_ready' = ready \ flip_done..(d - 1)

-----------------------------------------------------------------------------
(* The renderer: Present and PresentImpl.                                  *)

\* Mutant: a frame asks for a slot although earlier frames are held.
start_not_behind ==
  /\ renderer = "idle" /\ flip_next < MaxFlips /\ ~Hung
  /\ flip_next' = flip_next + 1
  /\ cur' = [seq |-> flip_next, behind |-> FALSE, i |-> None]
  /\ renderer' = "acquire"
  /\ UNCHANGED <<faults, qvars, slot_seq, hvars, gpuvars, presenter, jobs, dones, flip_done, flip_ready,
                 watchdog, screen>>

\* A flip enters PresentImpl; its sequence number orders its completion.
\* behind_held is read before a slot is asked for.
present_start ==
  /\ renderer = "idle" /\ flip_next < MaxFlips /\ ~Hung
  /\ flip_next' = flip_next + 1
  /\ cur' = [seq |-> flip_next, behind |-> FramesHeld, i |-> None]
  /\ renderer' = IF FramesHeld THEN "hold" ELSE "acquire"
  /\ UNCHANGED <<faults, qvars, slot_seq, hvars, gpuvars, presenter, jobs, dones, flip_done, flip_ready,
                 watchdog, screen>>

\* ps4_metal_screen_try_acquire_frame, and present_begin for a frame that is
\* in neither a slot nor a held texture: a slot now, without waiting.
acquire_slot ==
  /\ renderer \in {"acquire", "copy"} /\ QFree
  /\ \/ \E s \in Slots :
          /\ try_acquire_locked(s)
          /\ cur' = [cur EXCEPT !.i = s]
          /\ renderer' = IF renderer = "acquire" THEN "slot" ELSE "slot_copy"
          /\ UNCHANGED fences
     \/ /\ ~CanAcquire
        /\ \/ renderer = "acquire" /\ renderer' = "hold" /\ UNCHANGED fences
           \/ /\ renderer = "copy" /\ renderer' = "commit_none"  \* the frame is not shown
              /\ fences' = fences \cup {cur.seq}
        /\ UNCHANGED <<qvars, cur>>
  /\ UNCHANGED <<faults, slot_seq, hvars, ev, gpuq, pqueue, failing, presenter, jobs, dones, flipvars,
                 watchdog, screen>>

\* slot_texture fails: the slot is given back and the presenter woken.
slot_texture_failed ==
  /\ renderer \in {"slot", "slot_copy"} /\ QFree /\ "texture" \in faults
  /\ cancel_locked(cur.i)
  /\ presenter' = Woken
  /\ \/ renderer = "slot" /\ renderer' = "hold" /\ UNCHANGED fences
     \/ renderer = "slot_copy" /\ renderer' = "commit_none" /\ fences' = fences \cup {cur.seq}
  /\ UNCHANGED <<faults, slot_seq, hvars, ev, gpuq, pqueue, failing, cur, jobs, dones,
                 flipvars, watchdog, screen>>

\* present_begin and present_commit; AfterGpu completes the flip.
present_commit ==
  /\ renderer \in {"slot", "slot_copy"} /\ QFree
  /\ \E k \in (IF mailbox THEN BOOLEAN ELSE {FALSE}) : submit_locked(cur.i, k)
  /\ slot_seq' = [slot_seq EXCEPT ![cur.i] = cur.seq]
  /\ fences' = fences \cup {cur.seq}
  /\ presenter' = Woken
  /\ renderer' = "commit_slot"
  /\ UNCHANGED <<faults, hvars, ev, gpuq, pqueue, failing, cur, jobs, dones, flipvars, watchdog, screen>>

\* The texture that was free the longest, the lowest index among equals.
FreeTexture(h) ==
  /\ held_oldest_locked(h, "FREE")
  /\ \A g \in HeldIn("FREE") : f[g].order = f[h].order => h <= g

\* Mutant: the dropped frame's texture is free at once.
drop_frees(h) == [f EXCEPT ![h].state = "FREE"]

held_drop_locked(h) == [f EXCEPT ![h].state = "DROPPING"]

\* ps4_metal_screen_hold_texture: more frames queued than the guest's buffers
\* allow drop the oldest one, whose flip completes once it is written.
hold_texture ==
  /\ renderer = "hold"
  /\ \E depth \in HoldDepths, D \in SUBSET Held :
       /\ IF Cardinality(HeldIn("QUEUED")) >= depth
          THEN \E h \in Held : held_oldest_locked(h, "QUEUED") /\ D = {h}
          ELSE D = {}
       /\ jobs' = jobs \cup {Job(h, "listen") : h \in D}
       /\ LET f1 == IF D = {} THEN f ELSE held_drop_locked(CHOOSE h \in D : TRUE)
          IN  \/ \E h \in Held :
                   /\ FreeTexture(h)
                   /\ f' = [f1 EXCEPT ![h].state = "RENDERING"]
                   /\ cur' = [cur EXCEPT !.i = h]
                   /\ renderer' = "held_begin"
              \/ /\ HeldIn("FREE") = {} \/ "texture" \in faults
                 /\ f' = f1 /\ renderer' = "no_texture" /\ UNCHANGED cur
  /\ UNCHANGED <<faults, qvars, slot_seq, held_order, timer_armed, timer, gpuvars,
                 presenter, dones, flipvars,
                 watchdog, screen>>

\* No texture: the frame is dropped when it would overtake held frames, else
\* the presenter copies it if it can.
no_texture ==
  /\ renderer = "no_texture"
  /\ IF cur.behind \/ FramesHeld
     THEN renderer' = "commit_none" /\ fences' = fences \cup {cur.seq}
     ELSE renderer' = "copy" /\ UNCHANGED fences
  /\ UNCHANGED <<faults, qvars, slot_seq, hvars, ev, gpuq, pqueue, failing, cur, presenter,
                 jobs, dones, flipvars,
                 watchdog, screen>>

\* ps4_metal_screen_held_begin, under g_held.mu.
held_begin ==
  /\ renderer = "held_begin"
  /\ held_order' = held_order + 1
  /\ f' = [f EXCEPT ![cur.i] = [state |-> "QUEUED", order |-> held_order + 1,
                                completed |-> FALSE, seq |-> cur.seq]]
  /\ timer_armed' = TRUE
  /\ renderer' = IF timer_armed THEN "wake" ELSE "arm"
  /\ UNCHANGED <<faults, qvars, slot_seq, timer, gpuvars, cur, presenter, jobs, dones,
                 flipvars, watchdog, screen>>

\* held_begin, after the unlock: the timer is scheduled ...
arm_timer ==
  /\ renderer = "arm"
  /\ timer' = held_order
  /\ renderer' = "wake"
  /\ UNCHANGED <<faults, qvars, slot_seq, f, held_order, timer_armed, gpuvars, cur,
                 presenter, jobs, dones,
                 flipvars, watchdog, screen>>

\* Mutant: the wake-up does not take q->mu.
wake_unlocked ==
  /\ renderer = "wake"
  /\ presenter' = Woken
  /\ renderer' = "commit_held"
  /\ UNCHANGED <<faults, qvars, slot_seq, hvars, gpuvars, cur, jobs, dones, flipvars, watchdog, screen>>

\* ... and the presenter is woken, under q->mu.
presenter_wake ==
  /\ renderer = "wake" /\ QFree
  /\ presenter' = Woken
  /\ renderer' = "commit_held"
  /\ UNCHANGED <<faults, qvars, slot_seq, hvars, gpuvars, cur, jobs, dones, flipvars, watchdog, screen>>

\* The command buffer with the conversion and its signal goes to the GPU.
Commit ==
  /\ \E e \in {"slot", "held", "none"} :
       /\ renderer = (CASE e = "slot" -> "commit_slot" [] e = "held" -> "commit_held" [] OTHER -> "commit_none")
       /\ gpuq' = Append(gpuq, [e |-> e, i |-> cur.i, seq |-> cur.seq,
                                value |-> IF e = "held" THEN held_order ELSE next_order])
  /\ renderer' = "idle" /\ cur' = NoFrame
  /\ UNCHANGED <<faults, qvars, slot_seq, hvars, ev, fences, pqueue, failing, presenter, jobs, dones,
                 flipvars, watchdog, screen>>

\* PresentImpl refuses (the renderer is hung, or the buffer cannot be viewed):
\* all GPU work lands first, then presenter_drain lets queued frames go, for a
\* second at most.
cpu_drain ==
  /\ renderer = "idle" /\ flip_next < MaxFlips
  /\ Hung \/ ("cpu" \in faults /\ gpuq = <<>>)
  /\ QFree
  /\ renderer' = IF idle_locked THEN "drained" ELSE "undrained"
  /\ UNCHANGED <<faults, qvars, slot_seq, hvars, gpuvars, cur, presenter, jobs, dones,
                 flipvars, watchdog, screen>>

\* The CPU copies the frame to the screen; its flip completes in order.
cpu_present ==
  /\ renderer \in {"drained", "undrained"}
  /\ CompleteFlip(flip_next)
  /\ flip_next' = flip_next + 1
  /\ renderer' = "idle"
  /\ UNCHANGED <<faults, qvars, slot_seq, hvars, gpuvars, cur, presenter, jobs, dones, watchdog, screen>>

-----------------------------------------------------------------------------
(* The presenter thread (presenter_main).                                  *)

presenter_grant ==
  /\ presenter = "next"
  /\ presenter' = "take"
  /\ IF mailbox THEN UNCHANGED qvars ELSE grant_locked
  /\ UNCHANGED <<faults, slot_seq, hvars, gpuvars, renderer, cur, jobs, dones, flipvars,
                 watchdog, screen>>

\* try_take and present_slot: the copy waits on the GPU for the conversion.
presenter_take ==
  /\ presenter = "take"
  /\ \/ \E s \in Slots :
          /\ try_take_locked(s)
          /\ pqueue' = Append(pqueue, [e |-> "slot", i |-> s, value |-> order[s]])
          /\ screen' = slot_seq[s]
          /\ presenter' = "next"
     \/ /\ \A s \in Slots : state[s] # "QUEUED"
        /\ presenter' = "held" /\ UNCHANGED <<qvars, pqueue, screen>>
  /\ UNCHANGED <<faults, slot_seq, hvars, ev, gpuq, fences, failing, renderer, cur, jobs,
                 dones, flipvars, watchdog>>

\* held_take and present_held: the oldest held frame, unless a slot frame is
\* ahead of it.
held_take ==
  /\ presenter = "held"
  /\ \/ \E h \in Held :
          /\ held_oldest_locked(h, "QUEUED")
          /\ claim_drawable_locked
          /\ f' = [f EXCEPT ![h].state = "PRESENTING"]
          /\ pqueue' = Append(pqueue, [e |-> "held", i |-> h, value |-> f[h].order])
          /\ screen' = f[h].seq
          /\ presenter' = "next"
     \/ /\ ~FramesHeld \/ ~Unclaimed
        /\ presenter' = "park" /\ UNCHANGED <<qvars, f, pqueue, screen>>
  /\ UNCHANGED <<faults, slot_seq, held_order, timer_armed, timer, ev, gpuq, fences,
                 failing, renderer, cur, jobs,
                 dones, flipvars, watchdog>>

\* cond_wait: asleep, q->mu released; or back from it with nothing changed.
presenter_park ==
  /\ \/ presenter = "park" /\ presenter' = "asleep"
     \/ presenter = "asleep" /\ presenter' = "take"
  /\ UNCHANGED <<faults, qvars, slot_seq, hvars, gpuvars, renderer, cur, jobs, dones,
                 flipvars, watchdog, screen>>

-----------------------------------------------------------------------------
(* The GPU (external): conversions in order, then the presenter's copies.  *)

Newest(e) == IF e = "held" THEN held_order ELSE next_order

\* A conversion has run: its event is raised, the flips fenced on it complete.
gpu_convert ==
  /\ gpuq # <<>>
  /\ LET c == Head(gpuq) IN
       /\ ev' = IF c.e \in Events /\ ev[c.e] < c.value THEN [ev EXCEPT ![c.e] = c.value] ELSE ev
       /\ dones' = dones \cup ({c.seq} \cap fences)
       /\ fences' = fences \ {c.seq}
  /\ gpuq' = Tail(gpuq)
  /\ UNCHANGED <<faults, qvars, slot_seq, hvars, pqueue, failing, renderer, cur, presenter,
                 jobs, flipvars,
                 watchdog, screen>>

\* A conversion's command buffer failed before its signal.
gpu_fail ==
  /\ gpuq # <<>> /\ "fail" \in faults
  /\ LET c == Head(gpuq) IN
       /\ failing' = failing \cup {[e |-> e, value |-> c.value, pc |-> "check"] : e \in {c.e} \cap Events}
       /\ dones' = dones \cup ({c.seq} \cap fences)
       /\ fences' = fences \ {c.seq}
  /\ gpuq' = Tail(gpuq)
  /\ UNCHANGED <<faults, qvars, slot_seq, hvars, ev, pqueue, renderer, cur, presenter,
                 jobs, flipvars, watchdog, screen>>

\* ps4_metal_screen_present_failed: the event is raised by the CPU if no later
\* value was handed out; the look and the write are two accesses.
present_failed(r) ==
  /\ r \in failing
  /\ IF r.pc = "check" /\ Newest(r.e) = r.value /\ ev[r.e] < r.value
     THEN failing' = (failing \ {r}) \cup {[r EXCEPT !.pc = "write"]}
     ELSE failing' = failing \ {r}
  /\ ev' = IF r.pc = "write" THEN [ev EXCEPT ![r.e] = r.value] ELSE ev
  /\ UNCHANGED <<faults, qvars, slot_seq, hvars, gpuq, fences, pqueue, renderer, cur,
                 presenter, jobs, dones,
                 flipvars, watchdog, screen>>

\* The presenter's next copy is done: its completed handler starts.
gpu_copy ==
  /\ pqueue # <<>>
  /\ LET c == Head(pqueue) IN
       /\ ev[c.e] >= c.value
       /\ jobs' = jobs \cup
            {[i |-> c.i, order |-> c.value, on |-> "gpu", arg |-> None, then |-> "free",
              pc |-> IF c.e = "slot" THEN "release" ELSE "complete"]}
  /\ pqueue' = Tail(pqueue)
  /\ UNCHANGED <<faults, qvars, slot_seq, hvars, ev, gpuq, fences, failing, renderer, cur,
                 presenter, dones,
                 flipvars, watchdog, screen>>

-----------------------------------------------------------------------------
(* Completed handlers, drop listeners and the timeout.                     *)

Step(j, pc, arg, then) == (jobs \ {j}) \cup {[j EXCEPT !.pc = pc, !.arg = arg, !.then = then]}

\* present_slot's handler: ps4_pq_release.
job_release(j) ==
  /\ j \in jobs /\ j.pc = "release" /\ QFree
  /\ release_locked(j.i)
  /\ slot_seq' = [slot_seq EXCEPT ![j.i] = None]
  /\ presenter' = Woken
  /\ jobs' = jobs \ {j}
  /\ UNCHANGED <<faults, hvars, gpuvars, renderer, cur, dones, flipvars, watchdog, screen>>

\* Mutant: a completion does not look whether another thread made it first.
claim_again(j) == f[j.i].order = j.order

held_claim_locked(j) == f[j.i].order = j.order /\ ~f[j.i].completed

\* held_complete, first half: the claim, under g_held.mu.
job_complete(j) ==
  /\ j \in jobs /\ j.pc = "complete"
  /\ IF held_claim_locked(j)
     THEN /\ f' = [f EXCEPT ![j.i].completed = TRUE]
          /\ jobs' = Step(j, "done", f[j.i].seq, j.then)
     ELSE jobs' = Step(j, j.then, None, j.then) /\ UNCHANGED f
  /\ UNCHANGED <<faults, qvars, slot_seq, held_order, timer_armed, timer, gpuvars,
                 renderer, cur, presenter, dones,
                 flipvars, watchdog, screen>>

\* Second half: HeldFlipDone, without g_held.mu.
job_done(j) ==
  /\ j \in jobs /\ j.pc = "done"
  /\ CompleteFlip(j.arg)
  /\ jobs' = Step(j, j.then, None, j.then)
  /\ UNCHANGED <<faults, qvars, slot_seq, hvars, gpuvars, renderer, cur, presenter, dones,
                 flip_next, watchdog, screen>>

held_free(j) ==
  /\ j \in jobs /\ j.pc = "free"
  /\ f' = IF f[j.i].order = j.order /\ f[j.i].state # "RENDERING"
          THEN [f EXCEPT ![j.i].state = "FREE"] ELSE f
  /\ jobs' = jobs \ {j}
  /\ UNCHANGED <<faults, qvars, slot_seq, held_order, timer_armed, timer, gpuvars,
                 renderer, cur, presenter, dones,
                 flipvars, watchdog, screen>>

\* g_held.q is serial: a listener's block or the timer starts when none runs.
HeldQueueFree == \A j \in jobs : j.on = "heldq" => j.pc = "listen"

\* The renderer has written the dropped frame: its listener's block starts.
listener(j) ==
  /\ j \in jobs /\ j.pc = "listen" /\ HeldQueueFree
  /\ ev["held"] >= j.order
  /\ jobs' = Step(j, "complete", None, "free")
  /\ UNCHANGED <<faults, qvars, slot_seq, hvars, gpuvars, renderer, cur, presenter, dones,
                 flipvars, watchdog, screen>>

\* Mutant: the timer is not armed again for the frames that stay queued.
no_rearm(rest) == timer_armed' = FALSE /\ timer' = 0

\* The callback re-arms for the oldest frame it leaves queued.
rearm(rest) ==
  IF rest = {}
  THEN timer_armed' = FALSE /\ timer' = 0
  ELSE /\ timer_armed' = TRUE
       /\ \E h \in rest : timer' = f[h].order /\ \A g \in rest : f[h].order <= f[g].order

\* held_timeout: the frames queued for a second are dropped, and their flips
\* complete at once.  The frame the timer was armed for is such a frame.
held_timeout ==
  /\ timer # 0 /\ HeldQueueFree
  /\ \E last \in timer..held_order :
       LET late == {h \in HeldIn("QUEUED") : f[h].order <= last}
       IN  /\ f' = [h \in Held |-> IF h \in late THEN [f[h] EXCEPT !.state = "DROPPING"] ELSE f[h]]
           /\ jobs' = jobs \cup {[Job(h, "complete") EXCEPT !.then = "listen"] : h \in late}
           /\ rearm(HeldIn("QUEUED") \ late)
  /\ UNCHANGED <<faults, qvars, slot_seq, held_order, gpuvars, renderer, cur, presenter,
                 dones, flipvars, watchdog, screen>>

\* A completion callback taken out of a lock runs.
run_done(seq) ==
  /\ seq \in dones
  /\ CompleteFlip(seq)
  /\ dones' = dones \ {seq}
  /\ UNCHANGED <<faults, qvars, slot_seq, hvars, gpuvars, renderer, cur, presenter, jobs,
                 flip_next, watchdog, screen>>

-----------------------------------------------------------------------------
(* The watchdog: any thread that finds the GPU stuck.                      *)

GiveUpGpu ==
  /\ "hang" \in faults /\ watchdog = "off"
  /\ watchdog' = "hung"
  /\ UNCHANGED <<faults, qvars, slot_seq, hvars, gpuvars, renderer, cur, presenter, jobs,
                 dones, flipvars, screen>>

Waiting == {h \in Held : f[h].state \in {"QUEUED", "PRESENTING", "DROPPING"}}

\* ps4_metal_screen_release_held: queued frames are dropped, every flip not
\* completed yet is completed, and both events are raised to the values handed
\* out so far.
release_held ==
  /\ watchdog = "hung"
  /\ watchdog' = "released"
  /\ LET claimed == {h \in Waiting : ~f[h].completed}
     IN  /\ f' = [h \in Held |->
                    [f[h] EXCEPT !.completed = @ \/ h \in claimed,
                                 !.state = IF @ = "QUEUED" THEN "DROPPING" ELSE @]]
         /\ dones' = dones \cup {f[h].seq : h \in claimed}
         /\ jobs' = jobs \cup {Job(h, "listen") : h \in HeldIn("QUEUED")}
  /\ ev' = [e \in Events |-> IF ev[e] < Newest(e) THEN Newest(e) ELSE ev[e]]
  /\ UNCHANGED <<faults, qvars, slot_seq, held_order, timer_armed, timer, gpuq, fences,
                 pqueue, failing, renderer,
                 cur, presenter, flipvars, screen>>

\* A hung renderer keeps signalling fences (AfterGpu, NoteAllDone, RunFences).
fences_given_up ==
  /\ Hung /\ fences # {}
  /\ dones' = dones \cup fences
  /\ fences' = {}
  /\ UNCHANGED <<faults, qvars, slot_seq, hvars, ev, gpuq, pqueue, failing, renderer, cur,
                 presenter, jobs, flipvars,
                 watchdog, screen>>

-----------------------------------------------------------------------------
InPresent ==
  \/ acquire_slot \/ slot_texture_failed \/ present_commit \/ hold_texture \/ no_texture
  \/ held_begin \/ arm_timer \/ presenter_wake \/ Commit \/ cpu_present
Renderer == present_start \/ cpu_drain \/ InPresent
Presenter == presenter_grant \/ presenter_take \/ held_take \/ presenter_park
Gpu == gpu_convert \/ gpu_fail
JobStep(j) == job_release(j) \/ job_complete(j) \/ job_done(j) \/ held_free(j) \/ listener(j)
Watchdog == GiveUpGpu \/ release_held \/ fences_given_up

Next ==
  \/ Renderer \/ Presenter \/ Gpu \/ gpu_copy \/ held_timeout \/ Watchdog
  \/ \E r \in failing : present_failed(r)
  \/ \E j \in jobs : JobStep(j)
  \/ \E seq \in dones : run_done(seq)

Spec == Init /\ [][Next]_vars

\* Threads, dispatch queues and completed handlers run; the GPU executes the
\* conversions until it is given up.  Who waits for q->mu gets it in the end,
\* however often the presenter takes it (strong fairness).  The guest owes no
\* flip, and nobody owes a fault.
FairSpec ==
  /\ Spec
  /\ SF_vars(InPresent)
  /\ WF_vars(presenter_grant \/ presenter_take \/ held_take \/ (presenter = "park" /\ presenter_park))
  /\ WF_vars(~Hung /\ Gpu)
  /\ WF_vars(gpu_copy)
  /\ WF_vars(held_timeout)
  /\ WF_vars(release_held \/ fences_given_up)
  /\ WF_vars(\E r \in failing : present_failed(r))
  /\ SF_vars(\E j \in jobs : JobStep(j))
  /\ WF_vars(\E seq \in dones : run_done(seq))

-----------------------------------------------------------------------------
(* Every variable keeps its type.                                          *)
TypeOK ==
  /\ QTypeOK
  /\ slot_seq \in [Slots -> Seqs \cup {None}]
  /\ f \in [Held -> [state : {"FREE", "RENDERING", "QUEUED", "PRESENTING", "DROPPING"},
                     order : 0..held_order, completed : BOOLEAN, seq : Seqs \cup {None}]]
  /\ held_order \in 0..MaxFlips
  /\ timer_armed \in BOOLEAN
  /\ timer \in 0..held_order
  /\ ev["slot"] \in 0..next_order /\ ev["held"] \in 0..held_order
  /\ flip_done \in 0..flip_next /\ flip_next \in 0..MaxFlips
  /\ flip_ready \subseteq Seqs /\ dones \subseteq Seqs /\ fences \subseteq Seqs
  /\ watchdog \in {"off", "hung", "released"}

(* A flip's completion callback runs exactly once, whichever of the copy's *)
(* handler, the drop listener, the timeout and the watchdog gets to it     *)
(* first: no flip is with two completers, and none comes back after it has *)
(* completed (CompleteFlip would then queue every later flip behind it).   *)
Claimed == {j.arg : j \in {k \in jobs : k.pc = "done"}}
CompletedOnce ==
  /\ \A j, k \in jobs : j.pc = "done" /\ k.pc = "done" /\ j # k => j.arg # k.arg
  /\ Claimed \cap (dones \cup fences) = {} /\ dones \cap fences = {}
  /\ \A s \in Claimed \cup dones \cup fences : s >= flip_done /\ s \notin flip_ready
  /\ \A s \in flip_ready : s > flip_done

(* A held texture is reused only when nothing of its earlier use is left:  *)
(* no copy of the presenter reads it, no conversion still writes it (unless *)
(* the GPU was given up), and no handler will free it again.               *)
TextureReuse ==
  \A h \in Held : f[h].state \in {"FREE", "RENDERING"} =>
    /\ \A k \in 1..Len(pqueue) : ~(pqueue[k].e = "held" /\ pqueue[k].i = h)
    /\ ~Hung => \A k \in 1..Len(gpuq) : ~(gpuq[k].e = "held" /\ gpuq[k].i = h)
    /\ \A j \in jobs : ~(j.i = h /\ j.pc \in {"complete", "done", "listen", "free"})

(* The presenter never sleeps while a frame could go to its drawable: a    *)
(* queued slot, or a held frame with no slot frame ahead of it, unless the *)
(* renderer is about to wake it.                                           *)
NoLostWakeup ==
  presenter = "asleep" =>
    /\ \A s \in Slots : state[s] # "QUEUED"
    /\ FramesHeld /\ Unclaimed => renderer \in {"arm", "wake"}

(* A queued held frame is always covered by a timeout: one that is pending, *)
(* or that the renderer is about to schedule.  At most one is pending.     *)
TimeoutCovers ==
  /\ FramesHeld => timer_armed
  /\ timer_armed <=> (timer # 0 \/ renderer = "arm")
  /\ ~(timer # 0 /\ renderer = "arm")

(* The drawable the presenter holds is lent at most once, to a slot frame or *)
(* to a held frame: in the FIFO modes a credit or a slot frame in          *)
(* preparation exists only while the presenter holds a drawable.           *)
DrawableLentOnce ==
  ~mailbox =>
    /\ Cardinality({s \in Slots : state[s] \in {"RENDERING", "QUEUED"}}) + credits <= 1
    /\ presenter = "next" => credits = 0 /\ Unclaimed

(* Slots and held frames together reach the screen in flip order: no frame *)
(* overtakes an earlier one, whichever way either went.                    *)
ScreenInOrder == [][screen' # screen => screen' > screen]_vars

(* "Let queued frames go first so frames stay in order": when              *)
(* presenter_drain reports an idle presenter to the CPU present path, no   *)
(* earlier frame is still waiting for the screen, held frames included.    *)
DrainedFirst == renderer = "drained" => ~FramesHeld

(* A CPU write by present_failed never lowers an event below a value that  *)
(* the GPU has signalled.                                                  *)
EventsGrow == [][\A e \in Events : ev'[e] >= ev[e]]_vars

(* Every flip the renderer takes completes: no lost wake-up, drop, timeout *)
(* or failure leaves the guest waiting for it.                             *)
FlipsComplete == \A s \in Seqs : (flip_next > s) ~> (flip_done > s)
=============================================================================
