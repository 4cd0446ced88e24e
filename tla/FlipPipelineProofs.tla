------------------------- MODULE FlipPipelineProofs -------------------------
(***************************************************************************)
(* Proofs about FlipPipeline for every number of slots, held textures and  *)
(* flips, every depth and every set of faults.                             *)
(*                                                                         *)
(* Each property has an invariant of its own, one shown after the other:   *)
(* LentInv (the slots and the drawable), TimerInv (the timeout), WakeInv   *)
(* (the presenter's sleep), UseInv (who finishes the use of a held         *)
(* texture), ConvInv (what the GPU has still to write), OrderInv (queued   *)
(* frames against the screen), OnceInv (where a flip that has not          *)
(* completed is).  TInv gives the variables their shapes.                  *)
(***************************************************************************)
EXTENDS FlipPipeline, FiniteSetTheorems, WellFoundedInduction, TLAPS

HeldStates == {"FREE", "RENDERING", "QUEUED", "PRESENTING", "DROPPING"}
HeldRecs == [state : HeldStates, order : Nat, completed : BOOLEAN, seq : Int]
Conversions == [e : {"slot", "held", "none"}, i : Int, seq : Int, value : Nat]
Copies == [e : Events, i : Int, value : Nat]
JobRecs == [i : Int, order : Nat, pc : {"release", "listen", "complete", "done", "free"}, arg : Int,
            then : {"free", "listen"}, on : {"gpu", "heldq"}]
Failures == [e : Events, value : Nat, pc : {"check", "write"}]

QInv == QTypeOK /\ slot_seq \in [Slots -> Int] /\ screen \in Int
FInv == f \in [Held -> HeldRecs] /\ held_order \in Nat /\ timer \in Nat /\ timer_armed \in BOOLEAN
CurInv == cur \in [seq : Int, behind : BOOLEAN, i : Int] /\ flip_next \in 0 .. MaxFlips
GpuInv == ev \in [Events -> Nat] /\ gpuq \in Seq(Conversions) /\ pqueue \in Seq(Copies) /\ failing \subseteq Failures
JobsInv == jobs \subseteq JobRecs
TInv == QInv /\ FInv /\ CurInv /\ GpuInv /\ JobsInv

Lent(s) == state[s] \in {"RENDERING", "QUEUED"}
LentInv ==
  /\ renderer \in {"slot", "slot_copy"} => cur.i \in Slots
  /\ ~mailbox =>
       /\ \A r, s \in Slots : Lent(r) /\ Lent(s) => r = s
       /\ credits > 0 => Unclaimed
       /\ presenter = "next" => credits = 0 /\ Unclaimed

TimerInv ==
  /\ TimeoutCovers
  /\ \A h \in HeldIn("QUEUED") : f[h].order >= 1
  /\ renderer = "arm" => held_order >= 1

WakeInv ==
  /\ NoLostWakeup
  /\ presenter \in {"held", "park"} => \A s \in Slots : state[s] # "QUEUED"
  /\ presenter = "park" /\ FramesHeld /\ Unclaimed => renderer \in {"arm", "wake"}

\* Handlers, listeners and timeouts of held textures, and the presenter's copies of them.
OfHeld(j) == j.pc # "release"

\* A texture that is shown or dropped has one handler or copy that will free it.
UseJobs ==
  /\ \A j \in jobs : OfHeld(j) =>
       j.i \in Held /\ f[j.i].state \in {"PRESENTING", "DROPPING"} /\ f[j.i].order = j.order
  /\ \A j, k \in jobs : OfHeld(j) /\ OfHeld(k) /\ j.i = k.i => j = k
UseCopies ==
  /\ \A k \in 1 .. Len(pqueue) : pqueue[k].e = "held" =>
       /\ pqueue[k].i \in Held /\ f[pqueue[k].i].state = "PRESENTING" /\ f[pqueue[k].i].order = pqueue[k].value
       /\ \A j \in jobs : OfHeld(j) => j.i # pqueue[k].i
  /\ \A k, l \in 1 .. Len(pqueue) : pqueue[k].e = "held" /\ pqueue[l].e = "held" /\ pqueue[k].i = pqueue[l].i => k = l
UseCur == renderer = "held_begin" => cur.i \in Held /\ f[cur.i].state = "RENDERING"
UseInv == UseJobs /\ UseCopies /\ UseCur

\* The handler is past its wait for the conversion.
Past(j) == j.pc = "free" \/ (j.pc \in {"complete", "done"} /\ j.then = "free")
Written == {"QUEUED", "PRESENTING", "DROPPING"}
\* The renderer has begun a held frame and not committed its conversion.
Begun == renderer \in {"arm", "wake", "commit_held"}
\* The conversion of the texture h with the value v is still to come.
Coming(h, v) ==
  \/ \E k \in 1 .. Len(gpuq) : gpuq[k].e = "held" /\ gpuq[k].i = h /\ gpuq[k].value = v
  \/ Begun /\ cur.i = h /\ held_order = v
\* Until then the event stays below v and nobody frees the texture.
ToWrite(h, v) ==
  /\ f[h].order = v /\ f[h].state \in Written /\ ev["held"] < v
  /\ \A j \in jobs : Past(j) => j.i # h
  /\ \A r \in failing : r.e = "held" => r.value < v

Bounded ==
  /\ \A r \in failing : r.e = "held" => r.value <= held_order
  /\ \A k \in 1 .. Len(gpuq) : gpuq[k].e = "held" => gpuq[k].i \in Held /\ gpuq[k].value <= held_order
  /\ ev["held"] <= held_order
  /\ Begun => cur.i \in Held
Increasing ==
  /\ \A k, l \in 1 .. Len(gpuq) : k < l /\ gpuq[k].e = "held" /\ gpuq[l].e = "held" => gpuq[k].value < gpuq[l].value
  /\ Begun => \A k \in 1 .. Len(gpuq) : gpuq[k].e = "held" => gpuq[k].value < held_order
ConvInv ==
  /\ Bounded
  /\ ~Hung => Increasing /\ \A h \in Held, v \in 0 .. held_order : Coming(h, v) => ToWrite(h, v)

\* Where the renderer has a flip that is neither with the GPU nor with a held texture.
InCur == {"acquire", "copy", "slot", "slot_copy", "hold", "no_texture", "held_begin"}

SlotOrder ==
  /\ \A s \in Slots : state[s] = "QUEUED" => screen < slot_seq[s] /\ slot_seq[s] < flip_next /\ order[s] <= next_order
  /\ \A r, s \in Slots : state[r] = "QUEUED" /\ state[s] = "QUEUED" =>
       (order[r] = order[s] => r = s) /\ (order[r] < order[s] => slot_seq[r] < slot_seq[s])
HeldOrder ==
  /\ \A h \in Held : f[h].state = "QUEUED" => screen < f[h].seq /\ f[h].seq < flip_next /\ f[h].order <= held_order
  /\ \A g, h \in Held : f[g].state = "QUEUED" /\ f[h].state = "QUEUED" =>
       (f[g].order = f[h].order => g = h) /\ (f[g].order < f[h].order => f[g].seq < f[h].seq)
  /\ \A s \in Slots, h \in Held : state[s] = "QUEUED" /\ f[h].state = "QUEUED" => slot_seq[s] < f[h].seq
CurOrder ==
  /\ renderer \in InCur =>
       /\ cur.seq = flip_next - 1 /\ screen < cur.seq
       /\ \A s \in Slots : state[s] = "QUEUED" => slot_seq[s] < cur.seq
       /\ \A h \in Held : f[h].state = "QUEUED" => f[h].seq < cur.seq
  /\ renderer \in {"acquire", "copy", "slot", "slot_copy"} => \A h \in Held : f[h].state # "QUEUED"
OrderInv == screen < flip_next /\ SlotOrder /\ HeldOrder /\ CurOrder

\* A held texture owes the completion of its flip.
Owing(h) == f[h].state \in Written /\ ~f[h].completed
DoneJobs == {j \in jobs : j.pc = "done"}
\* Flips that complete with a callback or a fence, and those that wait for earlier ones.
Pending == Claimed \cup dones \cup fences
Elsewhere == Pending \cup flip_ready

OneClaim == \A j, k \in DoneJobs : j # k => j.arg # k.arg
Apart ==
  /\ Claimed \cap (dones \cup fences) = {} /\ dones \cap fences = {}
  /\ \A s \in Pending : s >= flip_done /\ s \notin flip_ready
  /\ \A s \in flip_ready : s > flip_done
InRange ==
  /\ flip_done \in 0 .. flip_next /\ Elsewhere \subseteq 0 .. (flip_next - 1)
  /\ renderer \in {"drained", "undrained"} => flip_next < MaxFlips
Open(s) == s \in flip_done .. (flip_next - 1) /\ s \notin Elsewhere
OwedOnce ==
  /\ \A h \in Held : Owing(h) => Open(f[h].seq)
  /\ \A g, h \in Held : Owing(g) /\ Owing(h) /\ f[g].seq = f[h].seq => g = h
CurOnce ==
  renderer \in InCur => Open(cur.seq) /\ \A h \in Held : Owing(h) => f[h].seq # cur.seq
OnceInv == OneClaim /\ Apart /\ InRange /\ OwedOnce /\ CurOnce

FPInv == TInv /\ LentInv /\ TimerInv /\ WakeInv /\ UseInv /\ ConvInv /\ OrderInv /\ OnceInv
-----------------------------------------------------------------------------
(* What the records become.                                                *)

\* A change of the state of one texture.
LEMMA StateSet ==
  ASSUME NEW F \in [Held -> HeldRecs], NEW h \in Held, NEW st \in HeldStates,
         NEW G, G = [F EXCEPT ![h].state = st]
  PROVE  /\ G \in [Held -> HeldRecs]
         /\ \A g \in Held : /\ G[g].state = IF g = h THEN st ELSE F[g].state
                            /\ G[g].order = F[g].order /\ G[g].completed = F[g].completed /\ G[g].seq = F[g].seq
<1>1. \A g \in Held : F[g] \in HeldRecs  OBVIOUS
<1>2. [F[h] EXCEPT !.state = st] \in HeldRecs
  BY <1>1 DEF HeldRecs
<1>3. G = [g \in Held |-> IF g = h THEN [F[h] EXCEPT !.state = st] ELSE F[g]]  OBVIOUS
<1>4. G \in [Held -> HeldRecs]
  BY <1>1, <1>2, <1>3
<1> QED  BY <1>1, <1>3, <1>4 DEF HeldRecs

\* A listener or handler that goes on replaces itself.
LEMMA Stepped ==
  ASSUME NEW j \in JobRecs, NEW pc \in {"release", "listen", "complete", "done", "free"}, NEW arg \in Int,
         NEW then \in {"free", "listen"}, jobs' = Step(j, pc, arg, then)
  PROVE  \E k \in JobRecs : /\ jobs' = (jobs \ {j}) \cup {k}
                            /\ k.i = j.i /\ k.order = j.order /\ k.pc = pc /\ k.arg = arg /\ k.then = then /\ k.on = j.on
<1> DEFINE k == [j EXCEPT !.pc = pc, !.arg = arg, !.then = then]
<1>1. k \in JobRecs /\ k.i = j.i /\ k.order = j.order /\ k.pc = pc /\ k.arg = arg /\ k.then = then /\ k.on = j.on
  BY DEF JobRecs
<1>2. jobs' = (jobs \ {j}) \cup {k}
  BY DEF Step
<1> QED  BY <1>1, <1>2

\* The texture g keeps everything but, perhaps, its state.
Keeps(g) == f'[g].order = f[g].order /\ f'[g].completed = f[g].completed /\ f'[g].seq = f[g].seq

\* held_begin: the texture of the frame gets the newest order and the flip.
LEMMA BeginView ==
  ASSUME TInv, UseInv, held_begin
  PROVE  /\ f' \in [Held -> HeldRecs] /\ cur.i \in Held
         /\ f'[cur.i].state = "QUEUED" /\ f'[cur.i].order = held_order + 1 /\ ~f'[cur.i].completed /\ f'[cur.i].seq = cur.seq
         /\ \A g \in Held : g # cur.i => f'[g] = f[g]
<1>1. cur.i \in Held /\ cur.seq \in Int /\ held_order \in Nat /\ f \in [Held -> HeldRecs]
  BY DEF TInv, FInv, CurInv, UseInv, UseCur, held_begin
<1> DEFINE r == [state |-> "QUEUED", order |-> held_order + 1, completed |-> FALSE, seq |-> cur.seq]
<1>2. r \in HeldRecs /\ r.state = "QUEUED" /\ r.order = held_order + 1 /\ ~r.completed /\ r.seq = cur.seq
  BY <1>1 DEF HeldRecs, HeldStates
<1>3. f' = [f EXCEPT ![cur.i] = r]
  BY DEF held_begin
<1> HIDE DEF r
<1> QED  BY <1>1, <1>2, <1>3

\* held_take: the texture the presenter takes is shown, all else stays.
LEMMA TakeView ==
  ASSUME TInv, NEW h \in Held, f' = [f EXCEPT ![h].state = "PRESENTING"]
  PROVE  /\ f' \in [Held -> HeldRecs]
         /\ \A g \in Held : Keeps(g) /\ f'[g].state = IF g = h THEN "PRESENTING" ELSE f[g].state
<1>1. f \in [Held -> HeldRecs] /\ "PRESENTING" \in HeldStates
  BY DEF TInv, FInv, HeldStates
<1>2. f' = [f EXCEPT ![h].state = "PRESENTING"]
  OBVIOUS
<1> QED  BY <1>1, <1>2, StateSet DEF Keeps

\* held_free: a texture its handler frees.
LEMMA FreeView ==
  ASSUME TInv, UseInv, NEW j \in jobs, held_free(j)
  PROVE  /\ j.i \in Held /\ f' \in [Held -> HeldRecs]
         /\ f[j.i].state \in {"PRESENTING", "DROPPING"}
         /\ \A g \in Held : Keeps(g) /\ f'[g].state = IF g = j.i THEN "FREE" ELSE f[g].state
         /\ jobs' = jobs \ {j}
<1>1. f \in [Held -> HeldRecs] /\ "FREE" \in HeldStates
  BY DEF TInv, FInv, HeldStates
<1>2. j.i \in Held /\ f[j.i].state \in {"PRESENTING", "DROPPING"} /\ f[j.i].order = j.order
  BY DEF UseInv, UseJobs, OfHeld, held_free
<1>3. f' = [f EXCEPT ![j.i].state = "FREE"] /\ jobs' = jobs \ {j}
  BY <1>2 DEF held_free
<1> QED  BY <1>1, <1>2, <1>3, StateSet DEF Keeps

\* job_complete: the completion of a flip is claimed by one handler.
LEMMA CompleteView ==
  ASSUME TInv, UseInv, NEW j \in jobs, job_complete(j)
  PROVE  /\ j.i \in Held /\ f' \in [Held -> HeldRecs]
         /\ \A g \in Held : /\ f'[g].state = f[g].state /\ f'[g].order = f[g].order /\ f'[g].seq = f[g].seq
                            /\ f'[g].completed = IF g = j.i THEN TRUE ELSE f[g].completed
         /\ \/ ~f[j.i].completed /\ jobs' = Step(j, "done", f[j.i].seq, j.then)
            \/ f[j.i].completed /\ jobs' = Step(j, j.then, None, j.then)
<1>1. f \in [Held -> HeldRecs]
  BY DEF TInv, FInv
<1>2. j.i \in Held /\ f[j.i].order = j.order
  BY DEF UseInv, UseJobs, OfHeld, job_complete
<1>3. CASE f[j.i].completed
  <2>1. f' = f /\ jobs' = Step(j, j.then, None, j.then)
    BY <1>2, <1>3 DEF job_complete, held_claim_locked
  <2> QED  BY <1>1, <1>2, <1>3, <2>1
<1>4. CASE ~f[j.i].completed
  <2>1. f' = [f EXCEPT ![j.i].completed = TRUE] /\ jobs' = Step(j, "done", f[j.i].seq, j.then)
    BY <1>2, <1>4 DEF job_complete, held_claim_locked
  <2>2. [f[j.i] EXCEPT !.completed = TRUE] \in HeldRecs
    BY <1>1, <1>2 DEF HeldRecs
  <2>3. f' = [g \in Held |-> IF g = j.i THEN [f[j.i] EXCEPT !.completed = TRUE] ELSE f[g]]
    BY <1>1, <2>1
  <2>4. f' \in [Held -> HeldRecs]
    BY <1>1, <2>2, <2>3
  <2>5. f[j.i] \in HeldRecs
    BY <1>1, <1>2
  <2> QED  BY <1>1, <1>2, <1>4, <2>1, <2>3, <2>4, <2>5 DEF HeldRecs
<1> QED  BY <1>1, <1>2, <1>3, <1>4 DEF HeldRecs

\* The listeners and timeouts that start for a texture.
Starts(k, h, pc, then) ==
  k \in JobRecs /\ k.i = h /\ k.order = f[h].order /\ k.pc = pc /\ k.arg = None /\ k.then = then /\ k.on = "heldq"

\* Handlers and listeners are records of the right shape.
LEMMA JobRec ==
  ASSUME TInv, NEW h \in Held
  PROVE  /\ Starts(Job(h, "listen"), h, "listen", "free")
         /\ Starts([Job(h, "complete") EXCEPT !.then = "listen"], h, "complete", "listen")
<1>1. f[h] \in HeldRecs /\ h \in Int
  BY HAssumption DEF TInv, FInv, Held
<1>2. f[h].order \in Nat
  BY <1>1 DEF HeldRecs
<1>3. [Job(h, "complete") EXCEPT !.then = "listen"] =
        [i |-> h, order |-> f[h].order, pc |-> "complete", arg |-> None, then |-> "listen", on |-> "heldq"]
  BY DEF Job
<1> QED  BY <1>1, <1>2, <1>3 DEF Starts, Job, JobRecs, None

\* hold_texture: the texture claimed, and what its eviction drops.
LEMMA HoldView ==
  ASSUME TInv, hold_texture
  PROVE  \E D, E \in SUBSET Held :
           /\ D \subseteq HeldIn("QUEUED") /\ E \subseteq HeldIn("FREE")
           /\ \A a, b \in D : a = b
           /\ \A a, b \in E : a = b
           /\ \A a \in D : held_oldest_locked(a, "QUEUED")
           /\ f' \in [Held -> HeldRecs]
           /\ \A g \in Held : /\ Keeps(g)
                              /\ f'[g].state = IF g \in D THEN "DROPPING" ELSE IF g \in E THEN "RENDERING" ELSE f[g].state
           /\ jobs' = jobs \cup {Job(h, "listen") : h \in D}
           /\ E = {} => renderer' = "no_texture" /\ cur' = cur
           /\ \A a \in E : renderer' = "held_begin" /\ cur' = [cur EXCEPT !.i = a]
<1>1. PICK D \in SUBSET Held :
        /\ \/ \E h \in Held : held_oldest_locked(h, "QUEUED") /\ D = {h}
           \/ D = {}
        /\ jobs' = jobs \cup {Job(h, "listen") : h \in D}
        /\ LET f1 == IF D = {} THEN f ELSE held_drop_locked(CHOOSE h \in D : TRUE)
           IN  \/ \E h \in Held :
                   /\ FreeTexture(h)
                   /\ f' = [f1 EXCEPT ![h].state = "RENDERING"]
                   /\ cur' = [cur EXCEPT !.i = h]
                   /\ renderer' = "held_begin"
               \/ f' = f1 /\ renderer' = "no_texture" /\ UNCHANGED cur
  BY DEF hold_texture
<1> DEFINE f1 == IF D = {} THEN f ELSE held_drop_locked(CHOOSE h \in D : TRUE)
<1>2. f \in [Held -> HeldRecs] /\ {"DROPPING", "RENDERING"} \subseteq HeldStates
  BY DEF TInv, FInv, HeldStates
<1>3. /\ f1 \in [Held -> HeldRecs]
      /\ \A g \in Held : /\ f1[g].state = IF g \in D THEN "DROPPING" ELSE f[g].state
                         /\ f1[g].order = f[g].order /\ f1[g].completed = f[g].completed /\ f1[g].seq = f[g].seq
  <2>1. CASE D = {}
    BY <1>2, <2>1
  <2>2. ASSUME NEW h \in Held, D = {h} PROVE <1>3
    <3>1. f1 = [f EXCEPT ![h].state = "DROPPING"]
      BY <2>2 DEF held_drop_locked
    <3>2. /\ f1 \in [Held -> HeldRecs]
          /\ \A g \in Held : /\ f1[g].state = IF g = h THEN "DROPPING" ELSE f[g].state
                             /\ f1[g].order = f[g].order /\ f1[g].completed = f[g].completed /\ f1[g].seq = f[g].seq
      <4> HIDE DEF f1
      <4> QED  BY <1>2, <3>1, StateSet
    <3> QED  BY <2>2, <3>2
  <2> QED  BY <1>1, <2>1, <2>2
<1>4. \/ \E h \in Held :
           /\ FreeTexture(h) /\ f' = [f1 EXCEPT ![h].state = "RENDERING"]
           /\ cur' = [cur EXCEPT !.i = h] /\ renderer' = "held_begin"
      \/ f' = f1 /\ renderer' = "no_texture" /\ cur' = cur
  BY <1>1
<1> HIDE DEF f1
<1>5. D \subseteq HeldIn("QUEUED") /\ (\A a, b \in D : a = b) /\ (\A a \in D : held_oldest_locked(a, "QUEUED"))
  BY <1>1 DEF held_oldest_locked
<1>6. ASSUME NEW h \in Held, FreeTexture(h), f' = [f1 EXCEPT ![h].state = "RENDERING"]
      PROVE  /\ h \in HeldIn("FREE") /\ f' \in [Held -> HeldRecs]
             /\ \A g \in Held : /\ Keeps(g)
                                /\ f'[g].state = IF g \in D THEN "DROPPING" ELSE IF g = h THEN "RENDERING" ELSE f[g].state
  <2>1. h \in HeldIn("FREE")
    BY <1>6 DEF FreeTexture, held_oldest_locked
  <2>2. h \notin D
    BY <1>5, <2>1 DEF HeldIn
  <2>3. /\ f' \in [Held -> HeldRecs]
        /\ \A g \in Held : /\ f'[g].state = IF g = h THEN "RENDERING" ELSE f1[g].state
                           /\ f'[g].order = f1[g].order /\ f'[g].completed = f1[g].completed /\ f'[g].seq = f1[g].seq
    BY <1>2, <1>3, <1>6, StateSet
  <2> QED  BY <1>3, <2>1, <2>2, <2>3 DEF Keeps
<1>7. ASSUME NEW h \in Held, FreeTexture(h), f' = [f1 EXCEPT ![h].state = "RENDERING"],
             cur' = [cur EXCEPT !.i = h], renderer' = "held_begin"
      PROVE  \E E \in SUBSET Held :
               /\ E \subseteq HeldIn("FREE") /\ (\A a, b \in E : a = b) /\ f' \in [Held -> HeldRecs]
               /\ \A g \in Held : /\ Keeps(g)
                                  /\ f'[g].state = IF g \in D THEN "DROPPING" ELSE IF g \in E THEN "RENDERING" ELSE f[g].state
               /\ (E = {} => renderer' = "no_texture" /\ cur' = cur)
               /\ \A a \in E : renderer' = "held_begin" /\ cur' = [cur EXCEPT !.i = a]
  <2> WITNESS {h} \in SUBSET Held
  <2> QED  BY <1>6, <1>7
<1>8. ASSUME f' = f1, renderer' = "no_texture", cur' = cur
      PROVE  \E E \in SUBSET Held :
               /\ E \subseteq HeldIn("FREE") /\ (\A a, b \in E : a = b) /\ f' \in [Held -> HeldRecs]
               /\ \A g \in Held : /\ Keeps(g)
                                  /\ f'[g].state = IF g \in D THEN "DROPPING" ELSE IF g \in E THEN "RENDERING" ELSE f[g].state
               /\ (E = {} => renderer' = "no_texture" /\ cur' = cur)
               /\ \A a \in E : renderer' = "held_begin" /\ cur' = [cur EXCEPT !.i = a]
  <2> WITNESS {} \in SUBSET Held
  <2> QED  BY <1>3, <1>8 DEF Keeps
<1> QED  BY <1>1, <1>4, <1>5, <1>7, <1>8

\* held_timeout: the frames it drops, and whether it is armed again.
LEMMA TimeoutView ==
  ASSUME TInv, held_timeout
  PROVE  \E L \in SUBSET Held :
           /\ L \subseteq HeldIn("QUEUED")
           /\ \A g \in HeldIn("QUEUED") \ L, h \in L : f[h].order < f[g].order
           /\ f' \in [Held -> HeldRecs]
           /\ \A g \in Held : Keeps(g) /\ f'[g].state = IF g \in L THEN "DROPPING" ELSE f[g].state
           /\ jobs' = jobs \cup {[Job(h, "complete") EXCEPT !.then = "listen"] : h \in L}
           /\ rearm(HeldIn("QUEUED") \ L)
<1>1. PICK last \in timer .. held_order :
        LET late == {h \in HeldIn("QUEUED") : f[h].order <= last}
        IN  /\ f' = [h \in Held |-> IF h \in late THEN [f[h] EXCEPT !.state = "DROPPING"] ELSE f[h]]
            /\ jobs' = jobs \cup {[Job(h, "complete") EXCEPT !.then = "listen"] : h \in late}
            /\ rearm(HeldIn("QUEUED") \ late)
  BY DEF held_timeout
<1> DEFINE L == {h \in HeldIn("QUEUED") : f[h].order <= last}
<1>2. f \in [Held -> HeldRecs] /\ "DROPPING" \in HeldStates
  BY DEF TInv, FInv, HeldStates
<1>3. \A h \in Held : f[h] \in HeldRecs /\ [f[h] EXCEPT !.state = "DROPPING"] \in HeldRecs
  BY <1>2 DEF HeldRecs
<1>4. L \subseteq HeldIn("QUEUED") /\ L \subseteq Held
  BY DEF HeldIn
<1>5. \A g \in HeldIn("QUEUED") \ L, h \in L : f[h].order < f[g].order
  <2>1. last \in Int
    BY <1>1 DEF TInv, FInv
  <2> SUFFICES ASSUME NEW g \in HeldIn("QUEUED") \ L, NEW h \in L PROVE f[h].order < f[g].order
    OBVIOUS
  <2>2. f[h].order <= last /\ ~(f[g].order <= last)
    OBVIOUS
  <2>3. f[h].order \in Nat /\ f[g].order \in Nat
    BY <1>3 DEF HeldRecs, HeldIn
  <2> QED  BY <2>1, <2>2, <2>3
<1>6. /\ f' = [h \in Held |-> IF h \in L THEN [f[h] EXCEPT !.state = "DROPPING"] ELSE f[h]]
      /\ jobs' = jobs \cup {[Job(h, "complete") EXCEPT !.then = "listen"] : h \in L}
      /\ rearm(HeldIn("QUEUED") \ L)
  BY <1>1
<1> HIDE DEF L
<1>7. f' \in [Held -> HeldRecs]
  BY <1>3, <1>6
<1>8. \A g \in Held : Keeps(g) /\ f'[g].state = IF g \in L THEN "DROPPING" ELSE f[g].state
  BY <1>3, <1>6 DEF Keeps, HeldRecs
<1> QED  BY <1>4, <1>5, <1>6, <1>7, <1>8

\* release_held: queued frames are dropped and the flips of held ones claimed.
LEMMA ReleaseView ==
  ASSUME TInv, release_held
  PROVE  /\ f' \in [Held -> HeldRecs]
         /\ \A g \in Held : /\ f'[g].order = f[g].order /\ f'[g].seq = f[g].seq
                            /\ f'[g].state = IF f[g].state = "QUEUED" THEN "DROPPING" ELSE f[g].state
                            /\ f'[g].completed = (f[g].completed \/ f[g].state \in Written)
         /\ jobs' = jobs \cup {Job(h, "listen") : h \in HeldIn("QUEUED")}
<1> DEFINE G(h) == [f[h] EXCEPT !.completed = @ \/ h \in {g \in Waiting : ~f[g].completed},
                                !.state = IF @ = "QUEUED" THEN "DROPPING" ELSE @]
<1>1. f \in [Held -> HeldRecs] /\ "DROPPING" \in HeldStates
  BY DEF TInv, FInv, HeldStates
<1>2. \A h \in Held : f[h] \in HeldRecs
  BY <1>1
<1>3. ASSUME NEW h \in Held
      PROVE  /\ G(h) \in HeldRecs /\ G(h).order = f[h].order /\ G(h).seq = f[h].seq
             /\ G(h).state = IF f[h].state = "QUEUED" THEN "DROPPING" ELSE f[h].state
             /\ G(h).completed = (f[h].completed \/ f[h].state \in Written)
  BY <1>1, <1>2 DEF HeldRecs, Waiting, Written
<1>4. f' = [h \in Held |-> G(h)] /\ jobs' = jobs \cup {Job(h, "listen") : h \in HeldIn("QUEUED")}
  BY DEF release_held
<1> HIDE DEF G
<1> QED  BY <1>3, <1>4

-----------------------------------------------------------------------------
(* The shapes of the variables.                                            *)

\* The slots keep their shape.
LEMMA SlotTypes ==
  ASSUME TInv, [Next]_vars
  PROVE  QInv'
<1> USE DEF QInv, QTypeOK
<1>0. /\ mailbox \in BOOLEAN /\ state \in [Slots -> States] /\ keep \in [Slots -> BOOLEAN]
      /\ order \in [Slots -> Nat] /\ next_order \in Nat /\ credits \in 0 .. 1
      /\ slot_seq \in [Slots -> Int] /\ screen \in Int
  BY DEF TInv
<1>1. CASE acquire_slot
  <2>1. ASSUME NEW s \in Slots, try_acquire_locked(s) PROVE QTypeOK'
    <3>1. credits' \in 0 .. 1
      BY <1>0, <2>1 DEF try_acquire_locked, acquirable
    <3> QED  BY <1>0, <2>1, <3>1 DEF try_acquire_locked, States
  <2> QED  BY <1>0, <1>1, <2>1 DEF acquire_slot, qvars
<1>2. CASE slot_texture_failed
  <2>1. cancel_locked(cur.i) /\ UNCHANGED <<slot_seq, screen>>
    BY <1>2 DEF slot_texture_failed
  <2>2. QTypeOK'
    <3>1. credits' \in 0 .. 1
      BY <1>0, <2>1 DEF cancel_locked
    <3> QED  BY <1>0, <2>1, <3>1 DEF cancel_locked, States
  <2> QED  BY <1>0, <2>1, <2>2
<1>3. CASE present_commit
  <2>1. PICK k \in BOOLEAN : submit_locked(cur.i, k)
    BY <1>3 DEF present_commit
  <2>2. state' \in [Slots -> States] /\ keep' \in [Slots -> BOOLEAN]
    BY <1>0, <2>1 DEF submit_locked, States
  <2>3. order' \in [Slots -> Nat] /\ next_order' \in Nat
    <3>1. next_order + 1 \in Nat /\ order' = [order EXCEPT ![cur.i] = next_order + 1] /\ next_order' = next_order + 1
      BY <1>0, <2>1 DEF submit_locked
    <3> QED  BY <1>0, <3>1
  <2>4. slot_seq' \in [Slots -> Int] /\ UNCHANGED screen
    BY <1>0, <1>3 DEF TInv, CurInv, present_commit
  <2> QED  BY <1>0, <2>1, <2>2, <2>3, <2>4 DEF submit_locked
<1>4. CASE presenter_grant
  BY <1>0, <1>4 DEF presenter_grant, grant_locked, qvars
<1>5. CASE presenter_take
  <2>1. QTypeOK'
    BY <1>0, <1>5 DEF presenter_take, try_take_locked, qvars, States
  <2>2. slot_seq' = slot_seq /\ screen' \in Int
    BY <1>0, <1>5 DEF presenter_take
  <2> QED  BY <1>0, <2>1, <2>2
<1>6. CASE held_take
  <2>1. QTypeOK'
    <3>1. CASE qvars' = qvars
      BY <1>0, <3>1 DEF qvars
    <3>2. CASE claim_drawable_locked
      <4>1. credits' \in 0 .. 1
        BY <1>0, <3>2 DEF claim_drawable_locked
      <4> QED  BY <1>0, <3>2, <4>1 DEF claim_drawable_locked
    <3> QED  BY <1>6, <3>1, <3>2 DEF held_take
  <2>2. \A h \in Held : f[h].seq \in Int
    BY DEF TInv, FInv, HeldRecs
  <2>3. slot_seq' = slot_seq /\ screen' \in Int
    BY <1>0, <1>6, <2>2 DEF held_take
  <2> QED  BY <1>0, <2>1, <2>3
<1>7. ASSUME NEW j \in jobs, job_release(j) PROVE QInv'
  <2>0. PICK s : s = j.i
    OBVIOUS
  <2>1. release_locked(s) /\ UNCHANGED screen /\ slot_seq' = [slot_seq EXCEPT ![s] = None]
    BY <1>7, <2>0 DEF job_release
  <2>2. QTypeOK'
    BY <1>0, <2>1 DEF release_locked, States
  <2>3. None \in Int
    BY DEF None
  <2>4. slot_seq' \in [Slots -> Int]
    BY <1>0, <2>1, <2>3
  <2>5. screen' \in Int
    BY <1>0, <2>1
  <2> QED  BY <2>2, <2>4, <2>5
<1>8. CASE UNCHANGED <<qvars, slot_seq, screen>>
  BY <1>0, <1>8 DEF qvars
<1> QED
  BY <1>1, <1>2, <1>3, <1>4, <1>5, <1>6, <1>7, <1>8
  DEF Next, Renderer, InPresent, Presenter, Gpu, JobStep, Watchdog, present_start, hold_texture, no_texture,
      held_begin, arm_timer, presenter_wake, Commit, cpu_drain, cpu_present, presenter_park, gpu_convert,
      gpu_fail, present_failed, gpu_copy, job_complete, job_done, held_free, listener, held_timeout,
      run_done, GiveUpGpu, release_held, fences_given_up, vars

\* The steps that change a held texture, and what they do to the jobs.
LEMMA HeldStep ==
  ASSUME [Next]_vars
  PROVE  \/ hold_texture \/ held_begin \/ held_timeout \/ release_held
         \/ \E h \in Held : /\ held_take /\ held_oldest_locked(h, "QUEUED") /\ claim_drawable_locked
                            /\ f' = [f EXCEPT ![h].state = "PRESENTING"] /\ presenter' = "next"
                            /\ pqueue' = Append(pqueue, [e |-> "held", i |-> h, value |-> f[h].order])
                            /\ screen' = f[h].seq
         \/ \E j \in jobs : job_complete(j)
         \/ \E j \in jobs : held_free(j)
         \/ f' = f
<1> QED
  BY DEF Next, Renderer, InPresent, Presenter, Gpu, JobStep, Watchdog, present_start, acquire_slot, slot_texture_failed,
      present_commit, no_texture, arm_timer, presenter_wake, Commit, cpu_drain, cpu_present, presenter_grant,
      presenter_take, presenter_park, gpu_convert, gpu_fail, present_failed, gpu_copy, job_release, job_done, listener,
      run_done, GiveUpGpu, fences_given_up, vars, hvars, held_take

\* The held textures keep their shape.
LEMMA HeldTypes ==
  ASSUME TInv, UseInv, [Next]_vars
  PROVE  FInv'
<1>1. f' \in [Held -> HeldRecs]
  <2>1. f \in [Held -> HeldRecs]
    BY DEF TInv, FInv
  <2> QED  BY <2>1, HeldStep, HoldView, BeginView, TimeoutView, ReleaseView, TakeView, CompleteView, FreeView
<1>2. held_order' \in Nat
  <2>0. held_order \in Nat
    BY DEF TInv, FInv
  <2>1. CASE held_begin
    BY <2>0, <2>1 DEF held_begin
  <2>2. CASE ~held_begin
    BY <2>0, <2>2 DEF Next, Renderer, InPresent, Presenter, Gpu, JobStep, Watchdog, present_start, acquire_slot,
      slot_texture_failed, present_commit, hold_texture, no_texture, arm_timer, presenter_wake, Commit,
      cpu_drain, cpu_present, presenter_grant, presenter_take, held_take, presenter_park, gpu_convert, gpu_fail,
      present_failed, gpu_copy, job_release, job_complete, job_done, held_free, listener, held_timeout,
      run_done, GiveUpGpu, release_held, fences_given_up, vars, hvars
  <2> QED  BY <2>1, <2>2
<1>3. timer' \in Nat /\ timer_armed' \in BOOLEAN
  <2>1. CASE held_timeout
    <3>1. PICK L \in SUBSET Held : rearm(HeldIn("QUEUED") \ L)
      BY <2>1, TimeoutView
    <3>2. \A h \in HeldIn("QUEUED") : f[h].order \in Nat
      BY DEF TInv, FInv, HeldRecs, HeldIn
    <3>3. CASE HeldIn("QUEUED") \ L = {}
      <4>1. timer_armed' = FALSE /\ timer' = 0
        BY <3>1, <3>3 DEF rearm
      <4> QED  BY <4>1
    <3>4. CASE HeldIn("QUEUED") \ L # {}
      <4>1. PICK h \in HeldIn("QUEUED") \ L : timer' = f[h].order
        BY <3>1, <3>4 DEF rearm
      <4> QED  BY <3>1, <3>2, <3>4, <4>1 DEF rearm
    <3> QED  BY <3>3, <3>4
  <2>2. CASE ~held_timeout
    BY <2>2 DEF TInv, FInv, Next, Renderer, InPresent, Presenter, Gpu, JobStep, Watchdog, present_start, acquire_slot,
      slot_texture_failed, present_commit, hold_texture, no_texture, held_begin, arm_timer, presenter_wake, Commit,
      cpu_drain, cpu_present, presenter_grant, presenter_take, held_take, presenter_park, gpu_convert, gpu_fail,
      present_failed, gpu_copy, job_release, job_complete, job_done, held_free, listener,
      run_done, GiveUpGpu, release_held, fences_given_up, vars, hvars
  <2> QED  BY <2>1, <2>2
<1> QED  BY <1>1, <1>2, <1>3 DEF FInv

\* The frame of the renderer keeps its shape.
LEMMA CurTypes ==
  ASSUME TInv, UseInv, OnceInv, [Next]_vars
  PROVE  CurInv'
<1> USE MaxFlipsAssumption, NAssumption, HAssumption
<1>1. flip_next \in 0 .. MaxFlips /\ cur \in [seq : Int, behind : BOOLEAN, i : Int]
  BY DEF TInv, CurInv
<1>2. ASSUME NEW x \in Int PROVE [cur EXCEPT !.i = x] \in [seq : Int, behind : BOOLEAN, i : Int]
  BY <1>1
<1>3. Slots \subseteq Int /\ Held \subseteq Int /\ NoFrame \in [seq : Int, behind : BOOLEAN, i : Int]
  BY DEF Slots, Held, NoFrame, None
<1>4. CASE present_start
  <2>1. [seq |-> flip_next, behind |-> FramesHeld, i |-> None] \in [seq : Int, behind : BOOLEAN, i : Int]
    BY <1>1 DEF FramesHeld, None
  <2> QED  BY <1>1, <1>4, <2>1 DEF CurInv, present_start
<1>5. CASE acquire_slot
  BY <1>1, <1>2, <1>3, <1>5 DEF CurInv, acquire_slot, flipvars
<1>6. CASE hold_texture
  BY <1>1, <1>2, <1>3, <1>6 DEF CurInv, hold_texture, flipvars
<1>7. CASE Commit
  BY <1>1, <1>3, <1>7 DEF CurInv, Commit, flipvars
<1>8. CASE cpu_present
  BY <1>1, <1>8 DEF CurInv, cpu_present, OnceInv, InRange
<1>9. CASE UNCHANGED <<cur, flip_next>>
  BY <1>1, <1>9 DEF CurInv
<1> QED
  BY <1>4, <1>5, <1>6, <1>7, <1>8, <1>9 DEF Next, Renderer, InPresent, Presenter, Gpu, JobStep, Watchdog,
      slot_texture_failed, present_commit, no_texture, held_begin, arm_timer, presenter_wake,
      cpu_drain, presenter_grant, presenter_take, held_take, presenter_park, gpu_convert, gpu_fail,
      present_failed, gpu_copy, job_release, job_complete, job_done, held_free, listener, held_timeout,
      run_done, GiveUpGpu, release_held, fences_given_up, vars, flipvars

\* Events and queues keep their shape.
LEMMA GpuTypes ==
  ASSUME TInv, [Next]_vars
  PROVE  GpuInv'
<1>1. /\ ev \in [Events -> Nat] /\ gpuq \in Seq(Conversions) /\ pqueue \in Seq(Copies) /\ failing \subseteq Failures
      /\ order \in [Slots -> Nat] /\ next_order \in Nat /\ held_order \in Nat /\ cur.i \in Int /\ cur.seq \in Int
      /\ \A h \in Held : f[h].order \in Nat
      /\ Slots \subseteq Int /\ Held \subseteq Int
  <2>1. GpuInv /\ order \in [Slots -> Nat] /\ next_order \in Nat
    BY DEF TInv, QInv, QTypeOK
  <2>2. f \in [Held -> HeldRecs] /\ held_order \in Nat /\ cur.i \in Int /\ cur.seq \in Int
    BY DEF TInv, FInv, CurInv
  <2>3. \A h \in Held : f[h].order \in Nat
    BY <2>2 DEF HeldRecs
  <2>4. Slots \subseteq Int /\ Held \subseteq Int
    BY NAssumption, HAssumption DEF Slots, Held
  <2> QED  BY <2>1, <2>2, <2>3, <2>4 DEF GpuInv
<1>2. CASE presenter_take
  <2>1. ASSUME NEW s \in Slots PROVE [e |-> "slot", i |-> s, value |-> order[s]] \in Copies
    BY <1>1 DEF Copies, Events
  <2>2. pqueue' \in Seq(Copies)
    <3>1. CASE pqueue' = pqueue
      BY <1>1, <3>1
    <3>2. ASSUME NEW s \in Slots, pqueue' = Append(pqueue, [e |-> "slot", i |-> s, value |-> order[s]])
          PROVE  pqueue' \in Seq(Copies)
      BY <1>1, <2>1, <3>2
    <3> QED  BY <1>2, <3>1, <3>2 DEF presenter_take
  <2> QED  BY <1>1, <1>2, <2>2 DEF presenter_take, GpuInv
<1>3. CASE held_take
  <2>1. ASSUME NEW h \in Held PROVE [e |-> "held", i |-> h, value |-> f[h].order] \in Copies
    BY <1>1 DEF Copies, Events
  <2>2. pqueue' \in Seq(Copies)
    <3>1. CASE pqueue' = pqueue
      BY <1>1, <3>1
    <3>2. ASSUME NEW h \in Held, pqueue' = Append(pqueue, [e |-> "held", i |-> h, value |-> f[h].order])
          PROVE  pqueue' \in Seq(Copies)
      BY <1>1, <2>1, <3>2
    <3> QED  BY <1>3, <3>1, <3>2 DEF held_take
  <2> QED  BY <1>1, <1>3, <2>2 DEF held_take, GpuInv
<1>4. CASE Commit
  <2>1. ASSUME NEW e \in {"slot", "held", "none"}
        PROVE  [e |-> e, i |-> cur.i, seq |-> cur.seq, value |-> IF e = "held" THEN held_order ELSE next_order] \in Conversions
    BY <1>1 DEF Conversions
  <2>2. gpuq' \in Seq(Conversions)
    BY <1>1, <1>4, <2>1 DEF Commit
  <2> QED  BY <1>1, <1>4, <2>2 DEF Commit, GpuInv
<1>5. CASE gpu_convert
  <2>1. Head(gpuq) \in Conversions /\ Tail(gpuq) \in Seq(Conversions)
    BY <1>1, <1>5 DEF gpu_convert
  <2>2. ev' \in [Events -> Nat]
    BY <1>1, <1>5, <2>1 DEF gpu_convert, Conversions
  <2> QED  BY <1>1, <1>5, <2>1, <2>2 DEF gpu_convert, GpuInv
<1>6. CASE gpu_fail
  <2>1. Head(gpuq) \in Conversions /\ Tail(gpuq) \in Seq(Conversions)
    BY <1>1, <1>6 DEF gpu_fail
  <2>2. ASSUME NEW e \in Events PROVE [e |-> e, value |-> Head(gpuq).value, pc |-> "check"] \in Failures
    BY <2>1 DEF Failures, Conversions
  <2>3. failing' \subseteq Failures
    BY <1>1, <1>6, <2>2 DEF gpu_fail
  <2> QED  BY <1>1, <1>6, <2>1, <2>3 DEF gpu_fail, GpuInv
<1>7. ASSUME NEW r \in failing, present_failed(r) PROVE GpuInv'
  <2>1. r \in Failures /\ [r EXCEPT !.pc = "write"] \in Failures
    BY <1>1 DEF Failures
  <2>2. failing' \subseteq Failures
    BY <1>1, <1>7, <2>1 DEF present_failed
  <2>3. ev' \in [Events -> Nat]
    BY <1>1, <1>7, <2>1 DEF present_failed, Failures
  <2> QED  BY <1>1, <1>7, <2>2, <2>3 DEF present_failed, GpuInv
<1>8. CASE gpu_copy
  <2>1. Tail(pqueue) \in Seq(Copies)
    BY <1>1, <1>8 DEF gpu_copy
  <2> QED  BY <1>1, <1>8, <2>1 DEF gpu_copy, GpuInv
<1>9. CASE release_held
  <2>1. ev' \in [Events -> Nat]
    BY <1>1, <1>9 DEF release_held, Newest
  <2> QED  BY <1>1, <1>9, <2>1 DEF release_held, GpuInv
<1>10. CASE UNCHANGED <<ev, gpuq, pqueue, failing>>
  BY <1>1, <1>10 DEF GpuInv
<1> QED
  BY <1>2, <1>3, <1>4, <1>5, <1>6, <1>7, <1>8, <1>9, <1>10
  DEF Next, Renderer, InPresent, Presenter, Gpu, JobStep, Watchdog, present_start, acquire_slot, slot_texture_failed,
      present_commit, hold_texture, no_texture, held_begin, arm_timer, presenter_wake, cpu_drain, cpu_present,
      presenter_grant, presenter_park, job_release, job_complete, job_done, held_free, listener, held_timeout,
      run_done, GiveUpGpu, fences_given_up, vars, gpuvars

\* Handlers and listeners keep their shape.
LEMMA JobTypes ==
  ASSUME TInv, UseInv, [Next]_vars
  PROVE  JobsInv'
<1>1. /\ jobs \subseteq JobRecs /\ None \in Int
      /\ \A h \in Held : f[h].order \in Nat /\ f[h].seq \in Int
      /\ pqueue \in Seq(Copies)
  BY DEF TInv, JobsInv, GpuInv, FInv, HeldRecs, None
<1>a. ASSUME NEW j \in jobs, NEW pc \in {"release", "listen", "complete", "done", "free"}, NEW arg \in Int,
             NEW then \in {"free", "listen"}, jobs' = Step(j, pc, arg, then)
      PROVE  JobsInv'
  BY <1>1, <1>a, Stepped DEF JobsInv
<1>b. \A h \in Held : Job(h, "listen") \in JobRecs /\ [Job(h, "complete") EXCEPT !.then = "listen"] \in JobRecs
  BY JobRec DEF Starts
<1>2. CASE hold_texture
  <2>1. PICK D \in SUBSET Held : jobs' = jobs \cup {Job(h, "listen") : h \in D}
    BY <1>2, HoldView
  <2> QED  BY <1>1, <1>b, <2>1 DEF JobsInv
<1>3. CASE gpu_copy
  <2>1. Head(pqueue) \in Copies
    BY <1>1, <1>3 DEF gpu_copy
  <2>2. [i |-> Head(pqueue).i, order |-> Head(pqueue).value, on |-> "gpu", arg |-> None, then |-> "free",
           pc |-> IF Head(pqueue).e = "slot" THEN "release" ELSE "complete"] \in JobRecs
    BY <1>1, <2>1 DEF Copies, JobRecs
  <2> QED  BY <1>1, <1>3, <2>2 DEF gpu_copy, JobsInv
<1>4. ASSUME NEW j \in jobs, job_release(j) \/ held_free(j) PROVE JobsInv'
  BY <1>1, <1>4 DEF job_release, held_free, JobsInv
<1>5. ASSUME NEW j \in jobs, job_complete(j) PROVE JobsInv'
  <2>1. j.i \in Held /\ (jobs' = Step(j, "done", f[j.i].seq, j.then) \/ jobs' = Step(j, j.then, None, j.then))
    BY <1>5, CompleteView
  <2>2. j.then \in {"free", "listen"}
    BY <1>1 DEF JobRecs
  <2> QED  BY <1>1, <1>a, <2>1, <2>2
<1>6. ASSUME NEW j \in jobs, job_done(j) PROVE JobsInv'
  <2>1. j.then \in {"free", "listen"}
    BY <1>1 DEF JobRecs
  <2> QED  BY <1>1, <1>6, <1>a, <2>1 DEF job_done
<1>7. ASSUME NEW j \in jobs, listener(j) PROVE JobsInv'
  BY <1>1, <1>7, <1>a DEF listener
<1>8. CASE held_timeout
  <2>1. PICK L \in SUBSET Held : jobs' = jobs \cup {[Job(h, "complete") EXCEPT !.then = "listen"] : h \in L}
    BY <1>8, TimeoutView
  <2> QED  BY <1>1, <1>b, <2>1 DEF JobsInv
<1>9. CASE release_held
  <2>1. HeldIn("QUEUED") \subseteq Held /\ jobs' = jobs \cup {Job(h, "listen") : h \in HeldIn("QUEUED")}
    BY <1>9, ReleaseView DEF HeldIn
  <2> QED  BY <1>1, <1>b, <2>1 DEF JobsInv
<1>10. CASE UNCHANGED jobs
  BY <1>1, <1>10 DEF JobsInv
<1> QED
  BY <1>2, <1>3, <1>4, <1>5, <1>6, <1>7, <1>8, <1>9, <1>10
  DEF Next, Renderer, InPresent, Presenter, Gpu, JobStep, Watchdog, present_start, acquire_slot, slot_texture_failed,
      present_commit, no_texture, held_begin, arm_timer, presenter_wake, Commit, cpu_drain, cpu_present,
      presenter_grant, presenter_take, held_take, presenter_park, gpu_convert, gpu_fail, present_failed,
      run_done, GiveUpGpu, fences_given_up, vars

\* Every variable keeps its shape.
LEMMA TypeStep ==
  ASSUME TInv, UseInv, OnceInv, [Next]_vars
  PROVE  TInv'
<1> QED  BY SlotTypes, HeldTypes, CurTypes, GpuTypes, JobTypes DEF TInv

(* Only held_begin queues a texture; a queued one keeps its order and flip. *)
LEMMA Queued ==
  ASSUME TInv, UseInv, [Next]_vars, NEW h \in Held, f'[h].state = "QUEUED"
  PROVE  \/ f[h].state = "QUEUED" /\ f'[h].order = f[h].order /\ f'[h].seq = f[h].seq
         \/ held_begin /\ h = cur.i
<1>1. CASE hold_texture
  BY <1>1, HoldView DEF Keeps
<1>2. CASE held_begin
  BY <1>2, BeginView
<1>3. ASSUME NEW g \in Held, f' = [f EXCEPT ![g].state = "PRESENTING"]
      PROVE  f[h].state = "QUEUED" /\ f'[h].order = f[h].order /\ f'[h].seq = f[h].seq
  BY <1>3, TakeView DEF Keeps
<1>4. ASSUME NEW j \in jobs, job_complete(j)
      PROVE  f[h].state = "QUEUED" /\ f'[h].order = f[h].order /\ f'[h].seq = f[h].seq
  BY <1>4, CompleteView
<1>5. ASSUME NEW j \in jobs, held_free(j)
      PROVE  f[h].state = "QUEUED" /\ f'[h].order = f[h].order /\ f'[h].seq = f[h].seq
  BY <1>5, FreeView DEF Keeps
<1>6. CASE held_timeout
  BY <1>6, TimeoutView DEF Keeps
<1>7. CASE release_held
  BY <1>7, ReleaseView
<1> QED  BY <1>1, <1>2, <1>3, <1>4, <1>5, <1>6, <1>7, HeldStep

-----------------------------------------------------------------------------
(* The drawable is lent to one frame. *)
LEMMA LentStep ==
  ASSUME TInv, LentInv, [Next]_vars
  PROVE  LentInv'
<1>0. /\ mailbox \in BOOLEAN /\ state \in [Slots -> States] /\ credits \in 0 .. 1
      /\ cur \in [seq : Int, behind : BOOLEAN, i : Int]
  BY DEF TInv, QInv, QTypeOK, CurInv
<1> USE DEF LentInv, Lent, Unclaimed
<1>1. CASE acquire_slot
  <2>1. ASSUME NEW s \in Slots, try_acquire_locked(s), cur' = [cur EXCEPT !.i = s] PROVE LentInv'
    <3>1. cur'.i \in Slots
      BY <1>0, <2>1
    <3>2. mailbox' = mailbox /\ (~mailbox => Unclaimed /\ presenter # "next" /\ credits' = 0) /\ presenter' = presenter
          /\ state' = [state EXCEPT ![s] = "RENDERING"]
      BY <1>0, <1>1, <2>1 DEF try_acquire_locked, acquirable, acquire_slot
    <3> QED  BY <1>0, <3>1, <3>2
  <2>2. CASE UNCHANGED <<qvars, cur>> /\ renderer' \notin {"slot", "slot_copy"}
    BY <1>1, <2>2 DEF acquire_slot, qvars
  <2> QED  BY <1>1, <2>1, <2>2 DEF acquire_slot
<1>2. CASE slot_texture_failed
  <2>1. cur.i \in Slots /\ state[cur.i] = "RENDERING" /\ state' = [state EXCEPT ![cur.i] = "FREE"] /\ mailbox' = mailbox
        /\ presenter' = Woken /\ QFree /\ renderer' \in {"hold", "commit_none"}
    BY <1>2 DEF slot_texture_failed, cancel_locked
  <2>2. ~mailbox => presenter # "next"
    BY <2>1
  <2>3. presenter' # "next" \/ mailbox
    BY <2>1, <2>2 DEF Woken
  <2>4. ~mailbox => \A s \in Slots : ~(state'[s] \in {"RENDERING", "QUEUED"})
    BY <1>0, <2>1
  <2> QED  BY <2>1, <2>3, <2>4
<1>3. CASE present_commit
  <2>1. cur.i \in Slots /\ state[cur.i] = "RENDERING" /\ state' = [state EXCEPT ![cur.i] = "QUEUED"] /\ mailbox' = mailbox
        /\ presenter' = Woken /\ QFree /\ renderer' = "commit_slot" /\ credits' = credits
    BY <1>3 DEF present_commit, submit_locked
  <2>2. ~mailbox => presenter # "next" /\ credits = 0
    BY <1>0, <2>1
  <2>3. presenter' # "next" \/ mailbox
    BY <2>1, <2>2 DEF Woken
  <2>4. \A s \in Slots : state'[s] \in {"RENDERING", "QUEUED"} => state[s] \in {"RENDERING", "QUEUED"}
    BY <1>0, <2>1
  <2> QED  BY <2>1, <2>2, <2>3, <2>4
<1>4. CASE presenter_grant
  BY <1>0, <1>4 DEF presenter_grant, grant_locked, qvars
<1>5. CASE presenter_take
  <2>1. ASSUME NEW s \in Slots, try_take_locked(s) PROVE LentInv'
    <3>1. state[s] = "QUEUED" /\ state' = [state EXCEPT ![s] = "PRESENTING"] /\ mailbox' = mailbox /\ credits' = credits
      BY <2>1 DEF try_take_locked, oldest_queued
    <3>2. ~mailbox => \A r \in Slots : ~(state'[r] \in {"RENDERING", "QUEUED"})
      BY <1>0, <3>1
    <3>3. ~mailbox => credits = 0
      BY <1>0, <3>1
    <3> QED  BY <1>5, <3>1, <3>2, <3>3 DEF presenter_take
  <2>2. CASE presenter' = "held" /\ UNCHANGED qvars
    BY <1>5, <2>2 DEF presenter_take, qvars
  <2> QED  BY <1>5, <2>1, <2>2 DEF presenter_take
<1>6. CASE held_take
  <2>1. CASE claim_drawable_locked
    BY <1>0, <1>6, <2>1 DEF held_take, claim_drawable_locked
  <2>2. CASE presenter' = "park" /\ UNCHANGED qvars
    BY <1>6, <2>2 DEF held_take, qvars
  <2> QED  BY <1>6, <2>1, <2>2 DEF held_take
<1>7. ASSUME NEW j \in jobs, job_release(j) PROVE LentInv'
  <2>1. state[j.i] = "PRESENTING" /\ state' = [state EXCEPT ![j.i] = "FREE"] /\ mailbox' = mailbox
        /\ presenter' = Woken /\ credits' = credits /\ renderer' = renderer /\ cur' = cur
    BY <1>7 DEF job_release, release_locked
  <2>2. \A s \in Slots : state'[s] \in {"RENDERING", "QUEUED"} <=> state[s] \in {"RENDERING", "QUEUED"}
    BY <1>0, <2>1
  <2> QED  BY <2>1, <2>2 DEF Woken
<1>8. CASE presenter_wake \/ presenter_park
  BY <1>8 DEF presenter_wake, presenter_park, Woken, qvars
<1>9. CASE /\ UNCHANGED <<qvars, presenter>>
           /\ renderer' \in {"slot", "slot_copy"} => renderer \in {"slot", "slot_copy"} /\ cur' = cur
  BY <1>9 DEF qvars
<1> QED
  BY <1>1, <1>2, <1>3, <1>4, <1>5, <1>6, <1>7, <1>8, <1>9
  DEF Next, Renderer, InPresent, Presenter, Gpu, JobStep, Watchdog, present_start, hold_texture, no_texture,
      held_begin, arm_timer, Commit, cpu_drain, cpu_present, gpu_convert,
      gpu_fail, present_failed, gpu_copy, job_complete, job_done, held_free, listener, held_timeout,
      run_done, GiveUpGpu, release_held, fences_given_up, vars

(* A timeout covers the queued textures. *)
LEMMA TimerStep ==
  ASSUME TInv, UseInv, TimerInv, [Next]_vars
  PROVE  TimerInv'
<1>0. held_order \in Nat /\ timer \in Nat /\ timer_armed \in BOOLEAN /\ \A h \in Held : f[h].order \in Nat
  BY DEF TInv, FInv, HeldRecs
<1> USE DEF TimerInv, TimeoutCovers, FramesHeld, HeldIn
<1>1. CASE held_begin
  <2>1. \A h \in Held : f'[h].state = "QUEUED" => f'[h].order >= 1
    BY <1>0, <1>1, BeginView
  <2>2. held_order' >= 1 /\ timer_armed' /\ timer' = timer /\ renderer' = (IF timer_armed THEN "wake" ELSE "arm")
        /\ renderer = "held_begin"
    BY <1>0, <1>1 DEF held_begin
  <2> QED  BY <2>1, <2>2
<1>2. CASE arm_timer
  BY <1>0, <1>2 DEF arm_timer
<1>3. CASE held_timeout
  <2>1. PICK L \in SUBSET Held :
          /\ L \subseteq HeldIn("QUEUED")
          /\ \A g \in Held : Keeps(g) /\ f'[g].state = IF g \in L THEN "DROPPING" ELSE f[g].state
          /\ rearm(HeldIn("QUEUED") \ L)
    BY <1>3, TimeoutView
  <2>2. HeldIn("QUEUED")' = HeldIn("QUEUED") \ L
    BY <2>1
  <2>3. timer # 0 /\ renderer' = renderer /\ held_order' = held_order
    BY <1>3 DEF held_timeout
  <2>4. renderer # "arm"
    BY <2>3
  <2>5. \A h \in Held : f'[h].state = "QUEUED" => f'[h].order >= 1
    BY <2>1 DEF Keeps
  <2>6. CASE HeldIn("QUEUED") \ L = {}
    <3>1. timer_armed' = FALSE /\ timer' = 0
      BY <2>1, <2>6 DEF rearm
    <3> QED  BY <2>2, <2>3, <2>4, <2>5, <2>6, <3>1
  <2>7. CASE HeldIn("QUEUED") \ L # {}
    <3>1. timer_armed' = TRUE /\ \E h \in HeldIn("QUEUED") \ L : timer' = f[h].order
      BY <2>1, <2>7 DEF rearm
    <3>2. timer' # 0
      BY <3>1
    <3> QED  BY <2>3, <2>4, <2>5, <3>1, <3>2
  <2> QED  BY <2>6, <2>7
<1>4. CASE /\ ~held_begin
           /\ timer_armed' = timer_armed /\ timer' = timer /\ held_order' = held_order
           /\ (renderer' = "arm" => renderer = "arm") /\ (renderer = "arm" => renderer' = "arm")
  <2>1. \A h \in Held : f'[h].state = "QUEUED" => f[h].state = "QUEUED" /\ f'[h].order = f[h].order
    BY <1>4, Queued
  <2> QED  BY <1>4, <2>1
<1>5. CASE ~held_begin /\ ~arm_timer /\ ~held_timeout
  <2>1. timer_armed' = timer_armed /\ timer' = timer /\ held_order' = held_order
    BY <1>5
    DEF Next, Renderer, InPresent, Presenter, Gpu, JobStep, Watchdog, present_start, acquire_slot, slot_texture_failed,
        present_commit, hold_texture, no_texture, presenter_wake, Commit, cpu_drain, cpu_present, presenter_grant,
        presenter_take, held_take, presenter_park, gpu_convert, gpu_fail, present_failed, gpu_copy, job_release, job_complete,
        job_done, held_free, listener, run_done, GiveUpGpu, release_held, fences_given_up, vars, hvars
  <2>2. (renderer' = "arm" => renderer = "arm") /\ (renderer = "arm" => renderer' = "arm")
    BY <1>5
    DEF Next, Renderer, InPresent, Presenter, Gpu, JobStep, Watchdog, present_start, acquire_slot, slot_texture_failed,
        present_commit, hold_texture, no_texture, presenter_wake, Commit, cpu_drain, cpu_present, presenter_grant,
        presenter_take, held_take, presenter_park, gpu_convert, gpu_fail, present_failed, gpu_copy, job_release, job_complete,
        job_done, held_free, listener, run_done, GiveUpGpu, release_held, fences_given_up, vars, hvars
  <2> QED  BY <1>4, <1>5, <2>1, <2>2
<1> QED  BY <1>1, <1>2, <1>3, <1>5

(* The presenter sleeps only when there is nothing to show. *)
LEMMA WakeStep ==
  ASSUME TInv, UseInv, LentInv, WakeInv, [Next]_vars
  PROVE  WakeInv'
<1>0. state \in [Slots -> States]
  BY DEF TInv, QInv, QTypeOK
<1>a. ASSUME ~held_begin, FramesHeld' PROVE FramesHeld
  BY <1>a, Queued DEF FramesHeld, HeldIn
<1> USE DEF WakeInv, NoLostWakeup, Unclaimed
<1>1. CASE acquire_slot
  <2>0. UNCHANGED <<presenter, f>> /\ renderer \notin {"arm", "wake"} /\ QFree
    BY <1>1 DEF acquire_slot, hvars
  <2>1. ASSUME NEW s \in Slots, try_acquire_locked(s) PROVE WakeInv'
    <3>1. state' = [state EXCEPT ![s] = "RENDERING"]
      BY <2>1 DEF try_acquire_locked
    <3> QED  BY <1>0, <2>0, <3>1 DEF QFree
  <2>2. CASE UNCHANGED qvars
    BY <2>0, <2>2 DEF qvars, QFree, FramesHeld, HeldIn
  <2> QED  BY <1>1, <2>1, <2>2 DEF acquire_slot
<1>2. CASE presenter' \notin {"held", "park", "asleep"}
  BY <1>2
<1>3. CASE presenter_take
  BY <1>3 DEF presenter_take, qvars
<1>4. CASE held_take
  BY <1>4 DEF held_take, qvars, FramesHeld, HeldIn
<1>5. CASE presenter_park
  BY <1>5 DEF presenter_park, qvars, hvars, FramesHeld, HeldIn
<1>6. CASE held_begin \/ arm_timer
  BY <1>6 DEF held_begin, arm_timer, qvars
<1>7. CASE presenter' = Woken /\ QFree
  BY <1>7 DEF Woken, QFree
<1>8. CASE ~held_begin /\ state' = state /\ presenter' = presenter /\ (renderer \in {"arm", "wake"} => renderer' = renderer)
  BY <1>8, <1>a
<1> QED
  BY <1>1, <1>2, <1>3, <1>4, <1>5, <1>6, <1>7, <1>8
  DEF Next, Renderer, InPresent, Presenter, Gpu, JobStep, Watchdog, present_start, slot_texture_failed,
      present_commit, hold_texture, no_texture, held_begin, arm_timer, presenter_wake, Commit, cpu_drain, cpu_present, presenter_grant,
      gpu_convert, gpu_fail, present_failed, gpu_copy, job_release, job_complete,
      job_done, held_free, listener, held_timeout, run_done, GiveUpGpu, release_held, fences_given_up, vars, qvars

-----------------------------------------------------------------------------
(* Who finishes the use of a held texture. *)

\* A texture that starts to be shown or dropped gets its only handler.
LEMMA NewJobs ==
  ASSUME UseInv, NEW D \in SUBSET HeldIn("QUEUED"), NEW J,
         \A n \in J : n.i \in D /\ n.order = f[n.i].order,
         \A m, n \in J : m.i = n.i => m = n,
         jobs' = jobs \cup J, pqueue' = pqueue,
         \A g \in Held : f'[g].order = f[g].order,
         \A g \in D : f'[g].state = "DROPPING",
         \A g \in Held : f[g].state \in {"PRESENTING", "DROPPING"} => f'[g].state = f[g].state
  PROVE  UseJobs' /\ UseCopies'
<1>1. \A d \in D : d \in Held /\ f[d].state = "QUEUED"
  BY DEF HeldIn
<1>2. \A j \in jobs : OfHeld(j) => j.i \notin D
  BY <1>1 DEF UseInv, UseJobs
<1>3. UseJobs'
  BY <1>1, <1>2 DEF UseInv, UseJobs, OfHeld
<1>4. \A k \in 1 .. Len(pqueue) : pqueue[k].e = "held" => pqueue[k].i \notin D
  BY <1>1 DEF UseInv, UseCopies
<1>5. UseCopies'
  BY <1>4 DEF UseInv, UseCopies, OfHeld
<1> QED  BY <1>3, <1>5

\* A handler that goes on is still the only one of its texture.
LEMMA MoveJob ==
  ASSUME UseInv, NEW j \in jobs, OfHeld(j), NEW k, OfHeld(k), k.i = j.i, k.order = j.order,
         jobs' = (jobs \ {j}) \cup {k}, pqueue' = pqueue,
         \A g \in Held : f'[g].order = f[g].order /\ f'[g].state = f[g].state
  PROVE  UseJobs' /\ UseCopies'
<1>1. UseJobs'
  <2>1. \A m \in jobs' : OfHeld(m) =>
           m.i \in Held /\ f[m.i].state \in {"PRESENTING", "DROPPING"} /\ f[m.i].order = m.order
    BY DEF UseInv, UseJobs
  <2>2. \A m, n \in jobs' : OfHeld(m) /\ OfHeld(n) /\ m.i = n.i => m = n
    BY DEF UseInv, UseJobs
  <2> QED  BY <2>1, <2>2 DEF UseJobs, OfHeld
<1>2. UseCopies'
  BY DEF UseInv, UseCopies, OfHeld
<1> QED  BY <1>1, <1>2

\* A texture in use has one handler or copy that frees it.
LEMMA UseStep ==
  ASSUME TInv, UseInv, [Next]_vars
  PROVE  UseInv'
<1>0. jobs \subseteq JobRecs /\ pqueue \in Seq(Copies)
  BY DEF TInv, JobsInv, GpuInv
<1>f. \A h \in Held : f[h].order \in Nat /\ f[h].seq \in Int
  BY DEF TInv, FInv, HeldRecs
<1>c. cur \in [seq : Int, behind : BOOLEAN, i : Int]
  BY DEF TInv, CurInv
<1>1. CASE hold_texture
  <2>1. PICK D, E \in SUBSET Held :
           /\ D \subseteq HeldIn("QUEUED") /\ E \subseteq HeldIn("FREE")
           /\ \A a, b \in D : a = b
           /\ \A a, b \in E : a = b
           /\ \A a \in D : held_oldest_locked(a, "QUEUED")
           /\ f' \in [Held -> HeldRecs]
           /\ \A g \in Held : /\ Keeps(g)
                              /\ f'[g].state = IF g \in D THEN "DROPPING" ELSE IF g \in E THEN "RENDERING" ELSE f[g].state
           /\ jobs' = jobs \cup {Job(h, "listen") : h \in D}
           /\ E = {} => renderer' = "no_texture" /\ cur' = cur
           /\ \A a \in E : renderer' = "held_begin" /\ cur' = [cur EXCEPT !.i = a]
    BY <1>1, HoldView
  <2>2. \A h \in Held : Job(h, "listen").i = h /\ Job(h, "listen").order = f[h].order
    BY DEF Job
  <2>3. \A g \in Held : (g \in D => f[g].state = "QUEUED") /\ (g \in E => f[g].state = "FREE")
    BY <2>1 DEF HeldIn
  <2>4. UseJobs' /\ UseCopies'
    <3> DEFINE J == {Job(h, "listen") : h \in D}
    <3>1. \A n \in J : n.i \in D /\ n.order = f[n.i].order
      BY <2>2
    <3>2. \A m, n \in J : m.i = n.i => m = n
      BY <2>2
    <3>3. jobs' = jobs \cup J /\ pqueue' = pqueue
      BY <1>1, <2>1 DEF hold_texture, gpuvars
    <3>4. \A g \in Held : f'[g].order = f[g].order
      BY <2>1 DEF Keeps
    <3>5. \A g \in D : f'[g].state = "DROPPING"
      BY <2>1
    <3>6. \A g \in Held : f[g].state \in {"PRESENTING", "DROPPING"} => f'[g].state = f[g].state
      BY <2>1, <2>3
    <3> HIDE DEF J
    <3> QED  BY <2>1, <3>1, <3>2, <3>3, <3>4, <3>5, <3>6, NewJobs
  <2>5. UseCur'
    <3>1. CASE E = {}
      BY <2>1, <3>1 DEF UseCur
    <3>2. ASSUME NEW a \in E PROVE UseCur'
      <4>1. cur'.i = a /\ a \notin D
        BY <1>c, <2>1, <2>3
      <4>2. f'[a].state = "RENDERING"
        BY <2>1, <4>1
      <4> QED  BY <4>1, <4>2 DEF UseCur
    <3> QED  BY <3>1, <3>2
  <2> QED  BY <2>4, <2>5 DEF UseInv
<1>2. CASE held_begin
  <2>1. /\ cur.i \in Held /\ f[cur.i].state = "RENDERING"
        /\ \A g \in Held : g # cur.i => f'[g] = f[g]
    BY <1>2, BeginView DEF UseInv, UseCur, held_begin
  <2>2. UNCHANGED <<jobs, pqueue>> /\ renderer' # "held_begin"
    BY <1>2 DEF held_begin, gpuvars
  <2>3. \A j \in jobs : OfHeld(j) => j.i # cur.i
    BY <2>1 DEF UseInv, UseJobs
  <2>4. UseJobs'
    BY <2>1, <2>2, <2>3 DEF UseInv, UseJobs, OfHeld
  <2>5. \A k \in 1 .. Len(pqueue) : pqueue[k].e = "held" => pqueue[k].i # cur.i
    BY <2>1 DEF UseInv, UseCopies
  <2>6. UseCopies'
    BY <2>1, <2>2, <2>5 DEF UseInv, UseCopies, OfHeld
  <2> QED  BY <2>2, <2>4, <2>6 DEF UseInv, UseCur
<1>3. ASSUME NEW h \in Held, held_take, held_oldest_locked(h, "QUEUED"), f' = [f EXCEPT ![h].state = "PRESENTING"],
             pqueue' = Append(pqueue, [e |-> "held", i |-> h, value |-> f[h].order])
      PROVE  UseInv'
  <2>1. \A g \in Held : Keeps(g) /\ f'[g].state = IF g = h THEN "PRESENTING" ELSE f[g].state
    BY <1>3, TakeView
  <2>2. UNCHANGED <<jobs, renderer, cur>> /\ f[h].state = "QUEUED"
    BY <1>3 DEF held_take, held_oldest_locked, HeldIn
  <2>3. \A j \in jobs : OfHeld(j) => j.i # h
    BY <2>2 DEF UseInv, UseJobs
  <2>4. UseJobs'
    BY <2>1, <2>2, <2>3 DEF UseInv, UseJobs, OfHeld, Keeps
  <2>5. \A k \in 1 .. Len(pqueue) : pqueue[k].e = "held" => pqueue[k].i # h
    BY <2>2 DEF UseInv, UseCopies
  <2>6. /\ Len(pqueue') = Len(pqueue) + 1 /\ Len(pqueue) \in Nat
        /\ \A k \in 1 .. Len(pqueue) : pqueue'[k] = pqueue[k]
        /\ pqueue'[Len(pqueue) + 1] = [e |-> "held", i |-> h, value |-> f[h].order]
    BY <1>0, <1>3
  <2>7. ASSUME NEW k \in 1 .. Len(pqueue'), pqueue'[k].e = "held"
        PROVE  /\ pqueue'[k].i \in Held /\ f'[pqueue'[k].i].state = "PRESENTING" /\ f'[pqueue'[k].i].order = pqueue'[k].value
               /\ \A j \in jobs' : OfHeld(j) => j.i # pqueue'[k].i
    <3>1. CASE k = Len(pqueue) + 1
      BY <2>1, <2>2, <2>3, <2>6, <3>1 DEF Keeps
    <3>2. CASE k \in 1 .. Len(pqueue)
      BY <2>1, <2>2, <2>5, <2>6, <2>7, <3>2 DEF Keeps, UseInv, UseCopies
    <3> QED  BY <2>6, <3>1, <3>2
  <2>8. \A k, l \in 1 .. Len(pqueue') : pqueue'[k].e = "held" /\ pqueue'[l].e = "held" /\ pqueue'[k].i = pqueue'[l].i => k = l
    BY <2>5, <2>6 DEF UseInv, UseCopies
  <2>9. UseCur'
    BY <2>1, <2>2 DEF UseInv, UseCur
  <2> QED  BY <2>4, <2>7, <2>8, <2>9 DEF UseInv, UseCopies, OfHeld
<1>4. ASSUME NEW j \in jobs, job_complete(j) PROVE UseInv'
  <2>1. UNCHANGED <<pqueue, renderer, cur>> /\ j.pc = "complete" /\ OfHeld(j)
    BY <1>4 DEF job_complete, gpuvars, OfHeld
  <2>2. /\ j.i \in Held
        /\ \A g \in Held : f'[g].state = f[g].state /\ f'[g].order = f[g].order
        /\ \/ jobs' = Step(j, "done", f[j.i].seq, j.then)
           \/ jobs' = Step(j, j.then, None, j.then)
    BY <1>4, CompleteView
  <2>3. j \in JobRecs /\ j.then \in {"free", "listen"} /\ f[j.i].seq \in Int /\ None \in Int
    BY <1>0, <1>f, <2>2 DEF JobRecs, None
  <2>4. PICK k \in JobRecs : jobs' = (jobs \ {j}) \cup {k} /\ k.i = j.i /\ k.order = j.order /\ k.pc # "release"
    <3>1. CASE jobs' = Step(j, "done", f[j.i].seq, j.then)
      BY <2>3, <3>1, Stepped
    <3>2. CASE jobs' = Step(j, j.then, None, j.then)
      BY <2>3, <3>2, Stepped
    <3> QED  BY <2>2, <3>1, <3>2
  <2>5. UseJobs' /\ UseCopies'
    BY <2>1, <2>2, <2>4, MoveJob DEF OfHeld
  <2>6. UseCur'
    BY <2>1, <2>2 DEF UseInv, UseCur
  <2> QED  BY <2>5, <2>6 DEF UseInv
<1>5. ASSUME NEW j \in jobs, job_done(j) \/ listener(j) PROVE UseInv'
  <2>1. UNCHANGED <<pqueue, renderer, cur, f>> /\ j.pc \in {"done", "listen"}
    BY <1>5 DEF job_done, listener, gpuvars, hvars
  <2>3. j \in JobRecs /\ j.then \in {"free", "listen"} /\ None \in Int
    BY <1>0 DEF JobRecs, None
  <2>4. PICK k \in JobRecs : jobs' = (jobs \ {j}) \cup {k} /\ k.i = j.i /\ k.order = j.order /\ k.pc # "release"
    <3>1. CASE jobs' = Step(j, j.then, None, j.then)
      BY <2>3, <3>1, Stepped
    <3>2. CASE jobs' = Step(j, "complete", None, "free")
      BY <2>3, <3>2, Stepped
    <3> QED  BY <1>5, <3>1, <3>2 DEF job_done, listener
  <2>5. UseJobs' /\ UseCopies'
    BY <2>1, <2>4, MoveJob DEF OfHeld
  <2>6. UseCur'
    BY <2>1 DEF UseInv, UseCur
  <2> QED  BY <2>5, <2>6 DEF UseInv
<1>6. ASSUME NEW j \in jobs, held_free(j) PROVE UseInv'
  <2>1. UNCHANGED <<pqueue, renderer, cur>> /\ OfHeld(j)
    BY <1>6 DEF held_free, gpuvars, OfHeld
  <2>2. /\ j.i \in Held /\ f[j.i].state \in {"PRESENTING", "DROPPING"}
        /\ \A g \in Held : Keeps(g) /\ f'[g].state = IF g = j.i THEN "FREE" ELSE f[g].state
        /\ jobs' = jobs \ {j}
    BY <1>6, FreeView
  <2>3. \A k \in jobs' : OfHeld(k) => k.i # j.i
    BY <2>1, <2>2 DEF UseInv, UseJobs
  <2>4. UseJobs'
    BY <2>2, <2>3 DEF UseInv, UseJobs, OfHeld, Keeps
  <2>5. \A k \in 1 .. Len(pqueue) : pqueue[k].e = "held" => pqueue[k].i # j.i
    BY <2>1 DEF UseInv, UseCopies
  <2>6. UseCopies'
    BY <2>1, <2>2, <2>5 DEF UseInv, UseCopies, OfHeld, Keeps
  <2>7. UseCur'
    BY <2>1, <2>2 DEF UseInv, UseCur
  <2> QED  BY <2>4, <2>6, <2>7 DEF UseInv
<1>7. CASE held_timeout
  <2>1. PICK L \in SUBSET Held :
           /\ L \subseteq HeldIn("QUEUED")
           /\ \A g \in Held : Keeps(g) /\ f'[g].state = IF g \in L THEN "DROPPING" ELSE f[g].state
           /\ jobs' = jobs \cup {[Job(h, "complete") EXCEPT !.then = "listen"] : h \in L}
    BY <1>7, TimeoutView
  <2> DEFINE K(h) == [Job(h, "complete") EXCEPT !.then = "listen"]
             J == {K(h) : h \in L}
  <2>2. \A h \in Held : K(h).i = h /\ K(h).order = f[h].order
    BY JobRec DEF Starts
  <2>a. jobs' = jobs \cup J
    BY <2>1
  <2> HIDE DEF K
  <2>3. \A g \in L : f[g].state = "QUEUED"
    BY <2>1 DEF HeldIn
  <2>4. (\A n \in J : n.i \in L /\ n.order = f[n.i].order) /\ (\A m, n \in J : m.i = n.i => m = n)
    BY <2>2
  <2>5. jobs' = jobs \cup J /\ UNCHANGED <<pqueue, renderer, cur>>
    BY <1>7, <2>a DEF held_timeout, gpuvars
  <2> HIDE DEF J
  <2>6. UseJobs' /\ UseCopies'
    <3>1. \A g \in Held : f'[g].order = f[g].order
      BY <2>1 DEF Keeps
    <3>2. \A g \in L : f'[g].state = "DROPPING"
      BY <2>1
    <3>3. \A g \in Held : f[g].state \in {"PRESENTING", "DROPPING"} => f'[g].state = f[g].state
      BY <2>1, <2>3
    <3> QED  BY <2>1, <2>4, <2>5, <3>1, <3>2, <3>3, NewJobs
  <2>7. UseCur'
    BY <2>1, <2>3, <2>5 DEF UseInv, UseCur
  <2> QED  BY <2>6, <2>7 DEF UseInv
<1>8. CASE release_held
  <2>1. /\ \A g \in Held : f'[g].order = f[g].order /\ f'[g].state = IF f[g].state = "QUEUED" THEN "DROPPING" ELSE f[g].state
        /\ jobs' = jobs \cup {Job(h, "listen") : h \in HeldIn("QUEUED")}
    BY <1>8, ReleaseView
  <2> DEFINE J == {Job(h, "listen") : h \in HeldIn("QUEUED")}
  <2>2. (\A n \in J : n.i \in HeldIn("QUEUED") /\ n.order = f[n.i].order) /\ (\A m, n \in J : m.i = n.i => m = n)
    BY DEF Job
  <2>3. jobs' = jobs \cup J /\ UNCHANGED <<pqueue, renderer, cur>>
    BY <1>8, <2>1 DEF release_held
  <2>4. \A g \in HeldIn("QUEUED") : f'[g].state = "DROPPING"
    BY <2>1 DEF HeldIn
  <2>5. \A g \in Held : f[g].state \in {"PRESENTING", "DROPPING"} => f'[g].state = f[g].state
    BY <2>1
  <2> HIDE DEF J
  <2>6. UseJobs' /\ UseCopies'
    <3>1. \A g \in Held : f'[g].order = f[g].order
      BY <2>1
    <3>2. HeldIn("QUEUED") \in SUBSET HeldIn("QUEUED")
      OBVIOUS
    <3> QED  BY <2>2, <2>3, <2>4, <2>5, <3>1, <3>2, NewJobs
  <2>7. UseCur'
    BY <2>1, <2>3 DEF UseInv, UseCur
  <2> QED  BY <2>6, <2>7 DEF UseInv
<1>9. CASE gpu_copy
  <2> DEFINE c == Head(pqueue)
             n == [i |-> c.i, order |-> c.value, on |-> "gpu", arg |-> None, then |-> "free",
                   pc |-> IF c.e = "slot" THEN "release" ELSE "complete"]
  <2>1. UNCHANGED <<f, renderer, cur>> /\ jobs' = jobs \cup {n} /\ pqueue # <<>> /\ pqueue' = Tail(pqueue)
    BY <1>9 DEF gpu_copy, hvars
  <2>2. /\ Len(pqueue) \in Nat \ {0} /\ c = pqueue[1] /\ Len(pqueue') = Len(pqueue) - 1
        /\ \A k \in 1 .. Len(pqueue') : pqueue'[k] = pqueue[k + 1] /\ k + 1 \in 1 .. Len(pqueue)
        /\ c.e \in {"slot", "held"}
    <3>1. /\ Len(pqueue) \in Nat \ {0} /\ c = pqueue[1] /\ Len(pqueue') = Len(pqueue) - 1
          /\ \A k \in 1 .. Len(pqueue') : pqueue'[k] = pqueue[k + 1]
      BY <1>0, <2>1
    <3>2. c \in Copies
      BY <1>0, <2>1
    <3> QED  BY <3>1, <3>2 DEF Copies, Events
  <2>3. n.i = c.i /\ n.order = c.value /\ (OfHeld(n) <=> c.e = "held")
    BY <2>2 DEF OfHeld
  <2> HIDE DEF n, c
  <2>4. c.e = "held" => /\ c.i \in Held /\ f[c.i].state = "PRESENTING" /\ f[c.i].order = c.value
                        /\ \A j \in jobs : OfHeld(j) => j.i # c.i
    BY <2>2 DEF UseInv, UseCopies
  <2>5. UseJobs'
    <3>1. \A j \in jobs' : OfHeld(j) =>
             j.i \in Held /\ f[j.i].state \in {"PRESENTING", "DROPPING"} /\ f[j.i].order = j.order
      BY <2>1, <2>3, <2>4 DEF UseInv, UseJobs
    <3>2. \A j, k \in jobs' : OfHeld(j) /\ OfHeld(k) /\ j.i = k.i => j = k
      BY <2>1, <2>3, <2>4 DEF UseInv, UseJobs
    <3> QED  BY <2>1, <3>1, <3>2 DEF UseJobs, OfHeld
  <2>6. UseCopies'
    <3>1. ASSUME NEW k \in 1 .. Len(pqueue'), pqueue'[k].e = "held"
          PROVE  /\ pqueue'[k].i \in Held /\ f[pqueue'[k].i].state = "PRESENTING" /\ f[pqueue'[k].i].order = pqueue'[k].value
                 /\ \A j \in jobs' : OfHeld(j) => j.i # pqueue'[k].i
      <4>1. pqueue'[k] = pqueue[k + 1] /\ k + 1 \in 1 .. Len(pqueue) /\ k + 1 # 1
        BY <2>2
      <4>2. c.e = "held" => c.i # pqueue'[k].i
        BY <2>2, <3>1, <4>1 DEF UseInv, UseCopies
      <4> QED  BY <2>1, <2>3, <3>1, <4>1, <4>2 DEF UseInv, UseCopies
    <3>2. \A k, l \in 1 .. Len(pqueue') : pqueue'[k].e = "held" /\ pqueue'[l].e = "held" /\ pqueue'[k].i = pqueue'[l].i => k = l
      <4> SUFFICES ASSUME NEW k \in 1 .. Len(pqueue'), NEW l \in 1 .. Len(pqueue'),
                          pqueue'[k].e = "held", pqueue'[l].e = "held", pqueue'[k].i = pqueue'[l].i
                   PROVE  k = l
        OBVIOUS
      <4>1. k + 1 = l + 1
        BY <2>2 DEF UseInv, UseCopies
      <4> QED  BY <2>2, <4>1
    <3> QED  BY <2>1, <3>1, <3>2 DEF UseCopies, OfHeld
  <2>7. UseCur'
    BY <2>1 DEF UseInv, UseCur
  <2> QED  BY <2>5, <2>6, <2>7 DEF UseInv
<1>10. ASSUME NEW s \in Slots, pqueue' = Append(pqueue, [e |-> "slot", i |-> s, value |-> order[s]]),
              UNCHANGED <<f, jobs, renderer, cur>>
       PROVE  UseInv'
  <2>1. /\ Len(pqueue') = Len(pqueue) + 1 /\ Len(pqueue) \in Nat
        /\ \A k \in 1 .. Len(pqueue) : pqueue'[k] = pqueue[k]
        /\ pqueue'[Len(pqueue) + 1].e = "slot"
    BY <1>0, <1>10
  <2>2. \A k \in 1 .. Len(pqueue') : pqueue'[k].e = "held" => k \in 1 .. Len(pqueue) /\ pqueue'[k] = pqueue[k]
    BY <2>1
  <2> QED  BY <1>10, <2>2 DEF UseInv, UseJobs, UseCopies, UseCur, OfHeld
<1>11. ASSUME NEW j \in jobs, job_release(j) PROVE UseInv'
  BY <1>11 DEF job_release, hvars, gpuvars, UseInv, UseJobs, UseCopies, UseCur, OfHeld
<1>12. CASE UNCHANGED <<f, jobs, pqueue>> /\ (renderer' = "held_begin" => renderer = "held_begin" /\ cur' = cur)
  BY <1>12 DEF UseInv, UseJobs, UseCopies, UseCur, OfHeld
<1>13. CASE presenter_take
  BY <1>10, <1>12, <1>13 DEF presenter_take, hvars
<1>14. CASE held_take
  <2>1. CASE UNCHANGED <<f, pqueue>>
    BY <1>12, <1>14, <2>1 DEF held_take
  <2> QED  BY <1>3, <1>14, <2>1 DEF held_take
<1> QED
  BY <1>1, <1>2, <1>4, <1>5, <1>6, <1>7, <1>8, <1>9, <1>11, <1>12, <1>13, <1>14
  DEF Next, Renderer, InPresent, Presenter, Gpu, JobStep, Watchdog, present_start, acquire_slot, slot_texture_failed,
      present_commit, no_texture, arm_timer, presenter_wake, Commit, cpu_drain, cpu_present, presenter_grant,
      presenter_park, gpu_convert, gpu_fail, present_failed, run_done, GiveUpGpu, fences_given_up, vars, hvars, gpuvars

-----------------------------------------------------------------------------
(* What the GPU has still to write. *)

\* A texture whose conversion is to come is neither freed nor reused.
LEMMA StillToWrite ==
  ASSUME TInv, UseInv, ConvInv, [Next]_vars, ~Hung', ~gpu_convert, ~gpu_fail, ~held_begin,
         NEW h \in Held, NEW v \in 0 .. held_order, ToWrite(h, v)
  PROVE  ToWrite(h, v)'
<1>0. /\ jobs \subseteq JobRecs /\ ev \in [Events -> Nat] /\ failing \subseteq Failures /\ v \in Nat
      /\ pqueue \in Seq(Copies) /\ held_order \in Nat
  BY DEF TInv, JobsInv, GpuInv, FInv
<1>1. f[h].order = v /\ f[h].state \in Written /\ ev["held"] < v
  BY DEF ToWrite
<1>2. f'[h].order = v /\ f'[h].state \in Written
  <2>1. \A j \in jobs : held_free(j) => j.i # h
    BY DEF ToWrite, Past, held_free
  <2>2. ASSUME hold_texture PROVE <1>2
    BY <1>1, <2>2, HoldView DEF Keeps, HeldIn, Written
  <2>3. ASSUME held_timeout PROVE <1>2
    BY <1>1, <2>3, TimeoutView DEF Keeps, Written
  <2>4. ASSUME release_held PROVE <1>2
    BY <1>1, <2>4, ReleaseView DEF Written
  <2>5. ASSUME NEW g \in Held, f' = [f EXCEPT ![g].state = "PRESENTING"] PROVE <1>2
    BY <1>1, <2>5, TakeView DEF Keeps, Written
  <2>6. ASSUME NEW j \in jobs, job_complete(j) PROVE <1>2
    BY <1>1, <2>6, CompleteView
  <2>7. ASSUME NEW j \in jobs, held_free(j) PROVE <1>2
    BY <1>1, <2>1, <2>7, FreeView DEF Keeps
  <2> QED  BY <1>1, <2>2, <2>3, <2>4, <2>5, <2>6, <2>7, HeldStep
<1>3. ev'["held"] < v /\ \A r \in failing' : r.e = "held" => r.value < v
  <2>0. ev["held"] < v /\ \A r \in failing : r.e = "held" => r.value < v
    BY DEF ToWrite
  <2>1. ASSUME NEW r \in failing, present_failed(r) PROVE <1>3
    <3>1. r \in Failures /\ [r EXCEPT !.pc = "write"].e = r.e /\ [r EXCEPT !.pc = "write"].value = r.value
      BY <1>0 DEF Failures
    <3>2. \A q \in failing' : q.e = "held" => q.value < v
      BY <2>0, <2>1, <3>1 DEF present_failed
    <3>3. ev'["held"] < v
      <4>1. CASE r.pc = "write" /\ r.e = "held"
        BY <1>0, <2>0, <2>1, <4>1 DEF present_failed, Events
      <4>2. CASE ~(r.pc = "write" /\ r.e = "held")
        <5>1. ev' = ev \/ (r.e # "held" /\ ev' = [ev EXCEPT ![r.e] = r.value])
          BY <2>1, <4>2 DEF present_failed
        <5> QED  BY <1>0, <2>0, <5>1 DEF Events
      <4> QED  BY <4>1, <4>2
    <3> QED  BY <3>2, <3>3
  <2>2. CASE UNCHANGED <<ev, failing>>
    BY <2>0, <2>2
  <2>3. ~release_held
    BY DEF release_held, Hung
  <2> QED
    BY <2>1, <2>2, <2>3
    DEF Next, Renderer, InPresent, Presenter, Gpu, JobStep, Watchdog, present_start, acquire_slot, slot_texture_failed,
        present_commit, hold_texture, no_texture, arm_timer, presenter_wake, Commit, cpu_drain, cpu_present,
        presenter_grant, presenter_take, held_take, presenter_park, gpu_copy, job_release, job_complete,
        job_done, held_free, listener, held_timeout, run_done, GiveUpGpu, fences_given_up, vars, gpuvars
<1>4. \A j \in jobs' : Past(j) => j.i # h
  <2>0. \A j \in jobs : Past(j) => j.i # h
    BY DEF ToWrite
  <2>a. ASSUME NEW j \in jobs, NEW k, jobs' = (jobs \ {j}) \cup {k}, k.i = j.i, Past(k) => Past(j) PROVE <1>4
    BY <2>0, <2>a
  <2>b. \A j \in jobs : j \in JobRecs /\ j.then \in {"free", "listen"} /\ None \in Int
    BY <1>0 DEF JobRecs, None
  <2>1. CASE hold_texture
    <3>1. PICK D \in SUBSET Held : jobs' = jobs \cup {Job(d, "listen") : d \in D}
      BY <2>1, HoldView
    <3>2. \A d \in Held : ~Past(Job(d, "listen"))
      BY DEF Past, Job
    <3> QED  BY <2>0, <3>1, <3>2
  <2>2. CASE held_timeout
    <3>1. PICK D \in SUBSET Held : jobs' = jobs \cup {[Job(d, "complete") EXCEPT !.then = "listen"] : d \in D}
      BY <2>2, TimeoutView
    <3>2. \A d \in Held : ~Past([Job(d, "complete") EXCEPT !.then = "listen"])
      BY JobRec DEF Past, Starts
    <3> QED  BY <2>0, <3>1, <3>2
  <2>3. ASSUME NEW j \in jobs, job_complete(j) PROVE <1>4
    <3>1. j.i \in Held /\ (jobs' = Step(j, "done", f[j.i].seq, j.then) \/ jobs' = Step(j, j.then, None, j.then)) /\ j.pc = "complete"
      BY <2>3, CompleteView DEF job_complete
    <3>2. f[j.i].seq \in Int
      BY <3>1 DEF TInv, FInv, HeldRecs
    <3>3. \E k \in JobRecs : jobs' = (jobs \ {j}) \cup {k} /\ k.i = j.i /\ (k.pc = "done" \/ k.pc = j.then) /\ k.then = j.then
      <4>1. CASE jobs' = Step(j, "done", f[j.i].seq, j.then)
        BY <2>b, <3>2, <4>1, Stepped
      <4>2. CASE jobs' = Step(j, j.then, None, j.then)
        BY <2>b, <4>2, Stepped
      <4> QED  BY <3>1, <4>1, <4>2
    <3>4. PICK k \in JobRecs : jobs' = (jobs \ {j}) \cup {k} /\ k.i = j.i /\ (k.pc = "done" \/ k.pc = j.then) /\ k.then = j.then
      BY <3>3
    <3>5. Past(k) => Past(j)
      BY <2>b, <3>1, <3>4 DEF Past
    <3> QED  BY <2>a, <3>4, <3>5
  <2>4. ASSUME NEW j \in jobs, job_done(j) PROVE <1>4
    <3>1. jobs' = Step(j, j.then, None, j.then) /\ j.pc = "done"
      BY <2>4 DEF job_done
    <3>2. PICK k \in JobRecs : jobs' = (jobs \ {j}) \cup {k} /\ k.i = j.i /\ k.pc = j.then
      BY <2>b, <3>1, Stepped
    <3>3. Past(k) => Past(j)
      BY <2>b, <3>1, <3>2 DEF Past
    <3> QED  BY <2>a, <3>2, <3>3
  <2>5. ASSUME NEW j \in jobs, listener(j) PROVE <1>4
    <3>1. jobs' = Step(j, "complete", None, "free") /\ j.pc = "listen" /\ ev["held"] >= j.order
      BY <2>5 DEF listener
    <3>2. PICK k \in JobRecs : jobs' = (jobs \ {j}) \cup {k} /\ k.i = j.i
      BY <2>b, <3>1, Stepped
    <3>3. f[j.i].order = j.order
      BY <3>1 DEF UseInv, UseJobs, OfHeld
    <3>4. j.i # h
      BY <1>0, <1>1, <3>1, <3>3 DEF Events
    <3> QED  BY <2>0, <3>2, <3>4
  <2>6. CASE gpu_copy
    <3> DEFINE c == Head(pqueue)
               n == [i |-> c.i, order |-> c.value, on |-> "gpu", arg |-> None, then |-> "free",
                     pc |-> IF c.e = "slot" THEN "release" ELSE "complete"]
    <3>1. jobs' = jobs \cup {n} /\ ev[c.e] >= c.value /\ pqueue # <<>>
      BY <2>6 DEF gpu_copy
    <3>2. c = pqueue[1] /\ 1 \in 1 .. Len(pqueue)
      BY <1>0, <3>1
    <3>3. c \in Copies
      BY <1>0, <3>1
    <3>4. n.i = c.i /\ (Past(n) => c.e = "held")
      BY <3>3 DEF Past, Copies, Events
    <3> HIDE DEF c, n
    <3>5. c.e = "held" => f[c.i].order = c.value
      BY <3>2 DEF UseInv, UseCopies
    <3>6. c.e = "held" => c.i # h
      BY <1>0, <1>1, <3>1, <3>3, <3>5 DEF Copies, Events
    <3> QED  BY <2>0, <3>1, <3>4, <3>6
  <2>7. CASE jobs' \subseteq jobs
    BY <2>0, <2>7
  <2>8. ~release_held
    BY DEF release_held, Hung
  <2> QED
    BY <2>1, <2>2, <2>3, <2>4, <2>5, <2>6, <2>7, <2>8
    DEF Next, Renderer, InPresent, Presenter, Gpu, JobStep, Watchdog, present_start, acquire_slot, slot_texture_failed,
        present_commit, no_texture, held_begin, arm_timer, presenter_wake, Commit, cpu_drain, cpu_present,
        presenter_grant, presenter_take, held_take, presenter_park, present_failed, job_release,
        held_free, run_done, GiveUpGpu, fences_given_up, vars
<1> QED  BY <1>2, <1>3, <1>4 DEF ToWrite, Past

\* What the steps do to the GPU's queue of conversions.
LEMMA QueueStep ==
  ASSUME TInv, [Next]_vars
  PROVE  \/ UNCHANGED <<gpuq, cur>>
         \/ gpuq' = gpuq /\ ~Begun /\ ~Begun'
         \/ gpuq # <<>> /\ gpuq' = Tail(gpuq) /\ UNCHANGED <<renderer, cur, held_order>>
         \/ \E c : /\ gpuq' = Append(gpuq, c) /\ ~Begun' /\ held_order' = held_order
                   /\ c.e = "held" => Begun /\ c.i = cur.i /\ c.value = held_order
<1>1. CASE Commit
  <2>1. PICK e \in {"slot", "held", "none"} :
          /\ renderer = (CASE e = "slot" -> "commit_slot" [] e = "held" -> "commit_held" [] OTHER -> "commit_none")
          /\ gpuq' = Append(gpuq, [e |-> e, i |-> cur.i, seq |-> cur.seq,
                                   value |-> IF e = "held" THEN held_order ELSE next_order])
    BY <1>1 DEF Commit
  <2>2. renderer' = "idle" /\ held_order' = held_order
    BY <1>1 DEF Commit, hvars
  <2> QED  BY <2>1, <2>2 DEF Begun
<1>2. CASE gpu_convert \/ gpu_fail
  BY <1>2 DEF gpu_convert, gpu_fail, hvars
<1>3. CASE present_start \/ acquire_slot \/ hold_texture
  BY <1>3 DEF present_start, acquire_slot, hold_texture, gpuvars, Begun
<1> QED
  BY <1>1, <1>2, <1>3
  DEF Next, Renderer, InPresent, Presenter, Gpu, JobStep, Watchdog, slot_texture_failed,
      present_commit, no_texture, held_begin, arm_timer, presenter_wake, cpu_drain, cpu_present, presenter_grant,
      presenter_take, held_take, presenter_park, present_failed, gpu_copy, job_release, job_complete, job_done, held_free,
      listener, held_timeout, run_done, GiveUpGpu, release_held, fences_given_up, vars, gpuvars

\* The conversions queued are records of the right shape.
LEMMA QueueTypes ==
  ASSUME TInv
  PROVE  gpuq \in Seq(Conversions) /\ \A k \in 1 .. Len(gpuq) : gpuq[k].value \in Nat
<1>1. gpuq \in Seq(Conversions)
  BY DEF TInv, GpuInv
<1>2. \A k \in 1 .. Len(gpuq) : gpuq[k] \in Conversions
  BY <1>1
<1> QED  BY <1>1, <1>2 DEF Conversions

\* The order of held frames never goes back.
LEMMA OrderGrows ==
  ASSUME TInv, [Next]_vars
  PROVE  /\ held_order \in Nat
         /\ held_begin => held_order' = held_order + 1
         /\ ~held_begin => held_order' = held_order
<1>1. held_order \in Nat
  BY DEF TInv, FInv
<1>2. ASSUME held_begin PROVE held_order' = held_order + 1
  BY <1>2 DEF held_begin
<1>3. ASSUME ~held_begin PROVE held_order' = held_order
  BY <1>3 DEF Next, Renderer, InPresent, Presenter, Gpu, JobStep, Watchdog, present_start, acquire_slot,
      slot_texture_failed, present_commit, hold_texture, no_texture, arm_timer, presenter_wake, Commit,
      cpu_drain, cpu_present, presenter_grant, presenter_take, held_take, presenter_park, gpu_convert, gpu_fail,
      present_failed, gpu_copy, job_release, job_complete, job_done, held_free, listener, held_timeout,
      run_done, GiveUpGpu, release_held, fences_given_up, vars, hvars
<1> QED  BY <1>1, <1>2, <1>3

\* A frame that is begun stays with the renderer until it is committed.
LEMMA BegunStep ==
  ASSUME TInv, [Next]_vars, Begun', ~held_begin
  PROVE  Begun /\ cur' = cur
<1> QED
  BY DEF Begun, Next, Renderer, InPresent, Presenter, Gpu, JobStep, Watchdog, present_start, acquire_slot,
      slot_texture_failed, present_commit, hold_texture, no_texture, arm_timer, presenter_wake, Commit,
      cpu_drain, cpu_present, presenter_grant, presenter_take, held_take, presenter_park, gpu_convert, gpu_fail,
      present_failed, gpu_copy, job_release, job_complete, job_done, held_free, listener, held_timeout,
      run_done, GiveUpGpu, release_held, fences_given_up, vars

\* No value of the held event exceeds the newest order.
LEMMA BoundStep ==
  ASSUME TInv, UseInv, ConvInv, [Next]_vars
  PROVE  Bounded'
<1>0. /\ ev \in [Events -> Nat] /\ gpuq \in Seq(Conversions) /\ failing \subseteq Failures
      /\ held_order \in Nat /\ next_order \in Nat
  BY DEF TInv, GpuInv, FInv, QInv, QTypeOK
<1>b. /\ \A r \in failing : r.e = "held" => r.value <= held_order
      /\ \A k \in 1 .. Len(gpuq) : gpuq[k].e = "held" => gpuq[k].i \in Held /\ gpuq[k].value <= held_order
      /\ ev["held"] <= held_order
      /\ Begun => cur.i \in Held
  BY DEF ConvInv, Bounded
<1>c. ASSUME gpuq # <<>> PROVE /\ Head(gpuq) \in Conversions
                               /\ Head(gpuq).e = "held" => Head(gpuq).value <= held_order
                               /\ Head(gpuq).value \in Nat
  <2>1. Head(gpuq) = gpuq[1] /\ 1 \in 1 .. Len(gpuq) /\ Head(gpuq) \in Conversions
    BY <1>0, <1>c
  <2> QED  BY <1>b, <2>1 DEF Conversions
<1>d. held_order' >= held_order /\ held_order' \in Nat
  BY OrderGrows
<1>v. \A r \in failing : r.value \in Nat
  BY <1>0 DEF Failures
<1>1. \A r \in failing' : r.e = "held" => r.value <= held_order'
  <2>1. ASSUME NEW r \in failing, present_failed(r) PROVE <1>1
    <3>1. r \in Failures /\ [r EXCEPT !.pc = "write"].e = r.e /\ [r EXCEPT !.pc = "write"].value = r.value
      BY <1>0 DEF Failures
    <3>2. held_order' = held_order
      BY <2>1 DEF present_failed, hvars
    <3> QED  BY <1>b, <2>1, <3>1, <3>2 DEF present_failed
  <2>2. CASE gpu_fail
    <3>1. gpuq # <<>> /\ held_order' = held_order
      BY <2>2 DEF gpu_fail, hvars
    <3>2. failing' = failing \cup {[e |-> e, value |-> Head(gpuq).value, pc |-> "check"] : e \in {Head(gpuq).e} \cap Events}
      BY <2>2 DEF gpu_fail
    <3> QED  BY <1>b, <1>c, <3>1, <3>2
  <2>3. CASE failing' = failing
    BY <1>0, <1>b, <1>d, <1>v, <2>3
  <2> QED
    BY <2>1, <2>2, <2>3
    DEF Next, Renderer, InPresent, Presenter, Gpu, JobStep, Watchdog, present_start, acquire_slot, slot_texture_failed,
      present_commit, hold_texture, no_texture, held_begin, arm_timer, presenter_wake, Commit, cpu_drain, cpu_present,
      presenter_grant, presenter_take, held_take, presenter_park, gpu_convert, gpu_copy, job_release, job_complete,
      job_done, held_free, listener, held_timeout, run_done, GiveUpGpu, release_held, fences_given_up, vars, gpuvars
<1>2. \A k \in 1 .. Len(gpuq') : gpuq'[k].e = "held" => gpuq'[k].i \in Held /\ gpuq'[k].value <= held_order'
  <2>0. \A k \in 1 .. Len(gpuq) : gpuq[k].value \in Nat
    BY QueueTypes
  <2>1. CASE gpuq' = gpuq
    BY <1>0, <1>b, <1>d, <2>0, <2>1
  <2>2. CASE gpuq # <<>> /\ gpuq' = Tail(gpuq) /\ held_order' = held_order
    <3>1. \A k \in 1 .. Len(gpuq') : gpuq'[k] = gpuq[k + 1] /\ k + 1 \in 1 .. Len(gpuq)
      BY <1>0, <2>2
    <3> QED  BY <1>b, <2>2, <3>1
  <2>3. ASSUME NEW c, gpuq' = Append(gpuq, c), held_order' = held_order,
               c.e = "held" => Begun /\ c.i = cur.i /\ c.value = held_order
        PROVE  <1>2
    <3>1. \A k \in 1 .. Len(gpuq') : gpuq'[k] = c \/ (k \in 1 .. Len(gpuq) /\ gpuq'[k] = gpuq[k])
      BY <1>0, <2>3
    <3> QED  BY <1>0, <1>b, <2>3, <3>1
  <2> QED  BY <2>1, <2>2, <2>3, QueueStep
<1>3. ev'["held"] <= held_order'
  <2>0. ev["held"] \in Nat
    BY <1>0 DEF Events
  <2>1. CASE gpu_convert
    <3>1. gpuq # <<>> /\ held_order' = held_order
      BY <2>1 DEF gpu_convert, hvars
    <3>2. ev' = ev \/ (ev' = [ev EXCEPT ![Head(gpuq).e] = Head(gpuq).value] /\ Head(gpuq).e \in Events)
      BY <2>1 DEF gpu_convert
    <3>3. "held" \in Events
      BY DEF Events
    <3>4. Head(gpuq).e = "held" => Head(gpuq).value <= held_order
      BY <1>c, <3>1
    <3>5. CASE ev' = ev
      BY <1>b, <3>1, <3>5
    <3>6. CASE ev' = [ev EXCEPT ![Head(gpuq).e] = Head(gpuq).value] /\ Head(gpuq).e \in Events
      BY <1>0, <1>b, <3>1, <3>3, <3>4, <3>6
    <3> QED  BY <3>2, <3>5, <3>6
  <2>2. ASSUME NEW r \in failing, present_failed(r) PROVE <1>3
    <3>1. held_order' = held_order /\ (ev' = ev \/ ev' = [ev EXCEPT ![r.e] = r.value])
      BY <2>2 DEF present_failed, hvars
    <3>2. "held" \in Events /\ (r.e = "held" => r.value <= held_order)
      BY <1>b, <2>2 DEF Events
    <3>3. CASE ev' = ev
      BY <1>b, <3>1, <3>3
    <3>4. CASE ev' = [ev EXCEPT ![r.e] = r.value]
      BY <1>0, <1>b, <3>1, <3>2, <3>4
    <3> QED  BY <3>1, <3>3, <3>4
  <2>3. CASE release_held
    <3>1. held_order' = held_order /\ "held" \in Events
          /\ ev' = [e \in Events |-> IF ev[e] < Newest(e) THEN Newest(e) ELSE ev[e]]
      BY <2>3 DEF release_held, Events
    <3>2. ev'["held"] = IF ev["held"] < held_order THEN held_order ELSE ev["held"]
      BY <3>1 DEF Newest
    <3> QED  BY <1>0, <1>b, <2>0, <3>1, <3>2
  <2>4. CASE ev' = ev
    BY <1>0, <1>b, <1>d, <2>0, <2>4
  <2> QED
    BY <2>1, <2>2, <2>3, <2>4
    DEF Next, Renderer, InPresent, Presenter, Gpu, JobStep, Watchdog, present_start, acquire_slot, slot_texture_failed,
      present_commit, hold_texture, no_texture, held_begin, arm_timer, presenter_wake, Commit, cpu_drain, cpu_present,
      presenter_grant, presenter_take, held_take, presenter_park, gpu_fail, gpu_copy, job_release, job_complete,
      job_done, held_free, listener, held_timeout, run_done, GiveUpGpu, fences_given_up, vars, gpuvars
<1>4. Begun' => cur'.i \in Held
  <2>1. CASE held_begin
    BY <2>1 DEF held_begin, UseInv, UseCur
  <2> QED  BY <1>b, <2>1, BegunStep
<1> QED  BY <1>1, <1>2, <1>3, <1>4 DEF Bounded, Begun

\* Conversions of held frames are queued in the order of their values.
LEMMA IncreaseStep ==
  ASSUME TInv, UseInv, ConvInv, Increasing, [Next]_vars
  PROVE  Increasing'
<1>0. gpuq \in Seq(Conversions) /\ held_order \in Nat /\ \A k \in 1 .. Len(gpuq) : gpuq[k].value \in Nat
  BY QueueTypes DEF TInv, FInv
<1>b. \A k \in 1 .. Len(gpuq) : gpuq[k].e = "held" => gpuq[k].value <= held_order
  BY DEF ConvInv, Bounded
<1>i. /\ \A k, l \in 1 .. Len(gpuq) : k < l /\ gpuq[k].e = "held" /\ gpuq[l].e = "held" => gpuq[k].value < gpuq[l].value
      /\ Begun => \A k \in 1 .. Len(gpuq) : gpuq[k].e = "held" => gpuq[k].value < held_order
  BY DEF Increasing
<1>1. CASE held_begin
  <2>1. gpuq' = gpuq /\ held_order' = held_order + 1
    BY <1>1 DEF held_begin, gpuvars
  <2> QED  BY <1>0, <1>b, <1>i, <2>1 DEF Increasing
<1>2. CASE ~held_begin
  <2>0. held_order' = held_order /\ (Begun' => Begun)
    BY <1>2, OrderGrows, BegunStep
  <2>1. CASE gpuq' = gpuq
    BY <1>i, <2>0, <2>1 DEF Increasing
  <2>2. CASE gpuq # <<>> /\ gpuq' = Tail(gpuq)
    <3>1. \A k \in 1 .. Len(gpuq') : gpuq'[k] = gpuq[k + 1] /\ k + 1 \in 1 .. Len(gpuq)
      BY <1>0, <2>2
    <3>2. \A k, l \in 1 .. Len(gpuq') : k < l => k + 1 < l + 1
      BY <1>0, <2>2
    <3>3. \A k, l \in 1 .. Len(gpuq') : k < l /\ gpuq'[k].e = "held" /\ gpuq'[l].e = "held" => gpuq'[k].value < gpuq'[l].value
      BY <1>i, <3>1, <3>2
    <3>4. Begun' => \A k \in 1 .. Len(gpuq') : gpuq'[k].e = "held" => gpuq'[k].value < held_order'
      BY <1>i, <2>0, <3>1
    <3> QED  BY <3>3, <3>4 DEF Increasing, Begun
  <2>3. ASSUME NEW c, gpuq' = Append(gpuq, c), ~Begun', c.e = "held" => Begun /\ c.value = held_order
        PROVE  Increasing'
    <3>1. /\ Len(gpuq') = Len(gpuq) + 1 /\ Len(gpuq) \in Nat /\ gpuq'[Len(gpuq) + 1] = c
          /\ \A k \in 1 .. Len(gpuq) : gpuq'[k] = gpuq[k]
      BY <1>0, <2>3
    <3>2. ASSUME NEW k \in 1 .. Len(gpuq'), NEW l \in 1 .. Len(gpuq'), k < l, gpuq'[k].e = "held", gpuq'[l].e = "held"
          PROVE  gpuq'[k].value < gpuq'[l].value
      <4>1. k \in 1 .. Len(gpuq) /\ gpuq'[k] = gpuq[k]
        BY <3>1, <3>2
      <4>2. CASE l = Len(gpuq) + 1
        BY <1>i, <2>3, <3>1, <3>2, <4>1, <4>2
      <4>3. CASE l \in 1 .. Len(gpuq)
        BY <1>i, <3>1, <3>2, <4>1, <4>3
      <4> QED  BY <3>1, <4>2, <4>3
    <3> QED  BY <2>3, <3>2 DEF Increasing, Begun
  <2> QED  BY <2>1, <2>2, <2>3, QueueStep
<1> QED  BY <1>1, <1>2

\* What the GPU has still to write.
LEMMA ConvStep ==
  ASSUME TInv, UseInv, ConvInv, [Next]_vars
  PROVE  ConvInv'
<1>1. Bounded'
  BY BoundStep
<1>2. ASSUME ~Hung' PROVE ~Hung
  BY <1>2 DEF Hung, Next, Renderer, InPresent, Presenter, Gpu, JobStep, Watchdog, present_start, acquire_slot,
      slot_texture_failed, present_commit, hold_texture, no_texture, held_begin, arm_timer, presenter_wake, Commit,
      cpu_drain, cpu_present, presenter_grant, presenter_take, held_take, presenter_park, gpu_convert, gpu_fail,
      present_failed, gpu_copy, job_release, job_complete, job_done, held_free, listener, held_timeout,
      run_done, GiveUpGpu, release_held, fences_given_up, vars
<1>3. SUFFICES ASSUME ~Hung', NEW h \in Held, NEW v \in 0 .. held_order', Coming(h, v)' PROVE ToWrite(h, v)'
  BY <1>1, <1>2, IncreaseStep DEF ConvInv, Hung
<1>4. Increasing /\ \A g \in Held, w \in 0 .. held_order : Coming(g, w) => ToWrite(g, w)
  BY <1>2, <1>3 DEF ConvInv
<1>0. /\ gpuq \in Seq(Conversions) /\ held_order \in Nat /\ jobs \subseteq JobRecs /\ ev \in [Events -> Nat]
      /\ failing \subseteq Failures /\ \A k \in 1 .. Len(gpuq) : gpuq[k].value \in Nat
  BY QueueTypes DEF TInv, FInv, GpuInv, JobsInv
<1>c. ASSUME gpuq # <<>>, gpuq' = Tail(gpuq), UNCHANGED <<renderer, cur, held_order>>
      PROVE  /\ ToWrite(h, v) /\ v \in 0 .. held_order
             /\ Head(gpuq) \in Conversions /\ (Head(gpuq).e = "held" => Head(gpuq).value < v)
  <2>1. /\ Head(gpuq) = gpuq[1] /\ 1 \in 1 .. Len(gpuq) /\ Head(gpuq) \in Conversions
        /\ \A k \in 1 .. Len(gpuq') : gpuq'[k] = gpuq[k + 1] /\ k + 1 \in 1 .. Len(gpuq) /\ 1 < k + 1
    BY <1>0, <1>c
  <2>2. CASE \E k \in 1 .. Len(gpuq') : gpuq'[k].e = "held" /\ gpuq'[k].i = h /\ gpuq'[k].value = v
    <3>1. PICK k \in 1 .. Len(gpuq') : gpuq'[k].e = "held" /\ gpuq'[k].i = h /\ gpuq'[k].value = v
      BY <2>2
    <3>2. Coming(h, v)
      BY <2>1, <3>1 DEF Coming
    <3>3. Head(gpuq).e = "held" => Head(gpuq).value < v
      BY <1>4, <2>1, <3>1 DEF Increasing
    <3> QED  BY <1>4, <1>c, <2>1, <3>2, <3>3
  <2>3. CASE Begun /\ cur.i = h /\ held_order = v
    <3>1. Coming(h, v)
      BY <2>3 DEF Coming
    <3>2. Head(gpuq).e = "held" => Head(gpuq).value < v
      BY <1>4, <2>1, <2>3 DEF Increasing
    <3> QED  BY <1>4, <1>c, <2>1, <3>1, <3>2
  <2> QED  BY <1>3, <1>c, <2>2, <2>3 DEF Coming, Begun
<1>5. CASE gpu_convert
  <2>1. gpuq # <<>> /\ gpuq' = Tail(gpuq) /\ UNCHANGED <<renderer, cur, held_order, f, jobs, failing>>
    BY <1>5 DEF gpu_convert, hvars
  <2>2. ToWrite(h, v) /\ Head(gpuq) \in Conversions /\ (Head(gpuq).e = "held" => Head(gpuq).value < v)
    BY <1>c, <2>1
  <2>3. ev' = ev \/ (ev' = [ev EXCEPT ![Head(gpuq).e] = Head(gpuq).value] /\ Head(gpuq).e \in Events)
    BY <1>5 DEF gpu_convert
  <2>4. ev'["held"] < v
    BY <1>0, <2>2, <2>3 DEF ToWrite, Events
  <2> QED  BY <2>1, <2>2, <2>4 DEF ToWrite, Past
<1>6. CASE gpu_fail
  <2>1. gpuq # <<>> /\ gpuq' = Tail(gpuq) /\ UNCHANGED <<renderer, cur, held_order, f, jobs, ev>>
    BY <1>6 DEF gpu_fail, hvars
  <2>2. ToWrite(h, v) /\ Head(gpuq) \in Conversions /\ (Head(gpuq).e = "held" => Head(gpuq).value < v)
    BY <1>c, <2>1
  <2>3. failing' = failing \cup {[e |-> e, value |-> Head(gpuq).value, pc |-> "check"] : e \in {Head(gpuq).e} \cap Events}
    BY <1>6 DEF gpu_fail
  <2>4. \A r \in failing' : r.e = "held" => r.value < v
    BY <2>2, <2>3 DEF ToWrite
  <2> QED  BY <2>1, <2>2, <2>4 DEF ToWrite, Past
<1>7. CASE held_begin
  <2>1. /\ f' \in [Held -> HeldRecs] /\ cur.i \in Held
        /\ f'[cur.i].state = "QUEUED" /\ f'[cur.i].order = held_order + 1
        /\ \A g \in Held : g # cur.i => f'[g] = f[g]
    BY <1>7, BeginView
  <2>2. UNCHANGED <<gpuq, jobs, ev, failing, cur>> /\ held_order' = held_order + 1 /\ f[cur.i].state = "RENDERING"
    BY <1>7 DEF held_begin, gpuvars, UseInv, UseCur
  <2>3. CASE \E k \in 1 .. Len(gpuq) : gpuq[k].e = "held" /\ gpuq[k].i = h /\ gpuq[k].value = v
    <3>1. Coming(h, v)
      BY <2>3 DEF Coming
    <3>2. v \in 0 .. held_order
      BY <1>0, <2>3 DEF ConvInv, Bounded
    <3>3. ToWrite(h, v)
      BY <1>4, <3>1, <3>2
    <3>4. h # cur.i
      BY <2>2, <3>3 DEF ToWrite, Written
    <3> QED  BY <2>1, <2>2, <3>3, <3>4 DEF ToWrite, Past
  <2>4. CASE cur.i = h /\ held_order + 1 = v
    <3>1. f'[h].order = v /\ f'[h].state \in Written
      BY <2>1, <2>4 DEF Written
    <3>2. ev["held"] < v /\ \A r \in failing : r.e = "held" => r.value < v
      <4>1. ev["held"] \in Nat /\ \A r \in failing : r.value \in Nat
        BY <1>0 DEF Events, Failures
      <4> QED  BY <1>0, <2>4, <4>1 DEF ConvInv, Bounded
    <3>3. \A j \in jobs : Past(j) => j.i # h
      BY <2>2, <2>4 DEF Past, UseInv, UseJobs, OfHeld
    <3> QED  BY <2>2, <3>1, <3>2, <3>3 DEF ToWrite, Past
  <2> QED  BY <1>3, <2>2, <2>3, <2>4 DEF Coming
<1>8. CASE ~gpu_convert /\ ~gpu_fail /\ ~held_begin
  <2>1. held_order' = held_order
    BY <1>8, OrderGrows
  <2>2. Begun' => Begun /\ cur' = cur
    BY <1>8, BegunStep
  <2>3. Coming(h, v)
    <3>1. CASE gpuq' = gpuq
      BY <1>3, <2>1, <2>2, <3>1 DEF Coming
    <3>2. ASSUME NEW c, gpuq' = Append(gpuq, c), ~Begun', c.e = "held" => Begun /\ c.i = cur.i /\ c.value = held_order
          PROVE  Coming(h, v)
      <4>1. \A k \in 1 .. Len(gpuq') : gpuq'[k] = c \/ (k \in 1 .. Len(gpuq) /\ gpuq'[k] = gpuq[k])
        BY <1>0, <3>2
      <4>2. PICK k \in 1 .. Len(gpuq') : gpuq'[k].e = "held" /\ gpuq'[k].i = h /\ gpuq'[k].value = v
        BY <1>3, <3>2 DEF Coming, Begun
      <4> QED  BY <3>2, <4>1, <4>2 DEF Coming
    <3>3. CASE gpuq # <<>> /\ gpuq' = Tail(gpuq) /\ UNCHANGED <<renderer, cur, held_order>>
      <4>1. \A k \in 1 .. Len(gpuq') : gpuq'[k] = gpuq[k + 1] /\ k + 1 \in 1 .. Len(gpuq)
        BY <1>0, <3>3
      <4> QED  BY <1>3, <3>3, <4>1 DEF Coming, Begun
    <3> QED  BY <3>1, <3>2, <3>3, QueueStep
  <2>4. ToWrite(h, v) /\ v \in 0 .. held_order
    BY <1>4, <2>1, <2>3
  <2> QED  BY <1>3, <1>8, <2>4, StillToWrite
<1> QED  BY <1>5, <1>6, <1>7, <1>8

-----------------------------------------------------------------------------
(* Queued frames against the screen. *)

\* Nothing new is queued and the renderer keeps its flip.
LEMMA OrderKept ==
  ASSUME OrderInv, UNCHANGED <<screen, flip_next, next_order>>, held_order' = held_order,
         \A s \in Slots : state'[s] = "QUEUED" => state[s] = "QUEUED" /\ slot_seq'[s] = slot_seq[s] /\ order'[s] = order[s],
         \A h \in Held : f'[h].state = "QUEUED" =>
            f[h].state = "QUEUED" /\ f'[h].seq = f[h].seq /\ f'[h].order = f[h].order,
         renderer' \in InCur => renderer \in InCur /\ cur'.seq = cur.seq,
         renderer' \in {"acquire", "copy", "slot", "slot_copy"} => \A h \in Held : f[h].state # "QUEUED"
  PROVE  OrderInv'
<1>1. SlotOrder'
  BY DEF OrderInv, SlotOrder
<1>2. HeldOrder'
  BY DEF OrderInv, HeldOrder
<1>3. CurOrder'
  BY DEF OrderInv, CurOrder, InCur
<1> QED  BY <1>1, <1>2, <1>3 DEF OrderInv

\* Queued frames are newer than the screen, in the order of their flips.
LEMMA OrderStep ==
  ASSUME TInv, UseInv, LentInv, OrderInv, [Next]_vars
  PROVE  OrderInv'
<1>0. /\ screen \in Int /\ flip_next \in Nat /\ next_order \in Nat /\ held_order \in Nat /\ state \in [Slots -> States]
      /\ slot_seq \in [Slots -> Int] /\ order \in [Slots -> Nat]
      /\ cur \in [seq : Int, behind : BOOLEAN, i : Int]
      /\ \A h \in Held : f[h].order \in Nat /\ f[h].seq \in Int
  <2>1. \A h \in Held : f[h].order \in Nat /\ f[h].seq \in Int
    BY DEF TInv, FInv, HeldRecs
  <2> QED  BY <2>1, MaxFlipsAssumption DEF TInv, QInv, QTypeOK, FInv, CurInv
<1>o. screen < flip_next
  BY DEF OrderInv
<1>h. ASSUME ~held_begin
      PROVE  /\ held_order' = held_order
             /\ \A h \in Held : f'[h].state = "QUEUED" =>
                  f[h].state = "QUEUED" /\ f'[h].seq = f[h].seq /\ f'[h].order = f[h].order
  BY <1>h, Queued, OrderGrows
<1>1. CASE present_start
  <2>1. /\ UNCHANGED <<qvars, slot_seq, f, held_order, screen>> /\ flip_next' = flip_next + 1
        /\ cur' = [seq |-> flip_next, behind |-> FramesHeld, i |-> None]
        /\ renderer' = IF FramesHeld THEN "hold" ELSE "acquire"
    BY <1>1 DEF present_start, hvars
  <2>2. SlotOrder' /\ HeldOrder'
    BY <1>0, <2>1 DEF OrderInv, SlotOrder, HeldOrder, qvars
  <2>3. CurOrder'
    <3>1. cur'.seq = flip_next
      BY <2>1
    <3>2. renderer' = "acquire" => \A h \in Held : f'[h].state # "QUEUED"
      BY <2>1 DEF FramesHeld, HeldIn
    <3>3. \A s \in Slots : state'[s] = "QUEUED" => slot_seq'[s] < flip_next
      BY <2>1 DEF OrderInv, SlotOrder, qvars
    <3>4. \A h \in Held : f'[h].state = "QUEUED" => f'[h].seq < flip_next
      BY <2>1 DEF OrderInv, HeldOrder
    <3>5. cur'.seq = flip_next' - 1 /\ screen' < cur'.seq /\ renderer' \in {"hold", "acquire"}
      BY <1>0, <1>o, <2>1, <3>1
    <3> QED  BY <3>1, <3>2, <3>3, <3>4, <3>5 DEF CurOrder, InCur
  <2> QED  BY <1>0, <1>o, <2>1, <2>2, <2>3 DEF OrderInv
<1>2. CASE acquire_slot
  <2>1. /\ UNCHANGED <<slot_seq, screen, flip_next>> /\ ~held_begin /\ renderer \in {"acquire", "copy"}
        /\ renderer' \in {"slot", "slot_copy", "hold", "commit_none"}
    BY <1>2 DEF acquire_slot, flipvars, held_begin
  <2>2. \A h \in Held : f[h].state # "QUEUED"
    BY <2>1 DEF OrderInv, CurOrder
  <2>3. cur'.seq = cur.seq /\ next_order' = next_order
        /\ \A s \in Slots : state'[s] = "QUEUED" => state[s] = "QUEUED" /\ order'[s] = order[s]
    <3>1. ASSUME NEW s \in Slots, try_acquire_locked(s), cur' = [cur EXCEPT !.i = s] PROVE <2>3
      BY <1>0, <3>1 DEF try_acquire_locked
    <3>2. CASE UNCHANGED <<qvars, cur>>
      BY <3>2 DEF qvars
    <3> QED  BY <1>2, <3>1, <3>2 DEF acquire_slot
  <2> QED  BY <1>h, <2>1, <2>2, <2>3, OrderKept DEF InCur
<1>3. CASE slot_texture_failed
  <2>1. /\ UNCHANGED <<slot_seq, screen, flip_next, cur>> /\ ~held_begin /\ renderer \in {"slot", "slot_copy"}
        /\ renderer' \in {"hold", "commit_none"} /\ cancel_locked(cur.i)
    BY <1>3 DEF slot_texture_failed, flipvars, held_begin
  <2>2. next_order' = next_order /\ \A s \in Slots : state'[s] = "QUEUED" => state[s] = "QUEUED" /\ order'[s] = order[s]
    BY <1>0, <2>1 DEF cancel_locked
  <2> QED  BY <1>h, <2>1, <2>2, OrderKept DEF InCur
<1>4. CASE present_commit
  <2>1. /\ UNCHANGED <<f, held_order, screen, flip_next, cur>> /\ renderer \in {"slot", "slot_copy"} /\ renderer' = "commit_slot"
        /\ slot_seq' = [slot_seq EXCEPT ![cur.i] = cur.seq] /\ \E k \in BOOLEAN : submit_locked(cur.i, k)
    BY <1>4 DEF present_commit, flipvars, hvars
  <2>2. cur.i \in Slots
    BY <2>1 DEF LentInv
  <2>3. /\ state' = [state EXCEPT ![cur.i] = "QUEUED"] /\ next_order' = next_order + 1
        /\ order' = [order EXCEPT ![cur.i] = next_order + 1]
    BY <2>1 DEF submit_locked
  <2>4. /\ cur.seq = flip_next - 1 /\ screen < cur.seq /\ cur.seq \in Int
        /\ \A s \in Slots : state[s] = "QUEUED" => slot_seq[s] < cur.seq
        /\ \A h \in Held : f[h].state # "QUEUED"
    BY <1>0, <2>1 DEF OrderInv, CurOrder, InCur
  <2>5. \A s \in Slots : /\ state'[s] = IF s = cur.i THEN "QUEUED" ELSE state[s]
                         /\ order'[s] = IF s = cur.i THEN next_order + 1 ELSE order[s]
                         /\ slot_seq'[s] = IF s = cur.i THEN cur.seq ELSE slot_seq[s]
    BY <1>0, <2>1, <2>3
  <2>6. \A s \in Slots : order[s] \in Nat /\ slot_seq[s] \in Int
    BY <1>0
  <2>7. /\ \A s \in Slots : state[s] = "QUEUED" => screen < slot_seq[s] /\ slot_seq[s] < flip_next /\ order[s] <= next_order
        /\ \A r, s \in Slots : state[r] = "QUEUED" /\ state[s] = "QUEUED" =>
             (order[r] = order[s] => r = s) /\ (order[r] < order[s] => slot_seq[r] < slot_seq[s])
    BY DEF OrderInv, SlotOrder
  <2>8. ASSUME NEW s \in Slots, state'[s] = "QUEUED"
        PROVE  screen' < slot_seq'[s] /\ slot_seq'[s] < flip_next' /\ order'[s] <= next_order'
    BY <1>0, <2>1, <2>3, <2>4, <2>5, <2>6, <2>7, <2>8
  <2>9. ASSUME NEW r \in Slots, NEW s \in Slots, state'[r] = "QUEUED", state'[s] = "QUEUED"
        PROVE  (order'[r] = order'[s] => r = s) /\ (order'[r] < order'[s] => slot_seq'[r] < slot_seq'[s])
    <3>1. CASE r = cur.i /\ s = cur.i
      BY <1>0, <2>4, <2>5, <3>1
    <3>2. CASE r = cur.i /\ s # cur.i
      BY <1>0, <2>5, <2>6, <2>7, <2>9, <3>2
    <3>3. CASE r # cur.i /\ s = cur.i
      BY <1>0, <2>4, <2>5, <2>6, <2>7, <2>9, <3>3
    <3>4. CASE r # cur.i /\ s # cur.i
      BY <2>5, <2>7, <2>9, <3>4
    <3> QED  BY <3>1, <3>2, <3>3, <3>4
  <2>10. SlotOrder'
    BY <2>8, <2>9 DEF SlotOrder
  <2>11. HeldOrder' /\ CurOrder'
    BY <2>1, <2>4 DEF HeldOrder, CurOrder, InCur
  <2> QED  BY <1>o, <2>1, <2>10, <2>11 DEF OrderInv
<1>5. CASE held_begin
  <2>1. /\ cur.i \in Held /\ f'[cur.i].state = "QUEUED" /\ f'[cur.i].order = held_order + 1 /\ f'[cur.i].seq = cur.seq
        /\ \A g \in Held : g # cur.i => f'[g] = f[g]
    BY <1>5, BeginView
  <2>2. /\ UNCHANGED <<qvars, slot_seq, screen, flip_next>> /\ renderer = "held_begin" /\ renderer' \in {"wake", "arm"}
        /\ held_order' = held_order + 1
    BY <1>5 DEF held_begin, flipvars
  <2>3. /\ cur.seq = flip_next - 1 /\ screen < cur.seq /\ cur.seq \in Int
        /\ \A s \in Slots : state[s] = "QUEUED" => slot_seq[s] < cur.seq
        /\ \A h \in Held : f[h].state = "QUEUED" => f[h].seq < cur.seq
    BY <1>0, <2>2 DEF OrderInv, CurOrder, InCur
  <2>4. /\ \A h \in Held : f[h].state = "QUEUED" => screen < f[h].seq /\ f[h].seq < flip_next /\ f[h].order <= held_order
        /\ \A g, h \in Held : f[g].state = "QUEUED" /\ f[h].state = "QUEUED" =>
             (f[g].order = f[h].order => g = h) /\ (f[g].order < f[h].order => f[g].seq < f[h].seq)
        /\ \A s \in Slots, h \in Held : state[s] = "QUEUED" /\ f[h].state = "QUEUED" => slot_seq[s] < f[h].seq
    BY DEF OrderInv, HeldOrder
  <2>5. ASSUME NEW h \in Held, f'[h].state = "QUEUED"
        PROVE  screen' < f'[h].seq /\ f'[h].seq < flip_next' /\ f'[h].order <= held_order'
    BY <1>0, <2>1, <2>2, <2>3, <2>4, <2>5
  <2>6. ASSUME NEW g \in Held, NEW h \in Held, f'[g].state = "QUEUED", f'[h].state = "QUEUED"
        PROVE  (f'[g].order = f'[h].order => g = h) /\ (f'[g].order < f'[h].order => f'[g].seq < f'[h].seq)
    <3>1. CASE g = cur.i /\ h = cur.i
      BY <1>0, <2>1, <3>1
    <3>2. CASE g = cur.i /\ h # cur.i
      BY <1>0, <2>1, <2>4, <2>6, <3>2
    <3>3. CASE g # cur.i /\ h = cur.i
      BY <1>0, <2>1, <2>3, <2>4, <2>6, <3>3
    <3>4. CASE g # cur.i /\ h # cur.i
      BY <2>1, <2>4, <2>6, <3>4
    <3> QED  BY <3>1, <3>2, <3>3, <3>4
  <2>7. ASSUME NEW s \in Slots, NEW h \in Held, state'[s] = "QUEUED", f'[h].state = "QUEUED"
        PROVE  slot_seq'[s] < f'[h].seq
    BY <2>1, <2>2, <2>3, <2>4, <2>7 DEF qvars
  <2>8. HeldOrder'
    BY <2>5, <2>6, <2>7 DEF HeldOrder
  <2>9. SlotOrder' /\ CurOrder'
    BY <2>2 DEF OrderInv, SlotOrder, CurOrder, InCur, qvars
  <2> QED  BY <1>o, <2>2, <2>8, <2>9 DEF OrderInv
<1>6. CASE cpu_present
  <2>1. /\ UNCHANGED <<qvars, slot_seq, f, held_order, screen>> /\ flip_next' = flip_next + 1 /\ renderer' = "idle"
    BY <1>6 DEF cpu_present, hvars
  <2>2. SlotOrder'
    BY <1>0, <2>1 DEF OrderInv, SlotOrder, qvars
  <2>3. HeldOrder'
    BY <1>0, <2>1 DEF OrderInv, HeldOrder, qvars
  <2>4. CurOrder'
    BY <2>1 DEF CurOrder, InCur
  <2> QED  BY <1>0, <1>o, <2>1, <2>2, <2>3, <2>4 DEF OrderInv
<1>7. ASSUME NEW t \in Slots, presenter_take, try_take_locked(t), screen' = slot_seq[t] PROVE OrderInv'
  <2>1. /\ state[t] = "QUEUED" /\ state' = [state EXCEPT ![t] = "PRESENTING"] /\ order' = order /\ next_order' = next_order
        /\ \A r \in Slots : state[r] = "QUEUED" => order[t] <= order[r]
    BY <1>7 DEF try_take_locked, oldest_queued
  <2>2. UNCHANGED <<slot_seq, f, held_order, renderer, cur, flip_next>>
    BY <1>7 DEF presenter_take, hvars, flipvars
  <2>3. \A s \in Slots : state'[s] = "QUEUED" => state[s] = "QUEUED" /\ s # t
    BY <1>0, <2>1
  <2>4. \A s \in Slots : state'[s] = "QUEUED" => slot_seq[t] < slot_seq[s]
    <3> SUFFICES ASSUME NEW s \in Slots, state'[s] = "QUEUED" PROVE slot_seq[t] < slot_seq[s]
      OBVIOUS
    <3>1. state[s] = "QUEUED" /\ s # t /\ order[t] <= order[s] /\ order[t] \in Nat /\ order[s] \in Nat
      BY <1>0, <2>1, <2>3
    <3>2. order[t] # order[s]
      BY <2>1, <3>1 DEF OrderInv, SlotOrder
    <3>3. order[t] < order[s]
      BY <3>1, <3>2
    <3> QED  BY <2>1, <3>1, <3>3 DEF OrderInv, SlotOrder
  <2>5. SlotOrder'
    BY <1>7, <2>1, <2>2, <2>3, <2>4 DEF OrderInv, SlotOrder
  <2>6. HeldOrder'
    BY <1>7, <2>1, <2>2, <2>3 DEF OrderInv, HeldOrder
  <2>7. CurOrder'
    BY <1>7, <2>1, <2>2, <2>3 DEF OrderInv, CurOrder, InCur
  <2>8. screen' < flip_next'
    BY <1>7, <2>1, <2>2 DEF OrderInv, SlotOrder
  <2> QED  BY <2>5, <2>6, <2>7, <2>8 DEF OrderInv
<1>8. ASSUME NEW t \in Held, held_take, held_oldest_locked(t, "QUEUED"), claim_drawable_locked,
             f' = [f EXCEPT ![t].state = "PRESENTING"], screen' = f[t].seq
      PROVE  OrderInv'
  <2>1. \A g \in Held : Keeps(g) /\ f'[g].state = IF g = t THEN "PRESENTING" ELSE f[g].state
    BY <1>8, TakeView
  <2>2. f[t].state = "QUEUED" /\ \A g \in Held : f[g].state = "QUEUED" => f[t].order <= f[g].order
    BY <1>8 DEF held_oldest_locked, HeldIn
  <2>3. UNCHANGED <<slot_seq, state, order, next_order, held_order, renderer, cur, flip_next>>
        /\ \A s \in Slots : state[s] # "QUEUED"
    BY <1>8 DEF held_take, flipvars, claim_drawable_locked, Unclaimed
  <2>4. \A g \in Held : f'[g].state = "QUEUED" => f[g].state = "QUEUED" /\ g # t
    BY <2>1
  <2>5. \A g \in Held : f'[g].state = "QUEUED" => f[t].seq < f[g].seq
    <3> SUFFICES ASSUME NEW g \in Held, f'[g].state = "QUEUED" PROVE f[t].seq < f[g].seq
      OBVIOUS
    <3>1. f[g].state = "QUEUED" /\ g # t /\ f[t].order <= f[g].order
      BY <2>2, <2>4
    <3>2. f[t].order # f[g].order
      BY <2>2, <3>1 DEF OrderInv, HeldOrder
    <3>3. f[t].order < f[g].order
      BY <1>0, <3>1, <3>2
    <3> QED  BY <2>2, <3>1, <3>3 DEF OrderInv, HeldOrder
  <2>6. SlotOrder'
    BY <2>3 DEF SlotOrder
  <2>7. HeldOrder'
    BY <1>8, <2>1, <2>3, <2>4, <2>5 DEF OrderInv, HeldOrder, Keeps
  <2>8. CurOrder'
    BY <1>8, <2>1, <2>2, <2>3, <2>4 DEF OrderInv, CurOrder, InCur, Keeps
  <2>9. screen' < flip_next'
    BY <1>8, <2>2, <2>3 DEF OrderInv, HeldOrder
  <2> QED  BY <2>6, <2>7, <2>8, <2>9 DEF OrderInv
<1>9. ASSUME NEW j \in jobs, job_release(j) PROVE OrderInv'
  <2>1. /\ UNCHANGED <<f, held_order, screen, flip_next, renderer, cur>>
        /\ slot_seq' = [slot_seq EXCEPT ![j.i] = None] /\ release_locked(j.i)
    BY <1>9 DEF job_release, hvars, flipvars
  <2>2. next_order' = next_order /\ \A s \in Slots : state'[s] = "QUEUED" =>
          state[s] = "QUEUED" /\ order'[s] = order[s] /\ slot_seq'[s] = slot_seq[s]
    BY <1>0, <2>1 DEF release_locked
  <2>3. renderer \in {"acquire", "copy", "slot", "slot_copy"} => \A h \in Held : f[h].state # "QUEUED"
    BY DEF OrderInv, CurOrder
  <2> QED  BY <2>1, <2>2, <2>3, OrderKept
<1>10. CASE no_texture
  <2>1. UNCHANGED <<qvars, slot_seq, f, held_order, screen, flip_next, cur>> /\ renderer = "no_texture"
        /\ (renderer' = "commit_none" \/ (renderer' = "copy" /\ ~FramesHeld))
    BY <1>10 DEF no_texture, hvars, flipvars
  <2>2. renderer' = "copy" => \A h \in Held : f[h].state # "QUEUED"
    BY <2>1 DEF FramesHeld, HeldIn
  <2>3. /\ next_order' = next_order
        /\ \A s \in Slots : state'[s] = "QUEUED" => state[s] = "QUEUED" /\ slot_seq'[s] = slot_seq[s] /\ order'[s] = order[s]
    BY <2>1 DEF qvars
  <2> QED  BY <2>1, <2>2, <2>3, OrderKept DEF InCur
<1>11. CASE hold_texture
  <2>1. UNCHANGED <<qvars, slot_seq, screen, flip_next>> /\ renderer = "hold" /\ renderer' \in {"held_begin", "no_texture"}
        /\ ~held_begin
    BY <1>11 DEF hold_texture, flipvars, held_begin
  <2>2. cur'.seq = cur.seq
    BY <1>0, <1>11 DEF hold_texture
  <2>3. /\ next_order' = next_order
        /\ \A s \in Slots : state'[s] = "QUEUED" => state[s] = "QUEUED" /\ slot_seq'[s] = slot_seq[s] /\ order'[s] = order[s]
    BY <2>1 DEF qvars
  <2> QED  BY <1>h, <2>1, <2>2, <2>3, OrderKept DEF InCur
<1>12. CASE /\ UNCHANGED <<state, order, next_order, slot_seq, screen, flip_next>> /\ ~held_begin
            /\ \/ UNCHANGED <<renderer, cur>>
               \/ renderer' \in {"idle", "drained", "undrained", "wake", "commit_held"}
  <2>1. renderer \in {"acquire", "copy", "slot", "slot_copy"} => \A h \in Held : f[h].state # "QUEUED"
    BY DEF OrderInv, CurOrder
  <2> QED  BY <1>12, <1>h, <2>1, OrderKept DEF InCur
<1>13. CASE presenter_take
  <2>1. CASE UNCHANGED <<qvars, screen>>
    BY <1>12, <1>13, <2>1 DEF presenter_take, held_begin, qvars, flipvars
  <2> QED  BY <1>7, <1>13, <2>1 DEF presenter_take
<1>14. CASE held_take
  <2>1. CASE UNCHANGED <<qvars, f, screen>>
    BY <1>12, <1>14, <2>1 DEF held_take, held_begin, qvars, flipvars
  <2> QED  BY <1>8, <1>14, <2>1 DEF held_take
<1>15. CASE presenter_grant
  BY <1>12, <1>15 DEF presenter_grant, grant_locked, held_begin, qvars, flipvars
<1>16. ASSUME ~present_start, ~acquire_slot, ~slot_texture_failed, ~present_commit, ~held_begin, ~cpu_present, ~presenter_take,
              ~held_take, ~(\E j \in jobs : job_release(j)), ~no_texture, ~hold_texture, ~presenter_grant
       PROVE  /\ UNCHANGED <<state, order, next_order, slot_seq, screen, flip_next>>
              /\ \/ UNCHANGED <<renderer, cur>>
                 \/ renderer' \in {"idle", "drained", "undrained", "wake", "commit_held"}
  BY <1>16
  DEF Next, Renderer, InPresent, Presenter, Gpu, JobStep, Watchdog, arm_timer, presenter_wake, Commit, cpu_drain,
      presenter_park, gpu_convert, gpu_fail, present_failed, gpu_copy, job_complete,
      job_done, held_free, listener, held_timeout, run_done, GiveUpGpu, release_held, fences_given_up, vars, qvars, flipvars
<1> QED
  BY <1>1, <1>2, <1>3, <1>4, <1>5, <1>6, <1>9, <1>10, <1>11, <1>12, <1>13, <1>14, <1>15, <1>16

-----------------------------------------------------------------------------
(* Where a flip that has not completed is. *)

\* A bounded set of flips has a largest one.
LEMMA MaxExists ==
  ASSUME NEW m \in Nat, NEW T \in SUBSET (0 .. m), T # {}
  PROVE  \E d \in T : \A e \in T : e <= d
<1> DEFINE R == OpToRel(<, Nat)
           U == {m - t : t \in T}
<1>1. \A t \in T : t \in Int /\ 0 <= t /\ t <= m
  OBVIOUS
<1>2. U \subseteq Nat /\ U # {}
  <2>1. PICK t \in T : TRUE
    OBVIOUS
  <2>2. m - t \in U
    BY <2>1
  <2> QED  BY <1>1, <2>2
<1>3. IsWellFoundedOn(R, Nat)
  BY NatLessThanWellFounded
<1>4. \A x, y \in Nat : <<y, x>> \in R <=> y < x
  BY DEF OpToRel
<1> HIDE DEF R
<1>5. PICK x \in U : \A y \in U : ~(<<y, x>> \in R)
  <2> HIDE DEF U
  <2> QED  BY <1>2, <1>3, WFMin
<1>6. PICK d \in T : x = m - d
  BY <1>5
<1>7. ASSUME NEW e \in T PROVE e <= d
  <2>1. m - e \in U /\ m - e \in Nat /\ m - d \in Nat
    BY <1>1
  <2>2. ~(m - e < m - d)
    BY <1>4, <1>5, <1>6, <2>1
  <2> QED  BY <1>1, <2>2
<1> QED  BY <1>6, <1>7

\* A flip that is neither completed nor waiting completes: no other is lost.
LEMMA Completed ==
  ASSUME NEW n \in 0 .. MaxFlips, flip_done \in 0 .. n, flip_ready \subseteq 0 .. (n - 1),
         NEW seq \in flip_done .. (n - 1), seq \notin flip_ready,
         \A x \in flip_ready : x > flip_done,
         CompleteFlip(seq)
  PROVE  /\ flip_done' \in flip_done .. n
         /\ flip_ready' \subseteq flip_ready \cup {seq}
         /\ \A x \in flip_ready' : x > flip_done'
         /\ \A x \in Nat : x >= flip_done /\ x \notin flip_ready \cup {seq} => x >= flip_done'
<1> USE MaxFlipsAssumption
<1> DEFINE ready == flip_ready \cup {seq}
           ends == {d \in flip_done .. MaxFlips : flip_done .. (d - 1) \subseteq ready}
           top == CHOOSE d \in ends : \A e \in ends : e <= d
<1>1. flip_done \in ends /\ ends \in SUBSET (0 .. MaxFlips)
  <2>1. flip_done .. (flip_done - 1) = {}
    OBVIOUS
  <2> QED  BY <2>1
<1>2. \E d \in ends : \A e \in ends : e <= d
  <2> HIDE DEF ends
  <2> QED  BY <1>1, MaxExists
<1>3. top \in ends /\ \A e \in ends : e <= top
  <2> HIDE DEF ends
  <2> QED  BY <1>2
<1>4. flip_done' = top /\ flip_ready' = ready \ flip_done .. (top - 1)
  BY DEF CompleteFlip
<1> HIDE DEF top
<1>5. /\ top \in flip_done .. MaxFlips /\ flip_done .. (top - 1) \subseteq ready
      /\ ready \subseteq 0 .. (n - 1)
  BY <1>3
<1>6. top <= n
  <2>1. CASE top = flip_done
    BY <2>1
  <2>2. CASE top # flip_done
    <3>1. top - 1 \in ready
      BY <1>5, <2>2
    <3> QED  BY <1>5, <3>1
  <2> QED  BY <2>1, <2>2
<1>7. top \notin ready
  <2> SUFFICES ASSUME top \in ready PROVE FALSE
    OBVIOUS
  <2>1. top + 1 \in flip_done .. MaxFlips
    BY <1>5
  <2>2. flip_done .. ((top + 1) - 1) \subseteq ready
    BY <1>5
  <2>3. top + 1 \in ends
    BY <2>1, <2>2
  <2>4. top + 1 <= top
    BY <1>3, <2>3
  <2> QED  BY <1>5, <2>4
<1>8. \A x \in flip_ready' : x > flip_done'
  <2> SUFFICES ASSUME NEW x \in flip_ready' PROVE x > flip_done'
    OBVIOUS
  <2>1. x \in ready /\ x \notin flip_done .. (top - 1) /\ x >= flip_done /\ x \in Int
    BY <1>4, <1>5
  <2> QED  BY <1>4, <1>5, <1>7, <2>1
<1>9. ASSUME NEW x \in Nat, x >= flip_done, x \notin ready PROVE x >= flip_done'
  BY <1>4, <1>5, <1>9
<1> QED  BY <1>4, <1>5, <1>6, <1>8, <1>9

\* Flips move between the callbacks and the fences; the renderer's flip may join them.
LEMMA OnceKept ==
  ASSUME OnceInv, UNCHANGED flipvars, DoneJobs' \subseteq DoneJobs, dones' \cap fences' = {},
         NEW X, dones' \cup fences' \subseteq dones \cup fences \cup X,
         X = {} \/ (X = {cur.seq} /\ renderer \in InCur /\ renderer' \notin InCur),
         \A h \in Held : Owing(h)' => Owing(h) /\ f'[h].seq = f[h].seq,
         renderer' \in InCur => renderer \in InCur /\ cur'.seq = cur.seq,
         renderer' \in {"drained", "undrained"} => flip_next < MaxFlips
  PROVE  OnceInv'
<1>0. flip_done' = flip_done /\ flip_next' = flip_next /\ flip_ready' = flip_ready
  BY DEF flipvars
<1>1. Claimed' \subseteq Claimed
  BY DEF Claimed, DoneJobs
<1>2. OneClaim'
  BY DEF OnceInv, OneClaim
<1>3. \A x \in X : Open(x) /\ \A h \in Held : Owing(h) => f[h].seq # x
  BY DEF OnceInv, CurOnce
<1>4. Pending' \subseteq Pending \cup X
  BY <1>1 DEF Pending
<1>5. Elsewhere' \subseteq Elsewhere \cup X
  BY <1>0, <1>4 DEF Elsewhere
<1>6. Apart'
  <2>1. Claimed' \cap (dones' \cup fences') = {}
    BY <1>1, <1>3 DEF OnceInv, Apart, Open, Elsewhere, Pending
  <2>2. \A s \in Pending' : s >= flip_done /\ s \notin flip_ready
    BY <1>3, <1>4 DEF OnceInv, Apart, Open, Elsewhere
  <2>3. \A s \in flip_ready : s > flip_done
    BY DEF OnceInv, Apart
  <2> QED  BY <1>0, <2>1, <2>2, <2>3 DEF Apart
<1>7. InRange'
  <2>1. flip_done \in 0 .. flip_next /\ Elsewhere \subseteq 0 .. (flip_next - 1)
    BY DEF OnceInv, InRange
  <2>2. X \subseteq 0 .. (flip_next - 1)
    BY <1>3, <2>1 DEF Open
  <2> QED  BY <1>0, <1>5, <2>1, <2>2 DEF InRange
<1>8. \A s : Open(s) /\ s \notin X => s \in flip_done' .. (flip_next' - 1) /\ s \notin Elsewhere'
  BY <1>0, <1>5 DEF Open
<1>9. OwedOnce'
  <2>1. ASSUME NEW h \in Held, Owing(h)' PROVE f'[h].seq \in flip_done' .. (flip_next' - 1) /\ f'[h].seq \notin Elsewhere'
    <3>1. Owing(h) /\ f'[h].seq = f[h].seq
      BY <2>1
    <3>2. Open(f[h].seq) /\ f[h].seq \notin X
      BY <1>3, <3>1 DEF OnceInv, OwedOnce
    <3> QED  BY <1>8, <3>1, <3>2
  <2>2. ASSUME NEW g \in Held, NEW h \in Held, Owing(g)', Owing(h)', f'[g].seq = f'[h].seq PROVE g = h
    BY <2>2 DEF OnceInv, OwedOnce
  <2> QED  BY <2>1, <2>2 DEF OwedOnce, Open
<1>10. CurOnce'
  <2> SUFFICES ASSUME renderer' \in InCur
               PROVE  /\ cur'.seq \in flip_done' .. (flip_next' - 1) /\ cur'.seq \notin Elsewhere'
                      /\ \A h \in Held : Owing(h)' => f'[h].seq # cur'.seq
    BY DEF CurOnce, Open, InCur
  <2>1. X = {} /\ Open(cur.seq) /\ cur'.seq = cur.seq /\ \A h \in Held : Owing(h) => f[h].seq # cur.seq
    BY DEF OnceInv, CurOnce
  <2> QED  BY <1>8, <2>1
<1> QED  BY <1>2, <1>6, <1>7, <1>9, <1>10 DEF OnceInv

\* A pending flip completes.
LEMMA OnceCompleted ==
  ASSUME TInv, OnceInv, NEW seq \in Pending, CompleteFlip(seq), flip_next' = flip_next,
         DoneJobs' \subseteq DoneJobs, dones' \subseteq dones, fences' \subseteq fences, seq \notin Pending',
         UNCHANGED <<f, renderer, cur>>
  PROVE  OnceInv'
<1>0. /\ flip_next \in 0 .. MaxFlips /\ flip_done \in 0 .. flip_next /\ Elsewhere \subseteq 0 .. (flip_next - 1)
      /\ flip_next \in Nat
  BY MaxFlipsAssumption DEF TInv, CurInv, OnceInv, InRange
<1>1. seq \in flip_done .. (flip_next - 1) /\ seq \notin flip_ready
  <2>1. seq >= flip_done /\ seq \notin flip_ready
    BY DEF OnceInv, Apart
  <2>2. seq \in 0 .. (flip_next - 1)
    BY <1>0 DEF Elsewhere
  <2> QED  BY <1>0, <2>1, <2>2
<1>2. (\A x \in flip_ready : x > flip_done) /\ flip_ready \subseteq 0 .. (flip_next - 1)
  BY <1>0 DEF OnceInv, Apart, Elsewhere
<1>3. /\ flip_done' \in flip_done .. flip_next
      /\ flip_ready' \subseteq flip_ready \cup {seq}
      /\ \A x \in flip_ready' : x > flip_done'
      /\ \A x \in Nat : x >= flip_done /\ x \notin flip_ready \cup {seq} => x >= flip_done'
  BY <1>0, <1>1, <1>2, Completed
<1>4. Claimed' \subseteq Claimed /\ OneClaim'
  BY DEF Claimed, DoneJobs, OnceInv, OneClaim
<1>5. Pending' \subseteq Pending \ {seq}
  BY <1>4 DEF Pending
<1>6. Elsewhere' \subseteq Elsewhere
  BY <1>3, <1>5 DEF Elsewhere
<1>7. \A s \in Pending' : s \in Nat /\ s >= flip_done' /\ s \notin flip_ready'
  <2> SUFFICES ASSUME NEW s \in Pending' PROVE s \in Nat /\ s >= flip_done' /\ s \notin flip_ready'
    OBVIOUS
  <2>1. s \in Pending /\ s # seq /\ s \in 0 .. (flip_next - 1)
    BY <1>0, <1>5 DEF Elsewhere
  <2>2. s >= flip_done /\ s \notin flip_ready
    BY <2>1 DEF OnceInv, Apart
  <2> QED  BY <1>3, <2>1, <2>2
<1>8. Apart'
  BY <1>3, <1>4, <1>7 DEF OnceInv, Apart
<1>9. InRange'
  <2>1. flip_done' \in 0 .. flip_next' /\ Elsewhere' \subseteq 0 .. (flip_next' - 1)
    BY <1>0, <1>3, <1>6
  <2> QED  BY <2>1 DEF OnceInv, InRange
<1>10. \A s : Open(s) => s \in flip_done' .. (flip_next' - 1) /\ s \notin Elsewhere'
  <2> SUFFICES ASSUME NEW s, Open(s) PROVE s \in flip_done' .. (flip_next' - 1) /\ s \notin Elsewhere'
    OBVIOUS
  <2>1. s \in flip_done .. (flip_next - 1) /\ s \notin Elsewhere
    BY DEF Open
  <2>2. s \in Nat /\ s >= flip_done /\ s \notin flip_ready \cup {seq}
    BY <1>0, <2>1 DEF Elsewhere
  <2>3. s >= flip_done'
    BY <1>3, <2>2
  <2> QED  BY <1>0, <1>3, <1>6, <2>1, <2>3
<1>11. OwedOnce'
  <2>1. \A h \in Held : Owing(h)' => Owing(h)
    BY DEF Owing
  <2>2. ASSUME NEW h \in Held, Owing(h)' PROVE f'[h].seq \in flip_done' .. (flip_next' - 1) /\ f'[h].seq \notin Elsewhere'
    BY <1>10, <2>1, <2>2 DEF OnceInv, OwedOnce
  <2>3. \A g, h \in Held : Owing(g)' /\ Owing(h)' /\ f'[g].seq = f'[h].seq => g = h
    BY <2>1 DEF OnceInv, OwedOnce
  <2> QED  BY <2>2, <2>3 DEF OwedOnce, Open
<1>12. CurOnce'
  <2> SUFFICES ASSUME renderer \in InCur
               PROVE  /\ cur'.seq \in flip_done' .. (flip_next' - 1) /\ cur'.seq \notin Elsewhere'
                      /\ \A h \in Held : Owing(h)' => f'[h].seq # cur'.seq
    BY DEF CurOnce, Open, InCur
  <2>1. Open(cur.seq) /\ cur' = cur /\ \A h \in Held : Owing(h) => f[h].seq # cur.seq
    BY DEF OnceInv, CurOnce
  <2>2. \A h \in Held : Owing(h)' => Owing(h)
    BY DEF Owing
  <2> QED  BY <1>10, <2>1, <2>2
<1> QED  BY <1>4, <1>8, <1>9, <1>11, <1>12 DEF OnceInv

\* What happens to the handlers whose callback is about to run.
LEMMA DoneStep ==
  ASSUME TInv, UseInv, [Next]_vars
  PROVE  \/ DoneJobs' \subseteq DoneJobs
         \/ \E j \in jobs : job_complete(j) /\ ~f[j.i].completed
<1>0. jobs \subseteq JobRecs
  BY DEF TInv, JobsInv
<1>b. \A j \in jobs : j \in JobRecs /\ j.then \in {"free", "listen"} /\ None \in Int
  BY <1>0 DEF JobRecs, None
<1>1. CASE hold_texture
  <2>1. PICK D \in SUBSET Held : jobs' = jobs \cup {Job(d, "listen") : d \in D}
    BY <1>1, HoldView
  <2>2. \A d \in Held : Job(d, "listen").pc # "done"
    BY DEF Job
  <2> QED  BY <2>1, <2>2 DEF DoneJobs
<1>2. CASE held_timeout
  <2>1. PICK D \in SUBSET Held : jobs' = jobs \cup {[Job(d, "complete") EXCEPT !.then = "listen"] : d \in D}
    BY <1>2, TimeoutView
  <2>2. \A d \in Held : [Job(d, "complete") EXCEPT !.then = "listen"].pc # "done"
    BY JobRec DEF Starts
  <2> QED  BY <2>1, <2>2 DEF DoneJobs
<1>3. CASE release_held
  <2>1. jobs' = jobs \cup {Job(d, "listen") : d \in HeldIn("QUEUED")}
    BY <1>3, ReleaseView
  <2>2. \A d \in HeldIn("QUEUED") : Job(d, "listen").pc # "done"
    BY DEF Job
  <2> QED  BY <2>1, <2>2 DEF DoneJobs
<1>4. ASSUME NEW j \in jobs, NEW pc \in {"listen", "complete", "free"}, NEW then \in {"free", "listen"},
             jobs' = Step(j, pc, None, then)
      PROVE  DoneJobs' \subseteq DoneJobs
  <2>1. PICK k \in JobRecs : jobs' = (jobs \ {j}) \cup {k} /\ k.pc = pc
    BY <1>b, <1>4, Stepped
  <2> QED  BY <2>1 DEF DoneJobs
<1>5. ASSUME NEW j \in jobs, job_complete(j), f[j.i].completed PROVE DoneJobs' \subseteq DoneJobs
  <2>1. jobs' = Step(j, j.then, None, j.then)
    BY <1>5, CompleteView
  <2> QED  BY <1>b, <1>4, <2>1
<1>6. ASSUME NEW j \in jobs, job_done(j) \/ listener(j) PROVE DoneJobs' \subseteq DoneJobs
  <2>1. CASE jobs' = Step(j, j.then, None, j.then)
    BY <1>b, <1>4, <2>1
  <2>2. CASE jobs' = Step(j, "complete", None, "free")
    BY <1>4, <2>2
  <2> QED  BY <1>6, <2>1, <2>2 DEF job_done, listener
<1>7. CASE gpu_copy
  <2> DEFINE c == Head(pqueue)
             n == [i |-> c.i, order |-> c.value, on |-> "gpu", arg |-> None, then |-> "free",
                   pc |-> IF c.e = "slot" THEN "release" ELSE "complete"]
  <2>1. jobs' = jobs \cup {n}
    BY <1>7 DEF gpu_copy
  <2>2. n.pc # "done"
    OBVIOUS
  <2> HIDE DEF n
  <2> QED  BY <2>1, <2>2 DEF DoneJobs
<1>8. CASE jobs' \subseteq jobs
  BY <1>8 DEF DoneJobs
<1> QED
  BY <1>1, <1>2, <1>3, <1>5, <1>6, <1>7, <1>8
  DEF Next, Renderer, InPresent, Presenter, Gpu, JobStep, Watchdog, present_start, acquire_slot, slot_texture_failed,
      present_commit, no_texture, held_begin, arm_timer, presenter_wake, Commit, cpu_drain, cpu_present,
      presenter_grant, presenter_take, held_take, presenter_park, gpu_convert, gpu_fail, present_failed,
      job_release, held_free, run_done, GiveUpGpu, fences_given_up, vars

\* Only held_begin lets a texture owe a flip.
LEMMA OwingStep ==
  ASSUME TInv, UseInv, [Next]_vars, ~held_begin, NEW h \in Held, Owing(h)'
  PROVE  Owing(h) /\ f'[h].seq = f[h].seq
<1>0. f'[h].state \in Written /\ ~f'[h].completed
  BY DEF Owing
<1>1. f[h].state \in Written /\ ~f[h].completed /\ f'[h].seq = f[h].seq
  <2>1. ASSUME hold_texture PROVE <1>1
    BY <1>0, <2>1, HoldView DEF Keeps, HeldIn, Written
  <2>2. ASSUME held_timeout PROVE <1>1
    BY <1>0, <2>2, TimeoutView DEF Keeps, HeldIn, Written
  <2>3. ASSUME release_held PROVE <1>1
    BY <1>0, <2>3, ReleaseView DEF Written
  <2>4. ASSUME NEW g \in Held, held_oldest_locked(g, "QUEUED"), f' = [f EXCEPT ![g].state = "PRESENTING"] PROVE <1>1
    BY <1>0, <2>4, TakeView DEF Keeps, Written, held_oldest_locked, HeldIn
  <2>5. ASSUME NEW j \in jobs, job_complete(j) PROVE <1>1
    BY <1>0, <2>5, CompleteView
  <2>6. ASSUME NEW j \in jobs, held_free(j) PROVE <1>1
    BY <1>0, <2>6, FreeView DEF Keeps, Written
  <2> QED  BY <1>0, <2>1, <2>2, <2>3, <2>4, <2>5, <2>6, HeldStep
<1> QED  BY <1>1 DEF Owing

\* Every flip that is not completed is in one place.
LEMMA OnceStep ==
  ASSUME TInv, UseInv, OnceInv, [Next]_vars
  PROVE  OnceInv'
<1>0. /\ flip_next \in 0 .. MaxFlips /\ flip_done \in 0 .. flip_next /\ Elsewhere \subseteq 0 .. (flip_next - 1)
      /\ flip_next \in Nat /\ flip_done \in Nat
      /\ cur \in [seq : Int, behind : BOOLEAN, i : Int] /\ dones \cap fences = {}
  BY MaxFlipsAssumption DEF TInv, CurInv, OnceInv, InRange, Apart
<1>o. ~held_begin => \A h \in Held : Owing(h)' => Owing(h) /\ f'[h].seq = f[h].seq
  BY OwingStep
<1>1. CASE present_start
  <2>1. /\ UNCHANGED <<f, jobs, dones, fences, flip_done, flip_ready>> /\ flip_next' = flip_next + 1
        /\ cur'.seq = flip_next /\ renderer' \in {"hold", "acquire"}
    BY <1>1 DEF present_start, hvars, gpuvars
  <2>2. /\ Claimed' = Claimed /\ DoneJobs' = DoneJobs /\ Elsewhere' = Elsewhere /\ Pending' = Pending
        /\ \A h \in Held : Owing(h)' <=> Owing(h)
    BY <2>1 DEF Claimed, DoneJobs, Elsewhere, Pending, Owing
  <2>3. OneClaim' /\ Apart'
    BY <2>1, <2>2 DEF OnceInv, OneClaim, Apart
  <2>4. InRange'
    BY <1>0, <2>1, <2>2 DEF InRange
  <2>5. \A s : Open(s) => s \in flip_done' .. (flip_next' - 1) /\ s \notin Elsewhere' /\ s # flip_next
    BY <1>0, <2>1, <2>2 DEF Open
  <2>6. OwedOnce'
    <3>1. ASSUME NEW h \in Held, Owing(h)' PROVE f'[h].seq \in flip_done' .. (flip_next' - 1) /\ f'[h].seq \notin Elsewhere'
      BY <2>1, <2>2, <2>5, <3>1 DEF OnceInv, OwedOnce
    <3>2. \A g, h \in Held : Owing(g)' /\ Owing(h)' /\ f'[g].seq = f'[h].seq => g = h
      BY <2>1, <2>2 DEF OnceInv, OwedOnce
    <3> QED  BY <3>1, <3>2 DEF OwedOnce, Open
  <2>7. cur'.seq \in flip_done' .. (flip_next' - 1) /\ cur'.seq \notin Elsewhere'
    BY <1>0, <2>1, <2>2
  <2>8. \A h \in Held : Owing(h)' => f'[h].seq # cur'.seq
    BY <2>1, <2>2, <2>5 DEF OnceInv, OwedOnce
  <2> QED  BY <2>3, <2>4, <2>6, <2>7, <2>8 DEF OnceInv, CurOnce, Open
<1>2. CASE cpu_present
  <2>1. /\ UNCHANGED <<f, jobs, dones, fences>> /\ flip_next' = flip_next + 1 /\ renderer' = "idle"
        /\ CompleteFlip(flip_next) /\ renderer \in {"drained", "undrained"}
    BY <1>2 DEF cpu_present, hvars, gpuvars
  <2>2. /\ Claimed' = Claimed /\ DoneJobs' = DoneJobs /\ Pending' = Pending
        /\ \A h \in Held : Owing(h)' <=> Owing(h)
    BY <2>1 DEF Claimed, DoneJobs, Pending, Owing
  <2>3. /\ flip_next + 1 \in 0 .. MaxFlips /\ flip_done \in 0 .. (flip_next + 1)
        /\ flip_ready \subseteq 0 .. ((flip_next + 1) - 1) /\ flip_next \in flip_done .. ((flip_next + 1) - 1)
        /\ flip_next \notin flip_ready
    <3>1. flip_next < MaxFlips
      BY <2>1 DEF OnceInv, InRange
    <3>2. flip_ready \subseteq 0 .. (flip_next - 1)
      BY <1>0 DEF Elsewhere
    <3> QED  BY <1>0, <3>1, <3>2, MaxFlipsAssumption
  <2>4. \A x \in flip_ready : x > flip_done
    BY DEF OnceInv, Apart
  <2>5. /\ flip_done' \in flip_done .. (flip_next + 1)
        /\ flip_ready' \subseteq flip_ready \cup {flip_next}
        /\ \A x \in flip_ready' : x > flip_done'
        /\ \A x \in Nat : x >= flip_done /\ x \notin flip_ready \cup {flip_next} => x >= flip_done'
    BY <2>1, <2>3, <2>4, Completed
  <2>6. \A s \in Nat : s < flip_next /\ s >= flip_done /\ s \notin flip_ready => s >= flip_done' /\ s \notin flip_ready'
    BY <1>0, <2>5
  <2>7. \A s \in Pending : s \in Nat /\ s < flip_next /\ s >= flip_done /\ s \notin flip_ready
    BY <1>0 DEF OnceInv, Apart, Elsewhere
  <2>8. OneClaim' /\ Apart'
    BY <2>1, <2>2, <2>5, <2>6, <2>7 DEF OnceInv, OneClaim, Apart
  <2>9. Elsewhere' \subseteq Elsewhere \cup {flip_next}
    BY <2>2, <2>5 DEF Elsewhere
  <2>10. InRange'
    BY <1>0, <2>1, <2>5, <2>9 DEF InRange
  <2>11. \A s : Open(s) => s \in flip_done' .. (flip_next' - 1) /\ s \notin Elsewhere'
    <3> SUFFICES ASSUME NEW s, Open(s) PROVE s \in flip_done' .. (flip_next' - 1) /\ s \notin Elsewhere'
      OBVIOUS
    <3>1. s \in Nat /\ s < flip_next /\ s >= flip_done /\ s \notin flip_ready /\ s \notin Elsewhere
      BY <1>0 DEF Open, Elsewhere
    <3>2. s >= flip_done'
      BY <2>6, <3>1
    <3> QED  BY <1>0, <2>1, <2>5, <2>9, <3>1, <3>2
  <2>12. OwedOnce'
    <3>1. ASSUME NEW h \in Held, Owing(h)' PROVE f'[h].seq \in flip_done' .. (flip_next' - 1) /\ f'[h].seq \notin Elsewhere'
      BY <2>1, <2>2, <2>11, <3>1 DEF OnceInv, OwedOnce
    <3>2. \A g, h \in Held : Owing(g)' /\ Owing(h)' /\ f'[g].seq = f'[h].seq => g = h
      BY <2>1, <2>2 DEF OnceInv, OwedOnce
    <3> QED  BY <3>1, <3>2 DEF OwedOnce, Open
  <2> QED  BY <2>1, <2>8, <2>10, <2>12 DEF OnceInv, CurOnce, InCur
<1>3. CASE held_begin
  <2>1. /\ cur.i \in Held /\ f'[cur.i].seq = cur.seq
        /\ \A g \in Held : g # cur.i => f'[g] = f[g]
    BY <1>3, BeginView
  <2>2. /\ UNCHANGED <<jobs, dones, fences, flip_done, flip_ready, flip_next>> /\ renderer = "held_begin"
        /\ renderer' \in {"wake", "arm"}
    BY <1>3 DEF held_begin, flipvars, gpuvars
  <2>3. Claimed' = Claimed /\ DoneJobs' = DoneJobs /\ Elsewhere' = Elsewhere /\ Pending' = Pending
    BY <2>2 DEF Claimed, DoneJobs, Elsewhere, Pending
  <2>4. Open(cur.seq) /\ \A h \in Held : Owing(h) => f[h].seq # cur.seq
    BY <2>2 DEF OnceInv, CurOnce, InCur
  <2>5. \A h \in Held : h # cur.i /\ Owing(h)' => Owing(h)
    BY <2>1 DEF Owing
  <2>6. OneClaim' /\ Apart' /\ InRange'
    BY <2>2, <2>3 DEF OnceInv, OneClaim, Apart, InRange
  <2>7. \A s : Open(s) => s \in flip_done' .. (flip_next' - 1) /\ s \notin Elsewhere'
    BY <2>2, <2>3 DEF Open
  <2>8. OwedOnce'
    <3>1. ASSUME NEW h \in Held, Owing(h)' PROVE f'[h].seq \in flip_done' .. (flip_next' - 1) /\ f'[h].seq \notin Elsewhere'
      <4>1. CASE h = cur.i
        BY <2>1, <2>4, <2>7, <4>1
      <4>2. CASE h # cur.i
        BY <2>1, <2>5, <2>7, <3>1, <4>2 DEF OnceInv, OwedOnce
      <4> QED  BY <4>1, <4>2
    <3>2. ASSUME NEW g \in Held, NEW h \in Held, Owing(g)', Owing(h)', f'[g].seq = f'[h].seq PROVE g = h
      <4>1. CASE g # cur.i /\ h # cur.i
        BY <2>1, <2>5, <3>2, <4>1 DEF OnceInv, OwedOnce
      <4>2. CASE g = cur.i /\ h # cur.i
        BY <2>1, <2>4, <2>5, <3>2, <4>2
      <4>3. CASE g # cur.i /\ h = cur.i
        BY <2>1, <2>4, <2>5, <3>2, <4>3
      <4> QED  BY <4>1, <4>2, <4>3
    <3> QED  BY <3>1, <3>2 DEF OwedOnce, Open
  <2> QED  BY <2>2, <2>6, <2>8 DEF OnceInv, CurOnce, InCur
<1>4. ASSUME NEW j \in jobs, job_complete(j), ~f[j.i].completed PROVE OnceInv'
  <2>1. /\ j.i \in Held /\ jobs' = Step(j, "done", f[j.i].seq, j.then)
        /\ \A g \in Held : /\ f'[g].state = f[g].state /\ f'[g].seq = f[g].seq
                           /\ f'[g].completed = IF g = j.i THEN TRUE ELSE f[g].completed
    BY <1>4, CompleteView
  <2>2. UNCHANGED <<dones, fences, flip_done, flip_ready, flip_next, renderer, cur>> /\ j.pc = "complete"
    BY <1>4 DEF job_complete, flipvars, gpuvars
  <2>3. PICK k \in JobRecs : jobs' = (jobs \ {j}) \cup {k} /\ k.pc = "done" /\ k.arg = f[j.i].seq
    <3>1. j \in JobRecs /\ j.then \in {"free", "listen"} /\ f[j.i].seq \in Int
      BY <2>1 DEF TInv, JobsInv, JobRecs, FInv, HeldRecs
    <3> QED  BY <2>1, <3>1, Stepped
  <2>4. Owing(j.i) /\ Open(f[j.i].seq)
    <3>1. f[j.i].state \in Written
      BY <2>2 DEF UseInv, UseJobs, OfHeld, Written
    <3> QED  BY <1>4, <2>1, <3>1 DEF OnceInv, OwedOnce, Owing
  <2>5. DoneJobs' = DoneJobs \cup {k}
    BY <2>2, <2>3 DEF DoneJobs
  <2>6. Claimed' = Claimed \cup {f[j.i].seq}
    <3>1. Claimed = {x.arg : x \in DoneJobs} /\ Claimed' = {x.arg : x \in DoneJobs'}
      BY DEF Claimed, DoneJobs
    <3> QED  BY <2>3, <2>5, <3>1
  <2>7. \A x \in DoneJobs : x.arg # f[j.i].seq
    BY <2>4 DEF Open, Elsewhere, Pending, Claimed, DoneJobs
  <2>8. OneClaim'
    BY <2>3, <2>5, <2>7 DEF OnceInv, OneClaim
  <2>9. Pending' = Pending \cup {f[j.i].seq} /\ Elsewhere' = Elsewhere \cup {f[j.i].seq}
    BY <2>2, <2>6 DEF Pending, Elsewhere
  <2>10. Apart'
    <3>1. f[j.i].seq >= flip_done /\ f[j.i].seq \notin dones \cup fences \cup flip_ready
      BY <1>0, <2>4 DEF Open, Elsewhere, Pending
    <3> QED  BY <2>2, <2>6, <2>9, <3>1 DEF OnceInv, Apart
  <2>11. InRange'
    <3>1. f[j.i].seq \in 0 .. (flip_next - 1)
      BY <1>0, <2>4 DEF Open
    <3> QED  BY <2>2, <2>9, <3>1 DEF OnceInv, InRange
  <2>12. \A h \in Held : Owing(h)' => Owing(h) /\ h # j.i
    BY <2>1 DEF Owing
  <2>13. OwedOnce'
    <3>1. ASSUME NEW h \in Held, Owing(h)' PROVE f'[h].seq \in flip_done' .. (flip_next' - 1) /\ f'[h].seq \notin Elsewhere'
      <4>1. Owing(h) /\ h # j.i /\ f'[h].seq = f[h].seq
        BY <2>1, <2>12, <3>1
      <4>2. f[h].seq # f[j.i].seq /\ Open(f[h].seq)
        BY <2>1, <2>4, <4>1 DEF OnceInv, OwedOnce
      <4> QED  BY <2>2, <2>9, <4>1, <4>2 DEF Open
    <3>2. ASSUME NEW g \in Held, NEW h \in Held, Owing(g)', Owing(h)', f'[g].seq = f'[h].seq PROVE g = h
      <4>1. Owing(g) /\ Owing(h) /\ f[g].seq = f[h].seq
        BY <2>1, <2>12, <3>2
      <4> QED  BY <4>1 DEF OnceInv, OwedOnce
    <3> QED  BY <3>1, <3>2 DEF OwedOnce, Open
  <2>14. CurOnce'
    <3>1. renderer \in InCur => Open(cur.seq) /\ cur.seq # f[j.i].seq /\ \A h \in Held : Owing(h) => f[h].seq # cur.seq
      BY <2>1, <2>4 DEF OnceInv, CurOnce
    <3>2. \A h \in Held : Owing(h)' => Owing(h) /\ f'[h].seq = f[h].seq
      BY <2>1, <2>12
    <3> QED  BY <2>2, <2>9, <3>1, <3>2 DEF CurOnce, Open, InCur
  <2> QED  BY <2>8, <2>10, <2>11, <2>13, <2>14 DEF OnceInv
<1>5. ASSUME NEW j \in jobs, job_done(j) PROVE OnceInv'
  <2>1. /\ UNCHANGED <<dones, fences, f, renderer, cur, flip_next>> /\ CompleteFlip(j.arg) /\ j \in DoneJobs
        /\ jobs' = Step(j, j.then, None, j.then)
    BY <1>5 DEF job_done, hvars, gpuvars, DoneJobs
  <2>2. PICK k \in JobRecs : jobs' = (jobs \ {j}) \cup {k} /\ k.pc = j.then
    <3>1. j \in JobRecs /\ j.then \in {"free", "listen"} /\ None \in Int
      BY DEF TInv, JobsInv, JobRecs, None
    <3> QED  BY <2>1, <3>1, Stepped
  <2>3. j.then # "done"
    BY DEF TInv, JobsInv, JobRecs
  <2>4. DoneJobs' = DoneJobs \ {j}
    BY <2>2, <2>3 DEF DoneJobs
  <2>5. j.arg \in Claimed /\ j.arg \in Pending
    BY <2>1 DEF Claimed, Pending, DoneJobs
  <2>6. j.arg \notin Claimed'
    <3>1. Claimed' = {x.arg : x \in DoneJobs'}
      BY DEF Claimed, DoneJobs
    <3> QED  BY <2>1, <2>4, <3>1 DEF OnceInv, OneClaim
  <2>7. j.arg \notin Pending'
    BY <2>1, <2>5, <2>6 DEF Pending, OnceInv, Apart
  <2> QED  BY <2>1, <2>4, <2>5, <2>7, OnceCompleted
<1>6. ASSUME NEW seq \in dones, run_done(seq) PROVE OnceInv'
  <2>1. /\ UNCHANGED <<jobs, fences, f, renderer, cur, flip_next>> /\ CompleteFlip(seq) /\ dones' = dones \ {seq}
    BY <1>6 DEF run_done, hvars, gpuvars
  <2>2. seq \in Pending /\ seq \notin fences /\ seq \notin Claimed
    BY DEF Pending, OnceInv, Apart
  <2>3. DoneJobs' = DoneJobs /\ Claimed' = Claimed
    BY <2>1 DEF DoneJobs, Claimed
  <2>4. seq \notin Pending'
    BY <2>1, <2>2, <2>3 DEF Pending
  <2> QED  BY <2>1, <2>2, <2>3, <2>4, OnceCompleted
<1>7. CASE release_held
  <2>1. /\ \A g \in Held : /\ f'[g].seq = f[g].seq
                           /\ f'[g].state = IF f[g].state = "QUEUED" THEN "DROPPING" ELSE f[g].state
                           /\ f'[g].completed = (f[g].completed \/ f[g].state \in Written)
    BY <1>7, ReleaseView
  <2> DEFINE X == {f[h].seq : h \in {g \in Held : Owing(g)}}
  <2>2. /\ UNCHANGED <<fences, flip_done, flip_ready, flip_next, renderer, cur>> /\ dones' = dones \cup X
    BY <1>7 DEF release_held, flipvars, Waiting, Owing, Written
  <2>3. \A h \in Held : ~Owing(h)'
    BY <2>1 DEF Owing, Written
  <2>4. \A x \in X : Open(x) /\ (renderer \in InCur => x # cur.seq)
    BY DEF OnceInv, OwedOnce, CurOnce
  <2> HIDE DEF X
  <2>5. DoneJobs' \subseteq DoneJobs
    BY <1>7, DoneStep DEF release_held, job_complete
  <2>6. Claimed' \subseteq Claimed /\ OneClaim'
    BY <2>5 DEF Claimed, DoneJobs, OnceInv, OneClaim
  <2>7. Pending' \subseteq Pending \cup X /\ Elsewhere' \subseteq Elsewhere \cup X
    BY <2>2, <2>6 DEF Pending, Elsewhere
  <2>8. Apart'
    <3>1. \A x \in X : x >= flip_done /\ x \notin flip_ready \cup fences \cup Claimed
      BY <1>0, <2>4 DEF Open, Elsewhere, Pending
    <3> QED  BY <2>2, <2>6, <2>7, <3>1 DEF OnceInv, Apart
  <2>9. InRange'
    <3>1. X \subseteq 0 .. (flip_next - 1)
      BY <1>0, <2>4 DEF Open
    <3> QED  BY <2>2, <2>7, <3>1 DEF OnceInv, InRange
  <2>10. CurOnce'
    BY <2>2, <2>3, <2>4, <2>7 DEF OnceInv, CurOnce, Open, InCur
  <2> QED  BY <2>3, <2>6, <2>8, <2>9, <2>10 DEF OnceInv, OwedOnce
<1>8. ASSUME NEW X, UNCHANGED flipvars, ~held_begin, DoneJobs' \subseteq DoneJobs, dones' \cap fences' = {},
             dones' \cup fences' \subseteq dones \cup fences \cup X,
             X = {} \/ (X = {cur.seq} /\ renderer \in InCur /\ renderer' \notin InCur),
             renderer' \in InCur => renderer \in InCur /\ cur'.seq = cur.seq,
             renderer' \in {"drained", "undrained"} => flip_next < MaxFlips
      PROVE  OnceInv'
  BY <1>8, <1>o, OnceKept
<1>9. CASE acquire_slot \/ slot_texture_failed \/ present_commit \/ no_texture
  <2>1. /\ UNCHANGED <<dones, flipvars, jobs>> /\ ~held_begin /\ renderer \in InCur /\ cur'.seq = cur.seq
        /\ \/ fences' = fences
           \/ fences' = fences \cup {cur.seq} /\ renderer' \notin InCur
        /\ renderer' \notin {"drained", "undrained"}
    <3>1. ASSUME acquire_slot PROVE <2>1
      BY <1>0, <3>1 DEF acquire_slot, held_begin, InCur
    <3>2. ASSUME slot_texture_failed PROVE <2>1
      BY <3>2 DEF slot_texture_failed, held_begin, InCur
    <3>3. ASSUME present_commit PROVE <2>1
      BY <3>3 DEF present_commit, held_begin, InCur
    <3>4. ASSUME no_texture PROVE <2>1
      BY <3>4 DEF no_texture, held_begin, InCur
    <3> QED  BY <1>9, <3>1, <3>2, <3>3, <3>4
  <2>2. DoneJobs' \subseteq DoneJobs
    BY <2>1 DEF DoneJobs
  <2>3. CASE fences' = fences
    <3>1. dones' \cap fences' = {} /\ dones' \cup fences' \subseteq dones \cup fences \cup {}
      BY <1>0, <2>1, <2>3
    <3> QED  BY <1>8, <2>1, <2>2, <3>1
  <2>4. CASE fences' = fences \cup {cur.seq} /\ renderer' \notin InCur
    <3>1. cur.seq \notin dones
      BY <2>1 DEF OnceInv, CurOnce, Open, Elsewhere, Pending
    <3>2. dones' \cap fences' = {} /\ dones' \cup fences' \subseteq dones \cup fences \cup {cur.seq}
      BY <1>0, <2>1, <2>4, <3>1
    <3> QED  BY <1>8, <2>1, <2>2, <2>4, <3>2
  <2> QED  BY <2>1, <2>3, <2>4
<1>10. CASE gpu_convert \/ gpu_fail \/ fences_given_up
  <2>1. /\ UNCHANGED <<flipvars, jobs, renderer, cur>> /\ ~held_begin
        /\ dones' \cup fences' \subseteq dones \cup fences /\ dones' \cap fences' = {}
    <3>1. ASSUME gpu_convert PROVE <2>1
      BY <1>0, <3>1 DEF gpu_convert, held_begin
    <3>2. ASSUME gpu_fail PROVE <2>1
      BY <1>0, <3>2 DEF gpu_fail, held_begin
    <3>3. ASSUME fences_given_up PROVE <2>1
      BY <1>0, <3>3 DEF fences_given_up, held_begin, hvars
    <3> QED  BY <1>10, <3>1, <3>2, <3>3
  <2>2. DoneJobs' \subseteq DoneJobs
    BY <2>1 DEF DoneJobs
  <2>3. dones' \cup fences' \subseteq dones \cup fences \cup {}
    BY <2>1
  <2>4. renderer' \in {"drained", "undrained"} => flip_next < MaxFlips
    BY <2>1 DEF OnceInv, InRange
  <2> QED  BY <1>8, <2>1, <2>2, <2>3, <2>4
<1>11. CASE /\ UNCHANGED <<flipvars, dones, fences>> /\ ~held_begin /\ DoneJobs' \subseteq DoneJobs
            /\ renderer' \in InCur => renderer \in InCur /\ cur'.seq = cur.seq
            /\ renderer' \in {"drained", "undrained"} => renderer' = renderer \/ cpu_drain
  <2>1. dones' \cap fences' = {} /\ dones' \cup fences' \subseteq dones \cup fences \cup {}
    BY <1>0, <1>11
  <2>2. renderer' \in {"drained", "undrained"} => flip_next < MaxFlips
    BY <1>11 DEF OnceInv, InRange, cpu_drain
  <2> QED  BY <1>8, <1>11, <2>1, <2>2
<1>12. CASE hold_texture
  <2>1. UNCHANGED <<flipvars, dones, fences>> /\ ~held_begin /\ renderer = "hold" /\ renderer' \in {"held_begin", "no_texture"}
        /\ cur'.seq = cur.seq
    BY <1>0, <1>12 DEF hold_texture, held_begin, gpuvars
  <2>2. DoneJobs' \subseteq DoneJobs
    BY <1>12, DoneStep DEF hold_texture, job_complete
  <2> QED  BY <1>11, <2>1, <2>2 DEF InCur
<1>13. ASSUME ~present_start, ~cpu_present, ~held_begin, ~(\E j \in jobs : job_complete(j) /\ ~f[j.i].completed),
              ~(\E j \in jobs : job_done(j)), ~(\E seq \in dones : run_done(seq)), ~release_held, ~hold_texture,
              ~acquire_slot, ~slot_texture_failed, ~present_commit, ~no_texture, ~gpu_convert, ~gpu_fail, ~fences_given_up
       PROVE  OnceInv'
  <2>1. DoneJobs' \subseteq DoneJobs
    BY <1>13, DoneStep
  <2>2. UNCHANGED <<flipvars, dones, fences>>
    BY <1>13
    DEF Next, Renderer, InPresent, Presenter, Gpu, JobStep, Watchdog, arm_timer, presenter_wake, Commit,
        cpu_drain, presenter_grant, presenter_take, held_take, presenter_park, present_failed, gpu_copy, job_release,
        job_complete, held_free, listener, held_timeout, GiveUpGpu, vars, gpuvars
  <2>3. \/ UNCHANGED <<renderer, cur>>
        \/ cpu_drain
        \/ renderer' \in {"wake", "commit_held", "idle"}
    BY <1>13
    DEF Next, Renderer, InPresent, Presenter, Gpu, JobStep, Watchdog, arm_timer, presenter_wake, Commit,
        presenter_grant, presenter_take, held_take, presenter_park, present_failed, gpu_copy, job_release,
        job_complete, held_free, listener, held_timeout, GiveUpGpu, vars
  <2>4. cpu_drain => renderer' \in {"drained", "undrained"}
    BY DEF cpu_drain
  <2> QED  BY <1>11, <1>13, <2>1, <2>2, <2>3, <2>4 DEF InCur
<1> QED
  BY <1>1, <1>2, <1>3, <1>4, <1>5, <1>6, <1>7, <1>9, <1>10, <1>12, <1>13

-----------------------------------------------------------------------------
(* The invariant and the theorems.                                         *)

\* The invariant holds at first.
LEMMA Initially == Init => FPInv
<1> SUFFICES ASSUME Init PROVE FPInv
  OBVIOUS
<1> USE DEF Init, QInit
<1>1. TInv
  <2>1. QInv
    BY NAssumption, PoliciesAssumption DEF QInv, QTypeOK, Slots, States, None
  <2>2. FInv
    <3>1. [state |-> "FREE", order |-> 0, completed |-> FALSE, seq |-> None] \in HeldRecs
      BY DEF HeldRecs, HeldStates, None
    <3> QED  BY <3>1 DEF FInv
  <2>3. CurInv
    BY MaxFlipsAssumption DEF CurInv, NoFrame, None
  <2>4. GpuInv /\ JobsInv
    BY DEF GpuInv, JobsInv, Events
  <2> QED  BY <2>1, <2>2, <2>3, <2>4 DEF TInv
<1>2. \A h \in Held : f[h].state = "FREE"
  OBVIOUS
<1>3. \A s \in Slots : state[s] = "FREE"
  OBVIOUS
<1>4. LentInv
  BY <1>3 DEF LentInv, Lent, Unclaimed
<1>5. TimerInv
  BY <1>2 DEF TimerInv, TimeoutCovers, FramesHeld, HeldIn
<1>6. WakeInv
  BY <1>3 DEF WakeInv, NoLostWakeup
<1>7. UseInv
  BY DEF UseInv, UseJobs, UseCopies, UseCur
<1>8. ConvInv
  BY DEF ConvInv, Bounded, Increasing, Coming, Begun, Events
<1>9. OrderInv
  BY <1>2, <1>3 DEF OrderInv, SlotOrder, HeldOrder, CurOrder, InCur
<1>10. OnceInv
  <2>1. Claimed = {} /\ DoneJobs = {} /\ Elsewhere = {} /\ Pending = {}
    BY DEF Claimed, DoneJobs, Elsewhere, Pending
  <2>2. \A h \in Held : ~Owing(h)
    BY <1>2 DEF Owing, Written
  <2> QED  BY <2>1, <2>2 DEF OnceInv, OneClaim, Apart, InRange, OwedOnce, CurOnce, InCur
<1> QED  BY <1>1, <1>4, <1>5, <1>6, <1>7, <1>8, <1>9, <1>10 DEF FPInv

\* Every step keeps the invariant.
LEMMA Inductive == FPInv /\ [Next]_vars => FPInv'
<1> QED  BY TypeStep, LentStep, TimerStep, WakeStep, UseStep, ConvStep, OrderStep, OnceStep DEF FPInv

\* The invariant holds always.
LEMMA Invariance == Spec => []FPInv
<1> QED  BY Initially, Inductive, PTL DEF Spec

(* CompleteFlip runs once per flip: HeldFlipDone, AfterGpu's fence, the    *)
(* timeout and release_held never complete the same flip twice.            *)
THEOREM EachFlipOnce == Spec => []CompletedOnce
<1>1. FPInv => CompletedOnce
  BY DEF FPInv, OnceInv, OneClaim, Apart, DoneJobs, Pending, CompletedOnce
<1> QED  BY <1>1, Invariance, PTL

(* hold_texture hands out a texture only when no copy reads it, no         *)
(* conversion will write it and no handler will free it.                   *)
THEOREM TexturesReused == Spec => []TextureReuse
<1>1. FPInv => TextureReuse
  <2> SUFFICES ASSUME FPInv, NEW h \in Held, f[h].state \in {"FREE", "RENDERING"}
               PROVE  /\ \A k \in 1 .. Len(pqueue) : ~(pqueue[k].e = "held" /\ pqueue[k].i = h)
                      /\ ~Hung => \A k \in 1 .. Len(gpuq) : ~(gpuq[k].e = "held" /\ gpuq[k].i = h)
                      /\ \A j \in jobs : ~(j.i = h /\ j.pc \in {"complete", "done", "listen", "free"})
    BY DEF TextureReuse
  <2>1. \A k \in 1 .. Len(pqueue) : ~(pqueue[k].e = "held" /\ pqueue[k].i = h)
    BY DEF FPInv, UseInv, UseCopies
  <2>2. ASSUME ~Hung, NEW k \in 1 .. Len(gpuq), gpuq[k].e = "held", gpuq[k].i = h PROVE FALSE
    <3>1. Coming(h, gpuq[k].value)
      BY <2>2 DEF Coming
    <3>2. gpuq[k].value \in 0 .. held_order
      <4>1. held_order \in Nat /\ gpuq[k].value \in Nat
        BY QueueTypes DEF FPInv, TInv, FInv
      <4> QED  BY <2>2, <4>1 DEF FPInv, ConvInv, Bounded
    <3>3. ToWrite(h, gpuq[k].value)
      BY <2>2, <3>1, <3>2 DEF FPInv, ConvInv
    <3> QED  BY <3>3 DEF ToWrite, Written
  <2>3. \A j \in jobs : ~(j.i = h /\ j.pc \in {"complete", "done", "listen", "free"})
    BY DEF FPInv, UseInv, UseJobs, OfHeld
  <2> QED  BY <2>1, <2>2, <2>3
<1> QED  BY <1>1, Invariance, PTL

(* presenter_main never sleeps while a slot or a held frame can be shown.  *)
THEOREM PresenterWoken == Spec => []NoLostWakeup
<1>1. FPInv => NoLostWakeup
  BY DEF FPInv, WakeInv
<1> QED  BY <1>1, Invariance, PTL

(* A queued held frame always has a held_timeout ahead of it, and only one. *)
THEOREM HeldFramesTimed == Spec => []TimeoutCovers
<1>1. FPInv => TimeoutCovers
  BY DEF FPInv, TimerInv
<1> QED  BY <1>1, Invariance, PTL

(* In the FIFO modes the drawable of the presenter goes to one frame.      *)
THEOREM DrawableLent == Spec => []DrawableLentOnce
<1>1. FPInv => DrawableLentOnce
  <2> SUFFICES ASSUME FPInv, ~mailbox
               PROVE  /\ Cardinality({s \in Slots : state[s] \in {"RENDERING", "QUEUED"}}) + credits <= 1
                      /\ presenter = "next" => credits = 0 /\ Unclaimed
    BY DEF DrawableLentOnce
  <2> DEFINE S == {s \in Slots : state[s] \in {"RENDERING", "QUEUED"}}
  <2>0. credits \in 0 .. 1
    BY DEF FPInv, TInv, QInv, QTypeOK
  <2>1. (presenter = "next" => credits = 0 /\ Unclaimed) /\ (credits > 0 => Unclaimed)
        /\ \A r, s \in S : r = s
    BY DEF FPInv, LentInv, Lent
  <2>2. CASE S = {}
    BY <2>0, <2>1, <2>2, FS_EmptySet
  <2>3. CASE S # {}
    <3>1. PICK s \in S : S = {s}
      BY <2>1, <2>3
    <3>2. Cardinality(S) = 1
      BY <3>1, FS_Singleton
    <3>3. credits = 0
      BY <2>0, <2>1, <2>3 DEF Unclaimed
    <3> QED  BY <2>1, <3>2, <3>3
  <2> QED  BY <2>2, <2>3
<1> QED  BY <1>1, Invariance, PTL

(* presenter_take and held_take show the flips in the guest's order.       *)
THEOREM FlipsInOrder == Spec => ScreenInOrder
<1>1. FPInv /\ [Next]_vars => (screen' # screen => screen' > screen)
  <2> SUFFICES ASSUME FPInv, [Next]_vars, screen' # screen PROVE screen' > screen
    OBVIOUS
  <2>1. CASE presenter_take
    <3>1. PICK s \in Slots : try_take_locked(s) /\ screen' = slot_seq[s]
      BY <2>1 DEF presenter_take
    <3>2. screen < slot_seq[s]
      BY <3>1 DEF FPInv, OrderInv, SlotOrder, try_take_locked, oldest_queued
    <3>3. screen \in Int /\ slot_seq[s] \in Int
      BY DEF FPInv, TInv, QInv
    <3> QED  BY <3>1, <3>2, <3>3
  <2>2. CASE held_take
    <3>1. PICK h \in Held : held_oldest_locked(h, "QUEUED") /\ screen' = f[h].seq
      BY <2>2 DEF held_take
    <3>2. screen < f[h].seq
      BY <3>1 DEF FPInv, OrderInv, HeldOrder, held_oldest_locked, HeldIn
    <3>3. screen \in Int /\ f[h].seq \in Int
      BY DEF FPInv, TInv, QInv, FInv, HeldRecs
    <3> QED  BY <3>1, <3>2, <3>3
  <2> QED
    BY <2>1, <2>2
    DEF Next, Renderer, InPresent, Presenter, Gpu, JobStep, Watchdog, present_start, acquire_slot, slot_texture_failed,
      present_commit, hold_texture, no_texture, held_begin, arm_timer, presenter_wake, Commit, cpu_drain, cpu_present,
      presenter_grant, presenter_park, gpu_convert, gpu_fail, present_failed, gpu_copy, job_release, job_complete,
      job_done, held_free, listener, held_timeout, run_done, GiveUpGpu, release_held, fences_given_up, vars
<1>2. FPInv /\ [Next]_vars => [screen' # screen => screen' > screen]_vars
  BY <1>1
<1> QED  BY <1>2, Invariance, PTL DEF Spec, ScreenInOrder

=============================================================================
