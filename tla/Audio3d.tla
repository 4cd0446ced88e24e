------------------------------ MODULE Audio3d -------------------------------
(***************************************************************************)
(* libSceAudio3d (ps4_audio3d.c): ports whose objects, bed and associated  *)
(* AudioOut handles queue grains, mixed by an advance and submitted by a   *)
(* push.  Everything runs under g_lock, which port_submit_locked releases  *)
(* around each output and port_close_locked while it waits for submissions *)
(* to leave; an action is the code from one lock to the next unlock.  A    *)
(* grain of PCM is the id of the object that queued it, a mixed grain its  *)
(* number in the port's life, an AudioOut handle is never opened twice.    *)
(***************************************************************************)
EXTENDS Naturals, Sequences, FiniteSets, FiniteSetsExt, SequencesExt

CONSTANTS A3dThreads,
          A3D_MAX_PORTS, A3D_MAX_ASSOC, A3D_MAX_OBJECTS,
          A3dDepth,     \* queue_depth of every port
          A3dModes,     \* buffer modes ports are opened with
          A3dOpens,     \* bound: ports and AudioOut handles opened
          A3dGrains,    \* bound: grains mixed, queued by objects and by handles, per port
          ReuseClosing  \* TRUE: a port may be opened, or the library started, while a port is being closed

ASSUME A3dAssumption ==
  /\ A3D_MAX_PORTS \in Nat \ {0} /\ A3D_MAX_ASSOC \in Nat /\ A3D_MAX_OBJECTS \in Nat
  /\ A3dModes \subseteq {"NO_ADVANCE", "ADVANCE_NO_PUSH", "ADVANCE_AND_PUSH"}
  /\ A3dDepth \in Nat \ {0} /\ A3dOpens \in Nat /\ A3dGrains \in Nat /\ ReuseClosing \in BOOLEAN

VARIABLES a3d_init,  \* g_initialized
          g_gen,
          a3d,       \* g_ports
          a3d_out,   \* AudioOut handles: the number opened, those open
          acall,     \* each thread's submission or close
          a3d_seen   \* what was output or discarded, and what the guest owns

a3d_vars == <<a3d_init, g_gen, a3d, a3d_out, acall, a3d_seen>>

A3dPorts == 1..A3D_MAX_PORTS
Slots == 1..A3D_MAX_OBJECTS
NoObject == [id |-> 0, unreserved |-> FALSE, pcm |-> <<>>]
NoAssoc == [handle |-> 0, pending |-> <<>>]
NoPort == [open |-> FALSE, gen |-> 0, mode |-> "NO_ADVANCE", pushing |-> 0, mixed |-> <<>>, bed |-> 0,
           objects |-> [s \in Slots |-> NoObject], next_id_gen |-> 0, out_handle |-> 0,
           assoc |-> [i \in 1..A3D_MAX_ASSOC |-> NoAssoc]]
Resting == [at |-> "idle", port |-> 1, gen |-> 0, i |-> 1, sync |-> TRUE, h |-> 0, grain |-> 0]
\* Grains mixed, output, PCM queued, played and reset, bus grains queued, and the ports the guest opened.
NoneSeen == [mixed |-> 0, out |-> {}, queued |-> 0, played |-> 0, reset |-> 0, bus |-> 0]

A3dInit ==
  /\ a3d_init = FALSE /\ g_gen = 0 /\ a3d = [p \in A3dPorts |-> NoPort]
  /\ a3d_out = [n |-> 0, open |-> {}] /\ acall = [t \in A3dThreads |-> Resting]
  /\ a3d_seen = [p \in A3dPorts |-> NoneSeen]

port_get(p) == a3d_init /\ a3d[p].open
Idle(t) == acall[t].at = "idle"
Submitting(p) == {t \in A3dThreads : acall[t].at = "output" /\ acall[t].port = p}
Closing(p) == {t \in A3dThreads : acall[t].at \in {"close", "terminate"} /\ acall[t].port = p}

-----------------------------------------------------------------------------
ps4_audio3d_initialize(t) ==
  /\ Idle(t) /\ ~a3d_init /\ (ReuseClosing \/ \A p \in A3dPorts : Closing(p) = {})
  /\ a3d_init' = TRUE /\ a3d' = [p \in A3dPorts |-> NoPort] /\ a3d_seen' = [p \in A3dPorts |-> NoneSeen]
  /\ UNCHANGED <<g_gen, a3d_out, acall>>

\* The first port that is not open and that no submission is in.
ps4_audio3d_port_open(t) ==
  LET free == {p \in A3dPorts : ~a3d[p].open /\ a3d[p].pushing = 0}
  IN  /\ Idle(t) /\ a3d_init /\ free # {} /\ g_gen < A3dOpens
      /\ ReuseClosing \/ \A p \in A3dPorts : Closing(p) = {}
      /\ \E mode \in A3dModes :
           a3d' = [a3d EXCEPT ![Min(free)] = [NoPort EXCEPT !.open = TRUE, !.gen = g_gen + 1, !.mode = mode]]
      /\ g_gen' = g_gen + 1 /\ a3d_seen' = [a3d_seen EXCEPT ![Min(free)] = NoneSeen]
      /\ UNCHANGED <<a3d_init, a3d_out, acall>>

HandlesOf(p) == {h \in {a3d[p].out_handle} \cup {a3d[p].assoc[i].handle : i \in 1..A3D_MAX_ASSOC} : h > 0}

\* port_close_locked for the ports in open, in order: each closes its AudioOut
\* handles, which wakes the submissions blocked on them, and is freed; the
\* first one with submissions in it has to be waited for.
close_ports(t, ports, open, from) ==
  LET busy == {p \in open : ports[p].pushing > 0}
      now == {p \in open : \A q \in busy : p < q}
      reached == IF busy = {} THEN now ELSE now \cup {Min(busy)}
      shut(p) == [ports[p] EXCEPT !.open = FALSE, !.out_handle = 0, !.assoc = [i \in DOMAIN @ |-> [@[i] EXCEPT !.handle = 0]]]
  IN  /\ a3d' = [p \in A3dPorts |-> IF p \in now THEN NoPort ELSE IF p \in reached THEN shut(p) ELSE ports[p]]
      /\ a3d_out' = [a3d_out EXCEPT !.open = @ \ UNION {HandlesOf(p) : p \in reached}]
      /\ acall' = [acall EXCEPT ![t] = IF busy = {} THEN Resting ELSE [Resting EXCEPT !.at = from, !.port = Min(busy)]]
      /\ a3d_init' = (a3d_init /\ ~(from = "terminate" /\ busy = {}))

ps4_audio3d_port_close(t, p) ==
  Idle(t) /\ port_get(p) /\ close_ports(t, a3d, {p}, "close") /\ UNCHANGED <<g_gen, a3d_seen>>

OpenFrom(n) == {p \in n..A3D_MAX_PORTS : a3d[p].open}
ps4_audio3d_terminate(t) ==
  Idle(t) /\ a3d_init /\ close_ports(t, a3d, OpenFrom(1), "terminate") /\ UNCHANGED <<g_gen, a3d_seen>>

\* Mutant: the port is freed without waiting for its submissions.
close_at_once(t) ==
  /\ acall[t].at = "close" /\ a3d' = [a3d EXCEPT ![acall[t].port] = NoPort]
  /\ acall' = [acall EXCEPT ![t] = Resting] /\ UNCHANGED <<a3d_init, g_gen, a3d_out, a3d_seen>>

\* The wait is over: port_free, and a terminate goes on with the later ports.
port_close_locked(t) ==
  LET p == acall[t].port
  IN  /\ acall[t].at \in {"close", "terminate"} /\ a3d[p].pushing = 0
      /\ close_ports(t, [a3d EXCEPT ![p] = NoPort], IF acall[t].at = "close" THEN {} ELSE OpenFrom(p + 1), acall[t].at)
      /\ UNCHANGED <<g_gen, a3d_seen>>

-----------------------------------------------------------------------------
\* The slot of object id (id = generation << 9 | slot; here by what it names).
object_get(p, id) == {s \in Slots : a3d[p].objects[s].id = id /\ id # 0}

ps4_audio3d_object_reserve(t, p) ==
  LET free == {s \in Slots : a3d[p].objects[s].id = 0}
      id == a3d[p].next_id_gen + 1
  IN  /\ Idle(t) /\ port_get(p) /\ free # {} /\ id <= A3dGrains
      /\ a3d' = [a3d EXCEPT ![p].objects[Min(free)] = [NoObject EXCEPT !.id = id], ![p].next_id_gen = id]
      /\ UNCHANGED <<a3d_init, g_gen, a3d_out, acall, a3d_seen>>

\* Mutant: the slot is free at once, whatever is queued.
unreserve_at_once(t, p, id) ==
  /\ Idle(t) /\ port_get(p)
  /\ \E s \in object_get(p, id) : a3d' = [a3d EXCEPT ![p].objects[s].id = 0]
  /\ UNCHANGED <<a3d_init, g_gen, a3d_out, acall, a3d_seen>>

\* An object with queued PCM keeps its slot until an advance has drained it.
ps4_audio3d_object_unreserve(t, p, id) ==
  /\ Idle(t) /\ port_get(p)
  /\ \E s \in object_get(p, id) :
       LET o == a3d[p].objects[s]
       IN  /\ ~o.unreserved
           /\ a3d' = [a3d EXCEPT ![p].objects[s] = IF o.pcm # <<>> THEN [o EXCEPT !.unreserved = TRUE] ELSE [o EXCEPT !.id = 0]]
  /\ UNCHANGED <<a3d_init, g_gen, a3d_out, acall, a3d_seen>>

\* The grains an object holds once a call's PCM attributes are applied.
apply_attributes(o, reset, grains) == (IF reset THEN <<>> ELSE o.pcm) \o [k \in 1..grains |-> o.id]

\* Attributes are validated and counted first, so a call that fails applies
\* none; RESET_STATE, wherever it stands, drops what was queued before.
ps4_audio3d_object_set_attributes(t, p, id) ==
  /\ Idle(t) /\ port_get(p)
  /\ \E s \in object_get(p, id), reset \in BOOLEAN, grains \in 0..A3dDepth :
       LET o == a3d[p].objects[s]
           pcm == apply_attributes(o, reset, grains)
       IN  /\ ~o.unreserved /\ Len(pcm) <= A3dDepth
           /\ a3d_seen[p].queued + grains <= A3dGrains
           /\ a3d' = [a3d EXCEPT ![p].objects[s].pcm = pcm]
           /\ a3d_seen' = [a3d_seen EXCEPT ![p].queued = @ + grains,
                                           ![p].reset = @ + Len(o.pcm) + grains - Len(pcm)]
  /\ UNCHANGED <<a3d_init, g_gen, a3d_out, acall>>

ps4_audio3d_bed_write(t, p) ==
  /\ Idle(t) /\ port_get(p) /\ a3d[p].bed < A3dDepth
  /\ a3d' = [a3d EXCEPT ![p].bed = @ + 1]
  /\ UNCHANGED <<a3d_init, g_gen, a3d_out, acall, a3d_seen>>

ps4_audio3d_audioout_open(t, p) ==
  LET free == {i \in 1..A3D_MAX_ASSOC : a3d[p].assoc[i].handle = 0}
  IN  /\ Idle(t) /\ port_get(p) /\ free # {} /\ a3d_out.n < A3dOpens
      /\ a3d_out' = [n |-> a3d_out.n + 1, open |-> a3d_out.open \cup {a3d_out.n + 1}]
      /\ a3d' = [a3d EXCEPT ![p].assoc[Min(free)] = [NoAssoc EXCEPT !.handle = a3d_out.n + 1]]
      /\ UNCHANGED <<a3d_init, g_gen, acall, a3d_seen>>

assoc_find(h) == {f \in A3dPorts \X (1..A3D_MAX_ASSOC) : port_get(f[1]) /\ a3d[f[1]].assoc[f[2]].handle = h /\ h # 0}

ps4_audio3d_audioout_close(t, h) ==
  /\ Idle(t)
  /\ \E f \in assoc_find(h) : a3d' = [a3d EXCEPT ![f[1]].assoc[f[2]] = NoAssoc]
  /\ a3d_out' = [a3d_out EXCEPT !.open = @ \ {h}]
  /\ UNCHANGED <<a3d_init, g_gen, acall, a3d_seen>>

\* Every entry must find its handle and room before one is queued.
ps4_audio3d_audioout_outputs(t, hs) ==
  /\ Idle(t)
  /\ \A h \in hs : \E f \in assoc_find(h) : Len(a3d[f[1]].assoc[f[2]].pending) < A3dDepth /\ a3d_seen[f[1]].bus < A3dGrains
  /\ LET given(p) == {i \in 1..A3D_MAX_ASSOC : a3d[p].open /\ a3d[p].assoc[i].handle \in hs}
     IN  /\ a3d' = [p \in A3dPorts |-> [a3d[p] EXCEPT !.assoc = [i \in DOMAIN @ |->
                      IF i \in given(p) THEN [@[i] EXCEPT !.pending = Append(@, a3d_seen[p].bus + 1)] ELSE @[i]]]]
         /\ a3d_seen' = [p \in A3dPorts |-> [a3d_seen[p] EXCEPT !.bus = @ + Cardinality(given(p))]]
  /\ UNCHANGED <<a3d_init, g_gen, a3d_out, acall>>

-----------------------------------------------------------------------------
\* port_mix_grain: a grain of every object that has one, and of the bed.
port_mix_grain(p) ==
  [p EXCEPT !.mixed = Append(@, 0), !.bed = IF @ > 0 THEN @ - 1 ELSE 0,
            !.objects = [s \in Slots |->
              LET o == p.objects[s]
                  rest == IF o.pcm = <<>> THEN <<>> ELSE Tail(o.pcm)
              IN  IF o.id = 0 \/ o.pcm = <<>> THEN o
                  ELSE IF o.unreserved /\ rest = <<>> THEN NoObject ELSE [o EXCEPT !.pcm = rest]]]

\* One round of port_submit_locked, from a lock to the next unlock: an
\* associated grain, else a mixed one, else the end of the submission.  An
\* asynchronous push stops at a handle that cannot take a grain now.
submit_round(t, p, gen, n, sync, port, entering) ==
  LET live == port.open /\ port.gen = gen
      ready(i) == live /\ port.assoc[i].handle > 0 /\ port.assoc[i].pending # <<>>
      here == [acall[t] EXCEPT !.at = "output", !.port = p, !.gen = gen, !.sync = sync]
      q == [port EXCEPT !.pushing = @ + entering]
  IN  \E full \in IF sync THEN {{}} ELSE SUBSET HandlesOf(p) :
        LET as == {i \in n..A3D_MAX_ASSOC : ready(i) /\ port.assoc[i].handle \notin full}
        IN  CASE as # {} ->
                   LET i == Min(as) IN
                   /\ a3d' = [a3d EXCEPT ![p] = [q EXCEPT !.assoc[i].pending = Tail(@)]]
                   /\ acall' = [acall EXCEPT ![t] = [here EXCEPT !.i = i, !.h = port.assoc[i].handle, !.grain = 0]]
              [] as = {} /\ live /\ port.mixed # <<>> /\ port.out_handle \notin full ->
                   /\ a3d' = [a3d EXCEPT ![p] = [q EXCEPT !.mixed = Tail(@)]]
                   /\ acall' = [acall EXCEPT ![t] = [here EXCEPT !.i = A3D_MAX_ASSOC + 1, !.h = port.out_handle, !.grain = Head(port.mixed)]]
              [] OTHER ->
                   /\ a3d' = [a3d EXCEPT ![p] = [q EXCEPT !.pushing = IF @ = 0 THEN 99 ELSE @ - 1]]
                   /\ acall' = [acall EXCEPT ![t] = Resting]

\* Entering a submission opens the port's own AudioOut handle.
submit(t, p, port, sync) ==
  LET opened == port.out_handle = 0
      h == IF opened THEN a3d_out.n + 1 ELSE port.out_handle
  IN  /\ a3d_out' = [n |-> IF opened THEN h ELSE a3d_out.n, open |-> a3d_out.open \cup {h}]
      /\ submit_round(t, p, port.gen, 1, sync, [port EXCEPT !.out_handle = h], 1)

ps4_audio3d_port_advance(t, p) ==
  LET next == a3d_seen[p].mixed + 1
      played == {s \in Slots : a3d[p].objects[s].id # 0 /\ a3d[p].objects[s].pcm # <<>>}
      mixed == [port_mix_grain(a3d[p]) EXCEPT !.mixed = Append(a3d[p].mixed, next)]
  IN  /\ Idle(t) /\ port_get(p) /\ a3d[p].mode # "NO_ADVANCE" /\ Len(a3d[p].mixed) < A3dDepth /\ next <= A3dGrains
      /\ IF a3d[p].mode = "ADVANCE_NO_PUSH" THEN submit(t, p, mixed, TRUE)
         ELSE a3d' = [a3d EXCEPT ![p] = mixed] /\ UNCHANGED <<a3d_out, acall>>
      /\ a3d_seen' = [a3d_seen EXCEPT ![p].mixed = next, ![p].played = @ + Cardinality(played)]
      /\ UNCHANGED <<a3d_init, g_gen>>

ps4_audio3d_port_push(t, p) ==
  /\ Idle(t) /\ port_get(p) /\ a3d[p].mode = "ADVANCE_AND_PUSH"
  /\ \E sync \in BOOLEAN : submit(t, p, a3d[p], sync)
  /\ UNCHANGED <<a3d_init, g_gen, a3d_seen>>

\* ps4_audioout_port_output returned: the grain is with AudioOut, or its handle
\* was closed meanwhile, which ends the submission.
submit_outputs(t) ==
  LET c == acall[t]
      given == c.h \in a3d_out.open
  IN  /\ c.at = "output"
      /\ IF given THEN submit_round(t, c.port, c.gen, c.i, c.sync, a3d[c.port], 0)
         ELSE /\ a3d' = [a3d EXCEPT ![c.port].pushing = IF @ = 0 THEN 99 ELSE @ - 1]
              /\ acall' = [acall EXCEPT ![t] = Resting]
      /\ a3d_seen' = IF given /\ c.grain > 0 THEN [a3d_seen EXCEPT ![c.port].out = @ \cup {c.grain}] ELSE a3d_seen
      /\ UNCHANGED <<a3d_init, g_gen, a3d_out>>

A3dNext == \E t \in A3dThreads :
  \/ ps4_audio3d_initialize(t) \/ ps4_audio3d_port_open(t) \/ ps4_audio3d_terminate(t)
  \/ port_close_locked(t) \/ submit_outputs(t)
  \/ \E p \in A3dPorts :
       \/ ps4_audio3d_port_close(t, p) \/ ps4_audio3d_object_reserve(t, p) \/ ps4_audio3d_bed_write(t, p)
       \/ ps4_audio3d_audioout_open(t, p) \/ ps4_audio3d_port_advance(t, p) \/ ps4_audio3d_port_push(t, p)
       \/ \E id \in 1..A3dGrains : ps4_audio3d_object_unreserve(t, p, id) \/ ps4_audio3d_object_set_attributes(t, p, id)
  \/ \E h \in a3d_out.open : ps4_audio3d_audioout_close(t, h)
  \/ \E hs \in SUBSET a3d_out.open \ {{}} : ps4_audio3d_audioout_outputs(t, hs)

A3dSpec == A3dInit /\ [][A3dNext]_a3d_vars

-----------------------------------------------------------------------------
\* "A port being closed still has threads leaving a push: not reusable yet"
\* (port_open in ps4_audio3d.c): the slot a close waits on, and will free when
\* the last submission has left it, is not opened meanwhile.
ClosingNotReused == \A p \in A3dPorts : Closing(p) # {} => ~a3d[p].open

\* A submission's port stays as it is until the submission has left it (its
\* pushing count is exact and its slot is not given to another port), and no
\* close frees a port opened after it.  While a port is open each of its
\* grains is queued, in exactly one submission or output, and PCM is played
\* by the object that queued it unless that object is reset.
GrainsConserved == ClosingNotReused /\ \A p \in A3dPorts :
  LET port == a3d[p]
      inflight == {t \in Submitting(p) : acall[t].grain > 0}
      waiting == Range(port.mixed)
  IN  /\ port.pushing = Cardinality(Submitting(p))
      /\ \A t \in Submitting(p) : port.gen = acall[t].gen
      /\ port.open =>
           /\ 1..a3d_seen[p].mixed = waiting \cup {acall[t].grain : t \in inflight} \cup a3d_seen[p].out
           /\ a3d_seen[p].mixed = Len(port.mixed) + Cardinality(inflight) + Cardinality(a3d_seen[p].out)
           /\ a3d_seen[p].queued = a3d_seen[p].played + a3d_seen[p].reset + FoldSet(LAMBDA s, n : n + Len(port.objects[s].pcm), 0, Slots)
           /\ \A s \in Slots : /\ Range(port.objects[s].pcm) \subseteq {port.objects[s].id}
                               /\ \A r \in Slots : r # s /\ port.objects[s].id # 0 => port.objects[r].id # port.objects[s].id
=============================================================================
