---------------------------- MODULE FiberProofs ----------------------------
(***************************************************************************)
(* Proofs about Fiber for any number of guest threads, fibers, lookups and *)
(* slots, with and without ThreadMode.                                     *)
(*                                                                         *)
(* The invariant has a part common to both modes (what objects, claims,    *)
(* the table of workers and the lookups hold) and a part for each mode.    *)
(* Without ThreadMode the argument is about stacks: cpu is injective, a    *)
(* host thread is on the stack its tl_fiber_self names except between the  *)
(* last store of a hand-over and the switch, and a fiber whose release is  *)
(* pending is on no stack or on the one about to be left.  With ThreadMode *)
(* it is about a token per guest thread: exactly one endpoint runs for it  *)
(* or has a pending post, and current names the endpoint that has it.      *)
(***************************************************************************)
EXTENDS Fiber, FiniteSetTheorems, TLAPS

Labels == {"none", "dead", "guest", "worker", "publish", "checks", "claimed", "idle", "ready", "create", "post",
           "reclaim", "regain", "undo", "finalize", "clear", "return", "returned", "wait", "killed", "switch",
           "finish", "exit"}
LookRecs == [at : {"off", "begin", "slot", "worker", "fiber"}, i : Nat, n : 0 .. MaxSlots,
             w : Workers \cup {None}, h : Hosts \cup {None}]
FTypes == TypeOK /\ pc \in [Procs -> Labels] /\ look \in [Lookers -> LookRecs] /\ scenario \in Scenarios

\* Labels at which a call has claimed its target to run it, and to end it.
RunClaim == {"worker", "publish", "checks", "claimed", "idle", "ready", "create", "post", "reclaim", "regain", "undo"}
EndClaim == {"finalize", "clear"}
\* Labels at which a call knows its worker.
WorkerCall == RunClaim \cup {"return", "returned", "switch"}

\* The fiber is live and its object names it.
Whole(h) == hstat[h] = "live" /\ obj[h] # None /\ host[obj[h]] = h
Untargeted(h) == \A e \in Procs : tgt[e] # obj[h]

NamedLive ==
  \A o \in Objects : host[o] # None /\ state[o] # "FINALIZED" => hstat[host[o]] = "live" /\ obj[host[o]] = o
NamedUsed == \A o \in Objects : host[o] # None => hstat[host[o]] # "unused"
NamedOnce == \A o, q \in Objects : host[o] # None /\ host[o] = host[q] => o = q
UnusedClean == \A h \in Hosts : hstat[h] = "unused" => ~started[h] /\ ~kill[h] /\ ~baton[h]
LiveNamed == \A h \in Hosts : hstat[h] = "live" => obj[h] # None
LiveKept == \A h \in Hosts : hstat[h] = "live" /\ host[obj[h]] # h => kill[h]
ObjectInv ==
  /\ NamedLive /\ NamedUsed /\ NamedOnce /\ UnusedClean /\ LiveNamed /\ LiveKept

\* A claimed object is claimed by one call, and its state says what for.
ClaimHasTarget == \A e \in Procs : pc[e] \in RunClaim \cup EndClaim => tgt[e] # None
TargetClaimed ==
  \A e \in Procs : tgt[e] # None =>
     /\ pc[e] \in RunClaim \cup EndClaim \cup {"switch"} /\ host[tgt[e]] # None
     /\ state[tgt[e]] = IF pc[e] \in EndClaim THEN "FINALIZED" ELSE "RUNNING"
ClaimedOnce == \A d, e \in Procs : tgt[d] # None /\ tgt[d] = tgt[e] => d = e
EndedWhole ==
  \A e \in Procs : pc[e] = "finalize" =>
     hstat[host[tgt[e]]] = "live" /\ obj[host[tgt[e]]] = tgt[e] /\ ~kill[host[tgt[e]]]
ClearedGone == \A e \in Procs : pc[e] = "clear" => hstat[host[tgt[e]]] = "freed" \/ kill[host[tgt[e]]]
ClaimInv ==
  /\ ClaimHasTarget /\ TargetClaimed /\ ClaimedOnce /\ EndedWhole /\ ClearedGone

ListedLive ==
  \A i \in 1 .. MaxSlots : table[i] # None =>
     /\ slot[table[i]] = i /\ i <= nworkers /\ wstat[table[i]] = "live"
     /\ pc[table[i]] \notin {"exit", "dead", "worker", "publish"}
LiveListed == \A w \in Workers : wstat[w] = "live" /\ slot[w] # 0 /\ pc[w] # "exit" => table[slot[w]] = w
ScanBounded == \A w \in Workers : scan[w].n <= nworkers
Publishing == \A w \in Workers : pc[w] = "publish" => wstat[w] = "live" /\ scan[w].i >= 1 /\ slot[w] = 0
ExitLive == \A w \in Workers : pc[w] = "exit" => wstat[w] = "live"
NoWorkerNoSlot == \A w \in Workers : wstat[w] = "none" => slot[w] = 0
WorkerNew == \A w \in Workers : pc[w] = "worker" => wstat[w] = "none"
HostLabels == \A h \in Hosts : pc[h] \notin {"worker", "publish", "checks", "exit"}
TableInv ==
  /\ ListedLive /\ LiveListed /\ ScanBounded /\ Publishing /\ ExitLive /\ NoWorkerNoSlot
  /\ WorkerNew /\ HostLabels

OffEmpty == \A l \in Lookers : look[l].at = "off" => look[l].w = None /\ look[l].h = None
ScansFromOne == \A l \in Lookers : look[l].at \in {"slot", "worker", "fiber"} => look[l].i >= 1
HasWorker == \A l \in Lookers : look[l].at \in {"worker", "fiber"} => look[l].w # None
WorkerSafe == \A l \in Lookers : look[l].w # None => wstat[look[l].w] = "live" /\ slot[look[l].w] # 0
FiberSafe == \A l \in Lookers : look[l].h # None => hstat[look[l].h] = "live"
LookInv ==
  /\ OffEmpty /\ ScansFromOne /\ HasWorker /\ WorkerSafe /\ FiberSafe

-----------------------------------------------------------------------------
(* Coroutine mode: the stacks.                                             *)

\* The endpoint the thread is on, or is about to be on.
Target(w) == IF tl[w] = None THEN w ELSE tl[w]

HostsOff == \A h \in Hosts : cpu[h] = None
WorkersOn == \A w \in Workers : cpu[w] \in Hosts \cup {w}
LeftFinishes == \A h \in Hosts : pc[h] # "finish" => \E w \in Workers : cpu[w] = h
ThreadFinishes == \A w \in Workers : pc[w] # "finish" => cpu[w] = w
StackOnce == \A v, w \in Workers : cpu[v] = cpu[w] => v = w
OnTarget == \A w \in Workers : pc[cpu[w]] # "switch" => cpu[w] = Target(w)
LeavesForFiber == \A w \in Workers : pc[cpu[w]] = "switch" /\ cpu[w] = w => tl[w] # None
CpuInv ==
  /\ HostsOff /\ WorkersOn /\ LeftFinishes /\ ThreadFinishes /\ StackOnce /\ OnTarget
  /\ LeavesForFiber

SelfWhole == \A w \in Workers : tl[w] # None => hworker[tl[w]] = w /\ Whole(tl[w])
CallWorker == \A w \in Workers : pc[cpu[w]] \in WorkerCall => wk[cpu[w]] = w
CurrentSelf == \A w \in Workers : current[w] = IF pc[cpu[w]] = "return" THEN None ELSE tl[w]
TcbCurrent == \A w \in Workers : tcb[w] = IF current[w] = None THEN w ELSE current[w]
SelfState ==
  \A w \in Workers : tl[w] # None => state[obj[tl[w]]] = IF pc[cpu[w]] = "ready" THEN "SUSPENDING" ELSE "RUNNING"
SelfInv ==
  /\ SelfWhole /\ CallWorker /\ CurrentSelf /\ TcbCurrent /\ SelfState

LeftReleases ==
  \A w \in Workers : cpu[w] \in Hosts /\ pc[cpu[w]] = "switch" => Whole(cpu[w]) /\ release[Target(w)] = obj[cpu[w]]
ReleaseSuspending ==
  \A e \in Procs : release[e] # None => state[release[e]] = "SUSPENDING" /\ host[release[e]] # None
ReleasedNotSelf == \A e \in Procs, w \in Workers : release[e] # None => tl[w] # host[release[e]]
ReleasedOnStack ==
  \A e \in Procs, w \in Workers : release[e] # None /\ cpu[w] = host[release[e]] =>
     pc[cpu[w]] = "switch" /\ Target(w) = e
ReleaserRuns ==
  \A e \in Procs : release[e] # None => \E w \in Workers : Target(w) = e /\ pc[cpu[w]] \in {"switch", "finish"}
ReleaseOnce == \A d, e \in Procs : release[d] # None /\ release[d] = release[e] => d = e
ReleaseInv ==
  /\ LeftReleases /\ ReleaseSuspending /\ ReleasedNotSelf /\ ReleasedOnStack /\ ReleaserRuns
  /\ ReleaseOnce

EntersOther == \A e \in Procs, w \in Workers : tgt[e] # None /\ pc[e] # "switch" => tl[w] # host[tgt[e]]
EntersTarget == \A w \in Workers : pc[cpu[w]] = "switch" /\ tgt[cpu[w]] # None => tl[w] = host[tgt[cpu[w]]]
EnterInv ==
  /\ EntersOther /\ EntersTarget

\* What only ThreadMode uses.
NoThreads ==
  /\ \A h \in Hosts : ~started[h] /\ ~kill[h] /\ ~baton[h]
  /\ \A w \in Workers : pc[w] \notin {"claimed", "ready", "return"}
  /\ \A e \in Procs : pc[e] \notin {"none", "wait", "idle", "create", "post", "reclaim", "regain", "undo", "returned", "killed"}
  /\ \A h \in Hosts : pc[h] # "dead"

CoInv == CpuInv /\ SelfInv /\ ReleaseInv /\ EnterInv /\ NoThreads

-----------------------------------------------------------------------------
(* Thread mode: the token.                                                 *)

\* A fiber's thread runs and nobody else may claim the fiber.
SelfRun == {"guest", "claimed", "idle", "regain", "undo", "finalize", "clear", "return"}
\* A fiber that suspends and whose hand-over may fail.
Failing(h) == scenario.create_fails /\ pc[h] \in {"ready", "create", "reclaim"}
Unrun(h) == host[obj[h]] = h /\ ~baton[h] /\ ~kill[h] /\ Untargeted(h)
\* The thread may be posted to: it waits, or is on its way there.
Suspends == {"ready", "create", "post", "returned", "wait"}

HasTok(e) == pc[e] \notin {"none", "dead", "wait", "killed"}
TokOf(e) == IF e \in Workers THEN e ELSE IF pc[e] \in {"guest", "finalize", "clear"} THEN hworker[e] ELSE wk[e]
Posted(e) == baton[e] /\ (e \in Hosts => ~kill[e])
PostOf(e) == IF e \in Workers THEN e ELSE hworker[e]

OwnThread == \A p \in Procs : cpu[p] = p /\ tl[p] = IF p \in Hosts THEN p ELSE None
NoSwitch == \A p \in Procs : pc[p] \notin {"switch", "finish"}
WorkerLabels ==
  \A w \in Workers : pc[w] \notin {"none", "killed", "claimed", "idle", "reclaim", "regain", "return", "returned"}
StartedRuns == \A h \in Hosts : started[h] <=> pc[h] \notin {"none", "dead"}
RunsLive == \A h \in Hosts : pc[h] \notin {"none", "dead"} => hstat[h] = "live"
ThreadInv ==
  /\ OwnThread /\ NoSwitch /\ WorkerLabels /\ StartedRuns /\ RunsLive

RunsWhole == \A h \in Hosts : pc[h] \in SelfRun => Unrun(h) /\ state[obj[h]] = "RUNNING"
FailsWhole == \A h \in Hosts : Failing(h) => Unrun(h) /\ state[obj[h]] = "IDLE"
RunsOnItsWorker ==
  \A h \in Hosts : pc[h] \in WorkerCall /\ (pc[h] \in SelfRun \/ Failing(h)) => wk[h] = hworker[h]
ReclaimFails == \A h \in Hosts : pc[h] = "reclaim" => scenario.create_fails
FailsUnposted == \A h \in Hosts : scenario.create_fails /\ HasTok(h) => ~kill[h] /\ ~baton[h]
RunInv ==
  /\ RunsWhole /\ FailsWhole /\ RunsOnItsWorker /\ ReclaimFails /\ FailsUnposted

BatonSuspends == \A h \in Hosts : baton[h] => pc[h] \in Suspends
PostedWhole == \A h \in Hosts : Posted(h) => host[obj[h]] = h /\ state[obj[h]] = "RUNNING" /\ Untargeted(h)
KillSuspends == \A h \in Hosts : kill[h] => hstat[h] = "live" /\ pc[h] \in Suspends \cup {"killed"}
KillEnds == \A h \in Hosts : kill[h] /\ host[obj[h]] = h => state[obj[h]] = "FINALIZED"
KilledIsKill == \A h \in Hosts : pc[h] = "killed" => kill[h]
BatonInv ==
  /\ BatonSuspends /\ PostedWhole /\ KillSuspends /\ KillEnds /\ KilledIsKill

TokenAlive == \A e \in Procs : HasTok(e) => TokOf(e) \in scenario.guests
TokenWaited == \A h \in Hosts : HasTok(h) => pc[TokOf(h)] = "wait"
PostAlive == \A e \in Procs : Posted(e) => PostOf(e) \in scenario.guests /\ pc[PostOf(e)] = "wait"
TokenOnce == \A d, e \in Procs : HasTok(d) /\ HasTok(e) /\ TokOf(d) = TokOf(e) => d = e
TokenNotPosted == \A d, e \in Procs : HasTok(d) /\ Posted(e) => TokOf(d) # PostOf(e)
PostOnce == \A d, e \in Procs : Posted(d) /\ Posted(e) /\ PostOf(d) = PostOf(e) => d = e
TokenInv ==
  /\ TokenAlive /\ TokenWaited /\ PostAlive /\ TokenOnce /\ TokenNotPosted /\ PostOnce

CallHasWorker == \A e \in Procs : pc[e] \in WorkerCall => wk[e] \in Workers
WorkerOfItself == \A w \in Workers : pc[w] \in WorkerCall => wk[w] = w
CallInv ==
  /\ CallHasWorker /\ WorkerOfItself

\* Labels at which a fiber is its worker's current one.
Holds == {"guest", "claimed", "finalize", "clear", "undo"}
\* The call e hands the worker w to the fiber h.
Handing == {"idle", "ready", "create", "post"}
HandsTo(e, w, h) == pc[e] \in Handing /\ TokOf(e) = w /\ host[tgt[e]] = h

CurrentHasToken ==
  \A w \in Workers, h \in Hosts : current[w] = h =>
     \/ pc[h] \in Holds /\ TokOf(h) = w
     \/ Posted(h) /\ hworker[h] = w
     \/ \E e \in Procs : HandsTo(e, w, h)
HolderCurrent == \A h \in Hosts : pc[h] \in Holds => current[TokOf(h)] = h
PostedCurrent == \A h \in Hosts : Posted(h) => current[hworker[h]] = h
HandedCurrent ==
  \A e \in Procs : pc[e] \in {"create", "post"} \/ (e \in Hosts /\ pc[e] \in {"idle", "ready"}) => current[wk[e]] = host[tgt[e]]
CurrentInv ==
  /\ CurrentHasToken /\ HolderCurrent /\ PostedCurrent /\ HandedCurrent

HandWorker == \A e \in Procs : pc[e] \in {"create", "post"} => hworker[host[tgt[e]]] = wk[e]
PostStarted == \A e \in Procs : pc[e] = "post" => started[host[tgt[e]]]
CreateUnstarted == \A e \in Procs : pc[e] = "create" => ~started[host[tgt[e]]]
HandInv ==
  /\ HandWorker /\ PostStarted /\ CreateUnstarted

TokenTcb ==
  \A h \in Hosts : HasTok(h) => tcb[TokOf(h)] = IF pc[h] \in {"return", "returned"} THEN TokOf(h) ELSE h
ThreadTcb == \A w \in Workers : HasTok(w) \/ Posted(w) => tcb[w] = w
PostedTcb == \A h \in Hosts : Posted(h) => tcb[hworker[h]] = h
TcbInv ==
  /\ TokenTcb /\ ThreadTcb /\ PostedTcb

ThInv == ThreadInv /\ RunInv /\ BatonInv /\ CallInv /\ TokenInv /\ CurrentInv /\ HandInv /\ TcbInv

Base == FTypes /\ ObjectInv /\ ClaimInv /\ TableInv /\ LookInv
FIInv == Base /\ (ThreadMode => ThInv) /\ (~ThreadMode => CoInv)

\* A pthread_create may fail only where the program has one guest thread: with
\* another one fiber_resume's caller runs on although it no longer owns itself,
\* and RunningIsCurrent is false.
FailsAlone == \A s \in Scenarios : s.create_fails => \A v, w \in s.guests : v = w

-----------------------------------------------------------------------------
(* No lookup is in progress when g_lookups is 0.                           *)
LEMMA NoLookups ==
  ASSUME FTypes, g_lookups = 0
  PROVE  \A l \in Lookers : look[l].at = "off"
<1> DEFINE on == {l \in Lookers : look[l].at # "off"}
<1>1. IsFiniteSet(on)
  BY FS_Subset, SetsAssumption
<1>2. on = {}
  BY <1>1, FS_EmptySet DEF g_lookups
<1> QED  BY <1>2

(* The endpoint a host thread is on: a guest thread's own code only on the *)
(* guest thread's host thread, a fiber's own thread only with ThreadMode.  *)
LEMMA OnCpu ==
  ASSUME FIInv, NEW p \in Procs, cpu[p] # None
  PROVE  /\ cpu[p] \in Procs /\ cpu[p] \notin {None}
         /\ cpu[p] \in Workers => cpu[p] = p
         /\ p \in Hosts => cpu[p] = p
         /\ ThreadMode => cpu[p] = p
         /\ ~ThreadMode => p \in Workers /\ cpu[p] \in Hosts \cup {p}
<1> USE SetsAssumption DEF FIInv, Base, FTypes, TypeOK, Procs
<1>1. CASE ThreadMode
  BY <1>1 DEF ThInv, ThreadInv, OwnThread
<1>2. CASE ~ThreadMode
  BY <1>2 DEF CoInv, CpuInv, HostsOff, WorkersOn
<1> QED  BY <1>1, <1>2

(* A fiber in a call of its own is whole and RUNNING, and no call claims   *)
(* it, so that the store to its state is nobody else's business.           *)
LEMMA SelfRunning ==
  ASSUME FIInv, NEW p \in Procs, cpu[p] # None, tl[p] # None \/ pc[cpu[p]] # "guest",
         pc[cpu[p]] \in {"guest", "claimed", "idle", "regain", "return"}
  PROVE  \E s \in Hosts, q \in Objects :
           /\ s = tl[p] /\ q = obj[s] /\ host[q] = s /\ hstat[s] = "live" /\ state[q] = "RUNNING"
           /\ \A d \in Procs : tgt[d] # q
           /\ hworker[s] \in Workers /\ (~ThreadMode => hworker[s] = p)
<1> USE SetsAssumption DEF FIInv, Base, Procs
<1>1. CASE ThreadMode
  <2>1. tl[p] = p /\ p \in Hosts /\ pc[p] \in SelfRun
    BY <1>1, OnCpu DEF ThInv, ThreadInv, OwnThread, WorkerLabels, SelfRun
  <2>2. Unrun(p) /\ state[obj[p]] = "RUNNING" /\ hstat[p] = "live"
    BY <1>1, <2>1 DEF ThInv, ThreadInv, RunInv, RunsWhole, RunsLive, SelfRun
  <2>3. hworker[p] \in Workers
    <3>1. pc[p] \in {"guest", "claimed", "idle", "regain", "return"}
      BY <1>1, OnCpu
    <3>2. CASE pc[p] = "guest"
      BY <1>1, <2>1, <3>2 DEF ThInv, TokenInv, TokenAlive, HasTok, TokOf, FTypes, TypeOK
    <3>3. CASE pc[p] # "guest"
      <4>1. pc[p] \in WorkerCall
        BY <3>1, <3>3 DEF WorkerCall, RunClaim
      <4>2. hworker[p] = wk[p]
        BY <1>1, <2>1, <4>1 DEF ThInv, RunInv, RunsOnItsWorker
      <4> QED  BY <1>1, <4>1, <4>2 DEF ThInv, CallInv, CallHasWorker
    <3> QED  BY <3>2, <3>3
  <2> QED  BY <1>1, <2>1, <2>2, <2>3 DEF ObjectInv, LiveNamed, Unrun, Untargeted, FTypes, TypeOK
<1>2. CASE ~ThreadMode
  <2>1. p \in Workers /\ tl[p] \in Hosts /\ obj[tl[p]] \in Objects \cup {None}
    BY <1>2, OnCpu DEF CoInv, CpuInv, OnTarget, Target, NoThreads, FTypes, TypeOK
  <2>2. Whole(tl[p]) /\ state[obj[tl[p]]] = "RUNNING" /\ hworker[tl[p]] = p
    BY <1>2, <2>1 DEF CoInv, SelfInv, SelfWhole, SelfState
  <2>3. ASSUME NEW e \in Procs, tgt[e] = obj[tl[p]] PROVE FALSE
    <3>1. tgt[e] # None /\ host[tgt[e]] = tl[p]
      BY <2>2, <2>3 DEF Whole
    <3>2. pc[e] = "switch"
      BY <1>2, <2>1, <3>1 DEF CoInv, EnterInv, EntersOther
    <3>3. PICK w \in Workers : cpu[w] = e
      BY <1>2, <3>2 DEF CoInv, CpuInv, LeftFinishes, ThreadFinishes
    <3>4. tl[w] = tl[p]
      BY <1>2, <3>1, <3>2, <3>3 DEF CoInv, EnterInv, EntersTarget
    <3>5. w = p
      BY <1>2, <2>1, <3>4 DEF CoInv, SelfInv, SelfWhole
    <3> QED  BY <3>2, <3>3, <3>5
  <2> QED  BY <1>2, <2>1, <2>2, <2>3 DEF Whole
<1> QED  BY <1>1, <1>2

(* A call that runs or leaves a fiber knows its worker.                    *)
LEMMA CallersWorker ==
  ASSUME FIInv, NEW p \in Procs, cpu[p] # None, pc[cpu[p]] \in WorkerCall
  PROVE  /\ wk[cpu[p]] \in Workers /\ (cpu[p] \in Workers => wk[cpu[p]] = cpu[p])
         /\ ~ThreadMode => wk[cpu[p]] = p
<1> USE SetsAssumption DEF FIInv, Base, Procs
<1>1. CASE ThreadMode
  BY <1>1, OnCpu DEF ThInv, CallInv, CallHasWorker, WorkerOfItself
<1>2. CASE ~ThreadMode
  BY <1>2, OnCpu DEF CoInv, SelfInv, CallWorker
<1> QED  BY <1>1, <1>2

(* What a call holds that has claimed the object o with the fiber h.       *)
LEMMA Claimed ==
  ASSUME FIInv, NEW e \in Procs, pc[e] \in RunClaim \cup EndClaim
  PROVE  \E o \in Objects, h \in Hosts :
           /\ o = tgt[e] /\ h = host[o] /\ \A d \in Procs : tgt[d] = o => d = e
           /\ \A q \in Objects : host[q] = h => q = o
           /\ state[o] = IF pc[e] \in EndClaim THEN "FINALIZED" ELSE "RUNNING"
           /\ pc[e] \in RunClaim \cup {"finalize"} => hstat[h] = "live" /\ obj[h] = o
<1> USE SetsAssumption DEF FIInv, Base
<1>1. PICK o \in Objects : o = tgt[e]
  BY DEF ClaimInv, ClaimHasTarget, FTypes, TypeOK
<1>2. PICK h \in Hosts : h = host[o]
  BY <1>1 DEF ClaimInv, TargetClaimed, FTypes, TypeOK
<1>3. state[o] = IF pc[e] \in EndClaim THEN "FINALIZED" ELSE "RUNNING"
  BY <1>1, <1>2 DEF ClaimInv, TargetClaimed
<1>4. \A d \in Procs : tgt[d] = o => d = e
  BY <1>1 DEF ClaimInv, ClaimedOnce
<1>5. \A q \in Objects : host[q] = h => q = o
  BY <1>2 DEF ObjectInv, NamedOnce
<1>6. pc[e] \in RunClaim \cup {"finalize"} => hstat[h] = "live" /\ obj[h] = o
  BY <1>1, <1>2, <1>3 DEF ObjectInv, NamedLive, ClaimInv, EndedWhole, RunClaim, EndClaim
<1> QED  BY <1>1, <1>2, <1>3, <1>4, <1>5, <1>6

(* With ThreadMode the thread of a claimed fiber does not run: it is new,  *)
(* suspends or waits, unposted.                                            *)
LEMMA ClaimedWaits ==
  ASSUME FIInv, ThreadMode, NEW e \in Procs, NEW o \in Objects, NEW h \in Hosts,
         o = tgt[e], h = host[o], obj[h] = o
  PROVE  /\ pc[h] \in Suspends \cup {"none", "dead", "killed"}
         /\ ~Posted(h) /\ ~Failing(h)
         /\ state[o] # "FINALIZED" => ~kill[h] /\ ~baton[h] /\ pc[h] # "killed"
<1> USE SetsAssumption DEF FIInv, Base, Procs
<1>1. ~Unrun(h)
  BY DEF Unrun, Untargeted
<1>2. pc[h] \notin SelfRun /\ ~Failing(h)
  BY <1>1 DEF ThInv, RunInv, RunsWhole, FailsWhole
<1>3. pc[h] # "reclaim"
  BY <1>2 DEF ThInv, RunInv, ReclaimFails, Failing
<1>4. ~Posted(h)
  BY DEF ThInv, BatonInv, PostedWhole, Untargeted
<1>5. pc[h] \in Labels /\ pc[h] \notin {"worker", "publish", "checks", "exit", "switch", "finish"}
  BY DEF FTypes, TableInv, HostLabels, ThInv, ThreadInv, NoSwitch
<1>6. state[o] # "FINALIZED" => ~kill[h]
  BY DEF ThInv, BatonInv, KillEnds
<1> QED
  BY <1>2, <1>3, <1>4, <1>5, <1>6 DEF Labels, SelfRun, Suspends, Posted, ThInv, BatonInv, KilledIsKill

(* Without it no host thread is on a claimed fiber's stack for its own     *)
(* sake, and none releases it.                                             *)
LEMMA ClaimedOff ==
  ASSUME FIInv, ~ThreadMode, NEW e \in Procs, NEW o \in Objects, NEW h \in Hosts,
         pc[e] \in RunClaim \cup EndClaim, o = tgt[e], h = host[o]
  PROVE  /\ \A w \in Workers : tl[w] # h
         /\ \A d \in Procs : release[d] # o
         /\ obj[h] = o => \A w \in Workers : cpu[w] # h
<1> USE SetsAssumption DEF FIInv, Base, Procs
<1>1. \A w \in Workers : tl[w] # h
  BY DEF CoInv, EnterInv, EntersOther, RunClaim, EndClaim, FTypes, TypeOK
<1>s. state[o] # "SUSPENDING"
  BY DEF ClaimInv, TargetClaimed
<1>2. ASSUME NEW d \in Procs, release[d] = o PROVE FALSE
  BY <1>s, <1>2 DEF CoInv, ReleaseInv, ReleaseSuspending
<1>3. ASSUME obj[h] = o, NEW w \in Workers, cpu[w] = h PROVE FALSE
  <2>1. pc[cpu[w]] = "switch"
    BY <1>1, <1>3 DEF CoInv, CpuInv, OnTarget, Target
  <2>2. release[Target(w)] = o /\ Target(w) \in Procs
    BY <1>3, <2>1 DEF CoInv, ReleaseInv, LeftReleases, Target, FTypes, TypeOK
  <2> QED  BY <1>2, <2>2
<1> QED  BY <1>1, <1>2, <1>3

(* The objects claimed are neither IDLE nor SUSPENDING.                    *)
LEMMA ClaimedState ==
  ASSUME FIInv, NEW e \in Procs, tgt[e] # None
  PROVE  state[tgt[e]] \in {"RUNNING", "FINALIZED"}
<1> USE DEF FIInv, Base
<1>1. state[tgt[e]] = IF pc[e] \in EndClaim THEN "FINALIZED" ELSE "RUNNING"
  BY DEF ClaimInv, TargetClaimed
<1> QED  BY <1>1

(* Who has a guest thread's token is told by HasTok, TokOf, Posted and     *)
(* PostOf: a step that keeps them keeps the tokens.                        *)
TokensKept ==
  \A e \in Procs :
    /\ HasTok(e)' <=> HasTok(e)
    /\ HasTok(e) => TokOf(e)' = TokOf(e)
    /\ Posted(e)' <=> Posted(e)
    /\ Posted(e) => PostOf(e)' = PostOf(e)

(* A step that keeps them keeps TokenInv.                                  *)
LEMMA KeepTokens ==
  ASSUME FIInv, ThreadMode, TokensKept, scenario' = scenario,
         \A w \in Workers : pc[w] = "wait" => pc'[w] = "wait"
  PROVE  TokenInv'
<1> USE SetsAssumption DEF FIInv, Base, ThInv, TokenInv, Procs
<1>w. \A e \in Procs : HasTok(e) => TokOf(e) \in Workers
  BY DEF TokenAlive, FTypes
<1>p. \A e \in Procs : Posted(e) => PostOf(e) \in Workers
  BY DEF PostAlive, FTypes
<1>1. TokenAlive'
  BY DEF TokensKept, TokenAlive
<1>2. TokenWaited'
  BY <1>w DEF TokensKept, TokenWaited
<1>3. PostAlive'
  BY <1>p DEF TokensKept, PostAlive
<1>4. TokenOnce'
  BY DEF TokensKept, TokenOnce
<1>5. TokenNotPosted'
  BY DEF TokensKept, TokenNotPosted
<1>6. PostOnce'
  BY DEF TokensKept, PostOnce
<1> QED  BY <1>1, <1>2, <1>3, <1>4, <1>5, <1>6

(* A step that keeps the tokens and does not touch current keeps what it   *)
(* says, when a fiber that holds its worker goes on doing so and a call    *)
(* that hands one over keeps its target.                                   *)
LEMMA KeepCurrent ==
  ASSUME FIInv, ThreadMode, TokensKept, current' = current,
         \A h \in Hosts : pc'[h] \in Holds <=> pc[h] \in Holds,
         \A e \in Procs : pc[e] \in Handing => pc'[e] \in Handing /\ host'[tgt'[e]] = host[tgt[e]],
         \A e \in Procs : pc'[e] \in {"create", "post"} \/ (e \in Hosts /\ pc'[e] \in {"idle", "ready"}) =>
           wk'[e] = wk[e] /\ (pc[e] \in {"create", "post"} \/ (e \in Hosts /\ pc[e] \in {"idle", "ready"}))
  PROVE  CurrentInv'
<1> USE SetsAssumption DEF FIInv, Base, ThInv, CurrentInv, Procs
<1>h. \A e \in Procs : pc[e] \in Holds \cup Handing => HasTok(e)
  BY DEF Holds, Handing, HasTok
<1>p. \A h \in Hosts : Posted(h) => hworker'[h] = hworker[h]
  BY DEF TokensKept, PostOf
<1>1. CurrentHasToken'
  <2> SUFFICES ASSUME NEW w \in Workers, NEW h \in Hosts, current[w] = h
               PROVE  \/ pc'[h] \in Holds /\ TokOf(h)' = w
                      \/ Posted(h)' /\ hworker'[h] = w
                      \/ \E e \in Procs : HandsTo(e, w, h)'
    BY DEF CurrentHasToken
  <2>1. CASE pc[h] \in Holds /\ TokOf(h) = w
    BY <1>h, <2>1 DEF TokensKept
  <2>2. CASE Posted(h) /\ hworker[h] = w
    BY <1>p, <2>2 DEF TokensKept
  <2>3. CASE \E e \in Procs : HandsTo(e, w, h)
    BY <1>h, <2>3 DEF TokensKept, HandsTo
  <2> QED  BY <2>1, <2>2, <2>3 DEF CurrentHasToken
<1>2. HolderCurrent'
  BY <1>h DEF TokensKept, HolderCurrent
<1>3. PostedCurrent'
  BY <1>p DEF TokensKept, PostedCurrent
<1>4. HandedCurrent'
  BY DEF HandedCurrent, Handing
<1> QED  BY <1>1, <1>2, <1>3, <1>4

(* A step of e that keeps the tokens and touches current for e's guest     *)
(* thread only.                                                            *)
LEMMA SetCurrent ==
  ASSUME FIInv, ThreadMode, TokensKept, NEW e \in Procs, HasTok(e), NEW v \in Workers, v = TokOf(e),
         \A w \in Workers : w # v => current'[w] = current[w],
         \A x \in Procs : x # e => /\ pc'[x] = pc[x] /\ wk'[x] = wk[x]
                                   /\ pc[x] \in Handing => host'[tgt'[x]] = host[tgt[x]],
         current'[v] # None => \/ current'[v] = e /\ pc'[e] \in Holds
                               \/ current'[v] = host'[tgt'[e]] /\ pc'[e] \in Handing,
         e \in Hosts /\ pc'[e] \in Holds => current'[v] = e,
         pc'[e] \in {"create", "post"} \/ (e \in Hosts /\ pc'[e] \in {"idle", "ready"}) =>
           wk'[e] = v /\ current'[v] = host'[tgt'[e]]
  PROVE  CurrentInv'
<1> USE SetsAssumption DEF FIInv, Base, ThInv, CurrentInv, TokenInv, Procs
<1>h. \A x \in Procs : pc[x] \in Holds \cup Handing => HasTok(x)
  BY DEF Holds, Handing, HasTok
<1>o. \A x \in Procs : HasTok(x) /\ TokOf(x) = v => x = e
  BY DEF TokenOnce
<1>p. \A h \in Hosts : Posted(h) => hworker'[h] = hworker[h] /\ hworker[h] # v
  BY DEF TokensKept, PostOf, TokenNotPosted
<1>1. CurrentHasToken'
  <2> SUFFICES ASSUME NEW w \in Workers, NEW h \in Hosts, current'[w] = h
               PROVE  \/ pc'[h] \in Holds /\ TokOf(h)' = w
                      \/ Posted(h)' /\ hworker'[h] = w
                      \/ \E x \in Procs : HandsTo(x, w, h)'
    BY DEF CurrentHasToken
  <2>v. CASE w = v
    <3>1. CASE h = e /\ pc'[e] \in Holds
      BY <2>v, <3>1 DEF TokensKept
    <3>2. CASE h = host'[tgt'[e]] /\ pc'[e] \in Handing
      BY <2>v, <3>2 DEF TokensKept, HandsTo
    <3> QED  BY <2>v, <3>1, <3>2
  <2>n. CASE w # v
    <3>0. current[w] = h
      BY <2>n
    <3>1. CASE pc[h] \in Holds /\ TokOf(h) = w
      BY <1>h, <2>n, <3>1 DEF TokensKept
    <3>2. CASE Posted(h) /\ hworker[h] = w
      BY <1>p, <3>2 DEF TokensKept
    <3>3. CASE \E x \in Procs : HandsTo(x, w, h)
      BY <1>h, <2>n, <3>3 DEF TokensKept, HandsTo
    <3> QED  BY <3>0, <3>1, <3>2, <3>3 DEF CurrentHasToken
  <2> QED  BY <2>v, <2>n
<1>2. HolderCurrent'
  <2> SUFFICES ASSUME NEW h \in Hosts, pc'[h] \in Holds PROVE current'[TokOf(h)'] = h
    BY DEF HolderCurrent
  <2>1. CASE h = e
    BY <2>1 DEF TokensKept
  <2>2. CASE h # e
    <3>1. pc[h] \in Holds /\ TokOf(h)' = TokOf(h) /\ TokOf(h) # v /\ TokOf(h) \in Workers
      BY <1>h, <1>o, <2>2 DEF TokensKept, TokenAlive, FTypes
    <3> QED  BY <3>1 DEF HolderCurrent
  <2> QED  BY <2>1, <2>2
<1>3. PostedCurrent'
  BY <1>p DEF TokensKept, PostedCurrent, FTypes, TypeOK, PostAlive, PostOf
<1>4. HandedCurrent'
  <2> SUFFICES ASSUME NEW x \in Procs, x # e,
                      pc[x] \in {"create", "post"} \/ (x \in Hosts /\ pc[x] \in {"idle", "ready"})
               PROVE  current'[wk'[x]] = host'[tgt'[x]]
    BY DEF HandedCurrent
  <2>1. pc[x] \in Handing /\ pc[x] \in WorkerCall
    BY DEF Handing, WorkerCall, RunClaim
  <2>2. TokOf(x) = wk[x] /\ wk[x] \in Workers
    BY <2>1 DEF TokOf, CallInv, CallHasWorker, WorkerOfItself
  <2>3. wk[x] # v
    BY <1>h, <1>o, <2>1, <2>2
  <2> QED  BY <2>1, <2>2, <2>3 DEF HandedCurrent
<1> QED  BY <1>1, <1>2, <1>3, <1>4

(* When a hand-over may fail, only one endpoint runs.                      *)
LEMMA OnlyRunning ==
  ASSUME FIInv, ThreadMode, FailsAlone, scenario.create_fails, NEW e \in Procs, HasTok(e), NEW x \in Procs, HasTok(x)
  PROVE  x = e
<1> USE SetsAssumption DEF FIInv, Base, ThInv, TokenInv, Procs
<1>1. TokOf(x) \in scenario.guests /\ TokOf(e) \in scenario.guests /\ scenario \in Scenarios
  BY DEF TokenAlive, FTypes
<1>2. TokOf(x) = TokOf(e)
  BY <1>1 DEF FailsAlone
<1> QED  BY <1>2 DEF TokenOnce

(* The endpoint whose hand-over fails is the one that runs.                *)
LEMMA OnlyFailing ==
  ASSUME FIInv, ThreadMode, FailsAlone, NEW e \in Procs, HasTok(e), NEW h \in Hosts, Failing(h)
  PROVE  h = e
<1>1. HasTok(h) /\ scenario.create_fails
  BY DEF Failing, HasTok
<1> QED  BY <1>1, OnlyRunning DEF Procs

(* The token of e goes to r, which is posted to.                           *)
LEMMA PassToken ==
  ASSUME FIInv, ThreadMode, NEW e \in Procs, NEW r \in Procs, HasTok(e), scenario' = scenario,
         pc' = [pc EXCEPT ![e] = "wait"],
         \A x \in Procs : (HasTok(x)' <=> HasTok(x) /\ x # e) /\ (HasTok(x)' => TokOf(x)' = TokOf(x)),
         \A x \in Procs : (Posted(x)' <=> Posted(x) \/ x = r) /\ (Posted(x) => PostOf(x)' = PostOf(x)),
         ~Posted(r), PostOf(r)' = TokOf(e)
  PROVE  TokenInv'
<1> USE SetsAssumption DEF FIInv, Base, ThInv, TokenInv, Procs
<1>w. \A x \in Procs : HasTok(x) => TokOf(x) \in Workers
  BY DEF TokenAlive, FTypes
<1>p. \A x \in Procs : Posted(x) => PostOf(x) \in Workers
  BY DEF PostAlive, FTypes
<1>e. pc'[TokOf(e)] = "wait" /\ \A x \in Procs : pc[x] = "wait" => pc'[x] = "wait"
  BY <1>w DEF TokenWaited, TokOf, FTypes
<1>1. TokenAlive'
  BY DEF TokenAlive
<1>2. TokenWaited'
  BY <1>w, <1>e DEF TokenWaited
<1>3. PostAlive'
  BY <1>p, <1>e DEF PostAlive, TokenAlive
<1>4. TokenOnce'
  BY DEF TokenOnce
<1>5. TokenNotPosted'
  BY DEF TokenNotPosted, TokenOnce
<1>6. PostOnce'
  BY DEF PostOnce, TokenNotPosted
<1> QED  BY <1>1, <1>2, <1>3, <1>4, <1>5, <1>6

(* The endpoint posted to takes the token.                                 *)
LEMMA TakeToken ==
  ASSUME FIInv, ThreadMode, NEW p \in Procs, Posted(p), scenario' = scenario,
         pc' = [pc EXCEPT ![p] = "guest"],
         \A x \in Procs : (HasTok(x)' <=> HasTok(x) \/ x = p) /\ (HasTok(x) => TokOf(x)' = TokOf(x)),
         \A x \in Procs : (Posted(x)' <=> Posted(x) /\ x # p) /\ (Posted(x) => PostOf(x)' = PostOf(x)),
         ~HasTok(p), TokOf(p)' = PostOf(p)
  PROVE  TokenInv'
<1> USE SetsAssumption DEF FIInv, Base, ThInv, TokenInv, Procs
<1>w. \A x \in Procs : HasTok(x) => TokOf(x) \in Workers
  BY DEF TokenAlive, FTypes
<1>p. \A x \in Procs : Posted(x) => PostOf(x) \in Workers
  BY DEF PostAlive, FTypes
<1>e. /\ \A x \in Procs : HasTok(x) => TokOf(x) # p
      /\ \A x \in Procs : Posted(x) /\ x # p => PostOf(x) # p
      /\ p \in Hosts => \A x \in Procs : x \in Workers => pc'[x] = pc[x]
  <2>1. p \in Workers => PostOf(p) = p
    BY DEF PostOf
  <2> QED  BY <1>w, <1>p, <2>1 DEF TokenNotPosted, PostOnce
<1>1. TokenAlive'
  BY DEF TokenAlive, PostAlive
<1>2. TokenWaited'
  <2>1. p \in Hosts => pc[PostOf(p)] = "wait" /\ PostOf(p) # p
    BY <1>p DEF PostAlive
  <2> QED  BY <1>w, <1>p, <1>e, <2>1 DEF TokenWaited
<1>3. PostAlive'
  BY <1>p, <1>e DEF PostAlive
<1>4. TokenOnce'
  BY DEF TokenOnce, TokenNotPosted
<1>5. TokenNotPosted'
  BY DEF TokenNotPosted, PostOnce
<1>6. PostOnce'
  BY DEF PostOnce
<1> QED  BY <1>1, <1>2, <1>3, <1>4, <1>5, <1>6

(* Without ThreadMode, a step that leaves stacks, releases and SUSPENDING  *)
(* fibers alone keeps what is said of them.                                *)
LEMMA KeepReleases ==
  ASSUME FIInv, ~ThreadMode, UNCHANGED <<release, tl, cpu>>,
         \A e \in Procs : (pc'[e] = "switch" <=> pc[e] = "switch") /\ (pc'[e] = "finish" <=> pc[e] = "finish"),
         \A o \in Objects : state[o] = "SUSPENDING" /\ host[o] # None => state'[o] = "SUSPENDING" /\ host'[o] = host[o],
         \A h \in Hosts : Whole(h) /\ state[obj[h]] = "SUSPENDING" => hstat'[h] = "live" /\ obj'[h] = obj[h]
  PROVE  ReleaseInv'
<1> USE SetsAssumption DEF FIInv, Base, CoInv, ReleaseInv, Procs
<1>t. \A w \in Workers : Target(w)' = Target(w) /\ Target(w) \in Procs /\ cpu[w] \in Procs
  BY DEF Target, FTypes, TypeOK, CpuInv, WorkersOn
<1>r. \A e \in Procs : release[e] # None => release[e] \in Objects /\ host'[release[e]] = host[release[e]]
  BY DEF FTypes, TypeOK, ReleaseSuspending
<1>1. LeftReleases'
  <2> SUFFICES ASSUME NEW w \in Workers, cpu[w] \in Hosts, pc[cpu[w]] = "switch"
               PROVE  Whole(cpu[w])' /\ release[Target(w)] = obj'[cpu[w]]
    BY <1>t DEF LeftReleases
  <2>1. Whole(cpu[w]) /\ release[Target(w)] = obj[cpu[w]]
    BY DEF LeftReleases
  <2>2. state[obj[cpu[w]]] = "SUSPENDING" /\ obj[cpu[w]] \in Objects
    BY <1>t, <1>r, <2>1 DEF ReleaseSuspending, Whole
  <2> QED  BY <2>1, <2>2 DEF Whole
<1>2. ReleaseSuspending'
  BY <1>r DEF ReleaseSuspending
<1>3. ReleasedNotSelf'
  BY <1>r DEF ReleasedNotSelf
<1>4. ReleasedOnStack'
  BY <1>r, <1>t DEF ReleasedOnStack
<1>5. ReleaserRuns'
  BY <1>r, <1>t DEF ReleaserRuns
<1>6. ReleaseOnce'
  BY DEF ReleaseOnce
<1> QED  BY <1>1, <1>2, <1>3, <1>4, <1>5, <1>6

-----------------------------------------------------------------------------
(* The fiber claimed is given back before anything else is done with it.   *)
LEMMA Step_claim_undone ==
  ASSUME FailsAlone, FIInv, NEW p \in Procs, claim_undone(p)
  PROVE  FIInv'
<1> USE SetsAssumption DEF Procs, FIInv, Base
<1>e. PICK e \in Procs : e = cpu[p] /\ pc[e] \in {"worker", "checks", "claimed"}
  BY OnCpu DEF claim_undone, At
<1>w. wk[e] \in Workers /\ (e \in Workers => wk[e] = e) /\ (~ThreadMode => wk[e] = p)
  BY <1>e, CallersWorker DEF WorkerCall, RunClaim
<1>t. PICK o \in Objects, h \in Hosts :
        /\ o = tgt[e] /\ h = host[o] /\ (\A d \in Procs : tgt[d] = o => d = e) /\ (\A x \in Objects : host[x] = h => x = o)
        /\ state[o] = "RUNNING" /\ hstat[h] = "live" /\ obj[h] = o
  BY <1>e, Claimed DEF RunClaim, EndClaim
<1>y. /\ pc \in [Procs -> Labels]
      /\ tgt \in [Procs -> Objects \cup {None}]
      /\ wk \in [Procs -> Workers \cup {None}]
      /\ state \in [Objects -> {"IDLE", "RUNNING", "SUSPENDING", "FINALIZED"}]
  BY DEF FTypes, TypeOK
<1>v. /\ pc' = [pc EXCEPT ![e] = "guest"]
      /\ tgt' = [tgt EXCEPT ![e] = None]
      /\ wk' = [wk EXCEPT ![e] = None]
      /\ state' = [state EXCEPT ![o] = "IDLE"]
      /\ UNCHANGED <<scenario, host, obj, hstat, hworker, started, kill, release, baton, current,
                           wstat, slot, tcb, scan, cpu, tl, table, nworkers, look>>
  BY <1>e, <1>w, <1>t, <1>y DEF claim_undone, At, Goto, Done, F, H, W, SelfObj, objvars, hostvars,
    callvars, tabvars
<1>1. FTypes'
  BY <1>e, <1>w, <1>t, <1>y, <1>v DEF FTypes, TypeOK, Labels
<1>2. ObjectInv'
  BY <1>e, <1>w, <1>t, <1>y, <1>v DEF ObjectInv, NamedLive, NamedUsed, NamedOnce, UnusedClean,
    LiveNamed, LiveKept
<1>3. ClaimInv'
  <2>1. ClaimHasTarget'
    BY <1>e, <1>w, <1>t, <1>y, <1>v DEF ClaimInv, ClaimHasTarget, RunClaim, EndClaim
  <2>2. TargetClaimed'
    BY <1>e, <1>w, <1>t, <1>y, <1>v DEF ClaimInv, TargetClaimed, RunClaim, EndClaim, ClaimHasTarget
  <2>3. ClaimedOnce'
    BY <1>e, <1>w, <1>t, <1>y, <1>v DEF ClaimInv, ClaimedOnce
  <2>4. EndedWhole'
    BY <1>e, <1>w, <1>t, <1>y, <1>v DEF ClaimInv, EndedWhole, ClaimHasTarget, RunClaim, EndClaim,
      ClaimedOnce, TargetClaimed
  <2>5. ClearedGone'
    BY <1>e, <1>w, <1>t, <1>y, <1>v DEF ClaimInv, ClearedGone, ClaimHasTarget, RunClaim, EndClaim,
      TargetClaimed
  <2> QED  BY <2>1, <2>2, <2>3, <2>4, <2>5 DEF ClaimInv
<1>4. TableInv'
  BY <1>e, <1>w, <1>t, <1>y, <1>v DEF TableInv, ListedLive, LiveListed, ScanBounded, Publishing,
    ExitLive, NoWorkerNoSlot, WorkerNew, HostLabels
<1>5. LookInv'
  BY <1>e, <1>w, <1>t, <1>y, <1>v DEF LookInv, OffEmpty, ScansFromOne, HasWorker, WorkerSafe,
    FiberSafe
<1>6. ASSUME ThreadMode PROVE ThInv'
  <2>e. e = p /\ ThreadInv /\ HasTok(e)
    BY <1>e, <1>6, OnCpu DEF ThInv, ThreadInv, OwnThread, HasTok
  <2>l. \A x \in Hosts : pc[x] \notin {"none", "dead"} => hstat[x] = "live" /\ obj[x] \in Objects
    BY <2>e DEF ThreadInv, RunsLive, ObjectInv, LiveNamed, FTypes, TypeOK
  <2>f. \A x \in Hosts : Failing(x) => x = e
    BY <1>6, <2>e, OnlyFailing
  <2>h. pc[h] \in Suspends \cup {"none", "dead"} /\ ~Failing(h) /\ ~kill[h] /\ ~baton[h]
    BY <1>6, <1>t, ClaimedWaits
  <2>u. e \in Hosts => wk[e] = hworker[e]
    BY <1>e, <1>6, <2>e DEF ThInv, RunInv, RunsOnItsWorker, WorkerCall, RunClaim, SelfRun, TableInv,
      HostLabels
  <2>k. TokensKept
    BY <1>6, <1>e, <1>w, <1>t, <1>y, <1>v, <2>e, <2>l, <2>f, <2>h, <2>u DEF ThInv, TokensKept,
      HasTok, TokOf, Posted, PostOf, RunInv, RunsOnItsWorker, WorkerCall, RunClaim, SelfRun,
      Failing, BatonInv, PostedWhole, Untargeted, Suspends
  <2>1. ThreadInv'
    BY <1>6, <1>e, <1>w, <1>t, <1>y, <1>v, <2>e, <2>l, <2>f, <2>h, <2>u, <2>k DEF ThInv, ThreadInv,
      OwnThread, NoSwitch, WorkerLabels, StartedRuns, RunsLive
  <2>2. RunInv'
    <3>1. RunsWhole'
      BY <1>6, <1>e, <1>w, <1>t, <1>y, <1>v, <2>e, <2>l, <2>f, <2>h, <2>u, <2>k DEF ThInv, RunInv,
        RunsWhole, SelfRun, Unrun, Untargeted, TableInv, HostLabels
    <3>2. FailsWhole'
      BY <1>6, <1>e, <1>w, <1>t, <1>y, <1>v, <2>e, <2>l, <2>f, <2>h, <2>u, <2>k DEF ThInv, RunInv,
        FailsWhole, Failing, Unrun, Untargeted
    <3>3. RunsOnItsWorker'
      BY <1>6, <1>e, <1>w, <1>t, <1>y, <1>v, <2>e, <2>l, <2>f, <2>h, <2>u, <2>k DEF ThInv, RunInv,
        RunsOnItsWorker, WorkerCall, RunClaim, SelfRun, Failing
    <3>4. ReclaimFails'
      BY <1>6, <1>e, <1>w, <1>t, <1>y, <1>v, <2>e, <2>l, <2>f, <2>h, <2>u, <2>k DEF ThInv, RunInv,
        ReclaimFails
    <3>5. FailsUnposted'
      BY <1>6, <1>e, <1>w, <1>t, <1>y, <1>v, <2>e, <2>l, <2>f, <2>h, <2>u, <2>k DEF ThInv, RunInv,
        FailsUnposted, HasTok
    <3> QED  BY <3>1, <3>2, <3>3, <3>4, <3>5 DEF RunInv
  <2>3. BatonInv'
    <3>1. BatonSuspends'
      BY <1>6, <1>e, <1>w, <1>t, <1>y, <1>v, <2>e, <2>l, <2>f, <2>h, <2>u, <2>k DEF ThInv, BatonInv,
        BatonSuspends, Suspends
    <3>2. PostedWhole'
      BY <1>6, <1>e, <1>w, <1>t, <1>y, <1>v, <2>e, <2>l, <2>f, <2>h, <2>u, <2>k DEF ThInv, BatonInv,
        PostedWhole, Posted, Untargeted, BatonSuspends, Suspends
    <3>3. KillSuspends'
      BY <1>6, <1>e, <1>w, <1>t, <1>y, <1>v, <2>e, <2>l, <2>f, <2>h, <2>u, <2>k DEF ThInv, BatonInv,
        KillSuspends, Suspends
    <3>4. KillEnds'
      BY <1>6, <1>e, <1>w, <1>t, <1>y, <1>v, <2>e, <2>l, <2>f, <2>h, <2>u, <2>k DEF ThInv, BatonInv,
        KillEnds, KillSuspends, Suspends
    <3>5. KilledIsKill'
      BY <1>6, <1>e, <1>w, <1>t, <1>y, <1>v, <2>e, <2>l, <2>f, <2>h, <2>u, <2>k DEF ThInv, BatonInv,
        KilledIsKill
    <3> QED  BY <3>1, <3>2, <3>3, <3>4, <3>5 DEF BatonInv
  <2>4. CallInv'
    BY <1>6, <1>e, <1>w, <1>t, <1>y, <1>v, <2>e, <2>l, <2>f, <2>h, <2>u, <2>k DEF ThInv, CallInv,
      CallHasWorker, WorkerOfItself, WorkerCall, RunClaim
  <2>5. TokenInv'
    BY <1>6, <1>e, <1>w, <1>t, <1>y, <1>v, <2>e, <2>l, <2>f, <2>h, <2>u, <2>k, KeepTokens
  <2>6. CurrentInv'
    <3>1. \A k \in Hosts : pc'[k] \in Holds <=> pc[k] \in Holds
      BY <1>6, <1>e, <1>w, <1>t, <1>y, <1>v, <2>e, <2>l, <2>f, <2>h, <2>u, <2>k DEF Holds, TableInv,
        HostLabels
    <3>2. \A x \in Procs : pc[x] \in Handing => pc'[x] \in Handing /\ host'[tgt'[x]] = host[tgt[x]]
      BY <1>6, <1>e, <1>w, <1>t, <1>y, <1>v, <2>e, <2>l, <2>f, <2>h, <2>u, <2>k DEF Handing,
        TableInv, HostLabels, ClaimInv, ClaimHasTarget, TargetClaimed, RunClaim
    <3>3. \A x \in Procs : pc'[x] \in {"create", "post"} \/ (x \in Hosts /\ pc'[x] \in {"idle", "ready"}) =>
             wk'[x] = wk[x] /\ (pc[x] \in {"create", "post"} \/ (x \in Hosts /\ pc[x] \in {"idle", "ready"}))
      BY <1>6, <1>e, <1>w, <1>t, <1>y, <1>v, <2>e, <2>l, <2>f, <2>h, <2>u, <2>k DEF TableInv,
        HostLabels
    <3> QED  BY <3>1, <3>2, <3>3, <1>6, <1>v, <2>k, KeepCurrent
  <2>7. HandInv'
    BY <1>6, <1>e, <1>w, <1>t, <1>y, <1>v, <2>e, <2>l, <2>f, <2>h, <2>u, <2>k DEF ThInv, HandInv,
      HandWorker, PostStarted, CreateUnstarted
  <2>8. TcbInv'
    <3>1. TokenTcb'
      BY <1>6, <1>e, <1>w, <1>t, <1>y, <1>v, <2>e, <2>l, <2>f, <2>h, <2>u, <2>k DEF ThInv, TcbInv,
        TokenTcb, TokenInv, TokenAlive, TokenOnce, TokensKept
    <3>2. ThreadTcb'
      BY <1>6, <1>e, <1>w, <1>t, <1>y, <1>v, <2>e, <2>l, <2>f, <2>h, <2>u, <2>k DEF ThInv, TcbInv,
        ThreadTcb, TokenInv, TokenOnce, TokensKept
    <3>3. PostedTcb'
      BY <1>6, <1>e, <1>w, <1>t, <1>y, <1>v, <2>e, <2>l, <2>f, <2>h, <2>u, <2>k DEF ThInv, TcbInv,
        PostedTcb, TokenInv, TokenNotPosted, TokensKept
    <3> QED  BY <3>1, <3>2, <3>3 DEF TcbInv
  <2> QED  BY <2>1, <2>2, <2>3, <2>4, <2>5, <2>6, <2>7, <2>8 DEF ThInv
<1>7. ASSUME ~ThreadMode PROVE CoInv'
  <2>e. /\ p \in Workers /\ e \in Hosts \cup {p} /\ (\A w \in Workers : cpu[w] \in Procs /\ (cpu[w] = e => w = p))
        /\ e = IF tl[p] = None THEN p ELSE tl[p]
    BY <1>e, <1>7, OnCpu DEF CoInv, CpuInv, WorkersOn, StackOnce, OnTarget, Target
  <2>h. (\A w \in Workers : tl[w] # h) /\ (\A d \in Procs : release[d] # o) /\ (\A w \in Workers : cpu[w] # h)
    BY <1>e, <1>7, <1>t, ClaimedOff DEF RunClaim, EndClaim
  <2>1. CpuInv'
    BY <1>7, <1>e, <1>w, <1>t, <1>y, <1>v, <2>e, <2>h DEF CoInv, CpuInv, HostsOff, WorkersOn,
      LeftFinishes, ThreadFinishes, StackOnce, OnTarget, LeavesForFiber, Target
  <2>2. SelfInv'
    BY <1>7, <1>e, <1>w, <1>t, <1>y, <1>v, <2>e, <2>h DEF CoInv, SelfInv, SelfWhole, CallWorker,
      CurrentSelf, TcbCurrent, SelfState, Whole, WorkerCall, RunClaim
  <2>3. ReleaseInv'
    BY <1>7, <1>e, <1>w, <1>t, <1>y, <1>v, <2>e, <2>h, KeepReleases DEF Whole
  <2>4. EnterInv'
    BY <1>7, <1>e, <1>w, <1>t, <1>y, <1>v, <2>e, <2>h DEF CoInv, EnterInv, EntersOther, EntersTarget
  <2>5. NoThreads'
    BY <1>7, <1>e, <1>w, <1>t, <1>y, <1>v, <2>e, <2>h DEF CoInv, NoThreads
  <2> QED  BY <2>1, <2>2, <2>3, <2>4, <2>5 DEF CoInv
<1> QED  BY <1>1, <1>2, <1>3, <1>4, <1>5, <1>6, <1>7, <1>v DEF ThreadMode

(* A new worker starts its search for a slot.                              *)
LEMMA Step_get_worker ==
  ASSUME FailsAlone, FIInv, NEW p \in Procs, get_worker(p)
  PROVE  FIInv'
<1> USE SetsAssumption DEF Procs, FIInv, Base
<1>e. PICK e \in Procs : e = cpu[p] /\ pc[e] = "worker"
  BY OnCpu DEF get_worker, At
<1>x. p \in Workers /\ e = p
  BY <1>e, OnCpu DEF TableInv, HostLabels
<1>y. /\ pc \in [Procs -> Labels]
      /\ wstat \in [Workers -> {"none", "live", "freed"}]
      /\ scan \in [Workers -> [i : 0 .. MaxSlots + 1, n : 0 .. MaxSlots]]
  BY DEF FTypes, TypeOK
<1>v. /\ pc' = [pc EXCEPT ![e] = "publish"]
      /\ wstat' = [wstat EXCEPT ![p] = "live"]
      /\ scan' = [scan EXCEPT ![p] = [i |-> 1, n |-> nworkers]]
      /\ UNCHANGED <<scenario, state, host, obj, hstat, hworker, started, kill, release, baton,
                           current, slot, tcb, tgt, wk, cpu, tl, table, nworkers, look>>
  BY <1>e, <1>x, <1>y DEF get_worker, At, Goto, Done, F, H, W, SelfObj, objvars, hostvars, callvars,
    tabvars
<1>1. FTypes'
  BY <1>e, <1>x, <1>y, <1>v DEF FTypes, TypeOK, Labels
<1>2. ObjectInv'
  BY <1>e, <1>x, <1>y, <1>v DEF ObjectInv, NamedLive, NamedUsed, NamedOnce, UnusedClean, LiveNamed,
    LiveKept
<1>3. ClaimInv'
  BY <1>e, <1>x, <1>y, <1>v DEF ClaimInv, ClaimHasTarget, TargetClaimed, ClaimedOnce, EndedWhole,
    ClearedGone, RunClaim, EndClaim
<1>4. TableInv'
  BY <1>e, <1>x, <1>y, <1>v DEF TableInv, ListedLive, LiveListed, ScanBounded, Publishing, ExitLive,
    NoWorkerNoSlot, WorkerNew, HostLabels, FTypes, TypeOK
<1>5. LookInv'
  BY <1>e, <1>x, <1>y, <1>v DEF LookInv, OffEmpty, ScansFromOne, HasWorker, WorkerSafe, FiberSafe
<1>6. ASSUME ThreadMode PROVE ThInv'
  <2>e. e = p /\ ThreadInv /\ HasTok(e)
    BY <1>e, <1>6, OnCpu DEF ThInv, ThreadInv, OwnThread, HasTok
  <2>l. \A x \in Hosts : pc[x] \notin {"none", "dead"} => hstat[x] = "live" /\ obj[x] \in Objects
    BY <2>e DEF ThreadInv, RunsLive, ObjectInv, LiveNamed, FTypes, TypeOK
  <2>f. \A x \in Hosts : Failing(x) => x = e
    BY <1>6, <2>e, OnlyFailing
  <2>k. TokensKept
    BY <1>6, <1>e, <1>x, <1>y, <1>v, <2>e, <2>l, <2>f DEF ThInv, TokensKept, HasTok, TokOf, Posted,
      PostOf, RunInv, RunsOnItsWorker, WorkerCall, RunClaim, SelfRun, Failing, BatonInv,
      PostedWhole, Untargeted, Suspends
  <2>1. ThreadInv'
    BY <1>6, <1>e, <1>x, <1>y, <1>v, <2>e, <2>l, <2>f, <2>k DEF ThInv, ThreadInv, OwnThread,
      NoSwitch, WorkerLabels, StartedRuns, RunsLive
  <2>2. RunInv'
    BY <1>6, <1>e, <1>x, <1>y, <1>v, <2>e, <2>l, <2>f, <2>k DEF ThInv, RunInv, RunsWhole,
      FailsWhole, RunsOnItsWorker, ReclaimFails, FailsUnposted, SelfRun, Unrun, Untargeted, Failing,
      WorkerCall, RunClaim, HasTok
  <2>3. BatonInv'
    BY <1>6, <1>e, <1>x, <1>y, <1>v, <2>e, <2>l, <2>f, <2>k DEF ThInv, BatonInv, BatonSuspends,
      PostedWhole, KillSuspends, KillEnds, KilledIsKill, Suspends, Posted, Untargeted
  <2>4. CallInv'
    BY <1>6, <1>e, <1>x, <1>y, <1>v, <2>e, <2>l, <2>f, <2>k DEF ThInv, CallInv, CallHasWorker,
      WorkerOfItself, WorkerCall, RunClaim
  <2>5. TokenInv'
    BY <1>6, <1>e, <1>x, <1>y, <1>v, <2>e, <2>l, <2>f, <2>k, KeepTokens
  <2>6. CurrentInv'
    <3>1. \A k \in Hosts : pc'[k] \in Holds <=> pc[k] \in Holds
      BY <1>6, <1>e, <1>x, <1>y, <1>v, <2>e, <2>l, <2>f, <2>k DEF Holds, TableInv, HostLabels
    <3>2. \A x \in Procs : pc[x] \in Handing => pc'[x] \in Handing /\ host'[tgt'[x]] = host[tgt[x]]
      BY <1>6, <1>e, <1>x, <1>y, <1>v, <2>e, <2>l, <2>f, <2>k DEF Handing, TableInv, HostLabels
    <3>3. \A x \in Procs : pc'[x] \in {"create", "post"} \/ (x \in Hosts /\ pc'[x] \in {"idle", "ready"}) =>
             wk'[x] = wk[x] /\ (pc[x] \in {"create", "post"} \/ (x \in Hosts /\ pc[x] \in {"idle", "ready"}))
      BY <1>6, <1>e, <1>x, <1>y, <1>v, <2>e, <2>l, <2>f, <2>k DEF TableInv, HostLabels
    <3> QED  BY <3>1, <3>2, <3>3, <1>6, <1>v, <2>k, KeepCurrent
  <2>7. HandInv'
    BY <1>6, <1>e, <1>x, <1>y, <1>v, <2>e, <2>l, <2>f, <2>k DEF ThInv, HandInv, HandWorker,
      PostStarted, CreateUnstarted
  <2>8. TcbInv'
    <3>1. TokenTcb'
      BY <1>6, <1>e, <1>x, <1>y, <1>v, <2>e, <2>l, <2>f, <2>k DEF ThInv, TcbInv, TokenTcb, TokenInv,
        TokenAlive, TokenOnce, TokensKept
    <3>2. ThreadTcb'
      BY <1>6, <1>e, <1>x, <1>y, <1>v, <2>e, <2>l, <2>f, <2>k DEF ThInv, TcbInv, ThreadTcb,
        TokenInv, TokenOnce, TokensKept
    <3>3. PostedTcb'
      BY <1>6, <1>e, <1>x, <1>y, <1>v, <2>e, <2>l, <2>f, <2>k DEF ThInv, TcbInv, PostedTcb,
        TokenInv, TokenNotPosted, TokensKept
    <3> QED  BY <3>1, <3>2, <3>3 DEF TcbInv
  <2> QED  BY <2>1, <2>2, <2>3, <2>4, <2>5, <2>6, <2>7, <2>8 DEF ThInv
<1>7. ASSUME ~ThreadMode PROVE CoInv'
  <2>e. /\ p \in Workers /\ e \in Hosts \cup {p} /\ (\A w \in Workers : cpu[w] \in Procs /\ (cpu[w] = e => w = p))
        /\ e = IF tl[p] = None THEN p ELSE tl[p]
    BY <1>e, <1>7, OnCpu DEF CoInv, CpuInv, WorkersOn, StackOnce, OnTarget, Target
  <2>1. CpuInv'
    BY <1>7, <1>e, <1>x, <1>y, <1>v, <2>e DEF CoInv, CpuInv, HostsOff, WorkersOn, LeftFinishes,
      ThreadFinishes, StackOnce, OnTarget, LeavesForFiber, Target
  <2>2. SelfInv'
    BY <1>7, <1>e, <1>x, <1>y, <1>v, <2>e DEF CoInv, SelfInv, SelfWhole, CallWorker, CurrentSelf,
      TcbCurrent, SelfState, Whole, WorkerCall, RunClaim
  <2>3. ReleaseInv'
    BY <1>7, <1>e, <1>x, <1>y, <1>v, <2>e, KeepReleases DEF Whole
  <2>4. EnterInv'
    BY <1>7, <1>e, <1>x, <1>y, <1>v, <2>e DEF CoInv, EnterInv, EntersOther, EntersTarget
  <2>5. NoThreads'
    BY <1>7, <1>e, <1>x, <1>y, <1>v, <2>e DEF CoInv, NoThreads
  <2> QED  BY <2>1, <2>2, <2>3, <2>4, <2>5 DEF CoInv
<1> QED  BY <1>1, <1>2, <1>3, <1>4, <1>5, <1>6, <1>7, <1>v DEF ThreadMode

(* A slot is taken only when it is free: its compare-and-swap fails        *)
(* otherwise.                                                              *)
LEMMA Step_publish_slot ==
  ASSUME FailsAlone, FIInv, NEW p \in Procs, publish_slot(p)
  PROVE  FIInv'
<1> USE SetsAssumption DEF Procs, FIInv, Base
<1>e. PICK e \in Procs : e = cpu[p] /\ pc[e] = "publish"
  BY OnCpu DEF publish_slot, At
<1>x. p \in Workers /\ e = p
  BY <1>e, OnCpu DEF TableInv, HostLabels
<1>k. wstat[p] = "live" /\ slot[p] = 0 /\ \A j \in 1 .. MaxSlots : table[j] # p
  BY <1>e, <1>x DEF TableInv, Publishing, ListedLive
<1>y. /\ table \in [1 .. MaxSlots -> Workers \cup {None}]
      /\ slot \in [Workers -> 0 .. MaxSlots]
      /\ pc \in [Procs -> Labels]
      /\ scan \in [Workers -> [i : 0 .. MaxSlots + 1, n : 0 .. MaxSlots]]
  BY DEF FTypes, TypeOK
<1>v. PICK l \in {"publish", "ready", "checks"}, i \in 0 .. MaxSlots :
        /\ l = "publish" \/ l = Published
        /\ pc' = [pc EXCEPT ![e] = l]
        /\ scan' \in [Workers -> [i : 0 .. MaxSlots + 1, n : 0 .. MaxSlots]]
        /\ \A w \in Workers : scan'[w].n <= nworkers'
        /\ l = "publish" => scan'[p].i >= 1
        /\ \A w \in Workers \ {p} : scan'[w] = scan[w]
        /\ table' = (IF l = "publish" THEN table ELSE [table EXCEPT ![i] = p])
        /\ slot' = (IF l = "publish" THEN slot ELSE [slot EXCEPT ![p] = i])
        /\ l # "publish" => i \in 1 .. nworkers /\ i <= MaxSlots /\ table[i] = None
        /\ UNCHANGED <<scenario, state, host, obj, hstat, hworker, started, kill, release, baton,
                             current, wstat, tcb, tgt, wk, cpu, tl, nworkers, look>>
  <2> USE DEF publish_slot, At, Goto, objvars, hostvars, callvars, tabvars
  <2>1. scan[p].i \in 1 .. nworkers /\ scan[p] \in [i : 0 .. MaxSlots + 1, n : 0 .. MaxSlots] /\ nworkers <= MaxSlots
    BY <1>e, <1>x DEF TableInv, Publishing, ScanBounded, FTypes, TypeOK
  <2>2. CASE table[scan[p].i] = None
    <3>1. scan' = [scan EXCEPT ![p] = [i |-> 0, n |-> 0]]
      BY <1>e, <1>x, <2>2
    <3>2. scan' \in [Workers -> [i : 0 .. MaxSlots + 1, n : 0 .. MaxSlots]] /\ (\A w \in Workers : scan'[w].n <= nworkers)
                /\ \A w \in Workers \ {p} : scan'[w] = scan[w]
      BY <1>x, <2>1, <3>1 DEF TableInv, ScanBounded, FTypes, TypeOK
    <3>3. PICK i \in 1 .. MaxSlots : i = scan[p].i /\ i \in 1 .. nworkers
      BY <2>1
    <3>4. table' = [table EXCEPT ![i] = p] /\ slot' = [slot EXCEPT ![p] = i] /\ pc' = [pc EXCEPT ![e] = Published]
      BY <1>e, <1>x, <2>2, <3>3
    <3>5. i \in 0 .. MaxSlots /\ Published \in {"ready", "checks"}
      BY <3>3 DEF Published
    <3>6. PICK l \in {"publish", "ready", "checks"} : l = Published /\ l # "publish"
      BY <3>5
    <3>7. table' = (IF l = "publish" THEN table ELSE [table EXCEPT ![i] = p]) /\ slot' = (IF l = "publish" THEN slot ELSE [slot EXCEPT ![p] = i])
      BY <3>4, <3>6
    <3>8. UNCHANGED <<scenario, state, host, obj, hstat, hworker, started, kill, release, baton, current,
                      wstat, tcb, tgt, wk, cpu, tl, nworkers, look>>
      BY <1>e
    <3>9. pc' = [pc EXCEPT ![e] = l]
      BY <3>4, <3>6
    <3>10. l \in {"publish", "ready", "checks"} /\ i \in 0 .. MaxSlots
      BY <3>3, <3>5, <3>6
    <3>11. (l = "publish" \/ l = Published) /\ (l # "publish" => i \in 1 .. nworkers /\ i <= MaxSlots /\ table[i] = None)
      BY <2>1, <2>2, <3>3, <3>6
    <3>12. l = "publish" => scan'[p].i >= 1 /\ table' = table /\ slot' = slot
      BY <3>6
    <3>. WITNESS l \in {"publish", "ready", "checks"}, i \in 0 .. MaxSlots
    <3> QED  BY <3>2, <3>7, <3>8, <3>9, <3>11, <3>12
  <2>3. CASE table[scan[p].i] # None
    <3>1. scan' = [scan EXCEPT ![p] = [i |-> scan[p].i + 1, n |-> scan[p].n]]
      BY <1>e, <1>x, <2>1, <2>3 DEF FTypes, TypeOK
    <3>2. scan' \in [Workers -> [i : 0 .. MaxSlots + 1, n : 0 .. MaxSlots]] /\ (\A w \in Workers : scan'[w].n <= nworkers)
                /\ \A w \in Workers \ {p} : scan'[w] = scan[w]
      BY <1>x, <2>1, <3>1 DEF TableInv, ScanBounded, FTypes, TypeOK
    <3>3. scan'[p].i >= 1
      BY <1>x, <2>1, <3>1 DEF FTypes, TypeOK
    <3>4. pc' = [pc EXCEPT ![e] = "publish"]
      BY <1>e, <2>3 DEF FTypes
    <3> QED  BY <1>e, <1>x, <2>1, <2>3, <3>2, <3>3, <3>4
  <2> QED  BY <2>2, <2>3
<1>1. FTypes'
  BY <1>e, <1>x, <1>k, <1>y, <1>v DEF FTypes, TypeOK, Labels
<1>2. ObjectInv'
  BY <1>e, <1>x, <1>k, <1>y, <1>v DEF ObjectInv, NamedLive, NamedUsed, NamedOnce, UnusedClean,
    LiveNamed, LiveKept
<1>3. ClaimInv'
  <2>1. ClaimHasTarget'
    BY <1>e, <1>x, <1>k, <1>y, <1>v DEF ClaimInv, ClaimHasTarget, RunClaim, EndClaim
  <2>2. TargetClaimed'
    BY <1>e, <1>x, <1>k, <1>y, <1>v DEF ClaimInv, TargetClaimed, RunClaim, EndClaim, ClaimHasTarget
  <2>3. ClaimedOnce'
    BY <1>e, <1>x, <1>k, <1>y, <1>v DEF ClaimInv, ClaimedOnce
  <2>4. EndedWhole'
    BY <1>e, <1>x, <1>k, <1>y, <1>v DEF ClaimInv, EndedWhole, ClaimHasTarget, RunClaim, EndClaim,
      ClaimedOnce, TargetClaimed
  <2>5. ClearedGone'
    BY <1>e, <1>x, <1>k, <1>y, <1>v DEF ClaimInv, ClearedGone, ClaimHasTarget, RunClaim, EndClaim,
      TargetClaimed
  <2> QED  BY <2>1, <2>2, <2>3, <2>4, <2>5 DEF ClaimInv
<1>4. TableInv'
  <2>1. ListedLive'
    BY <1>e, <1>x, <1>y, <1>v, <1>k DEF TableInv, ListedLive
  <2>2. LiveListed'
    BY <1>e, <1>x, <1>y, <1>v, <1>k DEF TableInv, LiveListed, Publishing
  <2>3. ScanBounded'
    BY <1>e, <1>x, <1>k, <1>y, <1>v DEF TableInv, ScanBounded
  <2>4. Publishing'
    BY <1>e, <1>x, <1>y, <1>v, <1>k DEF TableInv, Publishing, Published
  <2>5. ExitLive'
    BY <1>e, <1>x, <1>k, <1>y, <1>v DEF TableInv, ExitLive
  <2>6. NoWorkerNoSlot'
    BY <1>x, <1>y, <1>v, <1>k DEF TableInv, NoWorkerNoSlot
  <2>7. WorkerNew'
    BY <1>e, <1>x, <1>k, <1>y, <1>v DEF TableInv, WorkerNew
  <2>8. HostLabels'
    BY <1>e, <1>x, <1>k, <1>y, <1>v DEF TableInv, HostLabels
  <2> QED  BY <2>1, <2>2, <2>3, <2>4, <2>5, <2>6, <2>7, <2>8 DEF TableInv
<1>5. LookInv'
  <2>1. OffEmpty'
    BY <1>e, <1>x, <1>k, <1>y, <1>v DEF LookInv, OffEmpty
  <2>2. ScansFromOne'
    BY <1>e, <1>x, <1>k, <1>y, <1>v DEF LookInv, ScansFromOne
  <2>3. HasWorker'
    BY <1>e, <1>x, <1>k, <1>y, <1>v DEF LookInv, HasWorker
  <2>4. WorkerSafe'
    BY <1>x, <1>y, <1>v, <1>k DEF LookInv, WorkerSafe
  <2>5. FiberSafe'
    BY <1>e, <1>x, <1>k, <1>y, <1>v DEF LookInv, FiberSafe
  <2> QED  BY <2>1, <2>2, <2>3, <2>4, <2>5 DEF LookInv
<1>6. ASSUME ThreadMode PROVE ThInv'
  <2>e. e = p /\ ThreadInv /\ HasTok(e)
    BY <1>e, <1>6, OnCpu DEF ThInv, ThreadInv, OwnThread, HasTok
  <2>l. \A x \in Hosts : pc[x] \notin {"none", "dead"} => hstat[x] = "live" /\ obj[x] \in Objects
    BY <2>e DEF ThreadInv, RunsLive, ObjectInv, LiveNamed, FTypes, TypeOK
  <2>f. \A x \in Hosts : Failing(x) => x = e
    BY <1>6, <2>e, OnlyFailing
  <2>k. TokensKept
    BY <1>6, <1>e, <1>x, <1>k, <1>y, <1>v, <2>e, <2>l, <2>f DEF ThInv, TokensKept, HasTok, TokOf,
      Posted, PostOf, RunInv, RunsOnItsWorker, WorkerCall, RunClaim, SelfRun, Failing, BatonInv,
      PostedWhole, Untargeted, Suspends
  <2>1. ThreadInv'
    <3>1. OwnThread'
      BY <1>6, <1>e, <1>x, <1>k, <1>y, <1>v, <2>e, <2>l, <2>f, <2>k DEF ThInv, ThreadInv, OwnThread
    <3>2. NoSwitch'
      BY <1>6, <1>e, <1>x, <1>k, <1>y, <1>v, <2>e, <2>l, <2>f, <2>k DEF ThInv, ThreadInv, NoSwitch
    <3>3. WorkerLabels'
      BY <1>6, <1>e, <1>x, <1>k, <1>y, <1>v, <2>e, <2>l, <2>f, <2>k DEF ThInv, ThreadInv,
        WorkerLabels
    <3>4. StartedRuns'
      BY <1>6, <1>e, <1>x, <1>k, <1>y, <1>v, <2>e, <2>l, <2>f, <2>k DEF ThInv, ThreadInv,
        StartedRuns
    <3>5. RunsLive'
      BY <1>6, <1>e, <1>x, <1>k, <1>y, <1>v, <2>e, <2>l, <2>f, <2>k DEF ThInv, ThreadInv, RunsLive
    <3> QED  BY <3>1, <3>2, <3>3, <3>4, <3>5 DEF ThreadInv
  <2>2. RunInv'
    <3>1. RunsWhole'
      BY <1>6, <1>e, <1>x, <1>k, <1>y, <1>v, <2>e, <2>l, <2>f, <2>k DEF ThInv, RunInv, RunsWhole,
        SelfRun, Unrun, Untargeted, TableInv, HostLabels
    <3>2. FailsWhole'
      BY <1>6, <1>e, <1>x, <1>k, <1>y, <1>v, <2>e, <2>l, <2>f, <2>k DEF ThInv, RunInv, FailsWhole,
        Failing, Unrun, Untargeted
    <3>3. RunsOnItsWorker'
      BY <1>6, <1>e, <1>x, <1>k, <1>y, <1>v, <2>e, <2>l, <2>f, <2>k DEF ThInv, RunInv,
        RunsOnItsWorker, WorkerCall, RunClaim, SelfRun, Failing
    <3>4. ReclaimFails'
      BY <1>6, <1>e, <1>x, <1>k, <1>y, <1>v, <2>e, <2>l, <2>f, <2>k DEF ThInv, RunInv, ReclaimFails
    <3>5. FailsUnposted'
      BY <1>6, <1>e, <1>x, <1>k, <1>y, <1>v, <2>e, <2>l, <2>f, <2>k DEF ThInv, RunInv,
        FailsUnposted, HasTok
    <3> QED  BY <3>1, <3>2, <3>3, <3>4, <3>5 DEF RunInv
  <2>3. BatonInv'
    <3>1. BatonSuspends'
      BY <1>6, <1>e, <1>x, <1>k, <1>y, <1>v, <2>e, <2>l, <2>f, <2>k DEF ThInv, BatonInv,
        BatonSuspends, Suspends
    <3>2. PostedWhole'
      BY <1>6, <1>e, <1>x, <1>k, <1>y, <1>v, <2>e, <2>l, <2>f, <2>k DEF ThInv, BatonInv,
        PostedWhole, Posted, Untargeted, BatonSuspends, Suspends
    <3>3. KillSuspends'
      BY <1>6, <1>e, <1>x, <1>k, <1>y, <1>v, <2>e, <2>l, <2>f, <2>k DEF ThInv, BatonInv,
        KillSuspends, Suspends
    <3>4. KillEnds'
      BY <1>6, <1>e, <1>x, <1>k, <1>y, <1>v, <2>e, <2>l, <2>f, <2>k DEF ThInv, BatonInv, KillEnds,
        KillSuspends, Suspends
    <3>5. KilledIsKill'
      BY <1>6, <1>e, <1>x, <1>k, <1>y, <1>v, <2>e, <2>l, <2>f, <2>k DEF ThInv, BatonInv,
        KilledIsKill
    <3> QED  BY <3>1, <3>2, <3>3, <3>4, <3>5 DEF BatonInv
  <2>4. CallInv'
    BY <1>6, <1>e, <1>x, <1>k, <1>y, <1>v, <2>e, <2>l, <2>f, <2>k DEF ThInv, CallInv, CallHasWorker,
      WorkerOfItself, WorkerCall, RunClaim
  <2>5. TokenInv'
    BY <1>6, <1>e, <1>x, <1>k, <1>y, <1>v, <2>e, <2>l, <2>f, <2>k, KeepTokens
  <2>6. CurrentInv'
    <3>1. \A k \in Hosts : pc'[k] \in Holds <=> pc[k] \in Holds
      BY <1>6, <1>e, <1>x, <1>k, <1>y, <1>v, <2>e, <2>l, <2>f, <2>k DEF Holds, TableInv, HostLabels
    <3>2. \A x \in Procs : pc[x] \in Handing => pc'[x] \in Handing /\ host'[tgt'[x]] = host[tgt[x]]
      BY <1>6, <1>e, <1>x, <1>k, <1>y, <1>v, <2>e, <2>l, <2>f, <2>k DEF Handing, TableInv,
        HostLabels
    <3>3. \A x \in Procs : pc'[x] \in {"create", "post"} \/ (x \in Hosts /\ pc'[x] \in {"idle", "ready"}) =>
             wk'[x] = wk[x] /\ (pc[x] \in {"create", "post"} \/ (x \in Hosts /\ pc[x] \in {"idle", "ready"}))
      BY <1>6, <1>e, <1>x, <1>k, <1>y, <1>v, <2>e, <2>l, <2>f, <2>k DEF TableInv, HostLabels
    <3> QED  BY <3>1, <3>2, <3>3, <1>6, <1>v, <2>k, KeepCurrent
  <2>7. HandInv'
    <3>1. HandWorker'
      BY <1>6, <1>e, <1>x, <1>k, <1>y, <1>v, <2>e, <2>l, <2>f, <2>k DEF ThInv, HandInv, HandWorker,
        ClaimInv, ClaimHasTarget, RunClaim, EndClaim, TargetClaimed, ClaimedOnce, ObjectInv,
        NamedOnce
    <3>2. PostStarted'
      BY <1>6, <1>e, <1>x, <1>k, <1>y, <1>v, <2>e, <2>l, <2>f, <2>k DEF ThInv, HandInv, PostStarted
    <3>3. CreateUnstarted'
      BY <1>6, <1>e, <1>x, <1>k, <1>y, <1>v, <2>e, <2>l, <2>f, <2>k DEF ThInv, HandInv,
        CreateUnstarted
    <3> QED  BY <3>1, <3>2, <3>3 DEF HandInv
  <2>8. TcbInv'
    <3>1. TokenTcb'
      BY <1>6, <1>e, <1>x, <1>k, <1>y, <1>v, <2>e, <2>l, <2>f, <2>k DEF ThInv, TcbInv, TokenTcb,
        TokenInv, TokenAlive, TokenOnce, TokensKept
    <3>2. ThreadTcb'
      BY <1>6, <1>e, <1>x, <1>k, <1>y, <1>v, <2>e, <2>l, <2>f, <2>k DEF ThInv, TcbInv, ThreadTcb,
        TokenInv, TokenOnce, TokensKept
    <3>3. PostedTcb'
      BY <1>6, <1>e, <1>x, <1>k, <1>y, <1>v, <2>e, <2>l, <2>f, <2>k DEF ThInv, TcbInv, PostedTcb,
        TokenInv, TokenNotPosted, TokensKept
    <3> QED  BY <3>1, <3>2, <3>3 DEF TcbInv
  <2> QED  BY <2>1, <2>2, <2>3, <2>4, <2>5, <2>6, <2>7, <2>8 DEF ThInv
<1>7. ASSUME ~ThreadMode PROVE CoInv'
  <2>e. /\ p \in Workers /\ e \in Hosts \cup {p} /\ (\A w \in Workers : cpu[w] \in Procs /\ (cpu[w] = e => w = p))
        /\ e = IF tl[p] = None THEN p ELSE tl[p]
    BY <1>e, <1>7, OnCpu DEF CoInv, CpuInv, WorkersOn, StackOnce, OnTarget, Target
  <2>1. CpuInv'
    <3>1. HostsOff'
      BY <1>7, <1>e, <1>x, <1>k, <1>y, <1>v, <2>e DEF CoInv, CpuInv, HostsOff
    <3>2. WorkersOn'
      BY <1>7, <1>e, <1>x, <1>k, <1>y, <1>v, <2>e DEF CoInv, CpuInv, WorkersOn
    <3>3. LeftFinishes'
      BY <1>7, <1>e, <1>x, <1>k, <1>y, <1>v, <2>e DEF CoInv, CpuInv, LeftFinishes
    <3>4. ThreadFinishes'
      BY <1>7, <1>e, <1>x, <1>k, <1>y, <1>v, <2>e DEF CoInv, CpuInv, ThreadFinishes
    <3>5. StackOnce'
      BY <1>7, <1>e, <1>x, <1>k, <1>y, <1>v, <2>e DEF CoInv, CpuInv, StackOnce
    <3>6. OnTarget'
      BY <1>7, <1>e, <1>x, <1>k, <1>y, <1>v, <2>e DEF CoInv, CpuInv, OnTarget, Target
    <3>7. LeavesForFiber'
      BY <1>7, <1>e, <1>x, <1>k, <1>y, <1>v, <2>e DEF CoInv, CpuInv, LeavesForFiber
    <3> QED  BY <3>1, <3>2, <3>3, <3>4, <3>5, <3>6, <3>7 DEF CpuInv
  <2>2. SelfInv'
    <3>1. SelfWhole'
      BY <1>7, <1>e, <1>x, <1>k, <1>y, <1>v, <2>e DEF CoInv, SelfInv, SelfWhole, Whole
    <3>2. CallWorker'
      BY <1>7, <1>e, <1>x, <1>k, <1>y, <1>v, <2>e DEF CoInv, SelfInv, CallWorker, WorkerCall,
        RunClaim
    <3>3. CurrentSelf'
      BY <1>7, <1>e, <1>x, <1>k, <1>y, <1>v, <2>e DEF CoInv, SelfInv, CurrentSelf
    <3>4. TcbCurrent'
      BY <1>7, <1>e, <1>x, <1>k, <1>y, <1>v, <2>e DEF CoInv, SelfInv, TcbCurrent
    <3>5. SelfState'
      BY <1>7, <1>e, <1>x, <1>k, <1>y, <1>v, <2>e DEF CoInv, SelfInv, SelfState, Published
    <3> QED  BY <3>1, <3>2, <3>3, <3>4, <3>5 DEF SelfInv
  <2>3. ReleaseInv'
    BY <1>7, <1>e, <1>x, <1>k, <1>y, <1>v, <2>e, KeepReleases DEF Whole
  <2>4. EnterInv'
    <3>1. EntersOther'
      BY <1>7, <1>e, <1>x, <1>k, <1>y, <1>v, <2>e DEF CoInv, EnterInv, EntersOther
    <3>2. EntersTarget'
      BY <1>7, <1>e, <1>x, <1>k, <1>y, <1>v, <2>e DEF CoInv, EnterInv, EntersTarget
    <3> QED  BY <3>1, <3>2 DEF EnterInv
  <2>5. NoThreads'
    BY <1>7, <1>e, <1>x, <1>k, <1>y, <1>v, <2>e DEF CoInv, NoThreads, Published
  <2> QED  BY <2>1, <2>2, <2>3, <2>4, <2>5 DEF CoInv
<1> QED  BY <1>1, <1>2, <1>3, <1>4, <1>5, <1>6, <1>7, <1>v DEF ThreadMode

(* The table grows by the slot after the last one scanned, while there is  *)
(* room.                                                                   *)
LEMMA Step_publish_grow ==
  ASSUME FailsAlone, FIInv, NEW p \in Procs, publish_grow(p)
  PROVE  FIInv'
<1> USE SetsAssumption DEF Procs, FIInv, Base
<1>e. PICK e \in Procs : e = cpu[p] /\ pc[e] = "publish"
  BY OnCpu DEF publish_grow, At
<1>x. p \in Workers /\ e = p
  BY <1>e, OnCpu DEF TableInv, HostLabels
<1>k. wstat[p] = "live" /\ slot[p] = 0
  BY <1>e, <1>x DEF TableInv, Publishing
<1>y. /\ pc \in [Procs -> Labels]
      /\ scan \in [Workers -> [i : 0 .. MaxSlots + 1, n : 0 .. MaxSlots]]
  BY DEF FTypes, TypeOK
<1>v. PICK l \in {"publish", "ready", "checks"} :
        /\ l = "publish" \/ l = Published
        /\ pc' = [pc EXCEPT ![e] = l]
        /\ scan' \in [Workers -> [i : 0 .. MaxSlots + 1, n : 0 .. MaxSlots]]
        /\ \A w \in Workers : scan'[w].n <= nworkers'
        /\ l = "publish" => scan'[p].i >= 1
        /\ \A w \in Workers \ {p} : scan'[w] = scan[w]
        /\ nworkers' \in nworkers .. MaxSlots
        /\ UNCHANGED <<scenario, state, host, obj, hstat, hworker, started, kill, release, baton,
                             current, wstat, slot, tcb, tgt, wk, cpu, tl, table, look>>
  <2> USE DEF publish_grow, At, Goto, objvars, hostvars, callvars, tabvars
  <2>1. scan[p] \in [i : 0 .. MaxSlots + 1, n : 0 .. MaxSlots] /\ nworkers \in 0 .. MaxSlots /\ scan[p].n <= nworkers
    BY <1>x DEF TableInv, ScanBounded, FTypes, TypeOK
  <2>2. CASE scan[p].n >= MaxSlots
    <3>1. scan' = [scan EXCEPT ![p] = [i |-> 0, n |-> 0]] /\ nworkers' = nworkers
      BY <1>e, <1>x, <2>2
    <3>2. scan' \in [Workers -> [i : 0 .. MaxSlots + 1, n : 0 .. MaxSlots]] /\ (\A w \in Workers : scan'[w].n <= nworkers)
                /\ \A w \in Workers \ {p} : scan'[w] = scan[w]
      BY <1>x, <2>1, <3>1 DEF TableInv, ScanBounded, FTypes, TypeOK
    <3> QED  BY <1>e, <1>x, <2>1, <2>2, <3>1, <3>2 DEF Published
  <2>3. CASE ~(scan[p].n >= MaxSlots)
    <3>1. PICK n \in nworkers .. MaxSlots : nworkers' = n /\ scan' = [scan EXCEPT ![p] = [i |-> 1, n |-> n]]
      BY <1>e, <1>x, <2>1, <2>3
    <3>2. scan' \in [Workers -> [i : 0 .. MaxSlots + 1, n : 0 .. MaxSlots]] /\ (\A w \in Workers : scan'[w].n <= nworkers')
                /\ \A w \in Workers \ {p} : scan'[w] = scan[w]
      BY <1>x, <2>1, <3>1 DEF TableInv, ScanBounded, FTypes, TypeOK
    <3>3. scan'[p].i >= 1
      BY <1>x, <2>1, <3>1 DEF FTypes, TypeOK
    <3>4. pc' = [pc EXCEPT ![e] = "publish"]
      BY <1>e, <2>3 DEF FTypes
    <3> QED  BY <1>e, <1>x, <2>3, <3>1, <3>2, <3>3, <3>4
  <2> QED  BY <2>2, <2>3
<1>1. FTypes'
  BY <1>e, <1>x, <1>k, <1>y, <1>v DEF FTypes, TypeOK, Labels
<1>2. ObjectInv'
  BY <1>e, <1>x, <1>k, <1>y, <1>v DEF ObjectInv, NamedLive, NamedUsed, NamedOnce, UnusedClean,
    LiveNamed, LiveKept
<1>3. ClaimInv'
  <2>1. ClaimHasTarget'
    BY <1>e, <1>x, <1>k, <1>y, <1>v DEF ClaimInv, ClaimHasTarget, RunClaim, EndClaim
  <2>2. TargetClaimed'
    BY <1>e, <1>x, <1>k, <1>y, <1>v DEF ClaimInv, TargetClaimed, RunClaim, EndClaim, ClaimHasTarget
  <2>3. ClaimedOnce'
    BY <1>e, <1>x, <1>k, <1>y, <1>v DEF ClaimInv, ClaimedOnce
  <2>4. EndedWhole'
    BY <1>e, <1>x, <1>k, <1>y, <1>v DEF ClaimInv, EndedWhole, ClaimHasTarget, RunClaim, EndClaim,
      ClaimedOnce, TargetClaimed
  <2>5. ClearedGone'
    BY <1>e, <1>x, <1>k, <1>y, <1>v DEF ClaimInv, ClearedGone, ClaimHasTarget, RunClaim, EndClaim,
      TargetClaimed
  <2> QED  BY <2>1, <2>2, <2>3, <2>4, <2>5 DEF ClaimInv
<1>4. TableInv'
  <2>1. ListedLive'
    BY <1>e, <1>x, <1>k, <1>y, <1>v DEF TableInv, ListedLive, FTypes, TypeOK
  <2>2. LiveListed'
    BY <1>e, <1>x, <1>k, <1>y, <1>v DEF TableInv, LiveListed
  <2>3. ScanBounded'
    BY <1>e, <1>x, <1>k, <1>y, <1>v DEF TableInv, ScanBounded
  <2>4. Publishing'
    BY <1>e, <1>x, <1>y, <1>v, <1>k DEF TableInv, Publishing, Published
  <2>5. ExitLive'
    BY <1>e, <1>x, <1>k, <1>y, <1>v DEF TableInv, ExitLive
  <2>6. NoWorkerNoSlot'
    BY <1>e, <1>x, <1>k, <1>y, <1>v DEF TableInv, NoWorkerNoSlot
  <2>7. WorkerNew'
    BY <1>e, <1>x, <1>k, <1>y, <1>v DEF TableInv, WorkerNew
  <2>8. HostLabels'
    BY <1>e, <1>x, <1>k, <1>y, <1>v DEF TableInv, HostLabels
  <2> QED  BY <2>1, <2>2, <2>3, <2>4, <2>5, <2>6, <2>7, <2>8 DEF TableInv
<1>5. LookInv'
  BY <1>e, <1>x, <1>k, <1>y, <1>v DEF LookInv, OffEmpty, ScansFromOne, HasWorker, WorkerSafe,
    FiberSafe
<1>6. ASSUME ThreadMode PROVE ThInv'
  <2>e. e = p /\ ThreadInv /\ HasTok(e)
    BY <1>e, <1>6, OnCpu DEF ThInv, ThreadInv, OwnThread, HasTok
  <2>l. \A x \in Hosts : pc[x] \notin {"none", "dead"} => hstat[x] = "live" /\ obj[x] \in Objects
    BY <2>e DEF ThreadInv, RunsLive, ObjectInv, LiveNamed, FTypes, TypeOK
  <2>f. \A x \in Hosts : Failing(x) => x = e
    BY <1>6, <2>e, OnlyFailing
  <2>k. TokensKept
    BY <1>6, <1>e, <1>x, <1>k, <1>y, <1>v, <2>e, <2>l, <2>f DEF ThInv, TokensKept, HasTok, TokOf,
      Posted, PostOf, RunInv, RunsOnItsWorker, WorkerCall, RunClaim, SelfRun, Failing, BatonInv,
      PostedWhole, Untargeted, Suspends
  <2>1. ThreadInv'
    <3>1. OwnThread'
      BY <1>6, <1>e, <1>x, <1>k, <1>y, <1>v, <2>e, <2>l, <2>f, <2>k DEF ThInv, ThreadInv, OwnThread
    <3>2. NoSwitch'
      BY <1>6, <1>e, <1>x, <1>k, <1>y, <1>v, <2>e, <2>l, <2>f, <2>k DEF ThInv, ThreadInv, NoSwitch
    <3>3. WorkerLabels'
      BY <1>6, <1>e, <1>x, <1>k, <1>y, <1>v, <2>e, <2>l, <2>f, <2>k DEF ThInv, ThreadInv,
        WorkerLabels
    <3>4. StartedRuns'
      BY <1>6, <1>e, <1>x, <1>k, <1>y, <1>v, <2>e, <2>l, <2>f, <2>k DEF ThInv, ThreadInv,
        StartedRuns
    <3>5. RunsLive'
      BY <1>6, <1>e, <1>x, <1>k, <1>y, <1>v, <2>e, <2>l, <2>f, <2>k DEF ThInv, ThreadInv, RunsLive
    <3> QED  BY <3>1, <3>2, <3>3, <3>4, <3>5 DEF ThreadInv
  <2>2. RunInv'
    <3>1. RunsWhole'
      BY <1>6, <1>e, <1>x, <1>k, <1>y, <1>v, <2>e, <2>l, <2>f, <2>k DEF ThInv, RunInv, RunsWhole,
        SelfRun, Unrun, Untargeted, TableInv, HostLabels
    <3>2. FailsWhole'
      BY <1>6, <1>e, <1>x, <1>k, <1>y, <1>v, <2>e, <2>l, <2>f, <2>k DEF ThInv, RunInv, FailsWhole,
        Failing, Unrun, Untargeted
    <3>3. RunsOnItsWorker'
      BY <1>6, <1>e, <1>x, <1>k, <1>y, <1>v, <2>e, <2>l, <2>f, <2>k DEF ThInv, RunInv,
        RunsOnItsWorker, WorkerCall, RunClaim, SelfRun, Failing
    <3>4. ReclaimFails'
      BY <1>6, <1>e, <1>x, <1>k, <1>y, <1>v, <2>e, <2>l, <2>f, <2>k DEF ThInv, RunInv, ReclaimFails
    <3>5. FailsUnposted'
      BY <1>6, <1>e, <1>x, <1>k, <1>y, <1>v, <2>e, <2>l, <2>f, <2>k DEF ThInv, RunInv,
        FailsUnposted, HasTok
    <3> QED  BY <3>1, <3>2, <3>3, <3>4, <3>5 DEF RunInv
  <2>3. BatonInv'
    <3>1. BatonSuspends'
      BY <1>6, <1>e, <1>x, <1>k, <1>y, <1>v, <2>e, <2>l, <2>f, <2>k DEF ThInv, BatonInv,
        BatonSuspends, Suspends
    <3>2. PostedWhole'
      BY <1>6, <1>e, <1>x, <1>k, <1>y, <1>v, <2>e, <2>l, <2>f, <2>k DEF ThInv, BatonInv,
        PostedWhole, Posted, Untargeted, BatonSuspends, Suspends
    <3>3. KillSuspends'
      BY <1>6, <1>e, <1>x, <1>k, <1>y, <1>v, <2>e, <2>l, <2>f, <2>k DEF ThInv, BatonInv,
        KillSuspends, Suspends
    <3>4. KillEnds'
      BY <1>6, <1>e, <1>x, <1>k, <1>y, <1>v, <2>e, <2>l, <2>f, <2>k DEF ThInv, BatonInv, KillEnds,
        KillSuspends, Suspends
    <3>5. KilledIsKill'
      BY <1>6, <1>e, <1>x, <1>k, <1>y, <1>v, <2>e, <2>l, <2>f, <2>k DEF ThInv, BatonInv,
        KilledIsKill
    <3> QED  BY <3>1, <3>2, <3>3, <3>4, <3>5 DEF BatonInv
  <2>4. CallInv'
    BY <1>6, <1>e, <1>x, <1>k, <1>y, <1>v, <2>e, <2>l, <2>f, <2>k DEF ThInv, CallInv, CallHasWorker,
      WorkerOfItself, WorkerCall, RunClaim
  <2>5. TokenInv'
    BY <1>6, <1>e, <1>x, <1>k, <1>y, <1>v, <2>e, <2>l, <2>f, <2>k, KeepTokens
  <2>6. CurrentInv'
    <3>1. \A k \in Hosts : pc'[k] \in Holds <=> pc[k] \in Holds
      BY <1>6, <1>e, <1>x, <1>k, <1>y, <1>v, <2>e, <2>l, <2>f, <2>k DEF Holds, TableInv, HostLabels
    <3>2. \A x \in Procs : pc[x] \in Handing => pc'[x] \in Handing /\ host'[tgt'[x]] = host[tgt[x]]
      BY <1>6, <1>e, <1>x, <1>k, <1>y, <1>v, <2>e, <2>l, <2>f, <2>k DEF Handing, TableInv,
        HostLabels
    <3>3. \A x \in Procs : pc'[x] \in {"create", "post"} \/ (x \in Hosts /\ pc'[x] \in {"idle", "ready"}) =>
             wk'[x] = wk[x] /\ (pc[x] \in {"create", "post"} \/ (x \in Hosts /\ pc[x] \in {"idle", "ready"}))
      BY <1>6, <1>e, <1>x, <1>k, <1>y, <1>v, <2>e, <2>l, <2>f, <2>k DEF TableInv, HostLabels
    <3> QED  BY <3>1, <3>2, <3>3, <1>6, <1>v, <2>k, KeepCurrent
  <2>7. HandInv'
    <3>1. HandWorker'
      BY <1>6, <1>e, <1>x, <1>k, <1>y, <1>v, <2>e, <2>l, <2>f, <2>k DEF ThInv, HandInv, HandWorker,
        ClaimInv, ClaimHasTarget, RunClaim, EndClaim, TargetClaimed, ClaimedOnce, ObjectInv,
        NamedOnce
    <3>2. PostStarted'
      BY <1>6, <1>e, <1>x, <1>k, <1>y, <1>v, <2>e, <2>l, <2>f, <2>k DEF ThInv, HandInv, PostStarted
    <3>3. CreateUnstarted'
      BY <1>6, <1>e, <1>x, <1>k, <1>y, <1>v, <2>e, <2>l, <2>f, <2>k DEF ThInv, HandInv,
        CreateUnstarted
    <3> QED  BY <3>1, <3>2, <3>3 DEF HandInv
  <2>8. TcbInv'
    <3>1. TokenTcb'
      BY <1>6, <1>e, <1>x, <1>k, <1>y, <1>v, <2>e, <2>l, <2>f, <2>k DEF ThInv, TcbInv, TokenTcb,
        TokenInv, TokenAlive, TokenOnce, TokensKept
    <3>2. ThreadTcb'
      BY <1>6, <1>e, <1>x, <1>k, <1>y, <1>v, <2>e, <2>l, <2>f, <2>k DEF ThInv, TcbInv, ThreadTcb,
        TokenInv, TokenOnce, TokensKept
    <3>3. PostedTcb'
      BY <1>6, <1>e, <1>x, <1>k, <1>y, <1>v, <2>e, <2>l, <2>f, <2>k DEF ThInv, TcbInv, PostedTcb,
        TokenInv, TokenNotPosted, TokensKept
    <3> QED  BY <3>1, <3>2, <3>3 DEF TcbInv
  <2> QED  BY <2>1, <2>2, <2>3, <2>4, <2>5, <2>6, <2>7, <2>8 DEF ThInv
<1>7. ASSUME ~ThreadMode PROVE CoInv'
  <2>e. /\ p \in Workers /\ e \in Hosts \cup {p} /\ (\A w \in Workers : cpu[w] \in Procs /\ (cpu[w] = e => w = p))
        /\ e = IF tl[p] = None THEN p ELSE tl[p]
    BY <1>e, <1>7, OnCpu DEF CoInv, CpuInv, WorkersOn, StackOnce, OnTarget, Target
  <2>1. CpuInv'
    <3>1. HostsOff'
      BY <1>7, <1>e, <1>x, <1>k, <1>y, <1>v, <2>e DEF CoInv, CpuInv, HostsOff
    <3>2. WorkersOn'
      BY <1>7, <1>e, <1>x, <1>k, <1>y, <1>v, <2>e DEF CoInv, CpuInv, WorkersOn
    <3>3. LeftFinishes'
      BY <1>7, <1>e, <1>x, <1>k, <1>y, <1>v, <2>e DEF CoInv, CpuInv, LeftFinishes
    <3>4. ThreadFinishes'
      BY <1>7, <1>e, <1>x, <1>k, <1>y, <1>v, <2>e DEF CoInv, CpuInv, ThreadFinishes
    <3>5. StackOnce'
      BY <1>7, <1>e, <1>x, <1>k, <1>y, <1>v, <2>e DEF CoInv, CpuInv, StackOnce
    <3>6. OnTarget'
      BY <1>7, <1>e, <1>x, <1>k, <1>y, <1>v, <2>e DEF CoInv, CpuInv, OnTarget, Target
    <3>7. LeavesForFiber'
      BY <1>7, <1>e, <1>x, <1>k, <1>y, <1>v, <2>e DEF CoInv, CpuInv, LeavesForFiber
    <3> QED  BY <3>1, <3>2, <3>3, <3>4, <3>5, <3>6, <3>7 DEF CpuInv
  <2>2. SelfInv'
    <3>1. SelfWhole'
      BY <1>7, <1>e, <1>x, <1>k, <1>y, <1>v, <2>e DEF CoInv, SelfInv, SelfWhole, Whole
    <3>2. CallWorker'
      BY <1>7, <1>e, <1>x, <1>k, <1>y, <1>v, <2>e DEF CoInv, SelfInv, CallWorker, WorkerCall,
        RunClaim
    <3>3. CurrentSelf'
      BY <1>7, <1>e, <1>x, <1>k, <1>y, <1>v, <2>e DEF CoInv, SelfInv, CurrentSelf
    <3>4. TcbCurrent'
      BY <1>7, <1>e, <1>x, <1>k, <1>y, <1>v, <2>e DEF CoInv, SelfInv, TcbCurrent
    <3>5. SelfState'
      BY <1>7, <1>e, <1>x, <1>k, <1>y, <1>v, <2>e DEF CoInv, SelfInv, SelfState, Published
    <3> QED  BY <3>1, <3>2, <3>3, <3>4, <3>5 DEF SelfInv
  <2>3. ReleaseInv'
    BY <1>7, <1>e, <1>x, <1>k, <1>y, <1>v, <2>e, KeepReleases DEF Whole
  <2>4. EnterInv'
    <3>1. EntersOther'
      BY <1>7, <1>e, <1>x, <1>k, <1>y, <1>v, <2>e DEF CoInv, EnterInv, EntersOther
    <3>2. EntersTarget'
      BY <1>7, <1>e, <1>x, <1>k, <1>y, <1>v, <2>e DEF CoInv, EnterInv, EntersTarget
    <3> QED  BY <3>1, <3>2 DEF EnterInv
  <2>5. NoThreads'
    BY <1>7, <1>e, <1>x, <1>k, <1>y, <1>v, <2>e DEF CoInv, NoThreads, Published
  <2> QED  BY <2>1, <2>2, <2>3, <2>4, <2>5 DEF CoInv
<1> QED  BY <1>1, <1>2, <1>3, <1>4, <1>5, <1>6, <1>7, <1>v DEF ThreadMode

(* A fiber that switches is SUSPENDING, hence unclaimable, on its own      *)
(* stack.                                                                  *)
LEMMA Step_suspending ==
  ASSUME FIInv, NEW p \in Procs, suspending(p)
  PROVE  FIInv'
<1> USE SetsAssumption DEF Procs, FIInv, Base
<1>e. PICK e \in Procs : e = cpu[p] /\ pc[e] = "claimed"
  BY OnCpu DEF suspending, At
<1>m. ~ThreadMode
  BY <1>e DEF suspending
<1>s. PICK s \in Hosts, q \in Objects :
        /\ s = tl[p] /\ q = obj[s] /\ host[q] = s /\ hstat[s] = "live" /\ state[q] = "RUNNING"
        /\ (\A d \in Procs : tgt[d] # q) /\ hworker[s] \in Workers /\ (~ThreadMode => hworker[s] = p)
  BY <1>e, SelfRunning DEF suspending
<1>t. PICK o \in Objects, h \in Hosts :
        /\ o = tgt[e] /\ h = host[o] /\ (\A d \in Procs : tgt[d] = o => d = e) /\ (\A x \in Objects : host[x] = h => x = o)
        /\ state[o] = "RUNNING" /\ hstat[h] = "live" /\ obj[h] = o
  BY <1>e, Claimed DEF RunClaim, EndClaim
<1>y. /\ pc \in [Procs -> Labels]
      /\ state \in [Objects -> {"IDLE", "RUNNING", "SUSPENDING", "FINALIZED"}]
  BY DEF FTypes, TypeOK
<1>v. /\ ~ThreadMode
      /\ pc' = [pc EXCEPT ![e] = "ready"]
      /\ state' = [state EXCEPT ![q] = "SUSPENDING"]
      /\ UNCHANGED <<scenario, host, obj, hstat, hworker, started, kill, release, baton, current,
                           wstat, slot, tcb, tgt, wk, scan, cpu, tl, table, nworkers, look>>
  BY <1>e, <1>m, <1>s, <1>t, <1>y DEF suspending, At, Goto, Done, F, H, W, SelfObj, objvars,
    hostvars, callvars, tabvars
<1>1. FTypes'
  BY <1>e, <1>m, <1>s, <1>t, <1>y, <1>v DEF FTypes, TypeOK, Labels
<1>2. ObjectInv'
  BY <1>e, <1>m, <1>s, <1>t, <1>y, <1>v DEF ObjectInv, NamedLive, NamedUsed, NamedOnce, UnusedClean,
    LiveNamed, LiveKept
<1>3. ClaimInv'
  <2>1. ClaimHasTarget'
    BY <1>e, <1>m, <1>s, <1>t, <1>y, <1>v DEF ClaimInv, ClaimHasTarget, RunClaim, EndClaim
  <2>2. TargetClaimed'
    BY <1>e, <1>m, <1>s, <1>t, <1>y, <1>v DEF ClaimInv, TargetClaimed, RunClaim, EndClaim,
      ClaimHasTarget
  <2>3. ClaimedOnce'
    BY <1>e, <1>m, <1>s, <1>t, <1>y, <1>v DEF ClaimInv, ClaimedOnce
  <2>4. EndedWhole'
    BY <1>e, <1>m, <1>s, <1>t, <1>y, <1>v DEF ClaimInv, EndedWhole, ClaimHasTarget, RunClaim,
      EndClaim, ClaimedOnce, TargetClaimed
  <2>5. ClearedGone'
    BY <1>e, <1>m, <1>s, <1>t, <1>y, <1>v DEF ClaimInv, ClearedGone, ClaimHasTarget, RunClaim,
      EndClaim, TargetClaimed
  <2> QED  BY <2>1, <2>2, <2>3, <2>4, <2>5 DEF ClaimInv
<1>4. TableInv'
  BY <1>e, <1>m, <1>s, <1>t, <1>y, <1>v DEF TableInv, ListedLive, LiveListed, ScanBounded,
    Publishing, ExitLive, NoWorkerNoSlot, WorkerNew, HostLabels
<1>5. LookInv'
  BY <1>e, <1>m, <1>s, <1>t, <1>y, <1>v DEF LookInv, OffEmpty, ScansFromOne, HasWorker, WorkerSafe,
    FiberSafe
<1>7. CoInv'
  <2>e. /\ p \in Workers /\ e \in Hosts \cup {p} /\ (\A w \in Workers : cpu[w] \in Procs /\ (cpu[w] = e => w = p))
        /\ e = IF tl[p] = None THEN p ELSE tl[p]
    BY <1>e, <1>m, OnCpu DEF CoInv, CpuInv, WorkersOn, StackOnce, OnTarget, Target
  <2>h. (\A w \in Workers : tl[w] # h) /\ (\A d \in Procs : release[d] # o) /\ (\A w \in Workers : cpu[w] # h)
    BY <1>e, <1>m, <1>t, ClaimedOff DEF RunClaim, EndClaim
  <2>y. /\ \A w \in Workers : tl[w] \in Hosts \cup {None} /\ Target(w) \in Procs /\ cpu[w] \in Procs
        /\ \A x \in Procs : release[x] \in Objects \cup {None} /\ tgt[x] \in Objects \cup {None}
        /\ \A w \in Workers : tl[w] # None => obj[tl[w]] \in Objects /\ host[obj[tl[w]]] = tl[w]
    BY <1>m, <2>e DEF Target, CoInv, SelfInv, SelfWhole, Whole, FTypes, TypeOK
  <2>o. \A w \in Workers \ {p} : pc'[cpu[w]] = pc[cpu[w]] /\ (tl[w] # None => tl[w] # s /\ obj[tl[w]] # q)
    BY <1>m, <1>s, <1>v, <1>y, <2>e, <2>y DEF CoInv, SelfInv, SelfWhole
  <2>1. CpuInv'
    BY <1>e, <1>m, <1>s, <1>t, <1>y, <1>v, <2>e, <2>h, <2>y, <2>o DEF CoInv, CpuInv, HostsOff,
      WorkersOn, LeftFinishes, ThreadFinishes, StackOnce, OnTarget, LeavesForFiber, Target
  <2>2. SelfInv'
    <3>1. SelfWhole'
      BY <1>e, <1>m, <1>s, <1>t, <1>y, <1>v, <2>e, <2>h, <2>y, <2>o DEF CoInv, SelfInv, SelfWhole,
        Whole
    <3>2. CallWorker'
      BY <1>e, <1>m, <1>s, <1>t, <1>y, <1>v, <2>e, <2>h, <2>y, <2>o DEF CoInv, SelfInv, CallWorker,
        WorkerCall, RunClaim
    <3>3. CurrentSelf'
      BY <1>e, <1>m, <1>s, <1>t, <1>y, <1>v, <2>e, <2>h, <2>y, <2>o DEF CoInv, SelfInv, CurrentSelf
    <3>4. TcbCurrent'
      BY <1>e, <1>m, <1>s, <1>t, <1>y, <1>v, <2>e, <2>h, <2>y, <2>o DEF CoInv, SelfInv, TcbCurrent
    <3>5. SelfState'
      <4> SUFFICES ASSUME NEW w \in Workers, tl[w] # None
                   PROVE  state'[obj[tl[w]]] = IF pc'[cpu[w]] = "ready" THEN "SUSPENDING" ELSE "RUNNING"
        BY <1>v DEF SelfState
      <4>1. CASE w = p
        BY <1>e, <1>s, <1>y, <1>v, <4>1
      <4>2. CASE w # p
        <5>1. state[obj[tl[w]]] = IF pc[cpu[w]] = "ready" THEN "SUSPENDING" ELSE "RUNNING"
          BY <1>m DEF CoInv, SelfInv, SelfState
        <5>2. pc'[cpu[w]] = pc[cpu[w]] /\ obj[tl[w]] \in Objects \ {q}
          BY <2>o, <2>y, <4>2
        <5> QED  BY <1>y, <1>v, <5>1, <5>2
      <4> QED  BY <4>1, <4>2
    <3> QED  BY <3>1, <3>2, <3>3, <3>4, <3>5 DEF SelfInv
  <2>3. ReleaseInv'
    BY <1>e, <1>m, <1>s, <1>t, <1>y, <1>v, <2>e, <2>h, <2>y, <2>o, KeepReleases DEF Whole
  <2>4. EnterInv'
    BY <1>e, <1>m, <1>s, <1>t, <1>y, <1>v, <2>e, <2>h, <2>y, <2>o DEF CoInv, EnterInv, EntersOther,
      EntersTarget
  <2>5. NoThreads'
    BY <1>e, <1>m, <1>s, <1>t, <1>y, <1>v, <2>e, <2>h, <2>y, <2>o DEF CoInv, NoThreads
  <2> QED  BY <2>1, <2>2, <2>3, <2>4, <2>5 DEF CoInv
<1> QED  BY <1>1, <1>2, <1>3, <1>4, <1>5, <1>7, <1>m, <1>v DEF ThreadMode

(* The target becomes what the host thread is about to be on, and has the  *)
(* caller to release.                                                      *)
LEMMA Step_co_enter ==
  ASSUME FIInv, NEW p \in Procs, co_enter(p)
  PROVE  FIInv'
<1> USE SetsAssumption DEF Procs, FIInv, Base
<1>e. PICK e \in Procs : e = cpu[p] /\ pc[e] \in {"ready", "checks"}
  BY OnCpu DEF co_enter, At
<1>m. ~ThreadMode
  BY DEF co_enter
<1>w. wk[e] \in Workers /\ (e \in Workers => wk[e] = e) /\ (~ThreadMode => wk[e] = p)
  BY <1>e, CallersWorker DEF WorkerCall, RunClaim
<1>t. PICK o \in Objects, h \in Hosts :
        /\ o = tgt[e] /\ h = host[o] /\ (\A d \in Procs : tgt[d] = o => d = e) /\ (\A x \in Objects : host[x] = h => x = o)
        /\ state[o] = "RUNNING" /\ hstat[h] = "live" /\ obj[h] = o
  BY <1>e, Claimed DEF RunClaim, EndClaim
<1>y. /\ pc \in [Procs -> Labels]
      /\ hworker \in [Hosts -> Workers \cup {None}]
      /\ release \in [Procs -> Objects \cup {None}]
      /\ current \in [Workers -> Hosts \cup {None}]
      /\ tl \in [Procs -> Hosts \cup {None}]
      /\ tcb \in [Workers -> Procs]
  BY DEF FTypes, TypeOK
<1>v. /\ ~ThreadMode
      /\ pc' = [pc EXCEPT ![e] = "switch"]
      /\ hworker' = [hworker EXCEPT ![h] = wk[e]]
      /\ release' = [release EXCEPT ![h] = IF tl[p] = None THEN None ELSE obj[tl[p]]]
      /\ current' = [current EXCEPT ![wk[e]] = h]
      /\ tl' = [tl EXCEPT ![p] = h]
      /\ tcb' = [tcb EXCEPT ![wk[e]] = h]
      /\ UNCHANGED <<scenario, state, host, obj, hstat, started, kill, baton, wstat, slot, tgt,
                           wk, scan, cpu, table, nworkers, look>>
  BY <1>e, <1>m, <1>w, <1>t, <1>y DEF co_enter, At, Goto, Done, F, H, W, SelfObj, objvars, hostvars,
    callvars, tabvars
<1>1. FTypes'
  BY <1>e, <1>m, <1>w, <1>t, <1>y, <1>v DEF FTypes, TypeOK, Labels
<1>2. ObjectInv'
  BY <1>e, <1>m, <1>w, <1>t, <1>y, <1>v DEF ObjectInv, NamedLive, NamedUsed, NamedOnce, UnusedClean,
    LiveNamed, LiveKept
<1>3. ClaimInv'
  <2>1. ClaimHasTarget'
    BY <1>e, <1>m, <1>w, <1>t, <1>y, <1>v DEF ClaimInv, ClaimHasTarget, RunClaim, EndClaim
  <2>2. TargetClaimed'
    BY <1>e, <1>m, <1>w, <1>t, <1>y, <1>v DEF ClaimInv, TargetClaimed, RunClaim, EndClaim,
      ClaimHasTarget
  <2>3. ClaimedOnce'
    BY <1>e, <1>m, <1>w, <1>t, <1>y, <1>v DEF ClaimInv, ClaimedOnce
  <2>4. EndedWhole'
    BY <1>e, <1>m, <1>w, <1>t, <1>y, <1>v DEF ClaimInv, EndedWhole, ClaimHasTarget, RunClaim,
      EndClaim, ClaimedOnce, TargetClaimed
  <2>5. ClearedGone'
    BY <1>e, <1>m, <1>w, <1>t, <1>y, <1>v DEF ClaimInv, ClearedGone, ClaimHasTarget, RunClaim,
      EndClaim, TargetClaimed
  <2> QED  BY <2>1, <2>2, <2>3, <2>4, <2>5 DEF ClaimInv
<1>4. TableInv'
  <2>1. ListedLive'
    BY <1>e, <1>m, <1>w, <1>t, <1>y, <1>v DEF TableInv, ListedLive
  <2>2. LiveListed'
    BY <1>e, <1>m, <1>w, <1>t, <1>y, <1>v DEF TableInv, LiveListed
  <2>3. ScanBounded'
    BY <1>e, <1>m, <1>w, <1>t, <1>y, <1>v DEF TableInv, ScanBounded
  <2>4. Publishing'
    BY <1>e, <1>m, <1>w, <1>t, <1>y, <1>v DEF TableInv, Publishing
  <2>5. ExitLive'
    BY <1>e, <1>m, <1>w, <1>t, <1>y, <1>v DEF TableInv, ExitLive
  <2>6. NoWorkerNoSlot'
    BY <1>e, <1>m, <1>w, <1>t, <1>y, <1>v DEF TableInv, NoWorkerNoSlot
  <2>7. WorkerNew'
    BY <1>e, <1>m, <1>w, <1>t, <1>y, <1>v DEF TableInv, WorkerNew
  <2>8. HostLabels'
    BY <1>e, <1>m, <1>w, <1>t, <1>y, <1>v DEF TableInv, HostLabels
  <2> QED  BY <2>1, <2>2, <2>3, <2>4, <2>5, <2>6, <2>7, <2>8 DEF TableInv
<1>5. LookInv'
  BY <1>e, <1>m, <1>w, <1>t, <1>y, <1>v DEF LookInv, OffEmpty, ScansFromOne, HasWorker, WorkerSafe,
    FiberSafe
<1>7. CoInv'
  <2>e. /\ p \in Workers /\ e \in Hosts \cup {p} /\ (\A w \in Workers : cpu[w] \in Procs /\ (cpu[w] = e => w = p))
        /\ e = IF tl[p] = None THEN p ELSE tl[p]
    BY <1>e, <1>m, OnCpu DEF CoInv, CpuInv, WorkersOn, StackOnce, OnTarget, Target
  <2>h. (\A w \in Workers : tl[w] # h) /\ (\A d \in Procs : release[d] # o) /\ (\A w \in Workers : cpu[w] # h)
    BY <1>e, <1>m, <1>t, ClaimedOff DEF RunClaim, EndClaim
  <2>y. /\ \A w \in Workers : tl[w] \in Hosts \cup {None} /\ Target(w) \in Procs /\ cpu[w] \in Procs
        /\ \A x \in Procs : release[x] \in Objects \cup {None} /\ tgt[x] \in Objects \cup {None}
        /\ \A w \in Workers : tl[w] # None => obj[tl[w]] \in Objects /\ host[obj[tl[w]]] = tl[w]
    BY <1>m, <2>e DEF Target, CoInv, SelfInv, SelfWhole, Whole, FTypes, TypeOK
  <2>r. PICK r \in Objects \cup {None} :
          /\ release' = [release EXCEPT ![h] = r] /\ (r = None <=> tl[p] = None)
          /\ r # None => e = tl[p] /\ r = obj[e] /\ host[r] = e /\ hstat[e] = "live" /\ state[r] = "SUSPENDING"
    <3>1. release' = [release EXCEPT ![h] = IF tl[p] = None THEN None ELSE obj[tl[p]]]
      BY <1>v
    <3>2. CASE tl[p] = None
      BY <3>1, <3>2
    <3>3. CASE tl[p] # None
      <4>1. e = tl[p] /\ e \in Hosts
        BY <2>e, <2>y, <3>3
      <4>2. hstat[e] = "live" /\ obj[e] \in Objects /\ host[obj[e]] = e
        BY <1>m, <2>e, <2>y, <3>3, <4>1 DEF CoInv, SelfInv, SelfWhole, Whole
      <4>3. pc[e] = "ready"
        BY <1>e, <4>1 DEF TableInv, HostLabels
      <4>4. state[obj[e]] = "SUSPENDING"
        BY <1>e, <1>m, <2>e, <3>3, <4>1, <4>3 DEF CoInv, SelfInv, SelfState
      <4> QED  BY <3>1, <3>3, <4>1, <4>2, <4>4
    <3> QED  BY <3>2, <3>3
  <2>g. h \notin Workers /\ Target(p)' = h /\ \A w \in Workers : w # p => Target(w)' = Target(w) /\ tl'[w] = tl[w] /\ Target(w) # h
    BY <1>t, <1>v, <2>e, <2>h DEF Target, FTypes, TypeOK
  <2>n. release[h] = None
    BY <1>m, <1>t, <2>e, <2>h DEF CoInv, ReleaseInv, ReleaserRuns, Target
  <2>o. r # None => \A x \in Procs : release[x] # r
    BY <1>m, <2>e, <2>r DEF CoInv, ReleaseInv, ReleasedNotSelf
  <2>a. /\ tl'[p] = h /\ current'[p] = h /\ tcb'[p] = h /\ hworker'[h] = p /\ pc'[e] = "switch" /\ release'[h] = r
        /\ \A w \in Workers \ {p} : tl'[w] = tl[w] /\ current'[w] = current[w] /\ tcb'[w] = tcb[w] /\ pc'[cpu[w]] = pc[cpu[w]]
        /\ \A x \in Hosts \ {h} : hworker'[x] = hworker[x]
        /\ \A x \in Procs \ {e} : pc'[x] = pc[x]
        /\ \A x \in Procs \ {h} : release'[x] = release[x]
    BY <1>m, <1>w, <1>y, <1>v, <2>e, <2>r
  <2>u. UNCHANGED <<state, host, obj, hstat, tgt, wk, cpu>>
    BY <1>v
  <2>s. tl[p] # None => \A w \in Workers \ {p} : tl[w] # tl[p]
    BY <1>m, <2>e DEF CoInv, SelfInv, SelfWhole
  <2>q. /\ r # None => /\ e = tl[p] /\ e \in Hosts /\ host'[r] = e /\ state'[r] = "SUSPENDING" /\ obj'[e] = r /\ Whole(e)'
        /\ e \in Hosts => r # None
    BY <2>e, <2>r, <2>u, <2>y DEF Whole
  <2>z. /\ tl'[p] = h /\ current'[p] = h /\ tcb'[p] = h /\ cpu'[p] = e /\ pc'[e] = "switch" /\ Target(p)' = h
        /\ release'[h] = r /\ hworker'[h] = p /\ h # None /\ obj'[h] = o /\ state'[o] = "RUNNING" /\ Whole(h)' /\ e # h
    <3>1. /\ tl'[p] = h /\ current'[p] = h /\ tcb'[p] = h /\ cpu'[p] = e /\ pc'[e] = "switch" /\ Target(p)' = h
          /\ release'[h] = r /\ hworker'[h] = p
      BY <1>e, <2>a, <2>e, <2>g, <2>u
    <3>2. h # None /\ obj'[h] = o /\ o # None /\ state'[o] = "RUNNING" /\ host'[o] = h /\ hstat'[h] = "live"
      BY <1>t, <2>u
    <3>3. e # h
      BY <1>e, <2>e, <2>h
    <3> QED  BY <3>1, <3>2, <3>3 DEF Whole
  <2>1. CpuInv'
    <3>1. HostsOff'
      BY <1>m, <1>e, <2>e, <2>u, <2>a, <2>g, <2>y DEF CoInv, CpuInv, HostsOff
    <3>2. WorkersOn'
      BY <1>m, <1>e, <2>e, <2>u, <2>a, <2>g, <2>y DEF CoInv, CpuInv, WorkersOn
    <3>3. LeftFinishes'
      BY <1>m, <1>e, <2>e, <2>u, <2>a, <2>g, <2>y DEF CoInv, CpuInv, LeftFinishes
    <3>4. ThreadFinishes'
      BY <1>m, <1>e, <2>e, <2>u, <2>a, <2>g, <2>y DEF CoInv, CpuInv, ThreadFinishes
    <3>5. StackOnce'
      BY <1>m, <1>e, <2>e, <2>u, <2>a, <2>g, <2>y DEF CoInv, CpuInv, StackOnce
    <3>6. OnTarget'
      <4>1. (pc[cpu[p]] # "switch" => cpu[p] = Target(p))'
        BY <2>u, <2>z
      <4>2. ASSUME NEW w \in Workers, w # p PROVE (pc[cpu[w]] # "switch" => cpu[w] = Target(w))'
        <5>1. pc[cpu[w]] # "switch" => cpu[w] = Target(w)
          BY <1>m DEF CoInv, CpuInv, OnTarget
        <5> QED  BY <4>2, <5>1, <2>a, <2>g, <2>u
      <4> QED  BY <4>1, <4>2 DEF OnTarget
    <3>7. LeavesForFiber'
      <4>1. (pc[cpu[p]] = "switch" /\ cpu[p] = p => tl[p] # None)'
        BY <2>u, <2>z
      <4>2. ASSUME NEW w \in Workers, w # p
            PROVE  (pc[cpu[w]] = "switch" /\ cpu[w] = w => tl[w] # None)'
        <5>1. pc[cpu[w]] = "switch" /\ cpu[w] = w => tl[w] # None
          BY <1>m DEF CoInv, CpuInv, LeavesForFiber
        <5> QED  BY <4>2, <5>1, <2>a, <2>g, <2>u
      <4> QED  BY <4>1, <4>2 DEF LeavesForFiber
    <3> QED  BY <3>1, <3>2, <3>3, <3>4, <3>5, <3>6, <3>7 DEF CpuInv
  <2>2. SelfInv'
    <3>1. SelfWhole'
      <4>1. (tl[p] # None => hworker[tl[p]] = p /\ Whole(tl[p]))'
        BY <2>u, <2>z DEF Whole
      <4>2. ASSUME NEW w \in Workers, w # p
            PROVE  (tl[w] # None => hworker[tl[w]] = w /\ Whole(tl[w]))'
        <5>1. tl[w] # None => hworker[tl[w]] = w /\ Whole(tl[w])
          BY <1>m DEF CoInv, SelfInv, SelfWhole
        <5> QED  BY <4>2, <5>1, <2>a, <2>g, <2>h, <2>u, <2>y DEF Whole
      <4> QED  BY <4>1, <4>2 DEF SelfWhole
    <3>2. CallWorker'
      <4>1. (pc[cpu[p]] \in WorkerCall => wk[cpu[p]] = p)'
        BY <1>e, <1>m, <1>w, <1>t, <2>e, <2>h, <2>r, <2>g, <2>a, <2>u, <2>y, <2>s DEF WorkerCall,
          RunClaim
      <4>2. ASSUME NEW w \in Workers, w # p PROVE (pc[cpu[w]] \in WorkerCall => wk[cpu[w]] = w)'
        <5>1. pc[cpu[w]] \in WorkerCall => wk[cpu[w]] = w
          BY <1>m DEF CoInv, SelfInv, CallWorker
        <5> QED  BY <4>2, <5>1, <1>e, <1>m, <1>w, <1>t, <2>e, <2>h, <2>r, <2>g, <2>a, <2>u, <2>y,
          <2>s DEF WorkerCall, RunClaim
      <4> QED  BY <4>1, <4>2 DEF CallWorker
    <3>3. CurrentSelf'
      <4>1. (current[p] = IF pc[cpu[p]] = "return" THEN None ELSE tl[p])'
        BY <2>u, <2>z
      <4>2. ASSUME NEW w \in Workers, w # p
            PROVE  (current[w] = IF pc[cpu[w]] = "return" THEN None ELSE tl[w])'
        <5>1. current[w] = IF pc[cpu[w]] = "return" THEN None ELSE tl[w]
          BY <1>m DEF CoInv, SelfInv, CurrentSelf
        <5> QED  BY <4>2, <5>1, <2>a, <2>g, <2>u
      <4> QED  BY <4>1, <4>2 DEF CurrentSelf
    <3>4. TcbCurrent'
      <4>1. (tcb[p] = IF current[p] = None THEN p ELSE current[p])'
        BY <2>u, <2>z
      <4>2. ASSUME NEW w \in Workers, w # p
            PROVE  (tcb[w] = IF current[w] = None THEN w ELSE current[w])'
        <5>1. tcb[w] = IF current[w] = None THEN w ELSE current[w]
          BY <1>m DEF CoInv, SelfInv, TcbCurrent
        <5> QED  BY <4>2, <5>1, <2>a, <2>g, <2>u
      <4> QED  BY <4>1, <4>2 DEF TcbCurrent
    <3>5. SelfState'
      <4>1. (tl[p] # None => state[obj[tl[p]]] = IF pc[cpu[p]] = "ready" THEN "SUSPENDING" ELSE "RUNNING")'
        BY <2>u, <2>z
      <4>2. ASSUME NEW w \in Workers, w # p
            PROVE  (tl[w] # None => state[obj[tl[w]]] = IF pc[cpu[w]] = "ready" THEN "SUSPENDING" ELSE "RUNNING")'
        <5>1. tl[w] # None => state[obj[tl[w]]] = IF pc[cpu[w]] = "ready" THEN "SUSPENDING" ELSE "RUNNING"
          BY <1>m DEF CoInv, SelfInv, SelfState
        <5> QED  BY <4>2, <5>1, <2>a, <2>g, <2>u
      <4> QED  BY <4>1, <4>2 DEF SelfState
    <3> QED  BY <3>1, <3>2, <3>3, <3>4, <3>5 DEF SelfInv
  <2>3. ReleaseInv'
    <3>1. LeftReleases'
      <4>1. (cpu[p] \in Hosts /\ pc[cpu[p]] = "switch" => Whole(cpu[p]) /\ release[Target(p)] = obj[cpu[p]])'
        BY <2>q, <2>z DEF Whole
      <4>2. ASSUME NEW w \in Workers, w # p
            PROVE  (cpu[w] \in Hosts /\ pc[cpu[w]] = "switch" => Whole(cpu[w]) /\ release[Target(w)] = obj[cpu[w]])'
        <5>1. cpu[w] \in Hosts /\ pc[cpu[w]] = "switch" => Whole(cpu[w]) /\ release[Target(w)] = obj[cpu[w]]
          BY <1>m DEF CoInv, ReleaseInv, LeftReleases
        <5> QED  BY <4>2, <5>1, <2>a, <2>g, <2>u, <2>y DEF Whole
      <4> QED  BY <4>1, <4>2 DEF LeftReleases
    <3>2. ReleaseSuspending'
      <4>1. (release[h] # None => state[release[h]] = "SUSPENDING" /\ host[release[h]] # None)'
        BY <2>q, <2>z
      <4>2. ASSUME NEW x \in Procs, x # h
            PROVE  (release[x] # None => state[release[x]] = "SUSPENDING" /\ host[release[x]] # None)'
        <5>1. release[x] # None => state[release[x]] = "SUSPENDING" /\ host[release[x]] # None
          BY <1>m DEF CoInv, ReleaseInv, ReleaseSuspending
        <5> QED  BY <4>2, <5>1, <2>a, <2>u
      <4> QED  BY <4>1, <4>2 DEF ReleaseSuspending
    <3>3. ReleasedNotSelf'
      <4>1. ASSUME NEW w \in Workers PROVE (release[h] # None => tl[w] # host[release[h]])'
        <5>1. CASE w = p
          BY <5>1, <2>q, <2>z
        <5>2. CASE w # p
          BY <5>2, <2>a, <2>q, <2>s, <2>z
        <5> QED  BY <5>1, <5>2
      <4>2. ASSUME NEW x \in Procs, x # h, NEW w \in Workers
            PROVE  (release[x] # None => tl[w] # host[release[x]])'
        <5>1. release[x] # None => tl[w] # host[release[x]]
          BY <1>m DEF CoInv, ReleaseInv, ReleasedNotSelf
        <5>2. CASE w = p
          BY <4>2, <5>1, <5>2, <1>t, <2>a, <2>h, <2>u, <2>y, <2>z
        <5>3. CASE w # p
          BY <4>2, <5>1, <5>3, <2>a, <2>u
        <5> QED  BY <5>2, <5>3
      <4> QED  BY <4>1, <4>2 DEF ReleasedNotSelf
    <3>4. ReleasedOnStack'
      <4>1. ASSUME NEW w \in Workers
            PROVE  (release[h] # None /\ cpu[w] = host[release[h]] => pc[cpu[w]] = "switch" /\ Target(w) = h)'
        <5>1. CASE w = p
          BY <5>1, <2>z
        <5>2. CASE w # p
          BY <5>2, <2>e, <2>q, <2>u, <2>z
        <5> QED  BY <5>1, <5>2
      <4>2. ASSUME NEW x \in Procs, x # h, NEW w \in Workers
            PROVE  (release[x] # None /\ cpu[w] = host[release[x]] => pc[cpu[w]] = "switch" /\ Target(w) = x)'
        <5>1. release[x] # None /\ cpu[w] = host[release[x]] => pc[cpu[w]] = "switch" /\ Target(w) = x
          BY <1>m DEF CoInv, ReleaseInv, ReleasedOnStack
        <5>2. CASE w = p
          BY <4>2, <5>1, <5>2, <1>e, <2>a, <2>u
        <5>3. CASE w # p
          BY <4>2, <5>1, <5>3, <2>a, <2>g, <2>u
        <5> QED  BY <5>2, <5>3
      <4> QED  BY <4>1, <4>2 DEF ReleasedOnStack
    <3>5. ReleaserRuns'
      <4>1. (release[h] # None => \E w \in Workers : Target(w) = h /\ pc[cpu[w]] \in {"switch", "finish"})'
        <5>1. p \in Workers /\ Target(p)' = h /\ pc'[cpu'[p]] \in {"switch", "finish"}
          BY <2>e, <2>z
        <5> QED  BY <5>1
      <4>2. ASSUME NEW x \in Procs, x # h, release'[x] # None
                 PROVE  \E w \in Workers : Target(w)' = x /\ pc'[cpu'[w]] \in {"switch", "finish"}
        <5>1. release[x] # None
          BY <4>2, <2>a
        <5>2. PICK w \in Workers : Target(w) = x /\ pc[cpu[w]] \in {"switch", "finish"}
          BY <1>m, <5>1 DEF CoInv, ReleaseInv, ReleaserRuns
        <5>3. w # p
          BY <1>e, <5>2
        <5> QED  BY <5>2, <5>3, <2>a, <2>g, <2>u
      <4> QED  BY <4>1, <4>2 DEF ReleaserRuns
    <3>6. ReleaseOnce'
      <4>1. ASSUME NEW x \in Procs, x # h, NEW d \in Procs, d # h
            PROVE  (release[d] # None /\ release[d] = release[x] => d = x)'
        <5>1. release[d] # None /\ release[d] = release[x] => d = x
          BY <1>m DEF CoInv, ReleaseInv, ReleaseOnce
        <5> QED  BY <4>1, <5>1, <1>e, <1>m, <1>w, <1>t, <2>e, <2>h, <2>r, <2>g, <2>a, <2>u, <2>y,
          <2>s, <2>o
      <4>2. ASSUME NEW x \in Procs, x # h PROVE release'[h] # None => release'[h] # release'[x]
        BY <4>2, <1>e, <1>m, <1>w, <1>t, <2>e, <2>h, <2>r, <2>g, <2>a, <2>u, <2>y, <2>s, <2>o
      <4> QED  BY <4>1, <4>2 DEF ReleaseOnce
    <3> QED  BY <3>1, <3>2, <3>3, <3>4, <3>5, <3>6 DEF ReleaseInv
  <2>4. EnterInv'
    <3>1. EntersOther'
      <4>1. ASSUME NEW w \in Workers
            PROVE  (tgt[e] # None /\ pc[e] # "switch" => tl[w] # host[tgt[e]])'
        <5>1. CASE w = p
          BY <5>1, <2>z
        <5>2. CASE w # p
          BY <5>2, <2>z
        <5> QED  BY <5>1, <5>2
      <4>2. ASSUME NEW x \in Procs, x # e, NEW w \in Workers
            PROVE  (tgt[x] # None /\ pc[x] # "switch" => tl[w] # host[tgt[x]])'
        <5>1. tgt[x] # None /\ pc[x] # "switch" => tl[w] # host[tgt[x]]
          BY <1>m DEF CoInv, EnterInv, EntersOther
        <5>2. CASE w = p
          BY <4>2, <5>1, <5>2, <1>t, <2>a, <2>u, <2>y, <2>z
        <5>3. CASE w # p
          BY <4>2, <5>1, <5>3, <2>a, <2>u
        <5> QED  BY <5>2, <5>3
      <4> QED  BY <4>1, <4>2 DEF EntersOther
    <3>2. EntersTarget'
      <4>1. (pc[cpu[p]] = "switch" /\ tgt[cpu[p]] # None => tl[p] = host[tgt[cpu[p]]])'
        BY <1>t, <2>u, <2>z
      <4>2. ASSUME NEW w \in Workers, w # p
            PROVE  (pc[cpu[w]] = "switch" /\ tgt[cpu[w]] # None => tl[w] = host[tgt[cpu[w]]])'
        <5>1. pc[cpu[w]] = "switch" /\ tgt[cpu[w]] # None => tl[w] = host[tgt[cpu[w]]]
          BY <1>m DEF CoInv, EnterInv, EntersTarget
        <5> QED  BY <4>2, <5>1, <2>a, <2>g, <2>u
      <4> QED  BY <4>1, <4>2 DEF EntersTarget
    <3> QED  BY <3>1, <3>2 DEF EnterInv
  <2>5. NoThreads'
    BY <1>m, <1>v, <2>e, <2>a DEF CoInv, NoThreads
  <2> QED  BY <2>1, <2>2, <2>3, <2>4, <2>5 DEF CoInv
<1> QED  BY <1>1, <1>2, <1>3, <1>4, <1>5, <1>7, <1>m, <1>v DEF ThreadMode

(* The host thread leaves one stack for the other, which nobody is on.     *)
LEMMA Step_ctx_switch ==
  ASSUME FIInv, NEW p \in Procs, ctx_switch(p)
  PROVE  FIInv'
<1> USE SetsAssumption DEF Procs, FIInv, Base
<1>e. PICK e \in Procs : e = cpu[p] /\ pc[e] = "switch"
  BY OnCpu DEF ctx_switch, At
<1>m. ~ThreadMode
  BY <1>e DEF ThInv, ThreadInv, NoSwitch
<1>w. wk[e] \in Workers /\ (e \in Workers => wk[e] = e) /\ (~ThreadMode => wk[e] = p)
  BY <1>e, CallersWorker DEF WorkerCall, RunClaim
<1>y. /\ pc \in [Procs -> Labels]
      /\ tgt \in [Procs -> Objects \cup {None}]
      /\ wk \in [Procs -> Workers \cup {None}]
      /\ cpu \in [Procs -> Procs \cup {None}]
  BY DEF FTypes, TypeOK
<1>v. /\ pc' = [pc EXCEPT ![e] = "finish"]
      /\ tgt' = [tgt EXCEPT ![e] = None]
      /\ wk' = [wk EXCEPT ![e] = None]
      /\ cpu' = [cpu EXCEPT ![p] = IF tl[p] = None THEN wk[e] ELSE tl[p]]
      /\ UNCHANGED <<scenario, state, host, obj, hstat, hworker, started, kill, release, baton,
                           current, wstat, slot, tcb, scan, tl, table, nworkers, look>>
  BY <1>e, <1>m, <1>w, <1>y DEF ctx_switch, At, Goto, Done, F, H, W, SelfObj, objvars, hostvars,
    callvars, tabvars
<1>1. FTypes'
  BY <1>e, <1>m, <1>w, <1>y, <1>v DEF FTypes, TypeOK, Labels
<1>2. ObjectInv'
  BY <1>e, <1>m, <1>w, <1>y, <1>v DEF ObjectInv, NamedLive, NamedUsed, NamedOnce, UnusedClean,
    LiveNamed, LiveKept
<1>3. ClaimInv'
  BY <1>e, <1>m, <1>w, <1>y, <1>v DEF ClaimInv, ClaimHasTarget, TargetClaimed, ClaimedOnce,
    EndedWhole, ClearedGone, RunClaim, EndClaim
<1>4. TableInv'
  BY <1>e, <1>m, <1>w, <1>y, <1>v DEF TableInv, ListedLive, LiveListed, ScanBounded, Publishing,
    ExitLive, NoWorkerNoSlot, WorkerNew, HostLabels
<1>5. LookInv'
  BY <1>e, <1>m, <1>w, <1>y, <1>v DEF LookInv, OffEmpty, ScansFromOne, HasWorker, WorkerSafe,
    FiberSafe
<1>7. CoInv'
  <2>e. /\ p \in Workers /\ e \in Hosts \cup {p} /\ (\A w \in Workers : cpu[w] \in Procs /\ (cpu[w] = e => w = p))
    BY <1>e, <1>m, OnCpu DEF CoInv, CpuInv, WorkersOn, StackOnce
  <2>g. PICK g \in Procs : g = Target(p) /\ g = (IF tl[p] = None THEN wk[e] ELSE tl[p])
    BY <1>m, <1>w, <2>e DEF Target, FTypes, TypeOK
  <2>s. tl[p] # None => tl[p] \in Hosts /\ hworker[tl[p]] = p /\ obj[tl[p]] \in Objects /\ host[obj[tl[p]]] = tl[p]
    BY <1>m, <2>e DEF CoInv, SelfInv, SelfWhole, Whole, FTypes, TypeOK
  <2>r. e \in Hosts => release[g] = obj[e] /\ obj[e] \in Objects /\ host[obj[e]] = e
    <3> SUFFICES ASSUME e \in Hosts PROVE release[g] = obj[e] /\ obj[e] \in Objects /\ host[obj[e]] = e
      OBVIOUS
    <3>1. Whole(e) /\ release[g] = obj[e]
      BY <1>e, <1>m, <2>e, <2>g DEF CoInv, ReleaseInv, LeftReleases
    <3>2. obj[e] \in Objects \cup {None}
      BY DEF FTypes, TypeOK
    <3> QED  BY <3>1, <3>2 DEF Whole
  <2>n. g # e
    <3>1. CASE e \in Hosts
      <4>1. tl[p] # e
        BY <1>m, <2>e, <2>r, <3>1 DEF CoInv, ReleaseInv, ReleasedNotSelf
      <4> QED  BY <1>m, <1>w, <2>e, <2>g, <3>1, <4>1
    <3>2. CASE e = p
      <4>1. tl[p] # None
        BY <1>e, <1>m, <2>e, <3>2 DEF CoInv, CpuInv, LeavesForFiber
      <4> QED  BY <2>e, <2>g, <2>s, <3>2, <4>1
    <3> QED  BY <2>e, <3>1, <3>2
  <2>w. \A w \in Workers : w # p => Target(w) # g
    BY <1>m, <2>e, <2>g, <2>s DEF Target, CoInv, SelfInv, SelfWhole, FTypes, TypeOK
  <2>o. \A w \in Workers : cpu[w] # g
    <3> SUFFICES ASSUME NEW w \in Workers, cpu[w] = g PROVE FALSE  OBVIOUS
    <3>1. w # p
      BY <2>e, <2>n, <1>e
    <3>2. pc[cpu[w]] = "switch"
      BY <1>m, <2>w, <3>1 DEF CoInv, CpuInv, OnTarget
    <3>3. g \in Hosts
      <4>1. g \in Hosts \cup {w}
        BY <1>m DEF CoInv, CpuInv, WorkersOn
      <4>2. g # w
        BY <1>m, <1>w, <2>g, <2>s, <3>1
      <4> QED  BY <4>1, <4>2
    <3>4. release[Target(w)] = obj[g] /\ Target(w) \in Procs
      BY <1>m, <3>2, <3>3 DEF CoInv, ReleaseInv, LeftReleases, Target, FTypes, TypeOK
    <3> QED  BY <1>m, <1>w, <2>g, <2>s, <2>e, <3>3, <3>4 DEF CoInv, ReleaseInv, ReleasedNotSelf
  <2>f. pc[g] = "finish"
    BY <1>m, <1>w, <2>e, <2>g, <2>o DEF CoInv, CpuInv, LeftFinishes, ThreadFinishes
  <2>1. CpuInv'
    <3>1. HostsOff'
      BY <1>e, <1>m, <1>w, <1>y, <1>v, <2>e, <2>g, <2>s, <2>r, <2>n, <2>w, <2>o, <2>f DEF CoInv,
        CpuInv, HostsOff
    <3>2. WorkersOn'
      BY <1>e, <1>m, <1>w, <1>y, <1>v, <2>e, <2>g, <2>s, <2>r, <2>n, <2>w, <2>o, <2>f DEF CoInv,
        CpuInv, WorkersOn
    <3>3. LeftFinishes'
      BY <1>e, <1>m, <1>w, <1>y, <1>v, <2>e, <2>g, <2>s, <2>r, <2>n, <2>w, <2>o, <2>f DEF CoInv,
        CpuInv, LeftFinishes
    <3>4. ThreadFinishes'
      BY <1>e, <1>m, <1>w, <1>y, <1>v, <2>e, <2>g, <2>s, <2>r, <2>n, <2>w, <2>o, <2>f DEF CoInv,
        CpuInv, ThreadFinishes
    <3>5. StackOnce'
      BY <1>e, <1>m, <1>w, <1>y, <1>v, <2>e, <2>g, <2>s, <2>r, <2>n, <2>w, <2>o, <2>f DEF CoInv,
        CpuInv, StackOnce
    <3>6. OnTarget'
      BY <1>e, <1>m, <1>w, <1>y, <1>v, <2>e, <2>g, <2>s, <2>r, <2>n, <2>w, <2>o, <2>f DEF CoInv,
        CpuInv, OnTarget, Target
    <3>7. LeavesForFiber'
      BY <1>e, <1>m, <1>w, <1>y, <1>v, <2>e, <2>g, <2>s, <2>r, <2>n, <2>w, <2>o, <2>f DEF CoInv,
        CpuInv, LeavesForFiber
    <3> QED  BY <3>1, <3>2, <3>3, <3>4, <3>5, <3>6, <3>7 DEF CpuInv
  <2>2. SelfInv'
    <3>1. SelfWhole'
      BY <1>e, <1>m, <1>w, <1>y, <1>v, <2>e, <2>g, <2>s, <2>r, <2>n, <2>w, <2>o, <2>f DEF CoInv,
        SelfInv, SelfWhole, Whole
    <3>2. CallWorker'
      BY <1>e, <1>m, <1>w, <1>y, <1>v, <2>e, <2>g, <2>s, <2>r, <2>n, <2>w, <2>o, <2>f DEF CoInv,
        SelfInv, CallWorker, WorkerCall, RunClaim
    <3>3. CurrentSelf'
      BY <1>e, <1>m, <1>w, <1>y, <1>v, <2>e, <2>g, <2>s, <2>r, <2>n, <2>w, <2>o, <2>f DEF CoInv,
        SelfInv, CurrentSelf
    <3>4. TcbCurrent'
      BY <1>e, <1>m, <1>w, <1>y, <1>v, <2>e, <2>g, <2>s, <2>r, <2>n, <2>w, <2>o, <2>f DEF CoInv,
        SelfInv, TcbCurrent
    <3>5. SelfState'
      BY <1>e, <1>m, <1>w, <1>y, <1>v, <2>e, <2>g, <2>s, <2>r, <2>n, <2>w, <2>o, <2>f DEF CoInv,
        SelfInv, SelfState
    <3> QED  BY <3>1, <3>2, <3>3, <3>4, <3>5 DEF SelfInv
  <2>3. ReleaseInv'
    <3>1. LeftReleases'
      BY <1>e, <1>m, <1>w, <1>y, <1>v, <2>e, <2>g, <2>s, <2>r, <2>n, <2>w, <2>o, <2>f DEF CoInv,
        ReleaseInv, LeftReleases, Whole, Target
    <3>2. ReleaseSuspending'
      BY <1>e, <1>m, <1>w, <1>y, <1>v, <2>e, <2>g, <2>s, <2>r, <2>n, <2>w, <2>o, <2>f DEF CoInv,
        ReleaseInv, ReleaseSuspending
    <3>3. ReleasedNotSelf'
      BY <1>e, <1>m, <1>w, <1>y, <1>v, <2>e, <2>g, <2>s, <2>r, <2>n, <2>w, <2>o, <2>f DEF CoInv,
        ReleaseInv, ReleasedNotSelf
    <3>4. ReleasedOnStack'
      <4> SUFFICES ASSUME NEW x \in Procs, NEW w \in Workers, release[x] # None, cpu'[w] = host[release[x]]
                   PROVE  pc'[cpu'[w]] = "switch" /\ Target(w)' = x
        BY <1>v DEF ReleasedOnStack
      <4>1. host[release[x]] \in Hosts
        BY <1>m DEF CoInv, ReleaseInv, ReleaseSuspending, FTypes, TypeOK
      <4>2. w # p
        BY <1>m, <1>w, <1>y, <1>v, <2>e, <2>g, <4>1 DEF CoInv, ReleaseInv, ReleasedNotSelf
      <4> QED  BY <1>m, <1>y, <1>v, <2>e, <4>2 DEF CoInv, ReleaseInv, ReleasedOnStack, Target
    <3>5. ReleaserRuns'
      BY <1>e, <1>m, <1>w, <1>y, <1>v, <2>e, <2>g, <2>s, <2>r, <2>n, <2>w, <2>o, <2>f DEF CoInv,
        ReleaseInv, ReleaserRuns, Target
    <3>6. ReleaseOnce'
      BY <1>e, <1>m, <1>w, <1>y, <1>v, <2>e, <2>g, <2>s, <2>r, <2>n, <2>w, <2>o, <2>f DEF CoInv,
        ReleaseInv, ReleaseOnce
    <3> QED  BY <3>1, <3>2, <3>3, <3>4, <3>5, <3>6 DEF ReleaseInv
  <2>4. EnterInv'
    <3>1. EntersOther'
      BY <1>e, <1>m, <1>w, <1>y, <1>v, <2>e, <2>g, <2>s, <2>r, <2>n, <2>w, <2>o, <2>f DEF CoInv,
        EnterInv, EntersOther
    <3>2. EntersTarget'
      BY <1>e, <1>m, <1>w, <1>y, <1>v, <2>e, <2>g, <2>s, <2>r, <2>n, <2>w, <2>o, <2>f DEF CoInv,
        EnterInv, EntersTarget
    <3> QED  BY <3>1, <3>2 DEF EnterInv
  <2>5. NoThreads'
    BY <1>e, <1>m, <1>w, <1>y, <1>v, <2>e, <2>g, <2>s, <2>r, <2>n, <2>w, <2>o, <2>f DEF CoInv,
      NoThreads
  <2> QED  BY <2>1, <2>2, <2>3, <2>4, <2>5 DEF CoInv
<1> QED  BY <1>1, <1>2, <1>3, <1>4, <1>5, <1>7, <1>m, <1>v DEF ThreadMode

(* The fiber released is IDLE once no host thread is on its stack.         *)
LEMMA Step_co_finish_switch ==
  ASSUME FIInv, NEW p \in Procs, co_finish_switch(p)
  PROVE  FIInv'
<1> USE SetsAssumption DEF Procs, FIInv, Base
<1>e. PICK e \in Procs : e = cpu[p] /\ pc[e] = "finish"
  BY OnCpu DEF co_finish_switch, At
<1>m. ~ThreadMode
  BY <1>e DEF ThInv, ThreadInv, NoSwitch
<1>r. PICK r \in Objects \cup {None} : r = release[e]
  BY DEF FTypes, TypeOK
<1>q. r # None => /\ state[r] = "SUSPENDING" /\ host[r] \in Hosts /\ (\A w \in Workers : tl[w] # host[r])
                  /\ \A x \in Procs : tgt[x] # r
  <2> SUFFICES ASSUME r # None
               PROVE  /\ state[r] = "SUSPENDING" /\ host[r] \in Hosts /\ (\A w \in Workers : tl[w] # host[r])
                      /\ \A x \in Procs : tgt[x] # r
    OBVIOUS
  <2>1. state[r] = "SUSPENDING" /\ host[r] # None
    BY <1>e, <1>m, <1>r DEF CoInv, ReleaseInv, ReleaseSuspending
  <2>2. \A w \in Workers : tl[w] # host[r]
    BY <1>e, <1>m, <1>r DEF CoInv, ReleaseInv, ReleasedNotSelf
  <2>3. host[r] \in Hosts \cup {None}
    BY DEF FTypes, TypeOK
  <2>4. \A x \in Procs : tgt[x] # r
    BY <2>1, ClaimedState
  <2> QED  BY <2>1, <2>2, <2>3, <2>4
<1>y. /\ pc \in [Procs -> Labels]
      /\ release \in [Procs -> Objects \cup {None}]
      /\ state \in [Objects -> {"IDLE", "RUNNING", "SUSPENDING", "FINALIZED"}]
  BY DEF FTypes, TypeOK
<1>v. /\ pc' = [pc EXCEPT ![e] = "guest"]
      /\ release' = [release EXCEPT ![e] = None]
      /\ state' = IF r = None THEN state ELSE [state EXCEPT ![r] = "IDLE"]
      /\ UNCHANGED <<scenario, host, obj, hstat, hworker, started, kill, baton, current, wstat,
                           slot, tcb, tgt, wk, scan, cpu, tl, table, nworkers, look>>
  BY <1>e, <1>m, <1>r, <1>q, <1>y DEF co_finish_switch, At, Goto, Done, F, H, W, SelfObj, objvars,
    hostvars, callvars, tabvars, FTypes, TypeOK
<1>1. FTypes'
  BY <1>e, <1>m, <1>r, <1>q, <1>y, <1>v DEF FTypes, TypeOK, Labels
<1>2. ObjectInv'
  <2>1. NamedLive'
    BY <1>e, <1>m, <1>r, <1>q, <1>y, <1>v DEF ObjectInv, NamedLive
  <2>2. NamedUsed'
    BY <1>e, <1>m, <1>r, <1>q, <1>y, <1>v DEF ObjectInv, NamedUsed
  <2>3. NamedOnce'
    BY <1>e, <1>m, <1>r, <1>q, <1>y, <1>v DEF ObjectInv, NamedOnce
  <2>4. UnusedClean'
    BY <1>e, <1>m, <1>r, <1>q, <1>y, <1>v DEF ObjectInv, UnusedClean
  <2>5. LiveNamed'
    BY <1>e, <1>m, <1>r, <1>q, <1>y, <1>v DEF ObjectInv, LiveNamed
  <2>6. LiveKept'
    BY <1>e, <1>m, <1>r, <1>q, <1>y, <1>v DEF ObjectInv, LiveKept
  <2> QED  BY <2>1, <2>2, <2>3, <2>4, <2>5, <2>6 DEF ObjectInv
<1>3. ClaimInv'
  <2>1. ClaimHasTarget'
    BY <1>e, <1>m, <1>r, <1>q, <1>y, <1>v DEF ClaimInv, ClaimHasTarget, RunClaim, EndClaim
  <2>2. TargetClaimed'
    BY <1>e, <1>m, <1>r, <1>q, <1>y, <1>v DEF ClaimInv, TargetClaimed, RunClaim, EndClaim,
      ClaimHasTarget
  <2>3. ClaimedOnce'
    BY <1>e, <1>m, <1>r, <1>q, <1>y, <1>v DEF ClaimInv, ClaimedOnce
  <2>4. EndedWhole'
    BY <1>e, <1>m, <1>r, <1>q, <1>y, <1>v DEF ClaimInv, EndedWhole, ClaimHasTarget, RunClaim,
      EndClaim, ClaimedOnce, TargetClaimed
  <2>5. ClearedGone'
    BY <1>e, <1>m, <1>r, <1>q, <1>y, <1>v DEF ClaimInv, ClearedGone, ClaimHasTarget, RunClaim,
      EndClaim, TargetClaimed
  <2> QED  BY <2>1, <2>2, <2>3, <2>4, <2>5 DEF ClaimInv
<1>4. TableInv'
  BY <1>e, <1>m, <1>r, <1>q, <1>y, <1>v DEF TableInv, ListedLive, LiveListed, ScanBounded,
    Publishing, ExitLive, NoWorkerNoSlot, WorkerNew, HostLabels
<1>5. LookInv'
  BY <1>e, <1>m, <1>r, <1>q, <1>y, <1>v DEF LookInv, OffEmpty, ScansFromOne, HasWorker, WorkerSafe,
    FiberSafe
<1>7. CoInv'
  <2>e. /\ p \in Workers /\ e \in Hosts \cup {p} /\ (\A w \in Workers : cpu[w] \in Procs /\ (cpu[w] = e => w = p))
        /\ e = IF tl[p] = None THEN p ELSE tl[p]
    BY <1>e, <1>m, OnCpu DEF CoInv, CpuInv, WorkersOn, StackOnce, OnTarget, Target
  <2>y. /\ \A w \in Workers : tl[w] \in Hosts \cup {None} /\ Target(w) \in Procs /\ cpu[w] \in Procs
        /\ \A x \in Procs : release[x] \in Objects \cup {None} /\ tgt[x] \in Objects \cup {None}
        /\ \A w \in Workers : tl[w] # None => obj[tl[w]] \in Objects /\ host[obj[tl[w]]] = tl[w]
    BY <1>m, <2>e DEF Target, CoInv, SelfInv, SelfWhole, Whole, FTypes, TypeOK
  <2>o. r # None => \A w \in Workers : tl[w] # None => obj[tl[w]] # r
    BY <1>m, <1>q DEF CoInv, SelfInv, SelfWhole, Whole
  <2>a. /\ pc'[e] = "guest" /\ release'[e] = None
        /\ \A x \in Procs \ {e} : pc'[x] = pc[x] /\ release'[x] = release[x]
        /\ \A x \in Objects : x # r => state'[x] = state[x]
        /\ UNCHANGED <<host, obj, hstat, hworker, current, tcb, tgt, wk, cpu, tl>>
    BY <1>y, <1>v, <1>q, <1>r
  <2>p. \A x \in Procs : release[x] # None => release[x] \in Objects
    BY DEF FTypes, TypeOK
  <2>t. \A w \in Workers : tl[w] # None => obj[tl[w]] \in Objects
    BY <1>m DEF CoInv, SelfInv, SelfWhole, Whole, FTypes, TypeOK
  <2>g. \A w \in Workers : Target(w)' = Target(w) /\ (w # p => Target(w) # e)
    BY <1>m, <2>a, <2>e, <2>y DEF Target, CoInv, SelfInv, SelfWhole
  <2>1. CpuInv'
    <3>1. HostsOff'
      BY <1>e, <1>m, <1>r, <1>q, <1>y, <1>v, <2>e, <2>y, <2>o, <2>a, <2>p, <2>t DEF CoInv, CpuInv,
        HostsOff
    <3>2. WorkersOn'
      BY <1>e, <1>m, <1>r, <1>q, <1>y, <1>v, <2>e, <2>y, <2>o, <2>a, <2>p, <2>t DEF CoInv, CpuInv,
        WorkersOn
    <3>3. LeftFinishes'
      <4> SUFFICES ASSUME NEW k \in Hosts, pc'[k] # "finish" PROVE \E w \in Workers : cpu[w] = k
        BY <2>a DEF LeftFinishes
      <4>1. CASE k = e
        BY <1>e, <2>e, <4>1
      <4>2. CASE k # e
        <5>1. pc[k] # "finish"
          BY <2>a, <4>2
        <5> QED  BY <1>m, <5>1 DEF CoInv, CpuInv, LeftFinishes
      <4> QED  BY <4>1, <4>2
    <3>4. ThreadFinishes'
      <4> SUFFICES ASSUME NEW w \in Workers, pc'[w] # "finish" PROVE cpu'[w] = w
        BY DEF ThreadFinishes
      <4>1. CASE w = e
        BY <1>e, <2>a, <2>e, <4>1
      <4>2. CASE w # e
        <5>1. pc[w] # "finish"
          BY <2>a, <4>2
        <5> QED  BY <1>m, <2>a, <5>1 DEF CoInv, CpuInv, ThreadFinishes
      <4> QED  BY <4>1, <4>2
    <3>5. StackOnce'
      BY <1>e, <1>m, <1>r, <1>q, <1>y, <1>v, <2>e, <2>y, <2>o, <2>a, <2>p, <2>t DEF CoInv, CpuInv,
        StackOnce
    <3>6. OnTarget'
      <4> SUFFICES ASSUME NEW w \in Workers, pc'[cpu[w]] # "switch" PROVE cpu[w] = Target(w)
        BY <2>a, <2>g DEF OnTarget
      <4>1. pc[cpu[w]] # "switch"
        BY <1>e, <2>a, <2>y
      <4> QED  BY <1>m, <4>1 DEF CoInv, CpuInv, OnTarget
    <3>7. LeavesForFiber'
      BY <1>e, <1>m, <1>r, <1>q, <1>y, <1>v, <2>e, <2>y, <2>o, <2>a, <2>p, <2>t DEF CoInv, CpuInv,
        LeavesForFiber
    <3> QED  BY <3>1, <3>2, <3>3, <3>4, <3>5, <3>6, <3>7 DEF CpuInv
  <2>2. SelfInv'
    <3>1. SelfWhole'
      BY <1>e, <1>m, <1>r, <1>q, <1>y, <1>v, <2>e, <2>y, <2>o, <2>a, <2>p, <2>t DEF CoInv, SelfInv,
        SelfWhole, Whole
    <3>2. CallWorker'
      BY <1>e, <1>m, <1>r, <1>q, <1>y, <1>v, <2>e, <2>y, <2>o, <2>a, <2>p, <2>t DEF CoInv, SelfInv,
        CallWorker, WorkerCall, RunClaim
    <3>3. CurrentSelf'
      BY <1>e, <1>m, <1>r, <1>q, <1>y, <1>v, <2>e, <2>y, <2>o, <2>a, <2>p, <2>t DEF CoInv, SelfInv,
        CurrentSelf
    <3>4. TcbCurrent'
      BY <1>e, <1>m, <1>r, <1>q, <1>y, <1>v, <2>e, <2>y, <2>o, <2>a, <2>p, <2>t DEF CoInv, SelfInv,
        TcbCurrent
    <3>5. SelfState'
      BY <1>e, <1>m, <1>q, <1>r, <2>e, <2>o, <2>a, <2>p, <2>t, <2>y DEF CoInv, SelfInv, SelfState
    <3> QED  BY <3>1, <3>2, <3>3, <3>4, <3>5 DEF SelfInv
  <2>3. ReleaseInv'
    <3>1. LeftReleases'
      <4> SUFFICES ASSUME NEW w \in Workers, cpu[w] \in Hosts, pc'[cpu[w]] = "switch"
                   PROVE  Whole(cpu[w])' /\ release'[Target(w)] = obj[cpu[w]]
        BY <2>a, <2>g DEF LeftReleases
      <4>1. cpu[w] # e /\ w # p /\ pc[cpu[w]] = "switch"
        BY <1>e, <2>a
      <4>2. Whole(cpu[w]) /\ release[Target(w)] = obj[cpu[w]]
        BY <1>m, <4>1 DEF CoInv, ReleaseInv, LeftReleases
      <4> QED  BY <2>a, <2>g, <2>y, <4>1, <4>2 DEF Whole
    <3>2. ReleaseSuspending'
      BY <1>e, <1>m, <1>q, <1>r, <2>e, <2>o, <2>a, <2>p, <2>t, <2>y DEF CoInv, ReleaseInv,
        ReleaseSuspending, ReleaseOnce
    <3>3. ReleasedNotSelf'
      BY <1>e, <1>m, <1>r, <1>q, <1>y, <1>v, <2>e, <2>y, <2>o, <2>a, <2>p, <2>t DEF CoInv,
        ReleaseInv, ReleasedNotSelf
    <3>4. ReleasedOnStack'
      BY <1>e, <1>m, <1>q, <1>r, <2>e, <2>o, <2>a, <2>p, <2>t, <2>y DEF CoInv, ReleaseInv,
        ReleasedOnStack, Target
    <3>5. ReleaserRuns'
      BY <1>e, <1>m, <1>r, <1>q, <1>y, <1>v, <2>e, <2>y, <2>o, <2>a, <2>p, <2>t DEF CoInv,
        ReleaseInv, ReleaserRuns, Target
    <3>6. ReleaseOnce'
      BY <1>e, <1>m, <1>r, <1>q, <1>y, <1>v, <2>e, <2>y, <2>o, <2>a, <2>p, <2>t DEF CoInv,
        ReleaseInv, ReleaseOnce
    <3> QED  BY <3>1, <3>2, <3>3, <3>4, <3>5, <3>6 DEF ReleaseInv
  <2>4. EnterInv'
    BY <1>e, <1>m, <1>r, <1>q, <1>y, <1>v, <2>e, <2>y, <2>o, <2>a, <2>p, <2>t DEF CoInv, EnterInv,
      EntersOther, EntersTarget
  <2>5. NoThreads'
    BY <1>m, <1>v, <2>e, <2>a DEF CoInv, NoThreads
  <2> QED  BY <2>1, <2>2, <2>3, <2>4, <2>5 DEF CoInv
<1> QED  BY <1>1, <1>2, <1>3, <1>4, <1>5, <1>7, <1>m, <1>v DEF ThreadMode

(* A fiber returns to the thread's code, which has it to release.          *)
LEMMA Step_co_return ==
  ASSUME FIInv, NEW p \in Procs, co_return(p)
  PROVE  FIInv'
<1> USE SetsAssumption DEF Procs, FIInv, Base
<1>e. PICK e \in Procs : e = cpu[p] /\ pc[e] = "return"
  BY OnCpu DEF co_return, At
<1>m. ~ThreadMode
  BY DEF co_return
<1>s. PICK s \in Hosts, q \in Objects :
        /\ s = tl[p] /\ q = obj[s] /\ host[q] = s /\ hstat[s] = "live" /\ state[q] = "RUNNING"
        /\ (\A d \in Procs : tgt[d] # q) /\ hworker[s] \in Workers /\ (~ThreadMode => hworker[s] = p)
  BY <1>e, SelfRunning DEF co_return
<1>w. wk[e] \in Workers /\ (e \in Workers => wk[e] = e) /\ (~ThreadMode => wk[e] = p)
  BY <1>e, CallersWorker DEF WorkerCall, RunClaim
<1>y. /\ pc \in [Procs -> Labels]
      /\ state \in [Objects -> {"IDLE", "RUNNING", "SUSPENDING", "FINALIZED"}]
      /\ release \in [Procs -> Objects \cup {None}]
      /\ tl \in [Procs -> Hosts \cup {None}]
  BY DEF FTypes, TypeOK
<1>v. /\ ~ThreadMode
      /\ pc' = [pc EXCEPT ![e] = "switch"]
      /\ state' = [state EXCEPT ![q] = "SUSPENDING"]
      /\ release' = [release EXCEPT ![wk[e]] = q]
      /\ tl' = [tl EXCEPT ![p] = None]
      /\ UNCHANGED <<scenario, host, obj, hstat, hworker, started, kill, baton, current, wstat,
                           slot, tcb, tgt, wk, scan, cpu, table, nworkers, look>>
  BY <1>e, <1>m, <1>s, <1>w, <1>y DEF co_return, At, Goto, Done, F, H, W, SelfObj, objvars,
    hostvars, callvars, tabvars
<1>1. FTypes'
  BY <1>e, <1>m, <1>s, <1>w, <1>y, <1>v DEF FTypes, TypeOK, Labels
<1>2. ObjectInv'
  BY <1>e, <1>m, <1>s, <1>w, <1>y, <1>v DEF ObjectInv, NamedLive, NamedUsed, NamedOnce, UnusedClean,
    LiveNamed, LiveKept
<1>3. ClaimInv'
  BY <1>e, <1>m, <1>s, <1>w, <1>y, <1>v DEF ClaimInv, ClaimHasTarget, TargetClaimed, ClaimedOnce,
    EndedWhole, ClearedGone, RunClaim, EndClaim
<1>4. TableInv'
  BY <1>e, <1>m, <1>s, <1>w, <1>y, <1>v DEF TableInv, ListedLive, LiveListed, ScanBounded,
    Publishing, ExitLive, NoWorkerNoSlot, WorkerNew, HostLabels
<1>5. LookInv'
  BY <1>e, <1>m, <1>s, <1>w, <1>y, <1>v DEF LookInv, OffEmpty, ScansFromOne, HasWorker, WorkerSafe,
    FiberSafe
<1>7. CoInv'
  <2>e. /\ p \in Workers /\ e \in Hosts \cup {p} /\ (\A w \in Workers : cpu[w] \in Procs /\ (cpu[w] = e => w = p))
        /\ e = IF tl[p] = None THEN p ELSE tl[p]
    BY <1>e, <1>m, OnCpu DEF CoInv, CpuInv, WorkersOn, StackOnce, OnTarget, Target
  <2>y. /\ \A w \in Workers : tl[w] \in Hosts \cup {None} /\ Target(w) \in Procs /\ cpu[w] \in Procs
        /\ \A x \in Procs : release[x] \in Objects \cup {None} /\ tgt[x] \in Objects \cup {None}
        /\ \A w \in Workers : tl[w] # None => obj[tl[w]] \in Objects /\ host[obj[tl[w]]] = tl[w]
    BY <1>m, <2>e DEF Target, CoInv, SelfInv, SelfWhole, Whole, FTypes, TypeOK
  <2>g. Target(p)' = p /\ (\A w \in Workers : w # p => Target(w)' = Target(w) /\ tl'[w] = tl[w] /\ Target(w) # p)
    BY <1>v, <2>e DEF Target, FTypes, TypeOK
  <2>n. release[p] = None /\ \A x \in Procs : release[x] # q
    <3>1. \A w \in Workers : Target(w) = p => w = p
      BY <1>m, <2>e, <2>y DEF Target
    <3>2. release[p] = None
      BY <1>e, <1>m, <2>e, <3>1 DEF CoInv, ReleaseInv, ReleaserRuns
    <3>3. \A x \in Procs : release[x] # q
      BY <1>m, <1>s DEF CoInv, ReleaseInv, ReleaseSuspending
    <3> QED  BY <3>2, <3>3
  <2>o. tgt[e] = None /\ \A w \in Workers : w # p => tl[w] # s
    BY <1>e, <1>m, <1>s, <2>e DEF ClaimInv, TargetClaimed, RunClaim, EndClaim, CoInv, SelfInv, SelfWhole
  <2>a. /\ tl'[p] = None /\ pc'[e] = "switch" /\ release'[p] = q /\ state'[q] = "SUSPENDING" /\ e = s
        /\ \A w \in Workers \ {p} : tl'[w] = tl[w] /\ pc'[cpu[w]] = pc[cpu[w]] /\ (tl[w] # None => obj[tl[w]] # q)
        /\ \A x \in Procs \ {e} : pc'[x] = pc[x]
        /\ \A x \in Procs \ {p} : release'[x] = release[x]
        /\ \A x \in Objects \ {q} : state'[x] = state[x]
    BY <1>m, <1>w, <1>s, <1>y, <1>v, <2>e, <2>o DEF CoInv, SelfInv, SelfWhole, Whole
  <2>u. UNCHANGED <<host, obj, hstat, hworker, current, tcb, tgt, wk, cpu>>
    BY <1>v
  <2>v. \A x \in Procs : tgt[x] # None => host[tgt[x]] # None
    BY DEF ClaimInv, TargetClaimed
  <2>x. current[p] = None /\ tcb[p] = p
    BY <1>e, <1>m, <2>e DEF CoInv, SelfInv, CurrentSelf, TcbCurrent
  <2>z. /\ tl'[p] = None /\ current'[p] = None /\ tcb'[p] = p /\ cpu'[p] = e /\ e = s /\ pc'[e] = "switch" /\ Target(p)' = p
        /\ release'[p] = q /\ q # None /\ host'[q] = s /\ obj'[s] = q /\ state'[q] = "SUSPENDING" /\ Whole(s)' /\ tgt'[e] = None
    BY <1>e, <1>s, <2>a, <2>e, <2>g, <2>o, <2>u, <2>x DEF Whole
  <2>1. CpuInv'
    BY <1>e, <1>m, <1>s, <1>w, <1>y, <1>v, <2>e, <2>y, <2>g, <2>n, <2>o, <2>a, <2>u DEF CoInv,
      CpuInv, HostsOff, WorkersOn, LeftFinishes, ThreadFinishes, StackOnce, OnTarget,
      LeavesForFiber, Target
  <2>2. SelfInv'
    <3>1. SelfWhole'
      <4>1. (tl[p] # None => hworker[tl[p]] = p /\ Whole(tl[p]))'
        BY <2>u, <2>z DEF Whole
      <4>2. ASSUME NEW w \in Workers, w # p
            PROVE  (tl[w] # None => hworker[tl[w]] = w /\ Whole(tl[w]))'
        <5>1. tl[w] # None => hworker[tl[w]] = w /\ Whole(tl[w])
          BY <1>m DEF CoInv, SelfInv, SelfWhole
        <5> QED  BY <4>2, <5>1, <2>a, <2>g, <2>u DEF Whole
      <4> QED  BY <4>1, <4>2 DEF SelfWhole
    <3>2. CallWorker'
      <4>1. (pc[cpu[p]] \in WorkerCall => wk[cpu[p]] = p)'
        BY <1>e, <1>m, <1>w, <1>s, <2>e, <2>g, <2>n, <2>o, <2>a, <2>u, <2>y DEF WorkerCall, RunClaim
      <4>2. ASSUME NEW w \in Workers, w # p PROVE (pc[cpu[w]] \in WorkerCall => wk[cpu[w]] = w)'
        <5>1. pc[cpu[w]] \in WorkerCall => wk[cpu[w]] = w
          BY <1>m DEF CoInv, SelfInv, CallWorker
        <5> QED  BY <4>2, <5>1, <1>e, <1>m, <1>w, <1>s, <2>e, <2>g, <2>n, <2>o, <2>a, <2>u, <2>y DEF
          WorkerCall, RunClaim
      <4> QED  BY <4>1, <4>2 DEF CallWorker
    <3>3. CurrentSelf'
      <4>1. (current[p] = IF pc[cpu[p]] = "return" THEN None ELSE tl[p])'
        BY <2>u, <2>z
      <4>2. ASSUME NEW w \in Workers, w # p
            PROVE  (current[w] = IF pc[cpu[w]] = "return" THEN None ELSE tl[w])'
        <5>1. current[w] = IF pc[cpu[w]] = "return" THEN None ELSE tl[w]
          BY <1>m DEF CoInv, SelfInv, CurrentSelf
        <5> QED  BY <4>2, <5>1, <2>a, <2>g, <2>u
      <4> QED  BY <4>1, <4>2 DEF CurrentSelf
    <3>4. TcbCurrent'
      <4>1. (tcb[p] = IF current[p] = None THEN p ELSE current[p])'
        BY <2>u, <2>z
      <4>2. ASSUME NEW w \in Workers, w # p
            PROVE  (tcb[w] = IF current[w] = None THEN w ELSE current[w])'
        <5>1. tcb[w] = IF current[w] = None THEN w ELSE current[w]
          BY <1>m DEF CoInv, SelfInv, TcbCurrent
        <5> QED  BY <4>2, <5>1, <2>a, <2>g, <2>u
      <4> QED  BY <4>1, <4>2 DEF TcbCurrent
    <3>5. SelfState'
      <4>1. (tl[p] # None => state[obj[tl[p]]] = IF pc[cpu[p]] = "ready" THEN "SUSPENDING" ELSE "RUNNING")'
        BY <2>u, <2>z
      <4>2. ASSUME NEW w \in Workers, w # p
            PROVE  (tl[w] # None => state[obj[tl[w]]] = IF pc[cpu[w]] = "ready" THEN "SUSPENDING" ELSE "RUNNING")'
        <5>1. tl[w] # None => state[obj[tl[w]]] = IF pc[cpu[w]] = "ready" THEN "SUSPENDING" ELSE "RUNNING"
          BY <1>m DEF CoInv, SelfInv, SelfState
        <5> QED  BY <4>2, <5>1, <2>a, <2>g, <2>u, <2>y
      <4> QED  BY <4>1, <4>2 DEF SelfState
    <3> QED  BY <3>1, <3>2, <3>3, <3>4, <3>5 DEF SelfInv
  <2>3. ReleaseInv'
    <3>1. LeftReleases'
      <4>1. (cpu[p] \in Hosts /\ pc[cpu[p]] = "switch" => Whole(cpu[p]) /\ release[Target(p)] = obj[cpu[p]])'
        BY <2>u, <2>z DEF Whole
      <4>2. ASSUME NEW w \in Workers, w # p
            PROVE  (cpu[w] \in Hosts /\ pc[cpu[w]] = "switch" => Whole(cpu[w]) /\ release[Target(w)] = obj[cpu[w]])'
        <5>1. cpu[w] \in Hosts /\ pc[cpu[w]] = "switch" => Whole(cpu[w]) /\ release[Target(w)] = obj[cpu[w]]
          BY <1>m DEF CoInv, ReleaseInv, LeftReleases
        <5> QED  BY <4>2, <5>1, <2>a, <2>g, <2>u, <2>y DEF Whole
      <4> QED  BY <4>1, <4>2 DEF LeftReleases
    <3>2. ReleaseSuspending'
      <4>1. (release[p] # None => state[release[p]] = "SUSPENDING" /\ host[release[p]] # None)'
        BY <2>z, <2>y
      <4>2. ASSUME NEW x \in Procs, x # p
            PROVE  (release[x] # None => state[release[x]] = "SUSPENDING" /\ host[release[x]] # None)'
        <5>1. release[x] # None => state[release[x]] = "SUSPENDING" /\ host[release[x]] # None
          BY <1>m DEF CoInv, ReleaseInv, ReleaseSuspending
        <5> QED  BY <4>2, <5>1, <2>a, <2>n, <2>u, <2>y
      <4> QED  BY <4>1, <4>2 DEF ReleaseSuspending
    <3>3. ReleasedNotSelf'
      <4>1. ASSUME NEW w \in Workers PROVE (release[p] # None => tl[w] # host[release[p]])'
        <5>1. CASE w = p
          BY <5>1, <1>s, <2>z
        <5>2. CASE w # p
          BY <5>2, <2>a, <2>o, <2>u, <2>z
        <5> QED  BY <5>1, <5>2
      <4>2. ASSUME NEW x \in Procs, x # p, NEW w \in Workers
            PROVE  (release[x] # None => tl[w] # host[release[x]])'
        <5>1. release[x] # None => tl[w] # host[release[x]]
          BY <1>m DEF CoInv, ReleaseInv, ReleasedNotSelf
        <5>2. CASE w = p
          BY <1>m, <4>2, <5>2, <2>a, <2>u, <2>z DEF CoInv, ReleaseInv, ReleaseSuspending
        <5>3. CASE w # p
          BY <4>2, <5>1, <5>3, <2>a, <2>u
        <5> QED  BY <5>2, <5>3
      <4> QED  BY <4>1, <4>2 DEF ReleasedNotSelf
    <3>4. ReleasedOnStack'
      <4>1. ASSUME NEW w \in Workers
            PROVE  (release[p] # None /\ cpu[w] = host[release[p]] => pc[cpu[w]] = "switch" /\ Target(w) = p)'
        <5>1. CASE w = p
          BY <5>1, <2>z
        <5>2. CASE w # p
          BY <5>2, <2>e, <2>u, <2>z
        <5> QED  BY <5>1, <5>2
      <4>2. ASSUME NEW x \in Procs, x # p, NEW w \in Workers
            PROVE  (release[x] # None /\ cpu[w] = host[release[x]] => pc[cpu[w]] = "switch" /\ Target(w) = x)'
        <5>1. release[x] # None /\ cpu[w] = host[release[x]] => pc[cpu[w]] = "switch" /\ Target(w) = x
          BY <1>m DEF CoInv, ReleaseInv, ReleasedOnStack
        <5>2. CASE w = p
          BY <4>2, <5>1, <5>2, <1>e, <2>a, <2>u
        <5>3. CASE w # p
          BY <4>2, <5>1, <5>3, <2>a, <2>g, <2>u
        <5> QED  BY <5>2, <5>3
      <4> QED  BY <4>1, <4>2 DEF ReleasedOnStack
    <3>5. ReleaserRuns'
      <4>1. (release[p] # None => \E w \in Workers : Target(w) = p /\ pc[cpu[w]] \in {"switch", "finish"})'
        <5>1. p \in Workers /\ Target(p)' = p /\ pc'[cpu'[p]] \in {"switch", "finish"}
          BY <2>e, <2>z
        <5> QED  BY <5>1
      <4>2. ASSUME NEW x \in Procs, x # p, release'[x] # None
                 PROVE  \E w \in Workers : Target(w)' = x /\ pc'[cpu'[w]] \in {"switch", "finish"}
        <5>1. release[x] # None
          BY <4>2, <2>a
        <5>2. PICK w \in Workers : Target(w) = x /\ pc[cpu[w]] \in {"switch", "finish"}
          BY <1>m, <5>1 DEF CoInv, ReleaseInv, ReleaserRuns
        <5>3. w # p
          BY <1>e, <5>2
        <5> QED  BY <5>2, <5>3, <2>a, <2>g, <2>u
      <4> QED  BY <4>1, <4>2 DEF ReleaserRuns
    <3>6. ReleaseOnce'
      <4>1. ASSUME NEW x \in Procs, x # p, NEW d \in Procs, d # p
            PROVE  (release[d] # None /\ release[d] = release[x] => d = x)'
        <5>1. release[d] # None /\ release[d] = release[x] => d = x
          BY <1>m DEF CoInv, ReleaseInv, ReleaseOnce
        <5> QED  BY <4>1, <5>1, <1>e, <1>m, <1>w, <1>s, <2>e, <2>g, <2>n, <2>o, <2>a, <2>u, <2>y
      <4>2. ASSUME NEW x \in Procs, x # p PROVE release'[p] # None => release'[p] # release'[x]
        BY <4>2, <1>e, <1>m, <1>w, <1>s, <2>e, <2>g, <2>n, <2>o, <2>a, <2>u, <2>y
      <4> QED  BY <4>1, <4>2 DEF ReleaseOnce
    <3> QED  BY <3>1, <3>2, <3>3, <3>4, <3>5, <3>6 DEF ReleaseInv
  <2>4. EnterInv'
    <3>1. EntersOther'
      <4>1. ASSUME NEW w \in Workers
            PROVE  (tgt[e] # None /\ pc[e] # "switch" => tl[w] # host[tgt[e]])'
        <5>1. CASE w = p
          BY <5>1, <2>z
        <5>2. CASE w # p
          BY <5>2, <2>u, <2>z
        <5> QED  BY <5>1, <5>2
      <4>2. ASSUME NEW x \in Procs, x # e, NEW w \in Workers
            PROVE  (tgt[x] # None /\ pc[x] # "switch" => tl[w] # host[tgt[x]])'
        <5>1. tgt[x] # None /\ pc[x] # "switch" => tl[w] # host[tgt[x]]
          BY <1>m DEF CoInv, EnterInv, EntersOther
        <5>2. CASE w = p
          BY <4>2, <5>1, <5>2, <2>a, <2>u, <2>v, <2>z
        <5>3. CASE w # p
          BY <4>2, <5>1, <5>3, <2>a, <2>u
        <5> QED  BY <5>2, <5>3
      <4> QED  BY <4>1, <4>2 DEF EntersOther
    <3>2. EntersTarget'
      <4>1. (pc[cpu[p]] = "switch" /\ tgt[cpu[p]] # None => tl[p] = host[tgt[cpu[p]]])'
        BY <2>u, <2>z
      <4>2. ASSUME NEW w \in Workers, w # p
            PROVE  (pc[cpu[w]] = "switch" /\ tgt[cpu[w]] # None => tl[w] = host[tgt[cpu[w]]])'
        <5>1. pc[cpu[w]] = "switch" /\ tgt[cpu[w]] # None => tl[w] = host[tgt[cpu[w]]]
          BY <1>m DEF CoInv, EnterInv, EntersTarget
        <5> QED  BY <4>2, <5>1, <2>a, <2>g, <2>u
      <4> QED  BY <4>1, <4>2 DEF EntersTarget
    <3> QED  BY <3>1, <3>2 DEF EnterInv
  <2>5. NoThreads'
    BY <1>m, <1>v, <2>e, <2>a DEF CoInv, NoThreads
  <2> QED  BY <2>1, <2>2, <2>3, <2>4, <2>5 DEF CoInv
<1> QED  BY <1>1, <1>2, <1>3, <1>4, <1>5, <1>7, <1>m, <1>v DEF ThreadMode

(* The target is current before the fiber that switches is IDLE.           *)
LEMMA Step_switch_current ==
  ASSUME FailsAlone, FIInv, NEW p \in Procs, switch_current(p)
  PROVE  FIInv'
<1> USE SetsAssumption DEF Procs, FIInv, Base
<1>e. PICK e \in Procs : e = cpu[p] /\ pc[e] = "claimed"
  BY OnCpu DEF switch_current, At
<1>m. ThreadMode
  BY <1>e DEF switch_current
<1>s. PICK s \in Hosts, q \in Objects :
        /\ s = tl[p] /\ q = obj[s] /\ host[q] = s /\ hstat[s] = "live" /\ state[q] = "RUNNING"
        /\ (\A d \in Procs : tgt[d] # q) /\ hworker[s] \in Workers /\ (~ThreadMode => hworker[s] = p)
  BY <1>e, SelfRunning DEF switch_current
<1>w. wk[e] \in Workers /\ (e \in Workers => wk[e] = e) /\ (~ThreadMode => wk[e] = p)
  BY <1>e, CallersWorker DEF WorkerCall, RunClaim
<1>t. PICK o \in Objects, h \in Hosts :
        /\ o = tgt[e] /\ h = host[o] /\ (\A d \in Procs : tgt[d] = o => d = e) /\ (\A x \in Objects : host[x] = h => x = o)
        /\ state[o] = "RUNNING" /\ hstat[h] = "live" /\ obj[h] = o
  BY <1>e, Claimed DEF RunClaim, EndClaim
<1>y. /\ pc \in [Procs -> Labels]
      /\ current \in [Workers -> Hosts \cup {None}]
  BY DEF FTypes, TypeOK
<1>v. /\ ThreadMode
      /\ pc' = [pc EXCEPT ![e] = "idle"]
      /\ current' = [current EXCEPT ![wk[e]] = h]
      /\ UNCHANGED <<scenario, state, host, obj, hstat, hworker, started, kill, release, baton,
                           wstat, slot, tcb, tgt, wk, scan, cpu, tl, table, nworkers, look>>
  BY <1>e, <1>m, <1>s, <1>w, <1>t, <1>y DEF switch_current, At, Goto, Done, F, H, W, SelfObj,
    objvars, hostvars, callvars, tabvars
<1>1. FTypes'
  BY <1>e, <1>m, <1>s, <1>w, <1>t, <1>y, <1>v DEF FTypes, TypeOK, Labels
<1>2. ObjectInv'
  BY <1>e, <1>m, <1>s, <1>w, <1>t, <1>y, <1>v DEF ObjectInv, NamedLive, NamedUsed, NamedOnce,
    UnusedClean, LiveNamed, LiveKept
<1>3. ClaimInv'
  BY <1>e, <1>m, <1>s, <1>w, <1>t, <1>y, <1>v DEF ClaimInv, ClaimHasTarget, TargetClaimed,
    ClaimedOnce, EndedWhole, ClearedGone, RunClaim, EndClaim
<1>4. TableInv'
  BY <1>e, <1>m, <1>s, <1>w, <1>t, <1>y, <1>v DEF TableInv, ListedLive, LiveListed, ScanBounded,
    Publishing, ExitLive, NoWorkerNoSlot, WorkerNew, HostLabels
<1>5. LookInv'
  BY <1>e, <1>m, <1>s, <1>w, <1>t, <1>y, <1>v DEF LookInv, OffEmpty, ScansFromOne, HasWorker,
    WorkerSafe, FiberSafe
<1>6. ThInv'
  <2>e. e = p /\ ThreadInv /\ s = p /\ HasTok(e)
    BY <1>e, <1>m, <1>s, OnCpu DEF ThInv, ThreadInv, OwnThread, HasTok
  <2>l. \A x \in Hosts : pc[x] \notin {"none", "dead"} => hstat[x] = "live" /\ obj[x] \in Objects
    BY <2>e DEF ThreadInv, RunsLive, ObjectInv, LiveNamed, FTypes, TypeOK
  <2>f. \A x \in Hosts : Failing(x) => x = e
    BY <1>m, <2>e, OnlyFailing
  <2>h. pc[h] \in Suspends \cup {"none", "dead"} /\ ~Failing(h) /\ ~kill[h] /\ ~baton[h]
    BY <1>m, <1>t, ClaimedWaits
  <2>c. PICK v \in Workers : v = wk[e] /\ v = TokOf(e)
    BY <1>e, <1>m, <1>w, <2>e DEF TokOf
  <2>k. TokensKept
    BY <1>e, <1>m, <1>s, <1>w, <1>t, <1>y, <1>v, <2>e, <2>l, <2>f, <2>h, <2>c DEF ThInv, TokensKept,
      HasTok, TokOf, Posted, PostOf, RunInv, RunsOnItsWorker, WorkerCall, RunClaim, SelfRun,
      Failing, BatonInv, PostedWhole, Untargeted, Suspends
  <2>1. ThreadInv'
    BY <1>e, <1>m, <1>s, <1>w, <1>t, <1>y, <1>v, <2>e, <2>l, <2>f, <2>h, <2>c, <2>k DEF ThInv,
      ThreadInv, OwnThread, NoSwitch, WorkerLabels, StartedRuns, RunsLive
  <2>2. RunInv'
    BY <1>e, <1>m, <1>s, <1>w, <1>t, <1>y, <1>v, <2>e, <2>l, <2>f, <2>h, <2>c, <2>k DEF ThInv,
      RunInv, RunsWhole, FailsWhole, RunsOnItsWorker, ReclaimFails, FailsUnposted, SelfRun, Unrun,
      Untargeted, Failing, WorkerCall, RunClaim, HasTok
  <2>3. BatonInv'
    BY <1>e, <1>m, <1>s, <1>w, <1>t, <1>y, <1>v, <2>e, <2>l, <2>f, <2>h, <2>c, <2>k DEF ThInv,
      BatonInv, BatonSuspends, PostedWhole, KillSuspends, KillEnds, KilledIsKill, Suspends, Posted,
      Untargeted
  <2>4. CallInv'
    BY <1>e, <1>m, <1>s, <1>w, <1>t, <1>y, <1>v, <2>e, <2>l, <2>f, <2>h, <2>c, <2>k DEF ThInv,
      CallInv, CallHasWorker, WorkerOfItself, WorkerCall, RunClaim
  <2>5. TokenInv'
    BY <1>e, <1>m, <1>s, <1>w, <1>t, <1>y, <1>v, <2>e, <2>l, <2>f, <2>h, <2>c, <2>k, KeepTokens
  <2>6. CurrentInv'
    <3>1. \A w \in Workers : w # v => current'[w] = current[w]
      BY <1>e, <1>m, <1>s, <1>w, <1>t, <1>y, <1>v, <2>e, <2>l, <2>f, <2>h, <2>c, <2>k
    <3>2. \A x \in Procs : x # e => pc'[x] = pc[x] /\ wk'[x] = wk[x] /\ (pc[x] \in Handing => host'[tgt'[x]] = host[tgt[x]])
      BY <1>e, <1>m, <1>s, <1>w, <1>t, <1>y, <1>v, <2>e, <2>l, <2>f, <2>h, <2>c, <2>k DEF Handing,
        FIInv
    <3>3. current'[v] # None => (current'[v] = e /\ pc'[e] \in Holds) \/ (current'[v] = host'[tgt'[e]] /\ pc'[e] \in Handing)
      BY <1>e, <1>m, <1>s, <1>w, <1>t, <1>y, <1>v, <2>e, <2>l, <2>f, <2>h, <2>c, <2>k DEF Handing,
        Holds
    <3>4. e \in Hosts /\ pc'[e] \in Holds => current'[v] = e
      BY <1>e, <1>m, <1>s, <1>w, <1>t, <1>y, <1>v, <2>e, <2>l, <2>f, <2>h, <2>c, <2>k DEF Holds,
        FIInv
    <3>5. pc'[e] \in {"create", "post"} \/ (e \in Hosts /\ pc'[e] \in {"idle", "ready"}) =>
             wk'[e] = v /\ current'[v] = host'[tgt'[e]]
      BY <1>e, <1>m, <1>s, <1>w, <1>t, <1>y, <1>v, <2>e, <2>l, <2>f, <2>h, <2>c, <2>k
    <3> QED  BY <3>1, <3>2, <3>3, <3>4, <3>5, <1>m, <2>e, <2>k, <2>c, SetCurrent
  <2>7. HandInv'
    BY <1>e, <1>m, <1>s, <1>w, <1>t, <1>y, <1>v, <2>e, <2>l, <2>f, <2>h, <2>c, <2>k DEF ThInv,
      HandInv, HandWorker, PostStarted, CreateUnstarted
  <2>8. TcbInv'
    <3>1. TokenTcb'
      BY <1>e, <1>m, <1>s, <1>w, <1>t, <1>y, <1>v, <2>e, <2>l, <2>f, <2>h, <2>c, <2>k DEF ThInv,
        TcbInv, TokenTcb, TokenInv, TokenAlive, TokenOnce, TokensKept
    <3>2. ThreadTcb'
      BY <1>e, <1>m, <1>s, <1>w, <1>t, <1>y, <1>v, <2>e, <2>l, <2>f, <2>h, <2>c, <2>k DEF ThInv,
        TcbInv, ThreadTcb, TokenInv, TokenOnce, TokensKept
    <3>3. PostedTcb'
      BY <1>e, <1>m, <1>s, <1>w, <1>t, <1>y, <1>v, <2>e, <2>l, <2>f, <2>h, <2>c, <2>k DEF ThInv,
        TcbInv, PostedTcb, TokenInv, TokenNotPosted, TokensKept
    <3> QED  BY <3>1, <3>2, <3>3 DEF TcbInv
  <2> QED  BY <2>1, <2>2, <2>3, <2>4, <2>5, <2>6, <2>7, <2>8 DEF ThInv
<1> QED  BY <1>1, <1>2, <1>3, <1>4, <1>5, <1>6, <1>m, <1>v DEF ThreadMode

(* The fiber that switches may be claimed, and posted to, from here on.    *)
LEMMA Step_switch_idle ==
  ASSUME FailsAlone, FIInv, NEW p \in Procs, switch_idle(p)
  PROVE  FIInv'
<1> USE SetsAssumption DEF Procs, FIInv, Base
<1>e. PICK e \in Procs : e = cpu[p] /\ pc[e] = "idle"
  BY OnCpu DEF switch_idle, At
<1>m. ThreadMode
  BY <1>e DEF CoInv, NoThreads
<1>s. PICK s \in Hosts, q \in Objects :
        /\ s = tl[p] /\ q = obj[s] /\ host[q] = s /\ hstat[s] = "live" /\ state[q] = "RUNNING"
        /\ (\A d \in Procs : tgt[d] # q) /\ hworker[s] \in Workers /\ (~ThreadMode => hworker[s] = p)
  BY <1>e, SelfRunning DEF switch_idle
<1>w. wk[e] \in Workers /\ (e \in Workers => wk[e] = e) /\ (~ThreadMode => wk[e] = p)
  BY <1>e, CallersWorker DEF WorkerCall, RunClaim
<1>t. PICK o \in Objects, h \in Hosts :
        /\ o = tgt[e] /\ h = host[o] /\ (\A d \in Procs : tgt[d] = o => d = e) /\ (\A x \in Objects : host[x] = h => x = o)
        /\ state[o] = "RUNNING" /\ hstat[h] = "live" /\ obj[h] = o
  BY <1>e, Claimed DEF RunClaim, EndClaim
<1>y. /\ pc \in [Procs -> Labels]
      /\ state \in [Objects -> {"IDLE", "RUNNING", "SUSPENDING", "FINALIZED"}]
  BY DEF FTypes, TypeOK
<1>v. /\ pc' = [pc EXCEPT ![e] = "ready"]
      /\ state' = [state EXCEPT ![q] = "IDLE"]
      /\ UNCHANGED <<scenario, host, obj, hstat, hworker, started, kill, release, baton, current,
                           wstat, slot, tcb, tgt, wk, scan, cpu, tl, table, nworkers, look>>
  BY <1>e, <1>m, <1>s, <1>w, <1>t, <1>y DEF switch_idle, At, Goto, Done, F, H, W, SelfObj, objvars,
    hostvars, callvars, tabvars
<1>1. FTypes'
  BY <1>e, <1>m, <1>s, <1>w, <1>t, <1>y, <1>v DEF FTypes, TypeOK, Labels
<1>2. ObjectInv'
  BY <1>e, <1>m, <1>s, <1>w, <1>t, <1>y, <1>v DEF ObjectInv, NamedLive, NamedUsed, NamedOnce,
    UnusedClean, LiveNamed, LiveKept
<1>3. ClaimInv'
  BY <1>e, <1>m, <1>s, <1>w, <1>t, <1>y, <1>v DEF ClaimInv, ClaimHasTarget, TargetClaimed,
    ClaimedOnce, EndedWhole, ClearedGone, RunClaim, EndClaim
<1>4. TableInv'
  BY <1>e, <1>m, <1>s, <1>w, <1>t, <1>y, <1>v DEF TableInv, ListedLive, LiveListed, ScanBounded,
    Publishing, ExitLive, NoWorkerNoSlot, WorkerNew, HostLabels
<1>5. LookInv'
  BY <1>e, <1>m, <1>s, <1>w, <1>t, <1>y, <1>v DEF LookInv, OffEmpty, ScansFromOne, HasWorker,
    WorkerSafe, FiberSafe
<1>6. ThInv'
  <2>e. e = p /\ ThreadInv /\ s = p /\ HasTok(e)
    BY <1>e, <1>m, <1>s, OnCpu DEF ThInv, ThreadInv, OwnThread, HasTok
  <2>l. \A x \in Hosts : pc[x] \notin {"none", "dead"} => hstat[x] = "live" /\ obj[x] \in Objects
    BY <2>e DEF ThreadInv, RunsLive, ObjectInv, LiveNamed, FTypes, TypeOK
  <2>f. \A x \in Hosts : Failing(x) => x = e
    BY <1>m, <2>e, OnlyFailing
  <2>h. pc[h] \in Suspends \cup {"none", "dead"} /\ ~Failing(h) /\ ~kill[h] /\ ~baton[h]
    BY <1>m, <1>t, ClaimedWaits
  <2>k. TokensKept
    BY <1>e, <1>m, <1>s, <1>w, <1>t, <1>y, <1>v, <2>e, <2>l, <2>f, <2>h DEF ThInv, TokensKept,
      HasTok, TokOf, Posted, PostOf, RunInv, RunsOnItsWorker, WorkerCall, RunClaim, SelfRun,
      Failing, BatonInv, PostedWhole, Untargeted, Suspends
  <2>1. ThreadInv'
    BY <1>e, <1>m, <1>s, <1>w, <1>t, <1>y, <1>v, <2>e, <2>l, <2>f, <2>h, <2>k DEF ThInv, ThreadInv,
      OwnThread, NoSwitch, WorkerLabels, StartedRuns, RunsLive
  <2>2. RunInv'
    BY <1>e, <1>m, <1>s, <1>w, <1>t, <1>y, <1>v, <2>e, <2>l, <2>f, <2>h, <2>k DEF ThInv, RunInv,
      RunsWhole, FailsWhole, RunsOnItsWorker, ReclaimFails, FailsUnposted, SelfRun, Unrun,
      Untargeted, Failing, WorkerCall, RunClaim, HasTok
  <2>3. BatonInv'
    <3>1. BatonSuspends'
      BY <1>e, <1>m, <1>s, <1>w, <1>t, <1>y, <1>v, <2>e, <2>l, <2>f, <2>h, <2>k DEF ThInv, BatonInv,
        BatonSuspends, Suspends
    <3>2. PostedWhole'
      BY <1>e, <1>m, <1>s, <1>w, <1>t, <1>y, <1>v, <2>e, <2>l, <2>f, <2>h, <2>k DEF ThInv, BatonInv,
        PostedWhole, Posted, Untargeted, BatonSuspends, Suspends
    <3>3. KillSuspends'
      BY <1>e, <1>m, <1>s, <1>w, <1>t, <1>y, <1>v, <2>e, <2>l, <2>f, <2>h, <2>k DEF ThInv, BatonInv,
        KillSuspends, Suspends
    <3>4. KillEnds'
      BY <1>e, <1>m, <1>s, <1>w, <1>t, <1>y, <1>v, <2>e, <2>l, <2>f, <2>h, <2>k DEF ThInv, BatonInv,
        KillEnds, KillSuspends, Suspends
    <3>5. KilledIsKill'
      BY <1>e, <1>m, <1>s, <1>w, <1>t, <1>y, <1>v, <2>e, <2>l, <2>f, <2>h, <2>k DEF ThInv, BatonInv,
        KilledIsKill
    <3> QED  BY <3>1, <3>2, <3>3, <3>4, <3>5 DEF BatonInv
  <2>4. CallInv'
    BY <1>e, <1>m, <1>s, <1>w, <1>t, <1>y, <1>v, <2>e, <2>l, <2>f, <2>h, <2>k DEF ThInv, CallInv,
      CallHasWorker, WorkerOfItself, WorkerCall, RunClaim
  <2>5. TokenInv'
    BY <1>e, <1>m, <1>s, <1>w, <1>t, <1>y, <1>v, <2>e, <2>l, <2>f, <2>h, <2>k, KeepTokens
  <2>6. CurrentInv'
    <3>1. \A k \in Hosts : pc'[k] \in Holds <=> pc[k] \in Holds
      BY <1>e, <1>m, <1>s, <1>w, <1>t, <1>y, <1>v, <2>e, <2>l, <2>f, <2>h, <2>k DEF Holds, TableInv,
        HostLabels
    <3>2. \A x \in Procs : pc[x] \in Handing => pc'[x] \in Handing /\ host'[tgt'[x]] = host[tgt[x]]
      BY <1>e, <1>m, <1>s, <1>w, <1>t, <1>y, <1>v, <2>e, <2>l, <2>f, <2>h, <2>k DEF Handing,
        TableInv, HostLabels
    <3>3. \A x \in Procs : pc'[x] \in {"create", "post"} \/ (x \in Hosts /\ pc'[x] \in {"idle", "ready"}) =>
             wk'[x] = wk[x] /\ (pc[x] \in {"create", "post"} \/ (x \in Hosts /\ pc[x] \in {"idle", "ready"}))
      BY <1>e, <1>m, <1>s, <1>w, <1>t, <1>y, <1>v, <2>e, <2>l, <2>f, <2>h, <2>k DEF TableInv,
        HostLabels
    <3> QED  BY <3>1, <3>2, <3>3, <1>m, <1>v, <2>k, KeepCurrent
  <2>7. HandInv'
    BY <1>e, <1>m, <1>s, <1>w, <1>t, <1>y, <1>v, <2>e, <2>l, <2>f, <2>h, <2>k DEF ThInv, HandInv,
      HandWorker, PostStarted, CreateUnstarted
  <2>8. TcbInv'
    <3>1. TokenTcb'
      BY <1>e, <1>m, <1>s, <1>w, <1>t, <1>y, <1>v, <2>e, <2>l, <2>f, <2>h, <2>k DEF ThInv, TcbInv,
        TokenTcb, TokenInv, TokenAlive, TokenOnce, TokensKept
    <3>2. ThreadTcb'
      BY <1>e, <1>m, <1>s, <1>w, <1>t, <1>y, <1>v, <2>e, <2>l, <2>f, <2>h, <2>k DEF ThInv, TcbInv,
        ThreadTcb, TokenInv, TokenOnce, TokensKept
    <3>3. PostedTcb'
      BY <1>e, <1>m, <1>s, <1>w, <1>t, <1>y, <1>v, <2>e, <2>l, <2>f, <2>h, <2>k DEF ThInv, TcbInv,
        PostedTcb, TokenInv, TokenNotPosted, TokensKept
    <3> QED  BY <3>1, <3>2, <3>3 DEF TcbInv
  <2> QED  BY <2>1, <2>2, <2>3, <2>4, <2>5, <2>6, <2>7, <2>8 DEF ThInv
<1> QED  BY <1>1, <1>2, <1>3, <1>4, <1>5, <1>6, <1>m, <1>v DEF ThreadMode

(* The target is told its worker while its own thread does not run.        *)
LEMMA Step_fiber_resume ==
  ASSUME FailsAlone, FIInv, NEW p \in Procs, fiber_resume(p)
  PROVE  FIInv'
<1> USE SetsAssumption DEF Procs, FIInv, Base
<1>e. PICK e \in Procs : e = cpu[p] /\ pc[e] \in {"ready", "checks"}
  BY OnCpu DEF fiber_resume, At
<1>m. ThreadMode
  BY <1>e DEF fiber_resume
<1>w. wk[e] \in Workers /\ (e \in Workers => wk[e] = e) /\ (~ThreadMode => wk[e] = p)
  BY <1>e, CallersWorker DEF WorkerCall, RunClaim
<1>t. PICK o \in Objects, h \in Hosts :
        /\ o = tgt[e] /\ h = host[o] /\ (\A d \in Procs : tgt[d] = o => d = e) /\ (\A x \in Objects : host[x] = h => x = o)
        /\ state[o] = "RUNNING" /\ hstat[h] = "live" /\ obj[h] = o
  BY <1>e, Claimed DEF RunClaim, EndClaim
<1>y. /\ pc \in [Procs -> Labels]
      /\ hworker \in [Hosts -> Workers \cup {None}]
      /\ current \in [Workers -> Hosts \cup {None}]
  BY DEF FTypes, TypeOK
<1>v. /\ ThreadMode
      /\ pc' = [pc EXCEPT ![e] = IF started[h] THEN "post" ELSE "create"]
      /\ hworker' = [hworker EXCEPT ![h] = wk[e]]
      /\ current' = [current EXCEPT ![wk[e]] = h]
      /\ UNCHANGED <<scenario, state, host, obj, hstat, started, kill, release, baton, wstat,
                           slot, tcb, tgt, wk, scan, cpu, tl, table, nworkers, look>>
  BY <1>e, <1>m, <1>w, <1>t, <1>y DEF fiber_resume, At, Goto, Done, F, H, W, SelfObj, objvars,
    hostvars, callvars, tabvars
<1>1. FTypes'
  BY <1>e, <1>m, <1>w, <1>t, <1>y, <1>v DEF FTypes, TypeOK, Labels
<1>2. ObjectInv'
  BY <1>e, <1>m, <1>w, <1>t, <1>y, <1>v DEF ObjectInv, NamedLive, NamedUsed, NamedOnce, UnusedClean,
    LiveNamed, LiveKept
<1>3. ClaimInv'
  <2>1. ClaimHasTarget'
    BY <1>e, <1>m, <1>w, <1>t, <1>y, <1>v DEF ClaimInv, ClaimHasTarget, RunClaim, EndClaim
  <2>2. TargetClaimed'
    BY <1>e, <1>m, <1>w, <1>t, <1>y, <1>v DEF ClaimInv, TargetClaimed, RunClaim, EndClaim,
      ClaimHasTarget
  <2>3. ClaimedOnce'
    BY <1>e, <1>m, <1>w, <1>t, <1>y, <1>v DEF ClaimInv, ClaimedOnce
  <2>4. EndedWhole'
    BY <1>e, <1>m, <1>w, <1>t, <1>y, <1>v DEF ClaimInv, EndedWhole, ClaimHasTarget, RunClaim,
      EndClaim, ClaimedOnce, TargetClaimed
  <2>5. ClearedGone'
    BY <1>e, <1>m, <1>w, <1>t, <1>y, <1>v DEF ClaimInv, ClearedGone, ClaimHasTarget, RunClaim,
      EndClaim, TargetClaimed
  <2> QED  BY <2>1, <2>2, <2>3, <2>4, <2>5 DEF ClaimInv
<1>4. TableInv'
  BY <1>e, <1>m, <1>w, <1>t, <1>y, <1>v DEF TableInv, ListedLive, LiveListed, ScanBounded,
    Publishing, ExitLive, NoWorkerNoSlot, WorkerNew, HostLabels
<1>5. LookInv'
  BY <1>e, <1>m, <1>w, <1>t, <1>y, <1>v DEF LookInv, OffEmpty, ScansFromOne, HasWorker, WorkerSafe,
    FiberSafe
<1>6. ThInv'
  <2>e. e = p /\ ThreadInv /\ HasTok(e)
    BY <1>e, <1>m, OnCpu DEF ThInv, ThreadInv, OwnThread, HasTok
  <2>l. \A x \in Hosts : pc[x] \notin {"none", "dead"} => hstat[x] = "live" /\ obj[x] \in Objects
    BY <2>e DEF ThreadInv, RunsLive, ObjectInv, LiveNamed, FTypes, TypeOK
  <2>f. \A x \in Hosts : Failing(x) => x = e
    BY <1>m, <2>e, OnlyFailing
  <2>h. pc[h] \in Suspends \cup {"none", "dead"} /\ ~Failing(h) /\ ~kill[h] /\ ~baton[h]
    BY <1>m, <1>t, ClaimedWaits
  <2>c. PICK v \in Workers : v = wk[e] /\ v = TokOf(e)
    BY <1>e, <1>m, <1>w, <2>e DEF TokOf
  <2>y. \A x \in Procs : x # e /\ pc[x] \in {"create", "post"} => host[tgt[x]] \in Hosts \ {h}
    BY <1>t DEF ClaimInv, ClaimHasTarget, TargetClaimed, RunClaim, FTypes, TypeOK
  <2>i. e \in Hosts /\ Failing(e) => Unrun(e) /\ state[obj[e]] = "IDLE" /\ wk[e] = hworker[e]
    BY <1>e, <1>m, <2>e DEF ThInv, RunInv, FailsWhole, RunsOnItsWorker, WorkerCall, RunClaim
  <2>j. \A x \in Hosts : Failing(x)' => x = e /\ Failing(e)
    BY <1>e, <1>y, <1>v, <2>e, <2>f DEF Failing, TableInv, HostLabels
  <2>p. ~Posted(h) /\ hworker'[h] = v /\ \A x \in Hosts \ {h} : hworker'[x] = hworker[x]
    BY <1>y, <1>v, <2>c, <2>h DEF Posted
  <2>k. TokensKept
    BY <1>e, <1>m, <1>w, <1>t, <1>y, <1>v, <2>e, <2>l, <2>f, <2>h, <2>c, <2>y, <2>i, <2>j, <2>p DEF
      ThInv, TokensKept, HasTok, TokOf, Posted, PostOf, RunInv, RunsOnItsWorker, WorkerCall,
      RunClaim, SelfRun, Failing, BatonInv, PostedWhole, Untargeted, Suspends
  <2>1. ThreadInv'
    BY <1>e, <1>m, <1>w, <1>t, <1>y, <1>v, <2>e, <2>l, <2>f, <2>h, <2>c, <2>y, <2>i, <2>j, <2>p,
      <2>k DEF ThInv, ThreadInv, OwnThread, NoSwitch, WorkerLabels, StartedRuns, RunsLive
  <2>2. RunInv'
    <3>1. RunsWhole'
      BY <1>e, <1>m, <1>w, <1>t, <1>y, <1>v, <2>e, <2>l, <2>f, <2>h, <2>c, <2>y, <2>i, <2>j, <2>p,
        <2>k DEF ThInv, RunInv, RunsWhole, SelfRun, Unrun, Untargeted, TableInv, HostLabels
    <3>2. FailsWhole'
      BY <1>v, <2>e, <2>i, <2>j DEF FailsWhole, Unrun, Untargeted
    <3>3. RunsOnItsWorker'
      <4> SUFFICES ASSUME NEW x \in Hosts, pc'[x] \in WorkerCall, pc'[x] \in SelfRun \/ Failing(x)' PROVE wk'[x] = hworker'[x]
        BY DEF RunsOnItsWorker
      <4>1. CASE x = e
        <5>1. pc'[x] \notin SelfRun
          BY <1>y, <1>v, <2>e, <4>1 DEF SelfRun
        <5>2. Failing(e) /\ x # h
          BY <2>j, <2>h, <4>1, <5>1
        <5> QED  BY <1>v, <2>i, <2>p, <4>1, <5>2
      <4>2. CASE x # e
        <5>1. pc[x] \in SelfRun /\ pc[x] \in WorkerCall
          BY <1>y, <1>v, <2>j, <4>2
        <5>2. x # h
          BY <2>h, <5>1 DEF SelfRun, Suspends
        <5> QED  BY <1>m, <1>v, <2>p, <5>1, <5>2 DEF ThInv, RunInv, RunsOnItsWorker
      <4> QED  BY <4>1, <4>2
    <3>4. ReclaimFails'
      BY <1>e, <1>m, <1>w, <1>t, <1>y, <1>v, <2>e, <2>l, <2>f, <2>h, <2>c, <2>y, <2>i, <2>j, <2>p,
        <2>k DEF ThInv, RunInv, ReclaimFails
    <3>5. FailsUnposted'
      BY <1>e, <1>m, <1>w, <1>t, <1>y, <1>v, <2>e, <2>l, <2>f, <2>h, <2>c, <2>y, <2>i, <2>j, <2>p,
        <2>k DEF ThInv, RunInv, FailsUnposted, HasTok
    <3> QED  BY <3>1, <3>2, <3>3, <3>4, <3>5 DEF RunInv
  <2>3. BatonInv'
    BY <1>e, <1>m, <1>w, <1>t, <1>y, <1>v, <2>e, <2>l, <2>f, <2>h, <2>c, <2>y, <2>i, <2>j, <2>p,
      <2>k DEF ThInv, BatonInv, BatonSuspends, PostedWhole, KillSuspends, KillEnds, KilledIsKill,
      Suspends, Posted, Untargeted
  <2>4. CallInv'
    BY <1>e, <1>m, <1>w, <1>t, <1>y, <1>v, <2>e, <2>l, <2>f, <2>h, <2>c, <2>y, <2>i, <2>j, <2>p,
      <2>k DEF ThInv, CallInv, CallHasWorker, WorkerOfItself, WorkerCall, RunClaim
  <2>5. TokenInv'
    BY <1>e, <1>m, <1>w, <1>t, <1>y, <1>v, <2>e, <2>l, <2>f, <2>h, <2>c, <2>y, <2>i, <2>j, <2>p,
      <2>k, KeepTokens
  <2>6. CurrentInv'
    <3>1. \A w \in Workers : w # v => current'[w] = current[w]
      BY <1>e, <1>m, <1>w, <1>t, <1>y, <1>v, <2>e, <2>l, <2>f, <2>h, <2>c, <2>y, <2>i, <2>j, <2>p,
        <2>k
    <3>2. \A x \in Procs : x # e => pc'[x] = pc[x] /\ wk'[x] = wk[x] /\ (pc[x] \in Handing => host'[tgt'[x]] = host[tgt[x]])
      BY <1>e, <1>m, <1>w, <1>t, <1>y, <1>v, <2>e, <2>l, <2>f, <2>h, <2>c, <2>y, <2>i, <2>j, <2>p,
        <2>k DEF Handing
    <3>3. current'[v] # None => (current'[v] = e /\ pc'[e] \in Holds) \/ (current'[v] = host'[tgt'[e]] /\ pc'[e] \in Handing)
      BY <1>e, <1>m, <1>w, <1>t, <1>y, <1>v, <2>e, <2>l, <2>f, <2>h, <2>c, <2>y, <2>i, <2>j, <2>p,
        <2>k DEF Handing, Holds
    <3>4. e \in Hosts /\ pc'[e] \in Holds => current'[v] = e
      BY <1>e, <1>m, <1>w, <1>t, <1>y, <1>v, <2>e, <2>l, <2>f, <2>h, <2>c, <2>y, <2>i, <2>j, <2>p,
        <2>k DEF Holds
    <3>5. pc'[e] \in {"create", "post"} \/ (e \in Hosts /\ pc'[e] \in {"idle", "ready"}) =>
             wk'[e] = v /\ current'[v] = host'[tgt'[e]]
      BY <1>e, <1>m, <1>w, <1>t, <1>y, <1>v, <2>e, <2>l, <2>f, <2>h, <2>c, <2>y, <2>i, <2>j, <2>p,
        <2>k
    <3> QED  BY <3>1, <3>2, <3>3, <3>4, <3>5, <1>m, <2>e, <2>k, <2>c, SetCurrent
  <2>7. HandInv'
    <3>1. HandWorker'
      <4>1. \A x \in Procs \ {e} : pc'[x] = pc[x] /\ wk'[x] = wk[x]
        BY <1>y, <1>v
      <4>2. UNCHANGED <<host, tgt, wk>> /\ host[tgt[e]] = h
        BY <1>t, <1>v
      <4> QED  BY <1>m, <2>c, <2>p, <2>y, <4>1, <4>2 DEF ThInv, HandInv, HandWorker
    <3>2. PostStarted'
      BY <1>e, <1>m, <1>w, <1>t, <1>y, <1>v, <2>e, <2>l, <2>f, <2>h, <2>c, <2>y, <2>i, <2>j, <2>p,
        <2>k DEF ThInv, HandInv, PostStarted
    <3>3. CreateUnstarted'
      BY <1>e, <1>m, <1>w, <1>t, <1>y, <1>v, <2>e, <2>l, <2>f, <2>h, <2>c, <2>y, <2>i, <2>j, <2>p,
        <2>k DEF ThInv, HandInv, CreateUnstarted
    <3> QED  BY <3>1, <3>2, <3>3 DEF HandInv
  <2>8. TcbInv'
    <3>1. TokenTcb'
      BY <1>e, <1>m, <1>w, <1>t, <1>y, <1>v, <2>e, <2>l, <2>f, <2>h, <2>c, <2>y, <2>i, <2>j, <2>p,
        <2>k DEF ThInv, TcbInv, TokenTcb, TokenInv, TokenAlive, TokenOnce, TokensKept
    <3>2. ThreadTcb'
      BY <1>e, <1>m, <1>w, <1>t, <1>y, <1>v, <2>e, <2>l, <2>f, <2>h, <2>c, <2>y, <2>i, <2>j, <2>p,
        <2>k DEF ThInv, TcbInv, ThreadTcb, TokenInv, TokenOnce, TokensKept
    <3>3. PostedTcb'
      BY <1>m, <1>v, <2>k, <2>p DEF ThInv, TcbInv, PostedTcb, TokensKept
    <3> QED  BY <3>1, <3>2, <3>3 DEF TcbInv
  <2> QED  BY <2>1, <2>2, <2>3, <2>4, <2>5, <2>6, <2>7, <2>8 DEF ThInv
<1> QED  BY <1>1, <1>2, <1>3, <1>4, <1>5, <1>6, <1>m, <1>v DEF ThreadMode

(* The new thread waits for its baton.                                     *)
LEMMA Step_resume_create ==
  ASSUME FailsAlone, FIInv, NEW p \in Procs, resume_create(p)
  PROVE  FIInv'
<1> USE SetsAssumption DEF Procs, FIInv, Base
<1>e. PICK e \in Procs : e = cpu[p] /\ pc[e] = "create"
  BY OnCpu DEF resume_create, At
<1>m. ThreadMode
  BY <1>e DEF CoInv, NoThreads
<1>w. wk[e] \in Workers /\ (e \in Workers => wk[e] = e) /\ (~ThreadMode => wk[e] = p)
  BY <1>e, CallersWorker DEF WorkerCall, RunClaim
<1>t. PICK o \in Objects, h \in Hosts :
        /\ o = tgt[e] /\ h = host[o] /\ (\A d \in Procs : tgt[d] = o => d = e) /\ (\A x \in Objects : host[x] = h => x = o)
        /\ state[o] = "RUNNING" /\ hstat[h] = "live" /\ obj[h] = o
  BY <1>e, Claimed DEF RunClaim, EndClaim
<1>n. pc[h] \in {"none", "dead"} /\ h # e /\ tgt[h] = None
  BY <1>e, <1>m, <1>t DEF ThInv, ThreadInv, StartedRuns, HandInv, CreateUnstarted, ClaimInv,
    TargetClaimed, RunClaim, EndClaim
<1>y. /\ started \in [Hosts -> BOOLEAN]
      /\ pc \in [Procs -> Labels]
  BY DEF FTypes, TypeOK
<1>v. /\ started' = [started EXCEPT ![h] = TRUE]
      /\ pc' = [pc EXCEPT ![e] = "post", ![h] = "wait"]
      /\ UNCHANGED <<scenario, state, host, obj, hstat, hworker, kill, release, baton, current,
                           wstat, slot, tcb, tgt, wk, scan, cpu, tl, table, nworkers, look>>
  BY <1>e, <1>m, <1>w, <1>t, <1>n, <1>y DEF resume_create, At, Goto, Done, F, H, W, SelfObj,
    objvars, hostvars, callvars, tabvars
<1>1. FTypes'
  BY <1>e, <1>m, <1>w, <1>t, <1>n, <1>y, <1>v DEF FTypes, TypeOK, Labels
<1>2. ObjectInv'
  BY <1>e, <1>m, <1>w, <1>t, <1>n, <1>y, <1>v DEF ObjectInv, NamedLive, NamedUsed, NamedOnce,
    UnusedClean, LiveNamed, LiveKept
<1>3. ClaimInv'
  <2>1. ClaimHasTarget'
    BY <1>e, <1>m, <1>w, <1>t, <1>n, <1>y, <1>v DEF ClaimInv, ClaimHasTarget, RunClaim, EndClaim
  <2>2. TargetClaimed'
    BY <1>e, <1>t, <1>y, <1>v, <1>n DEF ClaimInv, TargetClaimed, RunClaim, EndClaim
  <2>3. ClaimedOnce'
    BY <1>e, <1>m, <1>w, <1>t, <1>n, <1>y, <1>v DEF ClaimInv, ClaimedOnce
  <2>4. EndedWhole'
    BY <1>e, <1>m, <1>w, <1>t, <1>n, <1>y, <1>v DEF ClaimInv, EndedWhole, ClaimHasTarget, RunClaim,
      EndClaim, ClaimedOnce, TargetClaimed
  <2>5. ClearedGone'
    BY <1>e, <1>m, <1>w, <1>t, <1>n, <1>y, <1>v DEF ClaimInv, ClearedGone, ClaimHasTarget, RunClaim,
      EndClaim, TargetClaimed
  <2> QED  BY <2>1, <2>2, <2>3, <2>4, <2>5 DEF ClaimInv
<1>4. TableInv'
  <2>1. ListedLive'
    <3>1. \A x \in Procs : pc'[x] \in {pc[x], "post", "wait"}
      BY <1>y, <1>v
    <3>2. \A i \in 1 .. MaxSlots : table[i] \in Workers \cup {None}
      BY DEF FTypes, TypeOK
    <3> SUFFICES ASSUME NEW i \in 1 .. MaxSlots, table[i] # None
                 PROVE  /\ slot[table[i]] = i /\ i <= nworkers /\ wstat[table[i]] = "live"
                        /\ pc'[table[i]] \notin {"exit", "dead", "worker", "publish"}
      BY <1>v DEF ListedLive
    <3>3. /\ slot[table[i]] = i /\ i <= nworkers /\ wstat[table[i]] = "live"
          /\ pc[table[i]] \notin {"exit", "dead", "worker", "publish"}
      BY DEF TableInv, ListedLive
    <3> QED  BY <3>1, <3>2, <3>3
  <2>2. LiveListed'
    BY <1>e, <1>m, <1>w, <1>t, <1>n, <1>y, <1>v DEF TableInv, LiveListed
  <2>3. ScanBounded'
    BY <1>e, <1>m, <1>w, <1>t, <1>n, <1>y, <1>v DEF TableInv, ScanBounded
  <2>4. Publishing'
    BY <1>e, <1>m, <1>w, <1>t, <1>n, <1>y, <1>v DEF TableInv, Publishing
  <2>5. ExitLive'
    BY <1>e, <1>m, <1>w, <1>t, <1>n, <1>y, <1>v DEF TableInv, ExitLive
  <2>6. NoWorkerNoSlot'
    BY <1>e, <1>m, <1>w, <1>t, <1>n, <1>y, <1>v DEF TableInv, NoWorkerNoSlot
  <2>7. WorkerNew'
    BY <1>e, <1>m, <1>w, <1>t, <1>n, <1>y, <1>v DEF TableInv, WorkerNew
  <2>8. HostLabels'
    BY <1>e, <1>m, <1>w, <1>t, <1>n, <1>y, <1>v DEF TableInv, HostLabels
  <2> QED  BY <2>1, <2>2, <2>3, <2>4, <2>5, <2>6, <2>7, <2>8 DEF TableInv
<1>5. LookInv'
  BY <1>e, <1>m, <1>w, <1>t, <1>n, <1>y, <1>v DEF LookInv, OffEmpty, ScansFromOne, HasWorker,
    WorkerSafe, FiberSafe
<1>6. ThInv'
  <2>e. e = p /\ ThreadInv /\ HasTok(e)
    BY <1>e, <1>m, OnCpu DEF ThInv, ThreadInv, OwnThread, HasTok
  <2>l. \A x \in Hosts : pc[x] \notin {"none", "dead"} => hstat[x] = "live" /\ obj[x] \in Objects
    BY <2>e DEF ThreadInv, RunsLive, ObjectInv, LiveNamed, FTypes, TypeOK
  <2>f. \A x \in Hosts : Failing(x) => x = e
    BY <1>m, <2>e, OnlyFailing
  <2>h. pc[h] \in Suspends \cup {"none", "dead"} /\ ~Failing(h) /\ ~kill[h] /\ ~baton[h]
    BY <1>m, <1>t, ClaimedWaits
  <2>y. \A x \in Procs : x # e /\ pc[x] \in {"create", "post"} => host[tgt[x]] \in Hosts \ {h}
    BY <1>t DEF ClaimInv, ClaimHasTarget, TargetClaimed, RunClaim, FTypes, TypeOK
  <2>n. /\ \A x \in Procs : pc'[x] = IF x = e THEN "post" ELSE IF x = h THEN "wait" ELSE pc[x]
        /\ started'[h] /\ \A x \in Hosts \ {h} : started'[x] = started[x]
    BY <1>y, <1>v, <1>n, <1>t
  <2>k. TokensKept
    BY <1>e, <1>m, <1>w, <1>t, <1>n, <1>y, <1>v, <2>e, <2>l, <2>f, <2>h, <2>y, <2>n DEF ThInv,
      TokensKept, HasTok, TokOf, Posted, PostOf, RunInv, RunsOnItsWorker, WorkerCall, RunClaim,
      SelfRun, Failing, BatonInv, PostedWhole, Untargeted, Suspends
  <2>1. ThreadInv'
    <3>1. OwnThread'
      BY <1>e, <1>m, <1>w, <1>t, <1>n, <1>y, <1>v, <2>e, <2>l, <2>f, <2>h, <2>y, <2>n, <2>k DEF
        ThInv, ThreadInv, OwnThread
    <3>2. NoSwitch'
      BY <1>e, <1>m, <1>w, <1>t, <1>n, <1>y, <1>v, <2>e, <2>l, <2>f, <2>h, <2>y, <2>n, <2>k DEF
        ThInv, ThreadInv, NoSwitch
    <3>3. WorkerLabels'
      BY <1>e, <1>m, <1>w, <1>t, <1>n, <1>y, <1>v, <2>e, <2>l, <2>f, <2>h, <2>y, <2>n, <2>k DEF
        ThInv, ThreadInv, WorkerLabels
    <3>4. StartedRuns'
      BY <1>e, <1>m, <1>w, <1>t, <1>n, <1>y, <1>v, <2>e, <2>l, <2>f, <2>h, <2>y, <2>n, <2>k DEF
        ThInv, ThreadInv, StartedRuns
    <3>5. RunsLive'
      BY <1>e, <1>m, <1>w, <1>t, <1>n, <1>y, <1>v, <2>e, <2>l, <2>f, <2>h, <2>y, <2>n, <2>k DEF
        ThInv, ThreadInv, RunsLive
    <3> QED  BY <3>1, <3>2, <3>3, <3>4, <3>5 DEF ThreadInv
  <2>2. RunInv'
    <3>1. RunsWhole'
      BY <1>e, <1>m, <1>w, <1>t, <1>n, <1>y, <1>v, <2>e, <2>l, <2>f, <2>h, <2>y, <2>n, <2>k DEF
        ThInv, RunInv, RunsWhole, SelfRun, Unrun, Untargeted, TableInv, HostLabels
    <3>2. FailsWhole'
      BY <1>e, <1>m, <1>w, <1>t, <1>n, <1>y, <1>v, <2>e, <2>l, <2>f, <2>h, <2>y, <2>n, <2>k DEF
        ThInv, RunInv, FailsWhole, Failing, Unrun, Untargeted
    <3>3. RunsOnItsWorker'
      BY <1>e, <1>m, <1>w, <1>t, <1>n, <1>y, <1>v, <2>e, <2>l, <2>f, <2>h, <2>y, <2>n, <2>k DEF
        ThInv, RunInv, RunsOnItsWorker, WorkerCall, RunClaim, SelfRun, Failing
    <3>4. ReclaimFails'
      BY <1>e, <1>m, <1>w, <1>t, <1>n, <1>y, <1>v, <2>e, <2>l, <2>f, <2>h, <2>y, <2>n, <2>k DEF
        ThInv, RunInv, ReclaimFails
    <3>5. FailsUnposted'
      BY <1>e, <1>m, <1>w, <1>t, <1>n, <1>y, <1>v, <2>e, <2>l, <2>f, <2>h, <2>y, <2>n, <2>k DEF
        ThInv, RunInv, FailsUnposted, HasTok
    <3> QED  BY <3>1, <3>2, <3>3, <3>4, <3>5 DEF RunInv
  <2>3. BatonInv'
    <3>1. BatonSuspends'
      BY <1>e, <1>m, <1>w, <1>t, <1>n, <1>y, <1>v, <2>e, <2>l, <2>f, <2>h, <2>y, <2>n, <2>k DEF
        ThInv, BatonInv, BatonSuspends, Suspends
    <3>2. PostedWhole'
      BY <1>e, <1>m, <1>w, <1>t, <1>n, <1>y, <1>v, <2>e, <2>l, <2>f, <2>h, <2>y, <2>n, <2>k DEF
        ThInv, BatonInv, PostedWhole, Posted, Untargeted, BatonSuspends, Suspends
    <3>3. KillSuspends'
      BY <1>e, <1>m, <1>w, <1>t, <1>n, <1>y, <1>v, <2>e, <2>l, <2>f, <2>h, <2>y, <2>n, <2>k DEF
        ThInv, BatonInv, KillSuspends, Suspends
    <3>4. KillEnds'
      BY <1>e, <1>m, <1>w, <1>t, <1>n, <1>y, <1>v, <2>e, <2>l, <2>f, <2>h, <2>y, <2>n, <2>k DEF
        ThInv, BatonInv, KillEnds, KillSuspends, Suspends
    <3>5. KilledIsKill'
      BY <1>e, <1>m, <1>w, <1>t, <1>n, <1>y, <1>v, <2>e, <2>l, <2>f, <2>h, <2>y, <2>n, <2>k DEF
        ThInv, BatonInv, KilledIsKill
    <3> QED  BY <3>1, <3>2, <3>3, <3>4, <3>5 DEF BatonInv
  <2>4. CallInv'
    BY <1>e, <1>m, <1>w, <1>t, <1>n, <1>y, <1>v, <2>e, <2>l, <2>f, <2>h, <2>y, <2>n, <2>k DEF ThInv,
      CallInv, CallHasWorker, WorkerOfItself, WorkerCall, RunClaim
  <2>5. TokenInv'
    BY <1>e, <1>m, <1>w, <1>t, <1>n, <1>y, <1>v, <2>e, <2>l, <2>f, <2>h, <2>y, <2>n, <2>k,
      KeepTokens
  <2>6. CurrentInv'
    <3>1. \A k \in Hosts : pc'[k] \in Holds <=> pc[k] \in Holds
      BY <1>e, <1>m, <1>w, <1>t, <1>n, <1>y, <1>v, <2>e, <2>l, <2>f, <2>h, <2>y, <2>n, <2>k DEF
        Holds, TableInv, HostLabels
    <3>2. \A x \in Procs : pc[x] \in Handing => pc'[x] \in Handing /\ host'[tgt'[x]] = host[tgt[x]]
      BY <1>e, <1>m, <1>w, <1>t, <1>n, <1>y, <1>v, <2>e, <2>l, <2>f, <2>h, <2>y, <2>n, <2>k DEF
        Handing, TableInv, HostLabels
    <3>3. \A x \in Procs : pc'[x] \in {"create", "post"} \/ (x \in Hosts /\ pc'[x] \in {"idle", "ready"}) =>
             wk'[x] = wk[x] /\ (pc[x] \in {"create", "post"} \/ (x \in Hosts /\ pc[x] \in {"idle", "ready"}))
      BY <1>e, <1>m, <1>w, <1>t, <1>n, <1>y, <1>v, <2>e, <2>l, <2>f, <2>h, <2>y, <2>n, <2>k DEF
        TableInv, HostLabels
    <3> QED  BY <3>1, <3>2, <3>3, <1>m, <1>v, <2>k, KeepCurrent
  <2>7. HandInv'
    <3>1. HandWorker'
      BY <1>e, <1>m, <1>w, <1>t, <1>n, <1>y, <1>v, <2>e, <2>l, <2>f, <2>h, <2>y, <2>n, <2>k DEF
        ThInv, HandInv, HandWorker, ClaimInv, ClaimHasTarget, RunClaim, EndClaim, TargetClaimed,
        ClaimedOnce, ObjectInv, NamedOnce
    <3>2. PostStarted'
      BY <1>e, <1>m, <1>w, <1>t, <1>n, <1>y, <1>v, <2>e, <2>l, <2>f, <2>h, <2>y, <2>n, <2>k DEF
        ThInv, HandInv, PostStarted
    <3>3. CreateUnstarted'
      BY <1>m, <1>v, <2>e, <2>n, <2>y DEF ThInv, HandInv, CreateUnstarted
    <3> QED  BY <3>1, <3>2, <3>3 DEF HandInv
  <2>8. TcbInv'
    <3>1. TokenTcb'
      BY <1>e, <1>m, <1>w, <1>t, <1>n, <1>y, <1>v, <2>e, <2>l, <2>f, <2>h, <2>y, <2>n, <2>k DEF
        ThInv, TcbInv, TokenTcb, TokenInv, TokenAlive, TokenOnce, TokensKept
    <3>2. ThreadTcb'
      BY <1>e, <1>m, <1>w, <1>t, <1>n, <1>y, <1>v, <2>e, <2>l, <2>f, <2>h, <2>y, <2>n, <2>k DEF
        ThInv, TcbInv, ThreadTcb, TokenInv, TokenOnce, TokensKept
    <3>3. PostedTcb'
      BY <1>e, <1>m, <1>w, <1>t, <1>n, <1>y, <1>v, <2>e, <2>l, <2>f, <2>h, <2>y, <2>n, <2>k DEF
        ThInv, TcbInv, PostedTcb, TokenInv, TokenNotPosted, TokensKept
    <3> QED  BY <3>1, <3>2, <3>3 DEF TcbInv
  <2> QED  BY <2>1, <2>2, <2>3, <2>4, <2>5, <2>6, <2>7, <2>8 DEF ThInv
<1> QED  BY <1>1, <1>2, <1>3, <1>4, <1>5, <1>6, <1>m, <1>v DEF ThreadMode

(* The thread of the target is not created: the caller takes itself back.  *)
LEMMA Step_resume_failed ==
  ASSUME FailsAlone, FIInv, NEW p \in Procs, resume_failed(p)
  PROVE  FIInv'
<1> USE SetsAssumption DEF Procs, FIInv, Base
<1>e. PICK e \in Procs : e = cpu[p] /\ pc[e] = "create"
  BY OnCpu DEF resume_failed, At
<1>m. ThreadMode
  BY <1>e DEF CoInv, NoThreads
<1>w. wk[e] \in Workers /\ (e \in Workers => wk[e] = e) /\ (~ThreadMode => wk[e] = p)
  BY <1>e, CallersWorker DEF WorkerCall, RunClaim
<1>t. PICK o \in Objects, h \in Hosts :
        /\ o = tgt[e] /\ h = host[o] /\ (\A d \in Procs : tgt[d] = o => d = e) /\ (\A x \in Objects : host[x] = h => x = o)
        /\ state[o] = "RUNNING" /\ hstat[h] = "live" /\ obj[h] = o
  BY <1>e, Claimed DEF RunClaim, EndClaim
<1>y. /\ pc \in [Procs -> Labels]
      /\ current \in [Workers -> Hosts \cup {None}]
  BY DEF FTypes, TypeOK
<1>v. /\ scenario.create_fails
      /\ pc' = [pc EXCEPT ![e] = IF tl[p] = None THEN "undo" ELSE "reclaim"]
      /\ current' = [current EXCEPT ![wk[e]] = None]
      /\ UNCHANGED <<scenario, state, host, obj, hstat, hworker, started, kill, release, baton,
                           wstat, slot, tcb, tgt, wk, scan, cpu, tl, table, nworkers, look>>
  BY <1>e, <1>m, <1>w, <1>t, <1>y DEF resume_failed, At, Goto, Done, F, H, W, SelfObj, objvars,
    hostvars, callvars, tabvars
<1>1. FTypes'
  BY <1>e, <1>m, <1>w, <1>t, <1>y, <1>v DEF FTypes, TypeOK, Labels
<1>2. ObjectInv'
  BY <1>e, <1>m, <1>w, <1>t, <1>y, <1>v DEF ObjectInv, NamedLive, NamedUsed, NamedOnce, UnusedClean,
    LiveNamed, LiveKept
<1>3. ClaimInv'
  BY <1>e, <1>m, <1>w, <1>t, <1>y, <1>v DEF ClaimInv, ClaimHasTarget, TargetClaimed, ClaimedOnce,
    EndedWhole, ClearedGone, RunClaim, EndClaim
<1>4. TableInv'
  BY <1>e, <1>m, <1>w, <1>t, <1>y, <1>v DEF TableInv, ListedLive, LiveListed, ScanBounded,
    Publishing, ExitLive, NoWorkerNoSlot, WorkerNew, HostLabels
<1>5. LookInv'
  BY <1>e, <1>m, <1>w, <1>t, <1>y, <1>v DEF LookInv, OffEmpty, ScansFromOne, HasWorker, WorkerSafe,
    FiberSafe
<1>6. ThInv'
  <2>e. e = p /\ ThreadInv /\ HasTok(e)
    BY <1>e, <1>m, OnCpu DEF ThInv, ThreadInv, OwnThread, HasTok
  <2>l. \A x \in Hosts : pc[x] \notin {"none", "dead"} => hstat[x] = "live" /\ obj[x] \in Objects
    BY <2>e DEF ThreadInv, RunsLive, ObjectInv, LiveNamed, FTypes, TypeOK
  <2>f. \A x \in Hosts : Failing(x) => x = e
    BY <1>m, <2>e, OnlyFailing
  <2>h. pc[h] \in Suspends \cup {"none", "dead"} /\ ~Failing(h) /\ ~kill[h] /\ ~baton[h]
    BY <1>m, <1>t, ClaimedWaits
  <2>c. PICK v \in Workers : v = wk[e] /\ v = TokOf(e)
    BY <1>e, <1>m, <1>w, <2>e DEF TokOf
  <2>i. e \in Hosts /\ Failing(e) => Unrun(e) /\ state[obj[e]] = "IDLE" /\ wk[e] = hworker[e]
    BY <1>e, <1>m, <2>e DEF ThInv, RunInv, FailsWhole, RunsOnItsWorker, WorkerCall, RunClaim
  <2>x. Failing(e) /\ (e \in Hosts => pc'[e] = "reclaim") /\ (e \notin Hosts => pc'[e] = "undo") /\ \A x \in Procs \ {e} : pc'[x] = pc[x]
    BY <1>e, <1>m, <1>y, <1>v, <2>e DEF Failing, ThInv, ThreadInv, OwnThread
  <2>k. TokensKept
    BY <1>e, <1>m, <1>w, <1>t, <1>y, <1>v, <2>e, <2>l, <2>f, <2>h, <2>c, <2>i, <2>x DEF ThInv,
      TokensKept, HasTok, TokOf, Posted, PostOf, RunInv, RunsOnItsWorker, WorkerCall, RunClaim,
      SelfRun, Failing, BatonInv, PostedWhole, Untargeted, Suspends
  <2>1. ThreadInv'
    BY <1>e, <1>m, <1>w, <1>t, <1>y, <1>v, <2>e, <2>l, <2>f, <2>h, <2>c, <2>i, <2>x, <2>k DEF ThInv,
      ThreadInv, OwnThread, NoSwitch, WorkerLabels, StartedRuns, RunsLive
  <2>2. RunInv'
    <3>1. RunsWhole'
      BY <1>m, <1>v, <2>e, <2>x DEF ThInv, RunInv, RunsWhole, SelfRun, Unrun, Untargeted
    <3>2. FailsWhole'
      BY <1>e, <1>m, <1>w, <1>t, <1>y, <1>v, <2>e, <2>l, <2>f, <2>h, <2>c, <2>i, <2>x, <2>k DEF
        ThInv, RunInv, FailsWhole, Failing, Unrun, Untargeted
    <3>3. RunsOnItsWorker'
      BY <1>e, <1>m, <1>w, <1>t, <1>y, <1>v, <2>e, <2>l, <2>f, <2>h, <2>c, <2>i, <2>x, <2>k DEF
        ThInv, RunInv, RunsOnItsWorker, WorkerCall, RunClaim, SelfRun, Failing
    <3>4. ReclaimFails'
      BY <1>e, <1>m, <1>w, <1>t, <1>y, <1>v, <2>e, <2>l, <2>f, <2>h, <2>c, <2>i, <2>x, <2>k DEF
        ThInv, RunInv, ReclaimFails
    <3>5. FailsUnposted'
      BY <1>e, <1>m, <1>w, <1>t, <1>y, <1>v, <2>e, <2>l, <2>f, <2>h, <2>c, <2>i, <2>x, <2>k DEF
        ThInv, RunInv, FailsUnposted, HasTok
    <3> QED  BY <3>1, <3>2, <3>3, <3>4, <3>5 DEF RunInv
  <2>3. BatonInv'
    <3>1. BatonSuspends'
      BY <1>m, <1>v, <2>e, <2>i, <2>x DEF ThInv, BatonInv, BatonSuspends, Unrun
    <3>2. PostedWhole'
      BY <1>e, <1>m, <1>w, <1>t, <1>y, <1>v, <2>e, <2>l, <2>f, <2>h, <2>c, <2>i, <2>x, <2>k DEF
        ThInv, BatonInv, PostedWhole, Posted, Untargeted, BatonSuspends, Suspends
    <3>3. KillSuspends'
      BY <1>m, <1>v, <2>e, <2>i, <2>x DEF ThInv, BatonInv, KillSuspends, Unrun
    <3>4. KillEnds'
      BY <1>e, <1>m, <1>w, <1>t, <1>y, <1>v, <2>e, <2>l, <2>f, <2>h, <2>c, <2>i, <2>x, <2>k DEF
        ThInv, BatonInv, KillEnds, KillSuspends, Suspends
    <3>5. KilledIsKill'
      BY <1>e, <1>m, <1>w, <1>t, <1>y, <1>v, <2>e, <2>l, <2>f, <2>h, <2>c, <2>i, <2>x, <2>k DEF
        ThInv, BatonInv, KilledIsKill
    <3> QED  BY <3>1, <3>2, <3>3, <3>4, <3>5 DEF BatonInv
  <2>4. CallInv'
    BY <1>e, <1>m, <1>w, <1>t, <1>y, <1>v, <2>e, <2>l, <2>f, <2>h, <2>c, <2>i, <2>x, <2>k DEF ThInv,
      CallInv, CallHasWorker, WorkerOfItself, WorkerCall, RunClaim
  <2>5. TokenInv'
    BY <1>e, <1>m, <1>w, <1>t, <1>y, <1>v, <2>e, <2>l, <2>f, <2>h, <2>c, <2>i, <2>x, <2>k,
      KeepTokens
  <2>6. CurrentInv'
    <3>1. \A w \in Workers : w # v => current'[w] = current[w]
      BY <1>e, <1>m, <1>w, <1>t, <1>y, <1>v, <2>e, <2>l, <2>f, <2>h, <2>c, <2>i, <2>x, <2>k DEF
        FIInv
    <3>2. \A x \in Procs : x # e => pc'[x] = pc[x] /\ wk'[x] = wk[x] /\ (pc[x] \in Handing => host'[tgt'[x]] = host[tgt[x]])
      BY <1>e, <1>m, <1>w, <1>t, <1>y, <1>v, <2>e, <2>l, <2>f, <2>h, <2>c, <2>i, <2>x, <2>k DEF
        Handing
    <3>3. current'[v] # None => (current'[v] = e /\ pc'[e] \in Holds) \/ (current'[v] = host'[tgt'[e]] /\ pc'[e] \in Handing)
      BY <1>e, <1>m, <1>w, <1>t, <1>y, <1>v, <2>e, <2>l, <2>f, <2>h, <2>c, <2>i, <2>x, <2>k DEF
        Handing, Holds
    <3>4. e \in Hosts /\ pc'[e] \in Holds => current'[v] = e
      BY <1>e, <1>m, <1>w, <1>t, <1>y, <1>v, <2>e, <2>l, <2>f, <2>h, <2>c, <2>i, <2>x, <2>k DEF
        Holds
    <3>5. pc'[e] \in {"create", "post"} \/ (e \in Hosts /\ pc'[e] \in {"idle", "ready"}) =>
             wk'[e] = v /\ current'[v] = host'[tgt'[e]]
      BY <1>e, <1>m, <1>w, <1>t, <1>y, <1>v, <2>e, <2>l, <2>f, <2>h, <2>c, <2>i, <2>x, <2>k DEF
        FIInv
    <3> QED  BY <3>1, <3>2, <3>3, <3>4, <3>5, <1>m, <2>e, <2>k, <2>c, SetCurrent
  <2>7. HandInv'
    BY <1>e, <1>m, <1>w, <1>t, <1>y, <1>v, <2>e, <2>l, <2>f, <2>h, <2>c, <2>i, <2>x, <2>k DEF ThInv,
      HandInv, HandWorker, PostStarted, CreateUnstarted
  <2>8. TcbInv'
    <3>1. TokenTcb'
      BY <1>e, <1>m, <1>w, <1>t, <1>y, <1>v, <2>e, <2>l, <2>f, <2>h, <2>c, <2>i, <2>x, <2>k DEF
        ThInv, TcbInv, TokenTcb, TokenInv, TokenAlive, TokenOnce, TokensKept
    <3>2. ThreadTcb'
      BY <1>e, <1>m, <1>w, <1>t, <1>y, <1>v, <2>e, <2>l, <2>f, <2>h, <2>c, <2>i, <2>x, <2>k DEF
        ThInv, TcbInv, ThreadTcb, TokenInv, TokenOnce, TokensKept
    <3>3. PostedTcb'
      BY <1>e, <1>m, <1>w, <1>t, <1>y, <1>v, <2>e, <2>l, <2>f, <2>h, <2>c, <2>i, <2>x, <2>k DEF
        ThInv, TcbInv, PostedTcb, TokenInv, TokenNotPosted, TokensKept
    <3> QED  BY <3>1, <3>2, <3>3 DEF TcbInv
  <2> QED  BY <2>1, <2>2, <2>3, <2>4, <2>5, <2>6, <2>7, <2>8 DEF ThInv
<1> QED  BY <1>1, <1>2, <1>3, <1>4, <1>5, <1>6, <1>m, <1>v DEF ThreadMode

(* The caller claims itself, being the only fiber that runs.               *)
LEMMA Step_switch_reclaim ==
  ASSUME FailsAlone, FIInv, NEW p \in Procs, switch_reclaim(p)
  PROVE  FIInv'
<1> USE SetsAssumption DEF Procs, FIInv, Base
<1>e. PICK e \in Procs : e = cpu[p] /\ pc[e] = "reclaim"
  BY OnCpu DEF switch_reclaim, At
<1>m. ThreadMode
  BY <1>e DEF CoInv, NoThreads
<1>s. PICK s \in Hosts, q \in Objects :
        /\ s = tl[p] /\ q = obj[s] /\ host[q] = s /\ hstat[s] = "live" /\ state[q] = "IDLE"
        /\ (\A d \in Procs : tgt[d] # q) /\ hworker[s] \in Workers /\ (~ThreadMode => hworker[s] = p)
  <2>1. e = p /\ p \in Hosts /\ tl[p] = p
    BY <1>e, <1>m, OnCpu DEF ThInv, ThreadInv, OwnThread, WorkerLabels
  <2>2. Failing(p)
    BY <1>e, <1>m, <2>1 DEF ThInv, RunInv, ReclaimFails, Failing
  <2>3. Unrun(p) /\ state[obj[p]] = "IDLE" /\ hstat[p] = "live"
    BY <1>e, <1>m, <2>1, <2>2 DEF ThInv, RunInv, FailsWhole, ThreadInv, RunsLive
  <2>4. hworker[p] \in Workers
    BY <1>e, <1>m, <2>1, <2>2 DEF ThInv, RunInv, RunsOnItsWorker, CallInv, CallHasWorker,
      WorkerCall, RunClaim
  <2>5. obj[p] \in Objects
    BY <2>1, <2>3 DEF ObjectInv, LiveNamed, FTypes, TypeOK
  <2> QED  BY <1>m, <2>1, <2>3, <2>4, <2>5 DEF Unrun, Untargeted
<1>w. wk[e] \in Workers /\ (e \in Workers => wk[e] = e) /\ (~ThreadMode => wk[e] = p)
  BY <1>e, CallersWorker DEF WorkerCall, RunClaim
<1>t. PICK o \in Objects, h \in Hosts :
        /\ o = tgt[e] /\ h = host[o] /\ (\A d \in Procs : tgt[d] = o => d = e) /\ (\A x \in Objects : host[x] = h => x = o)
        /\ state[o] = "RUNNING" /\ hstat[h] = "live" /\ obj[h] = o
  BY <1>e, Claimed DEF RunClaim, EndClaim
<1>y. /\ pc \in [Procs -> Labels]
      /\ state \in [Objects -> {"IDLE", "RUNNING", "SUSPENDING", "FINALIZED"}]
  BY DEF FTypes, TypeOK
<1>v. /\ pc' = [pc EXCEPT ![e] = "regain"]
      /\ state' = [state EXCEPT ![q] = "RUNNING"]
      /\ UNCHANGED <<scenario, host, obj, hstat, hworker, started, kill, release, baton, current,
                           wstat, slot, tcb, tgt, wk, scan, cpu, tl, table, nworkers, look>>
  BY <1>e, <1>m, <1>s, <1>w, <1>t, <1>y DEF switch_reclaim, At, Goto, Done, F, H, W, SelfObj,
    objvars, hostvars, callvars, tabvars
<1>1. FTypes'
  BY <1>e, <1>m, <1>s, <1>w, <1>t, <1>y, <1>v DEF FTypes, TypeOK, Labels
<1>2. ObjectInv'
  BY <1>e, <1>m, <1>s, <1>w, <1>t, <1>y, <1>v DEF ObjectInv, NamedLive, NamedUsed, NamedOnce,
    UnusedClean, LiveNamed, LiveKept
<1>3. ClaimInv'
  BY <1>e, <1>m, <1>s, <1>w, <1>t, <1>y, <1>v DEF ClaimInv, ClaimHasTarget, TargetClaimed,
    ClaimedOnce, EndedWhole, ClearedGone, RunClaim, EndClaim
<1>4. TableInv'
  BY <1>e, <1>m, <1>s, <1>w, <1>t, <1>y, <1>v DEF TableInv, ListedLive, LiveListed, ScanBounded,
    Publishing, ExitLive, NoWorkerNoSlot, WorkerNew, HostLabels
<1>5. LookInv'
  BY <1>e, <1>m, <1>s, <1>w, <1>t, <1>y, <1>v DEF LookInv, OffEmpty, ScansFromOne, HasWorker,
    WorkerSafe, FiberSafe
<1>6. ThInv'
  <2>e. e = p /\ ThreadInv /\ s = p /\ HasTok(e)
    BY <1>e, <1>m, <1>s, OnCpu DEF ThInv, ThreadInv, OwnThread, HasTok
  <2>l. \A x \in Hosts : pc[x] \notin {"none", "dead"} => hstat[x] = "live" /\ obj[x] \in Objects
    BY <2>e DEF ThreadInv, RunsLive, ObjectInv, LiveNamed, FTypes, TypeOK
  <2>f. \A x \in Hosts : Failing(x) => x = e
    BY <1>m, <2>e, OnlyFailing
  <2>h. pc[h] \in Suspends \cup {"none", "dead"} /\ ~Failing(h) /\ ~kill[h] /\ ~baton[h]
    BY <1>m, <1>t, ClaimedWaits
  <2>k. TokensKept
    BY <1>e, <1>m, <1>s, <1>w, <1>t, <1>y, <1>v, <2>e, <2>l, <2>f, <2>h DEF ThInv, TokensKept,
      HasTok, TokOf, Posted, PostOf, RunInv, RunsOnItsWorker, WorkerCall, RunClaim, SelfRun,
      Failing, BatonInv, PostedWhole, Untargeted, Suspends
  <2>1. ThreadInv'
    BY <1>e, <1>m, <1>s, <1>w, <1>t, <1>y, <1>v, <2>e, <2>l, <2>f, <2>h, <2>k DEF ThInv, ThreadInv,
      OwnThread, NoSwitch, WorkerLabels, StartedRuns, RunsLive
  <2>2. RunInv'
    BY <1>e, <1>m, <1>s, <1>w, <1>t, <1>y, <1>v, <2>e, <2>l, <2>f, <2>h, <2>k DEF ThInv, RunInv,
      RunsWhole, FailsWhole, RunsOnItsWorker, ReclaimFails, FailsUnposted, SelfRun, Unrun,
      Untargeted, Failing, WorkerCall, RunClaim, HasTok
  <2>3. BatonInv'
    BY <1>e, <1>m, <1>s, <1>w, <1>t, <1>y, <1>v, <2>e, <2>l, <2>f, <2>h, <2>k DEF ThInv, BatonInv,
      BatonSuspends, PostedWhole, KillSuspends, KillEnds, KilledIsKill, Suspends, Posted, Untargeted
  <2>4. CallInv'
    BY <1>e, <1>m, <1>s, <1>w, <1>t, <1>y, <1>v, <2>e, <2>l, <2>f, <2>h, <2>k DEF ThInv, CallInv,
      CallHasWorker, WorkerOfItself, WorkerCall, RunClaim
  <2>5. TokenInv'
    BY <1>e, <1>m, <1>s, <1>w, <1>t, <1>y, <1>v, <2>e, <2>l, <2>f, <2>h, <2>k, KeepTokens
  <2>6. CurrentInv'
    <3>1. \A k \in Hosts : pc'[k] \in Holds <=> pc[k] \in Holds
      BY <1>e, <1>m, <1>s, <1>w, <1>t, <1>y, <1>v, <2>e, <2>l, <2>f, <2>h, <2>k DEF Holds, TableInv,
        HostLabels
    <3>2. \A x \in Procs : pc[x] \in Handing => pc'[x] \in Handing /\ host'[tgt'[x]] = host[tgt[x]]
      BY <1>e, <1>m, <1>s, <1>w, <1>t, <1>y, <1>v, <2>e, <2>l, <2>f, <2>h, <2>k DEF Handing,
        TableInv, HostLabels
    <3>3. \A x \in Procs : pc'[x] \in {"create", "post"} \/ (x \in Hosts /\ pc'[x] \in {"idle", "ready"}) =>
             wk'[x] = wk[x] /\ (pc[x] \in {"create", "post"} \/ (x \in Hosts /\ pc[x] \in {"idle", "ready"}))
      BY <1>e, <1>m, <1>s, <1>w, <1>t, <1>y, <1>v, <2>e, <2>l, <2>f, <2>h, <2>k DEF TableInv,
        HostLabels
    <3> QED  BY <3>1, <3>2, <3>3, <1>m, <1>v, <2>k, KeepCurrent
  <2>7. HandInv'
    BY <1>e, <1>m, <1>s, <1>w, <1>t, <1>y, <1>v, <2>e, <2>l, <2>f, <2>h, <2>k DEF ThInv, HandInv,
      HandWorker, PostStarted, CreateUnstarted
  <2>8. TcbInv'
    <3>1. TokenTcb'
      BY <1>e, <1>m, <1>s, <1>w, <1>t, <1>y, <1>v, <2>e, <2>l, <2>f, <2>h, <2>k DEF ThInv, TcbInv,
        TokenTcb, TokenInv, TokenAlive, TokenOnce, TokensKept
    <3>2. ThreadTcb'
      BY <1>e, <1>m, <1>s, <1>w, <1>t, <1>y, <1>v, <2>e, <2>l, <2>f, <2>h, <2>k DEF ThInv, TcbInv,
        ThreadTcb, TokenInv, TokenOnce, TokensKept
    <3>3. PostedTcb'
      BY <1>e, <1>m, <1>s, <1>w, <1>t, <1>y, <1>v, <2>e, <2>l, <2>f, <2>h, <2>k DEF ThInv, TcbInv,
        PostedTcb, TokenInv, TokenNotPosted, TokensKept
    <3> QED  BY <3>1, <3>2, <3>3 DEF TcbInv
  <2> QED  BY <2>1, <2>2, <2>3, <2>4, <2>5, <2>6, <2>7, <2>8 DEF ThInv
<1> QED  BY <1>1, <1>2, <1>3, <1>4, <1>5, <1>6, <1>m, <1>v DEF ThreadMode

(* The caller is current again.                                            *)
LEMMA Step_switch_regain ==
  ASSUME FailsAlone, FIInv, NEW p \in Procs, switch_regain(p)
  PROVE  FIInv'
<1> USE SetsAssumption DEF Procs, FIInv, Base
<1>e. PICK e \in Procs : e = cpu[p] /\ pc[e] = "regain"
  BY OnCpu DEF switch_regain, At
<1>m. ThreadMode
  BY <1>e DEF CoInv, NoThreads
<1>s. PICK s \in Hosts, q \in Objects :
        /\ s = tl[p] /\ q = obj[s] /\ host[q] = s /\ hstat[s] = "live" /\ state[q] = "RUNNING"
        /\ (\A d \in Procs : tgt[d] # q) /\ hworker[s] \in Workers /\ (~ThreadMode => hworker[s] = p)
  BY <1>e, SelfRunning DEF switch_regain
<1>w. wk[e] \in Workers /\ (e \in Workers => wk[e] = e) /\ (~ThreadMode => wk[e] = p)
  BY <1>e, CallersWorker DEF WorkerCall, RunClaim
<1>t. PICK o \in Objects, h \in Hosts :
        /\ o = tgt[e] /\ h = host[o] /\ (\A d \in Procs : tgt[d] = o => d = e) /\ (\A x \in Objects : host[x] = h => x = o)
        /\ state[o] = "RUNNING" /\ hstat[h] = "live" /\ obj[h] = o
  BY <1>e, Claimed DEF RunClaim, EndClaim
<1>y. /\ pc \in [Procs -> Labels]
      /\ current \in [Workers -> Hosts \cup {None}]
  BY DEF FTypes, TypeOK
<1>v. /\ pc' = [pc EXCEPT ![e] = "undo"]
      /\ current' = [current EXCEPT ![wk[e]] = s]
      /\ UNCHANGED <<scenario, state, host, obj, hstat, hworker, started, kill, release, baton,
                           wstat, slot, tcb, tgt, wk, scan, cpu, tl, table, nworkers, look>>
  BY <1>e, <1>m, <1>s, <1>w, <1>t, <1>y DEF switch_regain, At, Goto, Done, F, H, W, SelfObj,
    objvars, hostvars, callvars, tabvars
<1>1. FTypes'
  BY <1>e, <1>m, <1>s, <1>w, <1>t, <1>y, <1>v DEF FTypes, TypeOK, Labels
<1>2. ObjectInv'
  BY <1>e, <1>m, <1>s, <1>w, <1>t, <1>y, <1>v DEF ObjectInv, NamedLive, NamedUsed, NamedOnce,
    UnusedClean, LiveNamed, LiveKept
<1>3. ClaimInv'
  BY <1>e, <1>m, <1>s, <1>w, <1>t, <1>y, <1>v DEF ClaimInv, ClaimHasTarget, TargetClaimed,
    ClaimedOnce, EndedWhole, ClearedGone, RunClaim, EndClaim
<1>4. TableInv'
  BY <1>e, <1>m, <1>s, <1>w, <1>t, <1>y, <1>v DEF TableInv, ListedLive, LiveListed, ScanBounded,
    Publishing, ExitLive, NoWorkerNoSlot, WorkerNew, HostLabels
<1>5. LookInv'
  BY <1>e, <1>m, <1>s, <1>w, <1>t, <1>y, <1>v DEF LookInv, OffEmpty, ScansFromOne, HasWorker,
    WorkerSafe, FiberSafe
<1>6. ThInv'
  <2>e. e = p /\ ThreadInv /\ s = p /\ HasTok(e)
    BY <1>e, <1>m, <1>s, OnCpu DEF ThInv, ThreadInv, OwnThread, HasTok
  <2>l. \A x \in Hosts : pc[x] \notin {"none", "dead"} => hstat[x] = "live" /\ obj[x] \in Objects
    BY <2>e DEF ThreadInv, RunsLive, ObjectInv, LiveNamed, FTypes, TypeOK
  <2>f. \A x \in Hosts : Failing(x) => x = e
    BY <1>m, <2>e, OnlyFailing
  <2>h. pc[h] \in Suspends \cup {"none", "dead"} /\ ~Failing(h) /\ ~kill[h] /\ ~baton[h]
    BY <1>m, <1>t, ClaimedWaits
  <2>c. PICK v \in Workers : v = wk[e] /\ v = TokOf(e)
    BY <1>e, <1>m, <1>w, <2>e DEF TokOf
  <2>k. TokensKept
    BY <1>e, <1>m, <1>s, <1>w, <1>t, <1>y, <1>v, <2>e, <2>l, <2>f, <2>h, <2>c DEF ThInv, TokensKept,
      HasTok, TokOf, Posted, PostOf, RunInv, RunsOnItsWorker, WorkerCall, RunClaim, SelfRun,
      Failing, BatonInv, PostedWhole, Untargeted, Suspends
  <2>1. ThreadInv'
    BY <1>e, <1>m, <1>s, <1>w, <1>t, <1>y, <1>v, <2>e, <2>l, <2>f, <2>h, <2>c, <2>k DEF ThInv,
      ThreadInv, OwnThread, NoSwitch, WorkerLabels, StartedRuns, RunsLive
  <2>2. RunInv'
    BY <1>e, <1>m, <1>s, <1>w, <1>t, <1>y, <1>v, <2>e, <2>l, <2>f, <2>h, <2>c, <2>k DEF ThInv,
      RunInv, RunsWhole, FailsWhole, RunsOnItsWorker, ReclaimFails, FailsUnposted, SelfRun, Unrun,
      Untargeted, Failing, WorkerCall, RunClaim, HasTok
  <2>3. BatonInv'
    BY <1>e, <1>m, <1>s, <1>w, <1>t, <1>y, <1>v, <2>e, <2>l, <2>f, <2>h, <2>c, <2>k DEF ThInv,
      BatonInv, BatonSuspends, PostedWhole, KillSuspends, KillEnds, KilledIsKill, Suspends, Posted,
      Untargeted
  <2>4. CallInv'
    BY <1>e, <1>m, <1>s, <1>w, <1>t, <1>y, <1>v, <2>e, <2>l, <2>f, <2>h, <2>c, <2>k DEF ThInv,
      CallInv, CallHasWorker, WorkerOfItself, WorkerCall, RunClaim
  <2>5. TokenInv'
    BY <1>e, <1>m, <1>s, <1>w, <1>t, <1>y, <1>v, <2>e, <2>l, <2>f, <2>h, <2>c, <2>k, KeepTokens
  <2>6. CurrentInv'
    <3>1. \A w \in Workers : w # v => current'[w] = current[w]
      BY <1>e, <1>m, <1>s, <1>w, <1>t, <1>y, <1>v, <2>e, <2>l, <2>f, <2>h, <2>c, <2>k
    <3>2. \A x \in Procs : x # e => pc'[x] = pc[x] /\ wk'[x] = wk[x] /\ (pc[x] \in Handing => host'[tgt'[x]] = host[tgt[x]])
      BY <1>e, <1>m, <1>s, <1>w, <1>t, <1>y, <1>v, <2>e, <2>l, <2>f, <2>h, <2>c, <2>k DEF Handing,
        FIInv
    <3>3. current'[v] # None => (current'[v] = e /\ pc'[e] \in Holds) \/ (current'[v] = host'[tgt'[e]] /\ pc'[e] \in Handing)
      BY <1>e, <1>m, <1>s, <1>w, <1>t, <1>y, <1>v, <2>e, <2>l, <2>f, <2>h, <2>c, <2>k DEF Handing,
        Holds
    <3>4. e \in Hosts /\ pc'[e] \in Holds => current'[v] = e
      BY <1>e, <1>m, <1>s, <1>w, <1>t, <1>y, <1>v, <2>e, <2>l, <2>f, <2>h, <2>c, <2>k DEF Holds,
        FIInv
    <3>5. pc'[e] \in {"create", "post"} \/ (e \in Hosts /\ pc'[e] \in {"idle", "ready"}) =>
             wk'[e] = v /\ current'[v] = host'[tgt'[e]]
      BY <1>e, <1>m, <1>s, <1>w, <1>t, <1>y, <1>v, <2>e, <2>l, <2>f, <2>h, <2>c, <2>k
    <3> QED  BY <3>1, <3>2, <3>3, <3>4, <3>5, <1>m, <2>e, <2>k, <2>c, SetCurrent
  <2>7. HandInv'
    BY <1>e, <1>m, <1>s, <1>w, <1>t, <1>y, <1>v, <2>e, <2>l, <2>f, <2>h, <2>c, <2>k DEF ThInv,
      HandInv, HandWorker, PostStarted, CreateUnstarted
  <2>8. TcbInv'
    <3>1. TokenTcb'
      BY <1>e, <1>m, <1>s, <1>w, <1>t, <1>y, <1>v, <2>e, <2>l, <2>f, <2>h, <2>c, <2>k DEF ThInv,
        TcbInv, TokenTcb, TokenInv, TokenAlive, TokenOnce, TokensKept
    <3>2. ThreadTcb'
      BY <1>e, <1>m, <1>s, <1>w, <1>t, <1>y, <1>v, <2>e, <2>l, <2>f, <2>h, <2>c, <2>k DEF ThInv,
        TcbInv, ThreadTcb, TokenInv, TokenOnce, TokensKept
    <3>3. PostedTcb'
      BY <1>e, <1>m, <1>s, <1>w, <1>t, <1>y, <1>v, <2>e, <2>l, <2>f, <2>h, <2>c, <2>k DEF ThInv,
        TcbInv, PostedTcb, TokenInv, TokenNotPosted, TokensKept
    <3> QED  BY <3>1, <3>2, <3>3 DEF TcbInv
  <2> QED  BY <2>1, <2>2, <2>3, <2>4, <2>5, <2>6, <2>7, <2>8 DEF ThInv
<1> QED  BY <1>1, <1>2, <1>3, <1>4, <1>5, <1>6, <1>m, <1>v DEF ThreadMode

(* The target is given back and the caller goes on.                        *)
LEMMA Step_resume_undone ==
  ASSUME FailsAlone, FIInv, NEW p \in Procs, resume_undone(p)
  PROVE  FIInv'
<1> USE SetsAssumption DEF Procs, FIInv, Base
<1>e. PICK e \in Procs : e = cpu[p] /\ pc[e] = "undo"
  BY OnCpu DEF resume_undone, At
<1>m. ThreadMode
  BY <1>e DEF CoInv, NoThreads
<1>w. wk[e] \in Workers /\ (e \in Workers => wk[e] = e) /\ (~ThreadMode => wk[e] = p)
  BY <1>e, CallersWorker DEF WorkerCall, RunClaim
<1>t. PICK o \in Objects, h \in Hosts :
        /\ o = tgt[e] /\ h = host[o] /\ (\A d \in Procs : tgt[d] = o => d = e) /\ (\A x \in Objects : host[x] = h => x = o)
        /\ state[o] = "RUNNING" /\ hstat[h] = "live" /\ obj[h] = o
  BY <1>e, Claimed DEF RunClaim, EndClaim
<1>y. /\ pc \in [Procs -> Labels]
      /\ tgt \in [Procs -> Objects \cup {None}]
      /\ wk \in [Procs -> Workers \cup {None}]
      /\ state \in [Objects -> {"IDLE", "RUNNING", "SUSPENDING", "FINALIZED"}]
  BY DEF FTypes, TypeOK
<1>v. /\ pc' = [pc EXCEPT ![e] = "guest"]
      /\ tgt' = [tgt EXCEPT ![e] = None]
      /\ wk' = [wk EXCEPT ![e] = None]
      /\ state' = [state EXCEPT ![o] = "IDLE"]
      /\ UNCHANGED <<scenario, host, obj, hstat, hworker, started, kill, release, baton, current,
                           wstat, slot, tcb, scan, cpu, tl, table, nworkers, look>>
  BY <1>e, <1>m, <1>w, <1>t, <1>y DEF resume_undone, At, Goto, Done, F, H, W, SelfObj, objvars,
    hostvars, callvars, tabvars
<1>1. FTypes'
  BY <1>e, <1>m, <1>w, <1>t, <1>y, <1>v DEF FTypes, TypeOK, Labels
<1>2. ObjectInv'
  BY <1>e, <1>m, <1>w, <1>t, <1>y, <1>v DEF ObjectInv, NamedLive, NamedUsed, NamedOnce, UnusedClean,
    LiveNamed, LiveKept
<1>3. ClaimInv'
  <2>1. ClaimHasTarget'
    BY <1>e, <1>m, <1>w, <1>t, <1>y, <1>v DEF ClaimInv, ClaimHasTarget, RunClaim, EndClaim
  <2>2. TargetClaimed'
    BY <1>e, <1>m, <1>w, <1>t, <1>y, <1>v DEF ClaimInv, TargetClaimed, RunClaim, EndClaim,
      ClaimHasTarget
  <2>3. ClaimedOnce'
    BY <1>e, <1>m, <1>w, <1>t, <1>y, <1>v DEF ClaimInv, ClaimedOnce
  <2>4. EndedWhole'
    BY <1>e, <1>m, <1>w, <1>t, <1>y, <1>v DEF ClaimInv, EndedWhole, ClaimHasTarget, RunClaim,
      EndClaim, ClaimedOnce, TargetClaimed
  <2>5. ClearedGone'
    BY <1>e, <1>m, <1>w, <1>t, <1>y, <1>v DEF ClaimInv, ClearedGone, ClaimHasTarget, RunClaim,
      EndClaim, TargetClaimed
  <2> QED  BY <2>1, <2>2, <2>3, <2>4, <2>5 DEF ClaimInv
<1>4. TableInv'
  BY <1>e, <1>m, <1>w, <1>t, <1>y, <1>v DEF TableInv, ListedLive, LiveListed, ScanBounded,
    Publishing, ExitLive, NoWorkerNoSlot, WorkerNew, HostLabels
<1>5. LookInv'
  BY <1>e, <1>m, <1>w, <1>t, <1>y, <1>v DEF LookInv, OffEmpty, ScansFromOne, HasWorker, WorkerSafe,
    FiberSafe
<1>6. ThInv'
  <2>e. e = p /\ ThreadInv /\ HasTok(e)
    BY <1>e, <1>m, OnCpu DEF ThInv, ThreadInv, OwnThread, HasTok
  <2>l. \A x \in Hosts : pc[x] \notin {"none", "dead"} => hstat[x] = "live" /\ obj[x] \in Objects
    BY <2>e DEF ThreadInv, RunsLive, ObjectInv, LiveNamed, FTypes, TypeOK
  <2>f. \A x \in Hosts : Failing(x) => x = e
    BY <1>m, <2>e, OnlyFailing
  <2>h. pc[h] \in Suspends \cup {"none", "dead"} /\ ~Failing(h) /\ ~kill[h] /\ ~baton[h]
    BY <1>m, <1>t, ClaimedWaits
  <2>u. e \in Hosts => wk[e] = hworker[e]
    BY <1>e, <1>m, <2>e DEF ThInv, RunInv, RunsOnItsWorker, WorkerCall, RunClaim, SelfRun, TableInv,
      HostLabels
  <2>k. TokensKept
    BY <1>e, <1>m, <1>w, <1>t, <1>y, <1>v, <2>e, <2>l, <2>f, <2>h, <2>u DEF ThInv, TokensKept,
      HasTok, TokOf, Posted, PostOf, RunInv, RunsOnItsWorker, WorkerCall, RunClaim, SelfRun,
      Failing, BatonInv, PostedWhole, Untargeted, Suspends
  <2>1. ThreadInv'
    BY <1>e, <1>m, <1>w, <1>t, <1>y, <1>v, <2>e, <2>l, <2>f, <2>h, <2>u, <2>k DEF ThInv, ThreadInv,
      OwnThread, NoSwitch, WorkerLabels, StartedRuns, RunsLive
  <2>2. RunInv'
    <3>1. RunsWhole'
      BY <1>e, <1>m, <1>w, <1>t, <1>y, <1>v, <2>e, <2>l, <2>f, <2>h, <2>u, <2>k DEF ThInv, RunInv,
        RunsWhole, SelfRun, Unrun, Untargeted, TableInv, HostLabels
    <3>2. FailsWhole'
      BY <1>e, <1>m, <1>w, <1>t, <1>y, <1>v, <2>e, <2>l, <2>f, <2>h, <2>u, <2>k DEF ThInv, RunInv,
        FailsWhole, Failing, Unrun, Untargeted
    <3>3. RunsOnItsWorker'
      BY <1>e, <1>m, <1>w, <1>t, <1>y, <1>v, <2>e, <2>l, <2>f, <2>h, <2>u, <2>k DEF ThInv, RunInv,
        RunsOnItsWorker, WorkerCall, RunClaim, SelfRun, Failing
    <3>4. ReclaimFails'
      BY <1>e, <1>m, <1>w, <1>t, <1>y, <1>v, <2>e, <2>l, <2>f, <2>h, <2>u, <2>k DEF ThInv, RunInv,
        ReclaimFails
    <3>5. FailsUnposted'
      BY <1>e, <1>m, <1>w, <1>t, <1>y, <1>v, <2>e, <2>l, <2>f, <2>h, <2>u, <2>k DEF ThInv, RunInv,
        FailsUnposted, HasTok
    <3> QED  BY <3>1, <3>2, <3>3, <3>4, <3>5 DEF RunInv
  <2>3. BatonInv'
    <3>1. BatonSuspends'
      BY <1>e, <1>m, <1>w, <1>t, <1>y, <1>v, <2>e, <2>l, <2>f, <2>h, <2>u, <2>k DEF ThInv, BatonInv,
        BatonSuspends, Suspends
    <3>2. PostedWhole'
      BY <1>e, <1>m, <1>w, <1>t, <1>y, <1>v, <2>e, <2>l, <2>f, <2>h, <2>u, <2>k DEF ThInv, BatonInv,
        PostedWhole, Posted, Untargeted, BatonSuspends, Suspends
    <3>3. KillSuspends'
      BY <1>e, <1>m, <1>w, <1>t, <1>y, <1>v, <2>e, <2>l, <2>f, <2>h, <2>u, <2>k DEF ThInv, BatonInv,
        KillSuspends, Suspends
    <3>4. KillEnds'
      BY <1>e, <1>m, <1>w, <1>t, <1>y, <1>v, <2>e, <2>l, <2>f, <2>h, <2>u, <2>k DEF ThInv, BatonInv,
        KillEnds, KillSuspends, Suspends
    <3>5. KilledIsKill'
      BY <1>e, <1>m, <1>w, <1>t, <1>y, <1>v, <2>e, <2>l, <2>f, <2>h, <2>u, <2>k DEF ThInv, BatonInv,
        KilledIsKill
    <3> QED  BY <3>1, <3>2, <3>3, <3>4, <3>5 DEF BatonInv
  <2>4. CallInv'
    BY <1>e, <1>m, <1>w, <1>t, <1>y, <1>v, <2>e, <2>l, <2>f, <2>h, <2>u, <2>k DEF ThInv, CallInv,
      CallHasWorker, WorkerOfItself, WorkerCall, RunClaim
  <2>5. TokenInv'
    BY <1>e, <1>m, <1>w, <1>t, <1>y, <1>v, <2>e, <2>l, <2>f, <2>h, <2>u, <2>k, KeepTokens
  <2>6. CurrentInv'
    <3>1. \A k \in Hosts : pc'[k] \in Holds <=> pc[k] \in Holds
      BY <1>e, <1>m, <1>w, <1>t, <1>y, <1>v, <2>e, <2>l, <2>f, <2>h, <2>u, <2>k DEF Holds, TableInv,
        HostLabels
    <3>2. \A x \in Procs : pc[x] \in Handing => pc'[x] \in Handing /\ host'[tgt'[x]] = host[tgt[x]]
      BY <1>e, <1>m, <1>w, <1>t, <1>y, <1>v, <2>e, <2>l, <2>f, <2>h, <2>u, <2>k DEF Handing,
        TableInv, HostLabels, ClaimInv, ClaimHasTarget, TargetClaimed, RunClaim
    <3>3. \A x \in Procs : pc'[x] \in {"create", "post"} \/ (x \in Hosts /\ pc'[x] \in {"idle", "ready"}) =>
             wk'[x] = wk[x] /\ (pc[x] \in {"create", "post"} \/ (x \in Hosts /\ pc[x] \in {"idle", "ready"}))
      BY <1>e, <1>m, <1>w, <1>t, <1>y, <1>v, <2>e, <2>l, <2>f, <2>h, <2>u, <2>k DEF TableInv,
        HostLabels
    <3> QED  BY <3>1, <3>2, <3>3, <1>m, <1>v, <2>k, KeepCurrent
  <2>7. HandInv'
    BY <1>e, <1>m, <1>w, <1>t, <1>y, <1>v, <2>e, <2>l, <2>f, <2>h, <2>u, <2>k DEF ThInv, HandInv,
      HandWorker, PostStarted, CreateUnstarted
  <2>8. TcbInv'
    <3>1. TokenTcb'
      BY <1>e, <1>m, <1>w, <1>t, <1>y, <1>v, <2>e, <2>l, <2>f, <2>h, <2>u, <2>k DEF ThInv, TcbInv,
        TokenTcb, TokenInv, TokenAlive, TokenOnce, TokensKept
    <3>2. ThreadTcb'
      BY <1>e, <1>m, <1>w, <1>t, <1>y, <1>v, <2>e, <2>l, <2>f, <2>h, <2>u, <2>k DEF ThInv, TcbInv,
        ThreadTcb, TokenInv, TokenOnce, TokensKept
    <3>3. PostedTcb'
      BY <1>e, <1>m, <1>w, <1>t, <1>y, <1>v, <2>e, <2>l, <2>f, <2>h, <2>u, <2>k DEF ThInv, TcbInv,
        PostedTcb, TokenInv, TokenNotPosted, TokensKept
    <3> QED  BY <3>1, <3>2, <3>3 DEF TcbInv
  <2> QED  BY <2>1, <2>2, <2>3, <2>4, <2>5, <2>6, <2>7, <2>8 DEF ThInv
<1> QED  BY <1>1, <1>2, <1>3, <1>4, <1>5, <1>6, <1>m, <1>v DEF ThreadMode

(* The caller's token goes to the target with the post of its baton.       *)
LEMMA Step_resume_post ==
  ASSUME FailsAlone, FIInv, NEW p \in Procs, resume_post(p)
  PROVE  FIInv'
<1> USE SetsAssumption DEF Procs, FIInv, Base
<1>e. PICK e \in Procs : e = cpu[p] /\ pc[e] = "post"
  BY OnCpu DEF resume_post, At
<1>m. ThreadMode
  BY <1>e DEF CoInv, NoThreads
<1>w. wk[e] \in Workers /\ (e \in Workers => wk[e] = e) /\ (~ThreadMode => wk[e] = p)
  BY <1>e, CallersWorker DEF WorkerCall, RunClaim
<1>t. PICK o \in Objects, h \in Hosts :
        /\ o = tgt[e] /\ h = host[o] /\ (\A d \in Procs : tgt[d] = o => d = e) /\ (\A x \in Objects : host[x] = h => x = o)
        /\ state[o] = "RUNNING" /\ hstat[h] = "live" /\ obj[h] = o
  BY <1>e, Claimed DEF RunClaim, EndClaim
<1>y. /\ pc \in [Procs -> Labels]
      /\ tgt \in [Procs -> Objects \cup {None}]
      /\ wk \in [Procs -> Workers \cup {None}]
      /\ tcb \in [Workers -> Procs]
      /\ baton \in [Procs -> BOOLEAN]
  BY DEF FTypes, TypeOK
<1>v. /\ pc' = [pc EXCEPT ![e] = "wait"]
      /\ tgt' = [tgt EXCEPT ![e] = None]
      /\ wk' = [wk EXCEPT ![e] = None]
      /\ tcb' = [tcb EXCEPT ![wk[e]] = h]
      /\ baton' = [baton EXCEPT ![h] = TRUE]
      /\ UNCHANGED <<scenario, state, host, obj, hstat, hworker, started, kill, release, current,
                           wstat, slot, scan, cpu, tl, table, nworkers, look>>
  BY <1>e, <1>m, <1>w, <1>t, <1>y DEF resume_post, At, Goto, Done, F, H, W, SelfObj, objvars,
    hostvars, callvars, tabvars
<1>1. FTypes'
  BY <1>e, <1>m, <1>w, <1>t, <1>y, <1>v DEF FTypes, TypeOK, Labels
<1>2. ObjectInv'
  BY <1>e, <1>m, <1>w, <1>t, <1>y, <1>v DEF ObjectInv, NamedLive, NamedUsed, NamedOnce, UnusedClean,
    LiveNamed, LiveKept
<1>3. ClaimInv'
  <2>1. ClaimHasTarget'
    BY <1>e, <1>m, <1>w, <1>t, <1>y, <1>v DEF ClaimInv, ClaimHasTarget, RunClaim, EndClaim
  <2>2. TargetClaimed'
    BY <1>e, <1>m, <1>w, <1>t, <1>y, <1>v DEF ClaimInv, TargetClaimed, RunClaim, EndClaim,
      ClaimHasTarget
  <2>3. ClaimedOnce'
    BY <1>e, <1>m, <1>w, <1>t, <1>y, <1>v DEF ClaimInv, ClaimedOnce
  <2>4. EndedWhole'
    BY <1>e, <1>m, <1>w, <1>t, <1>y, <1>v DEF ClaimInv, EndedWhole, ClaimHasTarget, RunClaim,
      EndClaim, ClaimedOnce, TargetClaimed
  <2>5. ClearedGone'
    BY <1>e, <1>m, <1>w, <1>t, <1>y, <1>v DEF ClaimInv, ClearedGone, ClaimHasTarget, RunClaim,
      EndClaim, TargetClaimed
  <2> QED  BY <2>1, <2>2, <2>3, <2>4, <2>5 DEF ClaimInv
<1>4. TableInv'
  BY <1>e, <1>m, <1>w, <1>t, <1>y, <1>v DEF TableInv, ListedLive, LiveListed, ScanBounded,
    Publishing, ExitLive, NoWorkerNoSlot, WorkerNew, HostLabels
<1>5. LookInv'
  BY <1>e, <1>m, <1>w, <1>t, <1>y, <1>v DEF LookInv, OffEmpty, ScansFromOne, HasWorker, WorkerSafe,
    FiberSafe
<1>6. ThInv'
  <2>e. e = p /\ ThreadInv /\ HasTok(e)
    BY <1>e, <1>m, OnCpu DEF ThInv, ThreadInv, OwnThread, HasTok
  <2>l. \A x \in Hosts : pc[x] \notin {"none", "dead"} => hstat[x] = "live" /\ obj[x] \in Objects
    BY <2>e DEF ThreadInv, RunsLive, ObjectInv, LiveNamed, FTypes, TypeOK
  <2>f. \A x \in Hosts : Failing(x) => x = e
    BY <1>m, <2>e, OnlyFailing
  <2>h. pc[h] \in Suspends \cup {"none", "dead"} /\ ~Failing(h) /\ ~kill[h] /\ ~baton[h]
    BY <1>m, <1>t, ClaimedWaits
  <2>c. PICK v \in Workers : v = wk[e] /\ v = TokOf(e)
    BY <1>e, <1>m, <1>w, <2>e DEF TokOf, Procs
  <2>k. \A x \in Procs : (HasTok(x)' <=> HasTok(x) /\ x # e) /\ (HasTok(x)' => TokOf(x)' = TokOf(x))
    BY <1>y, <1>v, <2>e DEF HasTok, TokOf
  <2>p. \A x \in Procs : (Posted(x)' <=> Posted(x) \/ x = h) /\ (Posted(x) => PostOf(x)' = PostOf(x))
    BY <1>y, <1>v, <2>h DEF Posted, PostOf
  <2>q. hworker[h] = v /\ current[v] = h /\ ~Posted(h) /\ hworker' = hworker /\ tcb' = [tcb EXCEPT ![v] = h]
    <3>1. hworker[h] = v
      BY <1>e, <1>m, <1>t, <2>c DEF ThInv, HandInv, HandWorker
    <3>2. current[v] = h
      BY <1>e, <1>m, <1>t, <2>c DEF ThInv, CurrentInv, HandedCurrent
    <3>3. ~Posted(h)
      BY <2>h DEF Posted
    <3> QED  BY <1>v, <2>c, <3>1, <3>2, <3>3
  <2>r. \A x \in Hosts : Posted(x) => hworker[x] \in Workers \ {v}
    BY <1>m, <2>c, <2>e DEF ThInv, TokenInv, TokenNotPosted, PostAlive, PostOf, FTypes
  <2>1. ThreadInv'
    BY <1>e, <1>m, <1>w, <1>t, <1>y, <1>v, <2>e, <2>l, <2>f, <2>h DEF ThInv, ThreadInv, OwnThread,
      NoSwitch, WorkerLabels, StartedRuns, RunsLive
  <2>2. RunInv'
    <3>1. RunsWhole'
      BY <1>e, <1>m, <1>w, <1>t, <1>y, <1>v, <2>e, <2>l, <2>f, <2>h DEF ThInv, RunInv, RunsWhole,
        SelfRun, Unrun, Untargeted, TableInv, HostLabels
    <3>2. FailsWhole'
      BY <1>e, <1>m, <1>w, <1>t, <1>y, <1>v, <2>e, <2>l, <2>f, <2>h DEF ThInv, RunInv, FailsWhole,
        Failing, Unrun, Untargeted
    <3>3. RunsOnItsWorker'
      BY <1>e, <1>m, <1>w, <1>t, <1>y, <1>v, <2>e, <2>l, <2>f, <2>h DEF ThInv, RunInv,
        RunsOnItsWorker, WorkerCall, RunClaim, SelfRun, Failing
    <3>4. ReclaimFails'
      BY <1>e, <1>m, <1>w, <1>t, <1>y, <1>v, <2>e, <2>l, <2>f, <2>h DEF ThInv, RunInv, ReclaimFails
    <3>5. FailsUnposted'
      <4> SUFFICES ASSUME NEW x \in Hosts, scenario.create_fails, HasTok(x)' PROVE FALSE
        BY <1>v DEF FailsUnposted
      <4>1. HasTok(x) /\ x # e
        BY <2>k
      <4> QED  BY <1>m, <2>e, <4>1, OnlyRunning
    <3> QED  BY <3>1, <3>2, <3>3, <3>4, <3>5 DEF RunInv
  <2>3. BatonInv'
    <3>1. BatonSuspends'
      <4>1. pc[h] \in Suspends
        BY <1>e, <1>m, <1>t, <2>h DEF ThInv, ThreadInv, StartedRuns, HandInv, PostStarted
      <4>2. \A x \in Procs : pc'[x] = IF x = e THEN "wait" ELSE pc[x]
        BY <1>y, <1>v
      <4>3. \A x \in Hosts \ {h} : baton'[x] = baton[x]
        BY <1>y, <1>v
      <4> QED  BY <1>m, <4>1, <4>2, <4>3 DEF ThInv, BatonInv, BatonSuspends, Suspends
    <3>2. PostedWhole'
      BY <1>e, <1>m, <1>w, <1>t, <1>y, <1>v, <2>e, <2>l, <2>f, <2>h DEF ThInv, BatonInv,
        PostedWhole, Posted, Untargeted, BatonSuspends, Suspends
    <3>3. KillSuspends'
      BY <1>e, <1>m, <1>w, <1>t, <1>y, <1>v, <2>e, <2>l, <2>f, <2>h DEF ThInv, BatonInv,
        KillSuspends, Suspends
    <3>4. KillEnds'
      BY <1>e, <1>m, <1>w, <1>t, <1>y, <1>v, <2>e, <2>l, <2>f, <2>h DEF ThInv, BatonInv, KillEnds,
        KillSuspends, Suspends
    <3>5. KilledIsKill'
      BY <1>e, <1>m, <1>w, <1>t, <1>y, <1>v, <2>e, <2>l, <2>f, <2>h DEF ThInv, BatonInv,
        KilledIsKill
    <3> QED  BY <3>1, <3>2, <3>3, <3>4, <3>5 DEF BatonInv
  <2>4. CallInv'
    BY <1>e, <1>m, <1>w, <1>t, <1>y, <1>v, <2>e, <2>l, <2>f, <2>h DEF ThInv, CallInv, CallHasWorker,
      WorkerOfItself, WorkerCall, RunClaim
  <2>5. TokenInv'
    <3>1. PostOf(h)' = TokOf(e)
      BY <2>c, <2>q DEF PostOf
    <3>2. scenario' = scenario /\ pc' = [pc EXCEPT ![e] = "wait"]
      BY <1>v
    <3> QED  BY <1>m, <2>e, <2>k, <2>p, <2>q, <3>1, <3>2, PassToken
  <2>6. CurrentInv'
    <3>1. CurrentHasToken'
      <4> SUFFICES ASSUME NEW w \in Workers, NEW k \in Hosts, current[w] = k
                   PROVE  \/ pc'[k] \in Holds /\ TokOf(k)' = w
                          \/ Posted(k)' /\ hworker'[k] = w
                          \/ \E x \in Procs : HandsTo(x, w, k)'
        BY <1>v DEF CurrentHasToken
      <4>1. CASE pc[k] \in Holds /\ TokOf(k) = w
        <5>1. HasTok(k) /\ k # e
          BY <1>e, <4>1 DEF Holds, HasTok
        <5> QED  BY <1>y, <1>v, <2>k, <4>1, <5>1
      <4>2. CASE Posted(k) /\ hworker[k] = w
        BY <2>p, <2>q, <4>2
      <4>3. ASSUME NEW x \in Procs, HandsTo(x, w, k), x # e PROVE HandsTo(x, w, k)'
        <5>1. HasTok(x)
          BY <4>3 DEF HandsTo, Handing, HasTok
        <5>2. TokOf(x)' = TokOf(x) /\ pc'[x] = pc[x] /\ tgt'[x] = tgt[x] /\ host' = host
          BY <1>y, <1>v, <2>k, <4>3, <5>1
        <5> QED  BY <4>3, <5>2 DEF HandsTo
      <4>4. CASE HandsTo(e, w, k)
        BY <1>t, <2>c, <2>p, <2>q, <4>4 DEF HandsTo
      <4> QED  BY <1>m, <4>1, <4>2, <4>3, <4>4 DEF ThInv, CurrentInv, CurrentHasToken
    <3>2. HolderCurrent'
      BY <1>e, <1>m, <1>w, <1>t, <1>y, <1>v, <2>e, <2>l, <2>f, <2>h DEF ThInv, CurrentInv,
        HolderCurrent, Holds, TokOf, TokenInv, TokenAlive, HasTok, TokenOnce
    <3>3. PostedCurrent'
      BY <1>m, <1>v, <2>p, <2>q DEF ThInv, CurrentInv, PostedCurrent
    <3>4. HandedCurrent'
      BY <1>e, <1>m, <1>w, <1>t, <1>y, <1>v, <2>e, <2>l, <2>f, <2>h DEF ThInv, CurrentInv,
        HandedCurrent, CallInv, CallHasWorker, WorkerCall, RunClaim
    <3> QED  BY <3>1, <3>2, <3>3, <3>4 DEF CurrentInv
  <2>7. HandInv'
    BY <1>e, <1>m, <1>w, <1>t, <1>y, <1>v, <2>e, <2>l, <2>f, <2>h DEF ThInv, HandInv, HandWorker,
      PostStarted, CreateUnstarted
  <2>8. TcbInv'
    <3>1. TokenTcb'
      BY <1>e, <1>m, <1>w, <1>t, <1>y, <1>v, <2>e, <2>l, <2>f, <2>h DEF ThInv, TcbInv, TokenTcb,
        HasTok, TokOf, TokenInv, TokenAlive, TokenOnce
    <3>2. ThreadTcb'
      <4>1. \A w \in Workers : HasTok(w)' => HasTok(w) /\ w # v
        BY <1>m, <2>c, <2>e, <2>k DEF ThInv, TokenInv, TokenOnce, TokOf
      <4>2. \A w \in Workers : Posted(w)' => Posted(w) /\ w # v
        BY <1>m, <2>c, <2>e, <2>p DEF ThInv, TokenInv, TokenNotPosted, PostOf
      <4> QED  BY <1>m, <1>y, <2>q, <4>1, <4>2 DEF ThInv, TcbInv, ThreadTcb
    <3>3. PostedTcb'
      BY <1>m, <1>y, <2>p, <2>q, <2>r DEF ThInv, TcbInv, PostedTcb
    <3> QED  BY <3>1, <3>2, <3>3 DEF TcbInv
  <2> QED  BY <2>1, <2>2, <2>3, <2>4, <2>5, <2>6, <2>7, <2>8 DEF ThInv
<1> QED  BY <1>1, <1>2, <1>3, <1>4, <1>5, <1>6, <1>m, <1>v DEF ThreadMode

(* A fiber that returns may be claimed.                                    *)
LEMMA Step_return_idle ==
  ASSUME FailsAlone, FIInv, NEW p \in Procs, return_idle(p)
  PROVE  FIInv'
<1> USE SetsAssumption DEF Procs, FIInv, Base
<1>e. PICK e \in Procs : e = cpu[p] /\ pc[e] = "return"
  BY OnCpu DEF return_idle, At
<1>m. ThreadMode
  BY <1>e DEF return_idle
<1>s. PICK s \in Hosts, q \in Objects :
        /\ s = tl[p] /\ q = obj[s] /\ host[q] = s /\ hstat[s] = "live" /\ state[q] = "RUNNING"
        /\ (\A d \in Procs : tgt[d] # q) /\ hworker[s] \in Workers /\ (~ThreadMode => hworker[s] = p)
  BY <1>e, SelfRunning DEF return_idle
<1>w. wk[e] \in Workers /\ (e \in Workers => wk[e] = e) /\ (~ThreadMode => wk[e] = p)
  BY <1>e, CallersWorker DEF WorkerCall, RunClaim
<1>y. /\ pc \in [Procs -> Labels]
      /\ state \in [Objects -> {"IDLE", "RUNNING", "SUSPENDING", "FINALIZED"}]
  BY DEF FTypes, TypeOK
<1>v. /\ ThreadMode
      /\ pc' = [pc EXCEPT ![e] = "returned"]
      /\ state' = [state EXCEPT ![q] = "IDLE"]
      /\ UNCHANGED <<scenario, host, obj, hstat, hworker, started, kill, release, baton, current,
                           wstat, slot, tcb, tgt, wk, scan, cpu, tl, table, nworkers, look>>
  BY <1>e, <1>m, <1>s, <1>w, <1>y DEF return_idle, At, Goto, Done, F, H, W, SelfObj, objvars,
    hostvars, callvars, tabvars
<1>1. FTypes'
  BY <1>e, <1>m, <1>s, <1>w, <1>y, <1>v DEF FTypes, TypeOK, Labels
<1>2. ObjectInv'
  BY <1>e, <1>m, <1>s, <1>w, <1>y, <1>v DEF ObjectInv, NamedLive, NamedUsed, NamedOnce, UnusedClean,
    LiveNamed, LiveKept
<1>3. ClaimInv'
  BY <1>e, <1>m, <1>s, <1>w, <1>y, <1>v DEF ClaimInv, ClaimHasTarget, TargetClaimed, ClaimedOnce,
    EndedWhole, ClearedGone, RunClaim, EndClaim
<1>4. TableInv'
  BY <1>e, <1>m, <1>s, <1>w, <1>y, <1>v DEF TableInv, ListedLive, LiveListed, ScanBounded,
    Publishing, ExitLive, NoWorkerNoSlot, WorkerNew, HostLabels
<1>5. LookInv'
  BY <1>e, <1>m, <1>s, <1>w, <1>y, <1>v DEF LookInv, OffEmpty, ScansFromOne, HasWorker, WorkerSafe,
    FiberSafe
<1>6. ThInv'
  <2>e. e = p /\ ThreadInv /\ s = p /\ HasTok(e)
    BY <1>e, <1>m, <1>s, OnCpu DEF ThInv, ThreadInv, OwnThread, HasTok
  <2>l. \A x \in Hosts : pc[x] \notin {"none", "dead"} => hstat[x] = "live" /\ obj[x] \in Objects
    BY <2>e DEF ThreadInv, RunsLive, ObjectInv, LiveNamed, FTypes, TypeOK
  <2>f. \A x \in Hosts : Failing(x) => x = e
    BY <1>m, <2>e, OnlyFailing
  <2>k. TokensKept
    BY <1>e, <1>m, <1>s, <1>w, <1>y, <1>v, <2>e, <2>l, <2>f DEF ThInv, TokensKept, HasTok, TokOf,
      Posted, PostOf, RunInv, RunsOnItsWorker, WorkerCall, RunClaim, SelfRun, Failing, BatonInv,
      PostedWhole, Untargeted, Suspends
  <2>1. ThreadInv'
    BY <1>e, <1>m, <1>s, <1>w, <1>y, <1>v, <2>e, <2>l, <2>f, <2>k DEF ThInv, ThreadInv, OwnThread,
      NoSwitch, WorkerLabels, StartedRuns, RunsLive
  <2>2. RunInv'
    BY <1>e, <1>m, <1>s, <1>w, <1>y, <1>v, <2>e, <2>l, <2>f, <2>k DEF ThInv, RunInv, RunsWhole,
      FailsWhole, RunsOnItsWorker, ReclaimFails, FailsUnposted, SelfRun, Unrun, Untargeted, Failing,
      WorkerCall, RunClaim, HasTok
  <2>3. BatonInv'
    <3>1. BatonSuspends'
      BY <1>e, <1>m, <1>s, <1>w, <1>y, <1>v, <2>e, <2>l, <2>f, <2>k DEF ThInv, BatonInv,
        BatonSuspends, Suspends
    <3>2. PostedWhole'
      BY <1>e, <1>m, <1>s, <1>w, <1>y, <1>v, <2>e, <2>l, <2>f, <2>k DEF ThInv, BatonInv,
        PostedWhole, Posted, Untargeted, BatonSuspends, Suspends
    <3>3. KillSuspends'
      BY <1>e, <1>m, <1>s, <1>w, <1>y, <1>v, <2>e, <2>l, <2>f, <2>k DEF ThInv, BatonInv,
        KillSuspends, Suspends
    <3>4. KillEnds'
      BY <1>e, <1>m, <1>s, <1>w, <1>y, <1>v, <2>e, <2>l, <2>f, <2>k DEF ThInv, BatonInv, KillEnds,
        KillSuspends, Suspends
    <3>5. KilledIsKill'
      BY <1>e, <1>m, <1>s, <1>w, <1>y, <1>v, <2>e, <2>l, <2>f, <2>k DEF ThInv, BatonInv,
        KilledIsKill
    <3> QED  BY <3>1, <3>2, <3>3, <3>4, <3>5 DEF BatonInv
  <2>4. CallInv'
    BY <1>e, <1>m, <1>s, <1>w, <1>y, <1>v, <2>e, <2>l, <2>f, <2>k DEF ThInv, CallInv, CallHasWorker,
      WorkerOfItself, WorkerCall, RunClaim
  <2>5. TokenInv'
    BY <1>e, <1>m, <1>s, <1>w, <1>y, <1>v, <2>e, <2>l, <2>f, <2>k, KeepTokens
  <2>6. CurrentInv'
    <3>1. \A k \in Hosts : pc'[k] \in Holds <=> pc[k] \in Holds
      BY <1>e, <1>m, <1>s, <1>w, <1>y, <1>v, <2>e, <2>l, <2>f, <2>k DEF Holds, TableInv, HostLabels
    <3>2. \A x \in Procs : pc[x] \in Handing => pc'[x] \in Handing /\ host'[tgt'[x]] = host[tgt[x]]
      BY <1>e, <1>m, <1>s, <1>w, <1>y, <1>v, <2>e, <2>l, <2>f, <2>k DEF Handing, TableInv,
        HostLabels
    <3>3. \A x \in Procs : pc'[x] \in {"create", "post"} \/ (x \in Hosts /\ pc'[x] \in {"idle", "ready"}) =>
             wk'[x] = wk[x] /\ (pc[x] \in {"create", "post"} \/ (x \in Hosts /\ pc[x] \in {"idle", "ready"}))
      BY <1>e, <1>m, <1>s, <1>w, <1>y, <1>v, <2>e, <2>l, <2>f, <2>k DEF TableInv, HostLabels
    <3> QED  BY <3>1, <3>2, <3>3, <1>m, <1>v, <2>k, KeepCurrent
  <2>7. HandInv'
    BY <1>e, <1>m, <1>s, <1>w, <1>y, <1>v, <2>e, <2>l, <2>f, <2>k DEF ThInv, HandInv, HandWorker,
      PostStarted, CreateUnstarted
  <2>8. TcbInv'
    <3>1. TokenTcb'
      BY <1>e, <1>m, <1>s, <1>w, <1>y, <1>v, <2>e, <2>l, <2>f, <2>k DEF ThInv, TcbInv, TokenTcb,
        TokenInv, TokenAlive, TokenOnce, TokensKept
    <3>2. ThreadTcb'
      BY <1>e, <1>m, <1>s, <1>w, <1>y, <1>v, <2>e, <2>l, <2>f, <2>k DEF ThInv, TcbInv, ThreadTcb,
        TokenInv, TokenOnce, TokensKept
    <3>3. PostedTcb'
      BY <1>e, <1>m, <1>s, <1>w, <1>y, <1>v, <2>e, <2>l, <2>f, <2>k DEF ThInv, TcbInv, PostedTcb,
        TokenInv, TokenNotPosted, TokensKept
    <3> QED  BY <3>1, <3>2, <3>3 DEF TcbInv
  <2> QED  BY <2>1, <2>2, <2>3, <2>4, <2>5, <2>6, <2>7, <2>8 DEF ThInv
<1> QED  BY <1>1, <1>2, <1>3, <1>4, <1>5, <1>6, <1>m, <1>v DEF ThreadMode

(* The fiber's token goes back to the thread's own code.                   *)
LEMMA Step_return_post ==
  ASSUME FailsAlone, FIInv, NEW p \in Procs, return_post(p)
  PROVE  FIInv'
<1> USE SetsAssumption DEF Procs, FIInv, Base
<1>e. PICK e \in Procs : e = cpu[p] /\ pc[e] = "returned"
  BY OnCpu DEF return_post, At
<1>m. ThreadMode
  BY <1>e DEF CoInv, NoThreads
<1>w. wk[e] \in Workers /\ (e \in Workers => wk[e] = e) /\ (~ThreadMode => wk[e] = p)
  BY <1>e, CallersWorker DEF WorkerCall, RunClaim
<1>y. /\ pc \in [Procs -> Labels]
      /\ tgt \in [Procs -> Objects \cup {None}]
      /\ wk \in [Procs -> Workers \cup {None}]
      /\ baton \in [Procs -> BOOLEAN]
  BY DEF FTypes, TypeOK
<1>v. /\ pc' = [pc EXCEPT ![e] = "wait"]
      /\ tgt' = [tgt EXCEPT ![e] = None]
      /\ wk' = [wk EXCEPT ![e] = None]
      /\ baton' = [baton EXCEPT ![wk[e]] = TRUE]
      /\ UNCHANGED <<scenario, state, host, obj, hstat, hworker, started, kill, release, current,
                           wstat, slot, tcb, scan, cpu, tl, table, nworkers, look>>
  BY <1>e, <1>m, <1>w, <1>y DEF return_post, At, Goto, Done, F, H, W, SelfObj, objvars, hostvars,
    callvars, tabvars
<1>1. FTypes'
  BY <1>e, <1>m, <1>w, <1>y, <1>v DEF FTypes, TypeOK, Labels
<1>2. ObjectInv'
  BY <1>e, <1>m, <1>w, <1>y, <1>v DEF ObjectInv, NamedLive, NamedUsed, NamedOnce, UnusedClean,
    LiveNamed, LiveKept
<1>3. ClaimInv'
  BY <1>e, <1>m, <1>w, <1>y, <1>v DEF ClaimInv, ClaimHasTarget, TargetClaimed, ClaimedOnce,
    EndedWhole, ClearedGone, RunClaim, EndClaim
<1>4. TableInv'
  BY <1>e, <1>m, <1>w, <1>y, <1>v DEF TableInv, ListedLive, LiveListed, ScanBounded, Publishing,
    ExitLive, NoWorkerNoSlot, WorkerNew, HostLabels
<1>5. LookInv'
  BY <1>e, <1>m, <1>w, <1>y, <1>v DEF LookInv, OffEmpty, ScansFromOne, HasWorker, WorkerSafe,
    FiberSafe
<1>6. ThInv'
  <2>e. e = p /\ ThreadInv /\ HasTok(e)
    BY <1>e, <1>m, OnCpu DEF ThInv, ThreadInv, OwnThread, HasTok
  <2>l. \A x \in Hosts : pc[x] \notin {"none", "dead"} => hstat[x] = "live" /\ obj[x] \in Objects
    BY <2>e DEF ThreadInv, RunsLive, ObjectInv, LiveNamed, FTypes, TypeOK
  <2>f. \A x \in Hosts : Failing(x) => x = e
    BY <1>m, <2>e, OnlyFailing
  <2>c. PICK v \in Workers : v = wk[e] /\ v = TokOf(e)
    BY <1>e, <1>m, <1>w, <2>e DEF TokOf, Procs
  <2>k. \A x \in Procs : (HasTok(x)' <=> HasTok(x) /\ x # e) /\ (HasTok(x)' => TokOf(x)' = TokOf(x))
    BY <1>y, <1>v, <2>e DEF HasTok, TokOf
  <2>q. ~Posted(v) /\ PostOf(v) = v /\ e \in Hosts /\ baton' = [baton EXCEPT ![v] = TRUE] /\ kill' = kill /\ tcb[v] = v
    BY <1>e, <1>m, <1>v, <2>c, <2>e DEF ThInv, TokenInv, TokenNotPosted, PostOf, ThreadInv,
      WorkerLabels, TcbInv, TokenTcb
  <2>p. \A x \in Procs : (Posted(x)' <=> Posted(x) \/ x = v) /\ (Posted(x) => PostOf(x)' = PostOf(x))
    BY <1>y, <1>v, <2>q DEF Posted, PostOf
  <2>1. ThreadInv'
    BY <1>e, <1>m, <1>w, <1>y, <1>v, <2>e, <2>l, <2>f DEF ThInv, ThreadInv, OwnThread, NoSwitch,
      WorkerLabels, StartedRuns, RunsLive
  <2>2. RunInv'
    <3>1. RunsWhole'
      BY <1>e, <1>m, <1>w, <1>y, <1>v, <2>e, <2>l, <2>f DEF ThInv, RunInv, RunsWhole, SelfRun,
        Unrun, Untargeted, TableInv, HostLabels
    <3>2. FailsWhole'
      BY <1>e, <1>m, <1>w, <1>y, <1>v, <2>e, <2>l, <2>f DEF ThInv, RunInv, FailsWhole, Failing,
        Unrun, Untargeted
    <3>3. RunsOnItsWorker'
      BY <1>e, <1>m, <1>w, <1>y, <1>v, <2>e, <2>l, <2>f DEF ThInv, RunInv, RunsOnItsWorker,
        WorkerCall, RunClaim, SelfRun, Failing
    <3>4. ReclaimFails'
      BY <1>e, <1>m, <1>w, <1>y, <1>v, <2>e, <2>l, <2>f DEF ThInv, RunInv, ReclaimFails
    <3>5. FailsUnposted'
      BY <1>e, <1>m, <1>w, <1>y, <1>v, <2>e, <2>l, <2>f DEF ThInv, RunInv, FailsUnposted, HasTok
    <3> QED  BY <3>1, <3>2, <3>3, <3>4, <3>5 DEF RunInv
  <2>3. BatonInv'
    <3>1. BatonSuspends'
      BY <1>e, <1>m, <1>w, <1>y, <1>v, <2>e, <2>l, <2>f DEF ThInv, BatonInv, BatonSuspends, Suspends
    <3>2. PostedWhole'
      BY <1>e, <1>m, <1>w, <1>y, <1>v, <2>e, <2>l, <2>f DEF ThInv, BatonInv, PostedWhole, Posted,
        Untargeted, BatonSuspends, Suspends
    <3>3. KillSuspends'
      BY <1>e, <1>m, <1>w, <1>y, <1>v, <2>e, <2>l, <2>f DEF ThInv, BatonInv, KillSuspends, Suspends
    <3>4. KillEnds'
      BY <1>e, <1>m, <1>w, <1>y, <1>v, <2>e, <2>l, <2>f DEF ThInv, BatonInv, KillEnds, KillSuspends,
        Suspends
    <3>5. KilledIsKill'
      BY <1>e, <1>m, <1>w, <1>y, <1>v, <2>e, <2>l, <2>f DEF ThInv, BatonInv, KilledIsKill
    <3> QED  BY <3>1, <3>2, <3>3, <3>4, <3>5 DEF BatonInv
  <2>4. CallInv'
    BY <1>e, <1>m, <1>w, <1>y, <1>v, <2>e, <2>l, <2>f DEF ThInv, CallInv, CallHasWorker,
      WorkerOfItself, WorkerCall, RunClaim
  <2>5. TokenInv'
    <3>1. PostOf(v)' = TokOf(e)
      BY <2>c DEF PostOf
    <3>2. scenario' = scenario /\ pc' = [pc EXCEPT ![e] = "wait"]
      BY <1>v
    <3> QED  BY <1>m, <2>e, <2>k, <2>p, <2>q, <3>1, <3>2, PassToken
  <2>6. CurrentInv'
    <3>1. CurrentHasToken'
      BY <1>e, <1>m, <1>w, <1>y, <1>v, <2>e, <2>l, <2>f DEF ThInv, CurrentInv, CurrentHasToken,
        Holds, TokOf, Posted, HandsTo, Handing, TokenInv, TokenAlive, HasTok, TokenOnce
    <3>2. HolderCurrent'
      BY <1>e, <1>m, <1>w, <1>y, <1>v, <2>e, <2>l, <2>f DEF ThInv, CurrentInv, HolderCurrent, Holds,
        TokOf, TokenInv, TokenAlive, HasTok, TokenOnce
    <3>3. PostedCurrent'
      BY <1>e, <1>m, <1>w, <1>y, <1>v, <2>e, <2>l, <2>f DEF ThInv, CurrentInv, PostedCurrent,
        Posted, TokenInv, PostAlive, PostOf, TokenNotPosted, HasTok, TokOf
    <3>4. HandedCurrent'
      BY <1>e, <1>m, <1>w, <1>y, <1>v, <2>e, <2>l, <2>f DEF ThInv, CurrentInv, HandedCurrent,
        CallInv, CallHasWorker, WorkerCall, RunClaim
    <3> QED  BY <3>1, <3>2, <3>3, <3>4 DEF CurrentInv
  <2>7. HandInv'
    BY <1>e, <1>m, <1>w, <1>y, <1>v, <2>e, <2>l, <2>f DEF ThInv, HandInv, HandWorker, PostStarted,
      CreateUnstarted
  <2>8. TcbInv'
    <3>1. TokenTcb'
      BY <1>e, <1>m, <1>w, <1>y, <1>v, <2>e, <2>l, <2>f DEF ThInv, TcbInv, TokenTcb, HasTok, TokOf,
        TokenInv, TokenAlive, TokenOnce
    <3>2. ThreadTcb'
      BY <1>m, <1>v, <2>k, <2>p, <2>q DEF ThInv, TcbInv, ThreadTcb
    <3>3. PostedTcb'
      BY <1>e, <1>m, <1>w, <1>y, <1>v, <2>e, <2>l, <2>f DEF ThInv, TcbInv, PostedTcb, Posted,
        TokenInv, TokenNotPosted, HasTok, TokOf, PostOf
    <3> QED  BY <3>1, <3>2, <3>3 DEF TcbInv
  <2> QED  BY <2>1, <2>2, <2>3, <2>4, <2>5, <2>6, <2>7, <2>8 DEF ThInv
<1> QED  BY <1>1, <1>2, <1>3, <1>4, <1>5, <1>6, <1>m, <1>v DEF ThreadMode

(* The endpoint posted to goes on with the token.                          *)
LEMMA Step_baton_wait ==
  ASSUME FIInv, NEW p \in Procs, baton_wait(p), ~(p \in Hosts /\ kill[p])
  PROVE  FIInv'
<1> USE SetsAssumption DEF Procs, FIInv, Base
<1>e. PICK e \in Procs : e = cpu[p] /\ pc[e] = "wait"
  BY OnCpu DEF baton_wait, At
<1>m. ThreadMode
  BY <1>e DEF CoInv, NoThreads
<1>y. /\ pc \in [Procs -> Labels]
      /\ baton \in [Procs -> BOOLEAN]
  BY DEF FTypes, TypeOK
<1>v. /\ baton[p]
      /\ pc' = [pc EXCEPT ![e] = "guest"]
      /\ baton' = [baton EXCEPT ![p] = FALSE]
      /\ UNCHANGED <<scenario, state, host, obj, hstat, hworker, started, kill, release, current,
                           wstat, slot, tcb, tgt, wk, scan, cpu, tl, table, nworkers, look>>
  BY <1>e, <1>m, <1>y DEF baton_wait, At, Goto, Done, F, H, W, SelfObj, objvars, hostvars, callvars,
    tabvars
<1>1. FTypes'
  BY <1>e, <1>m, <1>y, <1>v DEF FTypes, TypeOK, Labels
<1>2. ObjectInv'
  BY <1>e, <1>m, <1>y, <1>v DEF ObjectInv, NamedLive, NamedUsed, NamedOnce, UnusedClean, LiveNamed,
    LiveKept
<1>3. ClaimInv'
  BY <1>e, <1>m, <1>y, <1>v DEF ClaimInv, ClaimHasTarget, TargetClaimed, ClaimedOnce, EndedWhole,
    ClearedGone, RunClaim, EndClaim
<1>4. TableInv'
  BY <1>e, <1>m, <1>y, <1>v DEF TableInv, ListedLive, LiveListed, ScanBounded, Publishing, ExitLive,
    NoWorkerNoSlot, WorkerNew, HostLabels
<1>5. LookInv'
  BY <1>e, <1>m, <1>y, <1>v DEF LookInv, OffEmpty, ScansFromOne, HasWorker, WorkerSafe, FiberSafe
<1>6. ThInv'
  <2>e. e = p /\ ThreadInv
    BY <1>e, <1>m, OnCpu DEF ThInv, ThreadInv, OwnThread
  <2>l. \A x \in Hosts : pc[x] \notin {"none", "dead"} => hstat[x] = "live" /\ obj[x] \in Objects
    BY <2>e DEF ThreadInv, RunsLive, ObjectInv, LiveNamed, FTypes, TypeOK
  <2>w. pc[p] = "wait" /\ baton[p] /\ ~HasTok(p)
    BY <1>e, <1>v, <2>e DEF HasTok
  <2>t. Posted(p) /\ TokOf(p)' = PostOf(p)
    BY <1>y, <1>v, <2>e, <2>w DEF Posted, TokOf, PostOf
  <2>k. \A x \in Procs : (HasTok(x)' <=> HasTok(x) \/ x = p) /\ (HasTok(x) => TokOf(x)' = TokOf(x))
    BY <1>y, <1>v, <2>e, <2>w DEF HasTok, TokOf
  <2>p. \A x \in Procs : (Posted(x)' <=> Posted(x) /\ x # p) /\ (Posted(x) => PostOf(x)' = PostOf(x))
    BY <1>y, <1>v DEF Posted, PostOf
  <2>1. ThreadInv'
    BY <1>e, <1>m, <1>y, <1>v, <2>e, <2>l, <2>w DEF ThInv, ThreadInv, OwnThread, NoSwitch,
      WorkerLabels, StartedRuns, RunsLive
  <2>2. RunInv'
    <3>1. RunsWhole'
      <4>1. p \in Hosts => Unrun(p)' /\ state[obj[p]] = "RUNNING"
        BY <1>m, <1>y, <1>v, <2>t DEF ThInv, BatonInv, PostedWhole, Posted, Unrun, Untargeted
      <4>2. \A x \in Procs \ {p} : pc'[x] = pc[x] /\ baton'[x] = baton[x]
        BY <1>y, <1>v, <2>e
      <4> QED  BY <1>m, <1>v, <4>1, <4>2 DEF ThInv, RunInv, RunsWhole, Unrun, Untargeted
    <3>2. FailsWhole'
      BY <1>e, <1>m, <1>y, <1>v, <2>e, <2>l, <2>w DEF ThInv, RunInv, FailsWhole, Failing, Unrun,
        Untargeted
    <3>3. RunsOnItsWorker'
      BY <1>e, <1>m, <1>y, <1>v, <2>e, <2>l, <2>w DEF ThInv, RunInv, RunsOnItsWorker, WorkerCall,
        RunClaim, SelfRun, Failing
    <3>4. ReclaimFails'
      BY <1>e, <1>m, <1>y, <1>v, <2>e, <2>l, <2>w DEF ThInv, RunInv, ReclaimFails
    <3>5. FailsUnposted'
      BY <1>e, <1>m, <1>y, <1>v, <2>e, <2>l, <2>w DEF ThInv, RunInv, FailsUnposted, HasTok
    <3> QED  BY <3>1, <3>2, <3>3, <3>4, <3>5 DEF RunInv
  <2>3. BatonInv'
    BY <1>e, <1>m, <1>y, <1>v, <2>e, <2>l, <2>w DEF ThInv, BatonInv, BatonSuspends, PostedWhole,
      KillSuspends, KillEnds, KilledIsKill, Suspends, Posted, Untargeted
  <2>4. CallInv'
    BY <1>e, <1>m, <1>y, <1>v, <2>e, <2>l, <2>w DEF ThInv, CallInv, CallHasWorker, WorkerOfItself,
      WorkerCall, RunClaim
  <2>5. TokenInv'
    <3>1. scenario' = scenario /\ pc' = [pc EXCEPT ![p] = "guest"]
      BY <1>v, <2>e
    <3> QED  BY <1>m, <2>k, <2>p, <2>t, <2>w, <3>1, TakeToken
  <2>6. CurrentInv'
    <3>1. CurrentHasToken'
      BY <1>e, <1>m, <1>y, <1>v, <2>e, <2>l, <2>w DEF ThInv, CurrentInv, CurrentHasToken, Holds,
        TokOf, Posted, HandsTo, Handing, TokenInv, TokenAlive, HasTok, TokenOnce
    <3>2. HolderCurrent'
      <4>1. p \in Hosts => current[hworker[p]] = p
        BY <1>m, <2>t DEF ThInv, CurrentInv, PostedCurrent
      <4>2. ASSUME NEW x \in Hosts, x # p, pc'[x] \in Holds PROVE current[TokOf(x)'] = x
        <5>1. pc[x] \in Holds /\ HasTok(x)
          BY <1>y, <1>v, <2>e, <4>2 DEF Holds, HasTok
        <5> QED  BY <1>m, <2>k, <5>1 DEF ThInv, CurrentInv, HolderCurrent
      <4> QED  BY <1>v, <2>t, <4>1, <4>2 DEF HolderCurrent, PostOf
    <3>3. PostedCurrent'
      BY <1>e, <1>m, <1>y, <1>v, <2>e, <2>l, <2>w DEF ThInv, CurrentInv, PostedCurrent, Posted,
        TokenInv, PostAlive, PostOf, TokenNotPosted, HasTok, TokOf
    <3>4. HandedCurrent'
      BY <1>e, <1>m, <1>y, <1>v, <2>e, <2>l, <2>w DEF ThInv, CurrentInv, HandedCurrent, CallInv,
        CallHasWorker, WorkerCall, RunClaim
    <3> QED  BY <3>1, <3>2, <3>3, <3>4 DEF CurrentInv
  <2>7. HandInv'
    BY <1>e, <1>m, <1>y, <1>v, <2>e, <2>l, <2>w DEF ThInv, HandInv, HandWorker, PostStarted,
      CreateUnstarted
  <2>8. TcbInv'
    BY <1>e, <1>m, <1>y, <1>v, <2>e, <2>l, <2>w DEF ThInv, TcbInv, TokenTcb, ThreadTcb, PostedTcb,
      HasTok, TokOf, Posted
  <2> QED  BY <2>1, <2>2, <2>3, <2>4, <2>5, <2>6, <2>7, <2>8 DEF ThInv
<1> QED  BY <1>1, <1>2, <1>3, <1>4, <1>5, <1>6, <1>m, <1>v DEF ThreadMode

(* The endpoint posted to was finalized: it ends instead of going on.      *)
LEMMA Step_baton_wait_killed ==
  ASSUME FIInv, NEW p \in Procs, baton_wait(p), p \in Hosts /\ kill[p]
  PROVE  FIInv'
<1> USE SetsAssumption DEF Procs, FIInv, Base
<1>e. PICK e \in Procs : e = cpu[p] /\ pc[e] = "wait"
  BY OnCpu DEF baton_wait, At
<1>m. ThreadMode
  BY <1>e DEF CoInv, NoThreads
<1>y. /\ pc \in [Procs -> Labels]
      /\ baton \in [Procs -> BOOLEAN]
  BY DEF FTypes, TypeOK
<1>v. /\ baton[p]
      /\ pc' = [pc EXCEPT ![e] = "killed"]
      /\ baton' = [baton EXCEPT ![p] = FALSE]
      /\ UNCHANGED <<scenario, state, host, obj, hstat, hworker, started, kill, release, current,
                           wstat, slot, tcb, tgt, wk, scan, cpu, tl, table, nworkers, look>>
  BY <1>e, <1>m, <1>y DEF baton_wait, At, Goto, Done, F, H, W, SelfObj, objvars, hostvars, callvars,
    tabvars
<1>1. FTypes'
  BY <1>e, <1>m, <1>y, <1>v DEF FTypes, TypeOK, Labels
<1>2. ObjectInv'
  BY <1>e, <1>m, <1>y, <1>v DEF ObjectInv, NamedLive, NamedUsed, NamedOnce, UnusedClean, LiveNamed,
    LiveKept
<1>3. ClaimInv'
  BY <1>e, <1>m, <1>y, <1>v DEF ClaimInv, ClaimHasTarget, TargetClaimed, ClaimedOnce, EndedWhole,
    ClearedGone, RunClaim, EndClaim
<1>4. TableInv'
  BY <1>e, <1>m, <1>y, <1>v DEF TableInv, ListedLive, LiveListed, ScanBounded, Publishing, ExitLive,
    NoWorkerNoSlot, WorkerNew, HostLabels
<1>5. LookInv'
  BY <1>e, <1>m, <1>y, <1>v DEF LookInv, OffEmpty, ScansFromOne, HasWorker, WorkerSafe, FiberSafe
<1>6. ThInv'
  <2>e. e = p /\ ThreadInv
    BY <1>e, <1>m, OnCpu DEF ThInv, ThreadInv, OwnThread
  <2>l. \A x \in Hosts : pc[x] \notin {"none", "dead"} => hstat[x] = "live" /\ obj[x] \in Objects
    BY <2>e DEF ThreadInv, RunsLive, ObjectInv, LiveNamed, FTypes, TypeOK
  <2>w. pc[p] = "wait" /\ baton[p] /\ ~HasTok(p)
    BY <1>e, <1>v, <2>e DEF HasTok
  <2>k. TokensKept
    BY <1>e, <1>m, <1>y, <1>v, <2>e, <2>l, <2>w DEF ThInv, TokensKept, HasTok, TokOf, Posted,
      PostOf, RunInv, RunsOnItsWorker, WorkerCall, RunClaim, SelfRun, Failing, BatonInv,
      PostedWhole, Untargeted, Suspends
  <2>1. ThreadInv'
    BY <1>e, <1>m, <1>y, <1>v, <2>e, <2>l, <2>w, <2>k DEF ThInv, ThreadInv, OwnThread, NoSwitch,
      WorkerLabels, StartedRuns, RunsLive
  <2>2. RunInv'
    <3>1. RunsWhole'
      BY <1>e, <1>m, <1>y, <1>v, <2>e, <2>l, <2>w, <2>k DEF ThInv, RunInv, RunsWhole, SelfRun,
        Unrun, Untargeted, TableInv, HostLabels
    <3>2. FailsWhole'
      BY <1>e, <1>m, <1>y, <1>v, <2>e, <2>l, <2>w, <2>k DEF ThInv, RunInv, FailsWhole, Failing,
        Unrun, Untargeted
    <3>3. RunsOnItsWorker'
      BY <1>e, <1>m, <1>y, <1>v, <2>e, <2>l, <2>w, <2>k DEF ThInv, RunInv, RunsOnItsWorker,
        WorkerCall, RunClaim, SelfRun, Failing
    <3>4. ReclaimFails'
      BY <1>e, <1>m, <1>y, <1>v, <2>e, <2>l, <2>w, <2>k DEF ThInv, RunInv, ReclaimFails
    <3>5. FailsUnposted'
      BY <1>e, <1>m, <1>y, <1>v, <2>e, <2>l, <2>w, <2>k DEF ThInv, RunInv, FailsUnposted, HasTok
    <3> QED  BY <3>1, <3>2, <3>3, <3>4, <3>5 DEF RunInv
  <2>3. BatonInv'
    BY <1>e, <1>m, <1>y, <1>v, <2>e, <2>l, <2>w, <2>k DEF ThInv, BatonInv, BatonSuspends,
      PostedWhole, KillSuspends, KillEnds, KilledIsKill, Suspends, Posted, Untargeted
  <2>4. CallInv'
    BY <1>e, <1>m, <1>y, <1>v, <2>e, <2>l, <2>w, <2>k DEF ThInv, CallInv, CallHasWorker,
      WorkerOfItself, WorkerCall, RunClaim
  <2>5. TokenInv'
    BY <1>e, <1>m, <1>y, <1>v, <2>e, <2>l, <2>w, <2>k, KeepTokens
  <2>6. CurrentInv'
    <3>1. \A k \in Hosts : pc'[k] \in Holds <=> pc[k] \in Holds
      BY <1>e, <1>m, <1>y, <1>v, <2>e, <2>l, <2>w, <2>k DEF Holds, TableInv, HostLabels
    <3>2. \A x \in Procs : pc[x] \in Handing => pc'[x] \in Handing /\ host'[tgt'[x]] = host[tgt[x]]
      BY <1>e, <1>m, <1>y, <1>v, <2>e, <2>l, <2>w, <2>k DEF Handing, TableInv, HostLabels
    <3>3. \A x \in Procs : pc'[x] \in {"create", "post"} \/ (x \in Hosts /\ pc'[x] \in {"idle", "ready"}) =>
             wk'[x] = wk[x] /\ (pc[x] \in {"create", "post"} \/ (x \in Hosts /\ pc[x] \in {"idle", "ready"}))
      BY <1>e, <1>m, <1>y, <1>v, <2>e, <2>l, <2>w, <2>k DEF TableInv, HostLabels
    <3> QED  BY <3>1, <3>2, <3>3, <1>m, <1>v, <2>k, KeepCurrent
  <2>7. HandInv'
    BY <1>e, <1>m, <1>y, <1>v, <2>e, <2>l, <2>w, <2>k DEF ThInv, HandInv, HandWorker, PostStarted,
      CreateUnstarted
  <2>8. TcbInv'
    BY <1>e, <1>m, <1>y, <1>v, <2>e, <2>l, <2>w, <2>k DEF ThInv, TcbInv, TokenTcb, ThreadTcb,
      PostedTcb, TokensKept
  <2> QED  BY <2>1, <2>2, <2>3, <2>4, <2>5, <2>6, <2>7, <2>8 DEF ThInv
<1> QED  BY <1>1, <1>2, <1>3, <1>4, <1>5, <1>6, <1>m, <1>v DEF ThreadMode

(* The thread of a finalized fiber frees it when no lookup may read it.    *)
LEMMA Step_host_exit ==
  ASSUME FIInv, NEW p \in Procs, host_exit(p)
  PROVE  FIInv'
<1> USE SetsAssumption DEF Procs, FIInv, Base
<1>e. PICK e \in Procs : e = cpu[p] /\ pc[e] = "killed"
  BY OnCpu DEF host_exit, At
<1>m. ThreadMode
  BY <1>e DEF CoInv, NoThreads
<1>x. e = p /\ p \in Hosts /\ kill[p] /\ hstat[p] = "live" /\ ~baton[p]
  BY <1>e, <1>m, OnCpu DEF ThInv, ThreadInv, OwnThread, WorkerLabels, BatonInv, KilledIsKill,
    KillSuspends, BatonSuspends,
    Suspends
<1>k. \A o \in Objects : host[o] = p => state[o] = "FINALIZED"
  BY <1>m, <1>x DEF ThInv, BatonInv, KillEnds, ObjectInv, NamedLive
<1>z. \A d \in Procs : pc[d] \in RunClaim => tgt[d] \in Objects /\ host[tgt[d]] \in Hosts \ {p}
  BY <1>k, Claimed DEF RunClaim, EndClaim
<1>y. /\ pc \in [Procs -> Labels]
      /\ hstat \in [Hosts -> {"unused", "live", "freed"}]
      /\ obj \in [Hosts -> Objects \cup {None}]
      /\ hworker \in [Hosts -> Workers \cup {None}]
      /\ started \in [Hosts -> BOOLEAN]
      /\ kill \in [Hosts -> BOOLEAN]
  BY DEF FTypes, TypeOK
<1>v. /\ g_lookups = 0
      /\ pc' = [pc EXCEPT ![e] = "dead"]
      /\ hstat' = [hstat EXCEPT ![p] = "freed"]
      /\ obj' = [obj EXCEPT ![p] = None]
      /\ hworker' = [hworker EXCEPT ![p] = None]
      /\ started' = [started EXCEPT ![p] = FALSE]
      /\ kill' = [kill EXCEPT ![p] = FALSE]
      /\ UNCHANGED <<scenario, state, host, release, baton, current, wstat, slot, tcb, tgt, wk,
                           scan, cpu, tl, table, nworkers, look>>
  BY <1>e, <1>m, <1>x, <1>k, <1>z, <1>y DEF host_exit, At, Goto, Done, F, H, W, SelfObj, objvars,
    hostvars, callvars, tabvars, Free
<1>l. \A l \in Lookers : look[l].at = "off" /\ look[l].w = None /\ look[l].h = None
  <2>1. \A l \in Lookers : look[l].at = "off"
    BY <1>v, NoLookups
  <2> QED  BY <2>1 DEF LookInv, OffEmpty
<1>1. FTypes'
  BY <1>e, <1>m, <1>x, <1>k, <1>z, <1>y, <1>v, <1>l DEF FTypes, TypeOK, Labels
<1>2. ObjectInv'
  BY <1>e, <1>m, <1>x, <1>k, <1>z, <1>y, <1>v, <1>l DEF ObjectInv, NamedLive, NamedUsed, NamedOnce,
    UnusedClean, LiveNamed, LiveKept
<1>3. ClaimInv'
  BY <1>e, <1>m, <1>x, <1>k, <1>z, <1>y, <1>v, <1>l DEF ClaimInv, ClaimHasTarget, TargetClaimed,
    ClaimedOnce, EndedWhole, ClearedGone, RunClaim, EndClaim
<1>4. TableInv'
  BY <1>e, <1>m, <1>x, <1>k, <1>z, <1>y, <1>v, <1>l DEF TableInv, ListedLive, LiveListed,
    ScanBounded, Publishing, ExitLive, NoWorkerNoSlot, WorkerNew, HostLabels, FTypes, TypeOK
<1>5. LookInv'
  BY <1>e, <1>m, <1>x, <1>k, <1>z, <1>y, <1>v, <1>l DEF LookInv, OffEmpty, ScansFromOne, HasWorker,
    WorkerSafe, FiberSafe
<1>6. ThInv'
  <2>e. e = p /\ ThreadInv
    BY <1>e, <1>m, OnCpu DEF ThInv, ThreadInv, OwnThread
  <2>l. \A x \in Hosts : pc[x] \notin {"none", "dead"} => hstat[x] = "live" /\ obj[x] \in Objects
    BY <2>e DEF ThreadInv, RunsLive, ObjectInv, LiveNamed, FTypes, TypeOK
  <2>k. TokensKept
    BY <1>e, <1>m, <1>x, <1>k, <1>z, <1>y, <1>v, <1>l, <2>e, <2>l DEF ThInv, TokensKept, HasTok,
      TokOf, Posted, PostOf, RunInv, RunsOnItsWorker, WorkerCall, RunClaim, SelfRun, Failing,
      BatonInv, PostedWhole, Untargeted, Suspends
  <2>1. ThreadInv'
    BY <1>e, <1>m, <1>x, <1>k, <1>z, <1>y, <1>v, <1>l, <2>e, <2>l, <2>k DEF ThInv, ThreadInv,
      OwnThread, NoSwitch, WorkerLabels, StartedRuns, RunsLive
  <2>2. RunInv'
    BY <1>e, <1>m, <1>x, <1>k, <1>z, <1>y, <1>v, <1>l, <2>e, <2>l, <2>k DEF ThInv, RunInv,
      RunsWhole, FailsWhole, RunsOnItsWorker, ReclaimFails, FailsUnposted, SelfRun, Unrun,
      Untargeted, Failing, WorkerCall, RunClaim, HasTok
  <2>3. BatonInv'
    BY <1>e, <1>m, <1>x, <1>k, <1>z, <1>y, <1>v, <1>l, <2>e, <2>l, <2>k DEF ThInv, BatonInv,
      BatonSuspends, PostedWhole, KillSuspends, KillEnds, KilledIsKill, Suspends, Posted, Untargeted
  <2>4. CallInv'
    BY <1>e, <1>m, <1>x, <1>k, <1>z, <1>y, <1>v, <1>l, <2>e, <2>l, <2>k DEF ThInv, CallInv,
      CallHasWorker, WorkerOfItself, WorkerCall, RunClaim
  <2>5. TokenInv'
    BY <1>e, <1>m, <1>x, <1>k, <1>z, <1>y, <1>v, <1>l, <2>e, <2>l, <2>k, KeepTokens
  <2>6. CurrentInv'
    <3>1. \A k \in Hosts : pc'[k] \in Holds <=> pc[k] \in Holds
      BY <1>e, <1>m, <1>x, <1>k, <1>z, <1>y, <1>v, <1>l, <2>e, <2>l, <2>k DEF Holds, TableInv,
        HostLabels
    <3>2. \A x \in Procs : pc[x] \in Handing => pc'[x] \in Handing /\ host'[tgt'[x]] = host[tgt[x]]
      BY <1>e, <1>m, <1>x, <1>k, <1>z, <1>y, <1>v, <1>l, <2>e, <2>l, <2>k DEF Handing, TableInv,
        HostLabels
    <3>3. \A x \in Procs : pc'[x] \in {"create", "post"} \/ (x \in Hosts /\ pc'[x] \in {"idle", "ready"}) =>
             wk'[x] = wk[x] /\ (pc[x] \in {"create", "post"} \/ (x \in Hosts /\ pc[x] \in {"idle", "ready"}))
      BY <1>e, <1>m, <1>x, <1>k, <1>z, <1>y, <1>v, <1>l, <2>e, <2>l, <2>k DEF TableInv, HostLabels
    <3> QED  BY <3>1, <3>2, <3>3, <1>m, <1>v, <2>k, KeepCurrent
  <2>7. HandInv'
    <3>1. HandWorker'
      BY <1>e, <1>m, <1>x, <1>k, <1>z, <1>y, <1>v, <1>l, <2>e, <2>l, <2>k DEF ThInv, HandInv,
        HandWorker, ClaimInv, ClaimHasTarget, RunClaim, EndClaim, TargetClaimed, ClaimedOnce,
        ObjectInv, NamedOnce
    <3>2. PostStarted'
      BY <1>m, <1>x, <1>y, <1>v, <1>z DEF ThInv, HandInv, PostStarted, RunClaim
    <3>3. CreateUnstarted'
      BY <1>e, <1>m, <1>x, <1>k, <1>z, <1>y, <1>v, <1>l, <2>e, <2>l, <2>k DEF ThInv, HandInv,
        CreateUnstarted
    <3> QED  BY <3>1, <3>2, <3>3 DEF HandInv
  <2>8. TcbInv'
    <3>1. TokenTcb'
      BY <1>e, <1>m, <1>x, <1>k, <1>z, <1>y, <1>v, <1>l, <2>e, <2>l, <2>k DEF ThInv, TcbInv,
        TokenTcb, TokenInv, TokenAlive, TokenOnce, TokensKept
    <3>2. ThreadTcb'
      BY <1>e, <1>m, <1>x, <1>k, <1>z, <1>y, <1>v, <1>l, <2>e, <2>l, <2>k DEF ThInv, TcbInv,
        ThreadTcb, TokenInv, TokenOnce, TokensKept
    <3>3. PostedTcb'
      BY <1>m, <1>x, <1>y, <1>v, <2>k DEF ThInv, TcbInv, PostedTcb, TokensKept, Posted
    <3> QED  BY <3>1, <3>2, <3>3 DEF TcbInv
  <2> QED  BY <2>1, <2>2, <2>3, <2>4, <2>5, <2>6, <2>7, <2>8 DEF ThInv
<1> QED  BY <1>1, <1>2, <1>3, <1>4, <1>5, <1>6, <1>m, <1>v DEF ThreadMode

(* A fiber that has a thread is freed by it.                               *)
LEMMA Step_finalize_kill ==
  ASSUME FailsAlone, FIInv, NEW p \in Procs, finalize_kill(p)
  PROVE  FIInv'
<1> USE SetsAssumption DEF Procs, FIInv, Base
<1>e. PICK e \in Procs : e = cpu[p] /\ pc[e] = "finalize"
  BY OnCpu DEF finalize_kill, At
<1>t. PICK o \in Objects, h \in Hosts :
        /\ o = tgt[e] /\ h = host[o] /\ (\A d \in Procs : tgt[d] = o => d = e) /\ (\A x \in Objects : host[x] = h => x = o)
        /\ state[o] = "FINALIZED" /\ hstat[h] = "live" /\ obj[h] = o /\ ~kill[h]
  BY <1>e, Claimed DEF RunClaim, EndClaim, ClaimInv, EndedWhole
<1>m. ThreadMode
  BY <1>e, <1>t DEF finalize_kill, H, CoInv, NoThreads
<1>y. /\ pc \in [Procs -> Labels]
      /\ kill \in [Hosts -> BOOLEAN]
      /\ baton \in [Procs -> BOOLEAN]
  BY DEF FTypes, TypeOK
<1>v. /\ started[h]
      /\ pc' = [pc EXCEPT ![e] = "clear"]
      /\ kill' = [kill EXCEPT ![h] = TRUE]
      /\ baton' = [baton EXCEPT ![h] = TRUE]
      /\ UNCHANGED <<scenario, state, host, obj, hstat, hworker, started, release, current, wstat,
                           slot, tcb, tgt, wk, scan, cpu, tl, table, nworkers, look>>
  BY <1>e, <1>t, <1>m, <1>y DEF finalize_kill, At, Goto, Done, F, H, W, SelfObj, objvars, hostvars,
    callvars, tabvars
<1>1. FTypes'
  BY <1>e, <1>t, <1>m, <1>y, <1>v DEF FTypes, TypeOK, Labels
<1>2. ObjectInv'
  BY <1>e, <1>t, <1>m, <1>y, <1>v DEF ObjectInv, NamedLive, NamedUsed, NamedOnce, UnusedClean,
    LiveNamed, LiveKept
<1>3. ClaimInv'
  <2>1. ClaimHasTarget'
    BY <1>e, <1>t, <1>m, <1>y, <1>v DEF ClaimInv, ClaimHasTarget, RunClaim, EndClaim
  <2>2. TargetClaimed'
    BY <1>e, <1>t, <1>m, <1>y, <1>v DEF ClaimInv, TargetClaimed, RunClaim, EndClaim, ClaimHasTarget
  <2>3. ClaimedOnce'
    BY <1>e, <1>t, <1>m, <1>y, <1>v DEF ClaimInv, ClaimedOnce
  <2>4. EndedWhole'
    BY <1>e, <1>t, <1>m, <1>y, <1>v DEF ClaimInv, EndedWhole, ClaimHasTarget, RunClaim, EndClaim,
      ClaimedOnce, TargetClaimed
  <2>5. ClearedGone'
    BY <1>e, <1>t, <1>m, <1>y, <1>v DEF ClaimInv, ClearedGone, ClaimHasTarget, RunClaim, EndClaim,
      TargetClaimed
  <2> QED  BY <2>1, <2>2, <2>3, <2>4, <2>5 DEF ClaimInv
<1>4. TableInv'
  BY <1>e, <1>t, <1>m, <1>y, <1>v DEF TableInv, ListedLive, LiveListed, ScanBounded, Publishing,
    ExitLive, NoWorkerNoSlot, WorkerNew, HostLabels
<1>5. LookInv'
  BY <1>e, <1>t, <1>m, <1>y, <1>v DEF LookInv, OffEmpty, ScansFromOne, HasWorker, WorkerSafe,
    FiberSafe
<1>6. ThInv'
  <2>e. e = p /\ ThreadInv /\ HasTok(e)
    BY <1>e, <1>m, OnCpu DEF ThInv, ThreadInv, OwnThread, HasTok
  <2>l. \A x \in Hosts : pc[x] \notin {"none", "dead"} => hstat[x] = "live" /\ obj[x] \in Objects
    BY <2>e DEF ThreadInv, RunsLive, ObjectInv, LiveNamed, FTypes, TypeOK
  <2>f. \A x \in Hosts : Failing(x) => x = e
    BY <1>m, <2>e, OnlyFailing
  <2>h. pc[h] \in Suspends \cup {"none", "dead", "killed"} /\ ~Failing(h) /\ ~Posted(h)
    BY <1>m, <1>t, ClaimedWaits
  <2>n. pc[h] \in Suspends /\ h # e
    BY <1>e, <1>m, <1>t, <1>v, <2>h DEF ThInv, ThreadInv, StartedRuns, BatonInv, KilledIsKill, Suspends
  <2>p. \A x \in Procs \ {e} : pc'[x] = pc[x]
    BY <1>y, <1>v
  <2>q. \A x \in Hosts \ {h} : kill'[x] = kill[x] /\ baton'[x] = baton[x]
    BY <1>y, <1>v
  <2>k. TokensKept
    BY <1>e, <1>t, <1>m, <1>y, <1>v, <2>e, <2>l, <2>f, <2>h DEF ThInv, TokensKept, HasTok, TokOf,
      Posted, PostOf, RunInv, RunsOnItsWorker, WorkerCall, RunClaim, SelfRun, Failing, BatonInv,
      PostedWhole, Untargeted, Suspends
  <2>1. ThreadInv'
    BY <1>e, <1>t, <1>m, <1>y, <1>v, <2>e, <2>l, <2>f, <2>h, <2>k DEF ThInv, ThreadInv, OwnThread,
      NoSwitch, WorkerLabels, StartedRuns, RunsLive
  <2>2. RunInv'
    <3>1. RunsWhole'
      BY <1>e, <1>t, <1>m, <1>y, <1>v, <2>e, <2>l, <2>f, <2>h, <2>k DEF ThInv, RunInv, RunsWhole,
        SelfRun, Unrun, Untargeted, TableInv, HostLabels
    <3>2. FailsWhole'
      BY <1>e, <1>t, <1>m, <1>y, <1>v, <2>e, <2>l, <2>f, <2>h, <2>k DEF ThInv, RunInv, FailsWhole,
        Failing, Unrun, Untargeted
    <3>3. RunsOnItsWorker'
      BY <1>e, <1>t, <1>m, <1>y, <1>v, <2>e, <2>l, <2>f, <2>h, <2>k DEF ThInv, RunInv,
        RunsOnItsWorker, WorkerCall, RunClaim, SelfRun, Failing
    <3>4. ReclaimFails'
      BY <1>e, <1>t, <1>m, <1>y, <1>v, <2>e, <2>l, <2>f, <2>h, <2>k DEF ThInv, RunInv, ReclaimFails
    <3>5. FailsUnposted'
      <4> SUFFICES ASSUME NEW x \in Hosts, scenario.create_fails, HasTok(x)' PROVE ~kill'[x] /\ ~baton'[x]
        BY <1>v DEF FailsUnposted
      <4>1. HasTok(x)
        BY <2>e, <2>p DEF HasTok
      <4>2. x = e
        BY <1>m, <2>e, <4>1, OnlyRunning
      <4> QED  BY <1>m, <2>n, <2>q, <4>1, <4>2 DEF ThInv, RunInv, FailsUnposted
    <3> QED  BY <3>1, <3>2, <3>3, <3>4, <3>5 DEF RunInv
  <2>3. BatonInv'
    <3>1. BatonSuspends'
      <4>1. \A x \in Hosts \ {h} : baton[x] => x # e
        BY <1>e, <1>m DEF ThInv, BatonInv, BatonSuspends, Suspends
      <4> QED  BY <1>m, <2>n, <2>p, <2>q, <4>1 DEF ThInv, BatonInv, BatonSuspends
    <3>2. PostedWhole'
      BY <1>e, <1>t, <1>m, <1>y, <1>v, <2>e, <2>l, <2>f, <2>h, <2>k DEF ThInv, BatonInv,
        PostedWhole, Posted, Untargeted, BatonSuspends, Suspends
    <3>3. KillSuspends'
      <4>1. \A x \in Hosts \ {h} : kill[x] => x # e
        BY <1>e, <1>m DEF ThInv, BatonInv, KillSuspends, Suspends
      <4> QED  BY <1>m, <1>t, <1>v, <2>n, <2>p, <2>q, <4>1 DEF ThInv, BatonInv, KillSuspends
    <3>4. KillEnds'
      BY <1>e, <1>t, <1>m, <1>y, <1>v, <2>e, <2>l, <2>f, <2>h, <2>k DEF ThInv, BatonInv, KillEnds,
        KillSuspends, Suspends
    <3>5. KilledIsKill'
      BY <1>e, <1>t, <1>m, <1>y, <1>v, <2>e, <2>l, <2>f, <2>h, <2>k DEF ThInv, BatonInv,
        KilledIsKill
    <3> QED  BY <3>1, <3>2, <3>3, <3>4, <3>5 DEF BatonInv
  <2>4. CallInv'
    BY <1>e, <1>t, <1>m, <1>y, <1>v, <2>e, <2>l, <2>f, <2>h, <2>k DEF ThInv, CallInv, CallHasWorker,
      WorkerOfItself, WorkerCall, RunClaim
  <2>5. TokenInv'
    BY <1>e, <1>t, <1>m, <1>y, <1>v, <2>e, <2>l, <2>f, <2>h, <2>k, KeepTokens
  <2>6. CurrentInv'
    <3>1. \A k \in Hosts : pc'[k] \in Holds <=> pc[k] \in Holds
      BY <1>e, <1>t, <1>m, <1>y, <1>v, <2>e, <2>l, <2>f, <2>h, <2>k DEF Holds, TableInv, HostLabels
    <3>2. \A x \in Procs : pc[x] \in Handing => pc'[x] \in Handing /\ host'[tgt'[x]] = host[tgt[x]]
      BY <1>e, <1>t, <1>m, <1>y, <1>v, <2>e, <2>l, <2>f, <2>h, <2>k DEF Handing, TableInv,
        HostLabels
    <3>3. \A x \in Procs : pc'[x] \in {"create", "post"} \/ (x \in Hosts /\ pc'[x] \in {"idle", "ready"}) =>
             wk'[x] = wk[x] /\ (pc[x] \in {"create", "post"} \/ (x \in Hosts /\ pc[x] \in {"idle", "ready"}))
      BY <1>e, <1>t, <1>m, <1>y, <1>v, <2>e, <2>l, <2>f, <2>h, <2>k DEF TableInv, HostLabels
    <3> QED  BY <3>1, <3>2, <3>3, <1>m, <1>v, <2>k, KeepCurrent
  <2>7. HandInv'
    BY <1>e, <1>t, <1>m, <1>y, <1>v, <2>e, <2>l, <2>f, <2>h, <2>k DEF ThInv, HandInv, HandWorker,
      PostStarted, CreateUnstarted
  <2>8. TcbInv'
    <3>1. TokenTcb'
      BY <1>e, <1>t, <1>m, <1>y, <1>v, <2>e, <2>l, <2>f, <2>h, <2>k DEF ThInv, TcbInv, TokenTcb,
        TokenInv, TokenAlive, TokenOnce, TokensKept
    <3>2. ThreadTcb'
      BY <1>e, <1>t, <1>m, <1>y, <1>v, <2>e, <2>l, <2>f, <2>h, <2>k DEF ThInv, TcbInv, ThreadTcb,
        TokenInv, TokenOnce, TokensKept
    <3>3. PostedTcb'
      BY <1>e, <1>t, <1>m, <1>y, <1>v, <2>e, <2>l, <2>f, <2>h, <2>k DEF ThInv, TcbInv, PostedTcb,
        TokenInv, TokenNotPosted, TokensKept
    <3> QED  BY <3>1, <3>2, <3>3 DEF TcbInv
  <2> QED  BY <2>1, <2>2, <2>3, <2>4, <2>5, <2>6, <2>7, <2>8 DEF ThInv
<1> QED  BY <1>1, <1>2, <1>3, <1>4, <1>5, <1>6, <1>m, <1>v DEF ThreadMode

(* A fiber without a thread is freed at once, when no lookup may read it.  *)
LEMMA Step_fiber_free_host ==
  ASSUME FailsAlone, FIInv, NEW p \in Procs, fiber_free_host(p)
  PROVE  FIInv'
<1> USE SetsAssumption DEF Procs, FIInv, Base
<1>e. PICK e \in Procs : e = cpu[p] /\ pc[e] = "finalize"
  BY OnCpu DEF fiber_free_host, At
<1>t. PICK o \in Objects, h \in Hosts :
        /\ o = tgt[e] /\ h = host[o] /\ (\A d \in Procs : tgt[d] = o => d = e) /\ (\A x \in Objects : host[x] = h => x = o)
        /\ state[o] = "FINALIZED" /\ hstat[h] = "live" /\ obj[h] = o /\ ~kill[h]
  BY <1>e, Claimed DEF RunClaim, EndClaim, ClaimInv, EndedWhole
<1>k. \A d \in Procs : d # e /\ pc[d] \in EndClaim \cup RunClaim => tgt[d] \in Objects /\ host[tgt[d]] \in Hosts \ {h}
  BY <1>t DEF ClaimInv, ClaimHasTarget, TargetClaimed, FTypes, TypeOK
<1>y. /\ pc \in [Procs -> Labels]
      /\ hstat \in [Hosts -> {"unused", "live", "freed"}]
      /\ obj \in [Hosts -> Objects \cup {None}]
      /\ hworker \in [Hosts -> Workers \cup {None}]
      /\ started \in [Hosts -> BOOLEAN]
      /\ kill \in [Hosts -> BOOLEAN]
  BY DEF FTypes, TypeOK
<1>v. /\ ~started[h]
      /\ g_lookups = 0
      /\ pc' = [pc EXCEPT ![e] = "clear"]
      /\ hstat' = [hstat EXCEPT ![h] = "freed"]
      /\ obj' = [obj EXCEPT ![h] = None]
      /\ hworker' = [hworker EXCEPT ![h] = None]
      /\ started' = [started EXCEPT ![h] = FALSE]
      /\ kill' = [kill EXCEPT ![h] = FALSE]
      /\ UNCHANGED <<scenario, state, host, release, baton, current, wstat, slot, tcb, tgt, wk,
                           scan, cpu, tl, table, nworkers, look>>
  BY <1>e, <1>t, <1>k, <1>y DEF fiber_free_host, At, Goto, Done, F, H, W, SelfObj, objvars,
    hostvars, callvars, tabvars, Free
<1>l. \A l \in Lookers : look[l].at = "off" /\ look[l].w = None /\ look[l].h = None
  <2>1. \A l \in Lookers : look[l].at = "off"
    BY <1>v, NoLookups
  <2> QED  BY <2>1 DEF LookInv, OffEmpty
<1>1. FTypes'
  BY <1>e, <1>t, <1>k, <1>y, <1>v, <1>l DEF FTypes, TypeOK, Labels
<1>2. ObjectInv'
  <2>1. NamedLive'
    BY <1>e, <1>t, <1>k, <1>y, <1>v, <1>l DEF ObjectInv, NamedLive
  <2>2. NamedUsed'
    BY <1>e, <1>t, <1>k, <1>y, <1>v, <1>l DEF ObjectInv, NamedUsed
  <2>3. NamedOnce'
    BY <1>e, <1>t, <1>k, <1>y, <1>v, <1>l DEF ObjectInv, NamedOnce
  <2>4. UnusedClean'
    BY <1>e, <1>t, <1>k, <1>y, <1>v, <1>l DEF ObjectInv, UnusedClean
  <2>5. LiveNamed'
    BY <1>e, <1>t, <1>k, <1>y, <1>v, <1>l DEF ObjectInv, LiveNamed
  <2>6. LiveKept'
    BY <1>e, <1>t, <1>k, <1>y, <1>v, <1>l DEF ObjectInv, LiveKept
  <2> QED  BY <2>1, <2>2, <2>3, <2>4, <2>5, <2>6 DEF ObjectInv
<1>3. ClaimInv'
  <2>1. ClaimHasTarget'
    BY <1>e, <1>t, <1>k, <1>y, <1>v, <1>l DEF ClaimInv, ClaimHasTarget, RunClaim, EndClaim
  <2>2. TargetClaimed'
    BY <1>e, <1>t, <1>k, <1>y, <1>v, <1>l DEF ClaimInv, TargetClaimed, RunClaim, EndClaim,
      ClaimHasTarget
  <2>3. ClaimedOnce'
    BY <1>e, <1>t, <1>k, <1>y, <1>v, <1>l DEF ClaimInv, ClaimedOnce
  <2>4. EndedWhole'
    BY <1>e, <1>t, <1>k, <1>y, <1>v, <1>l DEF ClaimInv, EndedWhole, ClaimHasTarget, RunClaim,
      EndClaim, ClaimedOnce, TargetClaimed
  <2>5. ClearedGone'
    BY <1>e, <1>t, <1>k, <1>y, <1>v, <1>l DEF ClaimInv, ClearedGone, ClaimHasTarget, RunClaim,
      EndClaim, TargetClaimed
  <2> QED  BY <2>1, <2>2, <2>3, <2>4, <2>5 DEF ClaimInv
<1>4. TableInv'
  <2>1. ListedLive'
    BY <1>e, <1>t, <1>k, <1>y, <1>v, <1>l DEF TableInv, ListedLive
  <2>2. LiveListed'
    BY <1>e, <1>t, <1>k, <1>y, <1>v, <1>l DEF TableInv, LiveListed
  <2>3. ScanBounded'
    BY <1>e, <1>t, <1>k, <1>y, <1>v, <1>l DEF TableInv, ScanBounded
  <2>4. Publishing'
    BY <1>e, <1>t, <1>k, <1>y, <1>v, <1>l DEF TableInv, Publishing
  <2>5. ExitLive'
    BY <1>e, <1>t, <1>k, <1>y, <1>v, <1>l DEF TableInv, ExitLive
  <2>6. NoWorkerNoSlot'
    BY <1>e, <1>t, <1>k, <1>y, <1>v, <1>l DEF TableInv, NoWorkerNoSlot
  <2>7. WorkerNew'
    BY <1>e, <1>t, <1>k, <1>y, <1>v, <1>l DEF TableInv, WorkerNew
  <2>8. HostLabels'
    BY <1>e, <1>t, <1>k, <1>y, <1>v, <1>l DEF TableInv, HostLabels
  <2> QED  BY <2>1, <2>2, <2>3, <2>4, <2>5, <2>6, <2>7, <2>8 DEF TableInv
<1>5. LookInv'
  BY <1>e, <1>t, <1>k, <1>y, <1>v, <1>l DEF LookInv, OffEmpty, ScansFromOne, HasWorker, WorkerSafe,
    FiberSafe
<1>6. ASSUME ThreadMode PROVE ThInv'
  <2>e. e = p /\ ThreadInv /\ HasTok(e)
    BY <1>e, <1>6, OnCpu DEF ThInv, ThreadInv, OwnThread, HasTok
  <2>l. \A x \in Hosts : pc[x] \notin {"none", "dead"} => hstat[x] = "live" /\ obj[x] \in Objects
    BY <2>e DEF ThreadInv, RunsLive, ObjectInv, LiveNamed, FTypes, TypeOK
  <2>f. \A x \in Hosts : Failing(x) => x = e
    BY <1>6, <2>e, OnlyFailing
  <2>h. pc[h] \in Suspends \cup {"none", "dead", "killed"} /\ ~Failing(h) /\ ~Posted(h)
    BY <1>6, <1>t, ClaimedWaits
  <2>n. pc[h] \in {"none", "dead"} /\ ~baton[h] /\ ~kill[h]
    BY <1>6, <1>t, <1>v, <2>e DEF ThInv, ThreadInv, StartedRuns, BatonInv, BatonSuspends, Suspends
  <2>k. TokensKept
    BY <1>6, <1>e, <1>t, <1>k, <1>y, <1>v, <1>l, <2>e, <2>l, <2>f, <2>h, <2>n DEF ThInv, TokensKept,
      HasTok, TokOf, Posted, PostOf, RunInv, RunsOnItsWorker, WorkerCall, RunClaim, SelfRun,
      Failing, BatonInv, PostedWhole, Untargeted, Suspends
  <2>1. ThreadInv'
    BY <1>6, <1>e, <1>t, <1>k, <1>y, <1>v, <1>l, <2>e, <2>l, <2>f, <2>h, <2>n, <2>k DEF ThInv,
      ThreadInv, OwnThread, NoSwitch, WorkerLabels, StartedRuns, RunsLive
  <2>2. RunInv'
    BY <1>6, <1>e, <1>t, <1>k, <1>y, <1>v, <1>l, <2>e, <2>l, <2>f, <2>h, <2>n, <2>k DEF ThInv,
      RunInv, RunsWhole, FailsWhole, RunsOnItsWorker, ReclaimFails, FailsUnposted, SelfRun, Unrun,
      Untargeted, Failing, WorkerCall, RunClaim, HasTok
  <2>3. BatonInv'
    <3>1. BatonSuspends'
      BY <1>6, <1>e, <1>t, <1>k, <1>y, <1>v, <1>l, <2>e, <2>l, <2>f, <2>h, <2>n, <2>k DEF ThInv,
        BatonInv, BatonSuspends, Suspends
    <3>2. PostedWhole'
      BY <1>6, <1>e, <1>t, <1>k, <1>y, <1>v, <1>l, <2>e, <2>l, <2>f, <2>h, <2>n, <2>k DEF ThInv,
        BatonInv, PostedWhole, Posted, Untargeted, BatonSuspends, Suspends
    <3>3. KillSuspends'
      BY <1>6, <1>e, <1>t, <1>k, <1>y, <1>v, <1>l, <2>e, <2>l, <2>f, <2>h, <2>n, <2>k DEF ThInv,
        BatonInv, KillSuspends, Suspends
    <3>4. KillEnds'
      BY <1>6, <1>e, <1>t, <1>k, <1>y, <1>v, <1>l, <2>e, <2>l, <2>f, <2>h, <2>n, <2>k DEF ThInv,
        BatonInv, KillEnds, KillSuspends, Suspends
    <3>5. KilledIsKill'
      BY <1>6, <1>e, <1>t, <1>k, <1>y, <1>v, <1>l, <2>e, <2>l, <2>f, <2>h, <2>n, <2>k DEF ThInv,
        BatonInv, KilledIsKill
    <3> QED  BY <3>1, <3>2, <3>3, <3>4, <3>5 DEF BatonInv
  <2>4. CallInv'
    BY <1>6, <1>e, <1>t, <1>k, <1>y, <1>v, <1>l, <2>e, <2>l, <2>f, <2>h, <2>n, <2>k DEF ThInv,
      CallInv, CallHasWorker, WorkerOfItself, WorkerCall, RunClaim
  <2>5. TokenInv'
    BY <1>6, <1>e, <1>t, <1>k, <1>y, <1>v, <1>l, <2>e, <2>l, <2>f, <2>h, <2>n, <2>k, KeepTokens
  <2>6. CurrentInv'
    <3>1. \A k \in Hosts : pc'[k] \in Holds <=> pc[k] \in Holds
      BY <1>6, <1>e, <1>t, <1>k, <1>y, <1>v, <1>l, <2>e, <2>l, <2>f, <2>h, <2>n, <2>k DEF Holds,
        TableInv, HostLabels
    <3>2. \A x \in Procs : pc[x] \in Handing => pc'[x] \in Handing /\ host'[tgt'[x]] = host[tgt[x]]
      BY <1>6, <1>e, <1>t, <1>k, <1>y, <1>v, <1>l, <2>e, <2>l, <2>f, <2>h, <2>n, <2>k DEF Handing,
        TableInv, HostLabels
    <3>3. \A x \in Procs : pc'[x] \in {"create", "post"} \/ (x \in Hosts /\ pc'[x] \in {"idle", "ready"}) =>
             wk'[x] = wk[x] /\ (pc[x] \in {"create", "post"} \/ (x \in Hosts /\ pc[x] \in {"idle", "ready"}))
      BY <1>6, <1>e, <1>t, <1>k, <1>y, <1>v, <1>l, <2>e, <2>l, <2>f, <2>h, <2>n, <2>k DEF TableInv,
        HostLabels
    <3> QED  BY <3>1, <3>2, <3>3, <1>6, <1>v, <2>k, KeepCurrent
  <2>7. HandInv'
    <3>1. HandWorker'
      BY <1>6, <1>e, <1>t, <1>k, <1>y, <1>v, <1>l, <2>e, <2>l, <2>f, <2>h, <2>n, <2>k DEF ThInv,
        HandInv, HandWorker, ClaimInv, ClaimHasTarget, RunClaim, EndClaim, TargetClaimed,
        ClaimedOnce, ObjectInv, NamedOnce
    <3>2. PostStarted'
      BY <1>6, <1>e, <1>t, <1>k, <1>y, <1>v, <1>l, <2>e, <2>l, <2>f, <2>h, <2>n, <2>k DEF ThInv,
        HandInv, PostStarted
    <3>3. CreateUnstarted'
      BY <1>6, <1>e, <1>t, <1>k, <1>y, <1>v, <1>l, <2>e, <2>l, <2>f, <2>h, <2>n, <2>k DEF ThInv,
        HandInv, CreateUnstarted
    <3> QED  BY <3>1, <3>2, <3>3 DEF HandInv
  <2>8. TcbInv'
    <3>1. TokenTcb'
      BY <1>6, <1>e, <1>t, <1>k, <1>y, <1>v, <1>l, <2>e, <2>l, <2>f, <2>h, <2>n, <2>k DEF ThInv,
        TcbInv, TokenTcb, TokenInv, TokenAlive, TokenOnce, TokensKept
    <3>2. ThreadTcb'
      BY <1>6, <1>e, <1>t, <1>k, <1>y, <1>v, <1>l, <2>e, <2>l, <2>f, <2>h, <2>n, <2>k DEF ThInv,
        TcbInv, ThreadTcb, TokenInv, TokenOnce, TokensKept
    <3>3. PostedTcb'
      BY <1>6, <1>e, <1>t, <1>k, <1>y, <1>v, <1>l, <2>e, <2>l, <2>f, <2>h, <2>n, <2>k DEF ThInv,
        TcbInv, PostedTcb, TokenInv, TokenNotPosted, TokensKept
    <3> QED  BY <3>1, <3>2, <3>3 DEF TcbInv
  <2> QED  BY <2>1, <2>2, <2>3, <2>4, <2>5, <2>6, <2>7, <2>8 DEF ThInv
<1>7. ASSUME ~ThreadMode PROVE CoInv'
  <2>e. /\ p \in Workers /\ e \in Hosts \cup {p} /\ (\A w \in Workers : cpu[w] \in Procs /\ (cpu[w] = e => w = p))
        /\ e = IF tl[p] = None THEN p ELSE tl[p]
    BY <1>e, <1>7, OnCpu DEF CoInv, CpuInv, WorkersOn, StackOnce, OnTarget, Target
  <2>h. (\A w \in Workers : tl[w] # h) /\ (\A d \in Procs : release[d] # o) /\ (\A w \in Workers : cpu[w] # h)
    BY <1>e, <1>7, <1>t, ClaimedOff DEF RunClaim, EndClaim
  <2>i. \A x \in Hosts \ {h} : hworker'[x] = hworker[x] /\ hstat'[x] = hstat[x] /\ obj'[x] = obj[x]
    BY <1>y, <1>v
  <2>s. \A w \in Workers : tl[w] # None => tl[w] \in Hosts \ {h}
    BY <2>h DEF FTypes, TypeOK
  <2>c. pc'[e] = "clear" /\ \A x \in Procs \ {e} : pc'[x] = pc[x]
    BY <1>y, <1>v
  <2>1. CpuInv'
    <3>1. HostsOff'
      BY <1>7, <1>e, <1>y, <1>v, <2>e DEF CoInv, CpuInv, HostsOff
    <3>2. WorkersOn'
      BY <1>7, <1>e, <1>y, <1>v, <2>e DEF CoInv, CpuInv, WorkersOn
    <3>3. LeftFinishes'
      BY <1>7, <1>e, <1>y, <1>v, <2>e DEF CoInv, CpuInv, LeftFinishes
    <3>4. ThreadFinishes'
      BY <1>7, <1>e, <1>y, <1>v, <2>e DEF CoInv, CpuInv, ThreadFinishes
    <3>5. StackOnce'
      BY <1>7, <1>e, <1>y, <1>v, <2>e DEF CoInv, CpuInv, StackOnce
    <3>6. OnTarget'
      BY <1>7, <1>e, <1>y, <1>v, <2>e DEF CoInv, CpuInv, OnTarget, Target
    <3>7. LeavesForFiber'
      BY <1>7, <1>e, <1>y, <1>v, <2>e DEF CoInv, CpuInv, LeavesForFiber
    <3> QED  BY <3>1, <3>2, <3>3, <3>4, <3>5, <3>6, <3>7 DEF CpuInv
  <2>2. SelfInv'
    <3>1. SelfWhole'
      BY <1>7, <1>v, <2>i, <2>s DEF CoInv, SelfInv, SelfWhole, Whole
    <3>2. CallWorker'
      BY <1>7, <1>e, <1>v, <2>e, <2>c DEF CoInv, SelfInv, CallWorker, WorkerCall, RunClaim
    <3>3. CurrentSelf'
      BY <1>7, <1>e, <1>v, <2>e, <2>c DEF CoInv, SelfInv, CurrentSelf
    <3>4. TcbCurrent'
      BY <1>7, <1>v DEF CoInv, SelfInv, TcbCurrent
    <3>5. SelfState'
      BY <1>7, <1>e, <1>v, <2>e, <2>c, <2>i, <2>s DEF CoInv, SelfInv, SelfState
    <3> QED  BY <3>1, <3>2, <3>3, <3>4, <3>5 DEF SelfInv
  <2>3. ReleaseInv'
    <3>1. \A x \in Procs : (pc'[x] = "switch" <=> pc[x] = "switch") /\ (pc'[x] = "finish" <=> pc[x] = "finish")
      BY <1>e, <2>c
    <3>2. \A x \in Hosts : Whole(x) /\ state[obj[x]] = "SUSPENDING" => hstat'[x] = "live" /\ obj'[x] = obj[x]
      BY <1>t, <2>i DEF Whole
    <3> QED  BY <1>7, <1>v, <3>1, <3>2, KeepReleases
  <2>4. EnterInv'
    BY <1>7, <1>e, <1>v, <2>e, <2>c DEF CoInv, EnterInv, EntersOther, EntersTarget
  <2>5. NoThreads'
    BY <1>7, <1>e, <1>t, <1>k, <1>y, <1>v, <1>l, <2>e, <2>h DEF CoInv, NoThreads
  <2> QED  BY <2>1, <2>2, <2>3, <2>4, <2>5 DEF CoInv
<1> QED  BY <1>1, <1>2, <1>3, <1>4, <1>5, <1>6, <1>7, <1>v DEF ThreadMode

(* The memory of the object is the guest's again.                          *)
LEMMA Step_finalize_clear ==
  ASSUME FailsAlone, FIInv, NEW p \in Procs, finalize_clear(p)
  PROVE  FIInv'
<1> USE SetsAssumption DEF Procs, FIInv, Base
<1>e. PICK e \in Procs : e = cpu[p] /\ pc[e] = "clear"
  BY OnCpu DEF finalize_clear, At
<1>t. PICK o \in Objects, h \in Hosts :
        /\ o = tgt[e] /\ h = host[o] /\ (\A d \in Procs : tgt[d] = o => d = e) /\ (\A x \in Objects : host[x] = h => x = o)
        /\ state[o] = "FINALIZED"
  BY <1>e, Claimed DEF RunClaim, EndClaim
<1>k. hstat[h] = "freed" \/ kill[h]
  BY <1>e, <1>t DEF ClaimInv, ClearedGone
<1>y. /\ pc \in [Procs -> Labels]
      /\ tgt \in [Procs -> Objects \cup {None}]
      /\ wk \in [Procs -> Workers \cup {None}]
      /\ host \in [Objects -> Hosts \cup {None}]
  BY DEF FTypes, TypeOK
<1>v. /\ pc' = [pc EXCEPT ![e] = "guest"]
      /\ tgt' = [tgt EXCEPT ![e] = None]
      /\ wk' = [wk EXCEPT ![e] = None]
      /\ host' = [host EXCEPT ![o] = None]
      /\ UNCHANGED <<scenario, state, obj, hstat, hworker, started, kill, release, baton, current,
                           wstat, slot, tcb, scan, cpu, tl, table, nworkers, look>>
  BY <1>e, <1>t, <1>k, <1>y DEF finalize_clear, At, Goto, Done, F, H, W, SelfObj, objvars, hostvars,
    callvars, tabvars
<1>1. FTypes'
  BY <1>e, <1>t, <1>k, <1>y, <1>v DEF FTypes, TypeOK, Labels
<1>2. ObjectInv'
  <2>1. NamedLive'
    BY <1>e, <1>t, <1>k, <1>y, <1>v DEF ObjectInv, NamedLive
  <2>2. NamedUsed'
    BY <1>e, <1>t, <1>k, <1>y, <1>v DEF ObjectInv, NamedUsed
  <2>3. NamedOnce'
    BY <1>e, <1>t, <1>k, <1>y, <1>v DEF ObjectInv, NamedOnce
  <2>4. UnusedClean'
    BY <1>e, <1>t, <1>k, <1>y, <1>v DEF ObjectInv, UnusedClean
  <2>5. LiveNamed'
    BY <1>e, <1>t, <1>k, <1>y, <1>v DEF ObjectInv, LiveNamed
  <2>6. LiveKept'
    BY <1>e, <1>t, <1>k, <1>y, <1>v DEF ObjectInv, LiveKept
  <2> QED  BY <2>1, <2>2, <2>3, <2>4, <2>5, <2>6 DEF ObjectInv
<1>3. ClaimInv'
  <2>1. ClaimHasTarget'
    BY <1>e, <1>t, <1>k, <1>y, <1>v DEF ClaimInv, ClaimHasTarget, RunClaim, EndClaim
  <2>2. TargetClaimed'
    BY <1>e, <1>t, <1>k, <1>y, <1>v DEF ClaimInv, TargetClaimed, RunClaim, EndClaim, ClaimHasTarget
  <2>3. ClaimedOnce'
    BY <1>e, <1>t, <1>k, <1>y, <1>v DEF ClaimInv, ClaimedOnce
  <2>4. EndedWhole'
    BY <1>e, <1>t, <1>k, <1>y, <1>v DEF ClaimInv, EndedWhole, ClaimHasTarget, RunClaim, EndClaim,
      ClaimedOnce, TargetClaimed
  <2>5. ClearedGone'
    BY <1>e, <1>t, <1>k, <1>y, <1>v DEF ClaimInv, ClearedGone, ClaimHasTarget, RunClaim, EndClaim,
      TargetClaimed
  <2> QED  BY <2>1, <2>2, <2>3, <2>4, <2>5 DEF ClaimInv
<1>4. TableInv'
  BY <1>e, <1>t, <1>k, <1>y, <1>v DEF TableInv, ListedLive, LiveListed, ScanBounded, Publishing,
    ExitLive, NoWorkerNoSlot, WorkerNew, HostLabels
<1>5. LookInv'
  BY <1>e, <1>t, <1>k, <1>y, <1>v DEF LookInv, OffEmpty, ScansFromOne, HasWorker, WorkerSafe,
    FiberSafe
<1>6. ASSUME ThreadMode PROVE ThInv'
  <2>e. e = p /\ ThreadInv /\ HasTok(e)
    BY <1>e, <1>6, OnCpu DEF ThInv, ThreadInv, OwnThread, HasTok
  <2>l. \A x \in Hosts : pc[x] \notin {"none", "dead"} => hstat[x] = "live" /\ obj[x] \in Objects
    BY <2>e DEF ThreadInv, RunsLive, ObjectInv, LiveNamed, FTypes, TypeOK
  <2>f. \A x \in Hosts : Failing(x) => x = e
    BY <1>6, <2>e, OnlyFailing
  <2>k. TokensKept
    BY <1>6, <1>e, <1>t, <1>k, <1>y, <1>v, <2>e, <2>l, <2>f DEF ThInv, TokensKept, HasTok, TokOf,
      Posted, PostOf, RunInv, RunsOnItsWorker, WorkerCall, RunClaim, SelfRun, Failing, BatonInv,
      PostedWhole, Untargeted, Suspends
  <2>1. ThreadInv'
    BY <1>6, <1>e, <1>t, <1>k, <1>y, <1>v, <2>e, <2>l, <2>f, <2>k DEF ThInv, ThreadInv, OwnThread,
      NoSwitch, WorkerLabels, StartedRuns, RunsLive
  <2>2. RunInv'
    <3>1. RunsWhole'
      BY <1>6, <1>e, <1>t, <1>k, <1>y, <1>v, <2>e, <2>l, <2>f, <2>k DEF ThInv, RunInv, RunsWhole,
        SelfRun, Unrun, Untargeted, TableInv, HostLabels
    <3>2. FailsWhole'
      BY <1>6, <1>e, <1>t, <1>k, <1>y, <1>v, <2>e, <2>l, <2>f, <2>k DEF ThInv, RunInv, FailsWhole,
        Failing, Unrun, Untargeted
    <3>3. RunsOnItsWorker'
      BY <1>6, <1>e, <1>t, <1>k, <1>y, <1>v, <2>e, <2>l, <2>f, <2>k DEF ThInv, RunInv,
        RunsOnItsWorker, WorkerCall, RunClaim, SelfRun, Failing
    <3>4. ReclaimFails'
      BY <1>6, <1>e, <1>t, <1>k, <1>y, <1>v, <2>e, <2>l, <2>f, <2>k DEF ThInv, RunInv, ReclaimFails
    <3>5. FailsUnposted'
      BY <1>6, <1>e, <1>t, <1>k, <1>y, <1>v, <2>e, <2>l, <2>f, <2>k DEF ThInv, RunInv,
        FailsUnposted, HasTok
    <3> QED  BY <3>1, <3>2, <3>3, <3>4, <3>5 DEF RunInv
  <2>3. BatonInv'
    <3>1. BatonSuspends'
      BY <1>6, <1>e, <1>t, <1>k, <1>y, <1>v, <2>e, <2>l, <2>f, <2>k DEF ThInv, BatonInv,
        BatonSuspends, Suspends
    <3>2. PostedWhole'
      BY <1>6, <1>e, <1>t, <1>k, <1>y, <1>v, <2>e, <2>l, <2>f, <2>k DEF ThInv, BatonInv,
        PostedWhole, Posted, Untargeted, BatonSuspends, Suspends
    <3>3. KillSuspends'
      BY <1>6, <1>e, <1>t, <1>k, <1>y, <1>v, <2>e, <2>l, <2>f, <2>k DEF ThInv, BatonInv,
        KillSuspends, Suspends
    <3>4. KillEnds'
      BY <1>6, <1>e, <1>t, <1>k, <1>y, <1>v, <2>e, <2>l, <2>f, <2>k DEF ThInv, BatonInv, KillEnds,
        KillSuspends, Suspends
    <3>5. KilledIsKill'
      BY <1>6, <1>e, <1>t, <1>k, <1>y, <1>v, <2>e, <2>l, <2>f, <2>k DEF ThInv, BatonInv,
        KilledIsKill
    <3> QED  BY <3>1, <3>2, <3>3, <3>4, <3>5 DEF BatonInv
  <2>4. CallInv'
    BY <1>6, <1>e, <1>t, <1>k, <1>y, <1>v, <2>e, <2>l, <2>f, <2>k DEF ThInv, CallInv, CallHasWorker,
      WorkerOfItself, WorkerCall, RunClaim
  <2>5. TokenInv'
    BY <1>6, <1>e, <1>t, <1>k, <1>y, <1>v, <2>e, <2>l, <2>f, <2>k, KeepTokens
  <2>6. CurrentInv'
    <3>1. \A k \in Hosts : pc'[k] \in Holds <=> pc[k] \in Holds
      BY <1>6, <1>e, <1>t, <1>k, <1>y, <1>v, <2>e, <2>l, <2>f, <2>k DEF Holds, TableInv, HostLabels
    <3>2. \A x \in Procs : pc[x] \in Handing => pc'[x] \in Handing /\ host'[tgt'[x]] = host[tgt[x]]
      BY <1>6, <1>e, <1>t, <1>k, <1>y, <1>v, <2>e, <2>l, <2>f, <2>k DEF Handing, TableInv,
        HostLabels, ClaimInv, ClaimHasTarget, TargetClaimed, RunClaim
    <3>3. \A x \in Procs : pc'[x] \in {"create", "post"} \/ (x \in Hosts /\ pc'[x] \in {"idle", "ready"}) =>
             wk'[x] = wk[x] /\ (pc[x] \in {"create", "post"} \/ (x \in Hosts /\ pc[x] \in {"idle", "ready"}))
      BY <1>6, <1>e, <1>t, <1>k, <1>y, <1>v, <2>e, <2>l, <2>f, <2>k DEF TableInv, HostLabels
    <3> QED  BY <3>1, <3>2, <3>3, <1>6, <1>v, <2>k, KeepCurrent
  <2>7. HandInv'
    BY <1>6, <1>e, <1>t, <1>k, <1>y, <1>v, <2>e, <2>l, <2>f, <2>k DEF ThInv, HandInv, HandWorker,
      PostStarted, CreateUnstarted
  <2>8. TcbInv'
    <3>1. TokenTcb'
      BY <1>6, <1>e, <1>t, <1>k, <1>y, <1>v, <2>e, <2>l, <2>f, <2>k DEF ThInv, TcbInv, TokenTcb,
        TokenInv, TokenAlive, TokenOnce, TokensKept
    <3>2. ThreadTcb'
      BY <1>6, <1>e, <1>t, <1>k, <1>y, <1>v, <2>e, <2>l, <2>f, <2>k DEF ThInv, TcbInv, ThreadTcb,
        TokenInv, TokenOnce, TokensKept
    <3>3. PostedTcb'
      BY <1>6, <1>e, <1>t, <1>k, <1>y, <1>v, <2>e, <2>l, <2>f, <2>k DEF ThInv, TcbInv, PostedTcb,
        TokenInv, TokenNotPosted, TokensKept
    <3> QED  BY <3>1, <3>2, <3>3 DEF TcbInv
  <2> QED  BY <2>1, <2>2, <2>3, <2>4, <2>5, <2>6, <2>7, <2>8 DEF ThInv
<1>7. ASSUME ~ThreadMode PROVE CoInv'
  <2>e. /\ p \in Workers /\ e \in Hosts \cup {p} /\ (\A w \in Workers : cpu[w] \in Procs /\ (cpu[w] = e => w = p))
        /\ e = IF tl[p] = None THEN p ELSE tl[p]
    BY <1>e, <1>7, OnCpu DEF CoInv, CpuInv, WorkersOn, StackOnce, OnTarget, Target
  <2>h. (\A w \in Workers : tl[w] # h) /\ (\A d \in Procs : release[d] # o)
    BY <1>e, <1>7, <1>t, ClaimedOff DEF RunClaim, EndClaim
  <2>1. CpuInv'
    BY <1>7, <1>e, <1>t, <1>k, <1>y, <1>v, <2>e, <2>h DEF CoInv, CpuInv, HostsOff, WorkersOn,
      LeftFinishes, ThreadFinishes, StackOnce, OnTarget, LeavesForFiber, Target
  <2>2. SelfInv'
    BY <1>7, <1>e, <1>t, <1>k, <1>y, <1>v, <2>e, <2>h DEF CoInv, SelfInv, SelfWhole, CallWorker,
      CurrentSelf, TcbCurrent, SelfState, Whole, WorkerCall, RunClaim
  <2>3. ReleaseInv'
    BY <1>7, <1>e, <1>t, <1>k, <1>y, <1>v, <2>e, <2>h, KeepReleases DEF Whole
  <2>4. EnterInv'
    BY <1>7, <1>e, <1>t, <1>k, <1>y, <1>v, <2>e, <2>h DEF CoInv, EnterInv, EntersOther, EntersTarget
  <2>5. NoThreads'
    BY <1>7, <1>e, <1>t, <1>k, <1>y, <1>v, <2>e, <2>h DEF CoInv, NoThreads
  <2> QED  BY <2>1, <2>2, <2>3, <2>4, <2>5 DEF CoInv
<1> QED  BY <1>1, <1>2, <1>3, <1>4, <1>5, <1>6, <1>7, <1>v DEF ThreadMode

(* A guest thread that ends leaves the table before it frees its worker.   *)
LEMMA Step_worker_destroy ==
  ASSUME FailsAlone, FIInv, NEW p \in Procs, worker_destroy(p)
  PROVE  FIInv'
<1> USE SetsAssumption DEF Procs, FIInv, Base
<1>e. PICK e \in Procs : e = cpu[p] /\ pc[e] = "guest"
  BY OnCpu DEF worker_destroy, At
<1>x. p \in Workers /\ e = p
  BY <1>e, OnCpu DEF worker_destroy, ThInv, ThreadInv, OwnThread, CoInv, CpuInv, OnTarget, Target
<1>y. /\ pc \in [Procs -> Labels]
      /\ table \in [1 .. MaxSlots -> Workers \cup {None}]
  BY DEF FTypes, TypeOK
<1>v. /\ tl[p] = None
      /\ wstat[p] = "live"
      /\ table' = (IF slot[p] = 0 THEN table ELSE [table EXCEPT ![slot[p]] = None])
      /\ pc' = [pc EXCEPT ![e] = "exit"]
      /\ UNCHANGED <<scenario, state, host, obj, hstat, hworker, started, kill, release, baton,
                           current, wstat, slot, tcb, tgt, wk, scan, cpu, tl, nworkers, look>>
  BY <1>e, <1>x, <1>y DEF worker_destroy, At, Goto, Done, F, H, W, SelfObj, objvars, hostvars,
    callvars, tabvars
<1>1. FTypes'
  BY <1>e, <1>x, <1>y, <1>v DEF FTypes, TypeOK, Labels
<1>2. ObjectInv'
  BY <1>e, <1>x, <1>y, <1>v DEF ObjectInv, NamedLive, NamedUsed, NamedOnce, UnusedClean, LiveNamed,
    LiveKept
<1>3. ClaimInv'
  BY <1>e, <1>x, <1>y, <1>v DEF ClaimInv, ClaimHasTarget, TargetClaimed, ClaimedOnce, EndedWhole,
    ClearedGone, RunClaim, EndClaim
<1>4. TableInv'
  BY <1>e, <1>x, <1>y, <1>v DEF TableInv, ListedLive, LiveListed, ScanBounded, Publishing, ExitLive,
    NoWorkerNoSlot, WorkerNew, HostLabels
<1>5. LookInv'
  BY <1>e, <1>x, <1>y, <1>v DEF LookInv, OffEmpty, ScansFromOne, HasWorker, WorkerSafe, FiberSafe
<1>6. ASSUME ThreadMode PROVE ThInv'
  <2>e. e = p /\ ThreadInv /\ HasTok(e)
    BY <1>e, <1>6, OnCpu DEF ThInv, ThreadInv, OwnThread, HasTok
  <2>l. \A x \in Hosts : pc[x] \notin {"none", "dead"} => hstat[x] = "live" /\ obj[x] \in Objects
    BY <2>e DEF ThreadInv, RunsLive, ObjectInv, LiveNamed, FTypes, TypeOK
  <2>f. \A x \in Hosts : Failing(x) => x = e
    BY <1>6, <2>e, OnlyFailing
  <2>k. TokensKept
    BY <1>6, <1>e, <1>x, <1>y, <1>v, <2>e, <2>l, <2>f DEF ThInv, TokensKept, HasTok, TokOf, Posted,
      PostOf, RunInv, RunsOnItsWorker, WorkerCall, RunClaim, SelfRun, Failing, BatonInv,
      PostedWhole, Untargeted, Suspends
  <2>1. ThreadInv'
    BY <1>6, <1>e, <1>x, <1>y, <1>v, <2>e, <2>l, <2>f, <2>k DEF ThInv, ThreadInv, OwnThread,
      NoSwitch, WorkerLabels, StartedRuns, RunsLive
  <2>2. RunInv'
    BY <1>6, <1>e, <1>x, <1>y, <1>v, <2>e, <2>l, <2>f, <2>k DEF ThInv, RunInv, RunsWhole,
      FailsWhole, RunsOnItsWorker, ReclaimFails, FailsUnposted, SelfRun, Unrun, Untargeted, Failing,
      WorkerCall, RunClaim, HasTok
  <2>3. BatonInv'
    BY <1>6, <1>e, <1>x, <1>y, <1>v, <2>e, <2>l, <2>f, <2>k DEF ThInv, BatonInv, BatonSuspends,
      PostedWhole, KillSuspends, KillEnds, KilledIsKill, Suspends, Posted, Untargeted
  <2>4. CallInv'
    BY <1>6, <1>e, <1>x, <1>y, <1>v, <2>e, <2>l, <2>f, <2>k DEF ThInv, CallInv, CallHasWorker,
      WorkerOfItself, WorkerCall, RunClaim
  <2>5. TokenInv'
    BY <1>6, <1>e, <1>x, <1>y, <1>v, <2>e, <2>l, <2>f, <2>k, KeepTokens
  <2>6. CurrentInv'
    <3>1. \A k \in Hosts : pc'[k] \in Holds <=> pc[k] \in Holds
      BY <1>6, <1>e, <1>x, <1>y, <1>v, <2>e, <2>l, <2>f, <2>k DEF Holds, TableInv, HostLabels
    <3>2. \A x \in Procs : pc[x] \in Handing => pc'[x] \in Handing /\ host'[tgt'[x]] = host[tgt[x]]
      BY <1>6, <1>e, <1>x, <1>y, <1>v, <2>e, <2>l, <2>f, <2>k DEF Handing, TableInv, HostLabels
    <3>3. \A x \in Procs : pc'[x] \in {"create", "post"} \/ (x \in Hosts /\ pc'[x] \in {"idle", "ready"}) =>
             wk'[x] = wk[x] /\ (pc[x] \in {"create", "post"} \/ (x \in Hosts /\ pc[x] \in {"idle", "ready"}))
      BY <1>6, <1>e, <1>x, <1>y, <1>v, <2>e, <2>l, <2>f, <2>k DEF TableInv, HostLabels
    <3> QED  BY <3>1, <3>2, <3>3, <1>6, <1>v, <2>k, KeepCurrent
  <2>7. HandInv'
    BY <1>6, <1>e, <1>x, <1>y, <1>v, <2>e, <2>l, <2>f, <2>k DEF ThInv, HandInv, HandWorker,
      PostStarted, CreateUnstarted
  <2>8. TcbInv'
    <3>1. TokenTcb'
      BY <1>6, <1>e, <1>x, <1>y, <1>v, <2>e, <2>l, <2>f, <2>k DEF ThInv, TcbInv, TokenTcb, TokenInv,
        TokenAlive, TokenOnce, TokensKept
    <3>2. ThreadTcb'
      BY <1>6, <1>e, <1>x, <1>y, <1>v, <2>e, <2>l, <2>f, <2>k DEF ThInv, TcbInv, ThreadTcb,
        TokenInv, TokenOnce, TokensKept
    <3>3. PostedTcb'
      BY <1>6, <1>e, <1>x, <1>y, <1>v, <2>e, <2>l, <2>f, <2>k DEF ThInv, TcbInv, PostedTcb,
        TokenInv, TokenNotPosted, TokensKept
    <3> QED  BY <3>1, <3>2, <3>3 DEF TcbInv
  <2> QED  BY <2>1, <2>2, <2>3, <2>4, <2>5, <2>6, <2>7, <2>8 DEF ThInv
<1>7. ASSUME ~ThreadMode PROVE CoInv'
  <2>e. /\ p \in Workers /\ e \in Hosts \cup {p} /\ (\A w \in Workers : cpu[w] \in Procs /\ (cpu[w] = e => w = p))
        /\ e = IF tl[p] = None THEN p ELSE tl[p]
    BY <1>e, <1>7, OnCpu DEF CoInv, CpuInv, WorkersOn, StackOnce, OnTarget, Target
  <2>1. CpuInv'
    BY <1>7, <1>e, <1>x, <1>y, <1>v, <2>e DEF CoInv, CpuInv, HostsOff, WorkersOn, LeftFinishes,
      ThreadFinishes, StackOnce, OnTarget, LeavesForFiber, Target
  <2>2. SelfInv'
    BY <1>7, <1>e, <1>x, <1>y, <1>v, <2>e DEF CoInv, SelfInv, SelfWhole, CallWorker, CurrentSelf,
      TcbCurrent, SelfState, Whole, WorkerCall, RunClaim
  <2>3. ReleaseInv'
    BY <1>7, <1>e, <1>x, <1>y, <1>v, <2>e, KeepReleases DEF Whole
  <2>4. EnterInv'
    BY <1>7, <1>e, <1>x, <1>y, <1>v, <2>e DEF CoInv, EnterInv, EntersOther, EntersTarget
  <2>5. NoThreads'
    BY <1>7, <1>e, <1>x, <1>y, <1>v, <2>e DEF CoInv, NoThreads
  <2> QED  BY <2>1, <2>2, <2>3, <2>4, <2>5 DEF CoInv
<1> QED  BY <1>1, <1>2, <1>3, <1>4, <1>5, <1>6, <1>7, <1>v DEF ThreadMode

(* The worker is freed when no lookup may read it.                         *)
LEMMA Step_worker_free ==
  ASSUME FailsAlone, FIInv, NEW p \in Procs, worker_free(p)
  PROVE  FIInv'
<1> USE SetsAssumption DEF Procs, FIInv, Base
<1>e. PICK e \in Procs : e = cpu[p] /\ pc[e] = "exit"
  BY OnCpu DEF worker_free, At
<1>x. p \in Workers /\ e = p
  BY <1>e, OnCpu DEF TableInv, HostLabels
<1>y. /\ pc \in [Procs -> Labels]
      /\ wstat \in [Workers -> {"none", "live", "freed"}]
  BY DEF FTypes, TypeOK
<1>v. /\ slot[p] = 0 \/ g_lookups = 0
      /\ pc' = [pc EXCEPT ![e] = "dead"]
      /\ wstat' = [wstat EXCEPT ![p] = "freed"]
      /\ UNCHANGED <<scenario, state, host, obj, hstat, hworker, started, kill, release, baton,
                           current, slot, tcb, tgt, wk, scan, cpu, tl, table, nworkers, look>>
  BY <1>e, <1>x, <1>y DEF worker_free, At, Goto, Done, F, H, W, SelfObj, objvars, hostvars,
    callvars, tabvars
<1>k. \A l \in Lookers : look[l].w # p
  <2>1. CASE slot[p] = 0
    BY <1>x, <2>1 DEF LookInv, WorkerSafe
  <2>2. CASE g_lookups = 0
    BY <1>x, <2>2, NoLookups DEF LookInv, OffEmpty
  <2> QED  BY <1>v, <2>1, <2>2
<1>1. FTypes'
  BY <1>e, <1>x, <1>y, <1>v, <1>k DEF FTypes, TypeOK, Labels
<1>2. ObjectInv'
  BY <1>e, <1>x, <1>y, <1>v, <1>k DEF ObjectInv, NamedLive, NamedUsed, NamedOnce, UnusedClean,
    LiveNamed, LiveKept
<1>3. ClaimInv'
  BY <1>e, <1>x, <1>y, <1>v, <1>k DEF ClaimInv, ClaimHasTarget, TargetClaimed, ClaimedOnce,
    EndedWhole, ClearedGone, RunClaim, EndClaim
<1>4. TableInv'
  BY <1>e, <1>x, <1>y, <1>v, <1>k DEF TableInv, ListedLive, LiveListed, ScanBounded, Publishing,
    ExitLive, NoWorkerNoSlot, WorkerNew, HostLabels
<1>5. LookInv'
  <2>1. OffEmpty'
    BY <1>e, <1>x, <1>y, <1>v, <1>k DEF LookInv, OffEmpty
  <2>2. ScansFromOne'
    BY <1>e, <1>x, <1>y, <1>v, <1>k DEF LookInv, ScansFromOne
  <2>3. HasWorker'
    BY <1>e, <1>x, <1>y, <1>v, <1>k DEF LookInv, HasWorker
  <2>4. WorkerSafe'
    BY <1>x, <1>k, <1>y, <1>v DEF LookInv, WorkerSafe
  <2>5. FiberSafe'
    BY <1>e, <1>x, <1>y, <1>v, <1>k DEF LookInv, FiberSafe
  <2> QED  BY <2>1, <2>2, <2>3, <2>4, <2>5 DEF LookInv
<1>6. ASSUME ThreadMode PROVE ThInv'
  <2>e. e = p /\ ThreadInv /\ HasTok(e)
    BY <1>e, <1>6, OnCpu DEF ThInv, ThreadInv, OwnThread, HasTok
  <2>l. \A x \in Hosts : pc[x] \notin {"none", "dead"} => hstat[x] = "live" /\ obj[x] \in Objects
    BY <2>e DEF ThreadInv, RunsLive, ObjectInv, LiveNamed, FTypes, TypeOK
  <2>f. \A x \in Hosts : Failing(x) => x = e
    BY <1>6, <2>e, OnlyFailing
  <2>1. ThreadInv'
    BY <1>6, <1>e, <1>x, <1>y, <1>v, <1>k, <2>e, <2>l, <2>f DEF ThInv, ThreadInv, OwnThread,
      NoSwitch, WorkerLabels, StartedRuns, RunsLive
  <2>2. RunInv'
    BY <1>6, <1>e, <1>x, <1>y, <1>v, <1>k, <2>e, <2>l, <2>f DEF ThInv, RunInv, RunsWhole,
      FailsWhole, RunsOnItsWorker, ReclaimFails, FailsUnposted, SelfRun, Unrun, Untargeted, Failing,
      WorkerCall, RunClaim, HasTok
  <2>3. BatonInv'
    BY <1>6, <1>e, <1>x, <1>y, <1>v, <1>k, <2>e, <2>l, <2>f DEF ThInv, BatonInv, BatonSuspends,
      PostedWhole, KillSuspends, KillEnds, KilledIsKill, Suspends, Posted, Untargeted
  <2>4. CallInv'
    BY <1>6, <1>e, <1>x, <1>y, <1>v, <1>k, <2>e, <2>l, <2>f DEF ThInv, CallInv, CallHasWorker,
      WorkerOfItself, WorkerCall, RunClaim
  <2>5. TokenInv'
    <3>1. TokenAlive'
      BY <1>6, <1>e, <1>x, <1>y, <1>v, <1>k, <2>e, <2>l, <2>f DEF ThInv, TokenInv, TokenAlive,
        HasTok, TokOf
    <3>2. TokenWaited'
      BY <1>6, <1>e, <1>x, <1>y, <1>v, <1>k, <2>e, <2>l, <2>f DEF ThInv, TokenInv, TokenWaited,
        HasTok, TokOf, ThreadInv, WorkerLabels
    <3>3. PostAlive'
      BY <1>6, <1>e, <1>x, <1>y, <1>v, <1>k, <2>e, <2>l, <2>f DEF ThInv, TokenInv, PostAlive,
        Posted, PostOf
    <3>4. TokenOnce'
      BY <1>6, <1>e, <1>x, <1>y, <1>v, <1>k, <2>e, <2>l, <2>f DEF ThInv, TokenInv, TokenOnce,
        HasTok, TokOf
    <3>5. TokenNotPosted'
      BY <1>6, <1>e, <1>x, <1>y, <1>v, <1>k, <2>e, <2>l, <2>f DEF ThInv, TokenInv, TokenNotPosted,
        HasTok, TokOf, Posted, PostOf
    <3>6. PostOnce'
      BY <1>6, <1>e, <1>x, <1>y, <1>v, <1>k, <2>e, <2>l, <2>f DEF ThInv, TokenInv, PostOnce, Posted,
        PostOf
    <3> QED  BY <3>1, <3>2, <3>3, <3>4, <3>5, <3>6 DEF TokenInv
  <2>6. CurrentInv'
    <3>1. CurrentHasToken'
      BY <1>6, <1>e, <1>x, <1>y, <1>v, <1>k, <2>e, <2>l, <2>f DEF ThInv, CurrentInv,
        CurrentHasToken, Holds, TokOf, Posted, HandsTo, Handing, TokenInv, TokenAlive, HasTok,
        TokenOnce
    <3>2. HolderCurrent'
      BY <1>6, <1>e, <1>x, <1>y, <1>v, <1>k, <2>e, <2>l, <2>f DEF ThInv, CurrentInv, HolderCurrent,
        Holds, TokOf, TokenInv, TokenAlive, HasTok, TokenOnce
    <3>3. PostedCurrent'
      BY <1>6, <1>e, <1>x, <1>y, <1>v, <1>k, <2>e, <2>l, <2>f DEF ThInv, CurrentInv, PostedCurrent,
        Posted, TokenInv, PostAlive, PostOf, TokenNotPosted, HasTok, TokOf
    <3>4. HandedCurrent'
      BY <1>6, <1>e, <1>x, <1>y, <1>v, <1>k, <2>e, <2>l, <2>f DEF ThInv, CurrentInv, HandedCurrent,
        CallInv, CallHasWorker, WorkerCall, RunClaim
    <3> QED  BY <3>1, <3>2, <3>3, <3>4 DEF CurrentInv
  <2>7. HandInv'
    BY <1>6, <1>e, <1>x, <1>y, <1>v, <1>k, <2>e, <2>l, <2>f DEF ThInv, HandInv, HandWorker,
      PostStarted, CreateUnstarted
  <2>8. TcbInv'
    BY <1>6, <1>e, <1>x, <1>y, <1>v, <1>k, <2>e, <2>l, <2>f DEF ThInv, TcbInv, TokenTcb, ThreadTcb,
      PostedTcb, HasTok, TokOf, Posted
  <2> QED  BY <2>1, <2>2, <2>3, <2>4, <2>5, <2>6, <2>7, <2>8 DEF ThInv
<1>7. ASSUME ~ThreadMode PROVE CoInv'
  <2>e. /\ p \in Workers /\ e \in Hosts \cup {p} /\ (\A w \in Workers : cpu[w] \in Procs /\ (cpu[w] = e => w = p))
        /\ e = IF tl[p] = None THEN p ELSE tl[p]
    BY <1>e, <1>7, OnCpu DEF CoInv, CpuInv, WorkersOn, StackOnce, OnTarget, Target
  <2>1. CpuInv'
    BY <1>7, <1>e, <1>x, <1>y, <1>v, <1>k, <2>e DEF CoInv, CpuInv, HostsOff, WorkersOn,
      LeftFinishes, ThreadFinishes, StackOnce, OnTarget, LeavesForFiber, Target
  <2>2. SelfInv'
    BY <1>7, <1>e, <1>x, <1>y, <1>v, <1>k, <2>e DEF CoInv, SelfInv, SelfWhole, CallWorker,
      CurrentSelf, TcbCurrent, SelfState, Whole, WorkerCall, RunClaim
  <2>3. ReleaseInv'
    BY <1>7, <1>e, <1>x, <1>y, <1>v, <1>k, <2>e, KeepReleases DEF Whole
  <2>4. EnterInv'
    BY <1>7, <1>e, <1>x, <1>y, <1>v, <1>k, <2>e DEF CoInv, EnterInv, EntersOther, EntersTarget
  <2>5. NoThreads'
    BY <1>7, <1>e, <1>x, <1>y, <1>v, <1>k, <2>e DEF CoInv, NoThreads
  <2> QED  BY <2>1, <2>2, <2>3, <2>4, <2>5 DEF CoInv
<1> QED  BY <1>1, <1>2, <1>3, <1>4, <1>5, <1>6, <1>7, <1>v DEF ThreadMode

(* A guest thread's own code claims an IDLE fiber.                         *)
LEMMA Step_fiber_run ==
  ASSUME FailsAlone, FIInv, NEW p \in Procs, NEW o \in Objects, fiber_run(p, o)
  PROVE  FIInv'
<1> USE SetsAssumption DEF Procs, FIInv, Base
<1>e. PICK e \in Procs : e = cpu[p] /\ pc[e] = "guest"
  BY OnCpu DEF fiber_run, At
<1>o. o \in Objects /\ host[o] \in Hosts /\ state[o] = "IDLE" /\ \A d \in Procs : tgt[d] # o
  <2>1. host[o] # None /\ state[o] = "IDLE"
    BY DEF fiber_run, take_idle
  <2>2. \A d \in Procs : tgt[d] # o
    BY <2>1, ClaimedState
  <2> QED  BY <2>1, <2>2 DEF FTypes, TypeOK
<1>x. p \in Workers /\ e = p
  BY <1>e, OnCpu DEF fiber_run, ThInv, ThreadInv, OwnThread, CoInv, CpuInv, OnTarget, Target
<1>y. /\ pc \in [Procs -> Labels]
      /\ state \in [Objects -> {"IDLE", "RUNNING", "SUSPENDING", "FINALIZED"}]
      /\ tgt \in [Procs -> Objects \cup {None}]
      /\ wk \in [Procs -> Workers \cup {None}]
  BY DEF FTypes, TypeOK
<1>v. /\ tl[p] = None
      /\ pc' = [pc EXCEPT ![e] = IF wstat[p] = "none" THEN "worker" ELSE "checks"]
      /\ state' = [state EXCEPT ![o] = "RUNNING"]
      /\ tgt' = [tgt EXCEPT ![e] = o]
      /\ wk' = [wk EXCEPT ![e] = p]
      /\ UNCHANGED <<scenario, host, obj, hstat, hworker, started, kill, release, baton, current,
                           wstat, slot, tcb, scan, cpu, tl, table, nworkers, look>>
  BY <1>e, <1>o, <1>x, <1>y DEF fiber_run, At, Goto, Done, F, H, W, SelfObj, objvars, hostvars,
    callvars, tabvars, take_idle
<1>1. FTypes'
  BY <1>e, <1>o, <1>x, <1>y, <1>v DEF FTypes, TypeOK, Labels
<1>2. ObjectInv'
  BY <1>e, <1>o, <1>x, <1>y, <1>v DEF ObjectInv, NamedLive, NamedUsed, NamedOnce, UnusedClean,
    LiveNamed, LiveKept
<1>3. ClaimInv'
  BY <1>e, <1>o, <1>x, <1>y, <1>v DEF ClaimInv, ClaimHasTarget, TargetClaimed, ClaimedOnce,
    EndedWhole, ClearedGone, RunClaim, EndClaim
<1>4. TableInv'
  BY <1>e, <1>o, <1>x, <1>y, <1>v DEF TableInv, ListedLive, LiveListed, ScanBounded, Publishing,
    ExitLive, NoWorkerNoSlot, WorkerNew, HostLabels
<1>5. LookInv'
  BY <1>e, <1>o, <1>x, <1>y, <1>v DEF LookInv, OffEmpty, ScansFromOne, HasWorker, WorkerSafe,
    FiberSafe
<1>6. ASSUME ThreadMode PROVE ThInv'
  <2>e. e = p /\ ThreadInv /\ HasTok(e)
    BY <1>e, <1>6, OnCpu DEF ThInv, ThreadInv, OwnThread, HasTok
  <2>l. \A x \in Hosts : pc[x] \notin {"none", "dead"} => hstat[x] = "live" /\ obj[x] \in Objects
    BY <2>e DEF ThreadInv, RunsLive, ObjectInv, LiveNamed, FTypes, TypeOK
  <2>f. \A x \in Hosts : Failing(x) => x = e
    BY <1>6, <2>e, OnlyFailing
  <2>k. TokensKept
    BY <1>6, <1>e, <1>o, <1>x, <1>y, <1>v, <2>e, <2>l, <2>f DEF ThInv, TokensKept, HasTok, TokOf,
      Posted, PostOf, RunInv, RunsOnItsWorker, WorkerCall, RunClaim, SelfRun, Failing, BatonInv,
      PostedWhole, Untargeted, Suspends
  <2>1. ThreadInv'
    BY <1>6, <1>e, <1>o, <1>x, <1>y, <1>v, <2>e, <2>l, <2>f, <2>k DEF ThInv, ThreadInv, OwnThread,
      NoSwitch, WorkerLabels, StartedRuns, RunsLive
  <2>2. RunInv'
    <3>1. RunsWhole'
      BY <1>6, <1>e, <1>o, <1>x, <1>y, <1>v, <2>e, <2>l, <2>f, <2>k DEF ThInv, RunInv, RunsWhole,
        SelfRun, Unrun, Untargeted, TableInv, HostLabels
    <3>2. FailsWhole'
      BY <1>6, <1>e, <1>o, <1>x, <1>y, <1>v, <2>e, <2>l, <2>f, <2>k DEF ThInv, RunInv, FailsWhole,
        Failing, Unrun, Untargeted
    <3>3. RunsOnItsWorker'
      BY <1>6, <1>e, <1>o, <1>x, <1>y, <1>v, <2>e, <2>l, <2>f, <2>k DEF ThInv, RunInv,
        RunsOnItsWorker, WorkerCall, RunClaim, SelfRun, Failing
    <3>4. ReclaimFails'
      BY <1>6, <1>e, <1>o, <1>x, <1>y, <1>v, <2>e, <2>l, <2>f, <2>k DEF ThInv, RunInv, ReclaimFails
    <3>5. FailsUnposted'
      BY <1>6, <1>e, <1>o, <1>x, <1>y, <1>v, <2>e, <2>l, <2>f, <2>k DEF ThInv, RunInv,
        FailsUnposted, HasTok
    <3> QED  BY <3>1, <3>2, <3>3, <3>4, <3>5 DEF RunInv
  <2>3. BatonInv'
    BY <1>6, <1>e, <1>o, <1>x, <1>y, <1>v, <2>e, <2>l, <2>f, <2>k DEF ThInv, BatonInv,
      BatonSuspends, PostedWhole, KillSuspends, KillEnds, KilledIsKill, Suspends, Posted, Untargeted
  <2>4. CallInv'
    BY <1>6, <1>e, <1>o, <1>x, <1>y, <1>v, <2>e, <2>l, <2>f, <2>k DEF ThInv, CallInv, CallHasWorker,
      WorkerOfItself, WorkerCall, RunClaim
  <2>5. TokenInv'
    BY <1>6, <1>e, <1>o, <1>x, <1>y, <1>v, <2>e, <2>l, <2>f, <2>k, KeepTokens
  <2>6. CurrentInv'
    <3>1. \A k \in Hosts : pc'[k] \in Holds <=> pc[k] \in Holds
      BY <1>6, <1>e, <1>o, <1>x, <1>y, <1>v, <2>e, <2>l, <2>f, <2>k DEF Holds, TableInv, HostLabels
    <3>2. \A x \in Procs : pc[x] \in Handing => pc'[x] \in Handing /\ host'[tgt'[x]] = host[tgt[x]]
      BY <1>6, <1>e, <1>o, <1>x, <1>y, <1>v, <2>e, <2>l, <2>f, <2>k DEF Handing, TableInv,
        HostLabels, ClaimInv, ClaimHasTarget, TargetClaimed, RunClaim
    <3>3. \A x \in Procs : pc'[x] \in {"create", "post"} \/ (x \in Hosts /\ pc'[x] \in {"idle", "ready"}) =>
             wk'[x] = wk[x] /\ (pc[x] \in {"create", "post"} \/ (x \in Hosts /\ pc[x] \in {"idle", "ready"}))
      BY <1>6, <1>e, <1>o, <1>x, <1>y, <1>v, <2>e, <2>l, <2>f, <2>k DEF TableInv, HostLabels
    <3> QED  BY <3>1, <3>2, <3>3, <1>6, <1>v, <2>k, KeepCurrent
  <2>7. HandInv'
    BY <1>6, <1>e, <1>o, <1>x, <1>y, <1>v, <2>e, <2>l, <2>f, <2>k DEF ThInv, HandInv, HandWorker,
      PostStarted, CreateUnstarted
  <2>8. TcbInv'
    <3>1. TokenTcb'
      BY <1>6, <1>e, <1>o, <1>x, <1>y, <1>v, <2>e, <2>l, <2>f, <2>k DEF ThInv, TcbInv, TokenTcb,
        TokenInv, TokenAlive, TokenOnce, TokensKept
    <3>2. ThreadTcb'
      BY <1>6, <1>e, <1>o, <1>x, <1>y, <1>v, <2>e, <2>l, <2>f, <2>k DEF ThInv, TcbInv, ThreadTcb,
        TokenInv, TokenOnce, TokensKept
    <3>3. PostedTcb'
      BY <1>6, <1>e, <1>o, <1>x, <1>y, <1>v, <2>e, <2>l, <2>f, <2>k DEF ThInv, TcbInv, PostedTcb,
        TokenInv, TokenNotPosted, TokensKept
    <3> QED  BY <3>1, <3>2, <3>3 DEF TcbInv
  <2> QED  BY <2>1, <2>2, <2>3, <2>4, <2>5, <2>6, <2>7, <2>8 DEF ThInv
<1>7. ASSUME ~ThreadMode PROVE CoInv'
  <2>e. /\ p \in Workers /\ e \in Hosts \cup {p} /\ (\A w \in Workers : cpu[w] \in Procs /\ (cpu[w] = e => w = p))
        /\ e = IF tl[p] = None THEN p ELSE tl[p]
    BY <1>e, <1>7, OnCpu DEF CoInv, CpuInv, WorkersOn, StackOnce, OnTarget, Target
  <2>i. \A w \in Workers : tl[w] # host[o]
    <3> SUFFICES ASSUME NEW w \in Workers, tl[w] = host[o] PROVE FALSE
      OBVIOUS
    <3>1. tl[w] # None /\ obj[tl[w]] \in Objects \cup {None}
      BY <1>o DEF FTypes, TypeOK
    <3>2. Whole(tl[w]) /\ state[obj[tl[w]]] # "IDLE"
      BY <1>7, <3>1 DEF CoInv, SelfInv, SelfWhole, SelfState
    <3>3. obj[tl[w]] = o
      BY <1>o, <3>1, <3>2 DEF Whole, ObjectInv, NamedOnce
    <3> QED  BY <1>o, <3>2, <3>3
  <2>1. CpuInv'
    BY <1>7, <1>e, <1>o, <1>x, <1>y, <1>v, <2>e, <2>i DEF CoInv, CpuInv, HostsOff, WorkersOn,
      LeftFinishes, ThreadFinishes, StackOnce, OnTarget, LeavesForFiber, Target
  <2>2. SelfInv'
    <3>1. SelfWhole'
      BY <1>7, <1>e, <1>o, <1>x, <1>y, <1>v, <2>e, <2>i DEF CoInv, SelfInv, SelfWhole, Whole
    <3>2. CallWorker'
      BY <1>7, <1>e, <1>o, <1>x, <1>y, <1>v, <2>e, <2>i DEF CoInv, SelfInv, CallWorker, WorkerCall,
        RunClaim
    <3>3. CurrentSelf'
      BY <1>7, <1>e, <1>o, <1>x, <1>y, <1>v, <2>e, <2>i DEF CoInv, SelfInv, CurrentSelf
    <3>4. TcbCurrent'
      BY <1>7, <1>e, <1>o, <1>x, <1>y, <1>v, <2>e, <2>i DEF CoInv, SelfInv, TcbCurrent
    <3>5. SelfState'
      BY <1>7, <1>e, <1>o, <1>x, <1>y, <1>v, <2>e, <2>i DEF CoInv, SelfInv, SelfState
    <3> QED  BY <3>1, <3>2, <3>3, <3>4, <3>5 DEF SelfInv
  <2>3. ReleaseInv'
    BY <1>7, <1>e, <1>o, <1>x, <1>y, <1>v, <2>e, <2>i, KeepReleases DEF Whole
  <2>4. EnterInv'
    <3>1. EntersOther'
      BY <1>7, <1>e, <1>o, <1>x, <1>y, <1>v, <2>e, <2>i DEF CoInv, EnterInv, EntersOther
    <3>2. EntersTarget'
      BY <1>7, <1>e, <1>o, <1>x, <1>y, <1>v, <2>e, <2>i DEF CoInv, EnterInv, EntersTarget
    <3> QED  BY <3>1, <3>2 DEF EnterInv
  <2>5. NoThreads'
    BY <1>7, <1>e, <1>o, <1>x, <1>y, <1>v, <2>e, <2>i DEF CoInv, NoThreads
  <2> QED  BY <2>1, <2>2, <2>3, <2>4, <2>5 DEF CoInv
<1> QED  BY <1>1, <1>2, <1>3, <1>4, <1>5, <1>6, <1>7, <1>v DEF ThreadMode

(* A fiber claims an IDLE fiber, not itself.                               *)
LEMMA Step_fiber_switch ==
  ASSUME FailsAlone, FIInv, NEW p \in Procs, NEW o \in Objects, fiber_switch(p, o)
  PROVE  FIInv'
<1> USE SetsAssumption DEF Procs, FIInv, Base
<1>e. PICK e \in Procs : e = cpu[p] /\ pc[e] = "guest"
  BY OnCpu DEF fiber_switch, At
<1>s. PICK s \in Hosts, q \in Objects :
        /\ s = tl[p] /\ q = obj[s] /\ host[q] = s /\ hstat[s] = "live" /\ state[q] = "RUNNING"
        /\ (\A d \in Procs : tgt[d] # q) /\ hworker[s] \in Workers /\ (~ThreadMode => hworker[s] = p)
  BY <1>e, SelfRunning DEF fiber_switch
<1>o. o \in Objects /\ host[o] \in Hosts /\ state[o] = "IDLE" /\ \A d \in Procs : tgt[d] # o
  <2>1. host[o] # None /\ state[o] = "IDLE"
    BY DEF fiber_switch, take_idle
  <2>2. \A d \in Procs : tgt[d] # o
    BY <2>1, ClaimedState
  <2> QED  BY <2>1, <2>2 DEF FTypes, TypeOK
<1>y. /\ pc \in [Procs -> Labels]
      /\ state \in [Objects -> {"IDLE", "RUNNING", "SUSPENDING", "FINALIZED"}]
      /\ tgt \in [Procs -> Objects \cup {None}]
      /\ wk \in [Procs -> Workers \cup {None}]
  BY DEF FTypes, TypeOK
<1>v. /\ tl[p] # None
      /\ pc' = [pc EXCEPT ![e] = "claimed"]
      /\ state' = [state EXCEPT ![o] = "RUNNING"]
      /\ tgt' = [tgt EXCEPT ![e] = o]
      /\ wk' = [wk EXCEPT ![e] = hworker[s]]
      /\ UNCHANGED <<scenario, host, obj, hstat, hworker, started, kill, release, baton, current,
                           wstat, slot, tcb, scan, cpu, tl, table, nworkers, look>>
  BY <1>e, <1>s, <1>o, <1>y DEF fiber_switch, At, Goto, Done, F, H, W, SelfObj, objvars, hostvars,
    callvars, tabvars, take_idle
<1>1. FTypes'
  BY <1>e, <1>s, <1>o, <1>y, <1>v DEF FTypes, TypeOK, Labels
<1>2. ObjectInv'
  BY <1>e, <1>s, <1>o, <1>y, <1>v DEF ObjectInv, NamedLive, NamedUsed, NamedOnce, UnusedClean,
    LiveNamed, LiveKept
<1>3. ClaimInv'
  BY <1>e, <1>s, <1>o, <1>y, <1>v DEF ClaimInv, ClaimHasTarget, TargetClaimed, ClaimedOnce,
    EndedWhole, ClearedGone, RunClaim, EndClaim
<1>4. TableInv'
  BY <1>e, <1>s, <1>o, <1>y, <1>v DEF TableInv, ListedLive, LiveListed, ScanBounded, Publishing,
    ExitLive, NoWorkerNoSlot, WorkerNew, HostLabels
<1>5. LookInv'
  BY <1>e, <1>s, <1>o, <1>y, <1>v DEF LookInv, OffEmpty, ScansFromOne, HasWorker, WorkerSafe,
    FiberSafe
<1>6. ASSUME ThreadMode PROVE ThInv'
  <2>e. e = p /\ ThreadInv /\ s = p /\ HasTok(e)
    BY <1>e, <1>6, <1>s, OnCpu DEF ThInv, ThreadInv, OwnThread, HasTok
  <2>l. \A x \in Hosts : pc[x] \notin {"none", "dead"} => hstat[x] = "live" /\ obj[x] \in Objects
    BY <2>e DEF ThreadInv, RunsLive, ObjectInv, LiveNamed, FTypes, TypeOK
  <2>f. \A x \in Hosts : Failing(x) => x = e
    BY <1>6, <2>e, OnlyFailing
  <2>k. TokensKept
    BY <1>6, <1>e, <1>s, <1>o, <1>y, <1>v, <2>e, <2>l, <2>f DEF ThInv, TokensKept, HasTok, TokOf,
      Posted, PostOf, RunInv, RunsOnItsWorker, WorkerCall, RunClaim, SelfRun, Failing, BatonInv,
      PostedWhole, Untargeted, Suspends
  <2>1. ThreadInv'
    BY <1>6, <1>e, <1>s, <1>o, <1>y, <1>v, <2>e, <2>l, <2>f, <2>k DEF ThInv, ThreadInv, OwnThread,
      NoSwitch, WorkerLabels, StartedRuns, RunsLive
  <2>2. RunInv'
    <3>1. RunsWhole'
      BY <1>6, <1>e, <1>s, <1>o, <1>y, <1>v, <2>e, <2>l, <2>f, <2>k DEF ThInv, RunInv, RunsWhole,
        SelfRun, Unrun, Untargeted, TableInv, HostLabels
    <3>2. FailsWhole'
      BY <1>6, <1>e, <1>s, <1>o, <1>y, <1>v, <2>e, <2>l, <2>f, <2>k DEF ThInv, RunInv, FailsWhole,
        Failing, Unrun, Untargeted
    <3>3. RunsOnItsWorker'
      BY <1>6, <1>e, <1>s, <1>o, <1>y, <1>v, <2>e, <2>l, <2>f, <2>k DEF ThInv, RunInv,
        RunsOnItsWorker, WorkerCall, RunClaim, SelfRun, Failing
    <3>4. ReclaimFails'
      BY <1>6, <1>e, <1>s, <1>o, <1>y, <1>v, <2>e, <2>l, <2>f, <2>k DEF ThInv, RunInv, ReclaimFails
    <3>5. FailsUnposted'
      BY <1>6, <1>e, <1>s, <1>o, <1>y, <1>v, <2>e, <2>l, <2>f, <2>k DEF ThInv, RunInv,
        FailsUnposted, HasTok
    <3> QED  BY <3>1, <3>2, <3>3, <3>4, <3>5 DEF RunInv
  <2>3. BatonInv'
    BY <1>6, <1>e, <1>s, <1>o, <1>y, <1>v, <2>e, <2>l, <2>f, <2>k DEF ThInv, BatonInv,
      BatonSuspends, PostedWhole, KillSuspends, KillEnds, KilledIsKill, Suspends, Posted, Untargeted
  <2>4. CallInv'
    BY <1>6, <1>e, <1>s, <1>o, <1>y, <1>v, <2>e, <2>l, <2>f, <2>k DEF ThInv, CallInv, CallHasWorker,
      WorkerOfItself, WorkerCall, RunClaim
  <2>5. TokenInv'
    BY <1>6, <1>e, <1>s, <1>o, <1>y, <1>v, <2>e, <2>l, <2>f, <2>k, KeepTokens
  <2>6. CurrentInv'
    <3>1. \A k \in Hosts : pc'[k] \in Holds <=> pc[k] \in Holds
      BY <1>6, <1>e, <1>s, <1>o, <1>y, <1>v, <2>e, <2>l, <2>f, <2>k DEF Holds, TableInv, HostLabels
    <3>2. \A x \in Procs : pc[x] \in Handing => pc'[x] \in Handing /\ host'[tgt'[x]] = host[tgt[x]]
      BY <1>6, <1>e, <1>s, <1>o, <1>y, <1>v, <2>e, <2>l, <2>f, <2>k DEF Handing, TableInv,
        HostLabels, ClaimInv, ClaimHasTarget, TargetClaimed, RunClaim
    <3>3. \A x \in Procs : pc'[x] \in {"create", "post"} \/ (x \in Hosts /\ pc'[x] \in {"idle", "ready"}) =>
             wk'[x] = wk[x] /\ (pc[x] \in {"create", "post"} \/ (x \in Hosts /\ pc[x] \in {"idle", "ready"}))
      BY <1>6, <1>e, <1>s, <1>o, <1>y, <1>v, <2>e, <2>l, <2>f, <2>k DEF TableInv, HostLabels
    <3> QED  BY <3>1, <3>2, <3>3, <1>6, <1>v, <2>k, KeepCurrent
  <2>7. HandInv'
    BY <1>6, <1>e, <1>s, <1>o, <1>y, <1>v, <2>e, <2>l, <2>f, <2>k DEF ThInv, HandInv, HandWorker,
      PostStarted, CreateUnstarted
  <2>8. TcbInv'
    <3>1. TokenTcb'
      BY <1>6, <1>e, <1>s, <1>o, <1>y, <1>v, <2>e, <2>l, <2>f, <2>k DEF ThInv, TcbInv, TokenTcb,
        TokenInv, TokenAlive, TokenOnce, TokensKept
    <3>2. ThreadTcb'
      BY <1>6, <1>e, <1>s, <1>o, <1>y, <1>v, <2>e, <2>l, <2>f, <2>k DEF ThInv, TcbInv, ThreadTcb,
        TokenInv, TokenOnce, TokensKept
    <3>3. PostedTcb'
      BY <1>6, <1>e, <1>s, <1>o, <1>y, <1>v, <2>e, <2>l, <2>f, <2>k DEF ThInv, TcbInv, PostedTcb,
        TokenInv, TokenNotPosted, TokensKept
    <3> QED  BY <3>1, <3>2, <3>3 DEF TcbInv
  <2> QED  BY <2>1, <2>2, <2>3, <2>4, <2>5, <2>6, <2>7, <2>8 DEF ThInv
<1>7. ASSUME ~ThreadMode PROVE CoInv'
  <2>e. /\ p \in Workers /\ e \in Hosts \cup {p} /\ (\A w \in Workers : cpu[w] \in Procs /\ (cpu[w] = e => w = p))
        /\ e = IF tl[p] = None THEN p ELSE tl[p]
    BY <1>e, <1>7, OnCpu DEF CoInv, CpuInv, WorkersOn, StackOnce, OnTarget, Target
  <2>i. \A w \in Workers : tl[w] # host[o]
    <3> SUFFICES ASSUME NEW w \in Workers, tl[w] = host[o] PROVE FALSE
      OBVIOUS
    <3>1. tl[w] # None /\ obj[tl[w]] \in Objects \cup {None}
      BY <1>o DEF FTypes, TypeOK
    <3>2. Whole(tl[w]) /\ state[obj[tl[w]]] # "IDLE"
      BY <1>7, <3>1 DEF CoInv, SelfInv, SelfWhole, SelfState
    <3>3. obj[tl[w]] = o
      BY <1>o, <3>1, <3>2 DEF Whole, ObjectInv, NamedOnce
    <3> QED  BY <1>o, <3>2, <3>3
  <2>1. CpuInv'
    BY <1>7, <1>e, <1>s, <1>o, <1>y, <1>v, <2>e, <2>i DEF CoInv, CpuInv, HostsOff, WorkersOn,
      LeftFinishes, ThreadFinishes, StackOnce, OnTarget, LeavesForFiber, Target
  <2>2. SelfInv'
    <3>1. SelfWhole'
      BY <1>7, <1>e, <1>s, <1>o, <1>y, <1>v, <2>e, <2>i DEF CoInv, SelfInv, SelfWhole, Whole
    <3>2. CallWorker'
      BY <1>7, <1>e, <1>s, <1>o, <1>y, <1>v, <2>e, <2>i DEF CoInv, SelfInv, CallWorker, WorkerCall,
        RunClaim
    <3>3. CurrentSelf'
      BY <1>7, <1>e, <1>s, <1>o, <1>y, <1>v, <2>e, <2>i DEF CoInv, SelfInv, CurrentSelf
    <3>4. TcbCurrent'
      BY <1>7, <1>e, <1>s, <1>o, <1>y, <1>v, <2>e, <2>i DEF CoInv, SelfInv, TcbCurrent
    <3>5. SelfState'
      BY <1>7, <1>e, <1>s, <1>o, <1>y, <1>v, <2>e, <2>i DEF CoInv, SelfInv, SelfState
    <3> QED  BY <3>1, <3>2, <3>3, <3>4, <3>5 DEF SelfInv
  <2>3. ReleaseInv'
    BY <1>7, <1>e, <1>s, <1>o, <1>y, <1>v, <2>e, <2>i, KeepReleases DEF Whole
  <2>4. EnterInv'
    <3>1. EntersOther'
      BY <1>7, <1>e, <1>s, <1>o, <1>y, <1>v, <2>e, <2>i DEF CoInv, EnterInv, EntersOther
    <3>2. EntersTarget'
      BY <1>7, <1>e, <1>s, <1>o, <1>y, <1>v, <2>e, <2>i DEF CoInv, EnterInv, EntersTarget
    <3> QED  BY <3>1, <3>2 DEF EnterInv
  <2>5. NoThreads'
    BY <1>7, <1>e, <1>s, <1>o, <1>y, <1>v, <2>e, <2>i DEF CoInv, NoThreads
  <2> QED  BY <2>1, <2>2, <2>3, <2>4, <2>5 DEF CoInv
<1> QED  BY <1>1, <1>2, <1>3, <1>4, <1>5, <1>6, <1>7, <1>v DEF ThreadMode

(* An IDLE fiber is claimed to be ended.                                   *)
LEMMA Step_finalize ==
  ASSUME FailsAlone, FIInv, NEW p \in Procs, NEW o \in Objects, finalize(p, o)
  PROVE  FIInv'
<1> USE SetsAssumption DEF Procs, FIInv, Base
<1>e. PICK e \in Procs : e = cpu[p] /\ pc[e] = "guest"
  BY OnCpu DEF finalize, At
<1>o. o \in Objects /\ host[o] \in Hosts /\ state[o] = "IDLE" /\ \A d \in Procs : tgt[d] # o
  <2>1. host[o] # None /\ state[o] = "IDLE"
    BY DEF finalize, take_idle
  <2>2. \A d \in Procs : tgt[d] # o
    BY <2>1, ClaimedState
  <2> QED  BY <2>1, <2>2 DEF FTypes, TypeOK
<1>k. hstat[host[o]] = "live" /\ obj[host[o]] = o /\ ~kill[host[o]]
  <2>1. hstat[host[o]] = "live" /\ obj[host[o]] = o
    BY <1>o DEF ObjectInv, NamedLive
  <2>2. CASE ThreadMode
    BY <1>o, <2>1, <2>2 DEF ThInv, BatonInv, KillEnds
  <2>3. CASE ~ThreadMode
    BY <1>o, <2>1, <2>3 DEF CoInv, NoThreads
  <2> QED  BY <2>1, <2>2, <2>3
<1>y. /\ pc \in [Procs -> Labels]
      /\ state \in [Objects -> {"IDLE", "RUNNING", "SUSPENDING", "FINALIZED"}]
      /\ tgt \in [Procs -> Objects \cup {None}]
  BY DEF FTypes, TypeOK
<1>v. /\ pc' = [pc EXCEPT ![e] = "finalize"]
      /\ state' = [state EXCEPT ![o] = "FINALIZED"]
      /\ tgt' = [tgt EXCEPT ![e] = o]
      /\ UNCHANGED <<scenario, host, obj, hstat, hworker, started, kill, release, baton, current,
                           wstat, slot, tcb, wk, scan, cpu, tl, table, nworkers, look>>
  BY <1>e, <1>o, <1>k, <1>y DEF finalize, At, Goto, Done, F, H, W, SelfObj, objvars, hostvars,
    callvars, tabvars, take_idle
<1>1. FTypes'
  BY <1>e, <1>o, <1>k, <1>y, <1>v DEF FTypes, TypeOK, Labels
<1>2. ObjectInv'
  BY <1>e, <1>o, <1>k, <1>y, <1>v DEF ObjectInv, NamedLive, NamedUsed, NamedOnce, UnusedClean,
    LiveNamed, LiveKept
<1>3. ClaimInv'
  <2>1. ClaimHasTarget'
    BY <1>e, <1>o, <1>k, <1>y, <1>v DEF ClaimInv, ClaimHasTarget, RunClaim, EndClaim
  <2>2. TargetClaimed'
    BY <1>e, <1>o, <1>k, <1>y, <1>v DEF ClaimInv, TargetClaimed, RunClaim, EndClaim, ClaimHasTarget
  <2>3. ClaimedOnce'
    BY <1>e, <1>o, <1>k, <1>y, <1>v DEF ClaimInv, ClaimedOnce
  <2>4. EndedWhole'
    <3>1. \A x \in Procs \ {e} : pc'[x] = pc[x] /\ tgt'[x] = tgt[x]
      BY <1>y, <1>v
    <3>2. tgt'[e] = o
      BY <1>y, <1>v
    <3> QED  BY <1>v, <1>k, <3>1, <3>2 DEF ClaimInv, EndedWhole
  <2>5. ClearedGone'
    BY <1>e, <1>o, <1>k, <1>y, <1>v DEF ClaimInv, ClearedGone, ClaimHasTarget, RunClaim, EndClaim,
      TargetClaimed
  <2> QED  BY <2>1, <2>2, <2>3, <2>4, <2>5 DEF ClaimInv
<1>4. TableInv'
  BY <1>e, <1>o, <1>k, <1>y, <1>v DEF TableInv, ListedLive, LiveListed, ScanBounded, Publishing,
    ExitLive, NoWorkerNoSlot, WorkerNew, HostLabels
<1>5. LookInv'
  BY <1>e, <1>o, <1>k, <1>y, <1>v DEF LookInv, OffEmpty, ScansFromOne, HasWorker, WorkerSafe,
    FiberSafe
<1>6. ASSUME ThreadMode PROVE ThInv'
  <2>e. e = p /\ ThreadInv /\ HasTok(e)
    BY <1>e, <1>6, OnCpu DEF ThInv, ThreadInv, OwnThread, HasTok
  <2>l. \A x \in Hosts : pc[x] \notin {"none", "dead"} => hstat[x] = "live" /\ obj[x] \in Objects
    BY <2>e DEF ThreadInv, RunsLive, ObjectInv, LiveNamed, FTypes, TypeOK
  <2>f. \A x \in Hosts : Failing(x) => x = e
    BY <1>6, <2>e, OnlyFailing
  <2>k. TokensKept
    BY <1>6, <1>e, <1>o, <1>k, <1>y, <1>v, <2>e, <2>l, <2>f DEF ThInv, TokensKept, HasTok, TokOf,
      Posted, PostOf, RunInv, RunsOnItsWorker, WorkerCall, RunClaim, SelfRun, Failing, BatonInv,
      PostedWhole, Untargeted, Suspends
  <2>1. ThreadInv'
    BY <1>6, <1>e, <1>o, <1>k, <1>y, <1>v, <2>e, <2>l, <2>f, <2>k DEF ThInv, ThreadInv, OwnThread,
      NoSwitch, WorkerLabels, StartedRuns, RunsLive
  <2>2. RunInv'
    <3>1. RunsWhole'
      BY <1>6, <1>e, <1>o, <1>k, <1>y, <1>v, <2>e, <2>l, <2>f, <2>k DEF ThInv, RunInv, RunsWhole,
        SelfRun, Unrun, Untargeted, TableInv, HostLabels
    <3>2. FailsWhole'
      BY <1>6, <1>e, <1>o, <1>k, <1>y, <1>v, <2>e, <2>l, <2>f, <2>k DEF ThInv, RunInv, FailsWhole,
        Failing, Unrun, Untargeted
    <3>3. RunsOnItsWorker'
      BY <1>6, <1>e, <1>o, <1>k, <1>y, <1>v, <2>e, <2>l, <2>f, <2>k DEF ThInv, RunInv,
        RunsOnItsWorker, WorkerCall, RunClaim, SelfRun, Failing
    <3>4. ReclaimFails'
      BY <1>6, <1>e, <1>o, <1>k, <1>y, <1>v, <2>e, <2>l, <2>f, <2>k DEF ThInv, RunInv, ReclaimFails
    <3>5. FailsUnposted'
      BY <1>6, <1>e, <1>o, <1>k, <1>y, <1>v, <2>e, <2>l, <2>f, <2>k DEF ThInv, RunInv,
        FailsUnposted, HasTok
    <3> QED  BY <3>1, <3>2, <3>3, <3>4, <3>5 DEF RunInv
  <2>3. BatonInv'
    BY <1>6, <1>e, <1>o, <1>k, <1>y, <1>v, <2>e, <2>l, <2>f, <2>k DEF ThInv, BatonInv,
      BatonSuspends, PostedWhole, KillSuspends, KillEnds, KilledIsKill, Suspends, Posted, Untargeted
  <2>4. CallInv'
    BY <1>6, <1>e, <1>o, <1>k, <1>y, <1>v, <2>e, <2>l, <2>f, <2>k DEF ThInv, CallInv, CallHasWorker,
      WorkerOfItself, WorkerCall, RunClaim
  <2>5. TokenInv'
    BY <1>6, <1>e, <1>o, <1>k, <1>y, <1>v, <2>e, <2>l, <2>f, <2>k, KeepTokens
  <2>6. CurrentInv'
    <3>1. \A k \in Hosts : pc'[k] \in Holds <=> pc[k] \in Holds
      BY <1>6, <1>e, <1>o, <1>k, <1>y, <1>v, <2>e, <2>l, <2>f, <2>k DEF Holds, TableInv, HostLabels
    <3>2. \A x \in Procs : pc[x] \in Handing => pc'[x] \in Handing /\ host'[tgt'[x]] = host[tgt[x]]
      BY <1>6, <1>e, <1>o, <1>k, <1>y, <1>v, <2>e, <2>l, <2>f, <2>k DEF Handing, TableInv,
        HostLabels, ClaimInv, ClaimHasTarget, TargetClaimed, RunClaim
    <3>3. \A x \in Procs : pc'[x] \in {"create", "post"} \/ (x \in Hosts /\ pc'[x] \in {"idle", "ready"}) =>
             wk'[x] = wk[x] /\ (pc[x] \in {"create", "post"} \/ (x \in Hosts /\ pc[x] \in {"idle", "ready"}))
      BY <1>6, <1>e, <1>o, <1>k, <1>y, <1>v, <2>e, <2>l, <2>f, <2>k DEF TableInv, HostLabels
    <3> QED  BY <3>1, <3>2, <3>3, <1>6, <1>v, <2>k, KeepCurrent
  <2>7. HandInv'
    BY <1>6, <1>e, <1>o, <1>k, <1>y, <1>v, <2>e, <2>l, <2>f, <2>k DEF ThInv, HandInv, HandWorker,
      PostStarted, CreateUnstarted
  <2>8. TcbInv'
    <3>1. TokenTcb'
      BY <1>6, <1>e, <1>o, <1>k, <1>y, <1>v, <2>e, <2>l, <2>f, <2>k DEF ThInv, TcbInv, TokenTcb,
        TokenInv, TokenAlive, TokenOnce, TokensKept
    <3>2. ThreadTcb'
      BY <1>6, <1>e, <1>o, <1>k, <1>y, <1>v, <2>e, <2>l, <2>f, <2>k DEF ThInv, TcbInv, ThreadTcb,
        TokenInv, TokenOnce, TokensKept
    <3>3. PostedTcb'
      BY <1>6, <1>e, <1>o, <1>k, <1>y, <1>v, <2>e, <2>l, <2>f, <2>k DEF ThInv, TcbInv, PostedTcb,
        TokenInv, TokenNotPosted, TokensKept
    <3> QED  BY <3>1, <3>2, <3>3 DEF TcbInv
  <2> QED  BY <2>1, <2>2, <2>3, <2>4, <2>5, <2>6, <2>7, <2>8 DEF ThInv
<1>7. ASSUME ~ThreadMode PROVE CoInv'
  <2>e. /\ p \in Workers /\ e \in Hosts \cup {p} /\ (\A w \in Workers : cpu[w] \in Procs /\ (cpu[w] = e => w = p))
        /\ e = IF tl[p] = None THEN p ELSE tl[p]
    BY <1>e, <1>7, OnCpu DEF CoInv, CpuInv, WorkersOn, StackOnce, OnTarget, Target
  <2>i. \A w \in Workers : tl[w] # host[o]
    <3> SUFFICES ASSUME NEW w \in Workers, tl[w] = host[o] PROVE FALSE
      OBVIOUS
    <3>1. tl[w] # None /\ obj[tl[w]] \in Objects \cup {None}
      BY <1>o DEF FTypes, TypeOK
    <3>2. Whole(tl[w]) /\ state[obj[tl[w]]] # "IDLE"
      BY <1>7, <3>1 DEF CoInv, SelfInv, SelfWhole, SelfState
    <3>3. obj[tl[w]] = o
      BY <1>o, <3>1, <3>2 DEF Whole, ObjectInv, NamedOnce
    <3> QED  BY <1>o, <3>2, <3>3
  <2>1. CpuInv'
    BY <1>7, <1>e, <1>o, <1>k, <1>y, <1>v, <2>e, <2>i DEF CoInv, CpuInv, HostsOff, WorkersOn,
      LeftFinishes, ThreadFinishes, StackOnce, OnTarget, LeavesForFiber, Target
  <2>2. SelfInv'
    BY <1>7, <1>e, <1>o, <1>k, <1>y, <1>v, <2>e, <2>i DEF CoInv, SelfInv, SelfWhole, CallWorker,
      CurrentSelf, TcbCurrent, SelfState, Whole, WorkerCall, RunClaim
  <2>3. ReleaseInv'
    BY <1>7, <1>e, <1>o, <1>k, <1>y, <1>v, <2>e, <2>i, KeepReleases DEF Whole
  <2>4. EnterInv'
    <3>1. EntersOther'
      BY <1>7, <1>e, <1>o, <1>k, <1>y, <1>v, <2>e, <2>i DEF CoInv, EnterInv, EntersOther
    <3>2. EntersTarget'
      BY <1>7, <1>e, <1>o, <1>k, <1>y, <1>v, <2>e, <2>i DEF CoInv, EnterInv, EntersTarget
    <3> QED  BY <3>1, <3>2 DEF EnterInv
  <2>5. NoThreads'
    BY <1>7, <1>e, <1>o, <1>k, <1>y, <1>v, <2>e, <2>i DEF CoInv, NoThreads
  <2> QED  BY <2>1, <2>2, <2>3, <2>4, <2>5 DEF CoInv
<1> QED  BY <1>1, <1>2, <1>3, <1>4, <1>5, <1>6, <1>7, <1>v DEF ThreadMode

(* A fiber is made of memory no valid fiber is in.                         *)
LEMMA Step_fiber_initialize ==
  ASSUME FailsAlone, FIInv, NEW p \in Procs, NEW o \in Objects, fiber_initialize(p, o)
  PROVE  FIInv'
<1> USE SetsAssumption DEF Procs, FIInv, Base
<1>e. PICK e \in Procs : e = cpu[p] /\ pc[e] = "guest"
  BY OnCpu DEF fiber_initialize, At
<1>y. /\ hstat \in [Hosts -> {"unused", "live", "freed"}]
      /\ obj \in [Hosts -> Objects \cup {None}]
      /\ host \in [Objects -> Hosts \cup {None}]
      /\ state \in [Objects -> {"IDLE", "RUNNING", "SUSPENDING", "FINALIZED"}]
  BY DEF FTypes, TypeOK
<1>v. PICK h \in Hosts :
        /\ host[o] = None
        /\ hstat[h] = "unused"
        /\ hstat' = [hstat EXCEPT ![h] = "live"]
        /\ obj' = [obj EXCEPT ![h] = o]
        /\ host' = [host EXCEPT ![o] = h]
        /\ state' = [state EXCEPT ![o] = "IDLE"]
        /\ UNCHANGED <<scenario, hworker, started, kill, release, baton, current, wstat, slot, tcb,
                             pc, tgt, wk, scan, cpu, tl, table, nworkers, look>>
  BY <1>e, <1>y DEF fiber_initialize, At, Goto, Done, F, H, W, SelfObj, objvars, hostvars, callvars,
    tabvars
<1>k. (\A x \in Objects : host[x] # h) /\ (\A x \in Procs : tgt[x] # o) /\ ~started[h] /\ ~kill[h] /\ ~baton[h]
  BY <1>v DEF ObjectInv, NamedUsed, UnusedClean, ClaimInv, TargetClaimed
<1>1. FTypes'
  BY <1>e, <1>y, <1>v, <1>k DEF FTypes, TypeOK, Labels
<1>2. ObjectInv'
  BY <1>e, <1>y, <1>v, <1>k DEF ObjectInv, NamedLive, NamedUsed, NamedOnce, UnusedClean, LiveNamed,
    LiveKept
<1>3. ClaimInv'
  BY <1>e, <1>y, <1>v, <1>k DEF ClaimInv, ClaimHasTarget, TargetClaimed, ClaimedOnce, EndedWhole,
    ClearedGone, RunClaim, EndClaim
<1>4. TableInv'
  BY <1>e, <1>y, <1>v, <1>k DEF TableInv, ListedLive, LiveListed, ScanBounded, Publishing, ExitLive,
    NoWorkerNoSlot, WorkerNew, HostLabels
<1>5. LookInv'
  BY <1>e, <1>y, <1>v, <1>k DEF LookInv, OffEmpty, ScansFromOne, HasWorker, WorkerSafe, FiberSafe
<1>6. ASSUME ThreadMode PROVE ThInv'
  <2>e. e = p /\ ThreadInv /\ HasTok(e)
    BY <1>e, <1>6, OnCpu DEF ThInv, ThreadInv, OwnThread, HasTok
  <2>l. \A x \in Hosts : pc[x] \notin {"none", "dead"} => hstat[x] = "live" /\ obj[x] \in Objects
    BY <2>e DEF ThreadInv, RunsLive, ObjectInv, LiveNamed, FTypes, TypeOK
  <2>f. \A x \in Hosts : Failing(x) => x = e
    BY <1>6, <2>e, OnlyFailing
  <2>n. pc[h] \in {"none", "dead"}
    BY <1>6, <1>k, <2>e DEF ThInv, ThreadInv, StartedRuns
  <2>k. TokensKept
    BY <1>6, <1>e, <1>y, <1>v, <1>k, <2>e, <2>l, <2>f, <2>n DEF ThInv, TokensKept, HasTok, TokOf,
      Posted, PostOf, RunInv, RunsOnItsWorker, WorkerCall, RunClaim, SelfRun, Failing, BatonInv,
      PostedWhole, Untargeted, Suspends
  <2>1. ThreadInv'
    BY <1>6, <1>e, <1>y, <1>v, <1>k, <2>e, <2>l, <2>f, <2>n, <2>k DEF ThInv, ThreadInv, OwnThread,
      NoSwitch, WorkerLabels, StartedRuns, RunsLive
  <2>2. RunInv'
    <3>1. RunsWhole'
      BY <1>6, <1>e, <1>y, <1>v, <1>k, <2>e, <2>l, <2>f, <2>n, <2>k DEF ThInv, RunInv, RunsWhole,
        SelfRun, Unrun, Untargeted, TableInv, HostLabels
    <3>2. FailsWhole'
      BY <1>6, <1>e, <1>y, <1>v, <1>k, <2>e, <2>l, <2>f, <2>n, <2>k DEF ThInv, RunInv, FailsWhole,
        Failing, Unrun, Untargeted
    <3>3. RunsOnItsWorker'
      BY <1>6, <1>e, <1>y, <1>v, <1>k, <2>e, <2>l, <2>f, <2>n, <2>k DEF ThInv, RunInv,
        RunsOnItsWorker, WorkerCall, RunClaim, SelfRun, Failing
    <3>4. ReclaimFails'
      BY <1>6, <1>e, <1>y, <1>v, <1>k, <2>e, <2>l, <2>f, <2>n, <2>k DEF ThInv, RunInv, ReclaimFails
    <3>5. FailsUnposted'
      BY <1>6, <1>e, <1>y, <1>v, <1>k, <2>e, <2>l, <2>f, <2>n, <2>k DEF ThInv, RunInv,
        FailsUnposted, HasTok
    <3> QED  BY <3>1, <3>2, <3>3, <3>4, <3>5 DEF RunInv
  <2>3. BatonInv'
    <3>1. BatonSuspends'
      BY <1>6, <1>e, <1>y, <1>v, <1>k, <2>e, <2>l, <2>f, <2>n, <2>k DEF ThInv, BatonInv,
        BatonSuspends, Suspends
    <3>2. PostedWhole'
      BY <1>6, <1>e, <1>y, <1>v, <1>k, <2>e, <2>l, <2>f, <2>n, <2>k DEF ThInv, BatonInv,
        PostedWhole, Posted, Untargeted, BatonSuspends, Suspends
    <3>3. KillSuspends'
      BY <1>6, <1>e, <1>y, <1>v, <1>k, <2>e, <2>l, <2>f, <2>n, <2>k DEF ThInv, BatonInv,
        KillSuspends, Suspends
    <3>4. KillEnds'
      BY <1>6, <1>e, <1>y, <1>v, <1>k, <2>e, <2>l, <2>f, <2>n, <2>k DEF ThInv, BatonInv, KillEnds,
        KillSuspends, Suspends
    <3>5. KilledIsKill'
      BY <1>6, <1>e, <1>y, <1>v, <1>k, <2>e, <2>l, <2>f, <2>n, <2>k DEF ThInv, BatonInv,
        KilledIsKill
    <3> QED  BY <3>1, <3>2, <3>3, <3>4, <3>5 DEF BatonInv
  <2>4. CallInv'
    BY <1>6, <1>e, <1>y, <1>v, <1>k, <2>e, <2>l, <2>f, <2>n, <2>k DEF ThInv, CallInv, CallHasWorker,
      WorkerOfItself, WorkerCall, RunClaim
  <2>5. TokenInv'
    BY <1>6, <1>e, <1>y, <1>v, <1>k, <2>e, <2>l, <2>f, <2>n, <2>k, KeepTokens
  <2>6. CurrentInv'
    <3>1. \A k \in Hosts : pc'[k] \in Holds <=> pc[k] \in Holds
      BY <1>6, <1>e, <1>y, <1>v, <1>k, <2>e, <2>l, <2>f, <2>n, <2>k DEF Holds, TableInv, HostLabels
    <3>2. \A x \in Procs : pc[x] \in Handing => pc'[x] \in Handing /\ host'[tgt'[x]] = host[tgt[x]]
      BY <1>6, <1>e, <1>y, <1>v, <1>k, <2>e, <2>l, <2>f, <2>n, <2>k DEF Handing, TableInv,
        HostLabels, ClaimInv, ClaimHasTarget, TargetClaimed, RunClaim
    <3>3. \A x \in Procs : pc'[x] \in {"create", "post"} \/ (x \in Hosts /\ pc'[x] \in {"idle", "ready"}) =>
             wk'[x] = wk[x] /\ (pc[x] \in {"create", "post"} \/ (x \in Hosts /\ pc[x] \in {"idle", "ready"}))
      BY <1>6, <1>e, <1>y, <1>v, <1>k, <2>e, <2>l, <2>f, <2>n, <2>k DEF TableInv, HostLabels
    <3> QED  BY <3>1, <3>2, <3>3, <1>6, <1>v, <2>k, KeepCurrent
  <2>7. HandInv'
    <3>1. HandWorker'
      BY <1>6, <1>e, <1>y, <1>v, <1>k, <2>e, <2>l, <2>f, <2>n, <2>k DEF ThInv, HandInv, HandWorker,
        ClaimInv, ClaimHasTarget, RunClaim, EndClaim, TargetClaimed, ClaimedOnce, ObjectInv,
        NamedOnce
    <3>2. PostStarted'
      BY <1>6, <1>e, <1>y, <1>v, <1>k, <2>e, <2>l, <2>f, <2>n, <2>k DEF ThInv, HandInv, PostStarted
    <3>3. CreateUnstarted'
      BY <1>6, <1>e, <1>y, <1>v, <1>k, <2>e, <2>l, <2>f, <2>n, <2>k DEF ThInv, HandInv,
        CreateUnstarted
    <3> QED  BY <3>1, <3>2, <3>3 DEF HandInv
  <2>8. TcbInv'
    <3>1. TokenTcb'
      BY <1>6, <1>e, <1>y, <1>v, <1>k, <2>e, <2>l, <2>f, <2>n, <2>k DEF ThInv, TcbInv, TokenTcb,
        TokenInv, TokenAlive, TokenOnce, TokensKept
    <3>2. ThreadTcb'
      BY <1>6, <1>e, <1>y, <1>v, <1>k, <2>e, <2>l, <2>f, <2>n, <2>k DEF ThInv, TcbInv, ThreadTcb,
        TokenInv, TokenOnce, TokensKept
    <3>3. PostedTcb'
      BY <1>6, <1>e, <1>y, <1>v, <1>k, <2>e, <2>l, <2>f, <2>n, <2>k DEF ThInv, TcbInv, PostedTcb,
        TokenInv, TokenNotPosted, TokensKept
    <3> QED  BY <3>1, <3>2, <3>3 DEF TcbInv
  <2> QED  BY <2>1, <2>2, <2>3, <2>4, <2>5, <2>6, <2>7, <2>8 DEF ThInv
<1>7. ASSUME ~ThreadMode PROVE CoInv'
  <2>e. /\ p \in Workers /\ e \in Hosts \cup {p} /\ (\A w \in Workers : cpu[w] \in Procs /\ (cpu[w] = e => w = p))
        /\ e = IF tl[p] = None THEN p ELSE tl[p]
    BY <1>e, <1>7, OnCpu DEF CoInv, CpuInv, WorkersOn, StackOnce, OnTarget, Target
  <2>i. (\A w \in Workers : tl[w] # h) /\ (\A x \in Procs : release[x] # o)
    BY <1>7, <1>v DEF CoInv, SelfInv, SelfWhole, Whole, ReleaseInv, ReleaseSuspending
  <2>1. CpuInv'
    BY <1>7, <1>e, <1>y, <1>v, <1>k, <2>e, <2>i DEF CoInv, CpuInv, HostsOff, WorkersOn,
      LeftFinishes, ThreadFinishes, StackOnce, OnTarget, LeavesForFiber, Target
  <2>2. SelfInv'
    BY <1>7, <1>e, <1>y, <1>v, <1>k, <2>e, <2>i DEF CoInv, SelfInv, SelfWhole, CallWorker,
      CurrentSelf, TcbCurrent, SelfState, Whole, WorkerCall, RunClaim
  <2>3. ReleaseInv'
    BY <1>7, <1>e, <1>y, <1>v, <1>k, <2>e, <2>i, KeepReleases DEF Whole
  <2>4. EnterInv'
    <3>1. EntersOther'
      BY <1>7, <1>e, <1>y, <1>v, <1>k, <2>e, <2>i DEF CoInv, EnterInv, EntersOther
    <3>2. EntersTarget'
      BY <1>7, <1>e, <1>y, <1>v, <1>k, <2>e, <2>i DEF CoInv, EnterInv, EntersTarget
    <3> QED  BY <3>1, <3>2 DEF EnterInv
  <2>5. NoThreads'
    BY <1>7, <1>e, <1>y, <1>v, <1>k, <2>e, <2>i DEF CoInv, NoThreads
  <2> QED  BY <2>1, <2>2, <2>3, <2>4, <2>5 DEF CoInv
<1> QED  BY <1>1, <1>2, <1>3, <1>4, <1>5, <1>6, <1>7, <1>v DEF ThreadMode

(* A fiber hands its worker back to the thread's code.                     *)
LEMMA Step_return_to_thread ==
  ASSUME FailsAlone, FIInv, NEW p \in Procs, return_to_thread(p)
  PROVE  FIInv'
<1> USE SetsAssumption DEF Procs, FIInv, Base
<1>e. PICK e \in Procs : e = cpu[p] /\ pc[e] = "guest"
  BY OnCpu DEF return_to_thread, At
<1>s. PICK s \in Hosts, q \in Objects :
        /\ s = tl[p] /\ q = obj[s] /\ host[q] = s /\ hstat[s] = "live" /\ state[q] = "RUNNING"
        /\ (\A d \in Procs : tgt[d] # q) /\ hworker[s] \in Workers /\ (~ThreadMode => hworker[s] = p)
  BY <1>e, SelfRunning DEF return_to_thread
<1>y. /\ pc \in [Procs -> Labels]
      /\ wk \in [Procs -> Workers \cup {None}]
      /\ current \in [Workers -> Hosts \cup {None}]
      /\ tcb \in [Workers -> Procs]
  BY DEF FTypes, TypeOK
<1>v. /\ tl[p] # None
      /\ pc' = [pc EXCEPT ![e] = "return"]
      /\ wk' = [wk EXCEPT ![e] = hworker[s]]
      /\ current' = [current EXCEPT ![hworker[s]] = None]
      /\ tcb' = [tcb EXCEPT ![hworker[s]] = hworker[s]]
      /\ UNCHANGED <<scenario, state, host, obj, hstat, hworker, started, kill, release, baton,
                           wstat, slot, tgt, scan, cpu, tl, table, nworkers, look>>
  BY <1>e, <1>s, <1>y DEF return_to_thread, At, Goto, Done, F, H, W, SelfObj, objvars, hostvars,
    callvars, tabvars
<1>1. FTypes'
  BY <1>e, <1>s, <1>y, <1>v DEF FTypes, TypeOK, Labels
<1>2. ObjectInv'
  BY <1>e, <1>s, <1>y, <1>v DEF ObjectInv, NamedLive, NamedUsed, NamedOnce, UnusedClean, LiveNamed,
    LiveKept
<1>3. ClaimInv'
  <2>1. ClaimHasTarget'
    BY <1>e, <1>s, <1>y, <1>v DEF ClaimInv, ClaimHasTarget, RunClaim, EndClaim
  <2>2. TargetClaimed'
    BY <1>e, <1>s, <1>y, <1>v DEF ClaimInv, TargetClaimed, RunClaim, EndClaim, ClaimHasTarget
  <2>3. ClaimedOnce'
    BY <1>e, <1>s, <1>y, <1>v DEF ClaimInv, ClaimedOnce
  <2>4. EndedWhole'
    BY <1>e, <1>s, <1>y, <1>v DEF ClaimInv, EndedWhole, ClaimHasTarget, RunClaim, EndClaim,
      ClaimedOnce, TargetClaimed
  <2>5. ClearedGone'
    BY <1>e, <1>s, <1>y, <1>v DEF ClaimInv, ClearedGone, ClaimHasTarget, RunClaim, EndClaim,
      TargetClaimed
  <2> QED  BY <2>1, <2>2, <2>3, <2>4, <2>5 DEF ClaimInv
<1>4. TableInv'
  BY <1>e, <1>s, <1>y, <1>v DEF TableInv, ListedLive, LiveListed, ScanBounded, Publishing, ExitLive,
    NoWorkerNoSlot, WorkerNew, HostLabels
<1>5. LookInv'
  BY <1>e, <1>s, <1>y, <1>v DEF LookInv, OffEmpty, ScansFromOne, HasWorker, WorkerSafe, FiberSafe
<1>6. ASSUME ThreadMode PROVE ThInv'
  <2>e. e = p /\ ThreadInv /\ s = p /\ HasTok(e)
    BY <1>e, <1>6, <1>s, OnCpu DEF ThInv, ThreadInv, OwnThread, HasTok
  <2>l. \A x \in Hosts : pc[x] \notin {"none", "dead"} => hstat[x] = "live" /\ obj[x] \in Objects
    BY <2>e DEF ThreadInv, RunsLive, ObjectInv, LiveNamed, FTypes, TypeOK
  <2>f. \A x \in Hosts : Failing(x) => x = e
    BY <1>6, <2>e, OnlyFailing
  <2>c. PICK v \in Workers : v = hworker[s] /\ v = TokOf(e)
    BY <1>e, <1>6, <1>s, <2>e DEF TokOf
  <2>k. TokensKept
    BY <1>6, <1>e, <1>s, <1>y, <1>v, <2>e, <2>l, <2>f, <2>c DEF ThInv, TokensKept, HasTok, TokOf,
      Posted, PostOf, RunInv, RunsOnItsWorker, WorkerCall, RunClaim, SelfRun, Failing, BatonInv,
      PostedWhole, Untargeted, Suspends
  <2>1. ThreadInv'
    BY <1>6, <1>e, <1>s, <1>y, <1>v, <2>e, <2>l, <2>f, <2>c, <2>k DEF ThInv, ThreadInv, OwnThread,
      NoSwitch, WorkerLabels, StartedRuns, RunsLive
  <2>2. RunInv'
    <3>1. RunsWhole'
      BY <1>6, <1>e, <1>s, <1>y, <1>v, <2>e, <2>l, <2>f, <2>c, <2>k DEF ThInv, RunInv, RunsWhole,
        SelfRun, Unrun, Untargeted, TableInv, HostLabels
    <3>2. FailsWhole'
      BY <1>6, <1>e, <1>s, <1>y, <1>v, <2>e, <2>l, <2>f, <2>c, <2>k DEF ThInv, RunInv, FailsWhole,
        Failing, Unrun, Untargeted
    <3>3. RunsOnItsWorker'
      BY <1>6, <1>e, <1>s, <1>y, <1>v, <2>e, <2>l, <2>f, <2>c, <2>k DEF ThInv, RunInv,
        RunsOnItsWorker, WorkerCall, RunClaim, SelfRun, Failing
    <3>4. ReclaimFails'
      BY <1>6, <1>e, <1>s, <1>y, <1>v, <2>e, <2>l, <2>f, <2>c, <2>k DEF ThInv, RunInv, ReclaimFails
    <3>5. FailsUnposted'
      BY <1>6, <1>e, <1>s, <1>y, <1>v, <2>e, <2>l, <2>f, <2>c, <2>k DEF ThInv, RunInv,
        FailsUnposted, HasTok
    <3> QED  BY <3>1, <3>2, <3>3, <3>4, <3>5 DEF RunInv
  <2>3. BatonInv'
    BY <1>6, <1>e, <1>s, <1>y, <1>v, <2>e, <2>l, <2>f, <2>c, <2>k DEF ThInv, BatonInv,
      BatonSuspends, PostedWhole, KillSuspends, KillEnds, KilledIsKill, Suspends, Posted, Untargeted
  <2>4. CallInv'
    BY <1>6, <1>e, <1>s, <1>y, <1>v, <2>e, <2>l, <2>f, <2>c, <2>k DEF ThInv, CallInv, CallHasWorker,
      WorkerOfItself, WorkerCall, RunClaim
  <2>5. TokenInv'
    BY <1>6, <1>e, <1>s, <1>y, <1>v, <2>e, <2>l, <2>f, <2>c, <2>k, KeepTokens
  <2>6. CurrentInv'
    <3>1. \A w \in Workers : w # v => current'[w] = current[w]
      BY <1>6, <1>e, <1>s, <1>y, <1>v, <2>e, <2>l, <2>f, <2>c, <2>k
    <3>2. \A x \in Procs : x # e => pc'[x] = pc[x] /\ wk'[x] = wk[x] /\ (pc[x] \in Handing => host'[tgt'[x]] = host[tgt[x]])
      BY <1>6, <1>e, <1>s, <1>y, <1>v, <2>e, <2>l, <2>f, <2>c, <2>k DEF Handing
    <3>3. current'[v] # None => (current'[v] = e /\ pc'[e] \in Holds) \/ (current'[v] = host'[tgt'[e]] /\ pc'[e] \in Handing)
      BY <1>6, <1>e, <1>s, <1>y, <1>v, <2>e, <2>l, <2>f, <2>c, <2>k DEF Handing, Holds
    <3>4. e \in Hosts /\ pc'[e] \in Holds => current'[v] = e
      BY <1>6, <1>e, <1>s, <1>y, <1>v, <2>e, <2>l, <2>f, <2>c, <2>k DEF Holds
    <3>5. pc'[e] \in {"create", "post"} \/ (e \in Hosts /\ pc'[e] \in {"idle", "ready"}) =>
             wk'[e] = v /\ current'[v] = host'[tgt'[e]]
      BY <1>6, <1>e, <1>s, <1>y, <1>v, <2>e, <2>l, <2>f, <2>c, <2>k
    <3> QED  BY <3>1, <3>2, <3>3, <3>4, <3>5, <1>6, <2>e, <2>k, <2>c, SetCurrent
  <2>7. HandInv'
    BY <1>6, <1>e, <1>s, <1>y, <1>v, <2>e, <2>l, <2>f, <2>c, <2>k DEF ThInv, HandInv, HandWorker,
      PostStarted, CreateUnstarted
  <2>8. TcbInv'
    <3>1. TokenTcb'
      BY <1>6, <1>e, <1>s, <1>y, <1>v, <2>e, <2>l, <2>f, <2>c, <2>k DEF ThInv, TcbInv, TokenTcb,
        TokenInv, TokenAlive, TokenOnce, TokensKept
    <3>2. ThreadTcb'
      BY <1>6, <1>e, <1>s, <1>y, <1>v, <2>e, <2>l, <2>f, <2>c, <2>k DEF ThInv, TcbInv, ThreadTcb,
        TokenInv, TokenOnce, TokensKept
    <3>3. PostedTcb'
      <4>1. \A x \in Hosts : Posted(x) => hworker[x] \in Workers \ {v}
        BY <1>6, <2>c, <2>e DEF ThInv, TokenInv, TokenNotPosted, PostAlive, PostOf, FTypes
      <4> QED  BY <1>6, <1>y, <1>v, <2>c, <2>k, <4>1 DEF ThInv, TcbInv, PostedTcb, TokensKept
    <3> QED  BY <3>1, <3>2, <3>3 DEF TcbInv
  <2> QED  BY <2>1, <2>2, <2>3, <2>4, <2>5, <2>6, <2>7, <2>8 DEF ThInv
<1>7. ASSUME ~ThreadMode PROVE CoInv'
  <2>e. /\ p \in Workers /\ e \in Hosts \cup {p} /\ (\A w \in Workers : cpu[w] \in Procs /\ (cpu[w] = e => w = p))
        /\ e = IF tl[p] = None THEN p ELSE tl[p]
    BY <1>e, <1>7, OnCpu DEF CoInv, CpuInv, WorkersOn, StackOnce, OnTarget, Target
  <2>1. CpuInv'
    BY <1>7, <1>e, <1>s, <1>y, <1>v, <2>e DEF CoInv, CpuInv, HostsOff, WorkersOn, LeftFinishes,
      ThreadFinishes, StackOnce, OnTarget, LeavesForFiber, Target
  <2>2. SelfInv'
    <3>1. SelfWhole'
      BY <1>7, <1>e, <1>s, <1>y, <1>v, <2>e DEF CoInv, SelfInv, SelfWhole, Whole
    <3>2. CallWorker'
      BY <1>7, <1>e, <1>s, <1>y, <1>v, <2>e DEF CoInv, SelfInv, CallWorker, WorkerCall, RunClaim
    <3>3. CurrentSelf'
      BY <1>7, <1>e, <1>s, <1>y, <1>v, <2>e DEF CoInv, SelfInv, CurrentSelf
    <3>4. TcbCurrent'
      BY <1>7, <1>e, <1>s, <1>y, <1>v, <2>e DEF CoInv, SelfInv, TcbCurrent
    <3>5. SelfState'
      BY <1>7, <1>e, <1>s, <1>y, <1>v, <2>e DEF CoInv, SelfInv, SelfState
    <3> QED  BY <3>1, <3>2, <3>3, <3>4, <3>5 DEF SelfInv
  <2>3. ReleaseInv'
    BY <1>7, <1>e, <1>s, <1>y, <1>v, <2>e, KeepReleases DEF Whole
  <2>4. EnterInv'
    BY <1>7, <1>e, <1>s, <1>y, <1>v, <2>e DEF CoInv, EnterInv, EntersOther, EntersTarget
  <2>5. NoThreads'
    BY <1>7, <1>e, <1>s, <1>y, <1>v, <2>e DEF CoInv, NoThreads
  <2> QED  BY <2>1, <2>2, <2>3, <2>4, <2>5 DEF CoInv
<1> QED  BY <1>1, <1>2, <1>3, <1>4, <1>5, <1>6, <1>7, <1>v DEF ThreadMode

-----------------------------------------------------------------------------
(* The lookups change nothing but look.                                    *)
LEMMA KeepWorld ==
  ASSUME FIInv, UNCHANGED worldvars, look' \in [Lookers -> LookRecs], LookInv'
  PROVE  FIInv'
<1> USE DEF FIInv, Base, worldvars, objvars, hostvars, callvars, tabvars
<1>1. FTypes'
  BY DEF FTypes, TypeOK
<1>2. ObjectInv'
  BY DEF ObjectInv, NamedLive, NamedUsed, NamedOnce, UnusedClean, LiveNamed, LiveKept
<1>3. ClaimInv'
  BY DEF ClaimInv, ClaimHasTarget, TargetClaimed, ClaimedOnce, EndedWhole, ClearedGone, RunClaim,
    EndClaim
<1>4. TableInv'
  BY DEF TableInv, ListedLive, LiveListed, ScanBounded, Publishing, ExitLive, NoWorkerNoSlot,
    WorkerNew, HostLabels
<1>5. ThreadMode' <=> ThreadMode
  BY DEF ThreadMode
<1>6. ASSUME ThreadMode PROVE ThInv'
  <2>1. ThreadInv'
    BY <1>6 DEF ThInv, ThreadInv, OwnThread, NoSwitch, WorkerLabels, StartedRuns, RunsLive
  <2>2. RunInv'
    BY <1>6 DEF ThInv, RunInv, RunsWhole, FailsWhole, RunsOnItsWorker, ReclaimFails, FailsUnposted,
      SelfRun, Unrun, Untargeted, Failing, WorkerCall, RunClaim, HasTok
  <2>3. BatonInv'
    BY <1>6 DEF ThInv, BatonInv, BatonSuspends, PostedWhole, KillSuspends, KillEnds, KilledIsKill,
      Suspends, Posted, Untargeted
  <2>4. CallInv'
    BY <1>6 DEF ThInv, CallInv, CallHasWorker, WorkerOfItself, WorkerCall, RunClaim
  <2>5. TokenInv'
    BY <1>6 DEF ThInv, TokenInv, TokenAlive, TokenWaited, PostAlive, TokenOnce, TokenNotPosted,
      PostOnce, HasTok, TokOf, Posted, PostOf
  <2>6. CurrentInv'
    BY <1>6 DEF ThInv, CurrentInv, CurrentHasToken, HolderCurrent, PostedCurrent, HandedCurrent,
      Holds, TokOf, Posted, HandsTo, Handing
  <2>7. HandInv'
    BY <1>6 DEF ThInv, HandInv, HandWorker, PostStarted, CreateUnstarted
  <2>8. TcbInv'
    BY <1>6 DEF ThInv, TcbInv, TokenTcb, ThreadTcb, PostedTcb, HasTok, TokOf, Posted
  <2> QED  BY <2>1, <2>2, <2>3, <2>4, <2>5, <2>6, <2>7, <2>8 DEF ThInv
<1>7. ASSUME ~ThreadMode PROVE CoInv'
  <2>1. CpuInv'
    BY <1>7 DEF CoInv, CpuInv, HostsOff, WorkersOn, LeftFinishes, ThreadFinishes, StackOnce,
      OnTarget, LeavesForFiber, Target
  <2>2. SelfInv'
    BY <1>7 DEF CoInv, SelfInv, SelfWhole, CallWorker, CurrentSelf, TcbCurrent, SelfState, Whole,
      WorkerCall, RunClaim
  <2>3. ReleaseInv'
    BY <1>7 DEF CoInv, ReleaseInv, LeftReleases, ReleaseSuspending, ReleasedNotSelf,
      ReleasedOnStack, ReleaserRuns, ReleaseOnce, Whole, Target
  <2>4. EnterInv'
    BY <1>7 DEF CoInv, EnterInv, EntersOther, EntersTarget
  <2>5. NoThreads'
    BY <1>7 DEF CoInv, NoThreads
  <2> QED  BY <2>1, <2>2, <2>3, <2>4, <2>5 DEF CoInv
<1> QED  BY <1>1, <1>2, <1>3, <1>4, <1>5, <1>6, <1>7

(* A fiber that is a worker's current one is live, and claimed or running. *)
LEMMA CurrentLive ==
  ASSUME FIInv
  PROVE  IdleNotCurrent
<1> USE SetsAssumption DEF FIInv, Base, Procs
<1> SUFFICES ASSUME NEW w \in Workers, NEW h \in Hosts, current[w] = h
             PROVE  hstat[h] = "live" /\ state[obj[h]] \notin {"IDLE", "FINALIZED"}
  BY DEF IdleNotCurrent, FTypes, TypeOK
<1>1. CASE ThreadMode
  <2>1. CASE pc[h] \in Holds
    <3>1. pc[h] \in SelfRun /\ pc[h] \notin {"none", "dead"}
      BY <2>1 DEF Holds, SelfRun
    <3> QED  BY <1>1, <3>1 DEF ThInv, ThreadInv, RunsLive, RunInv, RunsWhole
  <2>2. CASE Posted(h)
    <3>1. pc[h] \notin {"none", "dead"}
      BY <1>1, <2>2 DEF ThInv, BatonInv, BatonSuspends, Suspends, Posted
    <3> QED  BY <1>1, <2>2, <3>1 DEF ThInv, ThreadInv, RunsLive, BatonInv, PostedWhole
  <2>3. ASSUME NEW e \in Procs, HandsTo(e, w, h)
        PROVE  hstat[h] = "live" /\ state[obj[h]] \notin {"IDLE", "FINALIZED"}
    <3>1. pc[e] \in RunClaim /\ pc[e] \notin EndClaim
      BY <2>3 DEF HandsTo, Handing, RunClaim, EndClaim
    <3> QED  BY <2>3, <3>1, Claimed DEF HandsTo
  <2> QED  BY <1>1, <2>1, <2>2, <2>3 DEF ThInv, CurrentInv, CurrentHasToken
<1>2. CASE ~ThreadMode
  <2>1. h = tl[w]
    BY <1>2 DEF CoInv, SelfInv, CurrentSelf
  <2> QED  BY <1>2, <2>1 DEF CoInv, SelfInv, SelfWhole, SelfState, Whole
<1> QED  BY <1>1, <1>2

(* A lookup counts itself before it reads anything.                        *)
LEMMA Step_lookup_begin ==
  ASSUME FIInv, NEW l \in Lookers, lookup_begin(l)
  PROVE  FIInv'
<1> USE SetsAssumption DEF FIInv, Base
<1>y. look \in [Lookers -> LookRecs] /\ nworkers \in 0 .. MaxSlots /\ look[l] \in LookRecs
  BY DEF FTypes, TypeOK
<1>x. look' = [look EXCEPT ![l] = [Off EXCEPT !.at = "begin"]]
  BY <1>y DEF lookup_begin, Looking
<1>r. [Off EXCEPT !.at = "begin"] = [at |-> "begin", i |-> 0, n |-> 0, w |-> None, h |-> None]
  BY DEF Off
<1>1. look' = [look EXCEPT ![l] = [at |-> "begin", i |-> 0, n |-> 0, w |-> None, h |-> None]]
  BY <1>x, <1>r
<1>g. /\ UNCHANGED worldvars
      /\ look[l].at = "off"
  BY DEF lookup_begin
<1>2. look' \in [Lookers -> LookRecs]
  <2>1. [at |-> "begin", i |-> 0, n |-> 0, w |-> None, h |-> None] \in LookRecs
    BY <1>y DEF LookRecs
  <2> QED  BY <1>y, <1>1, <2>1
<1>u. UNCHANGED <<wstat, slot, hstat>>
  BY <1>g DEF worldvars, hostvars, tabvars
<1>3. LookInv'
  <2>1. OffEmpty'
    BY <1>y, <1>1 DEF LookInv, OffEmpty
  <2>2. ScansFromOne'
    BY <1>y, <1>1, <1>g DEF LookInv, ScansFromOne, LookRecs
  <2>3. HasWorker'
    BY <1>y, <1>1, <1>g DEF LookInv, HasWorker
  <2>4. WorkerSafe'
    BY <1>y, <1>1, <1>u DEF LookInv, WorkerSafe
  <2>5. FiberSafe'
    BY <1>y, <1>1, <1>u DEF LookInv, FiberSafe
  <2> QED  BY <2>1, <2>2, <2>3, <2>4, <2>5 DEF LookInv
<1> QED  BY <1>2, <1>3, <1>g, KeepWorld

(* A lookup that has just begun holds no pointer.                          *)
LEMMA Step_lookup_scan ==
  ASSUME FIInv, NEW l \in Lookers, lookup_scan(l)
  PROVE  FIInv'
<1> USE SetsAssumption DEF FIInv, Base
<1>y. look \in [Lookers -> LookRecs] /\ nworkers \in 0 .. MaxSlots /\ look[l] \in LookRecs
  BY DEF FTypes, TypeOK
<1>1. PICK r \in LookRecs : look' = [look EXCEPT ![l] = r] /\ r.at = "slot" /\ r.i = 1 /\ r.n = nworkers /\ r.w = look[l].w /\ r.h = look[l].h
  <2>1. look' = [look EXCEPT ![l] = [look[l] EXCEPT !.at = "slot", !.i = 1, !.n = nworkers]]
    BY <1>y DEF lookup_scan, Looking, LookRecs
  <2>2. [look[l] EXCEPT !.at = "slot", !.i = 1, !.n = nworkers] \in LookRecs
    BY <1>y DEF LookRecs
  <2> QED  BY <1>y, <2>1, <2>2 DEF LookRecs
<1>g. /\ UNCHANGED worldvars
      /\ look[l].at = "begin"
  BY DEF lookup_scan
<1>2. look' \in [Lookers -> LookRecs]
  BY <1>y, <1>1
<1>u. UNCHANGED <<wstat, slot, hstat>>
  BY <1>g DEF worldvars, hostvars, tabvars
<1>3. LookInv'
  <2>1. OffEmpty'
    BY <1>y, <1>1 DEF LookInv, OffEmpty
  <2>2. ScansFromOne'
    BY <1>y, <1>1, <1>g DEF LookInv, ScansFromOne, LookRecs
  <2>3. HasWorker'
    BY <1>y, <1>1, <1>g DEF LookInv, HasWorker
  <2>4. WorkerSafe'
    BY <1>y, <1>1, <1>u DEF LookInv, WorkerSafe
  <2>5. FiberSafe'
    BY <1>y, <1>1, <1>u DEF LookInv, FiberSafe
  <2> QED  BY <2>1, <2>2, <2>3, <2>4, <2>5 DEF LookInv
<1> QED  BY <1>2, <1>3, <1>g, KeepWorld

(* A lookup that ends holds no pointer.                                    *)
LEMMA Step_lookup_end ==
  ASSUME FIInv, NEW l \in Lookers, lookup_end(l)
  PROVE  FIInv'
<1> USE SetsAssumption DEF FIInv, Base
<1>y. look \in [Lookers -> LookRecs] /\ nworkers \in 0 .. MaxSlots /\ look[l] \in LookRecs
  BY DEF FTypes, TypeOK
<1>1. look' = [look EXCEPT ![l] = [at |-> "off", i |-> 0, n |-> 0, w |-> None, h |-> None]]
  BY DEF lookup_end, Looking, Off
<1>g. /\ UNCHANGED worldvars
      /\ TRUE
  BY DEF lookup_end
<1>2. look' \in [Lookers -> LookRecs]
  <2>1. [at |-> "off", i |-> 0, n |-> 0, w |-> None, h |-> None] \in LookRecs
    BY <1>y DEF LookRecs
  <2> QED  BY <1>y, <1>1, <2>1
<1>u. UNCHANGED <<wstat, slot, hstat>>
  BY <1>g DEF worldvars, hostvars, tabvars
<1>3. LookInv'
  <2>1. OffEmpty'
    BY <1>y, <1>1 DEF LookInv, OffEmpty
  <2>2. ScansFromOne'
    BY <1>y, <1>1, <1>g DEF LookInv, ScansFromOne, LookRecs
  <2>3. HasWorker'
    BY <1>y, <1>1, <1>g DEF LookInv, HasWorker
  <2>4. WorkerSafe'
    BY <1>y, <1>1, <1>u DEF LookInv, WorkerSafe
  <2>5. FiberSafe'
    BY <1>y, <1>1, <1>u DEF LookInv, FiberSafe
  <2> QED  BY <2>1, <2>2, <2>3, <2>4, <2>5 DEF LookInv
<1> QED  BY <1>2, <1>3, <1>g, KeepWorld

(* A lookup that goes on to the next slot drops its pointers.              *)
LEMMA Step_lookup_next ==
  ASSUME FIInv, NEW l \in Lookers, lookup_next(l)
  PROVE  FIInv'
<1> USE SetsAssumption DEF FIInv, Base
<1>c. PICK j \in Nat : j = look[l].i + 1 /\ j >= 1
  BY DEF FTypes, LookRecs
<1>y. look \in [Lookers -> LookRecs] /\ nworkers \in 0 .. MaxSlots /\ look[l] \in LookRecs
  BY DEF FTypes, TypeOK
<1>1. PICK r \in LookRecs : look' = [look EXCEPT ![l] = r] /\ r.at = "slot" /\ r.i = j /\ r.n = look[l].n /\ r.w = None /\ r.h = None
  <2>1. look' = [look EXCEPT ![l] = [look[l] EXCEPT !.at = "slot", !.i = j, !.w = None, !.h = None]]
    BY <1>y, <1>c DEF lookup_next, Looking, LookRecs
  <2>2. [look[l] EXCEPT !.at = "slot", !.i = j, !.w = None, !.h = None] \in LookRecs
    BY <1>y, <1>c DEF LookRecs
  <2> QED  BY <1>y, <2>1, <2>2 DEF LookRecs
<1>g. /\ UNCHANGED worldvars
      /\ look[l].at = "fiber"
  BY DEF lookup_next
<1>2. look' \in [Lookers -> LookRecs]
  BY <1>y, <1>1
<1>u. UNCHANGED <<wstat, slot, hstat>>
  BY <1>g DEF worldvars, hostvars, tabvars
<1>3. LookInv'
  <2>1. OffEmpty'
    BY <1>y, <1>1 DEF LookInv, OffEmpty
  <2>2. ScansFromOne'
    BY <1>y, <1>1, <1>g, <1>c DEF LookInv, ScansFromOne, LookRecs
  <2>3. HasWorker'
    BY <1>y, <1>1, <1>g DEF LookInv, HasWorker
  <2>4. WorkerSafe'
    BY <1>y, <1>1, <1>u DEF LookInv, WorkerSafe
  <2>5. FiberSafe'
    BY <1>y, <1>1, <1>u DEF LookInv, FiberSafe
  <2> QED  BY <2>1, <2>2, <2>3, <2>4, <2>5 DEF LookInv
<1> QED  BY <1>2, <1>3, <1>g, KeepWorld

(* The worker's current fiber is live when it is read.                     *)
LEMMA Step_lookup_current ==
  ASSUME FIInv, NEW l \in Lookers, lookup_current(l)
  PROVE  FIInv'
<1> USE SetsAssumption DEF FIInv, Base
<1>c. current[look[l].w] \in Hosts \cup {None} /\ (current[look[l].w] # None => hstat[current[look[l].w]] = "live")
  BY CurrentLive DEF IdleNotCurrent, LookInv, HasWorker, FTypes, TypeOK, LookRecs, lookup_current
<1>y. look \in [Lookers -> LookRecs] /\ nworkers \in 0 .. MaxSlots /\ look[l] \in LookRecs
  BY DEF FTypes, TypeOK
<1>1. PICK r \in LookRecs : look' = [look EXCEPT ![l] = r] /\ r.at = "fiber" /\ r.i = look[l].i /\ r.n = look[l].n /\ r.w = look[l].w /\ r.h = current[look[l].w]
  <2>1. look' = [look EXCEPT ![l] = [look[l] EXCEPT !.at = "fiber", !.h = current[look[l].w]]]
    BY <1>y, <1>c DEF lookup_current, Looking, LookRecs
  <2>2. [look[l] EXCEPT !.at = "fiber", !.h = current[look[l].w]] \in LookRecs
    BY <1>y, <1>c DEF LookRecs
  <2> QED  BY <1>y, <2>1, <2>2 DEF LookRecs
<1>g. /\ UNCHANGED worldvars
      /\ look[l].at = "worker"
  BY DEF lookup_current
<1>2. look' \in [Lookers -> LookRecs]
  BY <1>y, <1>1
<1>u. UNCHANGED <<wstat, slot, hstat>>
  BY <1>g DEF worldvars, hostvars, tabvars
<1>3. LookInv'
  <2>1. OffEmpty'
    BY <1>y, <1>1 DEF LookInv, OffEmpty
  <2>2. ScansFromOne'
    BY <1>y, <1>1, <1>g DEF LookInv, ScansFromOne, LookRecs
  <2>3. HasWorker'
    BY <1>y, <1>1, <1>g DEF LookInv, HasWorker
  <2>4. WorkerSafe'
    BY <1>y, <1>1, <1>u DEF LookInv, WorkerSafe
  <2>5. FiberSafe'
    BY <1>y, <1>1, <1>u, <1>c DEF LookInv, FiberSafe
  <2> QED  BY <2>1, <2>2, <2>3, <2>4, <2>5 DEF LookInv
<1> QED  BY <1>2, <1>3, <1>g, KeepWorld

(* The worker a lookup finds in the table is live and listed.              *)
LEMMA Step_lookup_slot ==
  ASSUME FIInv, NEW l \in Lookers, lookup_slot(l)
  PROVE  FIInv'
<1> USE SetsAssumption DEF FIInv, Base
<1>y. /\ look \in [Lookers -> LookRecs] /\ look[l] \in LookRecs /\ look[l].at = "slot" /\ look[l].i \in 1 .. MaxSlots
      /\ table[look[l].i] \in Workers \cup {None}
  BY DEF lookup_slot, FTypes, TypeOK, LookInv, ScansFromOne, LookRecs
<1>g. UNCHANGED worldvars
  BY DEF lookup_slot
<1>u. UNCHANGED <<wstat, slot, hstat>>
  BY <1>g DEF worldvars, hostvars, tabvars
<1>1. CASE table[look[l].i] = None
  <2>0. PICK r \in LookRecs : /\ look' = [look EXCEPT ![l] = r] /\ r.at = "slot" /\ r.i = look[l].i + 1 /\ r.w = look[l].w
                              /\ r.h = look[l].h
    <3>1. look' = [look EXCEPT ![l] = [look[l] EXCEPT !.i = look[l].i + 1]]
      BY <1>1, <1>y DEF lookup_slot, Looking
    <3>2. [look[l] EXCEPT !.i = look[l].i + 1] \in LookRecs
      BY <1>y DEF LookRecs
    <3> QED  BY <1>y, <3>1, <3>2 DEF LookRecs
  <2>1. look' \in [Lookers -> LookRecs]
    BY <1>y, <2>0
  <2>2. LookInv'
    BY <1>y, <1>u, <2>0 DEF LookInv, OffEmpty, ScansFromOne, HasWorker, WorkerSafe, FiberSafe, LookRecs
  <2> QED  BY <1>g, <2>1, <2>2, KeepWorld
<1>2. CASE table[look[l].i] # None
  <2>0. PICK r \in LookRecs, w \in Workers :
          /\ look' = [look EXCEPT ![l] = r] /\ r.at = "worker" /\ r.i = look[l].i /\ r.w = w /\ r.h = look[l].h
          /\ w = table[look[l].i]
    <3>1. look' = [look EXCEPT ![l] = [look[l] EXCEPT !.at = "worker", !.w = table[look[l].i]]]
      BY <1>2, <1>y DEF lookup_slot, Looking
    <3>2. [look[l] EXCEPT !.at = "worker", !.w = table[look[l].i]] \in LookRecs
      BY <1>y DEF LookRecs
    <3> QED  BY <1>2, <1>y, <3>1, <3>2 DEF LookRecs
  <2>1. look' \in [Lookers -> LookRecs]
    BY <1>y, <2>0
  <2>3. wstat[w] = "live" /\ slot[w] # 0
    BY <1>y, <2>0 DEF TableInv, ListedLive
  <2>2. LookInv'
    <3>1. OffEmpty' /\ ScansFromOne' /\ HasWorker'
      BY <1>y, <2>0 DEF LookInv, OffEmpty, ScansFromOne, HasWorker
    <3>2. WorkerSafe' /\ FiberSafe'
      BY <1>y, <1>u, <2>0, <2>3 DEF LookInv, WorkerSafe, FiberSafe
    <3> QED  BY <3>1, <3>2 DEF LookInv
  <2> QED  BY <1>g, <2>1, <2>2, KeepWorld
<1> QED  BY <1>1, <1>2

(* What the program starts from.                                           *)
LEMMA InitFIInv ==
  ASSUME Init
  PROVE  FIInv
<1> USE SetsAssumption DEF Init, Procs
<1>s. scenario \in [threads : BOOLEAN, create_fails : BOOLEAN, guests : SUBSET Workers] /\ scenario \in Scenarios
  OBVIOUS
<1>p. /\ \A e \in Procs : pc[e] \in {"guest", "dead", "none", "finish"}
      /\ \A w \in Workers : pc[w] \in {"guest", "dead"} /\ (pc[w] = "guest" => w \in scenario.guests)
      /\ \A h \in Hosts : pc[h] = IF ThreadMode THEN "none" ELSE "finish"
  BY <1>s
<1>1. FTypes
  BY <1>s DEF FTypes, TypeOK, Labels, LookRecs, Off
<1>2. ObjectInv
  BY <1>p DEF ObjectInv, NamedLive, NamedUsed, NamedOnce, UnusedClean, LiveNamed, LiveKept
<1>3. ClaimInv
  BY <1>p DEF ClaimInv, ClaimHasTarget, TargetClaimed, ClaimedOnce, EndedWhole, ClearedGone,
    RunClaim, EndClaim
<1>4. TableInv
  BY <1>p DEF TableInv, ListedLive, LiveListed, ScanBounded, Publishing, ExitLive, NoWorkerNoSlot,
    WorkerNew, HostLabels
<1>5. LookInv
  BY <1>p DEF LookInv, OffEmpty, ScansFromOne, HasWorker, WorkerSafe, FiberSafe, Off
<1>6. ASSUME ThreadMode PROVE ThInv
  <2>1. ThreadInv
    BY <1>6, <1>p DEF ThreadInv, OwnThread, NoSwitch, WorkerLabels, StartedRuns, RunsLive
  <2>2. RunInv
    BY <1>6, <1>p DEF RunInv, RunsWhole, FailsWhole, RunsOnItsWorker, ReclaimFails, FailsUnposted,
      SelfRun, Unrun, Untargeted, Failing, WorkerCall, RunClaim, HasTok
  <2>3. BatonInv
    BY <1>6, <1>p DEF BatonInv, BatonSuspends, PostedWhole, KillSuspends, KillEnds, KilledIsKill,
      Suspends, Posted, Untargeted
  <2>4. CallInv
    BY <1>6, <1>p DEF CallInv, CallHasWorker, WorkerOfItself, WorkerCall, RunClaim
  <2>5. TokenInv
    BY <1>6, <1>p DEF TokenInv, TokenAlive, TokenWaited, PostAlive, TokenOnce, TokenNotPosted,
      PostOnce, HasTok, TokOf, Posted, PostOf
  <2>6. CurrentInv
    BY <1>6, <1>p DEF CurrentInv, CurrentHasToken, HolderCurrent, PostedCurrent, HandedCurrent,
      Holds, TokOf, Posted, HandsTo, Handing
  <2>7. HandInv
    BY <1>6, <1>p DEF HandInv, HandWorker, PostStarted, CreateUnstarted
  <2>8. TcbInv
    BY <1>6, <1>p DEF TcbInv, TokenTcb, ThreadTcb, PostedTcb, HasTok, TokOf, Posted
  <2> QED  BY <2>1, <2>2, <2>3, <2>4, <2>5, <2>6, <2>7, <2>8 DEF ThInv
<1>7. ASSUME ~ThreadMode PROVE CoInv
  <2>1. CpuInv
    BY <1>7, <1>p DEF CpuInv, HostsOff, WorkersOn, LeftFinishes, ThreadFinishes, StackOnce,
      OnTarget, LeavesForFiber, Target
  <2>2. SelfInv
    BY <1>7, <1>p DEF SelfInv, SelfWhole, CallWorker, CurrentSelf, TcbCurrent, SelfState, Whole,
      WorkerCall, RunClaim
  <2>3. ReleaseInv
    BY <1>7, <1>p DEF ReleaseInv, LeftReleases, ReleaseSuspending, ReleasedNotSelf, ReleasedOnStack,
      ReleaserRuns, ReleaseOnce, Whole, Target
  <2>4. EnterInv
    BY <1>7, <1>p DEF EnterInv, EntersOther, EntersTarget
  <2>5. NoThreads
    BY <1>7, <1>p DEF NoThreads
  <2> QED  BY <2>1, <2>2, <2>3, <2>4, <2>5 DEF CoInv
<1> QED  BY <1>1, <1>2, <1>3, <1>4, <1>5, <1>6, <1>7 DEF FIInv, Base

(* The baton is a fiber's that is to end, or one that is to run.           *)
LEMMA Step_baton ==
  ASSUME FailsAlone, FIInv, NEW p \in Procs, baton_wait(p)
  PROVE  FIInv'
<1>1. CASE p \in Hosts /\ kill[p]
  BY <1>1, Step_baton_wait_killed
<1>2. CASE ~(p \in Hosts /\ kill[p])
  BY <1>2, Step_baton_wait
<1> QED  BY <1>1, <1>2

(* Every step keeps FIInv.                                                 *)
LEMMA Inductive ==
  FailsAlone /\ FIInv /\ [Next]_vars => FIInv'
<1> SUFFICES ASSUME FailsAlone, FIInv, [Next]_vars PROVE FIInv'
  OBVIOUS
<1>1. ASSUME NEW p \in Procs, Running(p) PROVE FIInv'
  <2>1. CASE claim_undone(p)
    BY <2>1, Step_claim_undone
  <2>2. CASE get_worker(p)
    BY <2>2, Step_get_worker
  <2>3. CASE publish_slot(p)
    BY <2>3, Step_publish_slot
  <2>4. CASE publish_grow(p)
    BY <2>4, Step_publish_grow
  <2>5. CASE suspending(p)
    BY <2>5, Step_suspending
  <2>6. CASE co_enter(p)
    BY <2>6, Step_co_enter
  <2>7. CASE ctx_switch(p)
    BY <2>7, Step_ctx_switch
  <2>8. CASE co_finish_switch(p)
    BY <2>8, Step_co_finish_switch
  <2>9. CASE co_return(p)
    BY <2>9, Step_co_return
  <2>10. CASE switch_current(p)
    BY <2>10, Step_switch_current
  <2>11. CASE switch_idle(p)
    BY <2>11, Step_switch_idle
  <2>12. CASE fiber_resume(p)
    BY <2>12, Step_fiber_resume
  <2>13. CASE resume_create(p)
    BY <2>13, Step_resume_create
  <2>14. CASE resume_failed(p)
    BY <2>14, Step_resume_failed
  <2>15. CASE switch_reclaim(p)
    BY <2>15, Step_switch_reclaim
  <2>16. CASE switch_regain(p)
    BY <2>16, Step_switch_regain
  <2>17. CASE resume_undone(p)
    BY <2>17, Step_resume_undone
  <2>18. CASE resume_post(p)
    BY <2>18, Step_resume_post
  <2>19. CASE return_idle(p)
    BY <2>19, Step_return_idle
  <2>20. CASE return_post(p)
    BY <2>20, Step_return_post
  <2>21. CASE baton_wait(p)
    BY <2>21, Step_baton
  <2>22. CASE finalize_kill(p)
    BY <2>22, Step_finalize_kill
  <2>23. CASE finalize_clear(p)
    BY <2>23, Step_finalize_clear
  <2> QED
    BY <1>1, <2>1, <2>2, <2>3, <2>4, <2>5, <2>6, <2>7, <2>8, <2>9, <2>10, <2>11, <2>12, <2>13,
      <2>14, <2>15, <2>16, <2>17, <2>18, <2>19, <2>20, <2>21, <2>22, <2>23 DEF Running
<1>2. ASSUME NEW p \in Procs, Freeing(p) PROVE FIInv'
  BY <1>2, Step_fiber_free_host, Step_host_exit, Step_worker_free DEF Freeing
<1>3. ASSUME NEW p \in Procs, Guest(p) PROVE FIInv'
  <2>1. ASSUME NEW o \in Objects, fiber_run(p, o) PROVE FIInv'
    BY <2>1, Step_fiber_run
  <2>2. ASSUME NEW o \in Objects, fiber_switch(p, o) PROVE FIInv'
    BY <2>2, Step_fiber_switch
  <2>3. ASSUME NEW o \in Objects, fiber_initialize(p, o) PROVE FIInv'
    BY <2>3, Step_fiber_initialize
  <2>4. ASSUME NEW o \in Objects, finalize(p, o) PROVE FIInv'
    BY <2>4, Step_finalize
  <2>5. CASE return_to_thread(p)
    BY <2>5, Step_return_to_thread
  <2>6. CASE worker_destroy(p)
    BY <2>6, Step_worker_destroy
  <2> QED  BY <1>3, <2>1, <2>2, <2>3, <2>4, <2>5, <2>6 DEF Guest
<1>4. ASSUME NEW l \in Lookers, Lookup(l) PROVE FIInv'
  BY <1>4, Step_lookup_begin, Step_lookup_scan, Step_lookup_slot, Step_lookup_current,
    Step_lookup_next, Step_lookup_end DEF Lookup
<1>5. CASE UNCHANGED vars
  <2>1. UNCHANGED worldvars /\ look' = look
    BY <1>5 DEF vars, worldvars, objvars, hostvars, callvars, tabvars
  <2>2. UNCHANGED <<wstat, slot, hstat>>
    BY <2>1 DEF worldvars, hostvars, tabvars
  <2>3. LookInv'
    BY <2>1, <2>2 DEF FIInv, Base, LookInv, OffEmpty, ScansFromOne, HasWorker, WorkerSafe, FiberSafe
  <2> QED  BY <2>1, <2>3, KeepWorld DEF FIInv, Base, FTypes
<1> QED  BY <1>1, <1>2, <1>3, <1>4, <1>5 DEF Next

(* FIInv holds as long as a failing pthread_create leaves nobody else      *)
(* running.                                                                *)
LEMMA Always ==
  FailsAlone => (Spec => []FIInv)
<1> SUFFICES ASSUME FailsAlone PROVE Spec => []FIInv
  OBVIOUS
<1>1. Init => FIInv
  BY InitFIInv
<1>2. FIInv /\ [Next]_vars => FIInv'
  BY Inductive
<1> QED  BY <1>1, <1>2, PTL DEF Spec

-----------------------------------------------------------------------------
(* Every variable keeps its type, whatever the guest calls: the state of a *)
(* FiberObject, the slots of g_workers and its length g_nworkers.          *)
THEOREM FiberTypes ==
  FailsAlone => (Spec => []TypeOK)
<1>1. FIInv => TypeOK
  BY DEF FIInv, Base, FTypes
<1> QED  BY <1>1, Always, PTL

(* No two host threads are on the same fiber's stack, and none on that of  *)
(* a freed fiber (ps4_fiber_ctx_switch, co_finish_switch).                 *)
THEOREM StacksExclusive ==
  FailsAlone => (Spec => []StackExclusive)
<1>1. ASSUME FIInv PROVE StackExclusive
  <2> USE <1>1, SetsAssumption DEF FIInv, Base, Procs
  <2>1. CASE ThreadMode
    BY <2>1 DEF ThInv, ThreadInv, OwnThread, RunsLive, StackExclusive
  <2>2. CASE ~ThreadMode
    <3>1. \A p, q \in Procs : cpu[p] # None /\ cpu[p] = cpu[q] => p = q
      BY <2>2 DEF CoInv, CpuInv, HostsOff, StackOnce
    <3>2. ASSUME NEW p \in Procs, cpu[p] \in Hosts PROVE hstat[cpu[p]] = "live"
      <4>1. p \in Workers
        BY <2>2, <3>2 DEF CoInv, CpuInv, HostsOff
      <4>2. CASE pc[cpu[p]] = "switch"
        BY <2>2, <3>2, <4>1, <4>2 DEF CoInv, ReleaseInv, LeftReleases, Whole
      <4>3. CASE pc[cpu[p]] # "switch"
        <5>1. tl[p] = cpu[p]
          BY <2>2, <3>2, <4>1, <4>3 DEF CoInv, CpuInv, OnTarget, Target
        <5> QED  BY <2>2, <3>2, <4>1, <5>1 DEF CoInv, SelfInv, SelfWhole, Whole
      <4> QED  BY <4>2, <4>3
    <3> QED  BY <3>1, <3>2 DEF StackExclusive
  <2> QED  BY <2>1, <2>2
<1> QED  BY <1>1, Always, PTL

(* A worker's current fiber is live, and no other call may claim it        *)
(* (fiber_switch, fiber_resume, co_enter).                                 *)
THEOREM CurrentNotIdle ==
  FailsAlone => (Spec => []IdleNotCurrent)
<1>1. FIInv => IdleNotCurrent
  BY CurrentLive
<1> QED  BY <1>1, Always, PTL

(* A worker keeps its slot as long as it lives, and lookups reach it       *)
(* (worker_publish, worker_destroy).                                       *)
THEOREM WorkersListed ==
  FailsAlone => (Spec => []WorkerListed)
<1>1. ASSUME FIInv PROVE WorkerListed
  BY <1>1, SetsAssumption DEF FIInv, Base, TableInv, ListedLive, LiveListed, WorkerListed, FTypes,
    TypeOK
<1> QED  BY <1>1, Always, PTL

(* No lookup of ps4_fiber_endpoint_host_thread reads a freed worker or     *)
(* fiber, however many lookups, workers and slots there are.               *)
THEOREM LookupsSafe ==
  FailsAlone => (Spec => []LookupSafe)
<1>1. FIInv => LookupSafe
  BY DEF FIInv, Base, LookInv, WorkerSafe, FiberSafe, LookupSafe
<1> QED  BY <1>1, Always, PTL

(* A fiber that runs without ThreadMode is the one its guest thread's host *)
(* thread is on.                                                           *)
LEMMA RunsOnStack ==
  ASSUME FIInv, ~ThreadMode, NEW h \in Hosts, pc[h] = "guest"
  PROVE  \E w \in Workers :
           /\ hworker[h] = w /\ current[w] = h /\ tcb[w] = h /\ state[obj[h]] = "RUNNING" /\ pc[w] = "finish"
<1> USE SetsAssumption DEF FIInv, Base, Procs
<1>1. PICK w \in Workers : cpu[w] = h
  BY DEF CoInv, CpuInv, LeftFinishes
<1>2. tl[w] = h
  BY <1>1 DEF CoInv, CpuInv, OnTarget, Target
<1>3. hworker[h] = w /\ current[w] = h /\ state[obj[h]] = "RUNNING"
  BY <1>1, <1>2 DEF CoInv, SelfInv, SelfWhole, CurrentSelf, SelfState
<1>4. tcb[w] = h
  BY <1>3 DEF CoInv, SelfInv, TcbCurrent
<1>5. pc[w] = "finish"
  BY <1>1 DEF CoInv, CpuInv, ThreadFinishes
<1> QED  BY <1>3, <1>4, <1>5

(* A fiber that runs guest code is RUNNING, the current one of the guest   *)
(* thread it believes to be on, and that thread's own code waits for it    *)
(* (sceFiberRun, sceFiberSwitch and their undoing).                        *)
THEOREM RunningCurrent ==
  FailsAlone => (Spec => []RunningIsCurrent)
<1>1. ASSUME FIInv PROVE RunningIsCurrent
  <2> USE <1>1, SetsAssumption DEF FIInv, Base, Procs
  <2> SUFFICES ASSUME NEW h \in Hosts, pc[h] = "guest"
               PROVE  state[obj[h]] = "RUNNING" /\ current[hworker[h]] = h /\ pc[hworker[h]] \in {"wait", "finish"}
    BY DEF RunningIsCurrent, Fibers
  <2>1. CASE ThreadMode
    <3>1. HasTok(h) /\ TokOf(h) = hworker[h] /\ pc[h] \in Holds /\ pc[h] \in SelfRun
      BY DEF HasTok, TokOf, Holds, SelfRun
    <3>2. state[obj[h]] = "RUNNING"
      BY <2>1, <3>1 DEF ThInv, RunInv, RunsWhole
    <3>3. current[hworker[h]] = h
      BY <2>1, <3>1 DEF ThInv, CurrentInv, HolderCurrent
    <3>4. pc[hworker[h]] = "wait"
      BY <2>1, <3>1 DEF ThInv, TokenInv, TokenWaited
    <3> QED  BY <3>2, <3>3, <3>4
  <2>2. CASE ~ThreadMode
    BY <2>2, RunsOnStack
  <2> QED  BY <2>1, <2>2
<1> QED  BY <1>1, Always, PTL

(* The TCB slot of a guest thread names the endpoint that is in guest code *)
(* on it (ps4_fiber_ctx_switch's callers, fiber_resume, fiber_host_main).  *)
THEOREM TcbNames ==
  FailsAlone => (Spec => []TcbNamesRunning)
<1>1. ASSUME FIInv PROVE TcbNamesRunning
  <2> USE <1>1, SetsAssumption DEF FIInv, Base, Procs
  <2>1. CASE ThreadMode
    <3>1. \A e \in Procs : pc[e] = "guest" => HasTok(e)
      BY DEF HasTok
    <3>2. \A w \in Workers : pc[w] = "guest" => tcb[w] = w
      BY <2>1, <3>1 DEF ThInv, TcbInv, ThreadTcb
    <3>3. \A h \in Hosts : pc[h] = "guest" => tcb[hworker[h]] = h
      BY <2>1, <3>1 DEF ThInv, TcbInv, TokenTcb, TokOf
    <3> QED  BY <3>2, <3>3 DEF TcbNamesRunning, Fibers
  <2>2. CASE ~ThreadMode
    <3>1. ASSUME NEW w \in Workers, pc[w] = "guest" PROVE tcb[w] = w
      <4>1. cpu[w] = w
        BY <2>2, <3>1 DEF CoInv, CpuInv, ThreadFinishes
      <4>2. w = Target(w)
        BY <2>2, <3>1, <4>1 DEF CoInv, CpuInv, OnTarget
      <4>3. tl[w] \in Hosts \cup {None}
        BY DEF FTypes, TypeOK
      <4>4. tl[w] = None
        BY <4>2, <4>3 DEF Target
      <4> QED  BY <2>2, <3>1, <4>1, <4>4 DEF CoInv, SelfInv, CurrentSelf, TcbCurrent
    <3> QED  BY <2>2, <3>1, RunsOnStack DEF TcbNamesRunning, Fibers
  <2> QED  BY <2>1, <2>2
<1> QED  BY <1>1, Always, PTL
=============================================================================
