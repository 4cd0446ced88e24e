-------------------------- MODULE GuestExceptions ---------------------------
(***************************************************************************)
(* sceKernelRaiseException (ps4_kernel_sys.c): a thread is stopped by      *)
(* SIGUSR1 wherever it is, runs the game's exception handler on its own    *)
(* context, and goes on.  The thread runs its own code and one fiber's, as *)
(* coroutines on one host thread.  Registers are a value v and the stack   *)
(* pointer; in recompiled code they live in host registers (live), else in *)
(* the endpoint's GuestContext.                                            *)
(***************************************************************************)
EXTENDS Integers, FiniteSets

CONSTANTS ExDepth,   \* bound: depth of the guest stack
          ExRaises,  \* bound: signals sent
          RemoveBusy \* TRUE: a handler may be removed while a signal is under way
ASSUME ExAssumption == ExDepth \in Nat /\ ExRaises \in Nat /\ RemoveBusy \in BOOLEAN

Endpoints == {"thread", "fiber"}
RedZone == 1     \* stack cells below sp that a leaf function uses
Clobbered == 9

VARIABLES g_exception_handlers,  \* a handler for signal 30 is in the table
          g_sigusr1_installed,   \* SIGUSR1 has the runtime's handler
          ex_calling,            \* an install or a remove between its two stores
          sig_pending, ex_raises,
          killed,                \* SIGUSR1's default action ended the process
          mode,                  \* "guest", "result": a helper's result waits in the context; "shim"; "handing" over
          live, gctx, tcb_slot, g_current_ctx,
          in_handler, orig,      \* what the signal handler keeps: [cpu, live, slot]
          interrupted,           \* the registers the game's handler is shown
          gstack,                \* endpoint -> cells of its stack
          want                   \* endpoint -> the registers its program computes

sig_vars == <<g_exception_handlers, g_sigusr1_installed, ex_calling, sig_pending, ex_raises, killed>>
cpu_vars == <<mode, live, gctx, tcb_slot, g_current_ctx, gstack, want>>
ex_vars == <<sig_vars, cpu_vars, in_handler, orig, interrupted>>

Start == [v |-> 0, sp |-> ExDepth]
Nothing30 == [cpu |-> Start, live |-> Start, slot |-> "thread"]
ExInit ==
  /\ g_exception_handlers = FALSE /\ g_sigusr1_installed = FALSE /\ ex_calling = "none" /\ sig_pending = FALSE /\ ex_raises = 0 /\ killed = FALSE
  /\ mode = "guest" /\ live = Start /\ gctx = [e \in Endpoints |-> Start] /\ tcb_slot = "thread" /\ g_current_ctx = "thread"
  /\ gstack = [e \in Endpoints |-> [a \in 0 - 1..ExDepth |-> 0]] /\ want = [e \in Endpoints |-> Start]
  /\ in_handler = FALSE /\ orig = Nothing30 /\ interrupted = Start

Cur == g_current_ctx
Step(r) == [r EXCEPT !.v = (@ + 1) % 2]
Running(m) == mode = m /\ ~in_handler /\ ~killed

\* The game's program: it computes, leaving the value in its red zone, and calls.
guest_step ==
  /\ Running("guest") /\ live' = Step(live) /\ want' = [want EXCEPT ![Cur] = Step(@)]
  /\ gstack' = [gstack EXCEPT ![Cur][live.sp - RedZone] = live'.v]
  /\ UNCHANGED <<mode, gctx, tcb_slot, g_current_ctx, in_handler, orig, interrupted, sig_vars>>
guest_call ==
  /\ Running("guest") /\ live.sp > 1
  /\ live' = [live EXCEPT !.sp = @ - 1] /\ want' = [want EXCEPT ![Cur].sp = @ - 1]
  /\ gstack' = [gstack EXCEPT ![Cur][live.sp - 1 - RedZone] = live.v]
  /\ UNCHANGED <<mode, gctx, tcb_slot, g_current_ctx, in_handler, orig, interrupted, sig_vars>>

\* A helper writes its result to the context; the lifted code then loads it.
helper ==
  /\ Running("guest") /\ mode' = "result" /\ gctx' = [gctx EXCEPT ![Cur].v = Step(live).v]
  /\ UNCHANGED <<live, tcb_slot, g_current_ctx, gstack, want, in_handler, orig, interrupted, sig_vars>>
helper_load ==
  /\ Running("result") /\ mode' = "guest" /\ live' = [live EXCEPT !.v = gctx[Cur].v]
  /\ want' = [want EXCEPT ![Cur] = Step(@)] /\ gstack' = [gstack EXCEPT ![Cur][live.sp - RedZone] = Step(want[Cur]).v]
  /\ UNCHANGED <<gctx, tcb_slot, g_current_ctx, in_handler, orig, interrupted, sig_vars>>

\* The bridge stores the registers for a shim and loads them when it returns.
shim_enter ==
  /\ Running("guest") /\ mode' = "shim" /\ gctx' = [gctx EXCEPT ![Cur] = live]
  /\ UNCHANGED <<live, tcb_slot, g_current_ctx, gstack, want, in_handler, orig, interrupted, sig_vars>>
shim_return ==
  /\ Running("shim") /\ mode' = "guest" /\ live' = gctx[Cur] /\ gstack' = [gstack EXCEPT ![Cur][gctx[Cur].sp - RedZone] = want[Cur].v]
  /\ UNCHANGED <<gctx, tcb_slot, g_current_ctx, want, in_handler, orig, interrupted, sig_vars>>

\* A switch points the slot at the other endpoint, then the host thread becomes it.
hand_over ==
  /\ Running("shim") /\ mode' = "handing" /\ \E e \in Endpoints \ {Cur} : tcb_slot' = e
  /\ UNCHANGED <<live, gctx, g_current_ctx, gstack, want, in_handler, orig, interrupted, sig_vars>>
handed_over ==
  /\ Running("handing") /\ mode' = "shim" /\ g_current_ctx' = tcb_slot
  /\ UNCHANGED <<live, gctx, tcb_slot, gstack, want, in_handler, orig, interrupted, sig_vars>>

\* The calls of the other threads: each stores twice, in this order.
sceKernelInstallExceptionHandler ==
  /\ ~killed /\ ex_calling = "none" /\ g_exception_handlers' = TRUE
  /\ ex_calling' = IF g_sigusr1_installed THEN "none" ELSE "install"
  /\ UNCHANGED <<g_sigusr1_installed, sig_pending, ex_raises, killed, cpu_vars, in_handler, orig, interrupted>>
sceKernelRemoveExceptionHandler ==
  /\ ~killed /\ ex_calling = "none" /\ (RemoveBusy \/ ~sig_pending) /\ g_exception_handlers' = FALSE
  /\ ex_calling' = IF g_sigusr1_installed THEN "remove" ELSE "none"
  /\ UNCHANGED <<g_sigusr1_installed, sig_pending, ex_raises, killed, cpu_vars, in_handler, orig, interrupted>>
set_sigaction ==
  /\ ~killed /\ ex_calling # "none" /\ (RemoveBusy \/ ex_calling = "install" \/ ~sig_pending)
  /\ g_sigusr1_installed' = (ex_calling = "install") /\ ex_calling' = "none"
  /\ UNCHANGED <<g_exception_handlers, sig_pending, ex_raises, killed, cpu_vars, in_handler, orig, interrupted>>
sceKernelRaiseException ==
  /\ ~killed /\ ex_raises < ExRaises /\ ex_raises' = ex_raises + 1
  /\ (RemoveBusy \/ g_sigusr1_installed) /\ sig_pending' = TRUE
  /\ UNCHANGED <<g_exception_handlers, g_sigusr1_installed, ex_calling, killed, cpu_vars, in_handler, orig, interrupted>>

\* Mutant: the registers are taken from the context in recompiled code too.
interrupted_in_context == gctx[Cur]
\* The registers the thread was stopped with.
interrupted_registers == IF mode \in {"guest", "result"} THEN live ELSE gctx[Cur]

\* SIGUSR1 stops the thread; it is blocked while its handler runs.  The
\* ucontext lies below the red zone, and the game's handler runs below it.
host_sigusr1_handler ==
  /\ sig_pending /\ ~in_handler /\ ~killed /\ sig_pending' = FALSE
  /\ killed' = ~g_sigusr1_installed
  /\ IF g_sigusr1_installed /\ g_exception_handlers
     THEN /\ in_handler' = TRUE /\ orig' = [cpu |-> gctx[Cur], live |-> live, slot |-> tcb_slot]
          /\ interrupted' = interrupted_registers /\ tcb_slot' = Cur
          /\ gctx' = [gctx EXCEPT ![Cur] = [v |-> Clobbered, sp |-> interrupted_registers.sp - RedZone - 1]]
          /\ gstack' = [gstack EXCEPT ![Cur] = [a \in DOMAIN @ |-> IF a < interrupted_registers.sp - RedZone THEN Clobbered ELSE @[a]]]
          /\ live' = [v |-> Clobbered, sp |-> 0]
     ELSE UNCHANGED <<in_handler, orig, interrupted, tcb_slot, gctx, gstack, live>>
  /\ UNCHANGED <<g_exception_handlers, g_sigusr1_installed, ex_calling, ex_raises, mode, g_current_ctx, want>>

\* Mutant: what the handler was shown goes back into the context.
restore_interrupted == interrupted
guest_cpu_state_restore == orig.cpu
\* The handler returned: the context's and the thread's registers come back.
handler_return ==
  /\ in_handler /\ in_handler' = FALSE
  /\ gctx' = [gctx EXCEPT ![Cur] = guest_cpu_state_restore] /\ live' = orig.live /\ tcb_slot' = orig.slot
  /\ UNCHANGED <<mode, g_current_ctx, gstack, want, orig, interrupted, sig_vars>>

ExNext ==
  \/ guest_step \/ guest_call \/ helper \/ helper_load \/ shim_enter \/ shim_return \/ hand_over \/ handed_over
  \/ sceKernelInstallExceptionHandler \/ sceKernelRemoveExceptionHandler \/ set_sigaction \/ sceKernelRaiseException
  \/ host_sigusr1_handler \/ handler_return

-----------------------------------------------------------------------------
\* An exception is invisible to the code it interrupts, wherever that was: the
\* registers in use, a helper's result not loaded yet, the red zone and the
\* slot that names the running endpoint are the program's own; the game's
\* handler is shown the registers of the interrupted code and runs with the
\* slot at its endpoint; the process is not killed.
ExceptionInvisible ==
  /\ ~killed
  /\ \A e \in Endpoints \ {Cur} : gctx[e] = want[e]
  /\ ~in_handler /\ mode \in {"guest", "result"} => live = want[Cur] /\ gstack[Cur][live.sp - RedZone] = live.v
  /\ ~in_handler /\ mode = "result" => gctx[Cur].v = Step(want[Cur]).v
  /\ ~in_handler /\ mode \in {"shim", "handing"} => gctx[Cur] = want[Cur]
  /\ (in_handler \/ mode # "handing") => tcb_slot = Cur
  /\ in_handler => interrupted = want[Cur]
=============================================================================
