------------------------------- MODULE Modules ------------------------------
(***************************************************************************)
(* The module table of the runtime (ps4_sysmodule.c): recompiled modules   *)
(* register their exports, init functions and address ranges while the     *)
(* program starts; the runtime starts the libraries it preloads; then      *)
(* guest threads load and start modules by name, list them and count       *)
(* system modules.  g_sysmodule_mutex makes every table access one step;   *)
(* init functions are guest code and run without it.                       *)
(***************************************************************************)
EXTENDS Naturals, Sequences, FiniteSets, FiniteSetsExt, SequencesExt

CONSTANTS ModThreads,
          ModFiles,           \* registered file names
          ModPreloaded,       \* of these, libc.prx and libSceLibcInternal.prx
          ModStem(_),         \* module_names_match: the base name without its extension
          ModRange(_),        \* address range of a file's recompiled text, <<start, end>>
          MainRange,          \* that of the program itself
          ModInits,           \* init functions per module
          MAX_PRX_MODULES, MAX_UNWIND_MODULES, MAX_LOADED_MODULES,
          SysIds              \* <<high, low>>: a system module's id in 16-bit halves

ASSUME ModAssumption ==
  /\ ModPreloaded \subseteq ModFiles /\ ModInits \in Nat
  /\ MAX_PRX_MODULES \in Nat /\ MAX_UNWIND_MODULES \in Nat \ {0} /\ MAX_LOADED_MODULES \in Nat
  /\ SysIds \subseteq Nat \X Nat

VARIABLES g_prx, g_mod_handle, g_unwind, g_loaded,
          mod_phase,   \* "register", "preload", then "run"
          mod_call,    \* thread -> module it starts and how many inits it has run
          mod_log,     \* slot of g_prx -> init functions run
          mod_given    \* handle -> file it was given to

mod_vars == <<g_prx, g_mod_handle, g_unwind, g_loaded, mod_phase, mod_call, mod_log, mod_given>>

Main == "main"
NoStart == [at |-> "idle", slot |-> 0, ran |-> 0]

ModInit ==
  /\ g_prx = <<>> /\ g_mod_handle = 1 /\ g_loaded = <<>>
  /\ g_unwind = <<[name |-> Main, range |-> MainRange]>>
  /\ mod_phase = "register" /\ mod_call = [t \in ModThreads \cup {Main} |-> NoStart]
  /\ mod_log = <<>> /\ mod_given = <<>>

SlotsOf(f) == {i \in DOMAIN g_prx : ModStem(g_prx[i].file) = ModStem(f)}

-----------------------------------------------------------------------------
\* Registering again replaces the exports; a full table ignores the module.
recomp_module_register(f) ==
  /\ mod_phase = "register"
  /\ IF SlotsOf(f) # {} THEN g_prx' = [g_prx EXCEPT ![Min(SlotsOf(f))].exports = f] /\ UNCHANGED mod_log
     ELSE /\ Len(g_prx) < MAX_PRX_MODULES
          /\ g_prx' = Append(g_prx, [file |-> f, exports |-> f, inits |-> 0, started |-> FALSE, handle |-> 0])
          /\ mod_log' = Append(mod_log, <<>>)
  /\ UNCHANGED <<g_mod_handle, g_unwind, g_loaded, mod_phase, mod_call, mod_given>>

recomp_module_register_init(f) ==
  /\ mod_phase = "register" /\ SlotsOf(f) # {}
  /\ g_prx' = [g_prx EXCEPT ![Min(SlotsOf(f))].inits = ModInits]
  /\ UNCHANGED <<g_mod_handle, g_unwind, g_loaded, mod_phase, mod_call, mod_log, mod_given>>

recomp_module_register_unwind_info(f) ==
  /\ mod_phase = "register" /\ Len(g_unwind) < MAX_UNWIND_MODULES
  /\ \A i \in DOMAIN g_unwind : g_unwind[i].name # f
  /\ g_unwind' = Append(g_unwind, [name |-> f, range |-> ModRange(f)])
  /\ UNCHANGED <<g_prx, g_mod_handle, g_loaded, mod_phase, mod_call, mod_log, mod_given>>

registered == mod_phase = "register" /\ mod_phase' = "preload"
              /\ UNCHANGED <<g_prx, g_mod_handle, g_unwind, g_loaded, mod_call, mod_log, mod_given>>

\* The preloaded libraries in table order, each started once, before the game.
recomp_modules_start_preloaded ==
  LET next == {i \in DOMAIN g_prx : g_prx[i].file \in ModPreloaded /\ ~g_prx[i].started /\ g_prx[i].inits > 0}
  IN  /\ mod_phase = "preload" /\ mod_call[Main].at = "idle"
      /\ IF next = {} THEN mod_phase' = "run" /\ UNCHANGED <<g_prx, mod_call>>
         ELSE /\ g_prx' = [g_prx EXCEPT ![Min(next)].started = TRUE]
              /\ mod_call' = [mod_call EXCEPT ![Main] = [at |-> "inits", slot |-> Min(next), ran |-> 0]]
              /\ UNCHANGED mod_phase
      /\ UNCHANGED <<g_mod_handle, g_unwind, g_loaded, mod_log, mod_given>>

-----------------------------------------------------------------------------
\* A handle is given at the first load and kept.
sceKernelLoadStartModule(t, f) ==
  /\ mod_phase = "run" /\ mod_call[t].at = "idle" /\ SlotsOf(f) # {}
  /\ LET i == Min(SlotsOf(f))
         new == g_prx[i].handle = 0
     IN  /\ g_prx' = [g_prx EXCEPT ![i].handle = IF new THEN g_mod_handle ELSE @]
         /\ g_mod_handle' = IF new THEN g_mod_handle + 1 ELSE g_mod_handle
         /\ mod_given' = IF new THEN Append(mod_given, g_prx[i].file) ELSE mod_given
         /\ mod_call' = [mod_call EXCEPT ![t] = [at |-> "start", slot |-> g_prx'[i].handle, ran |-> 0]]
  /\ UNCHANGED <<g_unwind, g_loaded, mod_phase, mod_log>>

\* Mutant: the module counts as started when its init functions are done.
start_unmarked(t) ==
  LET i == Min({k \in DOMAIN g_prx : g_prx[k].handle = mod_call[t].slot})
  IN  /\ mod_call[t].at = "start"
      /\ mod_call' = [mod_call EXCEPT ![t] = IF g_prx[i].started THEN NoStart ELSE [at |-> "inits", slot |-> i, ran |-> 0]]
      /\ g_prx' = [g_prx EXCEPT ![i].started = @ \/ g_prx[i].inits = Len(mod_log[i])]
      /\ UNCHANGED <<g_mod_handle, g_unwind, g_loaded, mod_phase, mod_log, mod_given>>

\* recomp_module_start: the first to come claims the init functions; a later
\* one returns at once, even while they run.
recomp_module_start(t) ==
  LET i == Min({k \in DOMAIN g_prx : g_prx[k].handle = mod_call[t].slot})
  IN  /\ mod_call[t].at = "start"
      /\ mod_call' = [mod_call EXCEPT ![t] = IF g_prx[i].started THEN NoStart ELSE [at |-> "inits", slot |-> i, ran |-> 0]]
      /\ g_prx' = [g_prx EXCEPT ![i].started = TRUE]
      /\ UNCHANGED <<g_mod_handle, g_unwind, g_loaded, mod_phase, mod_log, mod_given>>

\* recomp_call_guest on the next init function.
run_init(t) ==
  LET c == mod_call[t]
  IN  /\ c.at = "inits"
      /\ IF c.ran < g_prx[c.slot].inits
         THEN /\ mod_log' = [mod_log EXCEPT ![c.slot] = Append(@, c.ran + 1)]
              /\ mod_call' = [mod_call EXCEPT ![t].ran = @ + 1]
         ELSE mod_call' = [mod_call EXCEPT ![t] = NoStart] /\ UNCHANGED mod_log
      /\ UNCHANGED <<g_prx, g_mod_handle, g_unwind, g_loaded, mod_phase, mod_given>>

-----------------------------------------------------------------------------
\* The range of a module of the table: its first unwind entry, 0 without one.
UnwindOf(i) ==
  LET js == {j \in 2..Len(g_unwind) : ModStem(g_unwind[j].name) = ModStem(g_prx[i].file)}
  IN  IF js = {} THEN 0 ELSE Min(js)
\* recomp_module_snapshot lists a range once, under the first of its aliases.
Listed(i) ==
  LET u == UnwindOf(i)
  IN  u = 0 \/ ~\E k \in 1..(i - 1) : UnwindOf(k) # 0 /\ g_unwind[UnwindOf(k)].range[1] = g_unwind[u].range[1]
SnapshotSlots == {i \in DOMAIN g_prx : Listed(i)}

\* Listing gives a handle to every module listed that has none, in order.
recomp_module_snapshot ==
  LET fresh == {i \in SnapshotSlots : g_prx[i].handle = 0}
      rank(i) == Cardinality({k \in fresh : k < i})
  IN  /\ mod_phase = "run" /\ fresh # {}
      /\ g_prx' = [i \in DOMAIN g_prx |-> IF i \in fresh THEN [g_prx[i] EXCEPT !.handle = g_mod_handle + rank(i)] ELSE g_prx[i]]
      /\ g_mod_handle' = g_mod_handle + Cardinality(fresh)
      /\ mod_given' = mod_given \o [k \in 1..Cardinality(fresh) |-> g_prx[CHOOSE i \in fresh : rank(i) = k - 1].file]
      /\ UNCHANGED <<g_unwind, g_loaded, mod_phase, mod_call, mod_log>>

\* The smallest of the ranges that hold an address, {} if none does.
Holding(ranges, a) ==
  LET hits == {r \in ranges : r[1] <= a /\ a < r[2]}
  IN  {r \in hits : \A s \in hits : r[2] - r[1] <= s[2] - s[1]}
recomp_module_find_by_addr(a) == Holding({g_unwind[i].range : i \in DOMAIN g_unwind}, a)
recomp_module_info_by_addr(a) ==
  Holding({g_unwind[1].range} \cup {g_unwind[UnwindOf(i)].range : i \in {k \in SnapshotSlots : UnwindOf(k) # 0}}, a)

-----------------------------------------------------------------------------
\* A full list takes no more and still answers 0.
sceSysmoduleLoadModuleInternal(id) ==
  /\ mod_phase = "run" /\ id \notin Range(g_loaded) /\ Len(g_loaded) < MAX_LOADED_MODULES
  /\ g_loaded' = Append(g_loaded, id)
  /\ UNCHANGED <<g_prx, g_mod_handle, g_unwind, mod_phase, mod_call, mod_log, mod_given>>

\* Also for an internal id, of which only the low half is looked for.
sceSysmoduleUnloadModule(id) ==
  LET at == {i \in DOMAIN g_loaded : g_loaded[i] = <<0, id[2]>>}
  IN  /\ mod_phase = "run" /\ at # {}
      /\ g_loaded' = Front([g_loaded EXCEPT ![Min(at)] = Last(g_loaded)])
      /\ UNCHANGED <<g_prx, g_mod_handle, g_unwind, mod_phase, mod_call, mod_log, mod_given>>

ModNext ==
  \/ registered \/ recomp_modules_start_preloaded \/ recomp_module_snapshot \/ run_init(Main)
  \/ \E f \in ModFiles : recomp_module_register(f) \/ recomp_module_register_init(f) \/ recomp_module_register_unwind_info(f)
  \/ \E t \in ModThreads : recomp_module_start(t) \/ run_init(t) \/ \E f \in ModFiles : sceKernelLoadStartModule(t, f)

\* The system module list, which no other call looks at.
SysmoduleNext == registered \/ recomp_modules_start_preloaded
                 \/ \E id \in SysIds : sceSysmoduleLoadModuleInternal(id) \/ sceSysmoduleUnloadModule(id)

-----------------------------------------------------------------------------
\* However many threads load a module, and whether or not it was preloaded,
\* its init functions run once and in order; a handle names one module for
\* ever; the system module list has no id twice; and once the program runs, an
\* address in the range of a module of the table is attributed to the same
\* range by the lookup of the unwinder and by the guest's module info.
ModulesOnce ==
  /\ \A i \in DOMAIN mod_log : mod_log[i] = [k \in 1..Len(mod_log[i]) |-> k] /\ Len(mod_log[i]) <= ModInits
  /\ \A i \in DOMAIN g_prx : g_prx[i].handle # 0 => mod_given[g_prx[i].handle] = g_prx[i].file
  /\ IsInjective(g_loaded)
  /\ mod_phase = "run" /\ (\A j \in 2..Len(g_unwind) : SlotsOf(g_unwind[j].name) # {}) =>
       \A a \in MainRange[1]..MainRange[2] : recomp_module_find_by_addr(a) = recomp_module_info_by_addr(a)
=============================================================================
