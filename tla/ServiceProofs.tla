---------------------------- MODULE ServiceProofs ---------------------------
(***************************************************************************)
(* Proofs about the system services of MCServices.                         *)
(***************************************************************************)
EXTENDS MCServices, Integers, FiniteSetTheorems, SequenceTheorems, WellFoundedInduction, TLAPS

\* Least and greatest elements.
LEMMA LeastOf ==
  ASSUME NEW S, S \subseteq Nat, S # {}
  PROVE  Min(S) \in S /\ \A y \in S : Min(S) <= y
<1> DEFINE R == OpToRel(<, Nat)
<1>1. IsWellFoundedOn(R, Nat)
  BY NatLessThanWellFounded
<1>2. \A x, y \in Nat : <<y, x>> \in R <=> y < x
  BY DEF OpToRel
<1> HIDE DEF R
<1>3. PICK x \in S : \A y \in S : ~(<<y, x>> \in R)
  BY <1>1, WFMin
<1>4. ASSUME NEW y \in S PROVE x <= y
  <2>1. x \in Nat /\ y \in Nat /\ ~(<<y, x>> \in R)
    BY <1>3
  <2>2. ~(y < x)
    BY <1>2, <2>1
  <2> QED  BY <2>1, <2>2
<1>5. QED
  BY <1>3, <1>4 DEF Min

-----------------------------------------------------------------------------
(* Trophies (Trophy)                                                       *)

TrophyContexts == [in_use : BOOLEAN, id : Nat, registered_handle : Nat, unlocked : SUBSET Nat]
TrophyHandles == [in_use : BOOLEAN, id : Nat]

\* No two entries in use share an id.
OneId(table) == \A i, j \in DOMAIN table : table[i].in_use /\ table[j].in_use /\ i # j => table[i].id # table[j].id
\* Contexts whose ids were given to creations, with what was unlocked through each.
ContextTable(table, e) ==
  /\ table \in [1..MAX_TROPHY_CONTEXTS -> TrophyContexts] /\ OneId(table)
  /\ \A i \in 1..MAX_TROPHY_CONTEXTS : table[i].in_use => table[i].id \in 1..Len(e) /\ table[i].unlocked = e[table[i].id]
HandleTable(table, next) ==
  /\ table \in [1..MAX_TROPHY_HANDLES -> TrophyHandles] /\ OneId(table)
  /\ \A i \in 1..MAX_TROPHY_HANDLES : table[i].in_use => table[i].id < next

TrophyIInv ==
  /\ earned \in Seq(SUBSET Nat) /\ g_next_context_id = Len(earned) + 1 /\ g_next_handle_id \in Nat
  /\ ContextTable(g_contexts, earned) /\ HandleTable(g_handles, g_next_handle_id)

LEMMA NoTables ==
  /\ \A e : ContextTable(NoContexts, e)
  /\ \A next : HandleTable(NoHandles, next)
<1>1. NoContext \in TrophyContexts /\ ~NoContext.in_use /\ NoTrophyHandle \in TrophyHandles /\ ~NoTrophyHandle.in_use
  BY DEF NoContext, NoTrophyHandle, TrophyContexts, TrophyHandles
<1>2. QED
  BY <1>1 DEF ContextTable, HandleTable, OneId, NoContexts, NoHandles

\* The tables a call finds are those kept, or empty.
LEMMA TablesNow ==
  ASSUME TrophyIInv
  PROVE  ContextTable(ContextsNow, earned) /\ HandleTable(HandlesNow, g_next_handle_id)
  BY NoTables DEF TrophyIInv, ContextsNow, HandlesNow

LEMMA TrophyInitInv == TrophyInit => TrophyIInv
<1> SUFFICES ASSUME TrophyInit PROVE TrophyIInv
  OBVIOUS
<1>1. <<>> \in Seq(SUBSET Nat) /\ Len(<<>>) = 0
  OBVIOUS
<1>2. QED
  BY <1>1, NoTables DEF TrophyInit, TrophyIInv

LEMMA TrophyExactInv == TrophyIInv => TrophiesOwn
  BY DEF TrophyIInv, ContextTable, HandleTable, OneId, TrophiesOwn

\* A free slot, and the slot of an id.
LEMMA FreeSlot ==
  ASSUME NEW n \in Nat, NEW R, NEW table \in [1..n -> R], FreeIn(table) # {}
  PROVE  Min(FreeIn(table)) \in 1..n /\ ~table[Min(FreeIn(table))].in_use
<1>1. FreeIn(table) \subseteq Nat
  BY DEF FreeIn
<1>2. Min(FreeIn(table)) \in FreeIn(table)
  BY <1>1, LeastOf
<1>3. QED
  BY <1>2 DEF FreeIn

LEMMA SlotOf ==
  ASSUME NEW n \in Nat, NEW R, NEW table \in [1..n -> R], NEW x, Find(table, x) # {}
  PROVE  /\ Min(Find(table, x)) \in 1..n /\ table[Min(Find(table, x))].in_use
         /\ table[Min(Find(table, x))].id = x
<1>1. Find(table, x) \subseteq Nat
  BY DEF Find
<1>2. Min(Find(table, x)) \in Find(table, x)
  BY <1>1, LeastOf
<1>3. QED
  BY <1>2 DEF Find

\* A context is created, another one of a table is changed or destroyed.
LEMMA ContextCreated ==
  ASSUME NEW table, NEW e \in Seq(SUBSET Nat), ContextTable(table, e), NEW i \in 1..MAX_TROPHY_CONTEXTS, ~table[i].in_use,
         NEW next, next = Len(e) + 1
  PROVE  ContextTable([table EXCEPT ![i] = [NoContext EXCEPT !.in_use = TRUE, !.id = next]], Append(e, {}))
<1> DEFINE r == [NoContext EXCEPT !.in_use = TRUE, !.id = next]
           f == Append(e, {})
<1>a. next \in Nat \ {0}
  OBVIOUS
<1>1. r \in TrophyContexts /\ r.in_use /\ r.id = next /\ r.unlocked = {}
  BY <1>a DEF NoContext, TrophyContexts
<1>2. Len(f) = next /\ f[next] = {} /\ \A k \in 1..Len(e) : f[k] = e[k]
  OBVIOUS
<1> HIDE DEF r, f
<1>3. table \in [1..MAX_TROPHY_CONTEXTS -> TrophyContexts] /\ Len(e) \in Nat
  BY DEF ContextTable
<1> SUFFICES ASSUME NEW new, new = [table EXCEPT ![i] = r] PROVE ContextTable(new, f)
  BY DEF r, f
<1>4. /\ new \in [1..MAX_TROPHY_CONTEXTS -> TrophyContexts] /\ new[i] = r
      /\ \A j \in 1..MAX_TROPHY_CONTEXTS : j # i => new[j] = table[j]
  BY <1>1, <1>3
<1>5. \A j \in 1..MAX_TROPHY_CONTEXTS : j # i /\ new[j].in_use => new[j].id \in 1..Len(e) /\ new[j].unlocked = e[new[j].id]
  BY <1>4 DEF ContextTable
<1>6. OneId(new)
  <2> SUFFICES ASSUME NEW j \in 1..MAX_TROPHY_CONTEXTS, NEW k \in 1..MAX_TROPHY_CONTEXTS, new[j].in_use, new[k].in_use, j # k
               PROVE  new[j].id # new[k].id
    BY <1>4 DEF OneId
  <2>1. CASE j # i /\ k # i
    BY <1>3, <1>4, <2>1 DEF ContextTable, OneId
  <2>2. CASE j = i \/ k = i
    BY <1>1, <1>3, <1>4, <1>5, <2>2
  <2>3. QED
    BY <2>1, <2>2
<1>7. ASSUME NEW j \in 1..MAX_TROPHY_CONTEXTS, new[j].in_use
      PROVE  new[j].id \in 1..Len(f) /\ new[j].unlocked = f[new[j].id]
  <2>1. CASE j = i
    <3>1. new[j] = r
      BY <1>4, <2>1
    <3>2. next \in 1..Len(f) /\ f[next] = {}
      BY <1>a, <1>2
    <3>3. QED
      BY <1>1, <3>1, <3>2
  <2>2. CASE j # i
    BY <1>2, <1>3, <1>5, <1>7, <2>2
  <2>3. QED
    BY <2>1, <2>2
<1>8. QED
  BY <1>4, <1>6, <1>7 DEF ContextTable

LEMMA ContextChanged ==
  ASSUME NEW table, NEW e, ContextTable(table, e), NEW i \in 1..MAX_TROPHY_CONTEXTS, NEW r \in TrophyContexts,
         r.in_use => table[i].in_use /\ r.id = table[i].id, NEW f \in Seq(SUBSET Nat), Len(f) = Len(e),
         \A k \in 1..Len(e) : k # table[i].id => f[k] = e[k], r.in_use => r.unlocked = f[r.id],
         table[i].in_use \/ f = e, ~r.in_use => f = e
  PROVE  ContextTable([table EXCEPT ![i] = r], f)
<1>1. table \in [1..MAX_TROPHY_CONTEXTS -> TrophyContexts]
  BY DEF ContextTable
<1> SUFFICES ASSUME NEW new, new = [table EXCEPT ![i] = r] PROVE ContextTable(new, f)
  OBVIOUS
<1>2. /\ new \in [1..MAX_TROPHY_CONTEXTS -> TrophyContexts] /\ new[i] = r
      /\ \A j \in 1..MAX_TROPHY_CONTEXTS : j # i => new[j] = table[j]
  BY <1>1
<1>3. \A j \in 1..MAX_TROPHY_CONTEXTS : new[j].in_use => table[j].in_use /\ new[j].id = table[j].id
  BY <1>2
<1>4. OneId(new)
  BY <1>1, <1>2, <1>3 DEF ContextTable, OneId
<1>5. ASSUME NEW j \in 1..MAX_TROPHY_CONTEXTS, new[j].in_use
      PROVE  new[j].id \in 1..Len(f) /\ new[j].unlocked = f[new[j].id]
  <2>1. new[j].id \in 1..Len(e) /\ table[j].in_use /\ new[j].id = table[j].id
    BY <1>3, <1>5 DEF ContextTable
  <2>2. CASE j = i
    BY <1>2, <1>5, <2>1, <2>2
  <2>3. CASE j # i
    <3>1. new[j].unlocked = e[new[j].id]
      BY <1>2, <2>1, <2>3 DEF ContextTable
    <3>2. f = e \/ new[j].id # table[i].id
      BY <1>1, <2>1, <2>3 DEF ContextTable, OneId
    <3>3. QED
      BY <2>1, <3>1, <3>2
  <2>4. QED
    BY <2>2, <2>3
<1>6. QED
  BY <1>2, <1>4, <1>5 DEF ContextTable

LEMMA TrophyStepInv == TrophyIInv /\ (TrophyNext \/ UNCHANGED trophy_vars) => TrophyIInv'
<1> SUFFICES ASSUME TrophyIInv, TrophyNext \/ UNCHANGED trophy_vars PROVE TrophyIInv'
  OBVIOUS
<1>a. MAX_TROPHY_CONTEXTS \in Nat /\ MAX_TROPHY_HANDLES \in Nat
  BY TrophyAssumption
<1>b. /\ earned \in Seq(SUBSET Nat) /\ g_next_context_id = Len(earned) + 1 /\ g_next_handle_id \in Nat
      /\ ContextTable(g_contexts, earned) /\ HandleTable(g_handles, g_next_handle_id)
      /\ g_contexts \in [1..MAX_TROPHY_CONTEXTS -> TrophyContexts] /\ g_handles \in [1..MAX_TROPHY_HANDLES -> TrophyHandles]
  BY DEF TrophyIInv, ContextTable, HandleTable
<1>1. CASE sceNpTrophyInit
  BY <1>1, <1>b, NoTables DEF sceNpTrophyInit, TrophyIInv
<1>2. CASE sceNpTrophyTerm
  BY <1>2, <1>b DEF sceNpTrophyTerm, TrophyIInv
<1>3. CASE sceNpTrophyCreateContext
  <2> DEFINE i == Min(FreeIn(ContextsNow))
  <2>1. /\ FreeIn(ContextsNow) # {} /\ g_handles' = HandlesNow /\ g_next_handle_id' = g_next_handle_id
        /\ g_contexts' = [ContextsNow EXCEPT ![i] = [NoContext EXCEPT !.in_use = TRUE, !.id = g_next_context_id]]
        /\ earned' = Append(earned, {}) /\ g_next_context_id' = g_next_context_id + 1
    BY <1>3 DEF sceNpTrophyCreateContext
  <2>2. i \in 1..MAX_TROPHY_CONTEXTS /\ ~ContextsNow[i].in_use
    BY <1>a, <2>1, TablesNow, FreeSlot DEF ContextTable
  <2> HIDE DEF i
  <2>3. ContextTable(g_contexts', earned')
    BY <1>b, <2>1, <2>2, TablesNow, ContextCreated
  <2>4. earned' \in Seq(SUBSET Nat) /\ Len(earned') = Len(earned) + 1
    <3>1. {} \in SUBSET Nat
      OBVIOUS
    <3>2. QED
      BY <1>b, <2>1, <3>1
  <2>5. HandleTable(g_handles', g_next_handle_id')
    BY <2>1, TablesNow
  <2>6. QED
    BY <1>b, <2>1, <2>3, <2>4, <2>5 DEF TrophyIInv
<1>4. CASE sceNpTrophyCreateHandle
  <2> DEFINE i == Min(FreeIn(HandlesNow))
             r == [in_use |-> TRUE, id |-> g_next_handle_id]
  <2>1. /\ FreeIn(HandlesNow) # {} /\ g_contexts' = ContextsNow /\ g_handles' = [HandlesNow EXCEPT ![i] = r]
        /\ g_next_handle_id' = g_next_handle_id + 1 /\ UNCHANGED <<g_next_context_id, earned>>
    BY <1>4 DEF sceNpTrophyCreateHandle
  <2>2. i \in 1..MAX_TROPHY_HANDLES /\ ~HandlesNow[i].in_use
    BY <1>a, <2>1, TablesNow, FreeSlot DEF HandleTable
  <2>3. r \in TrophyHandles /\ r.in_use /\ r.id = g_next_handle_id
    BY <1>b DEF TrophyHandles
  <2> HIDE DEF i, r
  <2>4. /\ HandlesNow \in [1..MAX_TROPHY_HANDLES -> TrophyHandles] /\ OneId(HandlesNow)
        /\ \A j \in 1..MAX_TROPHY_HANDLES : HandlesNow[j].in_use => HandlesNow[j].id < g_next_handle_id
    BY TablesNow DEF HandleTable
  <2>5. /\ g_handles' \in [1..MAX_TROPHY_HANDLES -> TrophyHandles] /\ g_handles'[i] = r
        /\ \A j \in 1..MAX_TROPHY_HANDLES : j # i => g_handles'[j] = HandlesNow[j]
    BY <2>1, <2>2, <2>3, <2>4
  <2>6. \A j \in 1..MAX_TROPHY_HANDLES : HandlesNow[j].id \in Nat
    BY <2>4 DEF TrophyHandles
  <2>7. \A j \in 1..MAX_TROPHY_HANDLES : g_handles'[j].in_use => g_handles'[j].id < g_next_handle_id + 1
    BY <1>b, <2>3, <2>4, <2>5, <2>6
  <2>8. OneId(g_handles')
    BY <1>b, <2>3, <2>4, <2>5, <2>6 DEF OneId
  <2>9. QED
    BY <1>b, <2>1, <2>5, <2>7, <2>8, TablesNow DEF TrophyIInv, HandleTable
<1>5. ASSUME NEW c \in 1..TrophyCreates, sceNpTrophyDestroyContext(c) PROVE TrophyIInv'
  <2> DEFINE i == Min(Find(g_contexts, c))
             r == [g_contexts[i] EXCEPT !.in_use = FALSE]
  <2>1. i \in 1..MAX_TROPHY_CONTEXTS
    BY <1>5, <1>a, <1>b, SlotOf DEF sceNpTrophyDestroyContext
  <2>2. r \in TrophyContexts /\ ~r.in_use
    BY <1>b, <2>1 DEF TrophyContexts
  <2>3. g_contexts' = [g_contexts EXCEPT ![i] = r] /\ UNCHANGED <<g_handles, g_next_context_id, g_next_handle_id, earned>>
    BY <1>5, <1>b, <2>1 DEF sceNpTrophyDestroyContext
  <2> HIDE DEF i, r
  <2>4. ContextTable(g_contexts', earned)
    BY <1>b, <2>1, <2>2, <2>3, ContextChanged
  <2>5. QED
    BY <1>b, <2>3, <2>4 DEF TrophyIInv
<1>6. ASSUME NEW h \in 1..TrophyCreates, sceNpTrophyDestroyHandle(h) PROVE TrophyIInv'
  <2> DEFINE i == Min(Find(g_handles, h))
             r == [g_handles[i] EXCEPT !.in_use = FALSE]
  <2>1. i \in 1..MAX_TROPHY_HANDLES
    BY <1>6, <1>a, <1>b, SlotOf DEF sceNpTrophyDestroyHandle
  <2>2. r \in TrophyHandles /\ ~r.in_use
    BY <1>b, <2>1 DEF TrophyHandles
  <2>3. g_handles' = [g_handles EXCEPT ![i] = r] /\ UNCHANGED <<g_contexts, g_next_context_id, g_next_handle_id, earned>>
    BY <1>6, <1>b, <2>1 DEF sceNpTrophyDestroyHandle
  <2> HIDE DEF i, r
  <2>4. HandleTable(g_handles', g_next_handle_id)
    BY <1>b, <2>1, <2>2, <2>3 DEF HandleTable, OneId
  <2>5. QED
    BY <1>b, <2>3, <2>4 DEF TrophyIInv
<1>7. ASSUME NEW c \in 1..TrophyCreates, NEW h \in 1..TrophyCreates, sceNpTrophyRegisterContext(c, h) PROVE TrophyIInv'
  <2> DEFINE i == Min(Find(g_contexts, c))
             r == [g_contexts[i] EXCEPT !.registered_handle = h]
  <2>1. i \in 1..MAX_TROPHY_CONTEXTS /\ g_contexts[i].in_use
    BY <1>7, <1>a, <1>b, SlotOf DEF sceNpTrophyRegisterContext
  <2>2. /\ r \in TrophyContexts /\ r.in_use = g_contexts[i].in_use /\ r.id = g_contexts[i].id
        /\ r.unlocked = g_contexts[i].unlocked
    <3>1. h \in Nat
      BY TrophyAssumption
    <3>2. QED
      BY <1>b, <2>1, <3>1 DEF TrophyContexts
  <2>3. g_contexts' = [g_contexts EXCEPT ![i] = r] /\ UNCHANGED <<g_handles, g_next_context_id, g_next_handle_id, earned>>
    BY <1>7, <1>b, <2>1 DEF sceNpTrophyRegisterContext
  <2> HIDE DEF i, r
  <2>4. r.unlocked = earned[r.id]
    BY <1>b, <2>1, <2>2 DEF ContextTable
  <2>5. ContextTable(g_contexts', earned)
    BY <1>b, <2>1, <2>2, <2>3, <2>4, ContextChanged
  <2>6. QED
    BY <1>b, <2>3, <2>5 DEF TrophyIInv
<1>8. ASSUME NEW c \in 1..TrophyCreates, NEW id \in TrophyIds, sceNpTrophyUnlockTrophy(c, id) PROVE TrophyIInv'
  <2> DEFINE i == Min(Find(g_contexts, c))
             more == {t \in {id} : t < MaxTrophies}
             r == [g_contexts[i] EXCEPT !.unlocked = @ \cup more]
  <2>1. i \in 1..MAX_TROPHY_CONTEXTS /\ g_contexts[i].in_use /\ g_contexts[i].id = c
    <3>1. Find(g_contexts, c) # {}
      BY <1>8 DEF sceNpTrophyUnlockTrophy
    <3>2. QED
      <4>1. g_contexts \in [1..MAX_TROPHY_CONTEXTS -> TrophyContexts]
        BY <1>b
      <4>2. Find(g_contexts, c) \subseteq Nat
        BY <1>a, <4>1 DEF Find
      <4>3. i \in Find(g_contexts, c)
        BY <3>1, <4>2, LeastOf
      <4>4. QED
        BY <4>1, <4>3 DEF Find
  <2>2. more \in SUBSET Nat
    BY TrophyAssumption
  <2>3. g_contexts' = [g_contexts EXCEPT ![i] = r] /\ earned' = [earned EXCEPT ![c] = @ \cup more]
        /\ UNCHANGED <<g_handles, g_next_context_id, g_next_handle_id>>
    BY <1>8, <1>b, <2>1 DEF sceNpTrophyUnlockTrophy
  <2> HIDE DEF more
  <2>4. g_contexts[i] \in TrophyContexts
    BY <1>b, <2>1
  <2>5. r \in TrophyContexts /\ r.in_use = g_contexts[i].in_use /\ r.id = c /\ r.unlocked = g_contexts[i].unlocked \cup more
    BY <2>1, <2>2, <2>4 DEF TrophyContexts
  <2> HIDE DEF i, r
  <2>6. c \in 1..Len(earned) /\ g_contexts[i].unlocked = earned[c]
    BY <1>b, <2>1 DEF ContextTable
  <2>7. /\ earned' \in Seq(SUBSET Nat) /\ Len(earned') = Len(earned) /\ earned'[c] = earned[c] \cup more
        /\ \A k \in 1..Len(earned) : k # c => earned'[k] = earned[k]
    <3> DEFINE s == earned[c] \cup more
    <3>1. earned[c] \in SUBSET Nat
      BY <1>b, <2>6
    <3>2. s \in SUBSET Nat /\ earned' = [earned EXCEPT ![c] = s]
      BY <2>2, <2>3, <3>1
    <3> HIDE DEF s
    <3>3. /\ earned' \in Seq(SUBSET Nat) /\ Len(earned') = Len(earned) /\ earned'[c] = s
          /\ \A k \in 1..Len(earned) : k # c => earned'[k] = earned[k]
      BY <1>b, <2>6, <3>2
    <3>4. QED
      BY <3>3 DEF s
  <2>8. r.unlocked = earned'[r.id]
    BY <2>5, <2>6, <2>7
  <2>a. r.in_use /\ r.id = g_contexts[i].id
    BY <2>1, <2>5
  <2>9. ContextTable(g_contexts', earned')
    <3>1. ContextTable([g_contexts EXCEPT ![i] = r], earned')
      <4>1. earned' \in Seq(SUBSET Nat) /\ Len(earned') = Len(earned)
        BY <2>7
      <4>2. \A k \in 1..Len(earned) : k # g_contexts[i].id => earned'[k] = earned[k]
        BY <2>1, <2>7
      <4>3. ContextTable(g_contexts, earned) /\ i \in 1..MAX_TROPHY_CONTEXTS /\ r \in TrophyContexts
        BY <1>b, <2>1, <2>5
      <4>4. QED
        BY <2>1, <2>a, <2>8, <4>1, <4>2, <4>3, ContextChanged
    <3>2. QED
      BY <2>3, <3>1
  <2>10. QED
    BY <1>b, <2>3, <2>7, <2>9 DEF TrophyIInv
<1>9. CASE UNCHANGED trophy_vars
  BY <1>9, <1>b DEF trophy_vars, TrophyIInv
<1>10. QED
  BY <1>1, <1>2, <1>3, <1>4, <1>5, <1>6, <1>7, <1>8, <1>9 DEF TrophyNext

-----------------------------------------------------------------------------
(* Modules (Modules)                                                       *)

PrxRecs == [file : ModFiles, exports : ModFiles, inits : {0, ModInits}, started : BOOLEAN, handle : Nat]
StartRecs == [at : {"idle", "start", "inits"}, slot : Nat, ran : Nat]
TextRanges == {MainRange} \cup {ModRange(f) : f \in ModFiles}
UnwindRecs == [name : ModFiles \cup {Main}, range : TextRanges]
Starters == ModThreads \cup {Main}
ModTypes ==
  /\ g_prx \in Seq(PrxRecs) /\ mod_log \in Seq(Seq(Nat)) /\ Len(mod_log) = Len(g_prx)
  /\ mod_given \in Seq(ModFiles) /\ g_mod_handle = Len(mod_given) + 1
  /\ mod_call \in [Starters -> StartRecs]
  /\ g_unwind \in Seq(UnwindRecs) /\ g_loaded \in Seq(Nat \X Nat)

\* Init functions that ran: one after the other, from the first.
LogInv(l) == Len(l) <= ModInits /\ \A k \in 1..Len(l) : l[k] = k
PrxInv(i) ==
  /\ LogInv(mod_log[i]) /\ (~g_prx[i].started => mod_log[i] = <<>>)
  /\ g_prx[i].handle # 0 => g_prx[i].handle <= Len(mod_given) /\ mod_given[g_prx[i].handle] = g_prx[i].file
\* A thread that starts a module has its handle; one that runs its init
\* functions has claimed it, and knows how many have run.
StarterInv(t) ==
  /\ mod_call[t].at = "start" => mod_call[t].slot # 0 /\ \E k \in 1..Len(g_prx) : g_prx[k].handle = mod_call[t].slot
  /\ mod_call[t].at = "inits" =>
       /\ mod_call[t].slot \in 1..Len(g_prx) /\ g_prx[mod_call[t].slot].started
       /\ mod_call[t].ran = Len(mod_log[mod_call[t].slot])
OneStarter ==
  \A t, u \in Starters : t # u /\ mod_call[t].at = "inits" /\ mod_call[u].at = "inits" => mod_call[t].slot # mod_call[u].slot
UnwindInv ==
  /\ Len(g_unwind) > 0 /\ g_unwind[1].range = MainRange
  /\ \A j \in 2..Len(g_unwind) : g_unwind[j].name \in ModFiles /\ g_unwind[j].range = ModRange(g_unwind[j].name)

ModIInv ==
  /\ ModTypes
  /\ \A i \in 1..Len(g_prx) : PrxInv(i)
  /\ \A t \in Starters : StarterInv(t)
  /\ OneStarter /\ UnwindInv /\ IsInjective(g_loaded)

\* The spellings of one module have one text range, and ranges that start
\* together are one range.
RangesMatch ==
  \A f, g \in ModFiles : ModStem(f) = ModStem(g) \/ ModRange(f)[1] = ModRange(g)[1] => ModRange(f) = ModRange(g)

LEMMA ModFacts ==
  ASSUME ModIInv
  PROVE  /\ g_prx \in Seq(PrxRecs) /\ DOMAIN g_prx = 1..Len(g_prx) /\ Len(g_prx) \in Nat
         /\ mod_log \in Seq(Seq(Nat)) /\ DOMAIN mod_log = 1..Len(g_prx) /\ Len(mod_log) = Len(g_prx)
         /\ mod_given \in Seq(ModFiles) /\ Len(mod_given) \in Nat /\ g_mod_handle = Len(mod_given) + 1
         /\ mod_call \in [Starters -> StartRecs]
         /\ g_unwind \in Seq(UnwindRecs) /\ DOMAIN g_unwind = 1..Len(g_unwind) /\ Len(g_unwind) \in Nat
         /\ g_loaded \in Seq(Nat \X Nat) /\ ModInits \in Nat
         /\ \A i \in 1..Len(g_prx) : /\ g_prx[i] \in PrxRecs /\ g_prx[i].file \in ModFiles /\ g_prx[i].handle \in Nat
                                     /\ g_prx[i].inits <= ModInits /\ g_prx[i].inits \in Nat /\ g_prx[i].started \in BOOLEAN
<1>1. /\ g_prx \in Seq(PrxRecs) /\ mod_log \in Seq(Seq(Nat)) /\ Len(mod_log) = Len(g_prx)
      /\ mod_given \in Seq(ModFiles) /\ g_mod_handle = Len(mod_given) + 1
      /\ mod_call \in [Starters -> StartRecs] /\ g_unwind \in Seq(UnwindRecs) /\ g_loaded \in Seq(Nat \X Nat) /\ ModInits \in Nat
  BY ModAssumption DEF ModIInv, ModTypes
<1>2. /\ DOMAIN g_prx = 1..Len(g_prx) /\ Len(g_prx) \in Nat /\ DOMAIN mod_log = 1..Len(mod_log)
      /\ DOMAIN g_unwind = 1..Len(g_unwind) /\ Len(g_unwind) \in Nat /\ Len(mod_given) \in Nat
  BY <1>1
<1>3. ASSUME NEW i \in 1..Len(g_prx)
      PROVE  /\ g_prx[i] \in PrxRecs /\ g_prx[i].file \in ModFiles /\ g_prx[i].handle \in Nat
             /\ g_prx[i].inits <= ModInits /\ g_prx[i].inits \in Nat /\ g_prx[i].started \in BOOLEAN
  <2>1. g_prx[i] \in PrxRecs
    BY <1>1
  <2>2. QED
    BY <1>1, <2>1 DEF PrxRecs
<1>4. QED
  BY <1>1, <1>2, <1>3

LEMMA ModInitInv == ModInit => ModIInv
<1> SUFFICES ASSUME ModInit PROVE ModIInv
  OBVIOUS
<1>1. NoStart \in StartRecs /\ NoStart.at = "idle"
  BY DEF NoStart, StartRecs
<1>2. \A S : <<>> \in Seq(S) /\ Len(<<>>) = 0
  OBVIOUS
<1>3. g_unwind \in Seq(UnwindRecs) /\ Len(g_unwind) = 1 /\ g_unwind[1].range = MainRange
  <2>1. [name |-> Main, range |-> MainRange] \in UnwindRecs
    BY DEF UnwindRecs, TextRanges
  <2>2. QED
    BY <2>1 DEF ModInit
<1>4. ModTypes
  BY <1>1, <1>2, <1>3 DEF ModInit, ModTypes, Starters
<1>5. \A t \in Starters : mod_call[t].at = "idle"
  BY <1>1 DEF ModInit, Starters
<1>6. UnwindInv
  BY <1>3 DEF UnwindInv
<1>7. IsInjective(g_loaded)
  BY DEF ModInit, IsInjective
<1>8. g_prx = <<>>
  BY DEF ModInit
<1>9. QED
  BY <1>2, <1>4, <1>5, <1>6, <1>7, <1>8 DEF ModIInv, StarterInv, OneStarter

\* The first unwind entry of a module of the table.
LEMMA UnwindIs ==
  ASSUME ModIInv, NEW i \in 1..Len(g_prx)
  PROVE  /\ UnwindOf(i) # 0 => UnwindOf(i) \in 2..Len(g_unwind) /\ ModStem(g_unwind[UnwindOf(i)].name) = ModStem(g_prx[i].file)
         /\ (\E j \in 2..Len(g_unwind) : ModStem(g_unwind[j].name) = ModStem(g_prx[i].file)) => UnwindOf(i) # 0
<1> DEFINE js == {j \in 2..Len(g_unwind) : ModStem(g_unwind[j].name) = ModStem(g_prx[i].file)}
<1>1. UnwindOf(i) = IF js = {} THEN 0 ELSE Min(js)
  BY DEF UnwindOf
<1>2. ASSUME js # {} PROVE Min(js) \in js
  <2>1. js \subseteq Nat
    OBVIOUS
  <2>2. QED
    BY <1>2, <2>1, LeastOf
<1> HIDE DEF js
<1>3. ASSUME UnwindOf(i) # 0 PROVE UnwindOf(i) \in js
  BY <1>1, <1>2, <1>3
<1>4. ASSUME js # {} PROVE UnwindOf(i) \in 2..Len(g_unwind)
  BY <1>1, <1>2, <1>4 DEF js
<1>5. ASSUME js # {} PROVE UnwindOf(i) # 0
  <2>1. UnwindOf(i) \in 2..Len(g_unwind)
    BY <1>4, <1>5
  <2>2. Len(g_unwind) \in Nat
    BY ModFacts
  <2>3. QED
    BY <2>1, <2>2
<1>6. UnwindOf(i) # 0 => UnwindOf(i) \in 2..Len(g_unwind) /\ ModStem(g_unwind[UnwindOf(i)].name) = ModStem(g_prx[i].file)
  BY <1>3 DEF js
<1>7. (\E j \in 2..Len(g_unwind) : ModStem(g_unwind[j].name) = ModStem(g_prx[i].file)) => js # {}
  BY DEF js
<1>8. QED
  BY <1>5, <1>6, <1>7

\* The lookup of the unwinder and the guest's module info know the same ranges.
LEMMA SameRanges ==
  ASSUME RangesMatch, ModIInv, \A j \in 2..Len(g_unwind) : SlotsOf(g_unwind[j].name) # {}
  PROVE  {g_unwind[j].range : j \in DOMAIN g_unwind}
           = {g_unwind[1].range} \cup {g_unwind[UnwindOf(i)].range : i \in {k \in SnapshotSlots : UnwindOf(k) # 0}}
<1> DEFINE all == {g_unwind[j].range : j \in DOMAIN g_unwind}
           told == {g_unwind[UnwindOf(i)].range : i \in {k \in SnapshotSlots : UnwindOf(k) # 0}}
<1>1. 1 \in DOMAIN g_unwind /\ DOMAIN g_unwind = 1..Len(g_unwind) /\ Len(g_unwind) \in Nat
  BY ModFacts DEF ModIInv, UnwindInv
<1>2. told \subseteq all
  <2> SUFFICES ASSUME NEW i \in SnapshotSlots, UnwindOf(i) # 0 PROVE UnwindOf(i) \in DOMAIN g_unwind
    OBVIOUS
  <2>1. i \in 1..Len(g_prx)
    BY ModFacts DEF SnapshotSlots
  <2>2. QED
    BY <1>1, <2>1, UnwindIs
<1>3. ASSUME NEW j \in 2..Len(g_unwind) PROVE g_unwind[j].range \in told
  <2> DEFINE rangeOf(k) == g_unwind[UnwindOf(k)].range
             same == {k \in 1..Len(g_prx) : UnwindOf(k) # 0 /\ rangeOf(k)[1] = g_unwind[j].range[1]}
  <2>1. \A k \in 1..Len(g_prx) : UnwindOf(k) # 0 => g_unwind[UnwindOf(k)].name \in ModFiles /\ rangeOf(k) = ModRange(g_unwind[UnwindOf(k)].name)
    BY UnwindIs DEF ModIInv, UnwindInv
  <2>2. g_unwind[j].name \in ModFiles /\ g_unwind[j].range = ModRange(g_unwind[j].name)
    BY DEF ModIInv, UnwindInv
  <2>3. PICK i \in 1..Len(g_prx) : ModStem(g_prx[i].file) = ModStem(g_unwind[j].name)
    BY ModFacts DEF SlotsOf
  <2>4. UnwindOf(i) # 0 /\ ModStem(g_unwind[UnwindOf(i)].name) = ModStem(g_unwind[j].name)
    BY <2>3, UnwindIs
  <2>5. i \in same
    <3>1. ModRange(g_unwind[UnwindOf(i)].name) = ModRange(g_unwind[j].name)
      BY <2>1, <2>2, <2>4 DEF RangesMatch
    <3>2. rangeOf(i) = g_unwind[j].range
      BY <2>1, <2>2, <2>4, <3>1
    <3>3. QED
      BY <2>4, <3>2
  <2> DEFINE m == Min(same)
  <2>6. m \in same /\ \A k \in same : m <= k
    <3>1. same \subseteq Nat
      OBVIOUS
    <3>2. QED
      BY <2>5, <3>1, LeastOf
  <2>7. m \in 1..Len(g_prx) /\ UnwindOf(m) # 0 /\ rangeOf(m)[1] = g_unwind[j].range[1]
    BY <2>6
  <2> HIDE DEF m
  <2>8. Listed(m)
    <3> SUFFICES ASSUME NEW k \in 1..(m - 1), UnwindOf(k) # 0, rangeOf(k)[1] = rangeOf(m)[1] PROVE FALSE
      BY DEF Listed
    <3>1. k \in 1..Len(g_prx) /\ k < m
      BY <2>7, ModFacts
    <3>2. k \in same
      BY <2>7, <3>1
    <3>3. QED
      BY <2>6, <2>7, <3>1, <3>2
  <2>9. rangeOf(m) = g_unwind[j].range
    <3>1. ModRange(g_unwind[UnwindOf(m)].name)[1] = ModRange(g_unwind[j].name)[1]
      BY <2>1, <2>2, <2>7
    <3>2. ModRange(g_unwind[UnwindOf(m)].name) = ModRange(g_unwind[j].name)
      BY <2>1, <2>2, <2>7, <3>1 DEF RangesMatch
    <3>3. QED
      BY <2>1, <2>2, <2>7, <3>2
  <2>10. m \in SnapshotSlots
    BY <2>7, <2>8, ModFacts DEF SnapshotSlots
  <2>11. QED
    BY <2>7, <2>9, <2>10
<1> HIDE DEF told
<1>4. all \subseteq {g_unwind[1].range} \cup told
  <2> SUFFICES ASSUME NEW j \in DOMAIN g_unwind PROVE g_unwind[j].range \in {g_unwind[1].range} \cup told
    OBVIOUS
  <2>1. j = 1 \/ j \in 2..Len(g_unwind)
    BY <1>1
  <2>2. QED
    BY <1>3, <2>1
<1>5. g_unwind[1].range \in all
  BY <1>1
<1>6. QED
  BY <1>2, <1>4, <1>5 DEF told

LEMMA ModExactInv == ASSUME RangesMatch, ModIInv PROVE ModulesOnce
<1>1. ASSUME NEW i \in DOMAIN mod_log PROVE mod_log[i] = [k \in 1..Len(mod_log[i]) |-> k] /\ Len(mod_log[i]) <= ModInits
  <2>1. i \in 1..Len(g_prx) /\ mod_log[i] \in Seq(Nat)
    BY ModFacts
  <2>2. LogInv(mod_log[i])
    BY <2>1 DEF ModIInv, PrxInv
  <2>3. QED
    BY <2>1, <2>2 DEF LogInv
<1>2. ASSUME NEW i \in DOMAIN g_prx, g_prx[i].handle # 0 PROVE mod_given[g_prx[i].handle] = g_prx[i].file
  BY <1>2, ModFacts DEF ModIInv, PrxInv
<1>3. IsInjective(g_loaded)
  BY DEF ModIInv
<1>4. ASSUME \A j \in 2..Len(g_unwind) : SlotsOf(g_unwind[j].name) # {}, NEW a
      PROVE  recomp_module_find_by_addr(a) = recomp_module_info_by_addr(a)
  <2> DEFINE R == {g_unwind[j].range : j \in DOMAIN g_unwind}
             S == {g_unwind[1].range} \cup {g_unwind[UnwindOf(i)].range : i \in {k \in SnapshotSlots : UnwindOf(k) # 0}}
  <2>1. R = S
    BY <1>4, SameRanges
  <2>2. recomp_module_find_by_addr(a) = Holding(R, a) /\ recomp_module_info_by_addr(a) = Holding(S, a)
    BY DEF recomp_module_find_by_addr, recomp_module_info_by_addr
  <2> HIDE DEF R, S
  <2>3. Holding(R, a) = Holding(S, a)
    BY <2>1
  <2>4. QED
    BY <2>2, <2>3
<1>5. QED
  BY <1>1, <1>2, <1>3, <1>4 DEF ModulesOnce

\* A step that changes one entry of the table and keeps its file.
LEMMA SlotChanged ==
  ASSUME ModIInv, NEW i \in 1..Len(g_prx), NEW r \in PrxRecs, r.file = g_prx[i].file, g_prx' = [g_prx EXCEPT ![i] = r]
  PROVE  /\ g_prx' \in Seq(PrxRecs) /\ Len(g_prx') = Len(g_prx) /\ g_prx'[i] = r
         /\ \A k \in 1..Len(g_prx) : k # i => g_prx'[k] = g_prx[k]
         /\ \A k \in 1..Len(g_prx) : g_prx'[k].file = g_prx[k].file
<1>1. g_prx \in Seq(PrxRecs) /\ Len(g_prx) \in Nat /\ DOMAIN g_prx = 1..Len(g_prx)
  BY ModFacts
<1>2. g_prx' \in Seq(PrxRecs) /\ Len(g_prx') = Len(g_prx)
  BY <1>1
<1>3. g_prx'[i] = r /\ \A k \in 1..Len(g_prx) : k # i => g_prx'[k] = g_prx[k]
  BY <1>1
<1>4. QED
  BY <1>2, <1>3

\* What the steps that touch neither the unwind entries nor the system
\* modules leave to be shown.
LEMMA ModOnTable ==
  ASSUME ModIInv, UNCHANGED <<g_unwind, g_loaded>>,
         g_prx' \in Seq(PrxRecs), mod_log' \in Seq(Seq(Nat)), Len(mod_log') = Len(g_prx'),
         mod_given' \in Seq(ModFiles), g_mod_handle' = Len(mod_given') + 1, mod_call' \in [Starters -> StartRecs],
         \A i \in 1..Len(g_prx') : PrxInv(i)', \A t \in Starters : StarterInv(t)', OneStarter'
  PROVE  ModIInv'
<1>1. g_unwind' = g_unwind /\ g_loaded' = g_loaded
  OBVIOUS
<1>2. UnwindInv'
  BY <1>1 DEF UnwindInv, ModIInv
<1>3. IsInjective(g_loaded')
  BY <1>1 DEF ModIInv
<1>4. ModTypes'
  BY <1>1 DEF ModTypes, ModIInv
<1>5. QED
  BY <1>2, <1>3, <1>4 DEF ModIInv

\* A step that changes only what an entry exports or how many init functions
\* it has.
LEMMA ModKept ==
  ASSUME ModIInv, UNCHANGED <<g_unwind, g_loaded, g_mod_handle, mod_call, mod_log, mod_given>>,
         NEW i \in 1..Len(g_prx), NEW r \in PrxRecs, g_prx' = [g_prx EXCEPT ![i] = r],
         r.file = g_prx[i].file, r.handle = g_prx[i].handle, r.started = g_prx[i].started
  PROVE  ModIInv'
<1>1. /\ g_prx' \in Seq(PrxRecs) /\ Len(g_prx') = Len(g_prx)
      /\ \A k \in 1..Len(g_prx) : /\ g_prx'[k].file = g_prx[k].file /\ g_prx'[k].handle = g_prx[k].handle
                                  /\ g_prx'[k].started = g_prx[k].started
  <2>1. /\ g_prx' \in Seq(PrxRecs) /\ Len(g_prx') = Len(g_prx) /\ g_prx'[i] = r
        /\ \A k \in 1..Len(g_prx) : k # i => g_prx'[k] = g_prx[k]
    BY SlotChanged
  <2>2. QED
    BY <2>1
<1>2. \A k \in 1..Len(g_prx') : PrxInv(k)'
  <2> SUFFICES ASSUME NEW k \in 1..Len(g_prx') PROVE PrxInv(k)'
    OBVIOUS
  <2>1. PrxInv(k) /\ k \in 1..Len(g_prx)
    BY <1>1 DEF ModIInv
  <2>2. mod_log' = mod_log /\ mod_given' = mod_given
    OBVIOUS
  <2>3. QED
    BY <1>1, <2>1, <2>2 DEF PrxInv
<1>3. \A t \in Starters : StarterInv(t)'
  <2> SUFFICES ASSUME NEW t \in Starters PROVE StarterInv(t)'
    OBVIOUS
  <2>1. StarterInv(t)
    BY DEF ModIInv
  <2>2. mod_log' = mod_log /\ mod_call' = mod_call
    OBVIOUS
  <2>3. QED
    BY <1>1, <2>1, <2>2 DEF StarterInv
<1>4. OneStarter'
  <2>1. mod_call' = mod_call /\ OneStarter
    BY DEF ModIInv
  <2>2. QED
    BY <2>1 DEF OneStarter
<1>5. QED
  BY <1>1, <1>2, <1>3, <1>4, ModOnTable, ModFacts

LEMMA ModSlotOf == ASSUME ModIInv, NEW f, SlotsOf(f) # {} PROVE Min(SlotsOf(f)) \in 1..Len(g_prx)
<1>1. SlotsOf(f) \subseteq 1..Len(g_prx) /\ SlotsOf(f) \subseteq Nat
  BY ModFacts DEF SlotsOf
<1>2. Min(SlotsOf(f)) \in SlotsOf(f)
  BY <1>1, LeastOf
<1>3. QED
  BY <1>1, <1>2

LEMMA RegisterInv ==
  ASSUME ModIInv, NEW f \in ModFiles, recomp_module_register(f)
  PROVE  ModIInv'
<1>1. CASE SlotsOf(f) # {}
  <2> DEFINE i == Min(SlotsOf(f))
             r == [g_prx[i] EXCEPT !.exports = f]
  <2>1. i \in 1..Len(g_prx)
    BY <1>1, ModSlotOf
  <2> HIDE DEF i
  <2>2. g_prx' = [g_prx EXCEPT ![i].exports = f] /\ UNCHANGED <<g_unwind, g_loaded, g_mod_handle, mod_call, mod_log, mod_given>>
    BY <1>1 DEF recomp_module_register, i
  <2>3. r \in PrxRecs /\ r.file = g_prx[i].file /\ r.handle = g_prx[i].handle /\ r.started = g_prx[i].started
    BY <2>1, ModFacts DEF PrxRecs
  <2>4. g_prx' = [g_prx EXCEPT ![i] = r]
    BY <2>2
  <2> HIDE DEF r
  <2>5. QED
    BY <2>1, <2>2, <2>3, <2>4, ModKept
<1>2. CASE SlotsOf(f) = {}
  <2> DEFINE r == [file |-> f, exports |-> f, inits |-> 0, started |-> FALSE, handle |-> 0]
  <2>1. /\ g_prx' = Append(g_prx, r) /\ mod_log' = Append(mod_log, <<>>)
        /\ UNCHANGED <<g_mod_handle, g_unwind, g_loaded, mod_call, mod_given>>
    BY <1>2 DEF recomp_module_register
  <2>2. r \in PrxRecs /\ r.started = FALSE /\ r.handle = 0
    BY DEF PrxRecs
  <2> HIDE DEF r
  <2>3. /\ g_prx' \in Seq(PrxRecs) /\ Len(g_prx') = Len(g_prx) + 1 /\ g_prx'[Len(g_prx) + 1] = r
        /\ \A k \in 1..Len(g_prx) : g_prx'[k] = g_prx[k]
    BY <2>1, <2>2, ModFacts
  <2> DEFINE none == <<>>
  <2>4. none \in Seq(Nat) /\ mod_log' = Append(mod_log, none)
    BY <2>1
  <2> HIDE DEF none
  <2>5. /\ mod_log' \in Seq(Seq(Nat)) /\ Len(mod_log') = Len(g_prx) + 1 /\ mod_log'[Len(g_prx) + 1] = none
        /\ \A k \in 1..Len(g_prx) : mod_log'[k] = mod_log[k]
    BY <2>4, ModFacts
  <2>6. LogInv(none) /\ none = <<>>
    BY ModFacts DEF LogInv, none
  <2>7. \A k \in 1..Len(g_prx') : PrxInv(k)'
    <3> SUFFICES ASSUME NEW k \in 1..Len(g_prx') PROVE PrxInv(k)'
      OBVIOUS
    <3>1. mod_given' = mod_given
      BY <2>1
    <3>2. CASE k = Len(g_prx) + 1
      <4>1. mod_log'[k] = none /\ g_prx'[k].handle = 0
        BY <2>2, <2>3, <2>5, <3>2
      <4>2. QED
        BY <2>6, <4>1 DEF PrxInv
    <3>3. CASE k # Len(g_prx) + 1
      <4>1. k \in 1..Len(g_prx)
        BY <2>3, <3>3, ModFacts
      <4>2. PrxInv(k) /\ g_prx'[k] = g_prx[k] /\ mod_log'[k] = mod_log[k]
        BY <2>3, <2>5, <4>1 DEF ModIInv
      <4>3. QED
        BY <3>1, <4>2 DEF PrxInv
    <3>4. QED
      BY <3>2, <3>3
  <2>8. \A t \in Starters : StarterInv(t)'
    <3> SUFFICES ASSUME NEW t \in Starters PROVE StarterInv(t)'
      OBVIOUS
    <3>1. StarterInv(t) /\ mod_call' = mod_call
      BY <2>1 DEF ModIInv
    <3>2. 1..Len(g_prx) \subseteq 1..Len(g_prx')
      BY <2>3, ModFacts
    <3>3. QED
      BY <2>3, <2>5, <3>1, <3>2 DEF StarterInv
  <2>9. OneStarter'
    <3>1. mod_call' = mod_call /\ OneStarter
      BY <2>1 DEF ModIInv
    <3>2. QED
      BY <3>1 DEF OneStarter
  <2>10. QED
    BY <2>1, <2>3, <2>5, <2>7, <2>8, <2>9, ModOnTable, ModFacts
<1>3. QED
  BY <1>1, <1>2

LEMMA RegisterInitInv ==
  ASSUME ModIInv, NEW f \in ModFiles, recomp_module_register_init(f)
  PROVE  ModIInv'
<1> DEFINE i == Min(SlotsOf(f))
           r == [g_prx[i] EXCEPT !.inits = ModInits]
<1>1. i \in 1..Len(g_prx)
  BY ModSlotOf DEF recomp_module_register_init
<1> HIDE DEF i
<1>2. g_prx' = [g_prx EXCEPT ![i].inits = ModInits] /\ UNCHANGED <<g_unwind, g_loaded, g_mod_handle, mod_call, mod_log, mod_given>>
  BY DEF recomp_module_register_init, i
<1>3. r \in PrxRecs /\ r.file = g_prx[i].file /\ r.handle = g_prx[i].handle /\ r.started = g_prx[i].started
  BY <1>1, ModFacts DEF PrxRecs
<1>4. g_prx' = [g_prx EXCEPT ![i] = r]
  BY <1>2
<1> HIDE DEF r
<1>5. QED
  BY <1>1, <1>2, <1>3, <1>4, ModKept

LEMMA RegisterUnwindInv ==
  ASSUME ModIInv, NEW f \in ModFiles, recomp_module_register_unwind_info(f)
  PROVE  ModIInv'
<1> DEFINE u == [name |-> f, range |-> ModRange(f)]
<1>1. g_unwind' = Append(g_unwind, u) /\ UNCHANGED <<g_prx, g_mod_handle, g_loaded, mod_call, mod_log, mod_given>>
  BY DEF recomp_module_register_unwind_info
<1>2. u \in UnwindRecs /\ u.name = f /\ u.range = ModRange(f)
  BY DEF UnwindRecs, TextRanges
<1> HIDE DEF u
<1>3. /\ g_unwind' \in Seq(UnwindRecs) /\ Len(g_unwind') = Len(g_unwind) + 1 /\ g_unwind'[Len(g_unwind) + 1] = u
      /\ \A j \in 1..Len(g_unwind) : g_unwind'[j] = g_unwind[j]
  BY <1>1, <1>2, ModFacts
<1>4. UnwindInv'
  <2>1. UnwindInv /\ Len(g_unwind) \in Nat
    BY ModFacts DEF ModIInv
  <2>2. Len(g_unwind) > 0 /\ g_unwind'[1].range = MainRange
    BY <1>3, <2>1 DEF UnwindInv
  <2>3. ASSUME NEW j \in 2..Len(g_unwind') PROVE g_unwind'[j].name \in ModFiles /\ g_unwind'[j].range = ModRange(g_unwind'[j].name)
    <3>1. CASE j = Len(g_unwind) + 1
      BY <1>2, <1>3, <3>1
    <3>2. CASE j # Len(g_unwind) + 1
      <4>1. j \in 2..Len(g_unwind) /\ j \in 1..Len(g_unwind)
        BY <1>3, <2>1, <3>2
      <4>2. g_unwind'[j] = g_unwind[j]
        BY <1>3, <4>1
      <4>3. QED
        BY <2>1, <4>1, <4>2 DEF UnwindInv
    <3>3. QED
      BY <3>1, <3>2
  <2>4. QED
    BY <1>3, <2>1, <2>2, <2>3 DEF UnwindInv
<1>5. ModTypes'
  BY <1>1, <1>3 DEF ModTypes, ModIInv
<1>6. /\ (\A i \in 1..Len(g_prx) : PrxInv(i))' /\ (\A t \in Starters : StarterInv(t))'
      /\ OneStarter' /\ IsInjective(g_loaded)'
  BY <1>1 DEF ModIInv, PrxInv, StarterInv, OneStarter
<1>7. QED
  BY <1>4, <1>5, <1>6 DEF ModIInv

\* A step that marks an entry as started.
LEMMA MarkedStarted ==
  ASSUME ModIInv, NEW i \in 1..Len(g_prx), g_prx' = [g_prx EXCEPT ![i].started = TRUE]
  PROVE  /\ g_prx' \in Seq(PrxRecs) /\ Len(g_prx') = Len(g_prx) /\ g_prx'[i].started
         /\ \A k \in 1..Len(g_prx) : /\ g_prx'[k].file = g_prx[k].file /\ g_prx'[k].handle = g_prx[k].handle
                                     /\ g_prx[k].started => g_prx'[k].started
<1> DEFINE r == [g_prx[i] EXCEPT !.started = TRUE]
<1>1. r \in PrxRecs /\ r.file = g_prx[i].file /\ r.handle = g_prx[i].handle /\ r.started
  BY ModFacts DEF PrxRecs
<1>2. g_prx' = [g_prx EXCEPT ![i] = r]
  OBVIOUS
<1> HIDE DEF r
<1>3. /\ g_prx' \in Seq(PrxRecs) /\ Len(g_prx') = Len(g_prx) /\ g_prx'[i] = r
      /\ \A k \in 1..Len(g_prx) : k # i => g_prx'[k] = g_prx[k]
  BY <1>1, <1>2, SlotChanged
<1>4. QED
  BY <1>1, <1>3

\* A thread that finds an entry not started claims its init functions, none
\* of which ran.
LEMMA StartClaims ==
  ASSUME ModIInv, NEW t \in Starters, NEW i \in 1..Len(g_prx), mod_call[t].at # "inits",
         g_prx' = [g_prx EXCEPT ![i].started = TRUE],
         NEW c \in StartRecs, mod_call' = [mod_call EXCEPT ![t] = c],
         c.at = "idle" \/ (~g_prx[i].started /\ c.at = "inits" /\ c.slot = i /\ c.ran = 0),
         UNCHANGED <<g_mod_handle, g_unwind, g_loaded, mod_log, mod_given>>
  PROVE  ModIInv'
<1>1. /\ g_prx' \in Seq(PrxRecs) /\ Len(g_prx') = Len(g_prx) /\ g_prx'[i].started
      /\ \A k \in 1..Len(g_prx) : /\ g_prx'[k].file = g_prx[k].file /\ g_prx'[k].handle = g_prx[k].handle
                                  /\ g_prx[k].started => g_prx'[k].started
  BY MarkedStarted
<1>3. c.at = "idle" \/ (~g_prx[i].started /\ c.at = "inits" /\ c.slot = i /\ c.ran = 0)
  OBVIOUS
<1>4. mod_call' \in [Starters -> StartRecs] /\ mod_call'[t] = c /\ \A u \in Starters : u # t => mod_call'[u] = mod_call[u]
  BY ModFacts
<1>5. mod_log' = mod_log /\ mod_given' = mod_given /\ g_mod_handle' = g_mod_handle
  OBVIOUS
<1>6. \A k \in 1..Len(g_prx') : PrxInv(k)'
  <2> SUFFICES ASSUME NEW k \in 1..Len(g_prx') PROVE PrxInv(k)'
    OBVIOUS
  <2>1. PrxInv(k) /\ k \in 1..Len(g_prx)
    BY <1>1 DEF ModIInv
  <2>2. QED
    BY <1>1, <1>5, <2>1 DEF PrxInv
<1>7. ASSUME ~g_prx[i].started PROVE Len(mod_log[i]) = 0
  BY <1>7 DEF ModIInv, PrxInv
<1>8. \A u \in Starters : StarterInv(u)'
  <2> SUFFICES ASSUME NEW u \in Starters PROVE StarterInv(u)'
    OBVIOUS
  <2>1. CASE u = t
    <3>1. mod_call'[u] = c
      BY <1>4, <2>1
    <3>2. QED
      BY <1>1, <1>3, <1>5, <1>7, <3>1 DEF StarterInv
  <2>2. CASE u # t
    <3>1. StarterInv(u) /\ mod_call'[u] = mod_call[u]
      BY <1>4, <2>2 DEF ModIInv
    <3>2. QED
      BY <1>1, <1>5, <3>1 DEF StarterInv
  <2>3. QED
    BY <2>1, <2>2
<1>9. OneStarter'
  <2> SUFFICES ASSUME NEW u \in Starters, NEW v \in Starters, u # v, mod_call'[u].at = "inits", mod_call'[v].at = "inits",
                      mod_call'[u].slot = mod_call'[v].slot
               PROVE  FALSE
    BY DEF OneStarter
  <2>1. ASSUME NEW w \in Starters, w # t, mod_call'[w].at = "inits" PROVE g_prx[mod_call'[w].slot].started /\ mod_call'[w] = mod_call[w]
    BY <1>4, <2>1 DEF ModIInv, StarterInv
  <2>2. CASE u # t /\ v # t
    BY <2>1, <2>2 DEF ModIInv, OneStarter
  <2>3. CASE u = t
    BY <1>3, <1>4, <2>1, <2>3
  <2>4. CASE v = t
    BY <1>3, <1>4, <2>1, <2>4
  <2>5. QED
    BY <2>2, <2>3, <2>4
<1>10. QED
  BY <1>1, <1>4, <1>5, <1>6, <1>8, <1>9, ModOnTable, ModFacts

LEMMA PreloadInv == ASSUME ModIInv, recomp_modules_start_preloaded PROVE ModIInv'
<1> DEFINE next == {i \in DOMAIN g_prx : g_prx[i].file \in ModPreloaded /\ ~g_prx[i].started /\ g_prx[i].inits > 0}
<1>1. CASE next = {}
  <2>1. UNCHANGED <<g_prx, g_mod_handle, g_unwind, g_loaded, mod_call, mod_log, mod_given>>
    BY <1>1 DEF recomp_modules_start_preloaded
  <2>2. QED
    BY <2>1 DEF ModIInv, ModTypes, PrxInv, StarterInv, OneStarter, UnwindInv
<1>2. CASE next # {}
  <2> DEFINE i == Min(next)
  <2>1. next \subseteq Nat
    BY ModFacts
  <2>2. i \in next
    BY <1>2, <2>1, LeastOf
  <2>3. i \in 1..Len(g_prx) /\ ~g_prx[i].started
    BY <2>2, ModFacts
  <2>4. /\ mod_call[Main].at = "idle" /\ g_prx' = [g_prx EXCEPT ![i].started = TRUE]
        /\ mod_call' = [mod_call EXCEPT ![Main] = [at |-> "inits", slot |-> i, ran |-> 0]]
        /\ UNCHANGED <<g_mod_handle, g_unwind, g_loaded, mod_log, mod_given>>
    BY <1>2 DEF recomp_modules_start_preloaded
  <2> HIDE DEF i
  <2>5. Main \in Starters /\ mod_call[Main].at # "inits"
    BY <2>4 DEF Starters
  <2> DEFINE c == [at |-> "inits", slot |-> i, ran |-> 0]
  <2>6. c \in StartRecs /\ c.at = "inits" /\ c.slot = i /\ c.ran = 0 /\ mod_call' = [mod_call EXCEPT ![Main] = c]
    BY <2>3, <2>4, ModFacts DEF StartRecs
  <2> HIDE DEF c
  <2>7. QED
    BY <2>3, <2>4, <2>5, <2>6, StartClaims
<1>3. QED
  BY <1>1, <1>2

LEMMA ModuleStartInv == ASSUME ModIInv, NEW t \in ModThreads, recomp_module_start(t) PROVE ModIInv'
<1> DEFINE ks == {k \in DOMAIN g_prx : g_prx[k].handle = mod_call[t].slot}
           i == Min(ks)
<1>1. t \in Starters /\ mod_call[t].at = "start"
  BY DEF Starters, recomp_module_start
<1>2. ks # {}
  <2>1. \E k \in 1..Len(g_prx) : g_prx[k].handle = mod_call[t].slot
    BY <1>1 DEF ModIInv, StarterInv
  <2>2. QED
    BY <2>1, ModFacts
<1>3. ks \subseteq Nat
  BY ModFacts
<1>4. i \in ks
  BY <1>2, <1>3, LeastOf
<1>5. i \in 1..Len(g_prx) /\ g_prx[i].started \in BOOLEAN
  BY <1>4, ModFacts
<1>6. /\ mod_call' = [mod_call EXCEPT ![t] = IF g_prx[i].started THEN NoStart ELSE [at |-> "inits", slot |-> i, ran |-> 0]]
  BY DEF recomp_module_start
<1>10. g_prx' = [g_prx EXCEPT ![i].started = TRUE] /\ UNCHANGED <<g_mod_handle, g_unwind, g_loaded, mod_log, mod_given>>
  BY DEF recomp_module_start
<1> HIDE DEF i
<1>7. CASE g_prx[i].started
  <2> DEFINE c == NoStart
  <2>1. c \in StartRecs /\ c.at = "idle" /\ mod_call' = [mod_call EXCEPT ![t] = c]
    BY <1>6, <1>7 DEF NoStart, StartRecs
  <2> HIDE DEF c
  <2>2. QED
    BY <1>1, <1>5, <1>10, <2>1, StartClaims
<1>8. CASE ~g_prx[i].started
  <2> DEFINE c == [at |-> "inits", slot |-> i, ran |-> 0]
  <2>1. c \in StartRecs /\ c.at = "inits" /\ c.slot = i /\ c.ran = 0 /\ mod_call' = [mod_call EXCEPT ![t] = c]
    BY <1>5, <1>6, <1>8, ModFacts DEF StartRecs
  <2> HIDE DEF c
  <2>2. QED
    BY <1>1, <1>5, <1>8, <1>10, <2>1, StartClaims
<1>9. QED
  BY <1>7, <1>8

LEMMA RunInitInv == ASSUME ModIInv, NEW t \in Starters, run_init(t) PROVE ModIInv'
<1> DEFINE c == mod_call[t]
           n == c.ran
<1>1. /\ c.at = "inits" /\ c.slot \in 1..Len(g_prx) /\ g_prx[c.slot].started /\ n = Len(mod_log[c.slot]) /\ n \in Nat
      /\ PrxInv(c.slot) /\ mod_log[c.slot] \in Seq(Nat) /\ c \in StartRecs
  <2>1. c.at = "inits" /\ StarterInv(t) /\ c \in StartRecs
    BY ModFacts DEF run_init, ModIInv
  <2>2. c.slot \in 1..Len(g_prx) /\ g_prx[c.slot].started /\ n = Len(mod_log[c.slot])
    BY <2>1 DEF StarterInv
  <2>3. PrxInv(c.slot)
    BY <2>2 DEF ModIInv
  <2>4. n \in Nat
    BY <2>1 DEF StartRecs
  <2> HIDE DEF c
  <2>5. mod_log[c.slot] \in Seq(Nat)
    BY <2>2, ModFacts
  <2>6. QED
    BY <2>1, <2>2, <2>3, <2>4, <2>5
<1>2. UNCHANGED <<g_prx, g_mod_handle, g_unwind, g_loaded, mod_given>>
  BY DEF run_init
<1>3. CASE c.ran < g_prx[c.slot].inits
  <2>1. /\ mod_log' = [mod_log EXCEPT ![c.slot] = Append(@, n + 1)] /\ mod_call' = [mod_call EXCEPT ![t].ran = @ + 1]
    BY <1>3 DEF run_init
  <2> DEFINE l == Append(mod_log[c.slot], n + 1)
             d == [c EXCEPT !.ran = n + 1]
  <2>2. /\ l \in Seq(Nat) /\ Len(l) = n + 1 /\ LogInv(l)
    <3>1. l \in Seq(Nat) /\ Len(l) = n + 1 /\ l[n + 1] = n + 1 /\ \A k \in 1..n : l[k] = mod_log[c.slot][k]
      BY <1>1
    <3>2. n + 1 <= ModInits
      BY <1>1, <1>3, ModFacts
    <3>3. \A k \in 1..n : mod_log[c.slot][k] = k
      BY <1>1 DEF PrxInv, LogInv
    <3> HIDE DEF l
    <3>4. ASSUME NEW k \in 1..(n + 1) PROVE l[k] = k
      <4>1. k = n + 1 \/ k \in 1..n
        BY <1>1
      <4>2. QED
        BY <3>1, <3>3, <4>1
    <3>5. QED
      BY <3>1, <3>2, <3>4 DEF LogInv
  <2>3. d \in StartRecs /\ d.at = "inits" /\ d.slot = c.slot /\ d.ran = n + 1
    BY <1>1 DEF StartRecs
  <2>4. mod_log' = [mod_log EXCEPT ![c.slot] = l] /\ mod_call' = [mod_call EXCEPT ![t] = d]
    BY <2>1
  <2> HIDE DEF l, d
  <2>5. /\ mod_log' \in Seq(Seq(Nat)) /\ Len(mod_log') = Len(mod_log) /\ mod_log'[c.slot] = l
        /\ \A k \in 1..Len(g_prx) : k # c.slot => mod_log'[k] = mod_log[k]
    <3>1. DOMAIN mod_log = 1..Len(g_prx) /\ mod_log \in Seq(Seq(Nat)) /\ Len(g_prx) \in Nat /\ Len(mod_log) = Len(g_prx)
      BY ModFacts
    <3> DEFINE s == c.slot
    <3>2. s \in 1..Len(mod_log) /\ mod_log' = [mod_log EXCEPT ![s] = l]
      BY <1>1, <2>4, <3>1
    <3> HIDE DEF c, s
    <3>3. /\ mod_log' \in Seq(Seq(Nat)) /\ Len(mod_log') = Len(mod_log) /\ mod_log'[s] = l
          /\ \A k \in 1..Len(g_prx) : k # s => mod_log'[k] = mod_log[k]
      BY <2>2, <3>1, <3>2
    <3>4. QED
      BY <3>3 DEF s
  <2>6. mod_call' \in [Starters -> StartRecs] /\ mod_call'[t] = d /\ \A u \in Starters : u # t => mod_call'[u] = mod_call[u]
    BY <2>3, <2>4, ModFacts
  <2>7. \A k \in 1..Len(g_prx') : PrxInv(k)'
    <3> SUFFICES ASSUME NEW k \in 1..Len(g_prx) PROVE PrxInv(k)'
      BY <1>2
    <3>1. CASE k = c.slot
      <4>1. mod_log'[k] = l /\ g_prx'[k] = g_prx[k] /\ g_prx[k].started /\ PrxInv(k)
        BY <1>1, <1>2, <2>5, <3>1
      <4>2. QED
        BY <1>2, <2>2, <4>1 DEF PrxInv
    <3>2. CASE k # c.slot
      <4>1. mod_log'[k] = mod_log[k] /\ PrxInv(k)
        BY <2>5, <3>2 DEF ModIInv
      <4>2. QED
        BY <1>2, <4>1 DEF PrxInv
    <3>3. QED
      BY <3>1, <3>2
  <2>8. \A u \in Starters : StarterInv(u)'
    <3> SUFFICES ASSUME NEW u \in Starters PROVE StarterInv(u)'
      OBVIOUS
    <3>1. CASE u = t
      <4>1. mod_call'[u] = d
        BY <2>6, <3>1
      <4>2. QED
        BY <1>1, <1>2, <2>2, <2>3, <2>5, <4>1 DEF StarterInv
    <3>2. CASE u # t
      <4>1. StarterInv(u) /\ mod_call'[u] = mod_call[u]
        BY <2>6, <3>2 DEF ModIInv
      <4>2. ASSUME mod_call[u].at = "inits" PROVE mod_call[u].slot \in 1..Len(g_prx) /\ mod_call[u].slot # c.slot
        BY <1>1, <3>2, <4>1, <4>2 DEF ModIInv, OneStarter, StarterInv
      <4>3. QED
        BY <1>2, <2>5, <4>1, <4>2 DEF StarterInv
    <3>3. QED
      BY <3>1, <3>2
  <2>9. OneStarter'
    <3>1. \A u \in Starters : mod_call'[u].at = mod_call[u].at /\ mod_call'[u].slot = mod_call[u].slot
      BY <1>1, <2>3, <2>6
    <3>2. QED
      BY <3>1 DEF ModIInv, OneStarter
  <2>10. QED
    BY <1>2, <2>5, <2>6, <2>7, <2>8, <2>9, ModOnTable, ModFacts
<1>4. CASE ~(c.ran < g_prx[c.slot].inits)
  <2>1. mod_call' = [mod_call EXCEPT ![t] = NoStart] /\ mod_log' = mod_log
    BY <1>4 DEF run_init
  <2>2. NoStart \in StartRecs /\ NoStart.at = "idle"
    BY DEF NoStart, StartRecs
  <2>3. mod_call' \in [Starters -> StartRecs] /\ mod_call'[t] = NoStart /\ \A u \in Starters : u # t => mod_call'[u] = mod_call[u]
    BY <2>1, <2>2, ModFacts
  <2>4. (\A k \in 1..Len(g_prx) : PrxInv(k))'
    BY <1>2, <2>1 DEF ModIInv, PrxInv
  <2>5. \A u \in Starters : StarterInv(u)'
    <3> SUFFICES ASSUME NEW u \in Starters PROVE StarterInv(u)'
      OBVIOUS
    <3>1. StarterInv(u)
      BY DEF ModIInv
    <3>2. QED
      BY <1>2, <2>1, <2>2, <2>3, <3>1 DEF StarterInv
  <2>6. OneStarter'
    BY <2>2, <2>3 DEF ModIInv, OneStarter
  <2>7. QED
    BY <1>2, <2>1, <2>3, <2>4, <2>5, <2>6, ModOnTable, ModFacts
<1>5. QED
  BY <1>3, <1>4

LEMMA LoadStartInv ==
  ASSUME ModIInv, NEW t \in ModThreads, NEW f \in ModFiles, sceKernelLoadStartModule(t, f)
  PROVE  ModIInv'
<1> DEFINE i == Min(SlotsOf(f))
<1>1. i \in 1..Len(g_prx) /\ t \in Starters
  BY ModSlotOf DEF Starters, sceKernelLoadStartModule
<1>2. /\ mod_call[t].at = "idle"
      /\ g_prx' = [g_prx EXCEPT ![i].handle = IF g_prx[i].handle = 0 THEN g_mod_handle ELSE @]
      /\ g_mod_handle' = IF g_prx[i].handle = 0 THEN g_mod_handle + 1 ELSE g_mod_handle
      /\ mod_given' = IF g_prx[i].handle = 0 THEN Append(mod_given, g_prx[i].file) ELSE mod_given
      /\ mod_call' = [mod_call EXCEPT ![t] = [at |-> "start", slot |-> g_prx'[i].handle, ran |-> 0]]
      /\ UNCHANGED <<g_unwind, g_loaded, mod_log>>
  BY DEF sceKernelLoadStartModule
<1> HIDE DEF i
<1> DEFINE h == IF g_prx[i].handle = 0 THEN g_mod_handle ELSE g_prx[i].handle
           r == [g_prx[i] EXCEPT !.handle = h]
<1>3. h \in Nat /\ h # 0 /\ (g_prx[i].handle = 0 => h = Len(mod_given) + 1) /\ (g_prx[i].handle # 0 => h = g_prx[i].handle)
  BY <1>1, ModFacts
<1>4. g_prx' = [g_prx EXCEPT ![i] = r]
  BY <1>2
<1> HIDE DEF h
<1>5. r \in PrxRecs /\ r.file = g_prx[i].file /\ r.handle = h /\ r.started = g_prx[i].started
  BY <1>1, <1>3, ModFacts DEF PrxRecs
<1> HIDE DEF r
<1>6. /\ g_prx' \in Seq(PrxRecs) /\ Len(g_prx') = Len(g_prx) /\ g_prx'[i] = r
      /\ \A k \in 1..Len(g_prx) : k # i => g_prx'[k] = g_prx[k]
  BY <1>1, <1>4, <1>5, SlotChanged
<1>7. /\ mod_given' \in Seq(ModFiles) /\ Len(mod_given') \in Nat /\ g_mod_handle' = Len(mod_given') + 1
      /\ Len(mod_given') >= Len(mod_given) /\ \A k \in 1..Len(mod_given) : mod_given'[k] = mod_given[k]
      /\ h <= Len(mod_given') /\ mod_given'[h] = g_prx[i].file
  <2>1. CASE g_prx[i].handle = 0
    <3>1. mod_given' = Append(mod_given, g_prx[i].file) /\ g_mod_handle' = g_mod_handle + 1
      BY <1>2, <2>1
    <3>2. QED
      BY <1>1, <1>3, <2>1, <3>1, ModFacts
  <2>2. CASE g_prx[i].handle # 0
    <3>1. mod_given' = mod_given /\ g_mod_handle' = g_mod_handle
      BY <1>2, <2>2
    <3>2. PrxInv(i)
      BY <1>1 DEF ModIInv
    <3>3. QED
      BY <1>1, <1>3, <2>2, <3>1, <3>2, ModFacts DEF PrxInv
  <2>3. QED
    BY <2>1, <2>2
<1> DEFINE c == [at |-> "start", slot |-> h, ran |-> 0]
<1>8. c \in StartRecs /\ c.at = "start" /\ c.slot = h /\ mod_call' = [mod_call EXCEPT ![t] = c]
  BY <1>2, <1>3, <1>5, <1>6 DEF StartRecs
<1> HIDE DEF c
<1>9. mod_call' \in [Starters -> StartRecs] /\ mod_call'[t] = c /\ \A u \in Starters : u # t => mod_call'[u] = mod_call[u]
  BY <1>1, <1>8, ModFacts
<1>10. mod_log' = mod_log
  BY <1>2
<1>11. \A k \in 1..Len(g_prx') : PrxInv(k)'
  <2> SUFFICES ASSUME NEW k \in 1..Len(g_prx) PROVE PrxInv(k)'
    BY <1>6
  <2>1. PrxInv(k) /\ g_prx[k].handle \in Nat
    BY ModFacts DEF ModIInv
  <2>2. CASE k = i
    <3>1. g_prx'[k] = r /\ r.handle = h /\ r.file = g_prx[k].file /\ r.started = g_prx[k].started
      BY <1>5, <1>6, <2>2
    <3>2. QED
      BY <1>7, <1>10, <2>1, <2>2, <3>1 DEF PrxInv
  <2>3. CASE k # i
    <3>1. g_prx'[k] = g_prx[k]
      BY <1>6, <2>3
    <3>2. g_prx[k].handle # 0 => g_prx[k].handle \in 1..Len(mod_given)
      BY <2>1, ModFacts DEF PrxInv
    <3>3. g_prx[k].handle # 0 => g_prx[k].handle <= Len(mod_given') /\ mod_given'[g_prx[k].handle] = g_prx[k].file
      BY <1>7, <2>1, <3>2, ModFacts DEF PrxInv
    <3>4. QED
      BY <1>10, <2>1, <3>1, <3>3 DEF PrxInv
  <2>4. QED
    BY <2>2, <2>3
<1>12. \A u \in Starters : StarterInv(u)'
  <2> SUFFICES ASSUME NEW u \in Starters PROVE StarterInv(u)'
    OBVIOUS
  <2>1. CASE u = t
    <3>1. mod_call'[u] = c /\ g_prx'[i].handle = c.slot /\ c.slot # 0 /\ i \in 1..Len(g_prx')
      BY <1>1, <1>3, <1>5, <1>6, <1>8, <1>9, <2>1
    <3>2. QED
      BY <1>8, <3>1 DEF StarterInv
  <2>2. CASE u # t
    <3>1. StarterInv(u) /\ mod_call'[u] = mod_call[u]
      BY <1>9, <2>2 DEF ModIInv
    <3>2. ASSUME mod_call[u].at = "start" PROVE \E k \in 1..Len(g_prx') : g_prx'[k].handle = mod_call[u].slot
      <4>1. PICK k \in 1..Len(g_prx) : g_prx[k].handle = mod_call[u].slot /\ mod_call[u].slot # 0
        BY <3>1, <3>2 DEF StarterInv
      <4>2. g_prx'[k].handle = g_prx[k].handle
        BY <1>3, <1>5, <1>6, <4>1
      <4>3. QED
        BY <1>6, <4>1, <4>2
    <3>3. \A k \in 1..Len(g_prx) : g_prx'[k].started = g_prx[k].started
      BY <1>5, <1>6
    <3>4. QED
      BY <1>6, <1>10, <3>1, <3>2, <3>3 DEF StarterInv
  <2>3. QED
    BY <2>1, <2>2
<1>13. OneStarter'
  <2> SUFFICES ASSUME NEW u \in Starters, NEW v \in Starters, u # v, mod_call'[u].at = "inits", mod_call'[v].at = "inits"
               PROVE  mod_call'[u].slot # mod_call'[v].slot
    BY DEF OneStarter
  <2>1. u # t /\ v # t
    BY <1>8, <1>9
  <2>2. QED
    BY <1>9, <2>1 DEF ModIInv, OneStarter
<1>14. QED
  BY <1>2, <1>6, <1>7, <1>9, <1>10, <1>11, <1>12, <1>13, ModOnTable, ModFacts

\* Listing: the handles go to the entries listed without one, in their order.
LEMMA Ranks ==
  ASSUME ModIInv, NEW F \in SUBSET (1..Len(g_prx))
  PROVE  /\ IsFiniteSet(F) /\ Cardinality(F) \in Nat
         /\ \A i \in F : Cardinality({k \in F : k < i}) \in 0..(Cardinality(F) - 1)
         /\ \A i, j \in F : Cardinality({k \in F : k < i}) = Cardinality({k \in F : k < j}) => i = j
         /\ \A n \in 1..Cardinality(F) : \E i \in F : Cardinality({k \in F : k < i}) = n - 1
<1> DEFINE before(i) == {k \in F : k < i}
           rank(i) == Cardinality(before(i))
<1>1. IsFiniteSet(F) /\ Cardinality(F) \in Nat /\ F \subseteq Nat
  <2>1. IsFiniteSet(1..Len(g_prx))
    BY FS_Interval, ModFacts
  <2>2. IsFiniteSet(F)
    BY <2>1, FS_Subset
  <2>3. Cardinality(F) \in Nat
    BY <2>2, FS_CardinalityType
  <2>4. QED
    BY <2>2, <2>3, ModFacts
<1>2. \A i \in F : before(i) \in SUBSET F /\ i \notin before(i)
  BY <1>1
<1>3. ASSUME NEW i \in F, NEW j \in F, i < j PROVE before(i) \in SUBSET before(j) /\ i \in before(j)
  <2>1. \A k \in F : k < i => k < j
    BY <1>1, <1>3
  <2>2. QED
    BY <1>3, <2>1
<1> HIDE DEF before
<1>4. \A i \in F : IsFiniteSet(before(i)) /\ rank(i) \in Nat
  BY <1>1, <1>2, FS_Subset, FS_CardinalityType
<1>5. ASSUME NEW i \in F, NEW T, IsFiniteSet(T), before(i) \in SUBSET T, i \in T PROVE rank(i) < Cardinality(T)
  <2>1. before(i) # T
    BY <1>2, <1>5
  <2>2. Cardinality(before(i)) <= Cardinality(T) /\ (Cardinality(T) = Cardinality(before(i)) => T = before(i))
    BY <1>5, FS_Subset
  <2>3. Cardinality(T) \in Nat /\ rank(i) \in Nat
    BY <1>4, <1>5, FS_CardinalityType
  <2>4. QED
    BY <2>1, <2>2, <2>3
<1>6. ASSUME NEW i \in F PROVE rank(i) \in 0..(Cardinality(F) - 1)
  <2>1. rank(i) < Cardinality(F)
    BY <1>1, <1>2, <1>5
  <2>2. QED
    BY <1>1, <1>4, <2>1
<1>7. ASSUME NEW i \in F, NEW j \in F, i < j PROVE rank(i) < rank(j)
  BY <1>3, <1>4, <1>5, <1>7
<1>8. ASSUME NEW i \in F, NEW j \in F, rank(i) = rank(j) PROVE i = j
  <2> HIDE DEF rank
  <2>1. ~(i < j) /\ ~(j < i)
    BY <1>4, <1>7, <1>8
  <2>2. QED
    BY <1>1, <2>1
<1>9. ASSUME NEW n \in 1..Cardinality(F) PROVE \E i \in F : rank(i) = n - 1
  <2> DEFINE R == [i \in F |-> rank(i)]
             T == 0..(Cardinality(F) - 1)
  <2> HIDE DEF rank
  <2>1. R \in [F -> T] /\ \A i, j \in F : R[i] = R[j] => i = j
    BY <1>6, <1>8
  <2>2. R \in Injection(F, T)
    BY <2>1 DEF Injection, IsInjective
  <2>3. IsFiniteSet(T) /\ Cardinality(T) = Cardinality(F)
    <3>1. 0 \in Int /\ Cardinality(F) - 1 \in Int
      BY <1>1
    <3>2. IsFiniteSet(T) /\ Cardinality(T) = IF 0 > Cardinality(F) - 1 THEN 0 ELSE Cardinality(F) - 1 - 0 + 1
      BY <3>1, FS_Interval
    <3> HIDE DEF T
    <3>3. QED
      BY <1>1, <3>2
  <2> HIDE DEF T, R
  <2>4. R \in Surjection(F, T)
    BY <2>2, <2>3, FS_Injection
  <2>5. \A m \in T : \E i \in F : R[i] = m
    BY <2>4 DEF Surjection
  <2>6. n - 1 \in T
    BY <1>1 DEF T
  <2>7. QED
    BY <2>5, <2>6 DEF R
<1>10. QED
  BY <1>1, <1>6, <1>8, <1>9 DEF before

LEMMA SnapshotInv == ASSUME ModIInv, recomp_module_snapshot PROVE ModIInv'
<1> DEFINE fresh == {i \in SnapshotSlots : g_prx[i].handle = 0}
           rank(i) == Cardinality({k \in fresh : k < i})
           N == Cardinality(fresh)
           who(n) == CHOOSE i \in fresh : rank(i) = n - 1
           file(n) == g_prx[who(n)].file
           more == [k \in 1..N |-> file(k)]
           L == Len(mod_given)
<1>1. fresh \in SUBSET (1..Len(g_prx)) /\ \A i \in fresh : g_prx[i].handle = 0
  BY ModFacts DEF SnapshotSlots
<1>2. /\ g_prx' = [i \in DOMAIN g_prx |-> IF i \in fresh THEN [g_prx[i] EXCEPT !.handle = g_mod_handle + rank(i)] ELSE g_prx[i]]
      /\ g_mod_handle' = g_mod_handle + N /\ mod_given' = mod_given \o more
      /\ UNCHANGED <<g_unwind, g_loaded, mod_phase, mod_call, mod_log>>
  BY DEF recomp_module_snapshot
<1> HIDE DEF fresh
<1>3. N \in Nat /\ (\A i \in fresh : rank(i) \in 0..(N - 1)) /\ \A i, j \in fresh : rank(i) = rank(j) => i = j
  BY <1>1, Ranks
<1>13. \A n \in 1..N : \E i \in fresh : rank(i) = n - 1
  BY <1>1, Ranks
<1> HIDE DEF rank, N
<1>4. L \in Nat /\ mod_given \in Seq(ModFiles) /\ g_mod_handle = L + 1
  BY ModFacts
<1> HIDE DEF L, more
<1>5. \A k \in 1..Len(g_prx) : /\ k \in fresh => g_prx'[k] = [g_prx[k] EXCEPT !.handle = L + 1 + rank(k)]
                               /\ k \notin fresh => g_prx'[k] = g_prx[k]
  BY <1>2, <1>4, ModFacts
<1>6. \A k \in 1..Len(g_prx) : /\ g_prx'[k] \in PrxRecs /\ g_prx'[k].file = g_prx[k].file /\ g_prx'[k].started = g_prx[k].started
                               /\ k \in fresh => g_prx'[k].handle = L + 1 + rank(k)
                               /\ k \notin fresh => g_prx'[k].handle = g_prx[k].handle
  <2> SUFFICES ASSUME NEW k \in 1..Len(g_prx)
               PROVE  /\ g_prx'[k] \in PrxRecs /\ g_prx'[k].file = g_prx[k].file /\ g_prx'[k].started = g_prx[k].started
                      /\ k \in fresh => g_prx'[k].handle = L + 1 + rank(k)
                      /\ k \notin fresh => g_prx'[k].handle = g_prx[k].handle
    OBVIOUS
  <2>1. CASE k \in fresh
    <3>1. g_prx'[k] = [g_prx[k] EXCEPT !.handle = L + 1 + rank(k)] /\ g_prx[k] \in PrxRecs
      BY <1>5, <2>1, ModFacts
    <3>2. L + 1 + rank(k) \in Nat
      BY <1>3, <1>4, <2>1
    <3>3. QED
      BY <2>1, <3>1, <3>2 DEF PrxRecs
  <2>2. CASE k \notin fresh
    BY <1>5, <2>2, ModFacts
  <2>3. QED
    BY <2>1, <2>2
<1>7. g_prx' \in Seq(PrxRecs) /\ Len(g_prx') = Len(g_prx)
  <2>1. DOMAIN g_prx' = 1..Len(g_prx) /\ Len(g_prx) \in Nat
    BY <1>2, ModFacts
  <2>2. g_prx' = [k \in 1..Len(g_prx) |-> g_prx'[k]]
    BY <1>2, <2>1
  <2>3. g_prx' \in [1..Len(g_prx) -> PrxRecs]
    BY <1>6, <2>2
  <2>4. QED
    BY <2>1, <2>3
<1>8. \A k \in fresh : rank(k) + 1 \in 1..N /\ who(rank(k) + 1) = k
  <2> SUFFICES ASSUME NEW k \in fresh PROVE rank(k) + 1 \in 1..N /\ who(rank(k) + 1) = k
    OBVIOUS
  <2>1. rank(k) \in 0..(N - 1) /\ rank(k) + 1 - 1 = rank(k)
    BY <1>3
  <2>2. QED
    BY <1>3, <2>1
<1>18. \A n \in 1..N : who(n) \in fresh
  BY <1>13
<1> HIDE DEF who
<1>9. more \in Seq(ModFiles) /\ Len(more) = N /\ \A k \in fresh : more[rank(k) + 1] = g_prx[k].file
  <2>2. \A k \in fresh : g_prx[k].file \in ModFiles
    BY <1>1, ModFacts
  <2>3. \A n \in 1..N : file(n) \in ModFiles
    BY <1>18, <2>2
  <2>4. more \in [1..N -> ModFiles]
    BY <2>3 DEF more
  <2>5. more \in Seq(ModFiles) /\ Len(more) = N
    BY <1>3, <2>4
  <2>6. ASSUME NEW k \in fresh PROVE more[rank(k) + 1] = g_prx[k].file
    <3>1. rank(k) + 1 \in 1..N /\ who(rank(k) + 1) = k
      BY <1>8
    <3>2. file(rank(k) + 1) = g_prx[k].file
      BY <3>1
    <3> HIDE DEF file
    <3>3. more[rank(k) + 1] = file(rank(k) + 1)
      BY <3>1 DEF more
    <3>4. QED
      BY <3>2, <3>3
  <2>7. QED
    BY <2>5, <2>6
<1>10. /\ mod_given' \in Seq(ModFiles) /\ Len(mod_given') = L + N
       /\ \A k \in 1..L : mod_given'[k] = mod_given[k]
       /\ \A k \in 1..N : mod_given'[L + k] = more[k]
  <2>1. mod_given' = mod_given \o more /\ Len(mod_given) = L
    BY <1>2 DEF L
  <2>2. mod_given \in Seq(ModFiles) /\ more \in Seq(ModFiles) /\ Len(more) = N
    BY <1>4, <1>9
  <2> DEFINE s == mod_given \o more
  <2>3. /\ s \in Seq(ModFiles) /\ Len(s) = Len(mod_given) + Len(more)
        /\ \A i \in 1..(Len(mod_given) + Len(more)) : s[i] = IF i <= Len(mod_given) THEN mod_given[i] ELSE more[i - Len(mod_given)]
    BY <2>2, ConcatProperties
  <2>4. mod_given' = s
    BY <2>1
  <2> HIDE DEF s
  <2>5. s \in Seq(ModFiles) /\ Len(s) = L + N /\ \A i \in 1..(L + N) : s[i] = IF i <= L THEN mod_given[i] ELSE more[i - L]
    BY <2>1, <2>2, <2>3
  <2>6. \A k \in 1..L : s[k] = mod_given[k]
    BY <1>3, <1>4, <2>5
  <2>7. ASSUME NEW k \in 1..N PROVE s[L + k] = more[k]
    <3>1. PICK n \in 1..(L + N) : n = L + k
      BY <1>3, <1>4
    <3>2. ~(n <= L) /\ n - L = k
      BY <1>3, <1>4, <3>1
    <3>3. s[n] = more[n - L]
      BY <2>5, <3>2
    <3>4. QED
      BY <3>1, <3>2, <3>3
  <2>8. QED
    BY <2>4, <2>5, <2>6, <2>7
<1>11. \A k \in 1..Len(g_prx') : PrxInv(k)'
  <2> SUFFICES ASSUME NEW k \in 1..Len(g_prx) PROVE PrxInv(k)'
    BY <1>7
  <2>1. PrxInv(k) /\ g_prx[k].handle \in Nat /\ mod_log' = mod_log /\ Len(mod_given) = L
    BY <1>2, ModFacts DEF ModIInv, L
  <2>2. CASE k \in fresh
    <3>1. g_prx'[k].handle = L + 1 + rank(k) /\ rank(k) + 1 \in 1..N /\ g_prx'[k].file = g_prx[k].file
      BY <1>3, <1>6, <2>2
    <3>2. g_prx'[k].handle <= L + N
      BY <1>3, <1>4, <2>2, <3>1
    <3>3. mod_given'[g_prx'[k].handle] = g_prx[k].file
      <4>1. L + 1 + rank(k) = L + (rank(k) + 1)
        BY <1>3, <1>4, <2>2
      <4>2. mod_given'[L + (rank(k) + 1)] = more[rank(k) + 1]
        BY <1>10, <3>1
      <4>3. QED
        BY <1>9, <2>2, <3>1, <4>1, <4>2
    <3>4. QED
      BY <1>6, <1>10, <2>1, <3>1, <3>2, <3>3 DEF PrxInv
  <2>3. CASE k \notin fresh
    <3>1. g_prx'[k].handle = g_prx[k].handle /\ g_prx'[k].file = g_prx[k].file /\ g_prx'[k].started = g_prx[k].started
      BY <1>6, <2>3
    <3>2. ASSUME g_prx[k].handle # 0 PROVE g_prx[k].handle <= L + N /\ mod_given'[g_prx[k].handle] = g_prx[k].file
      <4>1. g_prx[k].handle \in 1..L /\ mod_given[g_prx[k].handle] = g_prx[k].file
        BY <1>4, <2>1, <3>2 DEF PrxInv
      <4>2. QED
        BY <1>3, <1>4, <1>10, <4>1
    <3>3. QED
      BY <1>10, <2>1, <3>1, <3>2 DEF PrxInv
  <2>4. QED
    BY <2>2, <2>3
<1>12. \A u \in Starters : StarterInv(u)'
  <2> SUFFICES ASSUME NEW u \in Starters PROVE StarterInv(u)'
    OBVIOUS
  <2>1. StarterInv(u) /\ mod_call' = mod_call /\ mod_log' = mod_log
    BY <1>2 DEF ModIInv
  <2>2. ASSUME mod_call[u].at = "start" PROVE mod_call[u].slot # 0 /\ \E k \in 1..Len(g_prx') : g_prx'[k].handle = mod_call[u].slot
    <3>1. PICK k \in 1..Len(g_prx) : g_prx[k].handle = mod_call[u].slot /\ mod_call[u].slot # 0
      BY <2>1, <2>2 DEF StarterInv
    <3>2. g_prx'[k].handle = g_prx[k].handle
      BY <1>1, <1>6, <3>1
    <3>3. QED
      BY <1>7, <3>1, <3>2
  <2>3. \A k \in 1..Len(g_prx) : g_prx'[k].started = g_prx[k].started
    BY <1>6
  <2>4. QED
    BY <1>7, <2>1, <2>2, <2>3 DEF StarterInv
<1>14. OneStarter'
  <2>1. mod_call' = mod_call /\ OneStarter
    BY <1>2 DEF ModIInv
  <2>2. QED
    BY <2>1 DEF OneStarter
<1>15. g_mod_handle' = Len(mod_given') + 1
  <2>1. g_mod_handle' = g_mod_handle + N
    BY <1>2
  <2>2. QED
    BY <1>3, <1>4, <1>10, <2>1
<1>16. g_unwind' = g_unwind /\ g_loaded' = g_loaded /\ mod_call' = mod_call /\ mod_log' = mod_log
  BY <1>2
<1>17. QED
  BY <1>7, <1>10, <1>11, <1>12, <1>14, <1>15, <1>16, ModOnTable, ModFacts

LEMMA LoadedInv ==
  ASSUME ModIInv, UNCHANGED <<g_prx, g_mod_handle, g_unwind, mod_call, mod_log, mod_given>>,
         g_loaded' \in Seq(Nat \X Nat), IsInjective(g_loaded')
  PROVE  ModIInv'
<1>1. ModTypes'
  BY DEF ModTypes, ModIInv
<1>2. /\ (\A i \in 1..Len(g_prx) : PrxInv(i))' /\ (\A t \in Starters : StarterInv(t))' /\ OneStarter' /\ UnwindInv'
  BY DEF ModIInv, PrxInv, StarterInv, OneStarter, UnwindInv
<1>3. QED
  BY <1>1, <1>2 DEF ModIInv

LEMMA SysLoadInv ==
  ASSUME ModIInv, NEW id \in SysIds, sceSysmoduleLoadModuleInternal(id)
  PROVE  ModIInv'
<1>1. /\ g_loaded' = Append(g_loaded, id) /\ id \notin Range(g_loaded)
      /\ UNCHANGED <<g_prx, g_mod_handle, g_unwind, mod_call, mod_log, mod_given>>
  BY DEF sceSysmoduleLoadModuleInternal
<1>2. id \in Nat \X Nat /\ g_loaded \in Seq(Nat \X Nat)
  BY ModAssumption, ModFacts
<1>3. /\ g_loaded' \in Seq(Nat \X Nat) /\ Len(g_loaded') = Len(g_loaded) + 1 /\ g_loaded'[Len(g_loaded) + 1] = id
      /\ \A k \in 1..Len(g_loaded) : g_loaded'[k] = g_loaded[k]
  BY <1>1, <1>2
<1>4. (\A k \in 1..Len(g_loaded) : g_loaded[k] # id) /\ Len(g_loaded) \in Nat
  BY <1>1, <1>2 DEF Range
<1>5. IsInjective(g_loaded')
  <2> SUFFICES ASSUME NEW a \in 1..Len(g_loaded'), NEW b \in 1..Len(g_loaded'), g_loaded'[a] = g_loaded'[b] PROVE a = b
    BY <1>3 DEF IsInjective
  <2>1. IsInjective(g_loaded) /\ DOMAIN g_loaded = 1..Len(g_loaded)
    BY <1>2 DEF ModIInv
  <2>2. CASE a \in 1..Len(g_loaded) /\ b \in 1..Len(g_loaded)
    BY <1>3, <2>1, <2>2 DEF IsInjective
  <2>3. CASE a = Len(g_loaded) + 1 /\ b \in 1..Len(g_loaded)
    BY <1>3, <1>4, <2>3
  <2>4. CASE b = Len(g_loaded) + 1 /\ a \in 1..Len(g_loaded)
    BY <1>3, <1>4, <2>4
  <2>5. CASE a = Len(g_loaded) + 1 /\ b = Len(g_loaded) + 1
    BY <2>5
  <2>6. QED
    BY <1>3, <1>4, <2>2, <2>3, <2>4, <2>5
<1>6. QED
  BY <1>1, <1>3, <1>5, LoadedInv

LEMMA SysUnloadInv ==
  ASSUME ModIInv, NEW id \in SysIds, sceSysmoduleUnloadModule(id)
  PROVE  ModIInv'
<1> DEFINE at == {i \in DOMAIN g_loaded : g_loaded[i] = <<0, id[2]>>}
           m == Min(at)
           L == Len(g_loaded)
<1>1. at # {} /\ g_loaded' = Front([g_loaded EXCEPT ![m] = Last(g_loaded)])
  BY DEF sceSysmoduleUnloadModule
<1>2. UNCHANGED <<g_prx, g_mod_handle, g_unwind, mod_call, mod_log, mod_given>>
  BY DEF sceSysmoduleUnloadModule
<1>3. g_loaded \in Seq(Nat \X Nat) /\ DOMAIN g_loaded = 1..L /\ L \in Nat /\ IsInjective(g_loaded)
  BY ModFacts DEF ModIInv
<1>4. m \in 1..L
  <2>1. at \subseteq Nat
    BY <1>3
  <2>2. m \in at
    BY <1>1, <2>1, LeastOf
  <2>3. QED
    BY <1>3, <2>2
<1> HIDE DEF m, L
<1> DEFINE e == [g_loaded EXCEPT ![m] = Last(g_loaded)]
<1>5. L \in 1..L /\ Last(g_loaded) = g_loaded[L]
  BY <1>3, <1>4 DEF Last, L
<1>6. e \in Seq(Nat \X Nat) /\ Len(e) = L /\ DOMAIN e = 1..L /\ e[m] = g_loaded[L] /\ \A k \in 1..L : k # m => e[k] = g_loaded[k]
  <2>1. g_loaded[L] \in Nat \X Nat
    BY <1>3, <1>5
  <2>2. e = [g_loaded EXCEPT ![m] = g_loaded[L]] /\ Len(g_loaded) = L
    BY <1>5 DEF L
  <2> HIDE DEF e
  <2>3. QED
    BY <1>3, <1>4, <2>1, <2>2
<1> HIDE DEF e
<1>7. g_loaded' \in Seq(Nat \X Nat) /\ DOMAIN g_loaded' = 1..(L - 1) /\ \A k \in 1..(L - 1) : g_loaded'[k] = e[k]
  <2>1. g_loaded' = SubSeq(e, 1, L - 1)
    BY <1>1, <1>6 DEF Front, e
  <2>2. L - 1 \in Nat /\ L - 1 <= L
    BY <1>3, <1>5
  <2>3. \A i \in 1..(L - 1) : e[i] \in Nat \X Nat
    BY <1>3, <1>6
  <2> DEFINE s == SubSeq(e, 1, L - 1)
  <2>4. /\ s \in Seq(Nat \X Nat) /\ Len(s) = IF 1 <= L - 1 THEN L - 1 - 1 + 1 ELSE 0
        /\ \A i \in 1..(L - 1 - 1 + 1) : s[i] = e[1 + i - 1]
    BY <2>2, <2>3, SubSeqProperties
  <2> HIDE DEF s
  <2>5. Len(s) = L - 1 /\ L - 1 - 1 + 1 = L - 1
    BY <2>2, <2>4
  <2>6. \A i \in 1..(L - 1) : s[i] = e[i]
    BY <2>2, <2>4, <2>5
  <2>7. g_loaded' = s
    BY <2>1 DEF s
  <2>8. QED
    BY <2>4, <2>5, <2>6, <2>7
<1>8. IsInjective(g_loaded')
  <2> SUFFICES ASSUME NEW a \in 1..(L - 1), NEW b \in 1..(L - 1), e[a] = e[b] PROVE a = b
    BY <1>7 DEF IsInjective
  <2>1. a \in 1..L /\ b \in 1..L /\ a # L /\ b # L
    BY <1>3
  <2>2. CASE a = m
    BY <1>3, <1>5, <1>6, <2>1, <2>2 DEF IsInjective
  <2>3. CASE b = m
    BY <1>3, <1>5, <1>6, <2>1, <2>3 DEF IsInjective
  <2>4. CASE a # m /\ b # m
    BY <1>3, <1>6, <2>1, <2>4 DEF IsInjective
  <2>5. QED
    BY <2>2, <2>3, <2>4
<1>9. QED
  BY <1>2, <1>7, <1>8, LoadedInv

LEMMA ModStepInv == ModIInv /\ (ModNext \/ SysmoduleNext \/ UNCHANGED mod_vars) => ModIInv'
<1> SUFFICES ASSUME ModIInv, ModNext \/ SysmoduleNext \/ UNCHANGED mod_vars PROVE ModIInv'
  OBVIOUS
<1>1. ASSUME UNCHANGED <<g_prx, g_mod_handle, g_unwind, g_loaded, mod_call, mod_log, mod_given>> PROVE ModIInv'
  BY <1>1 DEF ModIInv, ModTypes, PrxInv, StarterInv, OneStarter, UnwindInv
<1>2. CASE registered
  BY <1>1, <1>2 DEF registered
<1>3. CASE UNCHANGED mod_vars
  BY <1>1, <1>3 DEF mod_vars
<1>4. CASE ModNext
  <2>1. CASE recomp_modules_start_preloaded \/ recomp_module_snapshot \/ run_init(Main)
    BY <2>1, PreloadInv, SnapshotInv, RunInitInv DEF Starters
  <2>2. CASE \E f \in ModFiles : recomp_module_register(f) \/ recomp_module_register_init(f) \/ recomp_module_register_unwind_info(f)
    BY <2>2, RegisterInv, RegisterInitInv, RegisterUnwindInv
  <2>3. CASE \E t \in ModThreads : recomp_module_start(t) \/ run_init(t) \/ \E f \in ModFiles : sceKernelLoadStartModule(t, f)
    BY <2>3, ModuleStartInv, RunInitInv, LoadStartInv DEF Starters
  <2>4. QED
    BY <1>2, <1>4, <2>1, <2>2, <2>3 DEF ModNext
<1>5. CASE SysmoduleNext
  BY <1>2, <1>5, PreloadInv, SysLoadInv, SysUnloadInv DEF SysmoduleNext
<1>6. QED
  BY <1>3, <1>4, <1>5

-----------------------------------------------------------------------------
(* Directory listings (GuestDirs)                                          *)

DirCaches == [used : BOOLEAN, fd : Nat, ino : HostDirs \cup {""}, names : Seq(DirNames), pos : Nat]
DirGiven == [names : Seq(DirNames), ended : BOOLEAN, possible : SUBSET SUBSET DirNames]
DirTypes ==
  /\ dir_entries \in [HostDirs -> SUBSET DirNames]
  /\ DOMAIN dir_fds \subseteq DirFds /\ dir_fds \in [DOMAIN dir_fds -> HostDirs]
  /\ DOMAIN dir_fds \subseteq DOMAIN dir_given /\ dir_given \in [DOMAIN dir_given -> DirGiven]
  /\ g_dir_cache \in [CacheSlots -> DirCaches] /\ dir_closing \in [DirThreads -> Nat]

\* q lists the entries s of a directory.
ListingOf(q, s) == (\A i, j \in DOMAIN q : q[i] = q[j] => i = j) /\ Range(q) = s \ HiddenNames
\* What was given, g, is the beginning of the snapshot c.
SnapshotOf(c, g) ==
  /\ c.pos \in 0..Len(c.names) /\ \E s \in g.possible : ListingOf(c.names, s)
  /\ g.names = SubSeq(c.names, 1, c.pos) /\ (g.ended <=> c.pos = Len(c.names))
GivenInv(g) ==
  g.names # <<>> \/ g.ended =>
    /\ \A i, j \in DOMAIN g.names : g.names[i] = g.names[j] => i = j
    /\ \E s \in g.possible : Range(g.names) \subseteq s \ HiddenNames /\ (g.ended => Range(g.names) = s \ HiddenNames)

Closing(fd) == \E t \in DirThreads : dir_closing[t] = fd
CachedInv(c) ==
  c.used => c.fd \in DOMAIN dir_fds /\ ~Closing(c.fd) /\ c.ino = dir_fds[c.fd] /\ SnapshotOf(c, dir_given[c.fd])
FdInv(fd) ==
  /\ GivenInv(dir_given[fd]) /\ dir_entries[dir_fds[fd]] \in dir_given[fd].possible
  /\ ~Closing(fd) /\ (\A i \in CacheSlots : g_dir_cache[i].used => g_dir_cache[i].fd # fd)
       => dir_given[fd].names = <<>> /\ ~dir_given[fd].ended
OneCache == \A i, j \in CacheSlots : i # j /\ g_dir_cache[i].used /\ g_dir_cache[j].used => g_dir_cache[i].fd # g_dir_cache[j].fd
OneCloser ==
  /\ \A t \in DirThreads : dir_closing[t] # 0 => dir_closing[t] \in DOMAIN dir_fds
  /\ \A t, u \in DirThreads : t # u /\ dir_closing[t] # 0 => dir_closing[t] # dir_closing[u]

DirIInv ==
  /\ DirTypes
  /\ \A fd \in DOMAIN dir_fds : FdInv(fd)
  /\ \A i \in CacheSlots : CachedInv(g_dir_cache[i])
  /\ OneCache /\ OneCloser

\* The cache has a slot for every descriptor, and syscall(6) closes none.
DirSound == ~RawClose /\ Cardinality(DirFds) <= GUEST_DIR_CACHE_SLOTS

LEMMA DirInitInv == DirInit => DirIInv
<1> SUFFICES ASSUME DirInit PROVE DirIInv
  OBVIOUS
<1>1. NoCache \in DirCaches /\ ~NoCache.used
  BY DEF NoCache, DirCaches
<1>2. dir_entries \in [HostDirs -> SUBSET DirNames] /\ DOMAIN dir_fds = {} /\ DOMAIN dir_given = {}
  BY DEF DirInit
<1>3. DirTypes
  BY <1>1, <1>2 DEF DirInit, DirTypes
<1>4. QED
  BY <1>1, <1>2, <1>3 DEF DirInit, DirIInv, CachedInv, OneCache, OneCloser

LEMMA DirExactInv == DirIInv => DirListed
  BY DEF DirIInv, FdInv, GivenInv, DirListed

\* A permutation of a set lists it.
LEMMA SeqLists ==
  ASSUME NEW S, IsFiniteSet(S), NEW q \in SetToSeqs(S)
  PROVE  q \in Seq(S) /\ (\A i, j \in DOMAIN q : q[i] = q[j] => i = j) /\ Range(q) = S
<1> DEFINE n == Cardinality(S)
<1>1. n \in Nat
  BY FS_CardinalityType
<1>2. q \in [1..n -> S] /\ \A i, j \in 1..n : i # j => q[i] # q[j]
  BY DEF SetToSeqs
<1>3. Cardinality(1..n) = n /\ IsFiniteSet(1..n)
  BY <1>1, FS_Interval
<1> HIDE DEF n
<1>4. q \in Injection(1..n, S)
  BY <1>2 DEF Injection, IsInjective
<1>5. Cardinality(1..n) = Cardinality(S)
  BY <1>3 DEF n
<1>6. q \in Surjection(1..n, S)
  BY <1>4, <1>5, FS_Injection
<1>7. q \in Seq(S) /\ DOMAIN q = 1..n
  BY <1>1, <1>2
<1>8. QED
  BY <1>2, <1>6, <1>7 DEF Surjection, Range

\* The beginning of a sequence, its parts and its end.
LEMMA Beginning ==
  ASSUME NEW S, NEW q \in Seq(S), NEW a \in 0..Len(q)
  PROVE  /\ SubSeq(q, 1, a) \in Seq(S) /\ Len(SubSeq(q, 1, a)) = a /\ \A i \in 1..a : SubSeq(q, 1, a)[i] = q[i]
         /\ SubSeq(q, 1, 0) = <<>> /\ SubSeq(q, 1, Len(q)) = q
         /\ \A b \in a..Len(q) : SubSeq(q, 1, a) \o SubSeq(q, a + 1, b) = SubSeq(q, 1, b)
<1>a. a \in Int /\ 1 \in Int /\ Len(q) \in Nat
  OBVIOUS
<1>b. \A i \in 1..a : q[i] \in S
  OBVIOUS
<1>1. /\ SubSeq(q, 1, a) \in Seq(S) /\ Len(SubSeq(q, 1, a)) = (IF 1 <= a THEN a - 1 + 1 ELSE 0)
      /\ \A i \in 1..a - 1 + 1 : SubSeq(q, 1, a)[i] = q[1 + i - 1]
  BY <1>a, <1>b, SubSeqProperties
<1>2. Len(SubSeq(q, 1, a)) = a /\ \A i \in 1..a : SubSeq(q, 1, a)[i] = q[i]
  <2>1. (IF 1 <= a THEN a - 1 + 1 ELSE 0) = a /\ a - 1 + 1 = a /\ \A i \in 1..a : 1 + i - 1 = i
    OBVIOUS
  <2>2. QED
    BY <1>1, <2>1
<1>3. SubSeq(q, 1, 0) = <<>>
  BY SubSeqEmpty
<1>4. SubSeq(q, 1, Len(q)) = q
  BY SubSeqFull
<1>5. ASSUME NEW b \in a..Len(q) PROVE SubSeq(q, 1, a) \o SubSeq(q, a + 1, b) = SubSeq(q, 1, b)
  <2>1. 1 \in 1..Len(q) + 1 /\ a \in 1 - 1..Len(q)
    OBVIOUS
  <2>2. QED
    BY <2>1, ConcatAdjacentSubSeq
<1>6. QED
  BY <1>1, <1>2, <1>3, <1>4, <1>5

LEMMA SnapshotGiven ==
  ASSUME NEW c \in DirCaches, NEW g, SnapshotOf(c, g)
  PROVE  GivenInv(g)
<1>1. c.names \in Seq(DirNames) /\ c.pos \in 0..Len(c.names)
  BY DEF DirCaches, SnapshotOf
<1>2. PICK s \in g.possible : ListingOf(c.names, s)
  BY DEF SnapshotOf
<1> SUFFICES ASSUME NEW q \in Seq(DirNames), NEW a \in 0..Len(q), NEW names, names = SubSeq(q, 1, a),
                    ListingOf(q, s), g.names = names, g.ended <=> a = Len(q)
             PROVE  GivenInv(g)
  BY <1>1, <1>2 DEF SnapshotOf
<1>3. Len(names) = a /\ names \in Seq(DirNames) /\ (\A i \in 1..a : names[i] = q[i]) /\ (a = Len(q) => names = q)
  BY Beginning
<1>4. DOMAIN names = 1..a /\ DOMAIN q = 1..Len(q)
  BY <1>3
<1>5. \A i, j \in DOMAIN names : names[i] = names[j] => i = j
  <2>1. \A i, j \in 1..Len(q) : q[i] = q[j] => i = j
    BY <1>4 DEF ListingOf
  <2>2. \A i \in 1..a : i \in 1..Len(q) /\ names[i] = q[i]
    BY <1>3
  <2>3. QED
    BY <1>4, <2>1, <2>2
<1>6. Range(names) \subseteq Range(q)
  <2> SUFFICES ASSUME NEW x \in Range(names) PROVE x \in Range(q)
    OBVIOUS
  <2>1. PICK i \in 1..a : x = names[i]
    BY <1>4 DEF Range
  <2>2. i \in 1..Len(q) /\ x = q[i]
    BY <1>3, <2>1
  <2>3. QED
    BY <1>4, <2>2 DEF Range
<1>7. QED
  BY <1>3, <1>5, <1>6 DEF GivenInv, ListingOf

LEMMA DirFacts ==
  ASSUME DirIInv
  PROVE  /\ dir_entries \in [HostDirs -> SUBSET DirNames]
         /\ DOMAIN dir_fds \subseteq DirFds /\ dir_fds \in [DOMAIN dir_fds -> HostDirs]
         /\ DOMAIN dir_fds \subseteq DOMAIN dir_given /\ dir_given \in [DOMAIN dir_given -> DirGiven]
         /\ g_dir_cache \in [CacheSlots -> DirCaches] /\ dir_closing \in [DirThreads -> Nat]
         /\ DirFds \subseteq Nat \ {0} /\ \A fd \in DOMAIN dir_fds : fd # 0 /\ fd \in Nat
  BY DirAssumption DEF DirIInv, DirTypes

LEMMA DirOpenKeeps == ASSUME DirIInv, NEW d \in HostDirs, open_dir(d) PROVE DirIInv'
<1> DEFINE fd == Min(DirFds \ DOMAIN dir_fds)
           fresh == [names |-> <<>>, ended |-> FALSE, possible |-> {dir_entries[d]}]
<1>1. /\ DirFds \ DOMAIN dir_fds # {} /\ UNCHANGED <<dir_entries, g_dir_cache, dir_closing>>
      /\ dir_fds' = [f \in DOMAIN dir_fds \cup {fd} |-> IF f = fd THEN d ELSE dir_fds[f]]
      /\ dir_given' = [f \in DOMAIN dir_given \cup {fd} |-> IF f = fd THEN fresh ELSE dir_given[f]]
  BY DEF open_dir
<1>2. fd \in DirFds \ DOMAIN dir_fds
  <2>1. DirFds \ DOMAIN dir_fds \subseteq Nat
    BY DirFacts
  <2>2. QED
    BY <1>1, <2>1, LeastOf
<1>3. fresh.names = <<>> /\ fresh.ended = FALSE /\ fresh.possible = {dir_entries[d]} /\ fresh \in DirGiven
  <2>1. dir_entries[d] \in SUBSET DirNames
    BY DirFacts
  <2>2. QED
    BY <2>1 DEF DirGiven
<1> HIDE DEF fd, fresh
<1>4. /\ DOMAIN dir_fds' = DOMAIN dir_fds \cup {fd} /\ dir_fds'[fd] = d
      /\ \A f \in DOMAIN dir_fds : f # fd /\ dir_fds'[f] = dir_fds[f]
      /\ DOMAIN dir_given' = DOMAIN dir_given \cup {fd} /\ dir_given'[fd] = fresh
      /\ \A f \in DOMAIN dir_given : f # fd => dir_given'[f] = dir_given[f]
      /\ \A f \in DOMAIN dir_fds : dir_given'[f] = dir_given[f]
  BY <1>1, <1>2, DirFacts
<1>5. DirTypes'
  <2>1. dir_fds' \in [DOMAIN dir_fds' -> HostDirs] /\ dir_given' \in [DOMAIN dir_given' -> DirGiven]
    BY <1>1, <1>3, DirFacts
  <2>2. QED
    BY <1>1, <1>2, <1>4, <2>1, DirFacts DEF DirTypes, CacheSlots
<1>7. ASSUME NEW f \in DOMAIN dir_fds' PROVE FdInv(f)'
  <2>1. CASE f = fd
    BY <1>1, <1>3, <1>4, <2>1 DEF FdInv, GivenInv
  <2>2. CASE f \in DOMAIN dir_fds
    <3>1. dir_fds'[f] = dir_fds[f] /\ dir_given'[f] = dir_given[f] /\ FdInv(f)
      BY <1>4, <2>2 DEF DirIInv
    <3>2. QED
      <4>1. GivenInv(dir_given'[f]) /\ dir_entries'[dir_fds'[f]] \in dir_given'[f].possible
        BY <1>1, <3>1 DEF FdInv
      <4>2. (Closing(f)' <=> Closing(f)) /\ CacheSlots' = CacheSlots
        BY <1>1 DEF Closing, CacheSlots
      <4>3. ~Closing(f)' /\ (\A i \in CacheSlots' : g_dir_cache'[i].used => g_dir_cache'[i].fd # f)
              => dir_given'[f].names = <<>> /\ ~dir_given'[f].ended
        BY <1>1, <3>1, <4>2 DEF FdInv
      <4>4. GivenInv(dir_given[f])'
        BY <3>1, <4>1 DEF GivenInv
      <4>5. QED
        BY <4>1, <4>3, <4>4 DEF FdInv
  <2>3. QED
    BY <1>4, <2>1, <2>2
<1>8. ASSUME NEW i \in CacheSlots PROVE CachedInv(g_dir_cache[i])'
  <2> SUFFICES ASSUME g_dir_cache[i].used PROVE CachedInv(g_dir_cache[i])'
    BY <1>1 DEF CachedInv
  <2> DEFINE f == g_dir_cache[i].fd
  <2>1. f \in DOMAIN dir_fds /\ ~Closing(f) /\ g_dir_cache[i].ino = dir_fds[f] /\ SnapshotOf(g_dir_cache[i], dir_given[f])
    BY DEF DirIInv, CachedInv
  <2>2. f \in DOMAIN dir_fds' /\ dir_fds'[f] = dir_fds[f] /\ dir_given'[f] = dir_given[f] /\ ~Closing(f)'
    BY <1>1, <1>4, <2>1 DEF Closing
  <2>3. QED
    BY <1>1, <2>1, <2>2 DEF CachedInv
<1>9. OneCache' /\ OneCloser'
  BY <1>1, <1>4 DEF DirIInv, OneCache, OneCloser, CacheSlots
<1>10. QED
  BY <1>5, <1>7, <1>8, <1>9 DEF DirIInv, CacheSlots

LEMMA DirChangeKeeps == ASSUME DirIInv, NEW d \in HostDirs, NEW n \in DirNames, change_dir(d, n) PROVE DirIInv'
<1>1. UNCHANGED <<dir_fds, g_dir_cache, dir_closing>>
  BY DEF change_dir
<1>2. /\ dir_entries' \in [HostDirs -> SUBSET DirNames]
      /\ \A e \in HostDirs : e # d => dir_entries'[e] = dir_entries[e]
  <2> DEFINE s == IF n \in dir_entries[d] THEN dir_entries[d] \ {n} ELSE dir_entries[d] \cup {n}
  <2>1. s \in SUBSET DirNames
    BY DirFacts
  <2>2. dir_entries' = [dir_entries EXCEPT ![d] = s]
    BY DirFacts DEF change_dir
  <2> HIDE DEF s
  <2>3. QED
    BY <2>1, <2>2, DirFacts
<1>3. /\ DOMAIN dir_given' = DOMAIN dir_given
      /\ \A f \in DOMAIN dir_given :
           /\ dir_given'[f] \in DirGiven /\ dir_given'[f].names = dir_given[f].names /\ dir_given'[f].ended = dir_given[f].ended
           /\ dir_given[f].possible \subseteq dir_given'[f].possible
           /\ f \in DOMAIN dir_fds /\ dir_fds[f] = d => dir_entries'[d] \in dir_given'[f].possible
  <2> DEFINE wider(g) == [g EXCEPT !.possible = @ \cup {dir_entries'[d]}]
  <2>1. dir_given' = [f \in DOMAIN dir_given |-> IF f \in DOMAIN dir_fds /\ dir_fds[f] = d THEN wider(dir_given[f]) ELSE dir_given[f]]
    BY DEF change_dir
  <2>2. ASSUME NEW g \in DirGiven
        PROVE  /\ wider(g) \in DirGiven /\ wider(g).names = g.names /\ wider(g).ended = g.ended
               /\ wider(g).possible = g.possible \cup {dir_entries'[d]}
    BY <1>2 DEF DirGiven
  <2> HIDE DEF wider
  <2>3. DOMAIN dir_given' = DOMAIN dir_given
    BY <2>1
  <2>4. ASSUME NEW f \in DOMAIN dir_given
        PROVE  /\ dir_given'[f] \in DirGiven /\ dir_given'[f].names = dir_given[f].names /\ dir_given'[f].ended = dir_given[f].ended
               /\ dir_given[f].possible \subseteq dir_given'[f].possible
               /\ f \in DOMAIN dir_fds /\ dir_fds[f] = d => dir_entries'[d] \in dir_given'[f].possible
    <3>1. dir_given[f] \in DirGiven
      BY DirFacts
    <3>2. dir_given'[f] = IF f \in DOMAIN dir_fds /\ dir_fds[f] = d THEN wider(dir_given[f]) ELSE dir_given[f]
      BY <2>1
    <3>3. CASE f \in DOMAIN dir_fds /\ dir_fds[f] = d
      BY <2>2, <3>1, <3>2, <3>3
    <3>4. CASE ~(f \in DOMAIN dir_fds /\ dir_fds[f] = d)
      BY <3>1, <3>2, <3>4
    <3>5. QED
      BY <3>3, <3>4
  <2>5. QED
    BY <2>3, <2>4
<1>4. DirTypes'
  <2>1. dir_given' \in [DOMAIN dir_given -> DirGiven]
    <3>1. \E h : dir_given' = [f \in DOMAIN dir_given |-> h[f]]
      <4>1. dir_given' = [f \in DOMAIN dir_given |-> dir_given'[f]]
        BY DEF change_dir
      <4>2. QED
        BY <4>1
    <3>2. QED
      BY <1>3, <3>1
  <2>2. QED
    BY <1>1, <1>2, <1>3, <2>1, DirFacts DEF DirTypes, CacheSlots
<1>5. \A f : Closing(f)' <=> Closing(f)
  BY <1>1 DEF Closing
<1>6. ASSUME NEW f \in DOMAIN dir_fds PROVE FdInv(f)'
  <2>1. f \in DOMAIN dir_given /\ dir_fds[f] \in HostDirs /\ FdInv(f)
    BY DirFacts DEF DirIInv
  <2>2. GivenInv(dir_given[f])'
    BY <1>3, <2>1 DEF FdInv, GivenInv
  <2>3. dir_entries'[dir_fds[f]] \in dir_given'[f].possible
    BY <1>2, <1>3, <2>1 DEF FdInv
  <2>4. QED
    BY <1>1, <1>3, <1>5, <2>1, <2>2, <2>3 DEF FdInv, CacheSlots
<1>7. ASSUME NEW i \in CacheSlots PROVE CachedInv(g_dir_cache[i])'
  <2> SUFFICES ASSUME g_dir_cache[i].used PROVE CachedInv(g_dir_cache[i])'
    BY <1>1 DEF CachedInv
  <2> DEFINE f == g_dir_cache[i].fd
  <2>1. f \in DOMAIN dir_fds /\ ~Closing(f) /\ g_dir_cache[i].ino = dir_fds[f] /\ SnapshotOf(g_dir_cache[i], dir_given[f])
    BY DEF DirIInv, CachedInv
  <2>2. f \in DOMAIN dir_given
    BY <2>1, DirFacts
  <2>3. SnapshotOf(g_dir_cache[i], dir_given'[f])
    BY <1>3, <2>1, <2>2 DEF SnapshotOf
  <2>4. QED
    BY <1>1, <1>5, <2>1, <2>3 DEF CachedInv
<1>8. OneCache' /\ OneCloser'
  BY <1>1 DEF DirIInv, OneCache, OneCloser, CacheSlots
<1>9. QED
  BY <1>1, <1>4, <1>6, <1>7, <1>8 DEF DirIInv, CacheSlots

LEMMA DirCloseKeeps ==
  ASSUME DirSound, DirIInv, NEW t \in DirThreads, NEW fd \in DirFds, NEW raw \in {FALSE, RawClose}, shim_close(t, fd, raw)
  PROVE  DirIInv'
<1>1. /\ dir_closing[t] = 0 /\ fd \in DOMAIN dir_fds /\ ~Closing(fd) /\ g_dir_cache' = guest_dir_cache_drop_fd(fd)
      /\ dir_closing' = [dir_closing EXCEPT ![t] = fd] /\ UNCHANGED <<dir_entries, dir_fds, dir_given>>
  <2>1. raw = FALSE
    <3>1. RawClose = FALSE
      BY DirAssumption DEF DirSound
    <3>2. QED
      BY <3>1
  <2>2. QED
    BY <2>1 DEF shim_close, Closing
<1>2. NoCache \in DirCaches /\ ~NoCache.used
  BY DEF NoCache, DirCaches
<1>3. /\ g_dir_cache' \in [CacheSlots -> DirCaches]
      /\ \A i \in CacheSlots : g_dir_cache'[i].used => g_dir_cache'[i] = g_dir_cache[i] /\ g_dir_cache[i].fd # fd
      /\ \A i \in CacheSlots : g_dir_cache[i].used /\ g_dir_cache[i].fd # fd => g_dir_cache'[i] = g_dir_cache[i]
  BY <1>1, <1>2, DirFacts DEF guest_dir_cache_drop_fd
<1>4. /\ dir_closing' \in [DirThreads -> Nat] /\ dir_closing'[t] = fd /\ \A u \in DirThreads : u # t => dir_closing'[u] = dir_closing[u]
  BY <1>1, DirFacts
<1>5. \A f \in DOMAIN dir_fds : Closing(f)' <=> Closing(f) \/ f = fd
  BY <1>1, <1>4, DirFacts DEF Closing
<1>6. DirTypes'
  BY <1>1, <1>3, <1>4, DirFacts DEF DirTypes, CacheSlots
<1>7. ASSUME NEW f \in DOMAIN dir_fds PROVE FdInv(f)'
  BY <1>1, <1>3, <1>5 DEF DirIInv, FdInv, GivenInv, CacheSlots
<1>8. ASSUME NEW i \in CacheSlots PROVE CachedInv(g_dir_cache[i])'
  BY <1>1, <1>3, <1>5 DEF DirIInv, CachedInv
<1>9. OneCache'
  BY <1>3 DEF DirIInv, OneCache, CacheSlots
<1>10. OneCloser'
  BY <1>1, <1>4, DirFacts DEF DirIInv, OneCloser, Closing
<1>11. QED
  BY <1>1, <1>6, <1>7, <1>8, <1>9, <1>10 DEF DirIInv, CacheSlots

LEMMA DirClosedKeeps == ASSUME DirIInv, NEW t \in DirThreads, close_host(t) PROVE DirIInv'
<1> DEFINE fd == dir_closing[t]
<1>1. /\ fd # 0 /\ dir_fds' = [f \in DOMAIN dir_fds \ {fd} |-> dir_fds[f]] /\ dir_closing' = [dir_closing EXCEPT ![t] = 0]
      /\ UNCHANGED <<dir_entries, g_dir_cache, dir_given>>
  BY DEF close_host
<1>2. DOMAIN dir_fds' = DOMAIN dir_fds \ {fd} /\ \A f \in DOMAIN dir_fds' : dir_fds'[f] = dir_fds[f]
  BY <1>1
<1>3. /\ dir_closing' \in [DirThreads -> Nat] /\ dir_closing'[t] = 0 /\ \A u \in DirThreads : u # t => dir_closing'[u] = dir_closing[u]
  BY <1>1, DirFacts
<1>4. Closing(fd)
  BY DEF Closing
<1>5. \A f : f # fd /\ f # 0 => (Closing(f)' <=> Closing(f))
  BY <1>3, DirFacts DEF Closing
<1>6. DirTypes'
  <2>1. dir_fds' \in [DOMAIN dir_fds' -> HostDirs]
    BY <1>1, DirFacts
  <2>2. QED
    BY <1>1, <1>2, <1>3, <2>1, DirFacts DEF DirTypes, CacheSlots
<1>7. ASSUME NEW f \in DOMAIN dir_fds' PROVE FdInv(f)'
  <2>1. f # fd /\ f # 0 /\ f \in DOMAIN dir_fds
    BY <1>2, DirFacts
  <2>2. QED
    BY <1>1, <1>2, <1>5, <2>1 DEF DirIInv, FdInv, GivenInv, CacheSlots
<1>8. ASSUME NEW i \in CacheSlots PROVE CachedInv(g_dir_cache[i])'
  <2> SUFFICES ASSUME g_dir_cache[i].used PROVE CachedInv(g_dir_cache[i])'
    BY <1>1 DEF CachedInv
  <2>1. g_dir_cache[i].fd # fd /\ g_dir_cache[i].fd \in DOMAIN dir_fds /\ g_dir_cache[i].fd # 0
    BY <1>4, DirFacts DEF DirIInv, CachedInv
  <2>2. QED
    BY <1>1, <1>2, <1>5, <2>1 DEF DirIInv, CachedInv
<1>9. OneCache'
  BY <1>1 DEF DirIInv, OneCache, CacheSlots
<1>10. OneCloser'
  <2>1. \A u \in DirThreads : u # t /\ dir_closing[u] # 0 => dir_closing[u] # fd
    BY <1>1 DEF DirIInv, OneCloser
  <2>2. QED
    BY <1>1, <1>2, <1>3, <2>1 DEF DirIInv, OneCloser
<1>11. QED
  BY <1>1, <1>6, <1>7, <1>8, <1>9, <1>10 DEF DirIInv, CacheSlots

\* A descriptor that has no snapshot finds a free slot.
LEMMA SlotFree ==
  ASSUME DirSound, DirIInv, NEW fd \in DOMAIN dir_fds, \A i \in CacheSlots : g_dir_cache[i].used => g_dir_cache[i].fd # fd
  PROVE  {i \in CacheSlots : ~g_dir_cache[i].used} # {}
<1> SUFFICES ASSUME \A i \in CacheSlots : g_dir_cache[i].used PROVE FALSE
  OBVIOUS
<1> DEFINE m == [i \in CacheSlots |-> g_dir_cache[i].fd]
           T == DirFds \ {fd}
<1>1. m \in Injection(CacheSlots, T)
  <2>1. m \in [CacheSlots -> T]
    BY DirFacts DEF DirIInv, CachedInv
  <2>2. \A i, j \in CacheSlots : m[i] = m[j] => i = j
    BY DEF DirIInv, OneCache
  <2> HIDE DEF m, T
  <2>3. QED
    BY <2>1, <2>2 DEF Injection, IsInjective
<1>2. IsFiniteSet(DirFds) /\ fd \in DirFds /\ GUEST_DIR_CACHE_SLOTS \in Nat
  BY DirAssumption, DirFacts
<1>3. IsFiniteSet(T) /\ Cardinality(T) = Cardinality(DirFds) - 1 /\ Cardinality(DirFds) \in Nat
  BY <1>2, FS_RemoveElement, FS_CardinalityType
<1> HIDE DEF m, T
<1>4. Cardinality(CacheSlots) <= Cardinality(T)
  BY <1>1, <1>3, FS_Injection
<1>5. Cardinality(CacheSlots) = GUEST_DIR_CACHE_SLOTS
  BY <1>2, FS_Interval DEF CacheSlots
<1>6. QED
  BY <1>2, <1>3, <1>4, <1>5 DEF DirSound

\* The snapshot a call gives from: the descriptor's own, or a new one.
LEMMA CacheGot ==
  ASSUME DirSound, DirIInv, NEW fd \in DOMAIN dir_fds, ~Closing(fd),
         NEW listing \in SetToSeqs(dir_entries[dir_fds[fd]] \ HiddenNames)
  PROVE  LET c == guest_dir_cache_get(fd, listing)
         IN  /\ CacheOf(fd) \in CacheSlots
             /\ \A j \in CacheSlots : j # CacheOf(fd) /\ g_dir_cache[j].used => g_dir_cache[j].fd # fd
             /\ g_dir_cache[CacheOf(fd)].used => g_dir_cache[CacheOf(fd)].fd = fd
             /\ c \in DirCaches /\ c.used /\ c.fd = fd /\ c.ino = dir_fds[fd] /\ c.pos \in 0..Len(c.names)
             /\ \E s \in dir_given[fd].possible : ListingOf(c.names, s)
             /\ dir_given[fd].names = SubSeq(c.names, 1, c.pos)
<1> DEFINE mine == {i \in CacheSlots : g_dir_cache[i].used /\ g_dir_cache[i].fd = fd}
           free == {i \in CacheSlots : ~g_dir_cache[i].used}
           c == guest_dir_cache_get(fd, listing)
           k == CacheOf(fd)
<1>a. CacheSlots \subseteq Nat
  BY DEF CacheSlots
<1>b. FdInv(fd) /\ fd \in Nat /\ dir_fds[fd] \in HostDirs /\ g_dir_cache \in [CacheSlots -> DirCaches]
  BY DirFacts DEF DirIInv
<1>1. CASE mine # {}
  <2>1. k = Min(mine)
    BY <1>1 DEF CacheOf
  <2>2. k \in mine
    BY <1>1, <1>a, <2>1, LeastOf
  <2>3. g_dir_cache[k].used /\ g_dir_cache[k].fd = fd /\ k \in CacheSlots
    BY <2>2
  <2> HIDE DEF k, mine
  <2>4. /\ g_dir_cache[k].ino = dir_fds[fd] /\ SnapshotOf(g_dir_cache[k], dir_given[fd]) /\ g_dir_cache[k] \in DirCaches
    BY <1>b, <2>3 DEF DirIInv, CachedInv
  <2>5. c = g_dir_cache[k]
    BY <2>3, <2>4 DEF guest_dir_cache_get, k
  <2> HIDE DEF c
  <2>6. \A j \in CacheSlots : j # k /\ g_dir_cache[j].used => g_dir_cache[j].fd # fd
    BY <2>3 DEF DirIInv, OneCache
  <2>7. QED
    BY <2>3, <2>4, <2>5, <2>6 DEF SnapshotOf, c, k
<1>2. CASE mine = {}
  <2>1. \A i \in CacheSlots : g_dir_cache[i].used => g_dir_cache[i].fd # fd
    BY <1>2
  <2>2. free # {}
    BY <2>1, SlotFree
  <2>3. k = Min(free)
    BY <1>2, <2>2 DEF CacheOf
  <2>4. k \in free
    BY <1>a, <2>2, <2>3, LeastOf
  <2>5. k \in CacheSlots /\ ~g_dir_cache[k].used
    BY <2>4
  <2> HIDE DEF k, mine, free
  <2> DEFINE new == [used |-> TRUE, fd |-> fd, ino |-> dir_fds[fd], names |-> listing, pos |-> 0]
  <2>6. c = new
    BY <2>5 DEF guest_dir_cache_get, k
  <2>7. new.used /\ new.fd = fd /\ new.ino = dir_fds[fd] /\ new.names = listing /\ new.pos = 0
    OBVIOUS
  <2>8. dir_entries[dir_fds[fd]] \in SUBSET DirNames /\ dir_entries[dir_fds[fd]] \in dir_given[fd].possible
    BY <1>b, DirFacts DEF FdInv
  <2>9. listing \in Seq(DirNames) /\ ListingOf(listing, dir_entries[dir_fds[fd]])
    <3> DEFINE S == dir_entries[dir_fds[fd]] \ HiddenNames
    <3>1. S \in SUBSET DirNames /\ IsFiniteSet(S)
      BY <2>8, DirAssumption, FS_Subset
    <3> HIDE DEF S
    <3>2. listing \in Seq(S) /\ (\A i, j \in DOMAIN listing : listing[i] = listing[j] => i = j) /\ Range(listing) = S
      BY <3>1, SeqLists DEF S
    <3>3. listing \in Seq(DirNames)
      BY <3>1, <3>2
    <3>4. QED
      BY <3>2, <3>3 DEF ListingOf, S
  <2>10. new \in DirCaches
    BY <1>b, <2>9 DEF DirCaches
  <2>11. dir_given[fd].names = <<>>
    BY <1>b, <2>1 DEF FdInv
  <2>12. SubSeq(listing, 1, 0) = <<>> /\ 0 \in 0..Len(listing)
    BY <2>9
  <2> HIDE DEF new, c
  <2>13. QED
    BY <2>1, <2>5, <2>6, <2>7, <2>8, <2>9, <2>10, <2>11, <2>12 DEF c, k
<1>3. QED
  BY <1>1, <1>2

\* How far a call reads.
LEMMA NextPosition ==
  ASSUME NEW l \in Nat, NEW a \in 0..l, NEW room \in 1..2
  PROVE  Min({a + room, l}) \in a..l
<1>1. {a + room, l} \subseteq Nat
  OBVIOUS
<1>2. Min({a + room, l}) \in {a + room, l} /\ Min({a + room, l}) <= a + room /\ Min({a + room, l}) <= l
  BY <1>1, LeastOf
<1>3. QED
  BY <1>2

LEMMA DirGetKeeps ==
  ASSUME DirSound, DirIInv, NEW fd \in DirFds, NEW room \in 1..2, NEW based \in BOOLEAN, shim_getdents(fd, room, based)
  PROVE  DirIInv'
<1>a. fd \in DOMAIN dir_fds /\ ~Closing(fd)
  BY DEF shim_getdents, Closing
<1>b. PICK listing \in SetToSeqs(dir_entries[dir_fds[fd]] \ HiddenNames) : guest_getdirentries(fd, room, based, listing)
  BY DEF shim_getdents, Listings
<1> DEFINE c == guest_dir_cache_get(fd, listing)
           k == CacheOf(fd)
           from == IF based THEN 0 ELSE c.pos
           to == Min({from + room, Len(c.names)})
           given == SubSeq(c.names, from + 1, to)
           c2 == [c EXCEPT !.pos = to]
           g == dir_given[fd]
           names2 == IF based THEN given ELSE g.names \o given
           g2 == [g EXCEPT !.names = names2, !.ended = (to = Len(c.names))]
<1>1. /\ g_dir_cache' = [g_dir_cache EXCEPT ![k] = c2]
      /\ dir_given' = [dir_given EXCEPT ![fd].names = IF based THEN given ELSE @ \o given, ![fd].ended = to = Len(c.names)]
      /\ UNCHANGED <<dir_entries, dir_fds, dir_closing>>
  BY <1>b DEF guest_getdirentries
<1>2. /\ k \in CacheSlots /\ (\A j \in CacheSlots : j # k /\ g_dir_cache[j].used => g_dir_cache[j].fd # fd)
      /\ (g_dir_cache[k].used => g_dir_cache[k].fd = fd)
      /\ c \in DirCaches /\ c.used /\ c.fd = fd /\ c.ino = dir_fds[fd] /\ c.pos \in 0..Len(c.names)
      /\ (\E s \in g.possible : ListingOf(c.names, s)) /\ g.names = SubSeq(c.names, 1, c.pos)
  BY <1>a, CacheGot
<1>3. g \in DirGiven /\ fd \in DOMAIN dir_given
  BY <1>a, DirFacts
<1>4. dir_given' = [dir_given EXCEPT ![fd] = g2]
  BY <1>1, <1>3
<1> HIDE DEF c, k
<1>5. c.names \in Seq(DirNames) /\ Len(c.names) \in Nat /\ from \in 0..Len(c.names)
  <2>1. c.names \in Seq(DirNames)
    BY <1>2 DEF DirCaches
  <2>2. Len(c.names) \in Nat
    BY <2>1
  <2>3. 0 \in 0..Len(c.names)
    BY <2>2
  <2>4. QED
    BY <1>2, <2>1, <2>2, <2>3
<1>6. to \in from..Len(c.names)
  BY <1>5, NextPosition
<1> HIDE DEF from, to
<1>7. names2 = SubSeq(c.names, 1, to) /\ names2 \in Seq(DirNames)
  <2>0. to \in 0..Len(c.names)
    BY <1>5, <1>6
  <2>1. CASE based
    <3>1. from = 0
      BY <2>1 DEF from
    <3>2. QED
      BY <1>5, <2>0, <2>1, <3>1, Beginning
  <2>2. CASE ~based
    <3>1. from = c.pos
      BY <2>2 DEF from
    <3>2. SubSeq(c.names, 1, from) \o SubSeq(c.names, from + 1, to) = SubSeq(c.names, 1, to)
      BY <1>5, <1>6, Beginning
    <3>3. SubSeq(c.names, 1, to) \in Seq(DirNames)
      BY <1>5, <2>0, Beginning
    <3>4. QED
      BY <1>2, <2>2, <3>1, <3>2, <3>3
  <2>3. QED
    BY <2>1, <2>2
<1> HIDE DEF names2, given
<1>8. /\ c2 \in DirCaches /\ c2.used /\ c2.fd = fd /\ c2.ino = dir_fds[fd] /\ c2.names = c.names /\ c2.pos = to
  <2>1. to \in Nat
    BY <1>5, <1>6
  <2>2. QED
    BY <1>2, <2>1 DEF DirCaches
<1>9. g2 \in DirGiven /\ g2.names = names2 /\ (g2.ended <=> to = Len(c.names)) /\ g2.possible = g.possible
  BY <1>3, <1>7 DEF DirGiven
<1> HIDE DEF c2, g2
<1>10. SnapshotOf(c2, g2)
  BY <1>2, <1>5, <1>6, <1>7, <1>8, <1>9 DEF SnapshotOf
<1>11. /\ g_dir_cache' \in [CacheSlots -> DirCaches] /\ g_dir_cache'[k] = c2
       /\ \A j \in CacheSlots : j # k => g_dir_cache'[j] = g_dir_cache[j]
  BY <1>1, <1>2, <1>8, DirFacts
<1>12. /\ DOMAIN dir_given' = DOMAIN dir_given /\ dir_given' \in [DOMAIN dir_given -> DirGiven] /\ dir_given'[fd] = g2
       /\ \A f \in DOMAIN dir_given : f # fd => dir_given'[f] = dir_given[f]
  BY <1>3, <1>4, <1>9, DirFacts
<1>13. \A f : Closing(f)' <=> Closing(f)
  BY <1>1 DEF Closing
<1>14. DirTypes'
  BY <1>1, <1>11, <1>12, DirFacts DEF DirTypes, CacheSlots
<1>15. ASSUME NEW f \in DOMAIN dir_fds PROVE FdInv(f)'
  <2>1. FdInv(f) /\ f \in DOMAIN dir_given
    BY DirFacts DEF DirIInv
  <2>2. CASE f = fd
    <3>1. GivenInv(g2)
      BY <1>8, <1>10, SnapshotGiven
    <3>2. dir_entries'[dir_fds'[fd]] \in g2.possible
      BY <1>1, <1>9, <2>1, <2>2 DEF FdInv
    <3>3. g_dir_cache'[k].used /\ g_dir_cache'[k].fd = fd /\ k \in CacheSlots'
      BY <1>2, <1>8, <1>11 DEF CacheSlots
    <3>4. QED
      BY <1>12, <2>2, <3>1, <3>2, <3>3 DEF FdInv
  <2>3. CASE f # fd
    <3>1. dir_given'[f] = dir_given[f]
      BY <1>12, <2>1, <2>3
    <3>2. (\A i \in CacheSlots : g_dir_cache'[i].used => g_dir_cache'[i].fd # f)
            => \A i \in CacheSlots : g_dir_cache[i].used => g_dir_cache[i].fd # f
      BY <1>2, <1>11, <2>3
    <3>3. QED
      <4>1. GivenInv(dir_given'[f]) /\ dir_entries'[dir_fds'[f]] \in dir_given'[f].possible
        BY <1>1, <2>1, <3>1 DEF FdInv
      <4>2. (Closing(f)' <=> Closing(f)) /\ CacheSlots' = CacheSlots
        BY <1>13 DEF CacheSlots
      <4>3. ~Closing(f)' /\ (\A i \in CacheSlots' : g_dir_cache'[i].used => g_dir_cache'[i].fd # f)
              => dir_given'[f].names = <<>> /\ ~dir_given'[f].ended
        BY <2>1, <3>1, <3>2, <4>2 DEF FdInv
      <4>4. GivenInv(dir_given[f])'
        BY <3>1, <4>1 DEF GivenInv
      <4>5. QED
        BY <4>1, <4>3, <4>4 DEF FdInv
  <2>4. QED
    BY <2>2, <2>3
<1>16. ASSUME NEW i \in CacheSlots PROVE CachedInv(g_dir_cache[i])'
  <2>1. CASE i = k
    BY <1>1, <1>8, <1>10, <1>11, <1>12, <1>13, <1>a, <2>1 DEF CachedInv
  <2>2. CASE i # k
    <3>1. g_dir_cache'[i] = g_dir_cache[i] /\ (g_dir_cache[i].used => g_dir_cache[i].fd # fd)
      BY <1>2, <1>11, <2>2
    <3>2. g_dir_cache[i].used => g_dir_cache[i].fd \in DOMAIN dir_given
      BY DirFacts DEF DirIInv, CachedInv
    <3>3. QED
      BY <1>1, <1>12, <1>13, <3>1, <3>2 DEF DirIInv, CachedInv
  <2>3. QED
    BY <2>1, <2>2
<1>17. OneCache'
  BY <1>2, <1>8, <1>11 DEF DirIInv, OneCache, CacheSlots
<1>18. OneCloser'
  BY <1>1 DEF DirIInv, OneCloser
<1>19. QED
  BY <1>1, <1>14, <1>15, <1>16, <1>17, <1>18 DEF DirIInv, CacheSlots

LEMMA DirStepInv == ASSUME DirSound, DirIInv, DirNext \/ UNCHANGED dir_vars PROVE DirIInv'
<1>1. CASE UNCHANGED dir_vars
  BY <1>1 DEF dir_vars, DirIInv, DirTypes, FdInv, CachedInv, GivenInv, OneCache, OneCloser, Closing, CacheSlots
<1>2. QED
  BY <1>1, DirOpenKeeps, DirChangeKeeps, DirCloseKeeps, DirClosedKeeps, DirGetKeeps DEF DirNext

-----------------------------------------------------------------------------
(* Guest exceptions (GuestExceptions)                                      *)

Registers == [v : Int, sp : Int]
Programs == [v : {0, 1}, sp : 0..ExDepth]
StackCells == 0 - 1..ExDepth
ExTypes ==
  /\ mode \in {"guest", "result", "shim", "handing"} /\ g_current_ctx \in Endpoints /\ in_handler \in BOOLEAN
  /\ want \in [Endpoints -> Programs] /\ gctx \in [Endpoints -> Registers]
  /\ gstack \in [Endpoints -> [StackCells -> Int]]

\* A stopped or running thread's registers l, context c and slot s are those
\* its program expects.
ThreadOwn(l, c, s) ==
  /\ mode \in {"guest", "result"} => l = want[Cur] /\ gstack[Cur][want[Cur].sp - RedZone] = want[Cur].v
  /\ mode = "result" => c \in Registers /\ c.v = Step(want[Cur]).v
  /\ mode \in {"shim", "handing"} => c = want[Cur]
  /\ IF mode = "handing" THEN s \in Endpoints \ {Cur} ELSE s = Cur

ExIInv ==
  /\ ExTypes
  /\ ~killed /\ (sig_pending => g_sigusr1_installed)
  /\ \A e \in Endpoints \ {Cur} : gctx[e] = want[e]
  /\ ~in_handler => ThreadOwn(live, gctx[Cur], tcb_slot)
  /\ in_handler => ThreadOwn(orig.live, orig.cpu, orig.slot) /\ orig.cpu \in Registers /\ interrupted = want[Cur] /\ tcb_slot = Cur

LEMMA ExFacts ==
  ASSUME ExIInv
  PROVE  /\ ExDepth \in Nat /\ Cur \in Endpoints /\ want[Cur] \in Programs /\ want[Cur] \in Registers /\ gctx[Cur] \in Registers
         /\ want \in [Endpoints -> Programs] /\ gctx \in [Endpoints -> Registers]
         /\ gstack \in [Endpoints -> [StackCells -> Int]] /\ gstack[Cur] \in [StackCells -> Int]
         /\ want[Cur].v \in {0, 1} /\ want[Cur].sp \in 0..ExDepth /\ want[Cur].sp - RedZone \in StackCells
         /\ Step(want[Cur]) \in Programs /\ Step(want[Cur]).sp = want[Cur].sp /\ Step(want[Cur]).v \in {0, 1}
<1>1. /\ ExDepth \in Nat /\ Cur \in Endpoints /\ want[Cur] \in Programs
      /\ want \in [Endpoints -> Programs] /\ gctx \in [Endpoints -> Registers]
      /\ gstack \in [Endpoints -> [StackCells -> Int]] /\ gstack[Cur] \in [StackCells -> Int]
  BY ExAssumption DEF ExIInv, ExTypes, Cur
<1>2. want[Cur].v \in {0, 1} /\ want[Cur].sp \in 0..ExDepth /\ want[Cur] \in Registers /\ gctx[Cur] \in Registers
  BY <1>1 DEF Programs, Registers
<1>3. want[Cur].sp - RedZone \in StackCells
  BY <1>1, <1>2 DEF RedZone, StackCells
<1>4. Step(want[Cur]) \in Programs /\ Step(want[Cur]).sp = want[Cur].sp /\ Step(want[Cur]).v \in {0, 1}
  <2> SUFFICES ASSUME NEW r \in Programs PROVE Step(r) \in Programs /\ Step(r).sp = r.sp /\ Step(r).v \in {0, 1}
    BY <1>1
  <2>1. r.v \in {0, 1} /\ (r.v + 1) % 2 \in {0, 1}
    BY DEF Programs
  <2>2. QED
    BY <2>1 DEF Programs, Step
<1>5. QED
  BY <1>1, <1>2, <1>3, <1>4

LEMMA ExInitInv == ExInit => ExIInv
<1> SUFFICES ASSUME ExInit PROVE ExIInv
  OBVIOUS
<1>1. Start \in Registers /\ Start \in Programs /\ Start.v = 0 /\ Start.sp = ExDepth /\ ExDepth \in Nat
  BY ExAssumption DEF Start, Registers, Programs
<1>2. ExDepth - RedZone \in StackCells
  BY <1>1 DEF RedZone, StackCells
<1>3. "thread" \in Endpoints
  BY DEF Endpoints
<1>4. gstack \in [Endpoints -> [StackCells -> Int]] /\ gstack["thread"][ExDepth - RedZone] = 0
  BY <1>2, <1>3 DEF ExInit, StackCells
<1>5. ExTypes
  BY <1>1, <1>3, <1>4 DEF ExInit, ExTypes
<1>6. ThreadOwn(live, gctx[Cur], tcb_slot)
  BY <1>1, <1>3, <1>4 DEF ExInit, ThreadOwn, Cur
<1>7. QED
  BY <1>1, <1>5, <1>6 DEF ExInit, ExIInv

LEMMA ExExactInv == ExIInv => ExceptionInvisible
<1> SUFFICES ASSUME ExIInv PROVE ExceptionInvisible
  OBVIOUS
<1>1. ~killed /\ \A e \in Endpoints \ {Cur} : gctx[e] = want[e]
  BY DEF ExIInv
<1>2. ASSUME ~in_handler
      PROVE  /\ mode \in {"guest", "result"} => live = want[Cur] /\ gstack[Cur][live.sp - RedZone] = live.v
             /\ mode = "result" => gctx[Cur].v = Step(want[Cur]).v
             /\ mode \in {"shim", "handing"} => gctx[Cur] = want[Cur]
             /\ mode # "handing" => tcb_slot = Cur
  BY <1>2 DEF ExIInv, ThreadOwn
<1>3. ASSUME in_handler PROVE interrupted = want[Cur] /\ tcb_slot = Cur
  BY <1>3 DEF ExIInv
<1>4. QED
  BY <1>1, <1>2, <1>3 DEF ExceptionInvisible

\* A cell of the running endpoint's stack is written.
LEMMA CellWritten ==
  ASSUME NEW g \in [Endpoints -> [StackCells -> Int]], NEW e \in Endpoints, NEW a \in StackCells, NEW x \in Int
  PROVE  /\ [g EXCEPT ![e][a] = x] \in [Endpoints -> [StackCells -> Int]]
         /\ [g EXCEPT ![e][a] = x][e][a] = x
  OBVIOUS

\* A step of the program leaves the thread running, with nothing of the signal changed.
LEMMA ExRuns ==
  ASSUME ExIInv, ~in_handler, UNCHANGED <<sig_vars, in_handler, orig, interrupted>>, ExTypes',
         ThreadOwn(live, gctx[Cur], tcb_slot)', \A e \in Endpoints : e # Cur' => gctx'[e] = want'[e]
  PROVE  ExIInv'
<1>1. ~killed' /\ (sig_pending' => g_sigusr1_installed') /\ in_handler' = in_handler
  BY DEF sig_vars, ExIInv
<1>2. QED
  BY <1>1 DEF ExIInv

LEMMA ExGuestKeeps == ASSUME ExIInv, guest_step \/ guest_call PROVE ExIInv'
<1>a. /\ mode = "guest" /\ ~in_handler /\ UNCHANGED <<sig_vars, in_handler, orig, interrupted, mode, gctx, tcb_slot, g_current_ctx>>
      /\ Cur' = Cur
  BY DEF guest_step, guest_call, Running, Cur
<1>b. live = want[Cur] /\ tcb_slot = Cur
  BY <1>a DEF ExIInv, ThreadOwn
<1>1. PICK r \in Programs : /\ live' = r /\ want' = [want EXCEPT ![Cur] = r]
                            /\ gstack' = [gstack EXCEPT ![Cur][r.sp - RedZone] = r.v]
  <2>1. CASE guest_step
    <3>1. live' = Step(live) /\ want' = [want EXCEPT ![Cur] = Step(@)] /\ gstack' = [gstack EXCEPT ![Cur][live.sp - RedZone] = live'.v]
      BY <2>1 DEF guest_step
    <3>2. want' = [want EXCEPT ![Cur] = Step(want[Cur])]
      BY <3>1
    <3>3. QED
      BY <1>b, <3>1, <3>2, ExFacts
  <2>2. CASE guest_call
    <3> DEFINE r == [want[Cur] EXCEPT !.sp = @ - 1]
    <3>1. /\ live.sp > 1 /\ live' = [live EXCEPT !.sp = @ - 1] /\ want' = [want EXCEPT ![Cur].sp = @ - 1]
          /\ gstack' = [gstack EXCEPT ![Cur][live.sp - 1 - RedZone] = live.v]
      BY <2>2 DEF guest_call
    <3>2. want' = [want EXCEPT ![Cur] = r] /\ live' = r
      BY <1>b, <3>1
    <3>3. r \in Programs /\ r.sp = want[Cur].sp - 1 /\ r.v = want[Cur].v
      <4> SUFFICES ASSUME NEW w \in Programs, w.sp > 1
                   PROVE  [w EXCEPT !.sp = @ - 1] \in Programs /\ [w EXCEPT !.sp = @ - 1].sp = w.sp - 1 /\ [w EXCEPT !.sp = @ - 1].v = w.v
        BY <1>b, <3>1, ExFacts
      <4>1. w.sp \in 0..ExDepth /\ ExDepth \in Nat
        BY ExAssumption DEF Programs
      <4>2. w.sp - 1 \in 0..ExDepth
        BY <4>1
      <4>3. QED
        BY <4>2 DEF Programs
    <3> HIDE DEF r
    <3>4. gstack' = [gstack EXCEPT ![Cur][r.sp - RedZone] = r.v]
      BY <1>b, <3>1, <3>3
    <3>5. QED
      BY <3>2, <3>3, <3>4
  <2>3. QED
    BY <2>1, <2>2
<1>2. r.sp - RedZone \in StackCells /\ r.v \in Int
  BY ExFacts DEF Programs, RedZone, StackCells
<1>3. gstack' \in [Endpoints -> [StackCells -> Int]] /\ gstack'[Cur][r.sp - RedZone] = r.v
  BY <1>1, <1>2, ExFacts, CellWritten
<1>4. want' \in [Endpoints -> Programs] /\ want'[Cur] = r /\ \A e \in Endpoints : e # Cur => want'[e] = want[e]
  BY <1>1, ExFacts
<1>5. ExTypes'
  BY <1>a, <1>3, <1>4 DEF ExTypes, ExIInv
<1>6. ThreadOwn(live, gctx[Cur], tcb_slot)'
  <2>1. mode' = "guest" /\ live' = want'[Cur'] /\ tcb_slot' = Cur' /\ gstack'[Cur'][want'[Cur'].sp - RedZone] = want'[Cur'].v
    BY <1>a, <1>b, <1>1, <1>3, <1>4
  <2>2. QED
    BY <2>1 DEF ThreadOwn
<1>7. \A e \in Endpoints : e # Cur' => gctx'[e] = want'[e]
  BY <1>a, <1>4 DEF ExIInv
<1>8. QED
  BY <1>a, <1>5, <1>6, <1>7, ExRuns

\* The context of the running endpoint is written.
LEMMA ContextWritten ==
  ASSUME NEW g \in [Endpoints -> Registers], NEW e \in Endpoints, NEW r \in Registers
  PROVE  /\ [g EXCEPT ![e] = r] \in [Endpoints -> Registers] /\ [g EXCEPT ![e] = r][e] = r
         /\ \A f \in Endpoints : f # e => [g EXCEPT ![e] = r][f] = g[f]
  OBVIOUS

LEMMA ExHelperKeeps == ASSUME ExIInv, helper \/ shim_enter PROVE ExIInv'
<1>a. /\ mode = "guest" /\ ~in_handler /\ Cur' = Cur
      /\ UNCHANGED <<sig_vars, in_handler, orig, interrupted, live, tcb_slot, g_current_ctx, gstack, want>>
  BY DEF helper, shim_enter, Running, Cur
<1>b. live = want[Cur] /\ tcb_slot = Cur /\ gstack[Cur][want[Cur].sp - RedZone] = want[Cur].v
  BY <1>a DEF ExIInv, ThreadOwn
<1>1. PICK r \in Registers : /\ gctx' = [gctx EXCEPT ![Cur] = r]
                             /\ \/ mode' = "result" /\ r.v = Step(want[Cur]).v
                                \/ mode' = "shim" /\ r = want[Cur]
  <2>1. CASE helper
    <3> DEFINE r == [gctx[Cur] EXCEPT !.v = Step(want[Cur]).v]
    <3>1. mode' = "result" /\ gctx' = [gctx EXCEPT ![Cur] = r]
      BY <1>b, <2>1, ExFacts DEF helper
    <3>2. Step(want[Cur]).v \in Int
      BY ExFacts
    <3>3. r \in Registers /\ r.v = Step(want[Cur]).v
      BY <3>2, ExFacts DEF Registers
    <3> HIDE DEF r
    <3>4. QED
      BY <3>1, <3>3
  <2>2. CASE shim_enter
    BY <1>b, <2>2, ExFacts DEF shim_enter
  <2>3. QED
    BY <2>1, <2>2
<1>2. gctx' \in [Endpoints -> Registers] /\ gctx'[Cur] = r /\ \A e \in Endpoints : e # Cur => gctx'[e] = gctx[e]
  BY <1>1, ExFacts, ContextWritten
<1>3. ExTypes'
  BY <1>a, <1>1, <1>2 DEF ExTypes, ExIInv
<1>4. ThreadOwn(live, gctx[Cur], tcb_slot)'
  <2>1. /\ live' = want'[Cur'] /\ tcb_slot' = Cur' /\ gstack'[Cur'][want'[Cur'].sp - RedZone] = want'[Cur'].v
        /\ Step(want'[Cur']) = Step(want[Cur]) /\ gctx'[Cur'] = r /\ want'[Cur'] = want[Cur]
    BY <1>a, <1>b, <1>2
  <2>2. QED
    BY <1>1, <2>1 DEF ThreadOwn
<1>5. \A e \in Endpoints : e # Cur' => gctx'[e] = want'[e]
  BY <1>a, <1>2 DEF ExIInv
<1>6. QED
  BY <1>a, <1>3, <1>4, <1>5, ExRuns

LEMMA ExLoadKeeps == ASSUME ExIInv, helper_load \/ shim_return PROVE ExIInv'
<1>a. /\ ~in_handler /\ mode' = "guest" /\ Cur' = Cur
      /\ UNCHANGED <<sig_vars, in_handler, orig, interrupted, gctx, tcb_slot, g_current_ctx>>
  BY DEF helper_load, shim_return, Running, Cur
<1>b. tcb_slot = Cur
  BY DEF helper_load, shim_return, Running, ExIInv, ThreadOwn
<1>1. PICK r \in Programs : /\ live' = r /\ want' = [want EXCEPT ![Cur] = r]
                            /\ gstack' = [gstack EXCEPT ![Cur][r.sp - RedZone] = r.v]
  <2>1. CASE helper_load
    <3> DEFINE r == Step(want[Cur])
    <3>1. live = want[Cur] /\ gctx[Cur].v = r.v
      BY <2>1 DEF helper_load, Running, ExIInv, ThreadOwn
    <3>2. want' = [want EXCEPT ![Cur] = r] /\ gstack' = [gstack EXCEPT ![Cur][live.sp - RedZone] = r.v]
      BY <2>1 DEF helper_load
    <3>3. live' = [want[Cur] EXCEPT !.v = r.v]
      BY <2>1, <3>1 DEF helper_load
    <3>4. [want[Cur] EXCEPT !.v = r.v] = r
      <4> SUFFICES ASSUME NEW w \in Programs PROVE [w EXCEPT !.v = Step(w).v] = Step(w)
        BY ExFacts
      <4>1. QED
        BY DEF Programs, Step
    <3>5. r \in Programs /\ r.sp = live.sp
      BY <3>1, ExFacts
    <3> HIDE DEF r
    <3>6. QED
      BY <3>2, <3>3, <3>4, <3>5
  <2>2. CASE shim_return
    <3>1. gctx[Cur] = want[Cur]
      BY <2>2 DEF shim_return, Running, ExIInv, ThreadOwn
    <3>2. live' = want[Cur] /\ want' = want /\ gstack' = [gstack EXCEPT ![Cur][want[Cur].sp - RedZone] = want[Cur].v]
      BY <2>2, <3>1 DEF shim_return
    <3>3. want = [want EXCEPT ![Cur] = want[Cur]]
      BY ExFacts
    <3>4. QED
      BY <3>2, <3>3, ExFacts
  <2>3. QED
    BY <2>1, <2>2
<1>2. r.sp - RedZone \in StackCells /\ r.v \in Int
  BY ExFacts DEF Programs, RedZone, StackCells
<1>3. gstack' \in [Endpoints -> [StackCells -> Int]] /\ gstack'[Cur][r.sp - RedZone] = r.v
  BY <1>1, <1>2, ExFacts, CellWritten
<1>4. want' \in [Endpoints -> Programs] /\ want'[Cur] = r /\ \A e \in Endpoints : e # Cur => want'[e] = want[e]
  BY <1>1, ExFacts
<1>5. ExTypes'
  BY <1>a, <1>3, <1>4 DEF ExTypes, ExIInv
<1>6. ThreadOwn(live, gctx[Cur], tcb_slot)'
  <2>1. mode' = "guest" /\ live' = want'[Cur'] /\ tcb_slot' = Cur' /\ gstack'[Cur'][want'[Cur'].sp - RedZone] = want'[Cur'].v
    BY <1>a, <1>b, <1>1, <1>3, <1>4
  <2>2. QED
    BY <2>1 DEF ThreadOwn
<1>7. \A e \in Endpoints : e # Cur' => gctx'[e] = want'[e]
  BY <1>a, <1>4 DEF ExIInv
<1>8. QED
  BY <1>a, <1>5, <1>6, <1>7, ExRuns

LEMMA ExHandKeeps == ASSUME ExIInv, hand_over \/ handed_over PROVE ExIInv'
<1>a. /\ ~in_handler /\ mode \in {"shim", "handing"} /\ mode' \in {"shim", "handing"}
      /\ UNCHANGED <<sig_vars, in_handler, orig, interrupted, live, gctx, gstack, want>>
  BY DEF hand_over, handed_over, Running
<1>b. gctx[Cur] = want[Cur]
  BY <1>a DEF ExIInv, ThreadOwn
<1>1. \A e \in Endpoints : gctx'[e] = want'[e]
  BY <1>a, <1>b DEF ExIInv
<1>2. Cur' \in Endpoints /\ IF mode' = "handing" THEN tcb_slot' \in Endpoints \ {Cur'} ELSE tcb_slot' = Cur'
  <2>1. CASE hand_over
    BY <2>1, ExFacts DEF hand_over, Cur
  <2>2. CASE handed_over
    <3>1. mode = "handing" /\ tcb_slot \in Endpoints
      BY <2>2 DEF handed_over, Running, ExIInv, ThreadOwn
    <3>2. QED
      BY <2>2, <3>1 DEF handed_over, Cur
  <2>3. QED
    BY <2>1, <2>2
<1>3. ExTypes'
  BY <1>a, <1>2 DEF ExTypes, ExIInv, Cur
<1>4. ThreadOwn(live, gctx[Cur], tcb_slot)'
  BY <1>a, <1>1, <1>2 DEF ThreadOwn
<1>5. QED
  BY <1>a, <1>1, <1>3, <1>4, ExRuns

\* The other threads' calls change only the signal.
LEMMA ExSignalKeeps ==
  ASSUME ~RemoveBusy, ExIInv,
         \/ sceKernelInstallExceptionHandler \/ sceKernelRemoveExceptionHandler \/ set_sigaction \/ sceKernelRaiseException
  PROVE  ExIInv'
<1>1. UNCHANGED <<mode, live, gctx, tcb_slot, g_current_ctx, gstack, want, in_handler, orig, interrupted, killed>> /\ Cur' = Cur
  BY DEF sceKernelInstallExceptionHandler, sceKernelRemoveExceptionHandler, set_sigaction, sceKernelRaiseException, cpu_vars, Cur
<1>2. sig_pending' => g_sigusr1_installed'
  BY DEF sceKernelInstallExceptionHandler, sceKernelRemoveExceptionHandler, set_sigaction, sceKernelRaiseException, ExIInv
<1>3. QED
  BY <1>1, <1>2 DEF ExIInv, ExTypes, ThreadOwn, Cur

LEMMA ExHandlerKeeps == ASSUME ExIInv, host_sigusr1_handler PROVE ExIInv'
<1>a. /\ ~in_handler /\ g_sigusr1_installed /\ ~killed' /\ ~sig_pending' /\ Cur' = Cur
      /\ UNCHANGED <<g_sigusr1_installed, mode, g_current_ctx, want>>
  BY DEF host_sigusr1_handler, ExIInv, Cur
<1>b. ThreadOwn(live, gctx[Cur], tcb_slot)
  BY <1>a DEF ExIInv
<1>1. CASE ~g_exception_handlers
  <2>1. UNCHANGED <<in_handler, orig, interrupted, tcb_slot, gctx, gstack, live>>
    BY <1>a, <1>1 DEF host_sigusr1_handler
  <2>2. QED
    BY <1>a, <2>1 DEF ExIInv, ExTypes, ThreadOwn, Cur
<1>2. CASE g_exception_handlers
  <2> DEFINE low == want[Cur].sp - RedZone
             r == [v |-> Clobbered, sp |-> low - 1]
             cells == [a \in StackCells |-> IF a < low THEN Clobbered ELSE gstack[Cur][a]]
  <2>1. interrupted_registers = want[Cur]
    <3>1. mode \in {"guest", "result", "shim", "handing"}
      BY DEF ExIInv, ExTypes
    <3>2. QED
      BY <1>b, <3>1 DEF ThreadOwn, interrupted_registers
  <2>2. /\ in_handler' = TRUE /\ orig' = [cpu |-> gctx[Cur], live |-> live, slot |-> tcb_slot]
        /\ interrupted' = want[Cur] /\ tcb_slot' = Cur /\ gctx' = [gctx EXCEPT ![Cur] = r]
        /\ gstack' = [gstack EXCEPT ![Cur] = [a \in DOMAIN @ |-> IF a < low THEN Clobbered ELSE @[a]]]
    BY <1>a, <1>2, <2>1 DEF host_sigusr1_handler
  <2>3. low \in Int /\ Clobbered \in Int /\ low \in StackCells
    BY ExFacts DEF RedZone, Clobbered
  <2>4. r \in Registers
    BY <2>3 DEF Registers
  <2>5. cells \in [StackCells -> Int] /\ cells[low] = gstack[Cur][low]
    BY <2>3, ExFacts DEF StackCells
  <2>6. gstack' = [gstack EXCEPT ![Cur] = cells]
    <3>1. DOMAIN gstack[Cur] = StackCells
      BY ExFacts
    <3>2. QED
      BY <2>2, <3>1
  <2>7. /\ orig'.cpu = gctx[Cur] /\ orig'.live = live /\ orig'.slot = tcb_slot
    BY <2>2
  <2> HIDE DEF r, cells
  <2>8. gctx' \in [Endpoints -> Registers] /\ \A e \in Endpoints : e # Cur => gctx'[e] = gctx[e]
    BY <2>2, <2>4, ExFacts, ContextWritten
  <2>9. gstack' \in [Endpoints -> [StackCells -> Int]] /\ gstack'[Cur][low] = gstack[Cur][low]
    BY <2>5, <2>6, ExFacts
  <2>10. ExTypes'
    BY <1>a, <2>2, <2>8, <2>9 DEF ExTypes, ExIInv
  <2>11. ThreadOwn(orig.live, orig.cpu, orig.slot)'
    BY <1>a, <1>b, <2>7, <2>9 DEF ThreadOwn
  <2>12. QED
    BY <1>a, <2>2, <2>7, <2>8, <2>10, <2>11, ExFacts DEF ExIInv
<1>3. QED
  BY <1>1, <1>2

LEMMA ExReturnKeeps == ASSUME ExIInv, handler_return PROVE ExIInv'
<1>1. /\ in_handler /\ in_handler' = FALSE /\ gctx' = [gctx EXCEPT ![Cur] = orig.cpu] /\ live' = orig.live
      /\ tcb_slot' = orig.slot /\ Cur' = Cur /\ UNCHANGED <<mode, g_current_ctx, gstack, want, sig_vars>>
  BY DEF handler_return, guest_cpu_state_restore, Cur
<1>2. ThreadOwn(orig.live, orig.cpu, orig.slot) /\ orig.cpu \in Registers
  BY <1>1 DEF ExIInv
<1>3. gctx' \in [Endpoints -> Registers] /\ gctx'[Cur] = orig.cpu /\ \A e \in Endpoints : e # Cur => gctx'[e] = gctx[e]
  BY <1>1, <1>2, ExFacts, ContextWritten
<1>4. ExTypes'
  BY <1>1, <1>3 DEF ExTypes, ExIInv
<1>5. ThreadOwn(live, gctx[Cur], tcb_slot)'
  BY <1>1, <1>2, <1>3 DEF ThreadOwn
<1>6. ~killed' /\ (sig_pending' => g_sigusr1_installed')
  BY <1>1 DEF ExIInv, sig_vars
<1>7. QED
  BY <1>1, <1>3, <1>4, <1>5, <1>6 DEF ExIInv

LEMMA ExStepInv == ASSUME ~RemoveBusy, ExIInv, ExNext \/ UNCHANGED ex_vars PROVE ExIInv'
<1>1. CASE UNCHANGED ex_vars
  BY <1>1 DEF ex_vars, sig_vars, cpu_vars, ExIInv, ExTypes, ThreadOwn, Cur
<1>2. QED
  BY <1>1, ExGuestKeeps, ExHelperKeeps, ExLoadKeeps, ExHandKeeps, ExSignalKeeps, ExHandlerKeeps, ExReturnKeeps DEF ExNext

-----------------------------------------------------------------------------
(* The specification that TLC runs: a service the behaviour is not about   *)
(* does not move.                                                          *)

\* The invariants of the services hold always.
LEMMA TrophyInvariant == Spec => []TrophyIInv
<1>1. Init => TrophyIInv
  BY TrophyInitInv DEF Init
<1>2. TrophyIInv /\ [Next]_vars => TrophyIInv'
  <2>1. [Next]_vars => TrophyNext \/ UNCHANGED trophy_vars
    BY DEF Next, vars
  <2>2. QED
    BY <2>1, TrophyStepInv
<1>3. QED
  BY <1>1, <1>2, PTL DEF Spec

LEMMA ModuleInvariant == Spec => []ModIInv
<1>1. Init => ModIInv
  BY ModInitInv DEF Init
<1>2. ModIInv /\ [Next]_vars => ModIInv'
  <2>1. [Next]_vars => ModNext \/ SysmoduleNext \/ UNCHANGED mod_vars
    BY DEF Next, vars
  <2>2. QED
    BY <2>1, ModStepInv
<1>3. QED
  BY <1>1, <1>2, PTL DEF Spec

LEMMA DirInvariant == ASSUME DirSound PROVE Spec => []DirIInv
<1>1. Init => DirIInv
  BY DirInitInv DEF Init
<1>2. DirIInv /\ [Next]_vars => DirIInv'
  <2>1. [Next]_vars => DirNext \/ UNCHANGED dir_vars
    BY DEF Next, vars
  <2>2. QED
    BY <2>1, DirStepInv
<1>3. QED
  BY <1>1, <1>2, PTL DEF Spec

LEMMA ExceptionInvariant == ASSUME ~RemoveBusy PROVE Spec => []ExIInv
<1>1. Init => ExIInv
  BY ExInitInv DEF Init
<1>2. ExIInv /\ [Next]_vars => ExIInv'
  <2>1. [Next]_vars => ExNext \/ UNCHANGED ex_vars
    BY DEF Next, vars
  <2>2. QED
    BY <2>1, ExStepInv
<1>3. QED
  BY <1>1, <1>2, PTL DEF Spec

(* A trophy id is unlocked in the context it was created for, whatever is  *)
(* created, registered and destroyed in between, and no two contexts or    *)
(* handles in use share an id.                                             *)
THEOREM TrophiesKept == Spec => []TrophiesOwn
  BY TrophyInvariant, TrophyExactInv, PTL

(* A module's init functions run once and in order however many threads    *)
(* load it, its handle is its own, the system module list has no id twice, *)
(* and both address lookups agree, where the spellings of one module have  *)
(* one text range and text ranges that start together are one.             *)
THEOREM ModulesStartOnce == ASSUME RangesMatch PROVE Spec => []ModulesOnce
<1>1. ModIInv => ModulesOnce
  BY ModExactInv
<1>2. QED
  BY <1>1, ModuleInvariant, PTL

(* The code a guest exception interrupts goes on with the registers and    *)
(* the stack it had, unless the handler is removed while one is pending.   *)
THEOREM ExceptionsInvisible == ASSUME ~RemoveBusy PROVE Spec => []ExceptionInvisible
  BY ExceptionInvariant, ExExactInv, PTL

(* A descriptor is given a snapshot of its directory, no entry twice and   *)
(* at the end all of them, where each open directory has a slot of the     *)
(* cache and is closed by sceKernelClose.                                  *)
THEOREM DirectoriesListed == ASSUME DirSound PROVE Spec => []DirListed
  BY DirInvariant, DirExactInv, PTL

(* All four, as the run checks them.                                       *)
THEOREM ServicesHold == ASSUME RangesMatch, ~RemoveBusy, DirSound PROVE Spec => []ServicesExact
<1>1. Spec => [](TrophiesOwn /\ ModulesOnce /\ ExceptionInvisible /\ DirListed)
  BY TrophiesKept, ModulesStartOnce, ExceptionsInvisible, DirectoriesListed, PTL
<1>2. TrophiesOwn /\ ModulesOnce /\ ExceptionInvisible /\ DirListed => ServicesExact
  BY DEF ServicesExact
<1>3. QED
  BY <1>1, <1>2, PTL
=============================================================================
