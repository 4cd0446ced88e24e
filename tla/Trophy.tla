------------------------------- MODULE Trophy -------------------------------
(***************************************************************************)
(* libSceNpTrophy (ps4_trophy.c): tables of trophy contexts and handles,   *)
(* every call one step under g_trophy_mutex.  Ids come from counters that  *)
(* Term does not reset; the tables are cleared when the library is used    *)
(* again after Term.                                                       *)
(***************************************************************************)
EXTENDS Naturals, Sequences, FiniteSets, FiniteSetsExt

CONSTANTS MAX_TROPHY_CONTEXTS, MAX_TROPHY_HANDLES,
          TrophyIds,     \* trophies the guest unlocks
          MaxTrophies,   \* bits of unlocked_trophies
          TrophyCreates  \* bound: contexts created, and handles

ASSUME TrophyAssumption ==
  /\ MAX_TROPHY_CONTEXTS \in Nat /\ MAX_TROPHY_HANDLES \in Nat /\ TrophyIds \subseteq Nat
  /\ MaxTrophies \in Nat /\ TrophyCreates \in Nat

VARIABLES g_contexts, g_handles, g_next_context_id, g_next_handle_id, g_trophy_inited,
          earned   \* context id -> trophies its calls unlocked, since its creation

trophy_vars == <<g_contexts, g_handles, g_next_context_id, g_next_handle_id, g_trophy_inited, earned>>

NoContext == [in_use |-> FALSE, id |-> 0, registered_handle |-> 0, unlocked |-> {}]
NoTrophyHandle == [in_use |-> FALSE, id |-> 0]
NoContexts == [i \in 1..MAX_TROPHY_CONTEXTS |-> NoContext]
NoHandles == [i \in 1..MAX_TROPHY_HANDLES |-> NoTrophyHandle]

TrophyInit ==
  /\ g_contexts = NoContexts /\ g_handles = NoHandles
  /\ g_next_context_id = 1 /\ g_next_handle_id = 1 /\ g_trophy_inited = FALSE
  /\ earned = <<>>

\* The tables as a call that initializes the library on demand finds them.
ContextsNow == IF g_trophy_inited THEN g_contexts ELSE NoContexts
HandlesNow == IF g_trophy_inited THEN g_handles ELSE NoHandles
Find(table, id) == {i \in DOMAIN table : table[i].in_use /\ table[i].id = id}
FreeIn(table) == {i \in DOMAIN table : ~table[i].in_use}

sceNpTrophyInit ==
  /\ ~g_trophy_inited /\ g_trophy_inited' = TRUE
  /\ g_contexts' = NoContexts /\ g_handles' = NoHandles
  /\ UNCHANGED <<g_next_context_id, g_next_handle_id, earned>>

sceNpTrophyTerm ==
  /\ g_trophy_inited /\ g_trophy_inited' = FALSE
  /\ UNCHANGED <<g_contexts, g_handles, g_next_context_id, g_next_handle_id, earned>>

\* Mutant: the id is the slot's number.
create_in_slot ==
  /\ g_next_context_id <= TrophyCreates /\ FreeIn(ContextsNow) # {}
  /\ LET i == Min(FreeIn(ContextsNow))
     IN  g_contexts' = [ContextsNow EXCEPT ![i] = [NoContext EXCEPT !.in_use = TRUE, !.id = i]]
  /\ earned' = Append(earned, {})
  /\ g_handles' = HandlesNow /\ g_trophy_inited' = TRUE /\ g_next_context_id' = g_next_context_id + 1
  /\ UNCHANGED g_next_handle_id

sceNpTrophyCreateContext ==
  /\ g_next_context_id <= TrophyCreates /\ FreeIn(ContextsNow) # {}
  /\ LET i == Min(FreeIn(ContextsNow))
     IN  g_contexts' = [ContextsNow EXCEPT ![i] = [NoContext EXCEPT !.in_use = TRUE, !.id = g_next_context_id]]
  /\ earned' = Append(earned, {})
  /\ g_handles' = HandlesNow /\ g_trophy_inited' = TRUE /\ g_next_context_id' = g_next_context_id + 1
  /\ UNCHANGED g_next_handle_id

\* The remaining calls look at the tables whether or not Term was called.
sceNpTrophyDestroyContext(c) ==
  /\ Find(g_contexts, c) # {}
  /\ g_contexts' = [g_contexts EXCEPT ![Min(Find(g_contexts, c))].in_use = FALSE]
  /\ UNCHANGED <<g_handles, g_next_context_id, g_next_handle_id, g_trophy_inited, earned>>

sceNpTrophyCreateHandle ==
  /\ g_next_handle_id <= TrophyCreates /\ FreeIn(HandlesNow) # {}
  /\ g_handles' = [HandlesNow EXCEPT ![Min(FreeIn(HandlesNow))] = [in_use |-> TRUE, id |-> g_next_handle_id]]
  /\ g_contexts' = ContextsNow /\ g_trophy_inited' = TRUE /\ g_next_handle_id' = g_next_handle_id + 1
  /\ UNCHANGED <<g_next_context_id, earned>>

sceNpTrophyDestroyHandle(h) ==
  /\ Find(g_handles, h) # {}
  /\ g_handles' = [g_handles EXCEPT ![Min(Find(g_handles, h))].in_use = FALSE]
  /\ UNCHANGED <<g_contexts, g_next_context_id, g_next_handle_id, g_trophy_inited, earned>>

sceNpTrophyRegisterContext(c, h) ==
  /\ Find(g_contexts, c) # {} /\ Find(g_handles, h) # {}
  /\ g_contexts' = [g_contexts EXCEPT ![Min(Find(g_contexts, c))].registered_handle = h]
  /\ UNCHANGED <<g_handles, g_next_context_id, g_next_handle_id, g_trophy_inited, earned>>

\* The bit array holds MaxTrophies; a larger id is accepted and forgotten.
sceNpTrophyUnlockTrophy(c, id) ==
  /\ Find(g_contexts, c) # {}
  /\ g_contexts' = [g_contexts EXCEPT ![Min(Find(g_contexts, c))].unlocked =
                      @ \cup {t \in {id} : t < MaxTrophies}]
  /\ earned' = [earned EXCEPT ![c] = @ \cup {t \in {id} : t < MaxTrophies}]
  /\ UNCHANGED <<g_handles, g_next_context_id, g_next_handle_id, g_trophy_inited>>

TrophyNext ==
  \/ sceNpTrophyInit \/ sceNpTrophyTerm \/ sceNpTrophyCreateContext \/ sceNpTrophyCreateHandle
  \/ \E c \in 1..TrophyCreates :
       \/ sceNpTrophyDestroyContext(c) \/ sceNpTrophyDestroyHandle(c)
       \/ \E h \in 1..TrophyCreates : sceNpTrophyRegisterContext(c, h)
       \/ \E id \in TrophyIds : sceNpTrophyUnlockTrophy(c, id)

-----------------------------------------------------------------------------
\* A context's bits are exactly what was unlocked through its own id: an id
\* kept from before a destroy or a Term never reaches a later context, and no
\* two contexts or handles in use share an id.
TrophiesOwn ==
  /\ \A i, j \in DOMAIN g_contexts : g_contexts[i].in_use /\ g_contexts[j].in_use /\ i # j => g_contexts[i].id # g_contexts[j].id
  /\ \A i, j \in DOMAIN g_handles : g_handles[i].in_use /\ g_handles[j].in_use /\ i # j => g_handles[i].id # g_handles[j].id
  /\ \A i \in DOMAIN g_contexts : g_contexts[i].in_use => g_contexts[i].unlocked = earned[g_contexts[i].id]
=============================================================================
