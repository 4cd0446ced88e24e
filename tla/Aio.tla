-------------------------------- MODULE Aio ---------------------------------
(***************************************************************************)
(* Asynchronous I/O: pkg/runtime/kernel/aio/ps4_aio.c.                     *)
(*                                                                         *)
(* A submit takes an id, runs its requests on the calling thread and marks *)
(* the id completed; only then does the guest learn the id.  Ids go round. *)
(* The requests' own results (a failed pread is ABORTED) are left out.     *)
(***************************************************************************)
EXTENDS Naturals

CONSTANTS AioThreads,
          AIO_MAX_QUEUES,  \* ORBIS_KERNEL_AIO_MAX_QUEUES
          AioBatch,        \* bound: requests of one submit, ids of one wait
          AioSubmits       \* bound: ids ever taken

ASSUME AioAssumption == AIO_MAX_QUEUES \in Nat \ {0, 1}

VARIABLES g_id_state, g_id_index,
          acall,     \* the call each thread is in
          aio_taken  \* ids taken so far

aio_vars == <<g_id_state, g_id_index, acall, aio_taken>>

Ids == 0..AIO_MAX_QUEUES - 1
Known == {i \in Ids : g_id_state[i] # "none"}
NoAio == [at |-> "idle", id |-> 0, todo |-> 0, ids |-> {}, any |-> FALSE, stop |-> FALSE]

\* ps4_aio_init, run by the first call of any kind.
AioInit ==
  /\ g_id_state = [i \in Ids |-> "none"] /\ g_id_index = 1
  /\ acall = [t \in AioThreads |-> NoAio] /\ aio_taken = 0

-----------------------------------------------------------------------------
next_id(i) == LET n == (i + 1) % AIO_MAX_QUEUES IN IF n = 0 THEN 1 ELSE n

\* An id is taken for todo requests; the Multiple calls take one for each.
TakeId(t, todo, ids) ==
  /\ aio_taken < AioSubmits
  /\ g_id_state' = [g_id_state EXCEPT ![g_id_index] = "processing"]
  /\ g_id_index' = next_id(g_id_index)
  /\ aio_taken' = aio_taken + 1
  /\ acall' = [acall EXCEPT ![t] = [NoAio EXCEPT !.at = "submit", !.id = g_id_index, !.todo = todo, !.ids = ids]]

AioSubmitCommands(t) ==
  /\ acall[t].at = "idle"
  /\ \E n \in 0..AioBatch : TakeId(t, n, {})

\* In a Multiple call ids holds how many requests are still to come.
AioSubmitCommandsMultiple(t) ==
  /\ acall[t].at = "idle"
  /\ \E n \in 1..AioBatch : TakeId(t, 1, 2..n)

execute_request(t) ==
  /\ acall[t].at = "submit" /\ acall[t].todo > 0
  /\ acall' = [acall EXCEPT ![t].todo = @ - 1]
  /\ UNCHANGED <<g_id_state, g_id_index, aio_taken>>

\* Mutant: the id is left as it is.
submit_keeps_state(t) ==
  /\ acall[t].at = "submit" /\ acall[t].todo = 0
  /\ acall' = [acall EXCEPT ![t].at = "next"]
  /\ UNCHANGED <<g_id_state, g_id_index, aio_taken>>

\* The id is completed whatever the requests did, also when the guest
\* cancelled it meanwhile.
submit_completed(t) ==
  /\ acall[t].at = "submit" /\ acall[t].todo = 0
  /\ g_id_state' = [g_id_state EXCEPT ![acall[t].id] = "completed"]
  /\ acall' = [acall EXCEPT ![t].at = "next"]
  /\ UNCHANGED <<g_id_index, aio_taken>>

submit_next(t) ==
  /\ acall[t].at = "next"
  /\ IF acall[t].ids = {} THEN acall' = [acall EXCEPT ![t] = NoAio] /\ UNCHANGED <<g_id_state, g_id_index, aio_taken>>
     ELSE \E n \in acall[t].ids : TakeId(t, 1, acall[t].ids \ {n})

\* Ids are marked, whatever runs under them; only a delete takes id 0.
AioAbort(t, ids) ==
  /\ acall[t].at = "idle"
  /\ \E S \in SUBSET ids \ {{}} :
       g_id_state' = [i \in Ids |-> IF i \in S THEN "aborted" ELSE g_id_state[i]]
  /\ UNCHANGED <<g_id_index, acall, aio_taken>>
AioDeleteRequests(t) == AioAbort(t, Known \cup {0})
AioCancelRequests(t) == AioAbort(t, Known)

-----------------------------------------------------------------------------
(* sceKernelAioWaitRequest(s): the ids one after the other, each polled    *)
(* every 10 us until it is settled.  In mode 2 a completed one ends the    *)
(* waiting; a timeout does too; what is left is only read.                 *)

AioWaitRequests(t) ==
  /\ acall[t].at = "idle"
  /\ \E S \in SUBSET Known \ {{}}, any \in BOOLEAN :
       acall' = [acall EXCEPT ![t] = [NoAio EXCEPT !.at = "wait", !.ids = S, !.any = any]]
  /\ UNCHANGED <<g_id_state, g_id_index, aio_taken>>

Settled(i) == g_id_state[i] # "processing"

\* The loop for id i ends, settled or late ...
wait_polled(t) ==
  LET c == acall[t]
  IN  /\ c.at = "wait"
      /\ \E i \in c.ids, late \in BOOLEAN :
           /\ c.stop \/ Settled(i) \/ late
           /\ acall' = [acall EXCEPT ![t] = [c EXCEPT !.at = "read", !.id = i, !.ids = c.ids \ {i},
                                                      !.stop = c.stop \/ late]]
      /\ UNCHANGED <<g_id_state, g_id_index, aio_taken>>

\* ... and its state is read again, for the guest.
wait_read(t) ==
  LET c == acall[t]
  IN  /\ c.at = "read"
      /\ acall' = [acall EXCEPT ![t] =
           IF c.ids = {} THEN NoAio
           ELSE [c EXCEPT !.at = "wait", !.stop = @ \/ (c.any /\ g_id_state[c.id] = "completed")]]
      /\ UNCHANGED <<g_id_state, g_id_index, aio_taken>>

\* Writes are submitted as reads are, one request or several.
AioSubmitWriteCommands(t) == AioSubmitCommands(t)
AioSubmitWriteCommandsMultiple(t) == AioSubmitCommandsMultiple(t)

AioNext ==
  \E t \in AioThreads :
    \/ AioSubmitCommands(t) \/ AioSubmitCommandsMultiple(t) \/ AioSubmitWriteCommands(t)
    \/ AioSubmitWriteCommandsMultiple(t) \/ execute_request(t) \/ submit_completed(t)
    \/ submit_next(t) \/ AioDeleteRequests(t) \/ AioCancelRequests(t) \/ AioWaitRequests(t) \/ wait_polled(t) \/ wait_read(t)

-----------------------------------------------------------------------------
(* An id is in progress only while a submit that took it is running, so no *)
(* wait without a timeout polls forever, even when ids go round under a    *)
(* slow submit or are cancelled; and id 0, which a cancel refuses, is never*)
(* given out.                                                              *)
AioInProgress ==
  /\ \A i \in Ids : ~Settled(i) => \E t \in AioThreads : acall[t].at = "submit" /\ acall[t].id = i
  /\ g_id_index # 0 /\ \A t \in AioThreads : acall[t].at = "submit" => acall[t].id # 0
=============================================================================
