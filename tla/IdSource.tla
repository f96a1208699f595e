------------------------------ MODULE IdSource ------------------------------
(***************************************************************************)
(* Identifiers of timers and outbox entries: WindowsIdSequence (a counter  *)
(* behind a mutex, started at a random value) and WindowsIdSourceAdapter,  *)
(* which skips the identifiers that were in state.json when the service    *)
(* started.  Identifiers are Bits bits wide (128); the things that carry   *)
(* them live on over a restart, with a new random value each time.         *)
(***************************************************************************)
EXTENDS Naturals, FiniteSets

CONSTANTS Bits, Caller,
          MaxCalls  \* calls of next_128 between two starts
ASSUME IdAssumption == Bits \in Nat /\ MaxCalls \in 1..(2 ^ Bits)

Id == 0..(2 ^ Bits - 1)
Place == {"active_actions", "telegram_outbox"}

VARIABLES
    up,          \* the service has its id source
    next_value,  \* the next value, under the mutex
    reserved_ids,
    calls,       \* next_128 calls since the start
    ids_pc,      \* per caller: "idle", "looping" (in next_unreserved), "holding" an identifier
    candidate,
    carriers     \* [Place -> [Id -> number of persisted things with this identifier]]
ids_vars == <<up, next_value, reserved_ids, calls, ids_pc, candidate, carriers>>

IdsInit ==
    /\ up = FALSE /\ next_value = 0 /\ reserved_ids = {} /\ calls = 0
    /\ ids_pc = [c \in Caller |-> "idle"] /\ candidate = [c \in Caller |-> 0]
    /\ carriers = [p \in Place |-> [i \in Id |-> 0]]

(* from_production: the seed is any value, or BCryptGenRandom fails and    *)
(* the service does not start.                                             *)
MutActionsOnly(p) == p = "active_actions"
reserves(p) == TRUE
from_production ==
    /\ ~up
    /\ up' = TRUE /\ next_value' \in Id /\ calls' = 0
    /\ reserved_ids' = {i \in Id : \E p \in Place : reserves(p) /\ carriers[p][i] > 0}
    /\ UNCHANGED <<ids_pc, candidate, carriers>>

next_timer_or_outbox_id(c) ==
    /\ up /\ ids_pc[c] = "idle" /\ ids_pc' = [ids_pc EXCEPT ![c] = "looping"]
    /\ UNCHANGED <<up, next_value, reserved_ids, calls, candidate, carriers>>
wrapping_add_1(v) == (v + 1) % 2 ^ Bits
next_128(c) ==
    /\ up /\ ids_pc[c] = "looping" /\ calls < MaxCalls
    /\ candidate' = [candidate EXCEPT ![c] = next_value]
    /\ next_value' = wrapping_add_1(next_value) /\ calls' = calls + 1
    /\ ids_pc' = [ids_pc EXCEPT ![c] = IF next_value \in reserved_ids THEN "looping" ELSE "holding"]
    /\ UNCHANGED <<up, reserved_ids, carriers>>

(* The runtime stores what carries the identifier, or its save failed.     *)
store(c, p) ==
    /\ up /\ ids_pc[c] = "holding" /\ ids_pc' = [ids_pc EXCEPT ![c] = "idle"]
    /\ carriers' = [carriers EXCEPT ![p][candidate[c]] = @ + 1]
    /\ UNCHANGED <<up, next_value, reserved_ids, calls, candidate>>
forget(c) ==
    /\ up /\ ids_pc[c] = "holding" /\ ids_pc' = [ids_pc EXCEPT ![c] = "idle"]
    /\ UNCHANGED <<up, next_value, reserved_ids, calls, candidate, carriers>>
remove(p, i) ==
    /\ up /\ carriers[p][i] > 0 /\ carriers' = [carriers EXCEPT ![p][i] = @ - 1]
    /\ UNCHANGED <<up, next_value, reserved_ids, calls, ids_pc, candidate>>
stop_or_crash ==
    /\ up /\ up' = FALSE /\ ids_pc' = [c \in Caller |-> "idle"]
    /\ UNCHANGED <<next_value, reserved_ids, calls, candidate, carriers>>

IdsNext ==
    \/ from_production \/ stop_or_crash
    \/ \E c \in Caller : next_timer_or_outbox_id(c) \/ next_128(c) \/ forget(c)
    \/ \E c \in Caller, p \in Place : store(c, p)
    \/ \E p \in Place, i \in Id : remove(p, i)
IdsSpec == IdsInit /\ [][IdsNext]_ids_vars

-----------------------------------------------------------------------------
Carried(i) == carriers["active_actions"][i] + carriers["telegram_outbox"][i]

(* No two persisted things, and no thing and a caller about to store one,  *)
(* share an identifier: not when the counter wraps, not when two callers   *)
(* interleave, not after a restart whose random value falls among the old  *)
(* identifiers (the wrap being too far for one run to come round).         *)
NoSharedId ==
    /\ \A i \in Id : Carried(i) <= 1
    /\ \A c \in Caller : up /\ ids_pc[c] = "holding" =>
          Carried(candidate[c]) = 0
          /\ \A d \in Caller \ {c} : ids_pc[d] = "holding" => candidate[d] # candidate[c]
=============================================================================
