------------------------------ MODULE EventBus ------------------------------
(***************************************************************************)
(* The coordinator's event subscribers: tray sessions that subscribe and   *)
(* get a snapshot and a bounded channel, the health record whose changes   *)
(* are broadcast, and the registry whose size is part of that record.      *)
(* Handlers run one at a time on the worker; subscribers read from their   *)
(* channels, or go away, at any moment, also while a handler broadcasts.   *)
(*                                                                         *)
(* An event carries a health signature or is "other" (timers, warnings,    *)
(* policy, messages), whose content is the subject of Runtime.             *)
(***************************************************************************)
EXTENDS Integers, Sequences, FiniteSets

CONSTANTS MaxId,      \* the last subscription id (u64::MAX in the code)
          Capacity,   \* most sessions that can be counted (u32::MAX)
          QueueSize,  \* room of a subscriber's channel (64)
          MaxEvents   \* bound on broadcasts of handlers, for model checking

ASSUME BoundsAreNat == {MaxId, Capacity, QueueSize, MaxEvents} \subseteq Nat
                       /\ MaxId > 0 /\ QueueSize > 0

Id == 1..MaxId
NoId == 0
Flag == {"persistence", "gate", "power", "policy"}
Other == [kind |-> "other"]

VARIABLES
    flags,                           \* what the service knows of its parts; TRUE is healthy
    sessions,                        \* health.active_tray_sessions
    registry,                        \* ids in `subscribers`
    next_id,                         \* next_subscription_id; NoId for None
    chan,                            \* contents of each channel
    receivers,                       \* ids whose receiver exists
    view,                            \* what a subscriber last read of the health
    bus_pc,                          \* "idle", or "reconcile" while the registry is being reconciled
    excluded,                        \* the subscription a reconciliation leaves out, or NoId
    stopping,
    broadcasts, joined, taken, used  \* history: broadcasts so far, at subscription, read, ids given out

bus_vars == <<flags, sessions, registry, next_id, chan, receivers, view, bus_pc, excluded, stopping,
              broadcasts, joined, taken, used>>

(* telegram_connected is false throughout: the best status is Degraded. *)
recompute_health_status(f) == IF f["persistence"] THEN "Degraded" ELSE "Critical"
last_error(f) == IF ~f["persistence"] THEN "persistence" ELSE
                 IF ~f["policy"] THEN "policy" ELSE
                 IF ~f["power"] THEN "power" ELSE
                 IF ~f["gate"] THEN "gate" ELSE "none"
meaningful_health_signature(f, n) ==
    [status |-> recompute_health_status(f), gate |-> f["gate"], persistence |-> f["persistence"],
     sessions |-> n, last_error |-> last_error(f)]
Signature == [status : {"Degraded", "Critical"}, gate : BOOLEAN, persistence : BOOLEAN,
              sessions : Nat, last_error : Flag \cup {"none"}]
health == meaningful_health_signature(flags, sessions)
HealthUpdated(h) == [kind |-> "health", health |-> h]

BusInit ==
    /\ flags = [f \in Flag |-> TRUE]
    /\ sessions = 0 /\ registry = {} /\ next_id = 1
    /\ chan = [i \in Id |-> <<>>] /\ receivers = {}
    /\ view = [i \in Id |-> meaningful_health_signature(flags, 0)]
    /\ bus_pc = "idle" /\ excluded = NoId /\ stopping = FALSE
    /\ broadcasts = 0 /\ joined = [i \in Id |-> 0] /\ taken = [i \in Id |-> 0] /\ used = {}

-----------------------------------------------------------------------------
(* Who cannot take another event: a full channel or a receiver that is gone. *)
failing(ids) == {i \in ids : i \notin receivers \/ Len(chan[i]) >= QueueSize}

try_send_to_subscribers(e, ids) ==
    /\ chan' = [i \in Id |-> IF i \in ids \ failing(ids) THEN Append(chan[i], e) ELSE chan[i]]
    /\ broadcasts' = broadcasts + 1

(* Failed subscribers are removed at once; the loop in reconcile_... then  *)
(* goes on as long as the count it published is not the registry's size.   *)
emit_event(e) ==
    /\ try_send_to_subscribers(e, registry)
    /\ registry' = registry \ failing(registry)
    /\ IF failing(registry) = {} THEN UNCHANGED <<bus_pc, excluded>>
       ELSE bus_pc' = "reconcile" /\ excluded' = NoId

reconcile_subscriber_registry ==
    /\ bus_pc = "reconcile"
    /\ sessions # Cardinality(registry)
    /\ sessions' = Cardinality(registry)
    /\ LET others == registry \ {excluded} IN
       /\ try_send_to_subscribers(HealthUpdated(meaningful_health_signature(flags, sessions')), others)
       /\ registry' = registry \ failing(others)
    /\ UNCHANGED <<flags, next_id, receivers, view, bus_pc, excluded, stopping, joined, taken, used>>

reconciled ==
    /\ bus_pc = "reconcile"
    /\ sessions = Cardinality(registry)
    /\ bus_pc' = IF excluded = NoId THEN "idle" ELSE "reply"
    /\ UNCHANGED <<flags, sessions, registry, next_id, chan, receivers, view, excluded, stopping,
                   broadcasts, joined, taken, used>>

-----------------------------------------------------------------------------
Ready == bus_pc = "idle" /\ ~stopping
Budget == broadcasts < MaxEvents

(* mark_persistence_*, mark_gate_*, power_error, retry_policy_error. *)
mutate_health_and_maybe_emit(f, healthy) ==
    LET before == health
        after == meaningful_health_signature(flags', sessions)
    IN  /\ flags' = [flags EXCEPT ![f] = healthy]
        /\ IF before = after THEN UNCHANGED <<chan, broadcasts, registry, bus_pc, excluded>>
           ELSE emit_event(HealthUpdated(after))

mark_health(f, healthy) ==
    /\ Ready /\ Budget
    /\ mutate_health_and_maybe_emit(f, healthy)
    /\ UNCHANGED <<sessions, next_id, receivers, view, stopping, joined, taken, used>>

(* Every other event of a handler, handle_publish_parent_message included. *)
publish ==
    /\ Ready /\ Budget
    /\ emit_event(Other)
    /\ UNCHANGED <<flags, sessions, next_id, receivers, view, stopping, joined, taken, used>>

(* checked_prospective_active_session_count *)
has_capacity == Cardinality(registry) + 1 <= Capacity

MutWrappingId(i) == IF i < MaxId THEN i + 1 ELSE 1
checked_add(i) == IF i < MaxId THEN i + 1 ELSE NoId

handle_subscribe_events ==
    /\ Ready
    /\ next_id # NoId
    /\ next_id \notin registry
    /\ has_capacity
    /\ registry' = registry \cup {next_id}
    /\ receivers' = receivers \cup {next_id}
    /\ chan' = [chan EXCEPT ![next_id] = <<>>]
    /\ next_id' = checked_add(next_id)
    /\ used' = used \cup {next_id}
    /\ bus_pc' = "reconcile"
    /\ excluded' = next_id
    /\ UNCHANGED <<flags, sessions, view, stopping, broadcasts, joined, taken>>

(* SubscriptionIdExhausted or SubscriptionCapacityExhausted. *)
subscribe_refused ==
    /\ Ready
    /\ next_id = NoId \/ next_id \in registry \/ ~has_capacity
    /\ UNCHANGED bus_vars

(* The snapshot is built after the count has settled. *)
MutSnapshotBeforeCount == meaningful_health_signature(flags, sessions - 1)
initial_snapshot == health

subscribe_reply ==
    /\ bus_pc = "reply"
    /\ view' = [view EXCEPT ![excluded] = initial_snapshot]
    /\ joined' = [joined EXCEPT ![excluded] = broadcasts]
    /\ taken' = [taken EXCEPT ![excluded] = 0]
    /\ bus_pc' = "idle"
    /\ excluded' = NoId
    /\ UNCHANGED <<flags, sessions, registry, next_id, chan, receivers, stopping, broadcasts, used>>

(* The caller is gone: the new subscription is taken back. *)
subscribe_rollback ==
    /\ bus_pc = "reply"
    /\ registry' = registry \ {excluded}
    /\ receivers' = receivers \ {excluded}
    /\ bus_pc' = "reconcile"
    /\ excluded' = NoId
    /\ UNCHANGED <<flags, sessions, next_id, chan, view, stopping, broadcasts, joined, taken, used>>

handle_unsubscribe_events(i) ==
    /\ Ready
    /\ IF i \in registry
         THEN registry' = registry \ {i} /\ bus_pc' = "reconcile"
         ELSE UNCHANGED <<registry, bus_pc>>
    /\ UNCHANGED <<flags, sessions, next_id, chan, receivers, view, excluded, stopping,
                   broadcasts, joined, taken, used>>

handle_stop ==
    /\ Ready
    /\ stopping' = TRUE
    /\ registry' = {}
    /\ sessions' = 0
    /\ UNCHANGED <<flags, next_id, chan, receivers, view, bus_pc, excluded, broadcasts, joined, taken, used>>

(* Subscribers, at any time. *)
receive(i) ==
    /\ i \in receivers
    /\ chan[i] # <<>>
    /\ view' = [view EXCEPT ![i] = IF Head(chan[i]).kind = "health" THEN Head(chan[i]).health ELSE @]
    /\ chan' = [chan EXCEPT ![i] = Tail(@)]
    /\ taken' = [taken EXCEPT ![i] = @ + 1]
    /\ UNCHANGED <<flags, sessions, registry, next_id, receivers, bus_pc, excluded, stopping, broadcasts, joined, used>>

disconnect(i) ==
    /\ i \in receivers
    /\ i # excluded
    /\ receivers' = receivers \ {i}
    /\ UNCHANGED <<flags, sessions, registry, next_id, chan, view, bus_pc, excluded, stopping,
                   broadcasts, joined, taken, used>>

BusNext ==
    \/ \E f \in Flag, b \in BOOLEAN : mark_health(f, b)
    \/ publish
    \/ reconcile_subscriber_registry \/ reconciled
    \/ handle_subscribe_events \/ subscribe_refused \/ subscribe_reply \/ subscribe_rollback
    \/ \E i \in Id : handle_unsubscribe_events(i) \/ receive(i) \/ disconnect(i)
    \/ handle_stop
    \/ (stopping /\ UNCHANGED bus_vars)

BusSpec == BusInit /\ [][BusNext]_bus_vars

-----------------------------------------------------------------------------
(* Types; channels never hold more than their room.                        *)
BusTypeOK ==
    /\ flags \in [Flag -> BOOLEAN] /\ sessions \in Nat
    /\ registry \subseteq Id /\ receivers \subseteq Id /\ used \subseteq Id
    /\ next_id \in Id \cup {NoId} /\ excluded \in Id \cup {NoId}
    /\ chan \in [Id -> Seq([kind : {"other"}] \cup [kind : {"health"}, health : Signature])]
    /\ \A i \in Id : Len(chan[i]) <= QueueSize
    /\ view \in [Id -> Signature]
    /\ bus_pc \in {"idle", "reconcile", "reply"} /\ stopping \in BOOLEAN
    /\ broadcasts \in Nat /\ joined \in [Id -> Nat] /\ taken \in [Id -> Nat]

(* active_tray_sessions is the size of the registry whenever a handler has *)
(* finished, whoever was dropped while it was being published.             *)
CountIsRegistry == bus_pc = "idle" => sessions = Cardinality(registry)

(* What a subscriber with channel s and picture v knows after reading it:  *)
(* the last health event on the way says h, or none is on the way.         *)
ends_with(s, v, h) ==
    \/ v = h /\ \A k \in 1..Len(s) : s[k].kind # "health"
    \/ \E k \in 1..Len(s) : s[k] = HealthUpdated(h) /\ \A j \in (k + 1)..Len(s) : s[j].kind # "health"

(* Snapshot plus events give every registered subscriber the service's     *)
(* current health, the number of sessions included.                        *)
HealthViewCurrent == bus_pc = "idle" => \A i \in registry : ends_with(chan[i], view[i], health)

(* A registered subscriber has missed no event since it subscribed; one    *)
(* that would miss an event is dropped from the registry instead.          *)
NoGap == \A i \in registry \ {excluded} : taken[i] + Len(chan[i]) = broadcasts - joined[i]

(* A subscription id is never given out twice, also when ids run out.      *)
IdsNeverReused == [][\A i \in registry' \ registry : i \notin used]_bus_vars

(* Only a subscriber that is full, gone, unsubscribed or rolled back leaves *)
(* the registry: a slow one costs the others nothing.                      *)
DroppedForCause ==
    [][\A i \in registry \ registry' :
          \/ i \notin receivers \/ i \notin receivers'
          \/ Len(chan[i]) >= QueueSize
          \/ stopping'
          \/ (bus_pc = "idle" /\ UNCHANGED <<chan, broadcasts>>)]_bus_vars

(* The registry holds the subscribers that get every event, is counted     *)
(* right, and is left for a reason: an id in it is never another's.        *)
RegistryExact == /\ [](BusTypeOK /\ CountIsRegistry /\ NoGap)
                 /\ IdsNeverReused /\ DroppedForCause
=============================================================================
