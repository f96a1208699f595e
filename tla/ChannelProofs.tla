---------------------------- MODULE ChannelProofs -----------------------------
(***************************************************************************)
(* The event bus, the named pipe and the frames of the IPC protocol, for   *)
(* any number of subscriptions, threads, events, frames and bytes and any  *)
(* size of channel and pipe.                                               *)
(*                                                                         *)
(* EventBus: the count of sessions, the absence of gaps, ids that are      *)
(* used once, the causes for which a subscriber is lost, and the health    *)
(* that every subscriber is told. NoGap says nothing of the subscription   *)
(* that a handler is just making; what it needs of it is that its channel  *)
(* stays empty until the reply (BusPhase). The health is owed between two  *)
(* handlers; in the middle of one everybody has it already but the         *)
(* subscription in the making (ViewsCurrent).                              *)
(*                                                                         *)
(* NamedPipe: a read is aligned, the client's identity is taken off        *)
(* again, only an active administrator is reported as one, and, when       *)
(* WaitForMultipleObjects does not fail, no call returns while the kernel  *)
(* owns its OVERLAPPED.                                                    *)
(* StreamAligned needs to know, at every point of the loop and whichever   *)
(* of completion and cancellation came first, that what ReadFile took out  *)
(* of the pipe is what the loop has counted plus what it is about to       *)
(* count (Bytes).                                                          *)
(*                                                                         *)
(* IpcFraming: the reader hands over what was written and ends for the     *)
(* reason there is. What is left of the stream, wherever it is, is the     *)
(* frames that were begun and not yet read, one behind the other           *)
(* (Stream): moving bytes along changes nothing of it, a new frame is      *)
(* put at its end, and a frame that is read is cut off its front.          *)
(***************************************************************************)
EXTENDS EventBus, NamedPipe, IpcFraming, DataInduction, FiniteSetTheorems

(* EventBus *)
Event == [kind : {"other"}] \cup [kind : {"health"}, health : Signature]

Ids ==
    /\ registry \subseteq Id /\ receivers \subseteq Id /\ used \subseteq Id
    /\ next_id \in Id \cup {NoId} /\ excluded \in Id \cup {NoId}
    /\ bus_pc \in {"idle", "reconcile", "reply"}
BusFlags == flags \in [Flag -> BOOLEAN] /\ stopping \in BOOLEAN
BusCounts == sessions \in Nat /\ broadcasts \in Nat /\ joined \in [Id -> Nat] /\ taken \in [Id -> Nat]
Channels == chan \in [Id -> Seq(Event)] /\ \A i \in Id : Len(chan[i]) <= QueueSize
Views == view \in [Id -> Signature]
BusPhase ==
    /\ bus_pc = "idle" => excluded = NoId
    /\ bus_pc = "reply" => excluded # NoId
    /\ bus_pc # "reconcile" => sessions = Cardinality(registry)
    /\ excluded # NoId => chan[excluded] = <<>>
Fresh == next_id # NoId => \A i \in used : i < next_id

BusInv == Ids /\ BusFlags /\ BusCounts /\ Channels /\ Views /\ BusPhase /\ NoGap /\ Fresh

\* The registry is finite: it can be counted.
LEMMA Countable ==
    ASSUME NEW S, S \subseteq Id
    PROVE  Cardinality(S) \in Nat
<1>1. IsFiniteSet(Id)
    BY BoundsAreNat, FS_Interval DEF Id
<1>2. IsFiniteSet(S)
    BY <1>1, FS_Subset
<1> QED BY <1>2, FS_CardinalityType

\* NoId is no subscription's id.
LEMMA NoIdIsNone == NoId \notin Id
BY BoundsAreNat DEF NoId, Id

\* The signature of any health record is one.
LEMMA SignatureType ==
    ASSUME NEW f \in [Flag -> BOOLEAN], NEW n \in Nat
    PROVE  meaningful_health_signature(f, n) \in Signature
<1>1. f["gate"] \in BOOLEAN /\ f["persistence"] \in BOOLEAN
    BY DEF Flag
<1>2. recompute_health_status(f) \in {"Degraded", "Critical"}
    BY DEF recompute_health_status
<1>3. last_error(f) \in Flag \cup {"none"}
    BY DEF last_error, Flag
<1> QED BY <1>1, <1>2, <1>3 DEF meaningful_health_signature, Signature

\* An event goes to whoever has room, at the end of the channel, and to no one else.
LEMMA SendFacts ==
    ASSUME Ids, Channels, BusCounts, NEW e \in Event, NEW ids, ids \subseteq Id,
           try_send_to_subscribers(e, ids)
    PROVE  /\ Channels' /\ broadcasts' = broadcasts + 1
           /\ \A i \in ids \ failing(ids) : Len(chan'[i]) = Len(chan[i]) + 1
           /\ \A i \in Id \ ids : chan'[i] = chan[i]
<1>1. \A i \in Id : chan[i] \in Seq(Event) /\ Len(chan[i]) \in Nat
    BY DEF Channels
<1>2. \A i \in Id : /\ i \in ids \ failing(ids) => /\ chan'[i] \in Seq(Event)
                                                   /\ Len(chan'[i]) = Len(chan[i]) + 1
                                                   /\ Len(chan[i]) < QueueSize
                    /\ i \notin ids \ failing(ids) => chan'[i] = chan[i]
    BY <1>1, BoundsAreNat DEF try_send_to_subscribers, failing
<1>3. chan' \in [Id -> Seq(Event)]
    BY <1>1, <1>2 DEF try_send_to_subscribers
<1>4. \A i \in Id : Len(chan'[i]) <= QueueSize
    BY <1>1, <1>2, BoundsAreNat DEF Channels
<1> QED BY <1>2, <1>3, <1>4 DEF Channels, try_send_to_subscribers

\* One more event sent, one more in the channel.
LEMMA OneMore ==
    ASSUME NEW g \in Nat, NEW l \in Nat, NEW s \in Nat, NEW j \in Nat, g + l = s - j
    PROVE  g + (l + 1) = (s + 1) - j
OBVIOUS

\* emit_event from a handler: whoever cannot take the event leaves the registry
\* and the count is to be reconciled; everyone else has one more event.
LEMMA EmitFacts ==
    ASSUME BusInv, bus_pc = "idle", NEW e \in Event, emit_event(e), UNCHANGED <<joined, taken>>
    PROVE  /\ registry' \subseteq Id /\ excluded' = NoId /\ bus_pc' \in {"idle", "reconcile"}
           /\ bus_pc' = "idle" => registry' = registry
           /\ broadcasts' \in Nat /\ Channels' /\ NoGap'
<1>1. excluded = NoId /\ registry \subseteq Id
    BY DEF BusInv, BusPhase, Ids
<1>2. /\ try_send_to_subscribers(e, registry) /\ registry' = registry \ failing(registry)
      /\ excluded' = NoId /\ bus_pc' \in {"idle", "reconcile"} /\ (bus_pc' = "idle" => failing(registry) = {})
    BY <1>1 DEF emit_event
<1>3. /\ Channels' /\ broadcasts' = broadcasts + 1
      /\ \A i \in registry \ failing(registry) : Len(chan'[i]) = Len(chan[i]) + 1
    BY <1>1, <1>2, SendFacts DEF BusInv
<1>4. ASSUME NEW i \in registry'
      PROVE  taken'[i] + Len(chan'[i]) = broadcasts' - joined'[i]
    <2>1. i \in Id /\ Len(chan'[i]) = Len(chan[i]) + 1
        BY <1>1, <1>2, <1>3
    <2>2. taken[i] + Len(chan[i]) = broadcasts - joined[i]
        BY <1>1, <1>2, <2>1, NoIdIsNone DEF BusInv, NoGap
    <2>3. taken[i] \in Nat /\ Len(chan[i]) \in Nat /\ joined[i] \in Nat /\ broadcasts \in Nat
        BY <2>1 DEF BusInv, BusCounts, Channels
    <2>4. /\ taken'[i] = taken[i] /\ joined'[i] = joined[i] /\ broadcasts' = broadcasts + 1
          /\ Len(chan'[i]) = Len(chan[i]) + 1
        BY <1>3, <2>1
    <2>5. PICK g \in Nat, l \in Nat, s \in Nat, j \in Nat :
              g = taken[i] /\ l = Len(chan[i]) /\ s = broadcasts /\ j = joined[i]
        BY <2>3
    <2>6. g + l = s - j
        BY <2>2, <2>5
    <2>7. g + (l + 1) = (s + 1) - j
        BY <2>6, OneMore
    <2> QED BY <2>4, <2>5, <2>7
<1> QED BY <1>1, <1>2, <1>3, <1>4 DEF BusInv, BusCounts, NoGap

\* A handler's event, with or without a change of the health before it.
LEMMA HandlerEmitInv ==
    ASSUME BusInv, bus_pc = "idle", NEW e \in Event, emit_event(e), BusFlags',
           UNCHANGED <<sessions, next_id, receivers, view, stopping, joined, taken, used>>
    PROVE  BusInv'
<1>1. /\ registry' \subseteq Id /\ excluded' = NoId /\ bus_pc' \in {"idle", "reconcile"}
      /\ bus_pc' = "idle" => registry' = registry
      /\ broadcasts' \in Nat /\ Channels' /\ NoGap'
    BY EmitFacts
<1>2. Ids' /\ BusCounts' /\ Views' /\ Fresh'
    BY <1>1 DEF BusInv, Ids, BusCounts, Views, Fresh
<1>3. BusPhase'
    BY <1>1 DEF BusInv, BusPhase
<1> QED BY <1>1, <1>2, <1>3 DEF BusInv

\* mark_persistence_*, mark_gate_*, power_error, retry_policy_error.
LEMMA mark_health_Inv ==
    ASSUME BusInv, NEW f \in Flag, NEW b \in BOOLEAN, mark_health(f, b)
    PROVE  BusInv'
<1>1. flags' = [flags EXCEPT ![f] = b] /\ bus_pc = "idle"
      /\ UNCHANGED <<sessions, next_id, receivers, view, stopping, joined, taken, used>>
    BY DEF mark_health, mutate_health_and_maybe_emit, Ready
<1>2. BusFlags'
    BY <1>1 DEF BusInv, BusFlags
<1>3. CASE UNCHANGED <<chan, broadcasts, registry, bus_pc, excluded>>
    BY <1>1, <1>2, <1>3 DEF BusInv, Ids, BusCounts, Channels, Views, BusPhase, NoGap, Fresh
<1>4. CASE emit_event(HealthUpdated(meaningful_health_signature(flags', sessions)))
    <2>1. HealthUpdated(meaningful_health_signature(flags', sessions)) \in Event
        BY <1>2, SignatureType DEF BusInv, BusFlags, BusCounts, HealthUpdated, Event
    <2> QED BY <1>1, <1>2, <1>4, <2>1, HandlerEmitInv
<1> QED BY <1>3, <1>4 DEF mark_health, mutate_health_and_maybe_emit

\* Every other event.
LEMMA publish_Inv ==
    ASSUME BusInv, publish
    PROVE  BusInv'
<1>1. BusFlags' /\ bus_pc = "idle"
    BY DEF BusInv, BusFlags, publish, Ready
<1>2. Other \in Event
    BY DEF Other, Event
<1> QED BY <1>1, <1>2, HandlerEmitInv DEF publish

\* A round of the reconciliation publishes the size of the registry it found to
\* all but the subscription being made, and may lose some in turn.
LEMMA reconcile_Inv ==
    ASSUME BusInv, reconcile_subscriber_registry
    PROVE  BusInv'
<1> DEFINE others == registry \ {excluded}
           e == HealthUpdated(meaningful_health_signature(flags, sessions'))
<1>1. others \subseteq Id /\ sessions' \in Nat /\ excluded \in Id \cup {NoId}
    BY Countable DEF BusInv, Ids, reconcile_subscriber_registry
<1>2. e \in Event
    BY <1>1, SignatureType DEF BusInv, BusFlags, HealthUpdated, Event
<1>3. /\ try_send_to_subscribers(e, others) /\ registry' = registry \ failing(others)
      /\ UNCHANGED <<flags, next_id, receivers, view, bus_pc, excluded, stopping, joined, taken, used>>
      /\ bus_pc = "reconcile"
    BY DEF reconcile_subscriber_registry
<1>4. /\ Channels' /\ broadcasts' = broadcasts + 1
      /\ \A i \in others \ failing(others) : Len(chan'[i]) = Len(chan[i]) + 1
      /\ \A i \in Id \ others : chan'[i] = chan[i]
    <2> HIDE DEF others, e
    <2> QED BY <1>1, <1>2, <1>3, SendFacts DEF BusInv
<1>5. Ids' /\ BusFlags' /\ BusCounts' /\ Views' /\ Fresh'
    BY <1>1, <1>3, <1>4 DEF BusInv, Ids, BusFlags, BusCounts, Views, Fresh
<1>6. BusPhase'
    BY <1>1, <1>3, <1>4 DEF BusInv, BusPhase
<1>7. ASSUME NEW i \in registry' \ {excluded'}
      PROVE  taken'[i] + Len(chan'[i]) = broadcasts' - joined'[i]
    <2>1. i \in Id /\ i \in others \ failing(others)
        BY <1>1, <1>3
    <2>2. taken[i] + Len(chan[i]) = broadcasts - joined[i]
        BY <2>1 DEF BusInv, NoGap
    <2>3. taken[i] \in Nat /\ Len(chan[i]) \in Nat /\ joined[i] \in Nat /\ broadcasts \in Nat
        BY <2>1 DEF BusInv, BusCounts, Channels
    <2>4. Len(chan'[i]) = Len(chan[i]) + 1 /\ broadcasts' = broadcasts + 1
        BY <1>4, <2>1
    <2>5. taken'[i] = taken[i] /\ joined'[i] = joined[i]
        BY <1>3
    <2> HIDE DEF others, e, BusInv
    <2>6. PICK g \in Nat, l \in Nat, s \in Nat, j \in Nat :
              g = taken[i] /\ l = Len(chan[i]) /\ s = broadcasts /\ j = joined[i]
        BY <2>3
    <2>7. g + l = s - j
        BY <2>2, <2>6
    <2>8. g + (l + 1) = (s + 1) - j
        BY <2>7, OneMore
    <2> QED BY <2>4, <2>5, <2>6, <2>8
<1>8. NoGap'
    BY <1>7 DEF NoGap
<1> QED BY <1>4, <1>5, <1>6, <1>8 DEF BusInv

\* The count has settled.
LEMMA reconciled_Inv ==
    ASSUME BusInv, reconciled
    PROVE  BusInv'
<1>1. Ids' /\ BusPhase'
    BY DEF BusInv, Ids, BusPhase, reconciled
<1>2. BusFlags' /\ BusCounts' /\ Channels' /\ Views' /\ NoGap' /\ Fresh'
    BY DEF BusInv, BusFlags, BusCounts, Channels, Views, NoGap, Fresh, reconciled
<1> QED BY <1>1, <1>2 DEF BusInv

\* A subscription is made with a fresh id and an empty channel.
LEMMA subscribe_Inv ==
    ASSUME BusInv, handle_subscribe_events
    PROVE  BusInv'
<1>1. next_id \in Id /\ excluded = NoId /\ excluded' = next_id /\ bus_pc' = "reconcile"
    BY DEF BusInv, Ids, BusPhase, handle_subscribe_events, Ready
<1>2. next_id' \in Id \cup {NoId} /\ (next_id' # NoId => next_id' > next_id)
    BY <1>1, BoundsAreNat DEF handle_subscribe_events, checked_add, Id
<1>3. Ids'
    BY <1>1, <1>2 DEF BusInv, Ids, handle_subscribe_events
<1>4. BusFlags' /\ BusCounts' /\ Views'
    BY DEF BusInv, BusFlags, BusCounts, Views, handle_subscribe_events
<1>5. Channels' /\ chan'[next_id] = <<>>
    <2>1. chan' = [chan EXCEPT ![next_id] = <<>>] /\ <<>> \in Seq(Event) /\ Len(<<>>) = 0
        BY DEF handle_subscribe_events
    <2> QED BY <1>1, <2>1, BoundsAreNat DEF BusInv, Channels
<1>6. BusPhase'
    BY <1>1, <1>5, NoIdIsNone DEF BusPhase
<1>7. ASSUME NEW i \in registry' \ {excluded'}
      PROVE  taken'[i] + Len(chan'[i]) = broadcasts' - joined'[i]
    <2>1. i \in registry /\ i \in Id /\ i # next_id /\ i # excluded
        BY <1>1, NoIdIsNone DEF BusInv, Ids, handle_subscribe_events
    <2>2. chan'[i] = chan[i]
        BY <2>1 DEF BusInv, Channels, handle_subscribe_events
    <2> QED BY <2>1, <2>2 DEF BusInv, NoGap, handle_subscribe_events
<1>8. NoGap'
    BY <1>7 DEF NoGap
<1>9. Fresh'
    BY <1>1, <1>2 DEF BusInv, Ids, Fresh, Id, handle_subscribe_events
<1> QED BY <1>3, <1>4, <1>5, <1>6, <1>8, <1>9 DEF BusInv

\* The reply carries the snapshot; from here on the subscription counts events.
LEMMA subscribe_reply_Inv ==
    ASSUME BusInv, subscribe_reply
    PROVE  BusInv'
<1>1. excluded \in Id /\ chan[excluded] = <<>> /\ bus_pc = "reply" /\ broadcasts \in Nat
    BY NoIdIsNone DEF BusInv, Ids, BusPhase, BusCounts, subscribe_reply
<1>2. Ids' /\ BusFlags' /\ Channels' /\ Fresh' /\ BusPhase'
    BY <1>1 DEF BusInv, Ids, BusFlags, Channels, Fresh, BusPhase, subscribe_reply
<1>3. BusCounts'
    BY <1>1 DEF BusInv, BusCounts, subscribe_reply
<1>4. Views'
    BY <1>1, SignatureType DEF BusInv, Views, BusFlags, BusCounts, subscribe_reply, initial_snapshot, health
<1>5. ASSUME NEW i \in registry'
      PROVE  taken'[i] + Len(chan'[i]) = broadcasts' - joined'[i]
    <2>1. i \in Id /\ i \in registry
        BY DEF BusInv, Ids, subscribe_reply
    <2>2. CASE i = excluded
        <3>1. taken'[i] = 0 /\ joined'[i] = broadcasts /\ broadcasts' = broadcasts /\ chan'[i] = <<>>
            BY <1>1, <2>2 DEF BusInv, BusCounts, subscribe_reply
        <3> QED BY <1>1, <3>1
    <2>3. CASE i # excluded
        BY <2>1, <2>3 DEF BusInv, NoGap, BusCounts, subscribe_reply
    <2> QED BY <2>2, <2>3
<1>6. NoGap'
    BY <1>5 DEF NoGap
<1> QED BY <1>2, <1>3, <1>4, <1>6 DEF BusInv

\* A subscription whose caller is gone is taken back.
LEMMA subscribe_rollback_Inv ==
    ASSUME BusInv, subscribe_rollback
    PROVE  BusInv'
<1>1. Ids' /\ BusFlags' /\ BusCounts' /\ Channels' /\ Views' /\ Fresh'
    BY DEF BusInv, Ids, BusFlags, BusCounts, Channels, Views, Fresh, subscribe_rollback
<1>2. BusPhase' /\ NoGap'
    BY DEF BusInv, BusPhase, NoGap, subscribe_rollback
<1> QED BY <1>1, <1>2 DEF BusInv

\* An unsubscription, known or unknown.
LEMMA unsubscribe_Inv ==
    ASSUME BusInv, NEW i \in Id, handle_unsubscribe_events(i)
    PROVE  BusInv'
<1>1. Ids' /\ BusFlags' /\ BusCounts' /\ Channels' /\ Views' /\ Fresh'
    BY DEF BusInv, Ids, BusFlags, BusCounts, Channels, Views, Fresh, handle_unsubscribe_events
<1>2. BusPhase' /\ NoGap'
    BY DEF BusInv, BusPhase, NoGap, handle_unsubscribe_events, Ready
<1> QED BY <1>1, <1>2 DEF BusInv

\* Stop drops all subscribers and the count with them.
LEMMA handle_stop_Inv ==
    ASSUME BusInv, handle_stop
    PROVE  BusInv'
<1>1. Ids' /\ BusFlags' /\ BusCounts' /\ Channels' /\ Views' /\ Fresh' /\ NoGap'
    BY DEF BusInv, Ids, BusFlags, BusCounts, Channels, Views, Fresh, NoGap, handle_stop
<1>2. BusPhase'
    BY FS_EmptySet DEF BusInv, BusPhase, handle_stop, Ready
<1> QED BY <1>1, <1>2 DEF BusInv

\* A subscriber reads the next event of its channel.
LEMMA receive_Inv ==
    ASSUME BusInv, NEW i \in Id, receive(i)
    PROVE  BusInv'
<1>1. chan[i] \in Seq(Event) /\ chan[i] # <<>> /\ Len(chan[i]) <= QueueSize
    BY DEF BusInv, Channels, receive
<1>2. /\ Head(chan[i]) \in Event /\ Tail(chan[i]) \in Seq(Event) /\ Len(chan[i]) \in Nat
      /\ Len(Tail(chan[i])) = Len(chan[i]) - 1
    BY <1>1
<1>3. Ids' /\ BusFlags' /\ Fresh'
    BY DEF BusInv, Ids, BusFlags, Fresh, receive
<1>4. BusCounts'
    BY DEF BusInv, BusCounts, receive
<1>5. Channels'
    BY <1>1, <1>2, BoundsAreNat DEF BusInv, Channels, receive
<1>6. Views'
    <2>1. Head(chan[i]).kind = "health" => Head(chan[i]).health \in Signature
        BY <1>2 DEF Event
    <2> QED BY <2>1 DEF BusInv, Views, receive
<1>7. BusPhase'
    BY <1>1 DEF BusInv, BusPhase, Channels, Ids, receive
<1>8. ASSUME NEW j \in registry' \ {excluded'}
      PROVE  taken'[j] + Len(chan'[j]) = broadcasts' - joined'[j]
    <2>1. j \in Id /\ taken[j] \in Nat /\ Len(chan[j]) \in Nat /\ taken[j] + Len(chan[j]) = broadcasts - joined[j]
        BY DEF BusInv, Ids, BusCounts, Channels, NoGap, receive
    <2>2. CASE j = i
        BY <1>2, <2>1, <2>2 DEF BusInv, BusCounts, Channels, receive
    <2>3. CASE j # i
        BY <2>1, <2>3 DEF BusInv, BusCounts, Channels, receive
    <2> QED BY <2>2, <2>3
<1>9. NoGap'
    BY <1>8 DEF NoGap
<1> QED BY <1>3, <1>4, <1>5, <1>6, <1>7, <1>9 DEF BusInv

\* A subscriber goes away.
LEMMA disconnect_Inv ==
    ASSUME BusInv, NEW i \in Id, disconnect(i)
    PROVE  BusInv'
BY DEF BusInv, Ids, BusFlags, BusCounts, Channels, Views, BusPhase, NoGap, Fresh, disconnect

\* Every step preserves the inductive invariant.
LEMMA BusStep ==
    ASSUME BusInv, [BusNext]_bus_vars
    PROVE  BusInv'
<1>1. CASE UNCHANGED bus_vars
    BY <1>1 DEF BusInv, Ids, BusFlags, BusCounts, Channels, Views, BusPhase, NoGap, Fresh, bus_vars
<1> QED BY <1>1, mark_health_Inv, publish_Inv, reconcile_Inv, reconciled_Inv, subscribe_Inv,
           subscribe_reply_Inv, subscribe_rollback_Inv, unsubscribe_Inv, receive_Inv, disconnect_Inv,
           handle_stop_Inv DEF BusNext, subscribe_refused

\* The inductive invariant holds in every state of the event bus.
THEOREM BusInvariance == BusSpec => []BusInv
<1>1. BusInit => BusInv
    <2> SUFFICES ASSUME BusInit PROVE BusInv
        OBVIOUS
    <2>1. Ids
        BY BoundsAreNat DEF BusInit, Ids, Id
    <2>2. BusFlags
        BY DEF BusInit, BusFlags
    <2>3. BusCounts
        BY DEF BusInit, BusCounts
    <2>4. Channels
        <3>1. <<>> \in Seq(Event) /\ Len(<<>>) = 0
            OBVIOUS
        <3> QED BY <3>1, BoundsAreNat DEF BusInit, Channels
    <2>5. Views
        BY <2>2, SignatureType DEF BusInit, BusFlags, Views
    <2>6. BusPhase /\ NoGap /\ Fresh
        BY FS_EmptySet DEF BusInit, BusPhase, NoGap, Fresh
    <2> QED BY <2>1, <2>2, <2>3, <2>4, <2>5, <2>6 DEF BusInv
<1> QED BY <1>1, BusStep, PTL DEF BusSpec

\* Types, and channels that never hold more than their room.
THEOREM BusTypeCorrect == BusSpec => []BusTypeOK
<1>1. BusInv => BusTypeOK
    BY DEF BusInv, BusTypeOK, Ids, BusFlags, BusCounts, Channels, Views, Event
<1> QED BY <1>1, BusInvariance, PTL

\* active_tray_sessions is exact between handlers, for any number of subscribers
\* lost while it was being published.
THEOREM CountExact == BusSpec => []CountIsRegistry
<1>1. BusInv => CountIsRegistry
    BY DEF BusInv, BusPhase, CountIsRegistry
<1> QED BY <1>1, BusInvariance, PTL

\* No registered subscriber misses an event, however slow, with whatever room.
THEOREM Gapless == BusSpec => []NoGap
<1>1. BusInv => NoGap
    BY DEF BusInv
<1> QED BY <1>1, BusInvariance, PTL

\* A subscription id is given out once.
THEOREM FreshIds == BusSpec => IdsNeverReused
<1>1. BusInv /\ [BusNext]_bus_vars => [\A i \in registry' \ registry : i \notin used]_bus_vars
    <2> SUFFICES ASSUME BusInv, BusNext, NEW i \in registry' \ registry
                 PROVE  i \notin used
        OBVIOUS
    <2>1. handle_subscribe_events
        BY DEF BusNext, mark_health, mutate_health_and_maybe_emit, publish, emit_event,
               reconcile_subscriber_registry, reconciled, subscribe_refused, subscribe_reply,
               subscribe_rollback, handle_unsubscribe_events, receive, disconnect, handle_stop, bus_vars
    <2>2. i = next_id /\ next_id # NoId
        BY <2>1 DEF handle_subscribe_events
    <2>3. next_id \in Nat
        BY <2>2 DEF BusInv, Ids, Id
    <2> QED BY <2>2, <2>3 DEF BusInv, Fresh
<1> QED BY <1>1, BusInvariance, PTL DEF BusSpec, IdsNeverReused

\* Nobody is dropped from the registry but for a full channel, a receiver that is
\* gone, a request of its own or the stop.
THEOREM Dropped == BusSpec => DroppedForCause
<1>1. ASSUME BusNext, NEW i \in registry \ registry'
      PROVE  \/ i \notin receivers \/ i \notin receivers' \/ Len(chan[i]) >= QueueSize \/ stopping'
             \/ (bus_pc = "idle" /\ UNCHANGED <<chan, broadcasts>>)
    <2>1. CASE publish \/ \E f \in Flag, b \in BOOLEAN : mark_health(f, b)
        BY <1>1, <2>1 DEF publish, mark_health, mutate_health_and_maybe_emit, emit_event, failing
    <2>2. CASE reconcile_subscriber_registry
        BY <1>1, <2>2 DEF reconcile_subscriber_registry, failing
    <2>3. CASE subscribe_rollback \/ handle_stop
        BY <1>1, <2>3 DEF subscribe_rollback, handle_stop
    <2>4. CASE \E j \in Id : handle_unsubscribe_events(j) \/ receive(j) \/ disconnect(j)
        BY <1>1, <2>4 DEF handle_unsubscribe_events, receive, disconnect, Ready
    <2>5. CASE reconciled \/ handle_subscribe_events \/ subscribe_refused \/ subscribe_reply
        BY <1>1, <2>5 DEF reconciled, handle_subscribe_events, subscribe_refused, subscribe_reply, bus_vars
    <2> QED BY <1>1, <2>1, <2>2, <2>3, <2>4, <2>5 DEF BusNext, bus_vars
<1>2. [BusNext]_bus_vars => [\A i \in registry \ registry' :
                            \/ i \notin receivers \/ i \notin receivers'
                            \/ Len(chan[i]) >= QueueSize
                            \/ stopping'
                            \/ (bus_pc = "idle" /\ UNCHANGED <<chan, broadcasts>>)]_bus_vars
    BY <1>1
<1> QED BY <1>2, PTL DEF BusSpec, DroppedForCause

\* The registry of subscribers is exact, for any ids, room and number of them.
THEOREM ExactRegistry == BusSpec => RegistryExact
BY BusTypeCorrect, CountExact, Gapless, FreshIds, Dropped, PTL DEF RegistryExact

(* A subscriber's picture of the health, also in the middle of a handler:   *)
(* HealthViewCurrent holds at every moment of whoever is registered and is *)
(* not just being subscribed.                                              *)
ViewsCurrent == \A i \in registry \ {excluded} : ends_with(chan[i], view[i], health)

\* The event that was sent last is the last one read.
LEMMA LastSays ==
    ASSUME NEW s \in Seq(Event), NEW v, NEW h, HealthUpdated(h) \in Event
    PROVE  ends_with(Append(s, HealthUpdated(h)), v, h)
<1> DEFINE e == HealthUpdated(h)
           t == Append(s, e)
<1>1. Len(s) \in Nat /\ Len(t) = Len(s) + 1
    BY DEF t
<1>2. t[Len(s) + 1] = e
    BY DEF t
<1> HIDE DEF t
<1>3. Len(s) + 1 \in 1..Len(t) /\ \A j \in (Len(s) + 1 + 1)..Len(t) : t[j].kind # "health"
    BY <1>1
<1>4. ends_with(t, v, h)
    BY <1>2, <1>3 DEF ends_with
<1> QED BY <1>4 DEF t

\* An event of another kind leaves the picture as it was.
LEMMA OtherSays ==
    ASSUME NEW s \in Seq(Event), NEW v, NEW h, ends_with(s, v, h)
    PROVE  ends_with(Append(s, Other), v, h)
<1> DEFINE t == Append(s, Other)
<1>1. Len(s) \in Nat /\ Len(t) = Len(s) + 1
    BY DEF t
<1>2. t[Len(s) + 1] = Other /\ \A k \in 1..Len(s) : t[k] = s[k]
    BY DEF t
<1>3. Other.kind # "health"
    BY DEF Other
<1> HIDE DEF t
<1>4. CASE v = h /\ \A k \in 1..Len(s) : s[k].kind # "health"
    <2>1. \A k \in 1..Len(t) : t[k].kind # "health"
        BY <1>1, <1>2, <1>3, <1>4
    <2> QED BY <1>4, <2>1 DEF ends_with, t
<1>5. CASE \E k \in 1..Len(s) : s[k] = HealthUpdated(h) /\ \A j \in (k + 1)..Len(s) : s[j].kind # "health"
    <2>1. PICK k \in 1..Len(s) : s[k] = HealthUpdated(h) /\ \A j \in (k + 1)..Len(s) : s[j].kind # "health"
        BY <1>5
    <2>2. k \in 1..Len(t) /\ t[k] = HealthUpdated(h)
        BY <1>1, <1>2, <2>1
    <2>3. \A j \in (k + 1)..Len(t) : t[j].kind # "health"
        BY <1>1, <1>2, <1>3, <2>1
    <2> QED BY <2>2, <2>3 DEF ends_with, t
<1> QED BY <1>4, <1>5 DEF ends_with

\* Reading the next event takes it from the channel into the picture.
LEMMA ReadSays ==
    ASSUME NEW s \in Seq(Event), s # <<>>, NEW v, NEW h, ends_with(s, v, h)
    PROVE  ends_with(Tail(s), IF Head(s).kind = "health" THEN Head(s).health ELSE v, h)
<1> DEFINE t == Tail(s)
           w == IF Head(s).kind = "health" THEN Head(s).health ELSE v
<1>1. Len(s) \in Nat /\ Len(s) > 0 /\ Len(t) = Len(s) - 1 /\ Head(s) = s[1]
    BY DEF t
<1>2. \A k \in 1..Len(t) : t[k] = s[k + 1]
    BY DEF t
<1> HIDE DEF t
<1>3. CASE v = h /\ \A k \in 1..Len(s) : s[k].kind # "health"
    <2>1. w = h
        BY <1>1, <1>3
    <2>2. \A k \in 1..Len(t) : t[k].kind # "health"
        BY <1>1, <1>2, <1>3
    <2> HIDE DEF w
    <2>3. ends_with(t, w, h)
        BY <2>1, <2>2 DEF ends_with
    <2> QED BY <2>3 DEF t, w
<1>4. CASE \E k \in 1..Len(s) : s[k] = HealthUpdated(h) /\ \A j \in (k + 1)..Len(s) : s[j].kind # "health"
    <2>1. PICK k \in 1..Len(s) : s[k] = HealthUpdated(h) /\ \A j \in (k + 1)..Len(s) : s[j].kind # "health"
        BY <1>4
    <2>2. CASE k = 1
        <3>1. w = h
            BY <1>1, <2>1, <2>2 DEF HealthUpdated
        <3>2. \A j \in 1..Len(t) : t[j].kind # "health"
            BY <1>1, <1>2, <2>1, <2>2
        <3> HIDE DEF w
        <3>3. ends_with(t, w, h)
            BY <3>1, <3>2 DEF ends_with
        <3> QED BY <3>3 DEF t, w
    <2>3. CASE k # 1
        <3>1. k - 1 \in 1..Len(t) /\ t[k - 1] = HealthUpdated(h)
            BY <1>1, <1>2, <2>1, <2>3
        <3>2. \A j \in ((k - 1) + 1)..Len(t) : t[j].kind # "health"
            BY <1>1, <1>2, <2>1, <2>3
        <3> HIDE DEF w
        <3>3. ends_with(t, w, h)
            BY <3>1, <3>2 DEF ends_with
        <3> QED BY <3>3 DEF t, w
    <2> QED BY <2>2, <2>3
<1> QED BY <1>3, <1>4 DEF ends_with

\* Whoever stays after a health event has been sent to ids has it as its last.
LEMMA SentSays ==
    ASSUME BusInv, NEW ids, ids \subseteq Id, NEW h, HealthUpdated(h) \in Event,
           try_send_to_subscribers(HealthUpdated(h), ids)
    PROVE  \A i \in ids \ failing(ids) : ends_with(chan'[i], view[i], h)
<1> SUFFICES ASSUME NEW i \in ids \ failing(ids)
             PROVE  ends_with(chan'[i], view[i], h)
    OBVIOUS
<1>1. chan[i] \in Seq(Event) /\ chan'[i] = Append(chan[i], HealthUpdated(h))
    BY DEF BusInv, Channels, try_send_to_subscribers
<1> QED BY <1>1, LastSays

\* A change of the health is broadcast, or it is none that a subscriber sees.
LEMMA mark_health_Views ==
    ASSUME BusInv, ViewsCurrent, NEW f \in Flag, NEW b \in BOOLEAN, mark_health(f, b)
    PROVE  ViewsCurrent'
<1> DEFINE after == meaningful_health_signature(flags', sessions)
<1>1. excluded = NoId /\ registry \subseteq Id /\ NoId \notin Id
    BY NoIdIsNone DEF BusInv, BusPhase, Ids, mark_health, Ready
<1>2. UNCHANGED <<sessions, view>> /\ health' = after /\ flags' = [flags EXCEPT ![f] = b]
    BY DEF mark_health, mutate_health_and_maybe_emit, health
<1>3. CASE health = after /\ UNCHANGED <<chan, broadcasts, registry, bus_pc, excluded>>
    BY <1>2, <1>3 DEF ViewsCurrent
<1>4. CASE emit_event(HealthUpdated(after))
    <2>1. after \in Signature
        <3>1. flags' \in [Flag -> BOOLEAN] /\ sessions \in Nat
            BY <1>2 DEF BusInv, BusFlags, BusCounts
        <3> QED BY <3>1, SignatureType
    <2> HIDE DEF after
    <2>2. HealthUpdated(after) \in Event
        BY <2>1 DEF HealthUpdated, Event
    <2>3. try_send_to_subscribers(HealthUpdated(after), registry) /\ registry' = registry \ failing(registry)
        BY <1>4 DEF emit_event
    <2>4. \A i \in registry' : ends_with(chan'[i], view[i], after)
        BY <1>1, <2>2, <2>3, SentSays
    <2> QED BY <1>2, <2>4 DEF ViewsCurrent
<1> QED BY <1>3, <1>4 DEF mark_health, mutate_health_and_maybe_emit

\* Another event changes no picture.
LEMMA publish_Views ==
    ASSUME BusInv, ViewsCurrent, publish
    PROVE  ViewsCurrent'
<1>1. excluded = NoId /\ registry \subseteq Id /\ NoId \notin Id
    BY NoIdIsNone DEF BusInv, BusPhase, Ids, publish, Ready
<1>2. /\ UNCHANGED <<flags, sessions, view>> /\ registry' = registry \ failing(registry)
      /\ try_send_to_subscribers(Other, registry)
    BY DEF publish, emit_event
<1>3. ASSUME NEW i \in registry \ failing(registry)
      PROVE  ends_with(chan'[i], view[i], health)
    <2>1. chan[i] \in Seq(Event) /\ chan'[i] = Append(chan[i], Other)
        BY <1>1, <1>2 DEF BusInv, Channels, try_send_to_subscribers
    <2>2. ends_with(chan[i], view[i], health)
        BY <1>1 DEF ViewsCurrent
    <2> QED BY <2>1, <2>2, OtherSays
<1> QED BY <1>2, <1>3 DEF ViewsCurrent, health

\* The new count reaches everyone but the subscription being made.
LEMMA reconcile_Views ==
    ASSUME BusInv, ViewsCurrent, reconcile_subscriber_registry
    PROVE  ViewsCurrent'
<1> DEFINE others == registry \ {excluded}
           after == meaningful_health_signature(flags, sessions')
<1>1. /\ try_send_to_subscribers(HealthUpdated(after), others) /\ registry' = registry \ failing(others)
      /\ UNCHANGED <<flags, view, excluded>> /\ health' = after
    BY DEF reconcile_subscriber_registry, health
<1>2. others \subseteq Id /\ after \in Signature
    <2>1. registry \subseteq Id /\ sessions' \in Nat /\ flags \in [Flag -> BOOLEAN]
        BY Countable DEF BusInv, Ids, BusFlags, reconcile_subscriber_registry
    <2> QED BY <2>1, SignatureType
<1>3. registry' \ {excluded'} = others \ failing(others)
    BY <1>1
<1> HIDE DEF others, after
<1>4. HealthUpdated(after) \in Event
    BY <1>2 DEF HealthUpdated, Event
<1>5. \A i \in others \ failing(others) : ends_with(chan'[i], view[i], after)
    BY <1>1, <1>2, <1>4, SentSays
<1> QED BY <1>1, <1>3, <1>5 DEF ViewsCurrent

\* The snapshot is the health of this moment, and nothing is on the way to it.
LEMMA subscribe_reply_Views ==
    ASSUME BusInv, ViewsCurrent, subscribe_reply
    PROVE  ViewsCurrent'
<1>1. excluded \in Id /\ chan[excluded] = <<>> /\ registry \subseteq Id
    BY NoIdIsNone DEF BusInv, Ids, BusPhase, subscribe_reply
<1>2. UNCHANGED <<flags, sessions, registry, chan>> /\ view' = [view EXCEPT ![excluded] = health] /\ health' = health
    BY DEF subscribe_reply, initial_snapshot, health
<1>3. ASSUME NEW i \in registry
      PROVE  ends_with(chan[i], view'[i], health)
    <2>1. CASE i = excluded
        <3>1. chan[i] = <<>> /\ view'[i] = health /\ Len(<<>>) = 0
            BY <1>1, <1>2, <2>1 DEF BusInv, Views
        <3> QED BY <3>1 DEF ends_with
    <2>2. CASE i # excluded
        BY <1>1, <1>2, <2>2 DEF ViewsCurrent, BusInv, Views
    <2> QED BY <2>1, <2>2
<1> QED BY <1>2, <1>3 DEF ViewsCurrent

\* A subscriber reads the next event.
LEMMA receive_Views ==
    ASSUME BusInv, ViewsCurrent, NEW i \in Id, receive(i)
    PROVE  ViewsCurrent'
<1>1. /\ chan[i] \in Seq(Event) /\ chan[i] # <<>> /\ chan'[i] = Tail(chan[i])
      /\ view'[i] = IF Head(chan[i]).kind = "health" THEN Head(chan[i]).health ELSE view[i]
      /\ \A j \in Id \ {i} : chan'[j] = chan[j] /\ view'[j] = view[j]
      /\ UNCHANGED <<flags, sessions, registry, excluded>> /\ registry \subseteq Id
    BY DEF BusInv, Channels, Views, Ids, receive
<1>2. health' = health
    BY <1>1 DEF health
<1>3. ASSUME NEW j \in registry \ {excluded}
      PROVE  ends_with(chan'[j], view'[j], health)
    <2>1. ends_with(chan[j], view[j], health)
        BY DEF ViewsCurrent
    <2>2. CASE j = i
        BY <1>1, <2>1, <2>2, ReadSays
    <2>3. CASE j # i
        BY <1>1, <2>1, <2>3
    <2> QED BY <2>2, <2>3
<1> QED BY <1>1, <1>2, <1>3 DEF ViewsCurrent

\* The other steps change neither the health nor what is on the way to whoever
\* stays; a stop leaves nobody.
LEMMA quiet_Views ==
    ASSUME BusInv, ViewsCurrent,
           \/ reconciled \/ handle_subscribe_events \/ subscribe_refused \/ subscribe_rollback \/ handle_stop
           \/ \E i \in Id : handle_unsubscribe_events(i) \/ disconnect(i)
           \/ UNCHANGED bus_vars
    PROVE  ViewsCurrent'
<1>1. CASE handle_stop
    BY <1>1 DEF handle_stop, ViewsCurrent
<1>2. CASE handle_subscribe_events
    <2>1. excluded = NoId /\ next_id \in Id /\ registry \subseteq Id /\ NoId \notin Id
        BY <1>2, NoIdIsNone DEF BusInv, Ids, BusPhase, handle_subscribe_events, Ready
    <2>2. /\ registry' \ {excluded'} \subseteq registry \ {excluded} /\ UNCHANGED <<flags, sessions, view>>
          /\ \A i \in registry' \ {excluded'} : chan'[i] = chan[i]
        BY <1>2, <2>1 DEF BusInv, Channels, handle_subscribe_events
    <2> QED BY <2>2 DEF ViewsCurrent, health
<1>3. CASE reconciled \/ subscribe_refused \/ UNCHANGED bus_vars
    BY <1>3 DEF reconciled, subscribe_refused, bus_vars, ViewsCurrent, health
<1>4. CASE subscribe_rollback
    BY <1>4 DEF subscribe_rollback, ViewsCurrent, health
<1>5. CASE \E i \in Id : handle_unsubscribe_events(i) \/ disconnect(i)
    BY <1>5 DEF handle_unsubscribe_events, disconnect, ViewsCurrent, health
<1> QED BY <1>1, <1>2, <1>3, <1>4, <1>5

(* Snapshot and events together give every registered subscriber the       *)
(* current health once it has read them, for any number of subscribers and *)
(* any room (mutate_health_and_maybe_emit, reconcile_subscriber_registry). *)
THEOREM HealthCurrent == BusSpec => []HealthViewCurrent
<1>1. BusInit => ViewsCurrent
    BY DEF BusInit, ViewsCurrent
<1>2. BusInv /\ ViewsCurrent /\ [BusNext]_bus_vars => ViewsCurrent'
    BY mark_health_Views, publish_Views, reconcile_Views, subscribe_reply_Views, receive_Views, quiet_Views
    DEF BusNext
<1>3. BusInv /\ ViewsCurrent => HealthViewCurrent
    <2> SUFFICES ASSUME BusInv, ViewsCurrent, bus_pc = "idle", NEW i \in registry
                 PROVE  ends_with(chan[i], view[i], health)
        BY DEF HealthViewCurrent
    <2>1. excluded = NoId /\ i \in Id
        BY DEF BusInv, BusPhase, Ids
    <2> QED BY <2>1, NoIdIsNone DEF ViewsCurrent
<1> HIDE DEF BusInv, ViewsCurrent
<1> QED BY <1>1, <1>2, <1>3, BusInvariance, PTL DEF BusSpec

-----------------------------------------------------------------------------
(* NamedPipe *)
PipeTypes ==
    /\ process \in {"up", "aborted"}
    /\ pc \in [Thread -> InCall \cup {"idle", "connection"}]
    /\ op \in [Thread -> {"connect", "prefix", "body", "write"}]
    /\ io \in [Thread -> {"none", "pending", "done", "aborted", "broken"}]
    /\ client \in [Thread -> {"none", "connected", "gone"}]
PipeFlags == open \in [Thread -> BOOLEAN] /\ impersonating \in [Thread -> BOOLEAN]
         /\ admin \in [Thread -> BOOLEAN] /\ cancel_event \in BOOLEAN
PipeCounters ==
    /\ total \in [Thread -> Nat] /\ transferred \in [Thread -> Nat]
    /\ sent \in [Thread -> Nat] /\ got \in [Thread -> Nat]
Clients == token \in [Thread -> Token] /\ declared \in [Thread -> Length]

(* The points of a read, a write or a connect, and those of the handshake  *)
(* after the prefix has been read.                                         *)
InIo == {"wait", "cancelling", "await_terminal", "completed"}
PastPrefix == {"validate", "impersonate", "extract", "revert"}

(* What is in hand at each point, and who is at the other end. *)
Points ==
    \A t \in Thread :
        /\ pc[t] \in {"connect", "transfer", "connection"} \cup PastPrefix => io[t] = "none"
        /\ pc[t] = "connect" => op[t] = "connect"
        /\ pc[t] \in {"transfer", "connection"} => op[t] # "connect"
        /\ pc[t] \in PastPrefix => op[t] = "prefix"
        /\ pc[t] # "idle" /\ (op[t] # "connect" \/ io[t] = "done") => client[t] # "none"
        /\ pc[t] = "idle" => client[t] = "none"
Closed == \A t \in Thread : open[t] => pc[t] # "idle"

(* What was read is what is counted plus what is about to be. *)
Pending(t) == IF io[t] = "done" THEN transferred[t] ELSE 0
BytesOf(t) ==
    /\ got[t] <= sent[t] /\ sent[t] <= PREFIX_BYTES + BodyBytes
    /\ total[t] < Target(t)
    /\ pc[t] = "idle" \/ op[t] = "connect" => got[t] = 0 /\ total[t] = 0
    /\ client[t] = "none" => sent[t] = 0
    /\ io[t] = "done" /\ op[t] # "connect" => /\ transferred[t] > 0
                                              /\ transferred[t] <= Target(t) - total[t]
    /\ pc[t] # "idle" /\ io[t] = "pending" /\ op[t] \in {"prefix", "body"} => got[t] = sent[t]
    /\ pc[t] \in InIo \cup {"transfer"} =>
         /\ op[t] = "prefix" => got[t] = total[t] + Pending(t)
         /\ op[t] = "body" => got[t] = PREFIX_BYTES + total[t] + Pending(t)
    /\ pc[t] \in PastPrefix => got[t] = PREFIX_BYTES /\ total[t] = 0
    /\ pc[t] = "connection" =>
         /\ total[t] = 0
         /\ op[t] = "prefix" => got[t] = PREFIX_BYTES
         /\ op[t] = "body" => got[t] = PREFIX_BYTES + BodyBytes
Bytes == \A t \in Thread : BytesOf(t)

(* The verdict on the client belongs to the client that is connected. *)
VerdictOf(t) ==
    /\ admin[t] => /\ pc[t] # "idle" /\ op[t] # "connect"
                   /\ token[t].member /\ is_active_administrator_group(token[t].attrs)
    /\ pc[t] \in {"impersonate", "extract", "revert", "connection"} => declared[t] = "allowed"
    /\ pc[t] # "idle" /\ op[t] \in {"body", "write"} => declared[t] = "allowed"
Verdict == \A t \in Thread : VerdictOf(t)

PipeInv == /\ PipeTypes /\ PipeFlags /\ PipeCounters /\ Clients /\ Points /\ Closed /\ Bytes /\ Verdict
        /\ NeverLeavesImpersonating

\* A new instance: nothing in hand, nobody connected; a refused one changes nothing.
LEMMA accept_Inv ==
    ASSUME PipeInv, NEW t \in Thread, accept(t)
    PROVE  PipeInv'
<1>1. PipeCounters' /\ Clients'
    BY DEF PipeInv, PipeCounters, Clients, accept
<1>2. PipeTypes'
    BY DEF PipeInv, PipeTypes, InCall, accept, goto, at, instance_free
<1>3. PipeFlags'
    BY DEF PipeInv, PipeFlags, accept, goto, at, instance_free
<1>4. Points'
    BY DEF PipeInv, Points, PipeTypes, PastPrefix, accept, goto, at, instance_free
<1>5. Closed'
    BY DEF PipeInv, Closed, PipeFlags, PipeTypes, accept, goto, at, instance_free
<1>6. Bytes'
    BY PipeAssumption DEF PipeInv, Bytes, BytesOf, Pending, Target, Points, PipeTypes, InCall,
           PipeCounters, PastPrefix, InIo, accept, at, goto, instance_free
<1>7. Verdict'
    BY DEF PipeInv, Verdict, VerdictOf, PipeTypes, accept, goto, at, instance_free
<1>8. NeverLeavesImpersonating'
    BY DEF PipeInv, NeverLeavesImpersonating, PipeTypes, PipeFlags, accept, goto, at, instance_free
<1> QED BY <1>1, <1>2, <1>3, <1>4, <1>5, <1>6, <1>7, <1>8 DEF PipeInv

\* ConnectNamedPipe leaves a pending connect, goes on to the prefix, or fails.
LEMMA connect_Inv ==
    ASSUME PipeInv, NEW t \in Thread, connect(t)
    PROVE  PipeInv'
<1>1. PipeTypes'
    BY DEF PipeInv, PipeTypes, InCall, connect, return, goto, at, pipe
<1>2. PipeFlags'
    BY DEF PipeInv, PipeFlags, connect, return, goto, at, pipe
<1>3. PipeCounters'
    BY DEF PipeInv, PipeCounters, connect, return, goto, at, pipe
<1>4. Clients'
    BY DEF PipeInv, Clients, Length, connect, at, goto, return, pipe, NoToken, Token
<1>5. Points'
    BY DEF PipeInv, Points, PipeTypes, PastPrefix, connect, return, goto, at, pipe
<1>6. Closed'
    BY DEF PipeInv, Closed, PipeFlags, PipeTypes, connect, return, goto, at, pipe
<1>7. Bytes'
    BY PipeAssumption DEF PipeInv, Bytes, BytesOf, Pending, Target, Points, PipeTypes, InCall,
           PipeCounters, PastPrefix, InIo, connect, at, goto, return, pipe
<1>8. Verdict'
    BY DEF PipeInv, Verdict, VerdictOf, Points, PipeTypes, Clients, PipeFlags, PastPrefix, connect, at,
           goto, return, pipe
<1>9. NeverLeavesImpersonating'
    BY DEF PipeInv, NeverLeavesImpersonating, PipeTypes, PipeFlags, connect, return, goto, at
<1> QED BY <1>1, <1>2, <1>3, <1>4, <1>5, <1>6, <1>7, <1>8, <1>9 DEF PipeInv

\* ReadFile or WriteFile moves at most what is left of the buffer, at once or later.
LEMMA transfer_Inv ==
    ASSUME PipeInv, NEW t \in Thread, transfer(t)
    PROVE  PipeInv'
<1>1. PipeFlags' /\ Clients'
    BY DEF PipeInv, PipeFlags, Clients, transfer
<1>2. PipeTypes'
    BY DEF PipeInv, PipeTypes, InCall, transfer, goto, at, Target, readable, Smaller
<1>3. PipeCounters'
    BY DEF PipeInv, PipeCounters, transfer, goto, at, Target, readable, Smaller
<1>4. Points'
    BY DEF PipeInv, Points, PipeTypes, PastPrefix, transfer, goto, at, Target, readable, Smaller
<1>5. Closed'
    BY DEF PipeInv, Closed, PipeFlags, PipeTypes, transfer, goto, at, Target, readable, Smaller
<1>6. Bytes'
    <2> DEFINE left == Target(t) - total[t]
               fill == IF op[t] = "write" THEN left ELSE Smaller(left, readable(t))
    <2>1. /\ pc[t] = "transfer" /\ io[t] = "none" /\ op[t] # "connect"
          /\ UNCHANGED <<op, total, client, sent>>
        BY DEF PipeInv, Points, transfer, at
    <2>2. total[t] \in Nat /\ got[t] \in Nat /\ sent[t] \in Nat /\ Target(t) \in Nat
        BY PipeAssumption DEF PipeInv, PipeCounters, Target
    <2>3. ASSUME NEW n \in 1..fill, transferred' = [transferred EXCEPT ![t] = n],
                 io' = [io EXCEPT ![t] = "done"], goto(t, "completed"),
                 got' = IF op[t] = "write" THEN got ELSE [got EXCEPT ![t] = @ + n]
          PROVE  Bytes'
        <3>1. n \in Nat /\ n > 0 /\ n <= left
            BY <2>2, <2>3 DEF Smaller, readable
        <3>2. op[t] # "write" => got[t] + n <= sent[t]
            BY <2>2, <2>3 DEF Smaller, readable
        <3>3. BytesOf(t)'
            <4>1. /\ pc'[t] = "completed" /\ io'[t] = "done" /\ transferred'[t] = n
                  /\ got'[t] = IF op[t] = "write" THEN got[t] ELSE got[t] + n
                BY <2>3 DEF PipeInv, PipeTypes, PipeCounters, goto
            <4>2. BytesOf(t) /\ Pending(t) = 0 /\ Pending(t)' = n /\ Target(t)' = Target(t)
                BY <2>1, <4>1 DEF PipeInv, Bytes, Pending, Target
            <4> QED BY PipeAssumption, <2>1, <2>2, <3>1, <3>2, <4>1, <4>2 DEF BytesOf, PastPrefix, InIo
        <3>4. ASSUME NEW u \in Thread, u # t
              PROVE  BytesOf(u)'
            BY <2>1, <2>3, <3>4 DEF PipeInv, Bytes, BytesOf, Pending, Target, PipeTypes, PipeCounters, goto
        <3> QED BY <3>3, <3>4 DEF Bytes
    <2>4. ASSUME io' = [io EXCEPT ![t] = "broken"], goto(t, "completed"), UNCHANGED <<transferred, got>>
          PROVE  Bytes'
        BY <2>1, <2>4 DEF PipeInv, Bytes, BytesOf, Pending, Target, PipeTypes, PastPrefix, InIo, goto
    <2>5. ASSUME fill = 0 \/ op[t] = "write", io' = [io EXCEPT ![t] = "pending"], goto(t, "wait"),
                 UNCHANGED <<transferred, got>>
          PROVE  Bytes'
        <3>1. op[t] \in {"prefix", "body"} => got[t] = sent[t]
            BY <2>2, <2>5 DEF PipeInv, Bytes, BytesOf, Smaller, readable
        <3> QED BY <2>1, <2>5, <3>1 DEF PipeInv, Bytes, BytesOf, Pending, Target, PipeTypes, PastPrefix, InIo, goto
    <2> QED BY <2>3, <2>4, <2>5 DEF transfer
<1>7. Verdict'
    BY DEF PipeInv, Verdict, VerdictOf, PipeTypes, transfer, goto, at, Target, readable, Smaller
<1>8. NeverLeavesImpersonating'
    BY DEF PipeInv, NeverLeavesImpersonating, PipeTypes, PipeFlags, transfer, goto, at, Target, readable,
           Smaller
<1> QED BY <1>1, <1>2, <1>3, <1>4, <1>5, <1>6, <1>7, <1>8 DEF PipeInv

\* The wait ends with the operation or with the cancel event.
LEMMA wait_Inv ==
    ASSUME PipeInv, NEW t \in Thread, wait(t)
    PROVE  PipeInv'
<1>1. PipeFlags' /\ PipeCounters' /\ Clients'
    BY DEF PipeInv, PipeFlags, PipeCounters, Clients, wait, pipe, call
<1>2. PipeTypes'
    BY DEF PipeInv, PipeTypes, InCall, wait, goto, at, pipe, call
<1>3. Points'
    BY DEF PipeInv, Points, PipeTypes, PastPrefix, wait, goto, at, pipe, call
<1>4. Closed'
    BY DEF PipeInv, Closed, PipeFlags, PipeTypes, wait, goto, at, pipe
<1>5. Bytes'
    BY DEF PipeInv, Bytes, BytesOf, Pending, Target, PipeTypes, PipeCounters, PastPrefix, InIo, wait, goto,
           at, pipe, call
<1>6. Verdict'
    BY DEF PipeInv, Verdict, VerdictOf, PipeTypes, wait, goto, at, pipe, call
<1>7. NeverLeavesImpersonating'
    BY DEF PipeInv, NeverLeavesImpersonating, PipeTypes, PipeFlags, wait, goto, at
<1> QED BY <1>1, <1>2, <1>3, <1>4, <1>5, <1>6, <1>7 DEF PipeInv

\* A failed wait returns at once, and may leave the operation pending.
LEMMA wait_fails_Inv ==
    ASSUME PipeInv, NEW t \in Thread, wait_fails(t)
    PROVE  PipeInv'
<1>1. PipeTypes'
    BY DEF PipeInv, PipeTypes, InCall, wait_fails, return, at, goto
<1>2. PipeFlags'
    BY DEF PipeInv, PipeFlags, wait_fails, return, at, goto
<1>3. PipeCounters'
    BY DEF PipeInv, PipeCounters, wait_fails, return, at, goto
<1>4. Clients'
    BY DEF PipeInv, Clients, Length, wait_fails, at, goto, return, NoToken, Token
<1>5. Points'
    BY DEF PipeInv, Points, PipeTypes, PastPrefix, wait_fails, return, at, goto
<1>6. Closed'
    BY DEF PipeInv, Closed, PipeFlags, PipeTypes, wait_fails, return, at, goto
<1>7. Bytes'
    BY PipeAssumption DEF PipeInv, Bytes, BytesOf, Pending, Target, Points, PipeTypes, InCall,
           PipeCounters, PastPrefix, InIo, wait_fails, at, goto, return
<1>8. Verdict'
    BY DEF PipeInv, Verdict, VerdictOf, Points, PipeTypes, Clients, PipeFlags, PastPrefix, wait_fails, at,
           goto, return
<1>9. NeverLeavesImpersonating'
    BY DEF PipeInv, NeverLeavesImpersonating, PipeTypes, PipeFlags, wait_fails, return, at, goto
<1> QED BY <1>1, <1>2, <1>3, <1>4, <1>5, <1>6, <1>7, <1>8, <1>9 DEF PipeInv

\* CancelIoEx ends the operation, finds it ended, or fails.
LEMMA cancel_io_Inv ==
    ASSUME PipeInv, NEW t \in Thread, cancel_io(t)
    PROVE  PipeInv'
<1>1. PipeFlags' /\ PipeCounters' /\ Clients'
    BY DEF PipeInv, PipeFlags, PipeCounters, Clients, cancel_io, pipe
<1>2. PipeTypes'
    BY DEF PipeInv, PipeTypes, InCall, cancel_io, goto, at, after_cancel, pipe
<1>3. Points'
    BY DEF PipeInv, Points, PipeTypes, PastPrefix, cancel_io, goto, at, after_cancel, pipe
<1>4. Closed'
    BY DEF PipeInv, Closed, PipeFlags, PipeTypes, cancel_io, goto, at, after_cancel, pipe
<1>5. Bytes'
    BY DEF PipeInv, Bytes, BytesOf, Pending, Target, PipeTypes, PipeCounters, PastPrefix, InIo, cancel_io,
           goto, at, after_cancel, pipe
<1>6. Verdict'
    BY DEF PipeInv, Verdict, VerdictOf, PipeTypes, cancel_io, goto, at, after_cancel, pipe
<1>7. NeverLeavesImpersonating'
    BY DEF PipeInv, NeverLeavesImpersonating, PipeTypes, PipeFlags, cancel_io, goto, at, after_cancel
<1> QED BY <1>1, <1>2, <1>3, <1>4, <1>5, <1>6, <1>7 DEF PipeInv

\* GetOverlappedResult returns when the operation has ended.
LEMMA await_terminal_Inv ==
    ASSUME PipeInv, NEW t \in Thread, await_terminal(t)
    PROVE  PipeInv'
<1>1. PipeFlags' /\ PipeCounters' /\ Clients'
    BY DEF PipeInv, PipeFlags, PipeCounters, Clients, await_terminal, pipe, call
<1>2. PipeTypes'
    BY DEF PipeInv, PipeTypes, InCall, await_terminal, goto, at, terminated, pipe, call
<1>3. Points'
    BY DEF PipeInv, Points, PipeTypes, PastPrefix, await_terminal, goto, at, terminated, pipe, call
<1>4. Closed'
    BY DEF PipeInv, Closed, PipeFlags, PipeTypes, await_terminal, goto, at, terminated, pipe
<1>5. Bytes'
    BY DEF PipeInv, Bytes, BytesOf, Pending, Target, PipeTypes, PipeCounters, PastPrefix, InIo,
           await_terminal, goto, at, terminated, pipe, call
<1>6. Verdict'
    BY DEF PipeInv, Verdict, VerdictOf, PipeTypes, await_terminal, goto, at, terminated, pipe, call
<1>7. NeverLeavesImpersonating'
    BY DEF PipeInv, NeverLeavesImpersonating, PipeTypes, PipeFlags, await_terminal, goto, at, terminated
<1> QED BY <1>1, <1>2, <1>3, <1>4, <1>5, <1>6, <1>7 DEF PipeInv

\* The loop counts what a completion transferred; a cancelled or broken one returns.
LEMMA completed_Inv ==
    ASSUME PipeInv, NEW t \in Thread, completed(t)
    PROVE  PipeInv'
<1>1. PipeTypes'
    BY DEF PipeInv, PipeTypes, InCall, completed, return, goto, at, accumulated, short, Target, pipe
<1>2. PipeFlags'
    BY DEF PipeInv, PipeFlags, completed, return, goto, at, accumulated, short, Target, pipe
<1>3. PipeCounters'
    BY DEF PipeInv, PipeCounters, completed, return, goto, at, accumulated, short, Target, pipe
<1>4. Clients'
    BY DEF PipeInv, Clients, Length, completed, at, goto, return, accumulated, short, Target, pipe,
           NoToken, Token
<1>5. Points'
    BY DEF PipeInv, Points, Closed, PipeTypes, InCall, PastPrefix, completed, at, goto, return,
           accumulated, short, Target, pipe
<1>6. Closed'
    BY DEF PipeInv, Closed, PipeFlags, PipeTypes, completed, return, goto, at, accumulated, short, Target,
           pipe
<1>7. Bytes'
    BY PipeAssumption DEF PipeInv, Bytes, BytesOf, Pending, Target, Points, PipeTypes, InCall,
           PipeCounters, PastPrefix, InIo, completed, at, goto, return, accumulated, short, pipe
<1>8. Verdict'
    <2>1. /\ pc[t] = "completed" /\ token'[t] \in {token[t], NoToken}
          /\ admin'[t] => admin[t] /\ pc'[t] # "idle" /\ token'[t] = token[t]
        BY DEF PipeInv, PipeTypes, PipeFlags, Clients, completed, at, goto, return, pipe
    <2>2. VerdictOf(t)'
        BY <2>1 DEF PipeInv, PipeTypes, Points, Verdict, VerdictOf, completed, goto, return, short, pipe
    <2>3. ASSUME NEW u \in Thread, u # t
          PROVE  VerdictOf(u)'
        BY <2>3 DEF PipeInv, PipeTypes, PipeFlags, Clients, Verdict, VerdictOf, completed, at, goto, return, pipe
    <2> QED BY <2>2, <2>3 DEF Verdict
<1>9. NeverLeavesImpersonating'
    BY DEF PipeInv, NeverLeavesImpersonating, PipeTypes, PipeFlags, completed, return, goto, at,
           accumulated, short, Target
<1> QED BY <1>1, <1>2, <1>3, <1>4, <1>5, <1>6, <1>7, <1>8, <1>9 DEF PipeInv

\* The length in the prefix is checked before the client is impersonated.
LEMMA validate_Inv ==
    ASSUME PipeInv, NEW t \in Thread, validate(t)
    PROVE  PipeInv'
<1>1. PipeTypes'
    BY DEF PipeInv, PipeTypes, InCall, validate, return, goto, at, validate_initial_request_prefix,
           pipe
<1>2. PipeFlags'
    BY DEF PipeInv, PipeFlags, validate, return, goto, at, validate_initial_request_prefix, pipe
<1>3. PipeCounters'
    BY DEF PipeInv, PipeCounters, validate, return, goto, at, validate_initial_request_prefix, pipe
<1>4. Clients'
    BY DEF PipeInv, Clients, Length, validate, at, goto, return, validate_initial_request_prefix,
           pipe, NoToken, Token
<1>5. Points'
    BY DEF PipeInv, Points, PipeTypes, PastPrefix, validate, return, goto, at,
           validate_initial_request_prefix, pipe
<1>6. Closed'
    BY DEF PipeInv, Closed, PipeFlags, PipeTypes, validate, return, goto, at,
           validate_initial_request_prefix, pipe
<1>7. Bytes'
    BY PipeAssumption DEF PipeInv, Bytes, BytesOf, Pending, Target, Points, PipeTypes, InCall,
           PipeCounters, PastPrefix, InIo, validate, at, goto, return,
           validate_initial_request_prefix, pipe
<1>8. Verdict'
    BY DEF PipeInv, Verdict, VerdictOf, Points, PipeTypes, Clients, PipeFlags, PastPrefix, validate, at,
           goto, return, validate_initial_request_prefix, pipe
<1>9. NeverLeavesImpersonating'
    BY DEF PipeInv, NeverLeavesImpersonating, PipeTypes, PipeFlags, validate, return, goto, at,
           validate_initial_request_prefix
<1> QED BY <1>1, <1>2, <1>3, <1>4, <1>5, <1>6, <1>7, <1>8, <1>9 DEF PipeInv

\* The thread takes the client's identity, or returns.
LEMMA impersonate_Inv ==
    ASSUME PipeInv, NEW t \in Thread, impersonate(t)
    PROVE  PipeInv'
<1>1. PipeTypes'
    BY DEF PipeInv, PipeTypes, InCall, impersonate, return, goto, at, pipe
<1>2. PipeFlags'
    BY DEF PipeInv, PipeFlags, impersonate, return, goto, at, pipe
<1>3. PipeCounters'
    BY DEF PipeInv, PipeCounters, impersonate, return, goto, at, pipe
<1>4. Clients'
    BY DEF PipeInv, Clients, Length, impersonate, at, goto, return, pipe, NoToken, Token
<1>5. Points'
    BY DEF PipeInv, Points, PipeTypes, PastPrefix, impersonate, return, goto, at, pipe
<1>6. Closed'
    BY DEF PipeInv, Closed, PipeFlags, PipeTypes, impersonate, return, goto, at, pipe
<1>7. Bytes'
    BY PipeAssumption DEF PipeInv, Bytes, BytesOf, Pending, Target, Points, PipeTypes, InCall,
           PipeCounters, PastPrefix, InIo, impersonate, at, goto, return, pipe
<1>8. Verdict'
    BY DEF PipeInv, Verdict, VerdictOf, Points, PipeTypes, Clients, PipeFlags, PastPrefix, impersonate, at,
           goto, return, pipe
<1>9. NeverLeavesImpersonating'
    BY DEF PipeInv, NeverLeavesImpersonating, PipeTypes, PipeFlags, impersonate, return, goto, at
<1> QED BY <1>1, <1>2, <1>3, <1>4, <1>5, <1>6, <1>7, <1>8, <1>9 DEF PipeInv

\* The token is read; the verdict is the token's.
LEMMA extract_Inv ==
    ASSUME PipeInv, NEW t \in Thread, extract(t)
    PROVE  PipeInv'
<1>1. PipeCounters' /\ Clients'
    BY DEF PipeInv, PipeCounters, Clients, extract, pipe, call
<1>2. PipeTypes'
    BY DEF PipeInv, PipeTypes, InCall, extract, goto, at, is_active_administrator_group, pipe, call
<1>3. PipeFlags'
    BY DEF PipeInv, PipeFlags, extract, goto, at, is_active_administrator_group, pipe
<1>4. Points'
    BY DEF PipeInv, Points, PipeTypes, PastPrefix, extract, goto, at, is_active_administrator_group,
           pipe, call
<1>5. Closed'
    BY DEF PipeInv, Closed, PipeFlags, PipeTypes, extract, goto, at, is_active_administrator_group, pipe
<1>6. Bytes'
    BY DEF PipeInv, Bytes, BytesOf, Pending, Target, PipeTypes, PipeCounters, PastPrefix, InIo, extract,
           goto, at, is_active_administrator_group, pipe, call
<1>7. Verdict'
    BY DEF PipeInv, Verdict, VerdictOf, Points, PipeTypes, Clients, PipeFlags, PastPrefix, extract, at,
           goto, pipe, call
<1>8. NeverLeavesImpersonating'
    BY DEF PipeInv, NeverLeavesImpersonating, PipeTypes, PipeFlags, extract, goto, at,
           is_active_administrator_group
<1> QED BY <1>1, <1>2, <1>3, <1>4, <1>5, <1>6, <1>7, <1>8 DEF PipeInv

\* The identity is taken off on every path, or the process is gone.
LEMMA revert_Inv ==
    ASSUME PipeInv, NEW t \in Thread, revert(t)
    PROVE  PipeInv'
<1>1. PipeTypes'
    BY DEF PipeInv, PipeTypes, InCall, revert, return, goto, at, reverts, pipe
<1>2. PipeFlags'
    BY DEF PipeInv, PipeFlags, revert, return, goto, at, reverts, pipe
<1>3. PipeCounters'
    BY DEF PipeInv, PipeCounters, revert, return, goto, at, reverts, pipe
<1>4. Clients'
    BY DEF PipeInv, Clients, Length, revert, at, goto, return, reverts, pipe, NoToken, Token
<1>5. Points'
    BY DEF PipeInv, Points, PipeTypes, PastPrefix, revert, return, goto, at, reverts, pipe
<1>6. Closed'
    BY DEF PipeInv, Closed, PipeFlags, PipeTypes, revert, return, goto, at, reverts, pipe
<1>7. Bytes'
    BY PipeAssumption DEF PipeInv, Bytes, BytesOf, Pending, Target, Points, PipeTypes, InCall,
           PipeCounters, PastPrefix, InIo, revert, at, goto, return, reverts, pipe
<1>8. Verdict'
    BY DEF PipeInv, Verdict, VerdictOf, Points, PipeTypes, Clients, PipeFlags, PastPrefix, revert, at,
           goto, return, reverts, pipe
<1>9. NeverLeavesImpersonating'
    BY DEF PipeInv, NeverLeavesImpersonating, PipeTypes, PipeFlags, revert, return, goto, at, reverts
<1> QED BY <1>1, <1>2, <1>3, <1>4, <1>5, <1>6, <1>7, <1>8, <1>9 DEF PipeInv

\* A closed connection leaves nothing of its client behind.
LEMMA close_Inv ==
    ASSUME PipeInv, NEW t \in Thread, close(t)
    PROVE  PipeInv'
<1>1. PipeTypes'
    BY DEF PipeInv, PipeTypes, InCall, close, return, at, goto
<1>2. PipeFlags'
    BY DEF PipeInv, PipeFlags, close, return, at, goto
<1>3. PipeCounters'
    BY DEF PipeInv, PipeCounters, close, return, at, goto
<1>4. Clients'
    BY DEF PipeInv, Clients, Length, close, at, goto, return, NoToken, Token
<1>5. Points'
    BY DEF PipeInv, Points, PipeTypes, PastPrefix, close, return, at, goto
<1>6. Closed'
    BY DEF PipeInv, Closed, PipeFlags, PipeTypes, close, return, at, goto
<1>7. Bytes'
    BY PipeAssumption DEF PipeInv, Bytes, BytesOf, Pending, Target, Points, PipeTypes, InCall,
           PipeCounters, PastPrefix, InIo, close, at, goto, return
<1>8. Verdict'
    BY DEF PipeInv, Verdict, VerdictOf, Points, PipeTypes, Clients, PipeFlags, PastPrefix, close, at, goto,
           return
<1>9. NeverLeavesImpersonating'
    BY DEF PipeInv, NeverLeavesImpersonating, PipeTypes, PipeFlags, close, return, at, goto
<1> QED BY <1>1, <1>2, <1>3, <1>4, <1>5, <1>6, <1>7, <1>8, <1>9 DEF PipeInv

\* The caller goes on to read the body or to write the response.
LEMMA connection_io_Inv ==
    ASSUME PipeInv, NEW t \in Thread, NEW kind \in {"body", "write"}, connection_io(t, kind)
    PROVE  PipeInv'
<1>1. PipeFlags' /\ PipeCounters' /\ Clients'
    BY DEF PipeInv, PipeFlags, PipeCounters, Clients, connection_io, pipe
<1>2. PipeTypes'
    BY DEF PipeInv, PipeTypes, InCall, connection_io, goto, at, pipe
<1>3. Points'
    BY DEF PipeInv, Points, PipeTypes, PastPrefix, connection_io, goto, at, pipe
<1>4. Closed'
    BY DEF PipeInv, Closed, PipeFlags, PipeTypes, connection_io, goto, at, pipe
<1>5. Bytes'
    BY PipeAssumption DEF PipeInv, Bytes, BytesOf, Pending, Target, Points, PipeTypes, InCall,
           PipeCounters, PastPrefix, InIo, connection_io, at, goto, pipe
<1>6. Verdict'
    BY DEF PipeInv, Verdict, VerdictOf, PipeTypes, connection_io, goto, at, pipe
<1>7. NeverLeavesImpersonating'
    BY DEF PipeInv, NeverLeavesImpersonating, PipeTypes, PipeFlags, connection_io, goto, at
<1> QED BY <1>1, <1>2, <1>3, <1>4, <1>5, <1>6, <1>7 DEF PipeInv

\* A client comes to an instance that nobody is connected to.
LEMMA client_connects_Inv ==
    ASSUME PipeInv, NEW t \in Thread, client_connects(t)
    PROVE  PipeInv'
<1>1. PipeFlags' /\ PipeCounters' /\ Closed' /\ NeverLeavesImpersonating'
    BY DEF PipeInv, PipeFlags, PipeCounters, Closed, NeverLeavesImpersonating, client_connects
<1>2. PipeTypes'
    BY DEF PipeInv, PipeTypes, InCall, client_connects
<1>3. Clients'
    BY DEF PipeInv, Clients, client_connects
<1>4. Points'
    BY DEF PipeInv, Points, Closed, PipeTypes, InCall, PastPrefix, client_connects, at, goto
<1>5. Bytes'
    BY DEF PipeInv, Bytes, BytesOf, Pending, Target, PipeTypes, PipeCounters, PastPrefix, InIo,
           client_connects
<1>6. Verdict'
    BY DEF PipeInv, Verdict, VerdictOf, Points, PipeTypes, Clients, PipeFlags, PastPrefix, client_connects,
           at, goto
<1> QED BY <1>1, <1>2, <1>3, <1>4, <1>5, <1>6 DEF PipeInv

\* What a client writes completes a pending read, with no more than it asked for.
LEMMA client_writes_Inv ==
    ASSUME PipeInv, NEW t \in Thread, client_writes(t)
    PROVE  PipeInv'
<1>1. PipeFlags' /\ Clients' /\ Closed' /\ Verdict' /\ NeverLeavesImpersonating'
    BY DEF PipeInv, PipeFlags, Clients, Closed, Verdict, NeverLeavesImpersonating, VerdictOf,
           client_writes
<1>2. PipeTypes'
    BY DEF PipeInv, PipeTypes, InCall, client_writes, Target, Smaller
<1>3. PipeCounters'
    BY PipeAssumption DEF PipeInv, PipeCounters, Bytes, BytesOf, Target, client_writes, at, goto,
           Smaller
<1>4. Points'
    BY DEF PipeInv, Points, PipeTypes, PastPrefix, client_writes, Target, Smaller
<1>5. Bytes'
    BY PipeAssumption DEF PipeInv, Bytes, BytesOf, Pending, Target, Points, PipeTypes, InCall,
           PipeCounters, PastPrefix, InIo, client_writes, at, goto, Smaller
<1> QED BY <1>1, <1>2, <1>3, <1>4, <1>5 DEF PipeInv

\* A client that reads completes a pending write.
LEMMA client_reads_Inv ==
    ASSUME PipeInv, NEW t \in Thread, client_reads(t)
    PROVE  PipeInv'
<1>1. PipeFlags' /\ Clients' /\ Closed' /\ Verdict' /\ NeverLeavesImpersonating'
    BY DEF PipeInv, PipeFlags, Clients, Closed, Verdict, NeverLeavesImpersonating, VerdictOf,
           client_reads, pipe
<1>2. PipeTypes'
    BY DEF PipeInv, PipeTypes, InCall, client_reads, Target, pipe
<1>3. PipeCounters'
    BY DEF PipeInv, PipeCounters, client_reads, Target, pipe
<1>4. Points'
    BY DEF PipeInv, Points, PipeTypes, PastPrefix, client_reads, Target, pipe
<1>5. Bytes'
    BY DEF PipeInv, Bytes, BytesOf, Pending, Target, PipeTypes, PipeCounters, PastPrefix, InIo,
           client_reads, pipe
<1> QED BY <1>1, <1>2, <1>3, <1>4, <1>5 DEF PipeInv

\* A client that goes breaks the operation that is pending.
LEMMA client_closes_Inv ==
    ASSUME PipeInv, NEW t \in Thread, client_closes(t)
    PROVE  PipeInv'
<1>1. PipeFlags' /\ PipeCounters' /\ Clients' /\ Closed' /\ Verdict' /\ NeverLeavesImpersonating'
    BY DEF PipeInv, PipeFlags, PipeCounters, Clients, Closed, Verdict, NeverLeavesImpersonating, VerdictOf,
           client_closes
<1>2. PipeTypes'
    BY DEF PipeInv, PipeTypes, InCall, client_closes
<1>3. Points'
    BY DEF PipeInv, Points, PipeTypes, PastPrefix, client_closes
<1>4. Bytes'
    BY DEF PipeInv, Bytes, BytesOf, Pending, Target, PipeTypes, PipeCounters, PastPrefix, InIo,
           client_closes
<1> QED BY <1>1, <1>2, <1>3, <1>4 DEF PipeInv

\* cancel() sets the event and nothing else.
LEMMA cancel_Inv ==
    ASSUME PipeInv, cancel
    PROVE  PipeInv'
<1>1. PipeTypes' /\ PipeCounters' /\ Clients' /\ Points' /\ Closed' /\ Bytes' /\ Verdict'
      /\ NeverLeavesImpersonating'
    BY DEF PipeInv, PipeTypes, PipeCounters, Clients, Points, Closed, Bytes, Verdict,
           NeverLeavesImpersonating, BytesOf, Pending, Target, VerdictOf, cancel, pipe, call
<1>2. PipeFlags'
    BY DEF PipeInv, PipeFlags, cancel, pipe
<1> QED BY <1>1, <1>2 DEF PipeInv

\* reset_cancel() clears the event and nothing else.
LEMMA reset_cancel_Inv ==
    ASSUME PipeInv, reset_cancel
    PROVE  PipeInv'
<1>1. PipeCounters' /\ Clients' /\ Closed' /\ Verdict' /\ NeverLeavesImpersonating'
    BY DEF PipeInv, PipeCounters, Clients, Closed, Verdict, NeverLeavesImpersonating, VerdictOf,
           reset_cancel, pipe, call
<1>2. PipeTypes'
    BY DEF PipeInv, PipeTypes, InCall, reset_cancel, pipe, call
<1>3. PipeFlags'
    BY DEF PipeInv, PipeFlags, reset_cancel, pipe
<1>4. Points'
    BY DEF PipeInv, Points, PipeTypes, PastPrefix, reset_cancel, pipe, call
<1>5. Bytes'
    BY DEF PipeInv, Bytes, BytesOf, Pending, Target, PipeTypes, PipeCounters, PastPrefix, InIo,
           reset_cancel, pipe, call
<1> QED BY <1>1, <1>2, <1>3, <1>4, <1>5 DEF PipeInv

\* Every step preserves the inductive invariant.
LEMMA PipeStep ==
    ASSUME PipeInv, [PipeNext]_pipe_vars
    PROVE  PipeInv'
<1>1. ASSUME NEW t \in Thread, ThreadStep(t)
      PROVE  PipeInv'
    BY <1>1, connect_Inv, transfer_Inv, wait_Inv, cancel_io_Inv, await_terminal_Inv, completed_Inv,
       validate_Inv, impersonate_Inv, extract_Inv, revert_Inv DEF ThreadStep
<1>2. ASSUME NEW t \in Thread,
             \/ accept(t) \/ wait_fails(t) \/ close(t)
             \/ \E kind \in {"body", "write"} : connection_io(t, kind)
             \/ client_connects(t) \/ client_writes(t) \/ client_reads(t) \/ client_closes(t)
      PROVE  PipeInv'
    BY <1>2, accept_Inv, wait_fails_Inv, close_Inv, connection_io_Inv, client_connects_Inv,
       client_writes_Inv, client_reads_Inv, client_closes_Inv
<1>3. CASE UNCHANGED pipe_vars
    BY <1>3 DEF PipeInv, PipeTypes, PipeFlags, PipeCounters, Clients, Points, Closed, Bytes, BytesOf, Pending, Target,
                Verdict, VerdictOf, NeverLeavesImpersonating, pipe_vars
<1> QED BY <1>1, <1>2, <1>3, cancel_Inv, reset_cancel_Inv DEF PipeNext

\* The inductive invariant holds in every state of the transport.
THEOREM PipeInvariance == PipeSpec => []PipeInv
<1>1. PipeInit => PipeInv
    <2> SUFFICES ASSUME PipeInit PROVE PipeInv
        OBVIOUS
    <2>1. PipeTypes /\ Points /\ NeverLeavesImpersonating
        BY DEF PipeInit, PipeTypes, Points, NeverLeavesImpersonating, PastPrefix
    <2>2. PipeFlags /\ Closed
        BY DEF PipeInit, PipeFlags, Closed
    <2>3. PipeCounters
        BY DEF PipeInit, PipeCounters
    <2>4. Clients
        BY DEF PipeInit, Clients, NoToken, Token, Length
    <2>5. Bytes
        BY PipeAssumption DEF PipeInit, Bytes, BytesOf, Pending, Target, InIo, PastPrefix
    <2>6. Verdict
        BY DEF PipeInit, Verdict, VerdictOf
    <2> QED BY <2>1, <2>2, <2>3, <2>4, <2>5, <2>6 DEF PipeInv
<1> QED BY <1>1, PipeStep, PTL DEF PipeSpec

\* PipeTypes: in particular no loop counts past its target, and no more is read
\* than the client wrote.
THEOREM PipeTypeCorrect == PipeSpec => []PipeTypeOK
<1>1. PipeInv => PipeTypeOK
    <2> SUFFICES ASSUME PipeInv PROVE PipeTypeOK
        OBVIOUS
    <2>1. {open, impersonating, admin} \subseteq [Thread -> BOOLEAN] /\ cancel_event \in BOOLEAN
        BY DEF PipeInv, PipeFlags
    <2>2. {sent, got} \subseteq [Thread -> 0..(PREFIX_BYTES + BodyBytes)]
        <3>1. \A t \in Thread : /\ sent[t] \in 0..(PREFIX_BYTES + BodyBytes)
                                /\ got[t] \in 0..(PREFIX_BYTES + BodyBytes)
            BY PipeAssumption DEF PipeInv, Bytes, BytesOf, PipeCounters
        <3> QED BY <3>1 DEF PipeInv, PipeCounters
    <2>3. \A t \in Thread : total[t] < Target(t)
        BY DEF PipeInv, Bytes, BytesOf
    <2> QED BY <2>1, <2>2, <2>3 DEF PipeInv, PipeTypeOK, PipeTypes, PipeCounters
<1> QED BY <1>1, PipeInvariance, PTL

\* No thread is left with a client's identity, on any path out of the handshake.
THEOREM IdentityTakenOff == PipeSpec => []NeverLeavesImpersonating
<1>1. PipeInv => NeverLeavesImpersonating
    BY DEF PipeInv
<1> QED BY <1>1, PipeInvariance, PTL

\* A connection stands exactly after the prefix or after the body, whatever the
\* sizes of the pieces it came in and however cancellations raced completions.
THEOREM Aligned == PipeSpec => []StreamAligned
<1>1. PipeInv => StreamAligned
    BY PipeAssumption DEF PipeInv, PipeTypes, Points, Bytes, BytesOf, StreamAligned
<1> QED BY <1>1, PipeInvariance, PTL

\* The one token whose Administrators group counts.
LEMMA ActiveToken ==
    ASSUME NEW k \in Token, k.member, is_active_administrator_group(k.attrs)
    PROVE  k = [member |-> TRUE, attrs |-> {SE_GROUP_ENABLED, SE_GROUP_ENABLED_BY_DEFAULT}]
BY DEF Token, is_active_administrator_group, SE_GROUP_ENABLED, SE_GROUP_USE_FOR_DENY_ONLY

\* Nobody but an active administrator with an allowed request is reported as one.
THEOREM OnlyActiveAdmins == PipeSpec => []AdminIsActive
<1>1. PipeInv => AdminIsActive
    <2> SUFFICES ASSUME PipeInv, NEW t \in Thread, pc[t] = "connection"
                 PROVE  /\ declared[t] = "allowed"
                        /\ admin[t] => token[t] = [member |-> TRUE,
                                                   attrs |-> {SE_GROUP_ENABLED, SE_GROUP_ENABLED_BY_DEFAULT}]
        BY DEF AdminIsActive
    <2>1. token[t] \in Token
        BY DEF PipeInv, Clients
    <2>2. declared[t] = "allowed"
        BY DEF PipeInv, Verdict, VerdictOf
    <2>3. admin[t] => token[t].member /\ is_active_administrator_group(token[t].attrs)
        BY DEF PipeInv, Verdict, VerdictOf
    <2> QED BY <2>1, <2>2, <2>3, ActiveToken
<1> QED BY <1>1, PipeInvariance, PTL

\* Unless the wait itself fails, no call leaves its operation pending: each step
\* that makes one pending goes to the wait, and only an ended one is left behind.
LEMMA NoDanglingStep ==
    ASSUME ~WaitMayFail, PipeTypes, NoDanglingIo, [PipeNext]_pipe_vars
    PROVE  NoDanglingIo'
<1>1. ASSUME NEW t \in Thread, connect(t) \/ transfer(t)
      PROVE  NoDanglingIo'
    BY <1>1 DEF PipeTypes, NoDanglingIo, connect, transfer, at, goto, return
<1>2. ASSUME NEW t \in Thread, wait(t) \/ cancel_io(t) \/ await_terminal(t)
      PROVE  NoDanglingIo'
    BY <1>2 DEF PipeTypes, NoDanglingIo, wait, cancel_io, await_terminal, terminated, at, goto, call
<1>3. ASSUME NEW t \in Thread, completed(t) \/ accept(t)
      PROVE  NoDanglingIo'
    BY <1>3 DEF PipeTypes, NoDanglingIo, completed, accept, at, goto, return
<1>4. ASSUME NEW t \in Thread, validate(t) \/ impersonate(t) \/ extract(t) \/ revert(t) \/ close(t)
      PROVE  NoDanglingIo'
    BY <1>4 DEF PipeTypes, NoDanglingIo, validate, impersonate, extract, revert, close, at, goto, return, call
<1>5. ASSUME NEW t \in Thread, NEW kind \in {"body", "write"}, connection_io(t, kind)
      PROVE  NoDanglingIo'
    BY <1>5 DEF PipeTypes, NoDanglingIo, connection_io, at, goto
<1>6. ASSUME NEW t \in Thread,
             client_connects(t) \/ client_writes(t) \/ client_reads(t) \/ client_closes(t)
      PROVE  NoDanglingIo'
    BY <1>6 DEF PipeTypes, NoDanglingIo, client_connects, client_writes, client_reads, client_closes
<1>7. CASE cancel \/ reset_cancel \/ UNCHANGED pipe_vars
    BY <1>7 DEF NoDanglingIo, cancel, reset_cancel, call, pipe_vars
<1> QED BY <1>1, <1>2, <1>3, <1>4, <1>5, <1>6, <1>7 DEF PipeNext, ThreadStep, wait_fails

\* When WaitForMultipleObjects does not fail, the OVERLAPPED and the buffer of a
\* call outlive the kernel's use of them, even when CancelIoEx fails.
THEOREM NoDangling ==
    ASSUME ~WaitMayFail
    PROVE  PipeSpec => []NoDanglingIo
<1>1. PipeInit => NoDanglingIo
    BY DEF PipeInit, NoDanglingIo
<1>2. PipeTypes /\ NoDanglingIo /\ [PipeNext]_pipe_vars => NoDanglingIo'
    BY NoDanglingStep
<1>3. PipeInv => PipeTypes
    BY DEF PipeInv
<1> QED BY <1>1, <1>2, <1>3, PipeInvariance, PTL DEF PipeSpec

\* The four together with the types, for any threads, lengths and races.
THEOREM SafeConnections ==
    ASSUME ~WaitMayFail
    PROVE  PipeSpec => []ConnectionsSafe
<1>1. /\ PipeTypeOK /\ NoDanglingIo /\ NeverLeavesImpersonating
      /\ StreamAligned /\ AdminIsActive
      => ConnectionsSafe
    BY DEF ConnectionsSafe
<1> QED BY <1>1, PipeTypeCorrect, NoDangling, IdentityTakenOff, Aligned, OnlyActiveAdmins, PTL

-----------------------------------------------------------------------------

(* IpcFraming *)
Byte == 0..(Radix - 1)
Size(p) == PrefixBytes + Len(p)

\* Dividing by the radix, over and over.
LEMMA Quotients ==
    ASSUME NEW len \in Nat
    PROVE  LET q == quotients(len)
           IN  /\ q \in [0..PrefixBytes -> Nat] /\ q[0] = len
               /\ \A i \in 1..PrefixBytes : q[i] = q[i - 1] \div Radix
<1>1. PrefixBytes \in Nat /\ Radix \in Nat \ {0}
    BY FramingAssumption
<1>2. PICK step : step = [i \in 1..PrefixBytes |-> [a \in Nat |-> a \div Radix]]
    OBVIOUS
<1>3. step \in [1..PrefixBytes -> [Nat -> Nat]]
    <2>1. ASSUME NEW a \in Nat PROVE a \div Radix \in Nat
        BY <1>1
    <2>2. [a \in Nat |-> a \div Radix] \in [Nat -> Nat]
        BY <2>1
    <2> QED BY <1>2, <2>2, Zenon
<1>4. ASSUME NEW i \in 1..PrefixBytes, NEW a \in Nat PROVE step[i][a] = a \div Radix
    BY <1>2
<1>5. PICK f : Runs(f, PrefixBytes, Nat, len, step)
    BY <1>1, <1>3, Recursion
<1>6. ASSUME NEW i \in 1..PrefixBytes PROVE f[i] = f[i - 1] \div Radix
    <2>1. f[i - 1] \in Nat
        BY <1>1, <1>5 DEF Runs
    <2> QED BY <1>4, <1>5, <2>1 DEF Runs
<1>7. f = [i \in 0..PrefixBytes |-> IF i = 0 THEN len ELSE f[i - 1] \div Radix]
    BY <1>1, <1>5, <1>6 DEF Runs
<1> DEFINE q[i \in 0..PrefixBytes] == IF i = 0 THEN len ELSE q[i - 1] \div Radix
<1>8. q = CHOOSE g : g = [i \in 0..PrefixBytes |-> IF i = 0 THEN len ELSE g[i - 1] \div Radix]
    OBVIOUS
<1>9. quotients(len) = q
    BY DEF quotients
<1> HIDE DEF q
<1>10. q = [i \in 0..PrefixBytes |-> IF i = 0 THEN len ELSE q[i - 1] \div Radix]
    BY <1>7, <1>8
<1>11. q[0] = len /\ DOMAIN q = 0..PrefixBytes /\ q = [i \in DOMAIN q |-> q[i]]
    BY <1>1, <1>10
<1>12. ASSUME NEW i \in 1..PrefixBytes PROVE q[i] = q[i - 1] \div Radix
    BY <1>1, <1>10
<1>13. \A i \in 1..PrefixBytes : q[i - 1] \in Nat => q[i] = step[i][q[i - 1]]
    BY <1>4, <1>12
<1>14. Runs(q, PrefixBytes, Nat, len, step)
    BY <1>1, <1>3, <1>11, <1>13, RunsTyped
<1> QED BY <1>9, <1>12, <1>14 DEF Runs

\* A length that is sent leaves nothing after its last byte.
LEMMA NothingLeft ==
    ASSUME NEW len \in 0..MaxLength
    PROVE  quotients(len)[PrefixBytes] = 0
<1>1. PrefixBytes \in Nat /\ Radix \in Nat \ {0} /\ MaxLength \in Nat /\ len \in Nat
    BY FramingAssumption
<1>2. PICK q : q = quotients(len)
    OBVIOUS
<1>3. q \in [0..PrefixBytes -> Nat] /\ q[0] = len /\ \A i \in 1..PrefixBytes : q[i] = q[i - 1] \div Radix
    BY <1>1, <1>2, Quotients
<1>4. PICK m : m = quotients(MaxLength)
    OBVIOUS
<1>5. m \in [0..PrefixBytes -> Nat] /\ m[0] = MaxLength /\ \A i \in 1..PrefixBytes : m[i] = m[i - 1] \div Radix
    BY <1>1, <1>4, Quotients
<1> DEFINE K == {k \in Nat : k <= PrefixBytes => q[k] <= m[k]}
<1>6. 0 \in K
    BY <1>1, <1>3, <1>5
<1>7. ASSUME NEW k \in Nat, k \in K PROVE k + 1 \in K
    <2> SUFFICES ASSUME k + 1 <= PrefixBytes PROVE q[k + 1] <= m[k + 1]
        OBVIOUS
    <2>1. PICK n : n = k + 1
        OBVIOUS
    <2>2. n \in 1..PrefixBytes /\ n - 1 = k /\ k \in 0..PrefixBytes /\ k <= PrefixBytes
        BY <1>1, <2>1
    <2>3. q[n] = q[k] \div Radix /\ m[n] = m[k] \div Radix
        BY <1>3, <1>5, <2>2
    <2>4. q[k] \in Nat /\ m[k] \in Nat /\ q[k] <= m[k]
        BY <1>3, <1>5, <1>7, <2>2
    <2>5. q[k] \div Radix <= m[k] \div Radix
        BY <1>1, <2>4
    <2> QED BY <2>1, <2>3, <2>5
<1> HIDE DEF K
<1>8. q[PrefixBytes] <= m[PrefixBytes]
    <2>1. PrefixBytes \in K
        BY <1>1, <1>6, <1>7, Induction
    <2> QED BY <1>1, <2>1 DEF K
<1>9. m[PrefixBytes] = 0
    BY <1>4, LengthFits
<1>10. q[PrefixBytes] \in Nat
    BY <1>1, <1>3
<1> QED BY <1>2, <1>8, <1>9, <1>10

\* The value of the bytes, the last ones first.
LEMMA Values ==
    ASSUME NEW bytes, \A i \in 1..PrefixBytes : bytes[i] \in Nat
    PROVE  \E v : /\ v \in [0..PrefixBytes -> Nat] /\ v[0] = 0 /\ decode_length_prefix(bytes) = v[PrefixBytes]
                  /\ \A i \in 1..PrefixBytes : v[i] = Radix * v[i - 1] + bytes[PrefixBytes + 1 - i]
<1>1. PrefixBytes \in Nat /\ Radix \in Nat \ {0} /\ 0 \in Nat
    BY FramingAssumption
<1>2. PICK step : step = [i \in 1..PrefixBytes |-> [a \in Nat |-> Radix * a + bytes[PrefixBytes + 1 - i]]]
    OBVIOUS
<1>3. step \in [1..PrefixBytes -> [Nat -> Nat]]
    <2>1. ASSUME NEW i \in 1..PrefixBytes PROVE step[i] \in [Nat -> Nat]
        <3>1. PICK b : b = bytes[PrefixBytes + 1 - i]
            OBVIOUS
        <3>2. b \in Nat
            BY <1>1, <3>1
        <3>3. \A a \in Nat : Radix * a + b \in Nat
            BY <1>1, <3>2
        <3>4. step[i] = [a \in Nat |-> Radix * a + b]
            BY <1>2, <3>1
        <3> QED BY <3>3, <3>4, Zenon
    <2> QED BY <1>2, <2>1, Zenon
<1>4. ASSUME NEW i \in 1..PrefixBytes, NEW a \in Nat
      PROVE  step[i][a] = Radix * a + bytes[PrefixBytes + 1 - i]
    BY <1>2
<1>5. PICK f : Runs(f, PrefixBytes, Nat, 0, step)
    BY <1>1, <1>3, Recursion
<1>6. ASSUME NEW i \in 1..PrefixBytes PROVE f[i] = Radix * f[i - 1] + bytes[PrefixBytes + 1 - i]
    <2>1. f[i - 1] \in Nat
        BY <1>1, <1>5 DEF Runs
    <2> QED BY <1>4, <1>5, <2>1 DEF Runs
<1>7. f = [i \in 0..PrefixBytes |-> IF i = 0 THEN 0 ELSE Radix * f[i - 1] + bytes[PrefixBytes + 1 - i]]
    BY <1>1, <1>5, <1>6 DEF Runs
<1> DEFINE v[i \in 0..PrefixBytes] == IF i = 0 THEN 0 ELSE Radix * v[i - 1] + bytes[PrefixBytes + 1 - i]
<1>8. v = CHOOSE g : g = [i \in 0..PrefixBytes |-> IF i = 0 THEN 0 ELSE Radix * g[i - 1] + bytes[PrefixBytes + 1 - i]]
    OBVIOUS
<1>9. decode_length_prefix(bytes) = v[PrefixBytes]
    BY DEF decode_length_prefix
<1> HIDE DEF v
<1>10. v = [i \in 0..PrefixBytes |-> IF i = 0 THEN 0 ELSE Radix * v[i - 1] + bytes[PrefixBytes + 1 - i]]
    BY <1>7, <1>8
<1>11. v[0] = 0 /\ DOMAIN v = 0..PrefixBytes /\ v = [i \in DOMAIN v |-> v[i]]
    BY <1>1, <1>10
<1>12. ASSUME NEW i \in 1..PrefixBytes PROVE v[i] = Radix * v[i - 1] + bytes[PrefixBytes + 1 - i]
    BY <1>1, <1>10
<1>13. \A i \in 1..PrefixBytes : v[i - 1] \in Nat => v[i] = step[i][v[i - 1]]
    BY <1>4, <1>12
<1>14. Runs(v, PrefixBytes, Nat, 0, step)
    BY <1>1, <1>3, <1>11, <1>13, RunsTyped
<1> QED BY <1>9, <1>12, <1>14 DEF Runs

\* decode_length_prefix undoes encode_length_prefix (from_le_bytes and
\* to_le_bytes), for every length that is sent and every width.
THEOREM PrefixExact == \A len \in 0..MaxLength : decode_length_prefix(encode_length_prefix(len)) = len
<1> SUFFICES ASSUME NEW len \in 0..MaxLength PROVE decode_length_prefix(encode_length_prefix(len)) = len
    OBVIOUS
<1>1. PrefixBytes \in Nat /\ Radix \in Nat \ {0} /\ len \in Nat
    BY FramingAssumption
<1>2. PICK q : q = quotients(len)
    OBVIOUS
<1>3. /\ q \in [0..PrefixBytes -> Nat] /\ q[0] = len /\ q[PrefixBytes] = 0
      /\ \A i \in 1..PrefixBytes : q[i] = q[i - 1] \div Radix
    BY <1>1, <1>2, Quotients, NothingLeft
<1>4. PICK bytes : bytes = encode_length_prefix(len)
    OBVIOUS
<1>5. \A i \in 1..PrefixBytes : bytes[i] = q[i - 1] % Radix
    BY <1>2, <1>4 DEF encode_length_prefix
<1>6. \A i \in 1..PrefixBytes : bytes[i] \in Nat
    <2> TAKE i \in 1..PrefixBytes
    <2>1. q[i - 1] \in Nat
        BY <1>1, <1>3
    <2>2. q[i - 1] % Radix \in Nat
        BY <1>1, <2>1
    <2> QED BY <1>5, <2>2
<1>7. PICK v : /\ v \in [0..PrefixBytes -> Nat] /\ v[0] = 0 /\ decode_length_prefix(bytes) = v[PrefixBytes]
               /\ \A i \in 1..PrefixBytes : v[i] = Radix * v[i - 1] + bytes[PrefixBytes + 1 - i]
    BY <1>6, Values
<1> DEFINE K == {k \in Nat : k <= PrefixBytes => v[k] = q[PrefixBytes - k]}
<1>8. 0 \in K
    BY <1>1, <1>3, <1>7
<1>9. ASSUME NEW k \in Nat, k \in K PROVE k + 1 \in K
    <2> SUFFICES ASSUME k + 1 <= PrefixBytes PROVE v[k + 1] = q[PrefixBytes - (k + 1)]
        OBVIOUS
    <2>1. PICK n, i : n = k + 1 /\ i = PrefixBytes - k
        OBVIOUS
    <2>2. /\ n \in 1..PrefixBytes /\ n - 1 = k /\ k <= PrefixBytes
          /\ i \in 1..PrefixBytes /\ PrefixBytes + 1 - n = i /\ PrefixBytes - (k + 1) = i - 1
        BY <1>1, <2>1
    <2>3. v[n] = Radix * v[k] + bytes[i]
        BY <1>7, <2>2
    <2>4. v[k] = q[i]
        BY <1>9, <2>1, <2>2
    <2>5. PICK a : a = q[i - 1]
        OBVIOUS
    <2>6. a \in Nat
        BY <1>1, <1>3, <2>2, <2>5
    <2>7. q[i] = a \div Radix /\ bytes[i] = a % Radix
        BY <1>3, <1>5, <2>2, <2>5
    <2>8. Radix * (a \div Radix) + (a % Radix) = a
        BY <1>1, <2>6
    <2> QED BY <2>1, <2>2, <2>3, <2>4, <2>5, <2>7, <2>8
<1> HIDE DEF K
<1>10. v[PrefixBytes] = q[0]
    <2>1. PrefixBytes \in K /\ PrefixBytes - PrefixBytes = 0
        BY <1>1, <1>8, <1>9, Induction
    <2> QED BY <1>1, <2>1 DEF K
<1> QED BY <1>3, <1>4, <1>7, <1>10

(* s is the frames of ps after the first r, one behind the other: off says *)
(* where in the whole stream each of them ends.                            *)
FramedAt(s, ps, r, off) ==
    /\ r \in 0..Len(ps)
    /\ off \in [Nat -> Nat]
    /\ off[Len(ps)] = off[r] + Len(s)
    /\ \A k \in (r + 1)..Len(ps) : off[k] = off[k - 1] + Size(ps[k])
    /\ \A i, k \in r..Len(ps) : i < k => off[i] < off[k]
    /\ \A k \in (r + 1)..Len(ps) : \A j \in 1..Size(ps[k]) : s[(off[k - 1] - off[r]) + j] = Frame(ps[k])[j]
Framed(s, ps, r) == \E off : FramedAt(s, ps, r, off)

\* A frame is a prefix and a payload, and the prefix says how long that is.
LEMMA FrameFacts ==
    ASSUME NEW p \in Payload
    PROVE  /\ Len(p) \in 0..MaxLength /\ Frame(p) \in Seq(Byte) /\ Len(Frame(p)) = Size(p) /\ Size(p) \in Nat \ {0}
           /\ encode_length_prefix(Len(p)) \in Seq(Byte) /\ Len(encode_length_prefix(Len(p))) = PrefixBytes
           /\ \A i \in 1..PrefixBytes : Frame(p)[i] = encode_length_prefix(Len(p))[i]
           /\ \A i \in 1..Len(p) : Frame(p)[PrefixBytes + i] = p[i]
           /\ p \in Seq(Content)
<1>1. PICK n \in 0..MaxLength : p \in [1..n -> Content]
    BY DEF Payload
<1>2. PrefixBytes \in Nat \ {0} /\ MaxLength \in Nat \ {0}
    BY FramingAssumption
<1>3. n \in Nat /\ p \in Seq(Content) /\ Len(p) = n
    BY <1>1, <1>2
<1>4. p \in Seq(Byte)
    <2>1. Content \subseteq Byte
        BY FramingAssumption DEF Byte
    <2> QED BY <1>3, <2>1, SeqMonotonic
<1> DEFINE e == encode_length_prefix(n)
<1>5. e \in [1..PrefixBytes -> Byte]
    <2>1. PICK q \in [0..PrefixBytes -> Nat] : q = quotients(n)
        BY <1>3, Quotients
    <2>2. ASSUME NEW i \in 1..PrefixBytes PROVE q[i - 1] % Radix \in Byte
        <3>1. q[i - 1] \in Nat /\ Radix \in Nat \ {0}
            BY <1>2, FramingAssumption
        <3> QED BY <3>1 DEF Byte
    <2>3. e = [i \in 1..PrefixBytes |-> q[i - 1] % Radix]
        BY <2>1 DEF encode_length_prefix
    <2>4. [i \in 1..PrefixBytes |-> q[i - 1] % Radix] \in [1..PrefixBytes -> Byte]
        BY <2>2
    <2> QED BY <2>3, <2>4, Zenon
<1> HIDE DEF e
<1>6. e \in Seq(Byte) /\ Len(e) = PrefixBytes
    BY <1>2, <1>5
<1>7. /\ e \o p \in Seq(Byte) /\ Len(e \o p) = PrefixBytes + n
      /\ \A i \in 1..(PrefixBytes + n) : (e \o p)[i] = IF i <= PrefixBytes THEN e[i] ELSE p[i - PrefixBytes]
    BY <1>3, <1>4, <1>6, ConcatProperties
<1>8. \A i \in 1..PrefixBytes : (e \o p)[i] = e[i]
    BY <1>2, <1>3, <1>7
<1>9. \A i \in 1..n : (e \o p)[PrefixBytes + i] = p[i]
    <2> TAKE i \in 1..n
    <2>1. PrefixBytes + i \in 1..(PrefixBytes + n) /\ ~(PrefixBytes + i <= PrefixBytes)
          /\ (PrefixBytes + i) - PrefixBytes = i
        BY <1>2, <1>3
    <2> QED BY <1>7, <2>1
<1>10. Frame(p) = e \o p /\ e = encode_length_prefix(Len(p)) /\ Size(p) = PrefixBytes + n
    BY <1>3 DEF Frame, e, Size
<1> QED BY <1>1, <1>2, <1>3, <1>6, <1>7, <1>8, <1>9, <1>10

\* Another frame at the end.
LEMMA FramedAppend ==
    ASSUME NEW s \in Seq(Byte), NEW ps \in Seq(Payload), NEW r, Framed(s, ps, r), NEW p \in Payload
    PROVE  Framed(s \o Frame(p), Append(ps, p), r)
<1>1. PICK off : FramedAt(s, ps, r, off)
    BY DEF Framed
<1> DEFINE n == Len(ps)
           qs == Append(ps, p)
           f == Frame(p)
           t == s \o f
           new == [off EXCEPT ![n + 1] = off[n] + Size(p)]
<1>2. n \in Nat /\ qs \in Seq(Payload) /\ Len(qs) = n + 1 /\ qs[n + 1] = p /\ \A k \in 1..n : qs[k] = ps[k]
    OBVIOUS
<1>3. f \in Seq(Byte) /\ Len(f) = Size(p) /\ Size(p) \in Nat \ {0}
    BY FrameFacts
<1>4. Len(s) \in Nat /\ \A k \in 1..n : ps[k] \in Payload /\ Size(ps[k]) \in Nat \ {0}
    BY FrameFacts
<1> HIDE DEF f
<1>5. /\ t \in Seq(Byte) /\ Len(t) = Len(s) + Len(f)
      /\ \A i \in 1..Len(s) + Len(f) : t[i] = IF i <= Len(s) THEN s[i] ELSE f[i - Len(s)]
    BY <1>3, ConcatProperties
<1>6. r \in 0..n /\ off \in [Nat -> Nat] /\ off[n] = off[r] + Len(s)
    BY <1>1 DEF FramedAt
<1>20. /\ off[n] = off[r] + Len(s)
       /\ \A k \in (r + 1)..n : off[k] = off[k - 1] + Size(ps[k])
       /\ \A i, k \in r..n : i < k => off[i] < off[k]
       /\ \A k \in (r + 1)..n : \A j \in 1..Size(ps[k]) : s[(off[k - 1] - off[r]) + j] = Frame(ps[k])[j]
    BY <1>1 DEF FramedAt
<1> HIDE DEF n
<1>24. n \in Nat
    BY <1>2
<1>21. \A k \in 0..n : k \in Nat /\ off[k] \in Nat
    <2> TAKE k \in 0..n
    <2>1. k \in Nat
        BY <1>24
    <2> QED BY <1>6, <2>1
<1>22. off[n] + Size(p) \in Nat /\ n + 1 \in Nat
    <2>1. off[n] \in Nat
        BY <1>6, <1>24
    <2> QED BY <1>3, <1>24, <2>1
<1>7. new \in [Nat -> Nat] /\ new[n + 1] = off[n] + Size(p) /\ \A k \in 0..n : new[k] = off[k] /\ off[k] \in Nat
    <2>1. \A k \in 0..n : k # n + 1
        BY <1>2
    <2> QED BY <1>6, <1>21, <1>22, <2>1
<1>23. \A i \in r..n : off[i] <= off[n] /\ off[r] <= off[i]
    <2> TAKE i \in r..n
    <2>1. i \in 0..n /\ r \in r..n /\ n \in r..n /\ r \in 0..n /\ n \in 0..n
        BY <1>2, <1>6
    <2>2. off[i] \in Nat /\ off[n] \in Nat /\ off[r] \in Nat
        BY <2>1, <1>21
    <2>3. CASE i = n
        <3>1. r < n \/ r = n
            BY <1>2, <1>6
        <3>2. r < n => off[r] < off[n]
            BY <1>20, <2>1
        <3> QED BY <2>2, <2>3, <3>1, <3>2
    <2>4. CASE i < n
        <3>1. off[i] < off[n]
            BY <1>20, <2>1, <2>4
        <3>2. r < i => off[r] < off[i]
            BY <1>20, <2>1
        <3>3. r < i \/ r = i
            BY <1>2, <1>6
        <3> QED BY <2>2, <3>1, <3>2, <3>3
    <2> QED BY <1>2, <1>6, <2>3, <2>4
<1> HIDE DEF new, qs, t
<1>25. r \in Int /\ 0 <= r /\ r <= n /\ r \in 0..n /\ n \in 0..n
    BY <1>6, <1>24
<1>26. Len(qs) = n + 1
    BY <1>2
<1>8. new[Len(qs)] = new[r] + Len(t)
    BY <1>2, <1>3, <1>4, <1>5, <1>6, <1>7
<1>9. ASSUME NEW k \in (r + 1)..Len(qs)
      PROVE  new[k] = new[k - 1] + Size(qs[k])
    <2>1. CASE k = n + 1
        BY <1>2, <1>6, <1>7, <2>1
    <2>2. CASE k # n + 1
        <3>1. k \in (r + 1)..n /\ k \in 1..n /\ k \in 0..n /\ k - 1 \in 0..n
            BY <1>24, <1>25, <1>26, <2>2
        <3>2. off[k] = off[k - 1] + Size(ps[k])
            BY <1>20, <3>1
        <3> QED BY <1>2, <1>7, <3>1, <3>2
    <2> QED BY <2>1, <2>2
<1>10. ASSUME NEW i \in r..Len(qs), NEW k \in r..Len(qs), i < k
       PROVE  new[i] < new[k]
    <2>0. i \in r..n /\ i \in 0..n
        BY <1>2, <1>6, <1>10
    <2>1. CASE k = n + 1
        <3>1. off[i] <= off[n] /\ off[i] \in Nat /\ off[n] \in Nat
            BY <1>2, <1>21, <1>23, <2>0
        <3>2. new[i] = off[i] /\ new[k] = off[n] + Size(p)
            BY <1>7, <2>0, <2>1
        <3> QED BY <1>3, <3>1, <3>2
    <2>2. CASE k # n + 1
        <3>1. k \in r..n /\ k \in 0..n
            BY <1>2, <1>6, <2>2
        <3>2. off[i] < off[k]
            BY <1>20, <1>10, <2>0, <3>1
        <3> QED BY <1>7, <2>0, <3>1, <3>2
    <2> QED BY <2>1, <2>2
<1>11. ASSUME NEW k \in (r + 1)..Len(qs), NEW j \in 1..Size(qs[k])
       PROVE  t[(new[k - 1] - new[r]) + j] = Frame(qs[k])[j]
    <2>1. CASE k = n + 1
        <3>1. new[k - 1] - new[r] = Len(s) /\ j \in 1..Len(f) /\ Frame(qs[k]) = f
            <4>1. k - 1 = n /\ n \in 0..n /\ r \in 0..n
                BY <1>24, <1>25, <2>1
            <4>2. new[k - 1] = off[n] /\ new[r] = off[r] /\ off[n] \in Nat /\ off[r] \in Nat
                BY <1>7, <4>1
            <4>3. new[k - 1] - new[r] = Len(s)
                BY <1>4, <1>20, <4>2
            <4> QED BY <1>2, <1>3, <2>1, <4>3 DEF f
        <3>2. Len(s) + j \in 1..Len(s) + Len(f) /\ ~(Len(s) + j <= Len(s)) /\ (Len(s) + j) - Len(s) = j
            BY <1>3, <1>4, <3>1
        <3> QED BY <1>5, <3>1, <3>2
    <2>2. CASE k # n + 1
        <3>1. k \in (r + 1)..n /\ k \in 1..n /\ k \in r..n /\ k - 1 \in r..n /\ k - 1 \in 0..n /\ qs[k] = ps[k]
              /\ n \in r..n /\ k \in 0..n /\ r \in 0..n /\ n \in 0..n
            <4>1. k \in Int /\ r \in Int /\ n \in Nat /\ r + 1 <= k /\ k <= n + 1 /\ 0 <= r /\ r <= n
                BY <1>2, <1>6
            <4>2. k <= n
                BY <4>1, <2>2
            <4>3. k \in 1..n
                BY <4>1, <4>2
            <4> QED BY <1>2, <4>1, <4>2, <4>3
        <3>2. s[(off[k - 1] - off[r]) + j] = Frame(ps[k])[j] /\ off[k] = off[k - 1] + Size(ps[k])
            BY <1>20, <3>1
        <3>3. off[k] <= off[n] /\ off[r] <= off[k - 1]
            BY <1>23, <3>1
        <3>4. Size(ps[k]) \in Nat /\ off[k] \in Nat /\ off[k - 1] \in Nat /\ off[n] \in Nat /\ off[r] \in Nat
              /\ new[k - 1] = off[k - 1] /\ new[r] = off[r] /\ j \in 1..Size(ps[k])
            BY <1>4, <1>7, <3>1
        <3>5. (off[k - 1] - off[r]) + j \in 1..Len(s)
            <4>1. PICK a \in Nat, b \in Nat, c \in Nat, d \in Nat, z \in Nat, l \in Nat :
                     a = off[k - 1] /\ b = off[k] /\ c = off[n] /\ d = off[r] /\ z = Size(ps[k]) /\ l = Len(s)
                BY <1>4, <3>4
            <4>2. b = a + z /\ c = d + l /\ b <= c /\ d <= a /\ j \in 1..z
                BY <1>20, <3>2, <3>3, <3>4, <4>1
            <4>3. (a - d) + j \in 1..l
                BY <4>2
            <4> QED BY <4>1, <4>3
        <3>6. t[(off[k - 1] - off[r]) + j] = s[(off[k - 1] - off[r]) + j]
            BY <1>3, <1>4, <1>5, <3>5
        <3> QED BY <3>1, <3>2, <3>4, <3>6
    <2> QED BY <2>1, <2>2
<1>12. r \in 0..Len(qs)
    BY <1>2, <1>6
<1>13. FramedAt(t, qs, r, new)
    BY <1>7, <1>8, <1>9, <1>10, <1>11, <1>12 DEF FramedAt
<1> QED BY <1>13 DEF Framed, t, qs, f

\* The first frame and the last do not overlap.
LEMMA FirstAndLast ==
    ASSUME NEW a \in Nat, NEW b \in Nat, NEW c \in Nat, NEW d \in Nat, NEW z \in Nat, NEW y \in Nat, NEW l \in Nat,
           b = a + z, c = a + l, c = d + y, b <= d
    PROVE  z + y <= l
OBVIOUS

\* Where a byte of a later frame is once the first frame is gone.
LEMMA Shifted ==
    ASSUME NEW a \in Nat, NEW b \in Nat, NEW c \in Nat, NEW d \in Nat, NEW f \in Nat, NEW y \in Nat,
           NEW z \in Nat, NEW l \in Nat, NEW j \in 1..y,
           c = d + l, b = a + y, f = d + z, b <= c, f <= a
    PROVE  (a - f) + j \in 1..(l - z) /\ z + ((a - f) + j) = (a - d) + j
OBVIOUS

\* What the offsets say of the first and the last frame: the first is there in
\* whole and comes before the last; without a frame nothing is there.
LEMMA FramedFacts ==
    ASSUME NEW s \in Seq(Byte), NEW ps \in Seq(Payload), NEW r, Framed(s, ps, r)
    PROVE  /\ r \in 0..Len(ps)
           /\ r = Len(ps) <=> s = <<>>
           /\ r < Len(ps) => /\ ps[r + 1] \in Payload
                             /\ Size(ps[r + 1]) <= Len(s)
                             /\ \A j \in 1..Size(ps[r + 1]) : s[j] = Frame(ps[r + 1])[j]
           /\ r + 1 < Len(ps) => Size(ps[r + 1]) + Size(ps[Len(ps)]) <= Len(s)
           /\ r + 1 = Len(ps) => Size(ps[r + 1]) = Len(s)
<1>1. PICK off : FramedAt(s, ps, r, off)
    BY DEF Framed
<1>2. PICK n \in Nat : n = Len(ps)
    OBVIOUS
<1>3. PICK l \in Nat : l = Len(s)
    OBVIOUS
<1>4. /\ r \in 0..n /\ off \in [Nat -> Nat] /\ off[n] = off[r] + l
      /\ \A k \in (r + 1)..n : off[k] = off[k - 1] + Size(ps[k])
      /\ \A i, k \in r..n : i < k => off[i] < off[k]
      /\ \A k \in (r + 1)..n : \A j \in 1..Size(ps[k]) : s[(off[k - 1] - off[r]) + j] = Frame(ps[k])[j]
    BY <1>1, <1>2, <1>3 DEF FramedAt
<1>5. \A k \in 1..n : ps[k] \in Payload /\ Size(ps[k]) \in Nat \ {0}
    BY <1>2, FrameFacts
<1>6. r \in Nat /\ r <= n
    BY <1>2, <1>4
<1>7. off[r] \in Nat /\ off[n] \in Nat
    BY <1>2, <1>4, <1>6
<1>8. r = n <=> s = <<>>
    <2>1. r = n => l = 0
        BY <1>3, <1>4, <1>7
    <2>2. r < n => off[r] < off[n]
        <3>1. r \in r..n /\ n \in r..n
            BY <1>6
        <3>2. \A i, k \in r..n : i < k => off[i] < off[k]
            BY <1>4
        <3> QED BY <3>1, <3>2
    <2>3. r < n => l > 0
        BY <1>3, <1>4, <1>7, <2>2
    <2>4. l = 0 <=> s = <<>>
        BY <1>3
    <2> QED BY <1>2, <1>6, <2>1, <2>3, <2>4
<1>9. ASSUME r < n
      PROVE  /\ ps[r + 1] \in Payload /\ Size(ps[r + 1]) <= l
             /\ \A j \in 1..Size(ps[r + 1]) : s[j] = Frame(ps[r + 1])[j]
             /\ r + 1 < n => Size(ps[r + 1]) + Size(ps[n]) <= l
             /\ r + 1 = n => Size(ps[r + 1]) = l
    <2>1. r + 1 \in 1..n /\ r + 1 \in (r + 1)..n /\ r + 1 \in r..n /\ n \in r..n /\ (r + 1) - 1 = r /\ n \in 1..n
          /\ n \in (r + 1)..n
        BY <1>2, <1>6, <1>9
    <2>2. PICK z \in Nat \ {0} : z = Size(ps[r + 1])
        BY <1>5, <2>1
    <2>3. off[r + 1] = off[r] + z
        BY <1>4, <2>1, <2>2
    <2>4. off[r + 1] \in Nat
        BY <1>7, <2>2, <2>3
    <2>5. r + 1 < n => off[r + 1] < off[n]
        BY <1>4, <2>1
    <2>6. r + 1 = n => off[r + 1] = off[n]
        OBVIOUS
    <2>7. r + 1 < n \/ r + 1 = n
        BY <1>2, <1>6, <1>9
    <2>8. z <= l /\ (r + 1 = n => z = l)
        <3>1. PICK a \in Nat, b \in Nat, c \in Nat : a = off[r] /\ b = off[r + 1] /\ c = off[n]
            BY <1>7, <2>4
        <3>2. b = a + z /\ c = a + l /\ (r + 1 < n => b < c) /\ (r + 1 = n => b = c)
            BY <1>4, <2>3, <2>5, <2>6, <3>1
        <3>3. b <= c
            BY <2>7, <3>1, <3>2
        <3> QED BY <1>3, <2>2, <3>1, <3>2, <3>3
    <2>9. ASSUME NEW j \in 1..z
          PROVE  s[j] = Frame(ps[r + 1])[j]
        <3>1. s[(off[r] - off[r]) + j] = Frame(ps[r + 1])[j]
            BY <1>4, <2>1, <2>2
        <3>2. (off[r] - off[r]) + j = j
            BY <1>7, <2>2
        <3> QED BY <3>1, <3>2
    <2>10. ASSUME r + 1 < n
           PROVE  z + Size(ps[n]) <= l
        <3>1. PICK y \in Nat \ {0} : y = Size(ps[n])
            BY <1>5, <2>1
        <3>2. off[n] = off[n - 1] + y
            BY <1>4, <2>1, <3>1
        <3>3. n - 1 \in r..n /\ n - 1 \in Nat
            BY <1>2, <1>6, <1>9, <2>10
        <3>4. off[n - 1] \in Nat
            BY <1>4, <3>3
        <3>5. r + 1 < n - 1 => off[r + 1] < off[n - 1]
            BY <1>4, <2>1, <3>3
        <3>6. r + 1 < n - 1 \/ r + 1 = n - 1
            BY <1>2, <1>6, <2>10
        <3>7. off[r + 1] <= off[n - 1]
            BY <2>4, <3>4, <3>5, <3>6
        <3>8. PICK a \in Nat, b \in Nat, c \in Nat, d \in Nat : a = off[r] /\ b = off[r + 1] /\ c = off[n] /\ d = off[n - 1]
            BY <1>7, <2>4, <3>4
        <3>9. b = a + z /\ c = a + l /\ c = d + y /\ b <= d
            BY <1>4, <2>3, <3>2, <3>7, <3>8
        <3>10. z + y <= l
            BY <3>9, FirstAndLast
        <3> QED BY <3>1, <3>10
    <2>11. ps[r + 1] \in Payload
        BY <1>5, <2>1
    <2>12. Size(ps[r + 1]) <= l /\ (r + 1 = n => Size(ps[r + 1]) = l)
        BY <2>2, <2>8
    <2>13. \A j \in 1..Size(ps[r + 1]) : s[j] = Frame(ps[r + 1])[j]
        BY <2>2, <2>9
    <2>14. r + 1 < n => Size(ps[r + 1]) + Size(ps[n]) <= l
        BY <2>2, <2>10
    <2> QED BY <2>11, <2>12, <2>13, <2>14
<1>10. r \in 0..n /\ (r + 1 < n => r < n) /\ (r + 1 = n => r < n)
    <2>1. r \in 0..n
        BY <1>4
    <2> QED BY <1>6, <2>1
<1>11. r < n => Size(ps[r + 1]) <= l /\ ps[r + 1] \in Payload
    BY <1>9
<1>12. r < n => \A j \in 1..Size(ps[r + 1]) : s[j] = Frame(ps[r + 1])[j]
    BY <1>9
<1>13. /\ r + 1 < n => Size(ps[r + 1]) + Size(ps[n]) <= l
       /\ r + 1 = n => Size(ps[r + 1]) = l
    BY <1>9, <1>10
<1> QED BY <1>2, <1>3, <1>8, <1>10, <1>11, <1>12, <1>13

\* The first frame taken off.
LEMMA FramedDrop ==
    ASSUME NEW s \in Seq(Byte), NEW ps \in Seq(Payload), NEW r, Framed(s, ps, r), r < Len(ps)
    PROVE  Framed(SubSeq(s, Size(ps[r + 1]) + 1, Len(s)), ps, r + 1)
<1>1. PICK off : FramedAt(s, ps, r, off)
    BY DEF Framed
<1>2. PICK n \in Nat : n = Len(ps)
    OBVIOUS
<1>3. PICK l \in Nat : l = Len(s)
    OBVIOUS
<1>4. /\ r \in 0..n /\ off \in [Nat -> Nat] /\ off[n] = off[r] + l
      /\ \A k \in (r + 1)..n : off[k] = off[k - 1] + Size(ps[k])
      /\ \A i, k \in r..n : i < k => off[i] < off[k]
      /\ \A k \in (r + 1)..n : \A j \in 1..Size(ps[k]) : s[(off[k - 1] - off[r]) + j] = Frame(ps[k])[j]
    BY <1>1, <1>2, <1>3 DEF FramedAt
<1>5. r \in Nat /\ r < n /\ r + 1 \in (r + 1)..n /\ r + 1 \in 1..n /\ (r + 1) - 1 = r
    <2>1. r \in 0..n /\ r < n
        BY <1>2, <1>4
    <2> QED BY <1>2, <2>1
<1>6. PICK z \in Nat \ {0} : z = Size(ps[r + 1])
    BY <1>2, <1>5, FrameFacts
<1>7. off[r + 1] = off[r] + z /\ off[r] \in Nat /\ off[r + 1] \in Nat /\ off[n] \in Nat
    <2>1. off[r + 1] = off[r] + z
        BY <1>4, <1>5, <1>6
    <2>2. off[r] \in Nat /\ off[n] \in Nat
        BY <1>2, <1>4, <1>5
    <2> QED BY <1>6, <2>1, <2>2
<1>8. z <= l
    BY <1>2, <1>3, <1>5, <1>6, FramedFacts
<1> DEFINE t == SubSeq(s, z + 1, l)
<1>9. t \in Seq(Byte) /\ Len(t) = l - z /\ \A i \in 1..(l - z) : t[i] = s[z + i]
    <2>1. \A i \in (z + 1)..l : s[i] \in Byte
        BY <1>3, <1>6
    <2>2. /\ t \in Seq(Byte) /\ Len(t) = (IF z + 1 <= l THEN l - (z + 1) + 1 ELSE 0)
          /\ \A i \in 1..(l - (z + 1) + 1) : t[i] = s[(z + 1) + i - 1]
        BY <1>3, <1>6, <2>1, SubSeqProperties
    <2> HIDE DEF t
    <2>3. (IF z + 1 <= l THEN l - (z + 1) + 1 ELSE 0) = l - z /\ l - (z + 1) + 1 = l - z
        BY <1>3, <1>6, <1>8
    <2>4. \A i \in 1..(l - z) : (z + 1) + i - 1 = z + i
        BY <1>6
    <2> QED BY <2>2, <2>3, <2>4
<1> HIDE DEF t
<1>10. off[n] = off[r + 1] + Len(t)
    BY <1>3, <1>4, <1>6, <1>7, <1>8, <1>9
<1>11. \A k \in ((r + 1) + 1)..n : k \in (r + 1)..n
    BY <1>2, <1>5
<1>12. \A k \in ((r + 1) + 1)..n : off[k] = off[k - 1] + Size(ps[k])
    BY <1>4, <1>11
<1>13. \A i, k \in (r + 1)..n : i < k => off[i] < off[k]
    <2>1. \A i \in (r + 1)..n : i \in r..n
        BY <1>2, <1>5
    <2> QED BY <1>4, <2>1
<1>14. ASSUME NEW k \in ((r + 1) + 1)..n, NEW j \in 1..Size(ps[k])
       PROVE  t[(off[k - 1] - off[r + 1]) + j] = Frame(ps[k])[j]
    <2>1. k \in (r + 1)..n /\ k \in 1..n /\ k \in Nat /\ k - 1 \in Nat /\ k - 1 \in (r + 1)..n /\ n \in (r + 1)..n
          /\ k \in r..n /\ n \in r..n /\ k - 1 \in r..n /\ r + 1 \in r..n
        BY <1>2, <1>5
    <2>2. s[(off[k - 1] - off[r]) + j] = Frame(ps[k])[j]
        BY <1>4, <2>1
    <2>3. off[k - 1] \in Nat /\ off[k] \in Nat
        BY <1>4, <2>1
    <2>4. PICK y \in Nat \ {0} : y = Size(ps[k])
        BY <1>2, <2>1, FrameFacts
    <2>5. off[k] = off[k - 1] + y
        BY <1>4, <2>1, <2>4
    <2>6. off[k] <= off[n]
        <3>1. k < n \/ k = n
            BY <1>2, <2>1
        <3>2. k < n => off[k] < off[n]
            BY <1>4, <2>1
        <3> QED BY <1>7, <2>3, <3>1, <3>2
    <2>7. off[r + 1] <= off[k - 1]
        <3>1. r + 1 < k - 1 \/ r + 1 = k - 1
            BY <1>5, <2>1
        <3>2. r + 1 < k - 1 => off[r + 1] < off[k - 1]
            BY <1>4, <2>1
        <3> QED BY <1>7, <2>3, <3>1, <3>2
    <2>8. j \in 1..y
        BY <2>4
    <2>9. PICK a \in Nat, b \in Nat, c \in Nat, d \in Nat, f \in Nat :
              a = off[k - 1] /\ b = off[k] /\ c = off[n] /\ d = off[r] /\ f = off[r + 1]
        BY <1>7, <2>3
    <2>10. c = d + l /\ b = a + y /\ f = d + z /\ b <= c /\ f <= a
        BY <1>4, <1>7, <2>5, <2>6, <2>7, <2>9
    <2>11. (a - f) + j \in 1..(l - z) /\ z + ((a - f) + j) = (a - d) + j
        BY <2>8, <2>10, Shifted
    <2> QED BY <1>9, <2>2, <2>9, <2>11
<1>15. FramedAt(t, ps, r + 1, off)
    <2>1. off \in [Nat -> Nat]
        BY <1>4
    <2>2. r + 1 \in 0..n
        BY <1>2, <1>5
    <2> QED BY <1>2, <1>10, <1>12, <1>13, <1>14, <2>1, <2>2 DEF FramedAt
<1> QED BY <1>3, <1>6, <1>15 DEF Framed, t

(* What the client has sent or is sending, and its bytes that the reader   *)
(* has not taken yet, wherever they are: only a new frame and a frame that *)
(* was read change them.                                                   *)
Sent == IF unwritten = <<>> THEN written ELSE Append(written, writing)
Rest == (buffer \o wire) \o unwritten

FramingTypes ==
    /\ written \in Seq(Payload) /\ received \in Seq(Payload)
    /\ unwritten \in Seq(Byte) /\ wire \in Seq(Byte) /\ buffer \in Seq(Byte)
    /\ hung_up \in BOOLEAN /\ is_eof \in BOOLEAN
Stream == Framed(Rest, Sent, Len(received))
Begun == unwritten # <<>> => writing \in Payload /\ Len(unwritten) <= Size(writing)
AtEnd == is_eof = TRUE => hung_up = TRUE /\ wire = <<>>
Handed ==
    /\ Len(received) <= Len(written)
    /\ \A i \in 1..Len(received) : received[i] = written[i] /\ Len(received[i]) \in 1..MAX_REQUEST_BYTES
Decided ==
    /\ verdict \in {"open", "closed", "TransportFailure", "ProtocolError", "FrameTooLarge"}
    /\ verdict \in {"closed", "TransportFailure"} => received = written /\ hung_up = TRUE
    /\ verdict = "closed" => unwritten = <<>> \/ unwritten = Frame(writing)
    /\ verdict = "TransportFailure" => unwritten # <<>>
    /\ verdict = "ProtocolError" => Len(received) < Len(Sent) /\ Sent[Len(received) + 1] = <<>>
    /\ verdict = "FrameTooLarge" => Len(received) < Len(Sent) /\ Len(Sent[Len(received) + 1]) > MAX_REQUEST_BYTES
FramingInv == FramingTypes /\ Stream /\ Begun /\ AtEnd /\ Handed /\ Decided

LEMMA SentFacts ==
    ASSUME FramingTypes, Begun
    PROVE  /\ Sent \in Seq(Payload) /\ Len(written) \in Nat /\ Len(Sent) \in Nat
           /\ \A i \in 1..Len(written) : Sent[i] = written[i]
           /\ unwritten = <<>> => Sent = written
           /\ unwritten # <<>> => Len(Sent) = Len(written) + 1 /\ Sent[Len(Sent)] = writing
           /\ Len(written) <= Len(Sent)
<1>1. CASE unwritten = <<>>
    BY <1>1 DEF Sent, FramingTypes
<1>2. CASE unwritten # <<>>
    BY <1>2, AppendProperties DEF Sent, FramingTypes, Begun
<1> QED BY <1>1, <1>2

LEMMA RestFacts ==
    ASSUME FramingTypes
    PROVE  /\ Rest \in Seq(Byte) /\ Len(Rest) = Len(buffer) + Len(wire) + Len(unwritten)
           /\ \A j \in 1..Len(buffer) : Rest[j] = buffer[j]
           /\ buffer \o wire \in Seq(Byte)
<1>1. buffer \in Seq(Byte) /\ wire \in Seq(Byte) /\ unwritten \in Seq(Byte)
    BY DEF FramingTypes
<1> DEFINE h == buffer \o wire
<1>2. /\ h \in Seq(Byte) /\ Len(h) = Len(buffer) + Len(wire)
      /\ \A i \in 1..Len(buffer) + Len(wire) : h[i] = IF i <= Len(buffer) THEN buffer[i] ELSE wire[i - Len(buffer)]
    BY <1>1, ConcatProperties
<1> HIDE DEF h
<1>3. /\ h \o unwritten \in Seq(Byte) /\ Len(h \o unwritten) = Len(h) + Len(unwritten)
      /\ \A i \in 1..Len(h) + Len(unwritten) : (h \o unwritten)[i] = IF i <= Len(h) THEN h[i] ELSE unwritten[i - Len(h)]
    <2>1. PICK a \in Seq(Byte), b \in Seq(Byte) : a = h /\ b = unwritten
        BY <1>1, <1>2
    <2>2. /\ a \o b \in Seq(Byte) /\ Len(a \o b) = Len(a) + Len(b)
          /\ \A i \in 1..Len(a) + Len(b) : (a \o b)[i] = IF i <= Len(a) THEN a[i] ELSE b[i - Len(a)]
        BY ConcatProperties
    <2> QED BY <2>1, <2>2
<1>4. Len(buffer) \in Nat /\ Len(wire) \in Nat /\ Len(unwritten) \in Nat
    BY <1>1
<1>5. \A j \in 1..Len(buffer) : (h \o unwritten)[j] = buffer[j]
    <2> TAKE j \in 1..Len(buffer)
    <2>1. j \in 1..Len(buffer) + Len(wire) /\ j \in 1..Len(h) + Len(unwritten) /\ j <= Len(h) /\ j <= Len(buffer)
        BY <1>2, <1>4
    <2> QED BY <1>2, <1>3, <2>1
<1> QED BY <1>2, <1>3, <1>4, <1>5 DEF Rest, h

\* Cutting a sequence and joining it again.
LEMMA CutAndJoin ==
    ASSUME NEW s \in Seq(Byte), NEW n \in 1..Len(s)
    PROVE  /\ SubSeq(s, 1, n) \in Seq(Byte) /\ SubSeq(s, n + 1, Len(s)) \in Seq(Byte)
           /\ SubSeq(s, 1, n) \o SubSeq(s, n + 1, Len(s)) = s
           /\ Len(SubSeq(s, n + 1, Len(s))) = Len(s) - n /\ Len(s) \in Nat
           /\ n = Len(s) <=> SubSeq(s, n + 1, Len(s)) = <<>>
<1>1. Len(s) \in Nat /\ 1 \in 1..Len(s) + 1 /\ n \in (1 - 1)..Len(s) /\ Len(s) \in n..Len(s)
    OBVIOUS
<1>2. SubSeq(s, 1, n) \o SubSeq(s, n + 1, Len(s)) = SubSeq(s, 1, Len(s))
    BY <1>1, ConcatAdjacentSubSeq
<1>3. SubSeq(s, 1, Len(s)) = s
    BY SubSeqFull
<1>4. /\ SubSeq(s, 1, n) \in Seq(Byte) /\ SubSeq(s, n + 1, Len(s)) \in Seq(Byte)
      /\ Len(SubSeq(s, n + 1, Len(s))) = Len(s) - n
    OBVIOUS
<1>5. n = Len(s) <=> SubSeq(s, n + 1, Len(s)) = <<>>
    <2> DEFINE t == SubSeq(s, n + 1, Len(s))
    <2>1. t \in Seq(Byte) /\ Len(t) = Len(s) - n
        BY <1>4
    <2> HIDE DEF t
    <2>2. t = <<>> <=> Len(t) = 0
        BY <2>1
    <2>3. n = Len(s) <=> t = <<>>
        BY <1>1, <2>1, <2>2
    <2> QED BY <2>3 DEF t
<1> QED BY <1>1, <1>2, <1>3, <1>4, <1>5

\* The frame that lies at the beginning of the buffer.
LEMMA HeadFrame ==
    ASSUME FramingInv, PrefixBytes <= Len(buffer)
    PROVE  /\ Len(received) < Len(Sent) /\ Sent[Len(received) + 1] \in Payload
           /\ decode_length_prefix(SubSeq(buffer, 1, PrefixBytes)) = Len(Sent[Len(received) + 1])
           /\ Len(Sent[Len(received) + 1]) \in Nat
           /\ PrefixBytes + Len(Sent[Len(received) + 1]) <= Len(buffer) =>
                 SubSeq(buffer, PrefixBytes + 1, PrefixBytes + Len(Sent[Len(received) + 1])) = Sent[Len(received) + 1]
<1>1. PICK r \in Nat : r = Len(received)
    BY DEF FramingInv, FramingTypes
<1>2. Rest \in Seq(Byte) /\ Sent \in Seq(Payload) /\ Framed(Rest, Sent, r) /\ buffer \in Seq(Byte)
    BY <1>1, RestFacts, SentFacts DEF FramingInv, Stream, FramingTypes
<1>3. PrefixBytes \in Nat \ {0} /\ Len(buffer) \in Nat /\ Len(wire) \in Nat /\ Len(unwritten) \in Nat
    BY <1>2, FramingAssumption DEF FramingInv, FramingTypes
<1>4. Rest # <<>>
    <2>1. Len(Rest) > 0
        BY <1>3, RestFacts DEF FramingInv
    <2> QED BY <2>1
<1> DEFINE p == Sent[r + 1]
<1>5. /\ r < Len(Sent) /\ p \in Payload
      /\ \A j \in 1..Size(p) : Rest[j] = Frame(p)[j]
    <2>1. r \in 0..Len(Sent) /\ r # Len(Sent)
        BY <1>2, <1>4, FramedFacts
    <2>2. r < Len(Sent)
        BY <1>2, <2>1
    <2> QED BY <1>2, <2>2, FramedFacts
<1> HIDE DEF p
<1>6. /\ Len(p) \in 0..MaxLength /\ Len(p) \in Nat /\ Size(p) = PrefixBytes + Len(p)
      /\ encode_length_prefix(Len(p)) \in Seq(Byte) /\ Len(encode_length_prefix(Len(p))) = PrefixBytes
      /\ \A i \in 1..PrefixBytes : Frame(p)[i] = encode_length_prefix(Len(p))[i]
      /\ \A i \in 1..Len(p) : Frame(p)[PrefixBytes + i] = p[i]
      /\ p \in Seq(Content)
    BY <1>5, FrameFacts DEF Size
<1>7. \A j \in 1..Len(buffer) : Rest[j] = buffer[j]
    BY RestFacts DEF FramingInv
<1>8. SubSeq(buffer, 1, PrefixBytes) = encode_length_prefix(Len(p))
    <2>1. \A i \in 1..PrefixBytes : buffer[i] \in Byte
        BY <1>2, <1>3
    <2>2. /\ SubSeq(buffer, 1, PrefixBytes) \in Seq(Byte) /\ Len(SubSeq(buffer, 1, PrefixBytes)) = PrefixBytes
          /\ \A i \in 1..PrefixBytes : SubSeq(buffer, 1, PrefixBytes)[i] = buffer[i]
        BY <1>2, <1>3
    <2>3. \A i \in 1..PrefixBytes : buffer[i] = encode_length_prefix(Len(p))[i]
        <3> TAKE i \in 1..PrefixBytes
        <3>1. i \in 1..Len(buffer) /\ i \in 1..Size(p)
            BY <1>3, <1>6
        <3> QED BY <1>5, <1>6, <1>7, <3>1
    <2> DEFINE a == SubSeq(buffer, 1, PrefixBytes)
               e == encode_length_prefix(Len(p))
    <2>4. a \in Seq(Byte) /\ e \in Seq(Byte) /\ Len(a) = Len(e) /\ \A i \in 1..Len(a) : a[i] = e[i]
        BY <1>6, <2>2, <2>3
    <2> HIDE DEF a, e
    <2>5. a = e
        BY <2>4, SeqEqual
    <2> QED BY <2>5 DEF a, e
<1>9. decode_length_prefix(SubSeq(buffer, 1, PrefixBytes)) = Len(p)
    BY <1>6, <1>8, PrefixExact
<1>10. ASSUME PrefixBytes + Len(p) <= Len(buffer)
       PROVE  SubSeq(buffer, PrefixBytes + 1, PrefixBytes + Len(p)) = p
    <2> DEFINE a == SubSeq(buffer, PrefixBytes + 1, PrefixBytes + Len(p))
    <2>1. PICK m \in Nat : m = Len(p)
        BY <1>6
    <2>2. \A i \in (PrefixBytes + 1)..(PrefixBytes + m) : buffer[i] \in Byte
        BY <1>2, <1>3, <1>10, <2>1
    <2>3. /\ a \in Seq(Byte) /\ Len(a) = (IF PrefixBytes + 1 <= PrefixBytes + m THEN (PrefixBytes + m) - (PrefixBytes + 1) + 1 ELSE 0)
          /\ \A i \in 1..((PrefixBytes + m) - (PrefixBytes + 1) + 1) : a[i] = buffer[(PrefixBytes + 1) + i - 1]
        BY <1>3, <2>1, <2>2, SubSeqProperties
    <2> HIDE DEF a
    <2>4. Len(a) = m /\ \A i \in 1..m : a[i] = buffer[PrefixBytes + i]
        <3>1. (PrefixBytes + m) - (PrefixBytes + 1) + 1 = m /\ \A i \in 1..m : (PrefixBytes + 1) + i - 1 = PrefixBytes + i
            BY <1>3
        <3>2. (IF PrefixBytes + 1 <= PrefixBytes + m THEN (PrefixBytes + m) - (PrefixBytes + 1) + 1 ELSE 0) = m
            BY <1>3
        <3> QED BY <2>3, <3>1, <3>2
    <2>5. \A i \in 1..m : buffer[PrefixBytes + i] = p[i]
        <3> TAKE i \in 1..m
        <3>1. PrefixBytes + i \in 1..Len(buffer) /\ PrefixBytes + i \in 1..Size(p)
            BY <1>3, <1>6, <1>10, <2>1
        <3> QED BY <1>5, <1>6, <1>7, <2>1, <3>1
    <2>6. p \in Seq(Byte)
        <3>1. p \in Seq(Content)
            BY <1>6
        <3>2. Content \subseteq Byte
            BY FramingAssumption DEF Byte
        <3> QED BY <3>1, <3>2, SeqMonotonic
    <2>7. a = p
        BY <2>1, <2>3, <2>4, <2>5, <2>6, SeqEqual
    <2> QED BY <2>7 DEF a
<1> QED BY <1>1, <1>5, <1>6, <1>9, <1>10 DEF p

\* Bytes joined in whichever order.
LEMMA Joined ==
    ASSUME NEW s \in Seq(Byte), NEW t \in Seq(Byte), NEW u \in Seq(Byte)
    PROVE  (s \o t) \o u = s \o (t \o u) /\ s \o t \in Seq(Byte)
<1>1. (s \o t) \o u = s \o (t \o u)
    <2>1. \A S : \A a, b, c \in Seq(S) : (a \o b) \o c = a \o (b \o c)
        BY ConcatAssociative, Zenon
    <2>2. \A a, b, c \in Seq(Byte) : (a \o b) \o c = a \o (b \o c)
        BY <2>1
    <2> QED BY <2>2
<1>2. s \o t \in Seq(Byte)
    BY ConcatProperties, Zenon
<1> QED BY <1>1, <1>2

\* A step that leaves the bytes, the frames and the reader alone keeps the stream.
LEMMA ReadNothing ==
    ASSUME FramingInv, FramingTypes', Begun', AtEnd', Rest' = Rest, Sent' = Sent, UNCHANGED <<received, verdict>>,
           Len(written) <= Len(written'), \A i \in 1..Len(written) : written'[i] = written[i],
           verdict \in {"closed", "TransportFailure"} => UNCHANGED <<written, writing, unwritten, hung_up>>
    PROVE  FramingInv'
<1>1. Stream'
    BY DEF FramingInv, Stream
<1>2. Handed'
    <2>1. Len(received) \in Nat /\ Len(written) \in Nat /\ Len(written') \in Nat
        BY DEF FramingInv, FramingTypes
    <2>2. \A i \in 1..Len(received) : i \in 1..Len(written)
        BY <2>1 DEF FramingInv, Handed
    <2> QED BY <2>1, <2>2 DEF FramingInv, Handed
<1>3. Decided'
    BY DEF FramingInv, Decided
<1> QED BY <1>1, <1>2, <1>3 DEF FramingInv

\* The client starts a frame.
LEMMA client_begins_Inv ==
    ASSUME FramingInv, NEW p \in Payload, client_begins(p)
    PROVE  FramingInv'
<1>1. /\ hung_up = FALSE /\ unwritten = <<>> /\ writing' = p /\ unwritten' = Frame(p)
      /\ UNCHANGED <<written, hung_up, wire, buffer, is_eof, received, verdict>>
    BY DEF client_begins, FramingInv, FramingTypes
<1>2. Frame(p) \in Seq(Byte) /\ Len(Frame(p)) = Size(p) /\ Size(p) \in Nat \ {0} /\ Frame(p) # <<>>
    BY FrameFacts
<1>3. Sent = written /\ Sent' = Append(written, p)
    BY <1>1, <1>2 DEF Sent
<1>4. FramingTypes'
    BY <1>1, <1>2 DEF FramingInv, FramingTypes
<1>5. Begun' /\ AtEnd' /\ Handed'
    BY <1>1, <1>2 DEF FramingInv, Begun, AtEnd, Handed
<1>6. Rest' = Rest \o Frame(p) /\ Rest \in Seq(Byte)
    <2>1. buffer \o wire \in Seq(Byte) /\ Rest \in Seq(Byte)
        BY RestFacts DEF FramingInv
    <2>2. (buffer \o wire) \o <<>> = buffer \o wire
        BY <2>1, ConcatEmptySeq
    <2>3. Rest = buffer \o wire
        BY <1>1, <2>2 DEF Rest
    <2>4. Rest' = (buffer \o wire) \o Frame(p)
        BY <1>1 DEF Rest
    <2> QED BY <2>1, <2>3, <2>4
<1>7. Stream'
    <2>1. written \in Seq(Payload) /\ Framed(Rest, written, Len(received))
        BY <1>3 DEF FramingInv, FramingTypes, Stream
    <2>2. Framed(Rest \o Frame(p), Append(written, p), Len(received))
        BY <1>6, <2>1, FramedAppend
    <2> QED BY <1>1, <1>3, <1>6, <2>2 DEF Stream
<1>8. Decided'
    <2>1. verdict \notin {"closed", "TransportFailure"}
        BY <1>1 DEF FramingInv, Decided
    <2>2. /\ Len(written) \in Nat /\ Len(Append(written, p)) = Len(written) + 1
          /\ \A i \in 1..Len(written) : Append(written, p)[i] = written[i]
        BY AppendProperties DEF FramingInv, FramingTypes
    <2>3. Len(received) \in Nat
        BY DEF FramingInv, FramingTypes
    <2>4. Len(received) < Len(written) => /\ Len(received) < Len(Append(written, p))
                                          /\ Append(written, p)[Len(received) + 1] = written[Len(received) + 1]
        BY <2>2, <2>3
    <2> QED BY <1>1, <1>3, <2>1, <2>4 DEF FramingInv, Decided
<1> QED BY <1>4, <1>5, <1>7, <1>8 DEF FramingInv

\* The client writes some more of it.
LEMMA client_sends_Inv ==
    ASSUME FramingInv, NEW n \in 1..Len(unwritten), client_sends(n)
    PROVE  FramingInv'
<1> DEFINE a == SubSeq(unwritten, 1, n)
           b == SubSeq(unwritten, n + 1, Len(unwritten))
<1>1. /\ hung_up = FALSE /\ wire' = wire \o a /\ unwritten' = b
      /\ written' = IF b = <<>> THEN Append(written, writing) ELSE written
      /\ UNCHANGED <<writing, hung_up, buffer, is_eof, received, verdict>>
    BY DEF client_sends, FramingInv, FramingTypes
<1>2. /\ unwritten \in Seq(Byte) /\ wire \in Seq(Byte) /\ buffer \in Seq(Byte)
      /\ written \in Seq(Payload) /\ unwritten # <<>> /\ writing \in Payload /\ Len(unwritten) <= Size(writing)
    BY DEF FramingInv, FramingTypes, Begun
<1>3. a \in Seq(Byte) /\ b \in Seq(Byte) /\ a \o b = unwritten /\ Len(b) = Len(unwritten) - n /\ Len(unwritten) \in Nat
    BY <1>2, CutAndJoin
<1> HIDE DEF a, b
<1>4. Sent = Append(written, writing) /\ Sent' = Sent
    BY <1>1, <1>2 DEF Sent
<1>5. wire' \in Seq(Byte) /\ written' \in Seq(Payload)
    BY <1>1, <1>2, <1>3, ConcatProperties, AppendProperties
<1>6. FramingTypes'
    BY <1>1, <1>2, <1>3, <1>5 DEF FramingInv, FramingTypes
<1>7. Begun' /\ AtEnd'
    <2>1. Size(writing) \in Nat
        BY <1>2, FrameFacts
    <2>2. Len(b) <= Size(writing)
        BY <1>2, <1>3, <2>1
    <2> QED BY <1>1, <1>2, <2>2 DEF FramingInv, Begun, AtEnd
<1>8. Rest' = Rest
    <2>1. buffer \o wire \in Seq(Byte) /\ buffer \o (wire \o a) = (buffer \o wire) \o a
        BY <1>2, <1>3, Joined
    <2>2. ((buffer \o wire) \o a) \o b = (buffer \o wire) \o (a \o b)
        BY <1>3, <2>1, Joined
    <2> QED BY <1>1, <1>3, <2>1, <2>2 DEF Rest
<1>9. Len(written) <= Len(written') /\ \A i \in 1..Len(written) : written'[i] = written[i]
    <2>1. /\ Len(written) \in Nat /\ Len(Append(written, writing)) = Len(written) + 1
          /\ \A i \in 1..Len(written) : Append(written, writing)[i] = written[i]
        BY <1>2, AppendProperties
    <2> QED BY <1>1, <2>1
<1>10. verdict \notin {"closed", "TransportFailure"}
    BY <1>1 DEF FramingInv, Decided
<1> QED BY <1>1, <1>4, <1>6, <1>7, <1>8, <1>9, <1>10, ReadNothing

\* Bytes arrive.
LEMMA arrive_Inv ==
    ASSUME FramingInv, NEW n \in 1..Len(wire), arrive(n)
    PROVE  FramingInv'
<1> DEFINE a == SubSeq(wire, 1, n)
           b == SubSeq(wire, n + 1, Len(wire))
<1>1. /\ buffer' = buffer \o a /\ wire' = b
      /\ UNCHANGED <<written, writing, unwritten, hung_up, is_eof, received, verdict>>
    BY DEF arrive
<1>2. unwritten \in Seq(Byte) /\ wire \in Seq(Byte) /\ buffer \in Seq(Byte) /\ wire # <<>>
    BY DEF FramingInv, FramingTypes
<1>3. a \in Seq(Byte) /\ b \in Seq(Byte) /\ a \o b = wire
    BY <1>2, CutAndJoin
<1> HIDE DEF a, b
<1>4. FramingTypes'
    <2>1. buffer' \in Seq(Byte)
        BY <1>1, <1>2, <1>3, ConcatProperties
    <2> QED BY <1>1, <1>3, <2>1 DEF FramingInv, FramingTypes
<1>5. Begun' /\ AtEnd'
    BY <1>1, <1>2 DEF FramingInv, Begun, AtEnd, FramingTypes
<1>6. Rest' = Rest
    <2>1. (buffer \o a) \o b = buffer \o (a \o b)
        BY <1>2, <1>3, Joined
    <2> QED BY <1>1, <1>3, <2>1 DEF Rest
<1>7. Sent' = Sent
    BY <1>1 DEF Sent
<1>8. Len(written) <= Len(written')
    BY <1>1 DEF FramingInv, FramingTypes
<1> QED BY <1>1, <1>4, <1>5, <1>6, <1>7, <1>8, ReadNothing

\* The client hangs up; the reader learns of it; nothing happens.
LEMMA quiet_framing_Inv ==
    ASSUME FramingInv, client_hangs_up \/ eof \/ UNCHANGED framing_vars
    PROVE  FramingInv'
<1>1. UNCHANGED <<written, writing, unwritten, wire, buffer, received, verdict>>
      /\ hung_up' \in {hung_up, TRUE} /\ is_eof' \in {is_eof, TRUE}
      /\ (is_eof' = is_eof \/ (hung_up' = TRUE /\ wire = <<>>)) /\ (hung_up = FALSE \/ hung_up' = hung_up)
    BY DEF client_hangs_up, eof, framing_vars, FramingInv, FramingTypes
<1>2. FramingTypes' /\ Begun' /\ AtEnd'
    BY <1>1 DEF FramingInv, FramingTypes, Begun, AtEnd
<1>3. Rest' = Rest /\ Sent' = Sent
    BY <1>1 DEF Rest, Sent
<1>4. Len(written) <= Len(written')
    BY <1>1 DEF FramingInv, FramingTypes
<1>5. verdict \in {"closed", "TransportFailure"} => hung_up' = hung_up
    BY <1>1 DEF FramingInv, Decided
<1> QED BY <1>1, <1>2, <1>3, <1>4, <1>5, ReadNothing

\* What the reader makes of the bytes it has: the next frame, the error that the
\* next frame deserves, or the end of a stream that has really ended.
LEMMA ExtractFacts ==
    ASSUME FramingInv, NEW x, x = extract_frame_payload(buffer, is_eof)
    PROVE  /\ x.used > 0 => /\ Len(received) < Len(written) /\ x.payload = written[Len(received) + 1]
                            /\ written[Len(received) + 1] = Sent[Len(received) + 1]
                            /\ x.used = Size(Sent[Len(received) + 1]) /\ x.used \in 1..Len(buffer)
                            /\ Len(x.payload) \in 1..MAX_REQUEST_BYTES
           /\ x.error \in {Ok, "TransportFailure", "ProtocolError", "FrameTooLarge"}
           /\ x.error = "ProtocolError" => Len(received) < Len(Sent) /\ Sent[Len(received) + 1] = <<>>
           /\ x.error = "FrameTooLarge" => /\ Len(received) < Len(Sent)
                                           /\ Len(Sent[Len(received) + 1]) > MAX_REQUEST_BYTES
           /\ x.error = "TransportFailure" => Len(received) = Len(written) /\ hung_up = TRUE /\ unwritten # <<>>
<1>1. PICK r \in Nat : r = Len(received)
    BY DEF FramingInv, FramingTypes
<1>2. PICK n \in Nat : n = Len(written)
    BY DEF FramingInv, FramingTypes
<1>3. PICK l \in Nat : l = Len(buffer)
    BY DEF FramingInv, FramingTypes
<1>4. PICK u \in Nat : u = Len(unwritten)
    BY DEF FramingInv, FramingTypes
<1>5. PICK w \in Nat : w = Len(wire)
    BY DEF FramingInv, FramingTypes
<1>6. PrefixBytes \in Nat \ {0} /\ MAX_REQUEST_BYTES \in Nat \ {0}
    BY FramingAssumption
<1> DEFINE m == Len(Sent)
           p == Sent[r + 1]
<1>7. /\ Sent \in Seq(Payload) /\ m \in Nat /\ n <= m /\ r <= n
      /\ \A i \in 1..n : Sent[i] = written[i]
      /\ unwritten = <<>> => m = n
      /\ unwritten # <<>> => m = n + 1 /\ Sent[m] = writing /\ writing \in Payload /\ u <= Size(writing)
    BY <1>1, <1>2, <1>4, SentFacts DEF FramingInv, Begun, Handed
<1>8. Rest \in Seq(Byte) /\ Len(Rest) = l + w + u /\ Framed(Rest, Sent, r)
    BY <1>1, <1>3, <1>4, <1>5, RestFacts DEF FramingInv, Stream
<1>9. unwritten = <<>> <=> u = 0
    BY <1>4 DEF FramingInv, FramingTypes
<1>10. is_eof = TRUE => hung_up = TRUE /\ w = 0
    BY <1>5 DEF FramingInv, AtEnd
<1>11. buffer = <<>> <=> l = 0
    BY <1>3 DEF FramingInv, FramingTypes
\* A frame that the client has written to the end is in the buffer and the wire.
<1>12. r < n => p \in Payload /\ Size(p) \in Nat \ {0} /\ Size(p) <= l + w
    <2>1. SUFFICES ASSUME r < n PROVE p \in Payload /\ Size(p) \in Nat \ {0} /\ Size(p) <= l + w
        OBVIOUS
    <2>2. r < m /\ (r + 1 < m => Size(p) + Size(Sent[m]) <= l + w + u) /\ Size(p) <= l + w + u /\ p \in Payload
        BY <1>1, <1>2, <1>7, <1>8, <2>1, FramedFacts
    <2>3. Size(p) \in Nat \ {0}
        BY <2>2, FrameFacts
    <2>4. CASE u = 0
        BY <1>3, <1>5, <2>2, <2>3, <2>4
    <2>5. CASE u # 0
        <3>1. m = n + 1 /\ Sent[m] = writing /\ writing \in Payload /\ u <= Size(writing)
            BY <1>7, <1>9, <2>5
        <3>2. Size(writing) \in Nat
            BY <3>1, FrameFacts
        <3>3. r + 1 < m
            BY <1>1, <1>2, <2>1, <3>1
        <3>4. Size(p) + Size(writing) <= l + w + u
            BY <2>2, <3>1, <3>3
        <3> QED BY <1>3, <1>4, <1>5, <2>2, <2>3, <3>1, <3>2, <3>4
    <2> QED BY <2>4, <2>5
\* Bytes that are all the reader will get, and no frame in them: the last frame
\* was broken off.
<1>13. ASSUME is_eof = TRUE, buffer # <<>>, r < n => l < Size(p)
       PROVE  r = n /\ hung_up = TRUE /\ unwritten # <<>>
    <2>1. hung_up = TRUE /\ w = 0 /\ l # 0
        BY <1>10, <1>11, <1>13
    <2>2. r = n
        <3>1. r < n => Size(p) \in Nat /\ Size(p) <= l
            BY <1>3, <1>12, <2>1
        <3>2. ~(r < n)
            BY <1>3, <1>13, <3>1
        <3> QED BY <1>1, <1>2, <1>7, <3>2
    <2>3. unwritten # <<>>
        <3>1. SUFFICES ASSUME unwritten = <<>> PROVE FALSE
            OBVIOUS
        <3>2. r = m
            BY <1>7, <2>2, <3>1
        <3>3. Rest = <<>>
            BY <1>7, <1>8, <3>2, FramedFacts
        <3>4. l + w + u = 0
            BY <1>8, <3>3
        <3> QED BY <1>3, <1>4, <1>5, <2>1, <3>4
    <2> QED BY <2>1, <2>2, <2>3
<1>14. CASE l < PrefixBytes
    <2>1. x = IF premature(buffer, is_eof) THEN Failed("TransportFailure") ELSE None
        BY <1>3, <1>14 DEF extract_frame_payload
    <2>2. x.used = 0 /\ x.error \in {Ok, "TransportFailure"}
          /\ (x.error = "TransportFailure" => is_eof = TRUE /\ buffer # <<>>)
        BY <2>1 DEF premature, Failed, None, Ok, FramingInv, FramingTypes
    <2>3. r < n => l < Size(p)
        <3>1. r < n => p \in Payload
            BY <1>12
        <3>2. r < n => Len(p) \in Nat /\ Size(p) = PrefixBytes + Len(p)
            BY <3>1, FrameFacts, FramingAssumption DEF Size
        <3> QED BY <1>3, <1>6, <1>14, <3>2
    <2>4. x.error = "TransportFailure" => r = n /\ hung_up = TRUE /\ unwritten # <<>>
        BY <1>13, <2>2, <2>3
    <2>5. x.error \notin {"ProtocolError", "FrameTooLarge"} /\ ~(x.used > 0)
        BY <2>2 DEF Ok
    <2> QED BY <1>1, <1>2, <2>2, <2>4, <2>5
<1>15. CASE ~(l < PrefixBytes)
    <2>1. PICK d : d = decode_length_prefix(SubSeq(buffer, 1, PrefixBytes))
        OBVIOUS
    <2>2. PrefixBytes <= Len(buffer) /\ ~(Len(buffer) < PrefixBytes)
        BY <1>3, <1>6, <1>15
    <2>3. /\ r < m /\ p \in Payload /\ d = Len(p) /\ d \in Nat
          /\ PrefixBytes + d <= l => SubSeq(buffer, PrefixBytes + 1, PrefixBytes + d) = p
        BY <1>1, <1>3, <2>1, <2>2, HeadFrame
    <2>4. Size(p) = PrefixBytes + d
        BY <2>3 DEF Size
    <2>5. x = IF validate_request_frame_length(d) # Ok THEN Failed(validate_request_frame_length(d))
              ELSE IF l < PrefixBytes + d
                     THEN IF premature(buffer, is_eof) THEN Failed("TransportFailure") ELSE None
              ELSE [error |-> Ok, payload |-> SubSeq(buffer, PrefixBytes + 1, PrefixBytes + d), used |-> total_needed(d)]
        BY <1>3, <2>1, <2>2 DEF extract_frame_payload
    <2>6. CASE d = 0
        <3>1. x = Failed("ProtocolError")
            BY <2>5, <2>6 DEF validate_request_frame_length, Ok
        <3>2. p = <<>>
            <4>1. p \in Seq(Content) /\ Len(p) = 0
                BY <2>3, <2>6, FrameFacts
            <4> HIDE DEF p
            <4> QED BY <4>1
        <3>3. x.used = 0 /\ x.error = "ProtocolError"
            BY <3>1 DEF Failed
        <3>4. ~(x.used > 0) /\ x.error # "TransportFailure" /\ x.error # "FrameTooLarge"
            BY <3>3
        <3> QED BY <1>1, <2>3, <3>2, <3>3, <3>4
    <2>7. CASE d # 0 /\ d > MAX_REQUEST_BYTES
        <3>1. x = Failed("FrameTooLarge")
            BY <2>5, <2>7 DEF validate_request_frame_length, Ok
        <3>3. x.used = 0 /\ x.error = "FrameTooLarge"
            BY <3>1 DEF Failed
        <3>4. ~(x.used > 0) /\ x.error # "TransportFailure" /\ x.error # "ProtocolError"
            BY <3>3
        <3> QED BY <1>1, <2>3, <2>7, <3>3, <3>4
    <2>8. CASE d # 0 /\ ~(d > MAX_REQUEST_BYTES) /\ l < PrefixBytes + d
        <3>1. x = IF premature(buffer, is_eof) THEN Failed("TransportFailure") ELSE None
            BY <2>5, <2>8 DEF validate_request_frame_length, Ok
        <3>2. x.used = 0 /\ x.error \in {Ok, "TransportFailure"}
              /\ (x.error = "TransportFailure" => is_eof = TRUE /\ buffer # <<>>)
            BY <3>1 DEF premature, Failed, None, Ok, FramingInv, FramingTypes
        <3>3. x.error = "TransportFailure" => r = n /\ hung_up = TRUE /\ unwritten # <<>>
            BY <1>13, <2>4, <2>8, <3>2
        <3>4. x.error \notin {"ProtocolError", "FrameTooLarge"} /\ ~(x.used > 0)
            BY <3>2 DEF Ok
        <3> QED BY <1>1, <1>2, <3>2, <3>3, <3>4
    <2>9. CASE d # 0 /\ ~(d > MAX_REQUEST_BYTES) /\ ~(l < PrefixBytes + d)
        <3>1. x = [error |-> Ok, payload |-> SubSeq(buffer, PrefixBytes + 1, PrefixBytes + d), used |-> total_needed(d)]
            BY <2>5, <2>9 DEF validate_request_frame_length
        <3>2. PrefixBytes + d <= l /\ d \in 1..MAX_REQUEST_BYTES
            BY <1>3, <1>6, <2>3, <2>9
        <3>3. x.error = Ok /\ x.payload = p /\ x.used = Size(p)
            BY <2>3, <2>4, <3>1, <3>2 DEF total_needed
        <3>4. x.used \in 1..l /\ Len(x.payload) \in 1..MAX_REQUEST_BYTES
            BY <1>3, <1>6, <2>3, <2>4, <3>2, <3>3
        <3>5. r < n
            <4>1. SUFFICES ASSUME ~(r < n) PROVE FALSE
                OBVIOUS
            <4>2. r = n /\ m = n + 1 /\ unwritten # <<>>
                BY <1>1, <1>2, <1>7, <2>3, <4>1
            <4>3. Size(p) = l + w + u
                BY <1>7, <1>8, <4>2, FramedFacts
            <4>4. u # 0
                BY <1>9, <4>2
            <4> QED BY <1>3, <1>4, <1>5, <2>3, <2>4, <3>2, <4>3, <4>4
        <3>6. written[r + 1] = p
            BY <1>1, <1>2, <1>7, <3>5
        <3>7. x.error \notin {"ProtocolError", "FrameTooLarge", "TransportFailure"}
            BY <3>3 DEF Ok
        <3> QED BY <1>1, <1>2, <1>3, <3>3, <3>4, <3>5, <3>6, <3>7
    <2> QED BY <2>6, <2>7, <2>8, <2>9
<1> QED BY <1>14, <1>15

\* What follows the first of two sequences.
LEMMA AfterFirst ==
    ASSUME NEW a \in Seq(Byte), NEW t \in Seq(Byte), NEW z, z = Len(a)
    PROVE  SubSeq(a \o t, z + 1, Len(a \o t)) = t
<1> DEFINE c == a \o t
           d == SubSeq(c, z + 1, Len(c))
<1>1. z \in Nat /\ Len(t) \in Nat
    OBVIOUS
<1>2. c \in Seq(Byte) /\ Len(c) = z + Len(t)
      /\ \A i \in 1..z + Len(t) : c[i] = IF i <= z THEN a[i] ELSE t[i - z]
    BY ConcatProperties
<1> HIDE DEF c
<1>3. d \in Seq(Byte) /\ Len(d) = Len(t) /\ \A i \in 1..Len(t) : d[i] = c[z + i]
    BY <1>1, <1>2
<1>4. \A i \in 1..Len(t) : c[z + i] = t[i]
    <2> TAKE i \in 1..Len(t)
    <2>1. z + i \in 1..z + Len(t) /\ ~(z + i <= z) /\ (z + i) - z = i
        BY <1>1
    <2> QED BY <1>2, <2>1
<1> HIDE DEF d
<1>5. d = t
    BY <1>3, <1>4, SeqEqual
<1> QED BY <1>5 DEF d, c

\* The stream is at an end, and so is what it carried: nothing, or one whole
\* frame that never left the client.
LEMMA StreamEnds ==
    ASSUME FramingInv, Rest = unwritten
    PROVE  Len(received) = Len(written) /\ (unwritten = <<>> \/ unwritten = Frame(writing))
<1>1. PICK r \in Nat : r = Len(received)
    BY DEF FramingInv, FramingTypes
<1>2. PICK n \in Nat : n = Len(written)
    BY DEF FramingInv, FramingTypes
<1>3. r <= n /\ Framed(Rest, Sent, r) /\ Rest \in Seq(Byte) /\ Sent \in Seq(Payload)
    BY <1>1, <1>2, RestFacts, SentFacts DEF FramingInv, Handed, Stream
<1>4. CASE unwritten = <<>>
    <2>1. Sent = written
        BY <1>4, SentFacts DEF FramingInv
    <2>2. r = Len(Sent)
        BY <1>3, <1>4, FramedFacts
    <2> QED BY <1>1, <1>4, <2>1, <2>2
<1>5. CASE unwritten # <<>>
    <2>1. Len(Sent) = n + 1 /\ Sent[n + 1] = writing /\ writing \in Payload /\ Len(unwritten) <= Size(writing)
        <3>1. Len(Sent) = Len(written) + 1 /\ Sent[Len(Sent)] = writing
            BY <1>5, SentFacts DEF FramingInv
        <3> QED BY <1>2, <1>5, <3>1 DEF FramingInv, Begun
    <2>2. PICK u \in Nat : u = Len(unwritten)
        BY DEF FramingInv, FramingTypes
    <2>3. PICK y \in Nat \ {0} : y = Size(writing)
        BY <2>1, FrameFacts
    <2>4. r = n
        <3>1. SUFFICES ASSUME r # n PROVE FALSE
            OBVIOUS
        <3>2. r < Len(Sent) /\ r + 1 < Len(Sent)
            BY <1>3, <2>1, <3>1
        <3>3. Sent[r + 1] \in Payload /\ Size(Sent[r + 1]) + y <= u
            BY <1>3, <2>1, <2>2, <2>3, <3>2, FramedFacts
        <3>4. Size(Sent[r + 1]) \in Nat \ {0}
            BY <3>3, FrameFacts
        <3> QED BY <2>1, <2>2, <2>3, <3>3, <3>4
    <2>5. u = y /\ \A j \in 1..y : unwritten[j] = Frame(writing)[j]
        <3>1. r < Len(Sent) /\ r + 1 = Len(Sent)
            BY <2>1, <2>4
        <3> QED BY <1>3, <2>1, <2>2, <2>3, <2>4, <3>1, FramedFacts
    <2>6. Frame(writing) \in Seq(Byte) /\ Len(Frame(writing)) = y /\ unwritten \in Seq(Byte)
        BY <2>1, <2>3, FrameFacts DEF FramingInv, FramingTypes
    <2>7. unwritten = Frame(writing)
        <3>1. PICK f \in Seq(Byte) : f = Frame(writing)
            BY <2>6
        <3>2. Len(f) = Len(unwritten) /\ \A j \in 1..Len(unwritten) : unwritten[j] = f[j]
            BY <2>2, <2>5, <2>6, <3>1
        <3>3. unwritten = f
            BY <2>6, <3>2, SeqEqual
        <3> QED BY <3>1, <3>3
    <2> QED BY <1>1, <1>2, <2>4, <2>7
<1> QED BY <1>4, <1>5

\* The reader takes a frame, or ends.
LEMMA extract_next_Inv ==
    ASSUME FramingInv, extract_next
    PROVE  FramingInv'
<1>1. PICK x : x = extract_frame_payload(buffer, is_eof)
    OBVIOUS
<1>2. /\ verdict = "open" /\ UNCHANGED <<written, writing, unwritten, hung_up, wire, is_eof>>
      /\ \/ /\ x.used > 0 /\ received' = Append(received, x.payload)
            /\ buffer' = SubSeq(buffer, x.used + 1, Len(buffer)) /\ UNCHANGED verdict
         \/ x.error # Ok /\ verdict' = x.error /\ UNCHANGED <<received, buffer>>
         \/ x = None /\ is_eof = TRUE /\ buffer = <<>> /\ verdict' = "closed" /\ UNCHANGED <<received, buffer>>
    BY <1>1 DEF extract_next, FramingInv, FramingTypes
<1>3. PICK r \in Nat : r = Len(received)
    BY DEF FramingInv, FramingTypes
<1>4. PICK n \in Nat : n = Len(written)
    BY DEF FramingInv, FramingTypes
<1>5. received \in Seq(Payload) /\ written \in Seq(Payload) /\ buffer \in Seq(Byte) /\ wire \in Seq(Byte)
      /\ unwritten \in Seq(Byte) /\ Sent \in Seq(Payload) /\ Sent' = Sent
    BY <1>2, SentFacts DEF FramingInv, FramingTypes, Sent
<1>6. r <= n /\ \A i \in 1..r : received[i] = written[i] /\ Len(received[i]) \in 1..MAX_REQUEST_BYTES
    BY <1>3, <1>4 DEF FramingInv, Handed
<1>7. CASE /\ x.used > 0 /\ received' = Append(received, x.payload)
           /\ buffer' = SubSeq(buffer, x.used + 1, Len(buffer)) /\ UNCHANGED verdict
    <2>1. PICK z : z = x.used
        OBVIOUS
    <2>2. /\ r < n /\ x.payload = written[r + 1] /\ written[r + 1] = Sent[r + 1]
          /\ z = Size(Sent[r + 1]) /\ z \in 1..Len(buffer) /\ Len(x.payload) \in 1..MAX_REQUEST_BYTES
        BY <1>1, <1>3, <1>4, <1>7, <2>1, ExtractFacts
    <2>3. x.payload \in Payload
        BY <1>4, <1>5, <2>2
    <2>4. /\ received' \in Seq(Payload) /\ Len(received') = r + 1 /\ received'[r + 1] = x.payload
          /\ \A i \in 1..r : received'[i] = received[i]
        BY <1>3, <1>5, <1>7, <2>3, AppendProperties
    <2> DEFINE b == SubSeq(buffer, z + 1, Len(buffer))
    <2>5. b \in Seq(Byte) /\ buffer' = b /\ SubSeq(buffer, 1, z) \in Seq(Byte) /\ SubSeq(buffer, 1, z) \o b = buffer
          /\ Len(SubSeq(buffer, 1, z)) = z
        <3>1. b \in Seq(Byte) /\ SubSeq(buffer, 1, z) \in Seq(Byte) /\ SubSeq(buffer, 1, z) \o b = buffer
            BY <1>5, <2>2, CutAndJoin
        <3>2. Len(SubSeq(buffer, 1, z)) = z
            BY <1>5, <2>2
        <3> QED BY <1>7, <2>1, <3>1, <3>2
    <2>6. FramingTypes'
        BY <1>2, <1>5, <2>4, <2>5 DEF FramingInv, FramingTypes
    <2>7. Begun' /\ AtEnd'
        BY <1>2 DEF FramingInv, Begun, AtEnd
    <2>8. Handed'
        <3>1. \A i \in 1..(r + 1) : i \in 1..r \/ i = r + 1
            OBVIOUS
        <3>2. r + 1 <= n
            BY <2>2
        <3> QED BY <1>2, <1>3, <1>4, <1>6, <2>2, <2>4, <3>1, <3>2 DEF Handed
    <2>9. Decided'
        BY <1>2, <1>7 DEF Decided
    <2>10. Rest' = SubSeq(Rest, z + 1, Len(Rest))
        <3>1. Rest' = (b \o wire) \o unwritten
            BY <1>2, <2>5 DEF Rest
        <3> HIDE DEF b
        <3>2. SubSeq(Rest, z + 1, Len(Rest)) = (b \o wire) \o unwritten
            <4>1. PICK a \in Seq(Byte) : a \o b = buffer /\ Len(a) = z
                BY <2>5
            <4>2. b \in Seq(Byte) /\ wire \in Seq(Byte) /\ unwritten \in Seq(Byte)
                BY <1>5, <2>5
            <4>3. (a \o b) \o wire = a \o (b \o wire) /\ b \o wire \in Seq(Byte)
                BY <4>2, Joined
            <4>4. PICK u, v \in Seq(Byte) : u = buffer \o wire /\ v = b \o wire /\ u = a \o v
                <5>1. buffer \o wire \in Seq(Byte)
                    BY <1>5, Joined
                <5> QED BY <4>1, <4>3, <5>1
            <4>5. SubSeq(u \o unwritten, z + 1, Len(u \o unwritten)) = v \o unwritten
                <5>1. u = a \o v /\ z = Len(a)
                    BY <4>1, <4>4
                <5>2. PICK d \in Seq(Byte) : d = unwritten
                    BY <4>2
                <5>3. (a \o v) \o d = a \o (v \o d)
                    BY Joined
                <5>4. PICK t \in Seq(Byte) : t = v \o d
                    BY Joined
                <5>5. SubSeq(a \o t, z + 1, Len(a \o t)) = t
                    BY <5>1, AfterFirst
                <5>6. u \o d = a \o t
                    BY <5>1, <5>3, <5>4
                <5> QED BY <5>2, <5>4, <5>5, <5>6
            <4> QED BY <4>4, <4>5 DEF Rest
        <3> QED BY <3>1, <3>2
    <2>11. Stream'
        <3>1. Framed(Rest, Sent, r) /\ Rest \in Seq(Byte)
            BY <1>3, RestFacts DEF FramingInv, Stream
        <3>2. r < Len(Sent)
            BY <1>3, <1>4, <2>2, SentFacts DEF FramingInv
        <3>3. Framed(SubSeq(Rest, Size(Sent[r + 1]) + 1, Len(Rest)), Sent, r + 1)
            BY <1>5, <3>1, <3>2, FramedDrop
        <3> QED BY <1>5, <2>2, <2>4, <2>10, <3>3 DEF Stream
    <2> QED BY <2>6, <2>7, <2>8, <2>9, <2>11 DEF FramingInv
<1>8. ASSUME UNCHANGED <<received, buffer>>
      PROVE  FramingTypes' /\ Stream' /\ Begun' /\ AtEnd' /\ Handed'
    <2>1. Rest' = Rest
        BY <1>2, <1>8 DEF Rest
    <2> QED BY <1>2, <1>5, <1>8, <2>1 DEF FramingInv, FramingTypes, Stream, Begun, AtEnd, Handed
\* All of it read: the same payloads.
<1>9. ASSUME r = n PROVE received = written
    BY <1>3, <1>4, <1>5, <1>6, <1>9, SeqEqual
<1>10. CASE x.error # Ok /\ verdict' = x.error /\ UNCHANGED <<received, buffer>>
    <2>1. /\ verdict' \in {"TransportFailure", "ProtocolError", "FrameTooLarge"}
          /\ verdict' = "ProtocolError" => r < Len(Sent) /\ Sent[r + 1] = <<>>
          /\ verdict' = "FrameTooLarge" => r < Len(Sent) /\ Len(Sent[r + 1]) > MAX_REQUEST_BYTES
          /\ verdict' = "TransportFailure" => r = n /\ hung_up = TRUE /\ unwritten # <<>>
        BY <1>1, <1>3, <1>4, <1>10, ExtractFacts
    <2>2. Decided'
        BY <1>2, <1>3, <1>5, <1>9, <1>10, <2>1 DEF Decided
    <2> QED BY <1>8, <1>10, <2>2 DEF FramingInv
<1>11. CASE x = None /\ is_eof = TRUE /\ buffer = <<>> /\ verdict' = "closed" /\ UNCHANGED <<received, buffer>>
    <2>1. hung_up = TRUE /\ wire = <<>>
        BY <1>11 DEF FramingInv, AtEnd
    <2>2. Rest = unwritten
        <3>1. <<>> \o <<>> = <<>> /\ <<>> \o unwritten = unwritten
            BY <1>5, ConcatEmptySeq
        <3> QED BY <1>11, <2>1, <3>1 DEF Rest
    <2>3. received = written /\ (unwritten = <<>> \/ unwritten = Frame(writing))
        BY <1>3, <1>4, <1>5, <1>6, <1>9, <2>2, StreamEnds
    <2>4. Decided'
        BY <1>2, <1>11, <2>1, <2>3 DEF Decided
    <2> QED BY <1>8, <1>11, <2>4 DEF FramingInv
<1> QED BY <1>2, <1>7, <1>10, <1>11

LEMMA FramingStart == FramingInit => FramingInv
<1> SUFFICES ASSUME FramingInit PROVE FramingInv
    OBVIOUS
<1>1. FramingTypes
    <2>1. \A S : <<>> \in Seq(S)
        BY EmptySeq
    <2> QED BY <2>1 DEF FramingInit, FramingTypes
<1>7. Begun /\ AtEnd
    BY DEF FramingInit, Begun, AtEnd
<1>2. Handed
    <2>1. Len(received) = 0 /\ Len(written) = 0
        BY DEF FramingInit
    <2>2. \A i \in 1..0 : FALSE
        OBVIOUS
    <2> QED BY <2>1, <2>2 DEF Handed
<1>3. Decided
    BY DEF FramingInit, Decided
<1>4. Rest = <<>> /\ Sent = <<>>
    <2>1. <<>> \o <<>> = <<>>
        OBVIOUS
    <2> QED BY <2>1 DEF FramingInit, Rest, Sent
<1>5. FramedAt(<<>>, <<>>, 0, [i \in Nat |-> 0])
    BY DEF FramedAt
<1>6. Stream
    BY <1>4, <1>5 DEF FramingInit, Stream, Framed
<1> QED BY <1>1, <1>2, <1>3, <1>6, <1>7 DEF FramingInv

LEMMA FramingStep == FramingInv /\ [FramingNext]_framing_vars => FramingInv'
<1> SUFFICES ASSUME FramingInv, [FramingNext]_framing_vars PROVE FramingInv'
    OBVIOUS
<1>1. ASSUME NEW p \in Payload, client_begins(p) PROVE FramingInv'
    BY <1>1, client_begins_Inv
<1>2. ASSUME NEW n \in 1..Len(unwritten), client_sends(n) PROVE FramingInv'
    BY <1>2, client_sends_Inv
<1>3. ASSUME NEW n \in 1..Len(wire), arrive(n) PROVE FramingInv'
    BY <1>3, arrive_Inv
<1> QED BY <1>1, <1>2, <1>3, quiet_framing_Inv, extract_next_Inv DEF FramingNext

LEMMA FramingExact == FramingInv => ReaderExact
<1> SUFFICES ASSUME FramingInv PROVE FramesIntact /\ VerdictTrue
    BY DEF ReaderExact
<1>1. received \in Seq(Payload) /\ written \in Seq(Payload) /\ Len(received) \in Nat /\ Len(written) \in Nat
    BY DEF FramingInv, FramingTypes
<1>2. Len(received) <= Len(written) /\ \A i \in 1..Len(received) : received[i] = written[i]
    BY DEF FramingInv, Handed
<1>3. FramesIntact
    <2> DEFINE a == SubSeq(received, 1, Len(received))
               b == SubSeq(written, 1, Len(received))
    <2>1. /\ a \in Seq(Payload) /\ b \in Seq(Payload) /\ Len(a) = Len(received) /\ Len(b) = Len(received)
          /\ \A i \in 1..Len(received) : a[i] = received[i] /\ b[i] = written[i]
        BY <1>1, <1>2
    <2> HIDE DEF a, b
    <2>2. a = b
        BY <1>2, <2>1, SeqEqual
    <2> QED BY <1>2, <2>2 DEF FramesIntact, IsPrefix, a, b
<1>4. \A i \in 1..Len(written) : Sent[i] = written[i]
    BY SentFacts DEF FramingInv
<1>5. Len(received) < Len(written) => written[Len(received) + 1] = Sent[Len(received) + 1]
    BY <1>1, <1>4
<1>6. /\ verdict \in {"open", "closed", "TransportFailure", "ProtocolError", "FrameTooLarge"}
      /\ verdict \in {"closed", "TransportFailure"} => received = written /\ hung_up
      /\ verdict = "closed" => unwritten \in {<<>>, Frame(writing)}
      /\ verdict = "TransportFailure" => unwritten # <<>>
      /\ verdict = "ProtocolError" /\ Len(received) < Len(written) => written[Len(received) + 1] = <<>>
      /\ verdict = "FrameTooLarge" /\ Len(received) < Len(written)
            => Len(written[Len(received) + 1]) > MAX_REQUEST_BYTES
    BY <1>5 DEF FramingInv, Decided
<1>7. \A i \in 1..Len(received) : Len(received[i]) \in 1..MAX_REQUEST_BYTES
    BY DEF FramingInv, Handed
<1>8. CASE verdict = "closed"
    BY <1>3, <1>6, <1>8 DEF VerdictTrue
<1>9. CASE verdict = "TransportFailure"
    BY <1>3, <1>6, <1>9 DEF VerdictTrue
<1>10. CASE verdict = "ProtocolError"
    BY <1>3, <1>6, <1>10 DEF VerdictTrue
<1>11. CASE verdict = "FrameTooLarge"
    BY <1>3, <1>6, <1>11 DEF VerdictTrue
<1>12. CASE verdict = "open"
    BY <1>3, <1>7, <1>12 DEF VerdictTrue
<1> QED BY <1>6, <1>8, <1>9, <1>10, <1>11, <1>12

(* However the stream is cut into pieces and wherever the client breaks    *)
(* off, the reader hands over the payloads that were written, whole and in *)
(* order, and ends for the reason there is (extract_frame_payload), for    *)
(* any length of prefix, limit and number of frames.                       *)
THEOREM FramesExact == FramingSpec => []ReaderExact
<1> HIDE DEF FramingInv
<1> QED BY FramingStart, FramingStep, FramingExact, PTL DEF FramingSpec
=============================================================================
