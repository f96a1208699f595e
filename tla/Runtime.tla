------------------------------- MODULE Runtime -------------------------------
(***************************************************************************)
(* The authoritative coordinator of the Palka service                      *)
(* (crates/service/src/runtime.rs, ServiceRuntimeCoordinator): one worker  *)
(* thread owns the state, handles commands, wakes for deadlines, warnings  *)
(* and retries, and saves every change to state.json.                      *)
(*                                                                         *)
(* A handler is cut where the world can intervene: after the save that     *)
(* records the intent (pc = "effect"), after the platform call (pc =       *)
(* "save").  Between those points the process may crash, stop() may be     *)
(* requested and time may pass.  Everything else in a handler is one step. *)
(*                                                                         *)
(* Left out: initiators, created_at, error texts, uptime, the event queue  *)
(* of a subscriber, commands that are refused (they change nothing).       *)
(***************************************************************************)
EXTENDS PalkaCore, FiniteSets

CONSTANTS
    TimerId,      \* identifiers handed out by IdSource, never reused
    None,         \* Option::None of a timer, a candidate or a view
    Durations,    \* durations (seconds) a command may ask for
    RetryDelays,  \* delays (seconds) the retry policy may answer; 0 is invalid
    Jumps,        \* corrections of the wall clock, in ticks
    MaxTime,      \* bound: ticks of the monotonic clock
    MaxCommands,  \* bound: commands sent to the coordinator
    MaxBacklog,   \* bound: commands queued ahead of Stop
    MaxFaults     \* bound: failures of each kind

FaultKind == {"store", "gate", "power", "crash", "jump"}

ASSUME RuntimeAssumption ==
    /\ None \notin TimerId
    /\ Durations \subseteq Nat \ {0}
    /\ RetryDelays \subseteq Nat
    /\ Jumps \subseteq Int
    /\ MaxTime \in Nat /\ MaxCommands \in Nat /\ MaxBacklog \in Nat
    /\ MaxFaults \in [FaultKind -> Nat]

VARIABLES
    disk,      \* state.json
    mem,       \* self.state
    pending,   \* self.pending_durable_candidate
    observed,  \* self.observed_internet_state
    shutdown,  \* self.shutdown_state
    health,    \* persistence_healthy, internet_gate_healthy, power and policy errors
    anchors,   \* self.monotonic_timers
    nextRetry, \* self.next_retry_at (0: None)
    pc,        \* where the worker thread is
    tick,      \* locals of process_clock_and_events
    job,       \* locals of the handler that is calling the platform
    stop,      \* stop_requested
    backlog,   \* commands queued ahead of Stop
    mono, utc, \* the two clocks
    platform,  \* what the firewall really does to the child
    faults, commands,  \* bounded environment counters
    fate,      \* history: what became of each timer
    calls,     \* history: initiate_shutdown calls per timer
    warned,    \* history: warnings raised per timer and threshold
    acked,     \* history: outbox entries the Telegram side acknowledged
    view       \* what a subscriber knows from its snapshot and the events

durableVars == <<disk, mem, pending>>
stopVars    == <<stop, backlog>>
clockVars   == <<mono, utc>>
history     == <<fate, calls, warned, acked>>
vars == <<disk, mem, pending, observed, shutdown, health, anchors, nextRetry,
          pc, tick, job, stop, backlog, mono, utc, platform, faults, commands,
          fate, calls, warned, acked, view>>
-----------------------------------------------------------------------------
(* Types.                                                                   *)

DesiredInternetState == {"Blocked", "Unrestricted"}
InternetState == DesiredInternetState \cup {"Unknown"}
ShutdownState == {"Idle", "Scheduled", "InProgress"}
Result == {"Ok", "Err"}

\* A slot of active_actions; "Absent" when no action has that id.
ScheduledAction == [kind : ActionKind, deadline : Int,
                    state : StoredState \cup {"Absent"}, emitted : SUBSET Thresholds]
NoAction == [kind |-> "BlockInternet", deadline |-> 0, state |-> "Absent", emitted |-> {}]

\* A telegram_outbox entry: what it reports, about which timer, and a number
\* that makes it unique (entry ids are never reused).
OutboxEntry == [type : {"warning", "missed", "power", "gate", "chat"},
                timer : TimerId \cup {None}, n : Nat]
Entry(type, t, n) == [type |-> type, timer |-> t, n |-> n]

\* internet_retry is its attempt_count, 0 for None.
PersistentState == [desired : DesiredInternetState, actions : [TimerId -> ScheduledAction],
                    retry : Nat, outbox : SUBSET OutboxEntry]

\* A MonotonicTimerAnchor; dur (original_duration_seconds) is 0 only in NoAnchor.
Anchor == [start : Nat, target : Int, dur : Int, last : Int]
NoAnchor == [start |-> 0, target |-> 0, dur |-> 0, last |-> 0]

Op == {"none", "startup", "block", "restore", "deadline", "shutdown", "retry"}
Job == [op : Op, timer : TimerId \cup {None}, ids : SUBSET TimerId, was : DesiredInternetState,
        cand : PersistentState \cup {None}, arm : Nat, prev : ShutdownState]
NewJob(op, t, ids, was) ==
    [op |-> op, timer |-> t, ids |-> ids, was |-> was, cand |-> None, arm |-> 0, prev |-> "Idle"]
NoJob == NewJob("none", None, {}, "Unrestricted")

Tick == [now : Nat, warn : SUBSET TimerId, expired : SUBSET TimerId]
NoTick == [now |-> 0, warn |-> {}, expired |-> {}]

View == [desired : DesiredInternetState, observed : InternetState, shutdown : ShutdownState]
ASSUME NoneAssumption == None \notin PersistentState /\ None \notin View

Healthy == [persistence |-> "ok", gate |-> "ok", power |-> "ok", policy |-> "ok"]

TypeOK ==
    /\ disk \in PersistentState /\ mem \in PersistentState
    /\ pending \in PersistentState \cup {None}
    /\ observed \in InternetState /\ shutdown \in ShutdownState
    /\ health \in [{"persistence", "gate", "power", "policy"} -> {"ok", "error"}]
    /\ anchors \in [TimerId -> Anchor] /\ nextRetry \in Nat
    /\ pc \in {"off", "idle", "tick", "effect", "save"}
    /\ tick \in Tick /\ job \in Job
    /\ stop \in {"no", "requested"} /\ backlog \in Nat
    /\ mono \in Nat /\ utc \in Int
    /\ platform \in DesiredInternetState
    /\ faults \in [FaultKind -> Nat] /\ commands \in Nat
    /\ fate \in [TimerId -> {"unused", "accepted", "cancelled", "done", "missed"}]
    /\ calls \in [TimerId -> Nat]
    /\ warned \in [TimerId -> [Thresholds -> Nat]]
    /\ acked \in SUBSET OutboxEntry
    /\ view \in View \cup {None}
-----------------------------------------------------------------------------
(* Saving.  save(candidate) either replaces state.json or leaves it alone.  *)

\* A fault of the environment, within its bound.
Fault(kind) == /\ faults[kind] < MaxFaults[kind]
               /\ faults' = [faults EXCEPT ![kind] = @ + 1]

save(cand, res) ==
    \/ /\ res = "Ok"
       /\ disk' = cand
       /\ UNCHANGED faults
    \/ /\ res = "Err"
       /\ Fault("store")
       /\ UNCHANGED disk

mark_persistence(res) == health' = [health EXCEPT !.persistence = IF res = "Ok" THEN "ok" ELSE "error"]

\* Mutants: memory moves before the save is known to have succeeded; a kept
\* candidate survives a later successful save.
MutCommitBeforeSave(cand, res) ==
    /\ save(cand, res)
    /\ mem' = cand
    /\ pending' = IF res = "Ok" THEN None ELSE pending

MutCommitKeepsPending(cand, res) ==
    /\ save(cand, res)
    /\ mem' = IF res = "Ok" THEN cand ELSE mem
    /\ UNCHANGED pending

\* The state is replaced only once the candidate is on disk.
commit_authoritative_state(cand, res) ==
    /\ save(cand, res)
    /\ mem' = IF res = "Ok" THEN cand ELSE mem
    /\ pending' = IF res = "Ok" THEN None ELSE pending

\* After a platform call memory follows reality even when the save fails; the
\* candidate is kept for the next save.
commit_post_side_effect_candidate(cand, res) ==
    /\ save(cand, res)
    /\ mem' = cand
    /\ pending' = IF res = "Ok" THEN None ELSE cand

\* Mutants: Stop drops the kept candidate; Stop waits for a healthy store.
MutFlushNothing(res) == res = "Ok" /\ UNCHANGED <<disk, faults>>

MutFlushOnlyHealthy(res) == health.persistence = "ok" /\ res = "Ok" /\ UNCHANGED <<disk, faults>>

flush_pending_durable_candidate(res) ==
    IF pending = None
    THEN /\ res = "Ok"
         /\ UNCHANGED <<disk, faults>>
    ELSE save(pending, res)
-----------------------------------------------------------------------------
(* Derived state.                                                           *)

derive_shutdown_state(current, actions) ==
    CASE current = "InProgress" -> "InProgress"
      [] /\ current # "InProgress"
         /\ \E t \in TimerId : /\ actions[t].kind = "ShutdownComputer"
                               /\ actions[t].state \in {"Pending", "Executing"} -> "Scheduled"
      [] OTHER -> "Idle"

build_status_snapshot == [desired |-> mem.desired, observed |-> observed, shutdown |-> shutdown]

\* Mutant: a change of the observed state alone is not announced.
MutEmitDesiredOnly(v, previous, current) ==
    IF v # None /\ previous[1] # current[1]
    THEN [v EXCEPT !.desired = current[1], !.observed = current[2]] ELSE v

\* What the subscriber knows after ShutdownStateChanged, InternetPolicyChanged.
maybe_emit_shutdown_state_changed(v, previous, current) ==
    IF v # None /\ previous # current THEN [v EXCEPT !.shutdown = current] ELSE v

maybe_emit_internet_policy_changed(v, previous, current) ==
    IF v # None /\ previous # current
    THEN [v EXCEPT !.desired = current[1], !.observed = current[2]] ELSE v
-----------------------------------------------------------------------------
(* Candidates: the next persistent state of each operation.                 *)

scheduled_candidate(s, t, kind, duration) ==
    [s EXCEPT !.actions[t] =
                  [kind |-> kind, deadline |-> utc + duration * MsPerSec, state |-> "Pending",
                   emitted |-> creation_passed_thresholds(duration)
                                   \cup creation_due_thresholds(duration)],
              !.outbox = @ \cup {Entry("warning", t, th) : th \in creation_due_thresholds(duration)}]

cancelled_candidate(s, t) == [s EXCEPT !.actions[t] = NoAction]

warned_candidate(s, t, due) ==
    [s EXCEPT !.actions[t].emitted = @ \cup due,
              !.outbox = @ \cup {Entry("warning", t, th) : th \in due}]

\* Mutant: the deadline does not record the Blocked policy.
MutExecutingOnly(s, t) == [s EXCEPT !.actions[t].state = runtime_deadline_transition(@, 0)]

executing_candidate(s, t) ==
    [s EXCEPT !.actions[t].state = runtime_deadline_transition(@, 0),
              !.desired = IF s.actions[t].kind = "BlockInternet" THEN "Blocked" ELSE @]

\* Mutant: the retry metadata is not cleared.
MutKeepRetry(s, ids) ==
    [s EXCEPT !.actions = [t \in TimerId |->
                  IF t \in ids /\ s.actions[t].state = "Executing" THEN NoAction ELSE s.actions[t]]]

\* Reconciliation reached the desired state: the actions it carried out are
\* completed (removed) and the retry metadata is cleared.
reconciled_candidate(s, ids) ==
    [s EXCEPT !.retry = 0,
              !.actions = [t \in TimerId |->
                  IF t \in ids /\ execution_success_transition(s.actions[t].state) = "Completed"
                  THEN NoAction ELSE s.actions[t]]]

\* Reconciliation failed: one more attempt, a notification, and the actions it
\* was carrying out become Failed.  desired is not rolled back.
failed_candidate(s, ids, n) ==
    [s EXCEPT !.retry = @ + 1,
              !.outbox = @ \cup {Entry("gate", None, n)},
              !.actions = [t \in TimerId |->
                  IF t \in ids /\ execution_failure_transition(s.actions[t].state) = "Failed"
                  THEN [s.actions[t] EXCEPT !.state = "Failed"] ELSE s.actions[t]]]
-----------------------------------------------------------------------------
(* The platform, external: InternetGate and PowerController.                *)

\* block_internet or unblock_internet, then current_state.  A failing call
\* returns an error or reports something else than the target; it may have
\* applied the policy all the same.
gate_call(target, res, obs) ==
    \/ /\ res = "Ok"
       /\ platform' = target
       /\ obs = target
       /\ UNCHANGED faults
    \/ /\ res = "Err"
       /\ Fault("gate")
       /\ platform' \in {platform, target}
       /\ obs \in {platform', "Unknown"}

initiate_shutdown(res) ==
    \/ /\ res = "Ok"
       /\ UNCHANGED faults
    \/ /\ res = "Err"
       /\ Fault("power")
-----------------------------------------------------------------------------
(* Starting, stopping, crashing.                                            *)

remaining(s, t) == remaining_seconds_from_delta_ms(s.actions[t].deadline - utc)
overdue(s, t) == s.actions[t].state # "Absent" /\ deadline_is_due(remaining(s, t))
future(s, t)  == s.actions[t].state # "Absent" /\ ~deadline_is_due(remaining(s, t))

\* Mutant: historical failed blocks are carried out again.
MutRecoverFailed(s) ==
    {t \in TimerId : overdue(s, t) /\ s.actions[t].kind = "BlockInternet"}

\* Overdue blocks are carried out now, overdue shutdowns are not.
recovered_overdue_block_ids(s) ==
    {t \in TimerId : /\ overdue(s, t)
                     /\ s.actions[t].kind = "BlockInternet"
                     /\ s.actions[t].state \in {"Pending", "Executing"}}

missed_shutdowns(s) ==
    {t \in TimerId : /\ overdue(s, t)
                     /\ s.actions[t].kind = "ShutdownComputer"
                     /\ recovery_overdue_transition("ShutdownComputer", s.actions[t].state,
                                                    remaining(s, t)) = "Missed"}

recovered_action(s, t) ==
    LET a == s.actions[t] IN
    CASE t \in missed_shutdowns(s)            -> NoAction
      [] t \in recovered_overdue_block_ids(s) -> [a EXCEPT !.state = "Executing"]
      [] future(s, t) -> [a EXCEPT !.emitted = @ \cup recovery_passed_thresholds(remaining(s, t), @)]
      [] OTHER -> a

\* Mutant: recovery starts a new outbox.
MutRecoveryNewOutbox(s) ==
    [desired |-> IF recovered_overdue_block_ids(s) # {} THEN "Blocked" ELSE s.desired,
     actions |-> [t \in TimerId |-> recovered_action(s, t)],
     retry   |-> s.retry,
     outbox  |-> {Entry("missed", t, 0) : t \in missed_shutdowns(s)}]

recovery_candidate(s) ==
    [desired |-> IF recovered_overdue_block_ids(s) # {} THEN "Blocked" ELSE s.desired,
     actions |-> [t \in TimerId |-> recovered_action(s, t)],
     retry   |-> s.retry,
     outbox  |-> s.outbox \cup {Entry("missed", t, 0) : t \in missed_shutdowns(s)}]

recovered_anchors(s) ==
    [t \in TimerId |->
        IF future(s, t)
        THEN [start |-> mono, target |-> mono + (s.actions[t].deadline - utc),
              dur |-> remaining(s, t), last |-> remaining(s, t)]
        ELSE NoAnchor]

\* No process: volatile state is gone.  What a new process would load is disk.
Down ==
    /\ pc' = "off" /\ mem' = disk' /\ pending' = None
    /\ observed' = "Unknown" /\ shutdown' = "Idle" /\ health' = Healthy
    /\ anchors' = [t \in TimerId |-> NoAnchor] /\ nextRetry' = 0
    /\ tick' = NoTick /\ job' = NoJob /\ stop' = "no" /\ backlog' = 0
    /\ view' = None

\* perform_startup_recovery up to the platform call.  The durable recovery
\* commit happens only when the candidate differs; if it fails, so does start.
perform_startup_recovery(res) ==
    LET cand == recovery_candidate(disk) IN
    /\ pc = "off"
    /\ IF cand = disk THEN res = "Ok" /\ UNCHANGED <<disk, faults>> ELSE save(cand, res)
    /\ IF res = "Err"
       THEN UNCHANGED <<mem, pc, job, shutdown, anchors, fate>>
       ELSE /\ mem' = cand
            /\ pc' = "effect"
            /\ job' = NewJob("startup", None, recovered_overdue_block_ids(disk), cand.desired)
            /\ shutdown' = derive_shutdown_state("Idle", cand.actions)
            /\ anchors' = recovered_anchors(disk)
            /\ fate' = [t \in TimerId |-> IF t \in missed_shutdowns(disk) THEN "missed" ELSE fate[t]]
    /\ UNCHANGED <<pending, observed, health, nextRetry, tick, stopVars, clockVars, platform,
                   commands, calls, warned, acked, view>>

\* ServiceRuntime::stop, up to the wait for the reply: the flag is raised and
\* Stop is queued behind the commands already sent.
request_stop ==
    /\ pc # "off" /\ job.op # "startup" /\ stop = "no"
    /\ stop' = "requested"
    /\ backlog' \in 0 .. MaxBacklog
    /\ commands + backlog' =< MaxCommands
    /\ UNCHANGED <<durableVars, observed, shutdown, health, anchors, nextRetry, pc, tick, job,
                   clockVars, platform, faults, commands, history, view>>

\* RuntimeCommand::Stop: the last command the worker handles.
handle_stop(res) ==
    /\ pc = "idle" /\ stop = "requested" /\ backlog = 0
    /\ flush_pending_durable_candidate(res)
    /\ Down
    /\ UNCHANGED <<clockVars, platform, commands, history>>

Crash ==
    /\ pc # "off"
    /\ Fault("crash")
    /\ UNCHANGED disk
    /\ Down
    /\ UNCHANGED <<clockVars, platform, commands, history>>
-----------------------------------------------------------------------------
(* Commands.  The worker takes one when it is idle: while the service runs  *)
(* any client may send one, after stop() only the backlog is left.          *)

TakeCommand ==
    /\ pc = "idle"
    /\ commands < MaxCommands
    /\ commands' = commands + 1
    /\ IF stop = "no" THEN UNCHANGED backlog ELSE backlog > 0 /\ backlog' = backlog - 1
    /\ UNCHANGED <<stop, clockVars, calls, tick>>

handle_schedule_action(t, kind, duration, res) ==
    /\ TakeCommand
    /\ fate[t] = "unused"
    /\ commit_authoritative_state(scheduled_candidate(mem, t, kind, duration), res)
    /\ mark_persistence(res)
    /\ IF res = "Err"
       THEN UNCHANGED <<anchors, shutdown, view, fate, warned>>
       ELSE /\ anchors' = [anchors EXCEPT ![t] =
                   [start |-> mono, target |-> mono + duration * MsPerSec,
                    dur |-> duration, last |-> duration]]
            /\ shutdown' = IF kind = "ShutdownComputer"
                           THEN derive_shutdown_state(shutdown, mem'.actions) ELSE shutdown
            /\ view' = maybe_emit_shutdown_state_changed(view, shutdown, shutdown')
            /\ fate' = [fate EXCEPT ![t] = "accepted"]
            /\ warned' = [warned EXCEPT ![t] = [th \in Thresholds |->
                   IF th \in creation_due_thresholds(duration) THEN @[th] + 1 ELSE @[th]]]
    /\ UNCHANGED <<observed, nextRetry, pc, job, platform, acked>>

\* Only a Pending action is cancellable, a shutdown only before its instant.
cancellable(t) ==
    /\ mem.actions[t].state = "Pending"
    /\ mem.actions[t].kind = "ShutdownComputer" => /\ anchors[t].dur > 0
                                                   /\ mono < anchors[t].target

\* Mutant: a timer that is gone stays armed.
MutStaysArmed(t) == anchors
disarmed(t) == [anchors EXCEPT ![t] = NoAnchor]

handle_cancel_exact_timer(t, res) ==
    /\ TakeCommand
    /\ cancellable(t)
    /\ commit_authoritative_state(cancelled_candidate(mem, t), res)
    /\ mark_persistence(res)
    /\ IF res = "Err"
       THEN UNCHANGED <<anchors, shutdown, view, fate>>
       ELSE /\ anchors' = disarmed(t)
            /\ shutdown' = IF mem.actions[t].kind = "ShutdownComputer"
                           THEN derive_shutdown_state(shutdown, mem'.actions) ELSE shutdown
            /\ view' = maybe_emit_shutdown_state_changed(view, shutdown, shutdown')
            /\ fate' = [fate EXCEPT ![t] = "cancelled"]
    /\ UNCHANGED <<observed, nextRetry, pc, job, platform, warned, acked>>

\* The commit that precedes block_internet or unblock_internet.
commit_desired(op, target, res) ==
    /\ TakeCommand
    /\ commit_authoritative_state([mem EXCEPT !.desired = target], res)
    /\ mark_persistence(res)
    /\ IF res = "Err"
       THEN UNCHANGED <<pc, job>>
       ELSE /\ pc' = "effect"
            /\ job' = NewJob(op, None, {}, mem.desired)
    /\ UNCHANGED <<observed, shutdown, anchors, nextRetry, platform, fate, warned, acked, view>>

handle_immediate_block(res) == commit_desired("block", "Blocked", res)

handle_restore_internet(res) == commit_desired("restore", "Unrestricted", res)

handle_ack_telegram(e, res) ==
    /\ TakeCommand
    /\ e \in mem.outbox
    /\ commit_authoritative_state([mem EXCEPT !.outbox = @ \ {e}], res)
    /\ mark_persistence(res)
    /\ acked' = IF res = "Ok" THEN acked \cup {e} ELSE acked
    /\ UNCHANGED <<observed, shutdown, anchors, nextRetry, pc, job, platform, fate, warned, view>>

handle_send_child_message(res) ==
    /\ TakeCommand
    /\ commit_authoritative_state([mem EXCEPT !.outbox = @ \cup {Entry("chat", None, commands')}], res)
    /\ mark_persistence(res)
    /\ UNCHANGED <<observed, shutdown, anchors, nextRetry, pc, job, platform, fate, warned, acked, view>>

\* A subscription starts from a snapshot; the events keep it current.
handle_subscribe_events ==
    /\ TakeCommand
    /\ view' = build_status_snapshot
    /\ UNCHANGED <<durableVars, observed, shutdown, health, anchors, nextRetry, pc, job, platform,
                   faults, fate, warned, acked>>
-----------------------------------------------------------------------------
(* The clock: process_clock_and_events.                                     *)

anchored(t) == anchors[t].dur > 0

expired(t, now) == anchored(t) /\ now >= anchors[t].target

\* Mutant: a started second counts as elapsed.
MutElapsedRoundedUp(t, now) ==
    anchors[t].dur - ((now - anchors[t].start + MsPerSec - 1) \div MsPerSec)

\* Whole seconds left on the monotonic clock.
current_remaining(t, now) == anchors[t].dur - ((now - anchors[t].start) \div MsPerSec)

crossed(t, now) ==
    IF anchored(t) /\ ~expired(t, now) /\ mem.actions[t].state # "Absent"
    THEN crossed_warning_thresholds(anchors[t].last, current_remaining(t, now), mem.actions[t].emitted)
    ELSE {}

retry_due(now) == nextRetry > 0 /\ now >= nextRetry

\* Mutant: the worker wakes only for thresholds.
MutWakeForWarnings(t) ==
    {anchors[t].start + (anchors[t].dur - th) * MsPerSec :
        th \in {h \in Thresholds : anchors[t].dur > h /\ h \notin mem.actions[t].emitted}}

\* The instants next_wake_timeout considers for a timer.
wake_instants(t) ==
    {anchors[t].target} \cup
    {anchors[t].start + (anchors[t].dur - th) * MsPerSec :
        th \in {h \in Thresholds : /\ mem.actions[t].state # "Absent"
                                   /\ anchors[t].dur > h
                                   /\ h \notin mem.actions[t].emitted}}

\* Mutant: the retry instant is not considered.
MutWakeWithoutRetry ==
    /\ health.persistence = "ok"
    /\ \E t \in TimerId : anchored(t) /\ \E i \in wake_instants(t) : i =< mono

\* next_wake_timeout() = Some(ZERO): the worker does not wait.
wake_due ==
    /\ health.persistence = "ok"
    /\ \/ \E t \in TimerId : anchored(t) /\ \E i \in wake_instants(t) : i =< mono
       \/ retry_due(mono)

\* Expired anchors are collected, cursors of timers that crossed nothing move.
process_clock_and_events ==
    /\ pc = "idle" /\ stop = "no"
    /\ wake_due
    /\ pc' = "tick"
    /\ tick' = [now |-> mono,
                warn |-> {t \in TimerId : crossed(t, mono) # {}},
                expired |-> {t \in TimerId : expired(t, mono)}]
    /\ anchors' = [t \in TimerId |->
           IF anchored(t) /\ ~expired(t, mono) /\ crossed(t, mono) = {}
                 /\ anchors[t].last > current_remaining(t, mono)
           THEN [anchors[t] EXCEPT !.last = current_remaining(t, mono)] ELSE anchors[t]]
    /\ UNCHANGED <<durableVars, observed, shutdown, health, nextRetry, job, stopVars, clockVars,
                   platform, faults, commands, history, view>>

\* The cursor moves only once the warning is durable.
tick_warning(t, res) ==
    LET due == crossed(t, tick.now) IN
    /\ pc = "tick" /\ t \in tick.warn
    /\ commit_authoritative_state(warned_candidate(mem, t, due), res)
    /\ mark_persistence(res)
    /\ tick' = [tick EXCEPT !.warn = @ \ {t}]
    /\ IF res = "Err"
       THEN UNCHANGED <<anchors, warned>>
       ELSE /\ anchors' = [anchors EXCEPT ![t].last = current_remaining(t, tick.now)]
            /\ warned' = [warned EXCEPT ![t] = [th \in Thresholds |->
                   IF th \in due THEN @[th] + 1 ELSE @[th]]]
    /\ UNCHANGED <<observed, shutdown, nextRetry, pc, job, stopVars, clockVars, platform, commands,
                   fate, calls, acked, view>>

\* A requested stop ends the loop over the expired anchors.
tick_stopped ==
    /\ pc = "tick" /\ tick.warn = {} /\ tick.expired # {} /\ stop = "requested"
    /\ pc' = "idle" /\ tick' = NoTick
    /\ UNCHANGED <<durableVars, observed, shutdown, health, anchors, nextRetry, job, stopVars,
                   clockVars, platform, faults, commands, history, view>>

\* The action is gone, Executing or Failed: return, leaving the anchor.
tick_not_pending(t) ==
    /\ pc = "tick" /\ tick.warn = {} /\ t \in tick.expired /\ stop = "no"
    /\ runtime_deadline_transition(mem.actions[t].state, 0) # "Executing"
    /\ tick' = [tick EXCEPT !.expired = @ \ {t}]
    /\ UNCHANGED <<durableVars, observed, shutdown, health, anchors, nextRetry, pc, job, stopVars,
                   clockVars, platform, faults, commands, history, view>>

\* Executing is durable, and the anchor gone, before the platform is called.
execute_scheduled_deadline(t, op, res) ==
    /\ pc = "tick" /\ tick.warn = {} /\ t \in tick.expired /\ stop = "no"
    /\ runtime_deadline_transition(mem.actions[t].state, 0) = "Executing"
    /\ commit_authoritative_state(executing_candidate(mem, t), res)
    /\ mark_persistence(res)
    /\ tick' = [tick EXCEPT !.expired = @ \ {t}]
    /\ IF res = "Err"
       THEN UNCHANGED <<pc, job, anchors>>
       ELSE /\ pc' = "effect"
            /\ job' = NewJob(op, t, {}, mem.desired)
            /\ anchors' = disarmed(t)
    /\ UNCHANGED <<observed, shutdown, nextRetry, stopVars, clockVars, platform, commands,
                   history, view>>

execute_scheduled_internet_deadline(t, res) ==
    /\ mem.actions[t].kind = "BlockInternet"
    /\ execute_scheduled_deadline(t, "deadline", res)

execute_scheduled_shutdown_deadline(t, res) ==
    /\ mem.actions[t].kind = "ShutdownComputer"
    /\ execute_scheduled_deadline(t, "shutdown", res)

\* The retry waits for a healthy store, then is taken.
tick_retry ==
    /\ pc = "tick" /\ tick.warn = {} /\ tick.expired = {}
    /\ IF retry_due(tick.now) /\ health.persistence = "ok"
       THEN /\ nextRetry' = 0
            /\ pc' = "effect"
            /\ job' = NewJob("retry", None, {}, mem.desired)
       ELSE /\ pc' = "idle"
            /\ UNCHANGED <<nextRetry, job>>
    /\ tick' = NoTick
    /\ UNCHANGED <<durableVars, observed, shutdown, health, anchors, stopVars, clockVars, platform,
                   faults, commands, history, view>>
-----------------------------------------------------------------------------
(* Platform calls, made under platform_effect_gate unless stop was asked.   *)

\* Where the worker goes when the handler returns.
ReturnFrom(op) == IF op \in {"deadline", "shutdown"} THEN "tick" ELSE "idle"

effect_stopped ==
    /\ pc = "effect" /\ stop = "requested"
    /\ pc' = ReturnFrom(job.op) /\ job' = NoJob
    /\ UNCHANGED <<durableVars, observed, shutdown, health, anchors, nextRetry, tick, stopVars,
                   clockVars, platform, faults, commands, history, view>>

mark_gate(res) == IF res = "Ok" THEN "ok" ELSE "error"

\* The call, the observation and its event, the health mark and the candidate
\* to save.  ids are the actions the call carries out.
reconcile(op, target, done, failing, always, res, obs) ==
    LET cand == IF res = "Ok" THEN reconciled_candidate(mem, done)
                              ELSE failed_candidate(mem, failing, faults.gate + 1)
    IN
    /\ pc = "effect" /\ job.op = op /\ stop = "no"
    /\ gate_call(target, res, obs)
    /\ observed' = obs
    /\ view' = maybe_emit_internet_policy_changed(view, <<job.was, observed>>, <<mem.desired, obs>>)
    /\ health' = [health EXCEPT !.gate = mark_gate(res)]
    /\ IF res = "Err" \/ always \/ cand # mem
       THEN /\ pc' = "save"
            /\ job' = [job EXCEPT !.cand = cand, !.prev = shutdown,
                               !.arm = IF res = "Ok" THEN 0 ELSE cand.retry]
       ELSE /\ pc' = ReturnFrom(op)
            /\ job' = NoJob
    /\ fate' = [t \in TimerId |->
           IF res = "Ok" /\ t \in done /\ mem.actions[t].state = "Executing" THEN "done" ELSE fate[t]]
    /\ UNCHANGED <<durableVars, shutdown, anchors, nextRetry, tick, stopVars, clockVars, commands,
                   calls, warned, acked>>

startup_reconciliation(res, obs) ==
    reconcile("startup", mem.desired, job.ids, job.ids, FALSE, res, obs)

immediate_block_effect(res, obs) ==
    reconcile("block", "Blocked", {}, {}, FALSE, res, obs)

restore_internet_effect(res, obs) ==
    reconcile("restore", "Unrestricted", {}, {}, FALSE, res, obs)

internet_deadline_effect(res, obs) ==
    reconcile("deadline", "Blocked", {job.timer}, {job.timer}, TRUE, res, obs)

executing_blocks ==
    {t \in TimerId : mem.desired = "Blocked" /\ mem.actions[t].kind = "BlockInternet"}

process_internet_reconciliation_retry(res, obs) ==
    reconcile("retry", mem.desired, executing_blocks, {}, TRUE, res, obs)

\* initiate_shutdown: InProgress is announced at once, a failure only when saved.
shutdown_effect(res) ==
    LET t == job.timer
        gone == reconciled_candidate(mem, {t}).actions
        cand == IF res = "Ok"
                THEN [mem EXCEPT !.actions = gone]
                ELSE [mem EXCEPT !.actions[t].state = execution_failure_transition(@),
                                 !.outbox = @ \cup {Entry("power", t, 0)}]
        next == IF res = "Ok" THEN "InProgress" ELSE derive_shutdown_state(shutdown, cand.actions)
    IN
    /\ pc = "effect" /\ job.op = "shutdown" /\ stop = "no"
    /\ initiate_shutdown(res)
    /\ calls' = [calls EXCEPT ![t] = @ + 1]
    /\ health' = [health EXCEPT !.power = IF res = "Ok" THEN "ok" ELSE "error"]
    /\ shutdown' = next
    /\ view' = IF res = "Ok" THEN maybe_emit_shutdown_state_changed(view, shutdown, next) ELSE view
    /\ pc' = "save"
    /\ job' = [job EXCEPT !.cand = cand, !.prev = IF res = "Ok" THEN next ELSE shutdown]
    /\ fate' = [fate EXCEPT ![t] = IF res = "Ok" THEN "done" ELSE @]
    /\ UNCHANGED <<durableVars, observed, anchors, nextRetry, tick, stopVars, clockVars, platform,
                   commands, warned, acked>>

\* A zero delay is refused, so that the worker cannot spin on retries.
schedule_next_internet_retry(delay) == IF delay = 0 THEN 0 ELSE mono + delay * MsPerSec

\* The save after the platform call, then the retry timer.  A startup whose
\* save fails does not start.
save_after_effect(res, delay) ==
    /\ pc = "save"
    /\ IF job.op = "startup" /\ res = "Err"
       THEN save(job.cand, res) /\ Down
       ELSE /\ commit_post_side_effect_candidate(job.cand, res)
            /\ nextRetry' = IF job.arm = 0 THEN nextRetry ELSE schedule_next_internet_retry(delay)
            /\ health' = [health EXCEPT
                   !.persistence = IF res = "Ok" THEN "ok" ELSE "error",
                   !.policy = IF job.arm = 0 THEN @ ELSE IF delay = 0 THEN "error" ELSE "ok"]
            /\ view' = IF res = "Ok" THEN maybe_emit_shutdown_state_changed(view, job.prev, shutdown)
                                     ELSE view
            /\ pc' = ReturnFrom(job.op) /\ job' = NoJob
            /\ UNCHANGED <<observed, shutdown, anchors, tick, stopVars>>
    /\ UNCHANGED <<clockVars, platform, commands, history>>
-----------------------------------------------------------------------------
(* The clocks, external.                                                    *)

Advance ==
    /\ mono < MaxTime
    /\ mono' = mono + 1 /\ utc' = utc + 1
    /\ UNCHANGED <<durableVars, observed, shutdown, health, anchors, nextRetry, pc, tick, job,
                   stopVars, platform, faults, commands, history, view>>

\* The wall clock is set; the monotonic clock is not affected.
ClockJump ==
    /\ Fault("jump")
    /\ \E j \in Jumps : utc' = utc + j
    /\ UNCHANGED <<durableVars, observed, shutdown, health, anchors, nextRetry, pc, tick, job,
                   stopVars, mono, platform, commands, history, view>>
-----------------------------------------------------------------------------
Init ==
    /\ \E d \in DesiredInternetState :
           disk = [desired |-> d, actions |-> [t \in TimerId |-> NoAction], retry |-> 0, outbox |-> {}]
    /\ mem = disk /\ pending = None
    /\ observed = "Unknown" /\ shutdown = "Idle" /\ health = Healthy
    /\ anchors = [t \in TimerId |-> NoAnchor] /\ nextRetry = 0
    /\ pc = "off" /\ tick = NoTick /\ job = NoJob /\ stop = "no" /\ backlog = 0
    /\ mono = 0 /\ utc = 0
    /\ platform \in DesiredInternetState
    /\ faults = [k \in FaultKind |-> 0] /\ commands = 0
    /\ fate = [t \in TimerId |-> "unused"]
    /\ calls = [t \in TimerId |-> 0]
    /\ warned = [t \in TimerId |-> [th \in Thresholds |-> 0]]
    /\ acked = {} /\ view = None

Command ==
    \/ \E res \in Result :
           \/ \E t \in TimerId, kind \in ActionKind, d \in Durations :
                  handle_schedule_action(t, kind, d, res)
           \/ \E t \in TimerId : handle_cancel_exact_timer(t, res)
           \/ handle_immediate_block(res)
           \/ handle_restore_internet(res)
           \/ \E e \in mem.outbox : handle_ack_telegram(e, res)
           \/ handle_send_child_message(res)
    \/ handle_subscribe_events

Clock ==
    \/ process_clock_and_events
    \/ tick_stopped
    \/ tick_retry
    \/ \E t \in TimerId : tick_not_pending(t)
    \/ \E t \in TimerId, res \in Result :
           \/ tick_warning(t, res)
           \/ execute_scheduled_internet_deadline(t, res)
           \/ execute_scheduled_shutdown_deadline(t, res)

Effect ==
    \/ effect_stopped
    \/ \E res \in Result, obs \in InternetState :
           \/ startup_reconciliation(res, obs)
           \/ immediate_block_effect(res, obs)
           \/ restore_internet_effect(res, obs)
           \/ internet_deadline_effect(res, obs)
           \/ process_internet_reconciliation_retry(res, obs)
    \/ \E res \in Result : shutdown_effect(res)
    \/ \E res \in Result, delay \in RetryDelays : save_after_effect(res, delay)

Worker == Clock \/ Effect \/ \E res \in Result : handle_stop(res)

Next ==
    \/ \E res \in Result : perform_startup_recovery(res)
    \/ Command
    \/ Worker
    \/ request_stop
    \/ Crash
    \/ Advance
    \/ ClockJump

Spec == Init /\ [][Next]_vars

\* The worker thread is scheduled, takes what is queued ahead of Stop, and the
\* clock does not stand still.
FairSpec == /\ Spec
            /\ WF_vars(Worker)
            /\ WF_vars(Command /\ stop = "requested")
            /\ WF_vars(Advance)
-----------------------------------------------------------------------------
(* Safety.                                                                  *)

\* Memory and state.json agree, except between a platform call and a save that
\* failed: then the candidate is kept, is what memory holds, and persistence
\* is reported unhealthy (commit_post_side_effect_candidate).
DurabilityGap ==
    /\ pending = None => mem = disk
    /\ pending # None => pending = mem /\ health.persistence = "error"

\* Every variable has its type and what is not on disk is accounted for.
StateConsistent == TypeOK /\ DurabilityGap

\* A platform call is made only for an intent that is already on disk: the
\* desired state for the firewall, an Executing shutdown for the power
\* controller (durable before side effect).
EffectIsDurable ==
    pc = "effect" =>
        /\ job.op \in {"block", "deadline"} => disk.desired = "Blocked"
        /\ job.op = "restore" => disk.desired = "Unrestricted"
        /\ job.op = "startup" => disk = mem
        /\ job.op \in {"deadline", "shutdown"} =>
               /\ disk.actions[job.timer].state = "Executing"
               /\ disk.actions[job.timer].kind =
                      (IF job.op = "shutdown" THEN "ShutdownComputer" ELSE "BlockInternet")

\* However often the process crashes and recovers, one timer shuts the
\* computer down at most once.
ShutdownAtMostOnce == \A t \in TimerId : calls[t] =< 1

\* A timer whose cancellation was confirmed never comes back, on disk, in
\* memory or as an anchor, and never shuts the computer down.
CancelledStaysCancelled ==
    \A t \in TimerId : fate[t] = "cancelled" =>
        /\ disk.actions[t] = NoAction /\ mem.actions[t] = NoAction
        /\ anchors[t] = NoAnchor
        /\ calls[t] = 0

\* A timer whose scheduling was confirmed stays on disk until it was
\* cancelled, carried out or recorded as missed.
AcceptedNotLost ==
    \A t \in TimerId : fate[t] = "accepted" => disk.actions[t].state # "Absent"

\* What a client was told stays true over crashes, failed saves and kept
\* candidates: a cancelled timer is gone for good, an accepted one is there.
ConfirmedStays == CancelledStaysCancelled /\ AcceptedNotLost

\* A warning threshold of a timer is announced at most once, across crashes.
WarnAtMostOnce == \A t \in TimerId, th \in Thresholds : warned[t][th] =< 1

\* An acknowledged outbox entry is never offered again.
AckedStaysGone == acked \cap (disk.outbox \cup mem.outbox) = {}

Settled == pc = "idle" /\ stop = "no"

\* While the gate is reported healthy the firewall does what state.json and
\* the snapshot say.
EnforcementTruthful ==
    Settled /\ health.gate = "ok" =>
        /\ platform = mem.desired /\ observed = mem.desired
        /\ pending = None => platform = disk.desired

\* While it is not, retry metadata is recorded and a retry is armed, unless
\* the policy answered an invalid delay.
RetryArmed ==
    Settled => /\ health.gate = "error" <=> mem.retry > 0
               /\ health.gate = "error" => nextRetry > 0 \/ health.policy = "error"

\* A pending action always has an anchor that will wake the worker for it.
PendingAnchored ==
    pc \in {"idle", "tick"} =>
        \A t \in TimerId : mem.actions[t].state = "Pending" => anchored(t)

\* When the worker does not wait there is something to do: a warning to
\* record, a deadline to execute or a retry to make (no busy loop).
WakeHasWork ==
    Settled /\ wake_due =>
        \/ \E t \in TimerId : crossed(t, mono) # {}
        \/ \E t \in TimerId : expired(t, mono) /\ mem.actions[t].state = "Pending"
        \/ retry_due(mono)

\* The worker wakes for every pending action, and only when there is work.
TimersArmed == PendingAnchored /\ WakeHasWork

\* A subscriber's picture of the Internet policy is the coordinator's.
InternetViewCurrent ==
    Settled /\ view # None => view.desired = mem.desired /\ view.observed = observed

\* A subscriber's picture of the shutdown state is the coordinator's, unless a
\* power failure is being reported (its event is sent only if its save succeeds).
ShutdownViewCurrent ==
    Settled /\ view # None => view.shutdown = shutdown \/ health.power = "error"

\* Snapshot plus events are the coordinator's state, for both of its parts.
ViewCurrent == InternetViewCurrent /\ ShutdownViewCurrent

\* The snapshot says Scheduled exactly while a shutdown can still happen; Idle
\* is never reported while one is stored as Pending or Executing.
ShutdownStateTruthful ==
    LET live == {t \in TimerId : /\ mem.actions[t].kind = "ShutdownComputer"
                                 /\ mem.actions[t].state \in {"Pending", "Executing"}}
    IN Settled => /\ shutdown = "Idle" => live = {}
                  /\ shutdown = "Scheduled" => live # {}

\* What a snapshot says of Internet, retry and shutdown is the case.
ReportTruthful == EnforcementTruthful /\ RetryArmed /\ ShutdownStateTruthful
-----------------------------------------------------------------------------
(* Action properties.                                                       *)

\* An outbox entry leaves state.json only by being acknowledged.
OutboxLossless == [][\A e \in disk.outbox \ disk'.outbox : e \in acked']_vars

\* An outbox entry is offered until it is acknowledged and never afterwards,
\* whatever recovery, failed saves and kept candidates do to the state.
OutboxExact == OutboxLossless /\ []AckedStaysGone

\* The stored policy goes back to Blocked only for an immediate block or
\* together with a block timer that is due and not finished: neither a failed
\* nor a finished block, nor a future one, overrides a restore.
ReblockHasTimer ==
    [][disk.desired = "Unrestricted" /\ disk'.desired = "Blocked" =>
          \/ job'.op = "block"
          \/ \E t \in TimerId : /\ disk.actions[t].state \in {"Pending", "Executing"}
                                /\ disk'.actions[t].state = "Executing"
                                /\ disk'.actions[t].kind = "BlockInternet"]_vars

\* The same, and the block timer starts executing in that save: a restart
\* alone does not override a restore.
ReblockHasCause ==
    [][disk.desired = "Unrestricted" /\ disk'.desired = "Blocked" =>
          \/ job'.op = "block"
          \/ \E t \in TimerId : /\ disk.actions[t].state = "Pending"
                                /\ disk'.actions[t].state = "Executing"
                                /\ disk'.actions[t].kind = "BlockInternet"]_vars

\* A warning is raised while the timer runs, and not before its threshold.
WarningTimely ==
    [][\A t \in TimerId, th \in Thresholds :
          warned'[t][th] > warned[t][th] /\ pc = "tick" =>
              anchors[t].target - tick.now \in 1 .. th * MsPerSec]_vars

\* Every threshold is announced in its window, and once.
WarningsExact == WarningTimely /\ []WarnAtMostOnce

\* stop() answers Ok only if everything memory held is on disk.
CleanStopDurable == [][handle_stop("Ok") => disk' = mem]_vars
-----------------------------------------------------------------------------
(* The promise about scheduled actions, read from state.json.               *)

durable_stage(t) ==
    CASE fate[t] = "unused" -> <<"no action", "unused">>
      [] fate[t] # "unused" /\ disk.actions[t].state = "Absent" -> <<"no action", "gone">>
      [] OTHER -> <<disk.actions[t].kind, disk.actions[t].state>>

Lifecycle == INSTANCE ActionLifecycle WITH life <- [t \in TimerId |-> durable_stage(t)]

\* The coordinator, with its crashes, failing saves and kept candidates,
\* implements the life cycle: what is on disk never moves backwards and the
\* power controller is called at most once, while Executing is durable.
ImplementsLifecycle == Lifecycle!LifeSpec
-----------------------------------------------------------------------------
(* Liveness.                                                                *)

\* A deadline that is reached is acted upon, unless the process ends.
DeadlineHandled ==
    \A t \in TimerId :
        (mem.actions[t].state = "Pending" /\ anchored(t) /\ anchors[t].target =< MaxTime)
            ~> (mem.actions[t].state # "Pending" \/ pc = "off")

\* The same, when saves may fail: or persistence is reported unhealthy.
DeadlineHandledOrCritical ==
    \A t \in TimerId :
        (mem.actions[t].state = "Pending" /\ anchored(t) /\ anchors[t].target =< MaxTime)
            ~> (mem.actions[t].state # "Pending" \/ pc = "off" \/ health.persistence = "error")

\* A retry that is armed is made, unless the process ends.
RetryTaken ==
    \A i \in 1 .. MaxTime : (nextRetry = i) ~> (nextRetry # i \/ health.persistence = "error")

\* stop() returns: the worker reaches Stop whatever it is doing.
StopTerminates == (stop = "requested") ~> (pc = "off")
=============================================================================
