---------------------------- MODULE RuntimeProofs ----------------------------
(***************************************************************************)
(* Theorems about the coordinator (Runtime.tla), for every set of timers,  *)
(* thresholds and durations and for any number of commands, faults and     *)
(* crashes.                                                                *)
(***************************************************************************)
EXTENDS Runtime, TLAPS

-----------------------------------------------------------------------------
(* The candidates are persistent states.                                    *)

\* Each operation's candidate is a well-formed PersistentState.
LEMMA ScheduledCandidateType ==
    ASSUME NEW s \in PersistentState, NEW t \in TimerId, NEW kind \in ActionKind,
           NEW d \in Durations, utc \in Int
    PROVE  scheduled_candidate(s, t, kind, d) \in PersistentState
<1> USE CoreAssumption, RuntimeAssumption DEF CoreAssumption, RuntimeAssumption
<1> DEFINE a == [kind |-> kind, deadline |-> utc + d * MsPerSec, state |-> "Pending",
                 emitted |-> creation_passed_thresholds(d) \cup creation_due_thresholds(d)]
           o == s.outbox \cup {Entry("warning", t, th) : th \in creation_due_thresholds(d)}
<1>1. a \in ScheduledAction
  BY DEF ScheduledAction, StoredState, creation_passed_thresholds, creation_due_thresholds
<1>2. o \in SUBSET OutboxEntry
  BY DEF PersistentState, OutboxEntry, Entry, creation_due_thresholds
<1>3. QED
  BY <1>1, <1>2 DEF scheduled_candidate, PersistentState

\* So is the state without a cancelled action.
LEMMA CancelledCandidateType ==
    ASSUME NEW s \in PersistentState, NEW t \in TimerId
    PROVE  cancelled_candidate(s, t) \in PersistentState
BY DEF cancelled_candidate, PersistentState, ScheduledAction, NoAction, ActionKind

\* So is the state with warnings recorded.
LEMMA WarnedCandidateType ==
    ASSUME NEW s \in PersistentState, NEW t \in TimerId, NEW due \in SUBSET Thresholds
    PROVE  warned_candidate(s, t, due) \in PersistentState
<1> USE CoreAssumption, RuntimeAssumption DEF CoreAssumption, RuntimeAssumption
<1> DEFINE o == s.outbox \cup {Entry("warning", t, th) : th \in due}
<1>0. \A th \in due : Entry("warning", t, th) \in OutboxEntry
  BY DEF OutboxEntry, Entry
<1>1. o \in SUBSET OutboxEntry
  BY <1>0 DEF PersistentState
<1>2. [s.actions[t] EXCEPT !.emitted = @ \cup due] \in ScheduledAction
  BY DEF PersistentState, ScheduledAction
<1>3. QED
  BY <1>1, <1>2 DEF warned_candidate, PersistentState

\* So is the state a reached deadline commits, for a Pending action.
LEMMA ExecutingCandidateType ==
    ASSUME NEW s \in PersistentState, NEW t \in TimerId, s.actions[t].state = "Pending"
    PROVE  executing_candidate(s, t) \in PersistentState
<1>1. runtime_deadline_transition("Pending", 0) = "Executing"
  BY DEF runtime_deadline_transition, deadline_is_due
<1>2. QED
  BY <1>1 DEF executing_candidate, PersistentState, ScheduledAction, StoredState, DesiredInternetState

\* So is the state after a successful reconciliation: completed actions are
\* removed, never stored as Completed.
LEMMA ReconciledCandidateType ==
    ASSUME NEW s \in PersistentState, NEW ids
    PROVE  reconciled_candidate(s, ids) \in PersistentState
<1> DEFINE act(t) == IF t \in ids /\ execution_success_transition(s.actions[t].state) = "Completed"
                     THEN NoAction ELSE s.actions[t]
<1>1. \A t \in TimerId : act(t) \in ScheduledAction
  BY DEF PersistentState, ScheduledAction, NoAction, ActionKind
<1> HIDE DEF act
<1>2. [s EXCEPT !.retry = 0, !.actions = [t \in TimerId |-> act(t)]] \in PersistentState
  BY <1>1 DEF PersistentState
<1>3. QED
  BY <1>2 DEF reconciled_candidate, act

\* So is the state after a failed reconciliation.
LEMMA FailedCandidateType ==
    ASSUME NEW s \in PersistentState, NEW ids, NEW n \in Nat
    PROVE  failed_candidate(s, ids, n) \in PersistentState
<1> DEFINE act(t) == IF t \in ids /\ execution_failure_transition(s.actions[t].state) = "Failed"
                     THEN [s.actions[t] EXCEPT !.state = "Failed"] ELSE s.actions[t]
           o == s.outbox \cup {Entry("gate", None, n)}
<1>1. o \in SUBSET OutboxEntry
  BY DEF PersistentState, OutboxEntry, Entry
<1>2. \A t \in TimerId : act(t) \in ScheduledAction
  BY DEF PersistentState, ScheduledAction, StoredState
<1> HIDE DEF act, o
<1>3. [s EXCEPT !.retry = @ + 1, !.outbox = o, !.actions = [t \in TimerId |-> act(t)]]
          \in PersistentState
  <2>1. s.retry + 1 \in Nat
    BY DEF PersistentState
  <2>2. [t \in TimerId |-> act(t)] \in [TimerId -> ScheduledAction]
    BY <1>2
  <2>3. QED
    BY <1>1, <2>1, <2>2 DEF PersistentState
<1>4. QED
  BY <1>3 DEF failed_candidate, act, o

\* The rounding of milliseconds to seconds yields an integer.
LEMMA RemainingType ==
    ASSUME NEW delta \in Int
    PROVE  remaining_seconds_from_delta_ms(delta) \in Int
BY CoreAssumption DEF CoreAssumption, remaining_seconds_from_delta_ms

\* Startup recovery maps a stored action to a stored action, or to none.
LEMMA RecoveredActionType ==
    ASSUME NEW s \in PersistentState, NEW t \in TimerId
    PROVE  recovered_action(s, t) \in ScheduledAction
<1>1. s.actions[t] \in ScheduledAction
  BY DEF PersistentState
<1>2. NoAction \in ScheduledAction
  BY DEF NoAction, ScheduledAction, ActionKind
<1>3. [s.actions[t] EXCEPT !.state = "Executing"] \in ScheduledAction
  BY <1>1 DEF ScheduledAction, StoredState
<1>4. \A e \in SUBSET Thresholds : [s.actions[t] EXCEPT !.emitted = e] \in ScheduledAction
  BY <1>1 DEF ScheduledAction
<1> DEFINE e == s.actions[t].emitted \cup
                    recovery_passed_thresholds(remaining(s, t), s.actions[t].emitted)
<1>5. e \in SUBSET Thresholds
  BY <1>1 DEF ScheduledAction, recovery_passed_thresholds
<1>6. [s.actions[t] EXCEPT !.emitted = @ \cup recovery_passed_thresholds(remaining(s, t), @)]
          \in ScheduledAction
  BY <1>4, <1>5
<1>7. QED
  BY <1>1, <1>2, <1>3, <1>6 DEF recovered_action

\* Hence the recovery candidate is a well-formed PersistentState.
LEMMA RecoveryCandidateType ==
    ASSUME NEW s \in PersistentState
    PROVE  recovery_candidate(s) \in PersistentState
<1>1. [t \in TimerId |-> recovered_action(s, t)] \in [TimerId -> ScheduledAction]
  BY RecoveredActionType
<1>2. \A t \in TimerId : Entry("missed", t, 0) \in OutboxEntry
  BY DEF Entry, OutboxEntry
<1>3. s.outbox \cup {Entry("missed", t, 0) : t \in missed_shutdowns(s)} \in SUBSET OutboxEntry
  BY <1>2 DEF missed_shutdowns, PersistentState
<1>4. (IF recovered_overdue_block_ids(s) # {} THEN "Blocked" ELSE s.desired) \in DesiredInternetState
  BY DEF DesiredInternetState, PersistentState
<1>5. s.retry \in Nat
  BY DEF PersistentState
<1>6. QED
  BY <1>1, <1>3, <1>4, <1>5 DEF recovery_candidate, PersistentState

\* Startup recovery arms well-formed anchors.
LEMMA RecoveredAnchorsType ==
    ASSUME NEW s \in PersistentState, mono \in Nat, utc \in Int
    PROVE  recovered_anchors(s) \in [TimerId -> Anchor]
<1>1. \A t \in TimerId : s.actions[t].deadline \in Int
  BY DEF PersistentState, ScheduledAction
<1>2. \A t \in TimerId : remaining(s, t) \in Int
  BY <1>1, RemainingType DEF remaining
<1>3. NoAnchor \in Anchor
  BY DEF NoAnchor, Anchor
<1>4. \A t \in TimerId :
          [start |-> mono, target |-> mono + (s.actions[t].deadline - utc),
           dur |-> remaining(s, t), last |-> remaining(s, t)] \in Anchor
  BY <1>1, <1>2 DEF Anchor
<1>5. QED
  BY <1>3, <1>4 DEF recovered_anchors
-----------------------------------------------------------------------------
(* The inductive invariant.                                                 *)

\* What is known while a handler is at its platform call or at the save that
\* follows: nothing is waiting to be saved, and the recorded intent is the one
\* the call carries out.  No candidate outlives the process either.
JobOK ==
    /\ pc \in {"off", "effect", "save"} => pending = None
    /\ pc = "save" => job.cand \in PersistentState
    /\ pc = "effect" /\ job.op \in {"deadline", "shutdown"} =>
           /\ job.timer \in TimerId
           /\ mem.actions[job.timer].state = "Executing"
           /\ mem.actions[job.timer].kind =
                  (IF job.op = "shutdown" THEN "ShutdownComputer" ELSE "BlockInternet")
    /\ pc = "effect" /\ job.op \in {"block", "deadline"} => mem.desired = "Blocked"
    /\ pc = "effect" /\ job.op = "restore" => mem.desired = "Unrestricted"

\* An injected fault keeps the counters well-typed.
LEMMA FaultType ==
    ASSUME TypeOK, NEW k \in FaultKind, Fault(k)
    PROVE  faults' \in [FaultKind -> Nat]
BY DEF TypeOK, Fault

\* A save leaves a well-formed state.json, whether it succeeds or fails.
LEMMA SaveType ==
    ASSUME TypeOK, NEW cand \in PersistentState, NEW res, save(cand, res)
    PROVE  /\ disk' \in PersistentState
           /\ faults' \in [FaultKind -> Nat]
           /\ res = "Ok" => disk' = cand
           /\ res # "Ok" => disk' = disk
BY FaultType DEF TypeOK, save, FaultKind

\* An authoritative commit keeps disk, memory and the kept candidate well-typed.
LEMMA CommitType ==
    ASSUME TypeOK, NEW cand \in PersistentState, NEW res,
           commit_authoritative_state(cand, res)
    PROVE  /\ disk' \in PersistentState /\ mem' \in PersistentState
           /\ pending' \in PersistentState \cup {None}
           /\ faults' \in [FaultKind -> Nat]
BY SaveType DEF TypeOK, commit_authoritative_state

\* mark_persistence keeps the health record well-typed.
LEMMA MarkType ==
    ASSUME TypeOK, NEW res, mark_persistence(res)
    PROVE  /\ health' \in [{"persistence", "gate", "power", "policy"} -> {"ok", "error"}]
           /\ health'.persistence = IF res = "Ok" THEN "ok" ELSE "error"
BY DEF TypeOK, mark_persistence

\* The end of the process leaves a well-typed state.
LEMMA DownType ==
    ASSUME Down, disk' \in PersistentState
    PROVE  /\ mem' \in PersistentState /\ pending' = None /\ mem' = disk'
           /\ observed' \in InternetState /\ shutdown' \in ShutdownState
           /\ health' \in [{"persistence", "gate", "power", "policy"} -> {"ok", "error"}]
           /\ anchors' \in [TimerId -> Anchor] /\ nextRetry' \in Nat
           /\ pc' = "off" /\ tick' \in Tick /\ job' \in Job
           /\ stop' \in {"no", "requested"} /\ backlog' \in Nat
           /\ view' \in View \cup {None}
BY DEF Down, Healthy, NoAnchor, Anchor, NoTick, Tick, NoJob, NewJob, Job, Op, InternetState, ShutdownState,
       DesiredInternetState

\* The inductive invariant: types, the gap between memory and disk, and the
\* state of the running handler.
IInv == TypeOK /\ DurabilityGap /\ JobOK

USE DEF IInv
-----------------------------------------------------------------------------
(* Commands.                                                                *)

\* Taking a command keeps the counters well-typed.
LEMMA TakeCommandType ==
    ASSUME TypeOK, TakeCommand
    PROVE  /\ commands' \in Nat /\ backlog' \in Nat /\ stop' \in {"no", "requested"}
           /\ mono' \in Nat /\ utc' \in Int /\ calls' \in [TimerId -> Nat] /\ tick' \in Tick
BY DEF TypeOK, TakeCommand, clockVars

\* A successful save closes the gap between memory and disk, a failing one
\* leaves it as it was and is reported.
LEMMA CommitGap ==
    ASSUME IInv, NEW cand \in PersistentState, NEW res,
           commit_authoritative_state(cand, res), mark_persistence(res)
    PROVE  /\ DurabilityGap'
           /\ res = "Ok" => pending' = None /\ mem' = cand /\ disk' = cand
           /\ res # "Ok" => pending' = pending /\ mem' = mem /\ disk' = disk
<1>1. /\ res = "Ok" => pending' = None /\ mem' = cand /\ disk' = cand
      /\ res # "Ok" => pending' = pending /\ mem' = mem /\ disk' = disk
  BY SaveType DEF commit_authoritative_state
<1>2. health'.persistence = IF res = "Ok" THEN "ok" ELSE "error"
  BY MarkType
<1>3. QED
  BY <1>1, <1>2 DEF DurabilityGap

\* ShutdownStateChanged leaves the subscriber a well-typed view.
LEMMA ViewShutdownType ==
    ASSUME NEW v \in View \cup {None}, NEW p, NEW c \in ShutdownState
    PROVE  maybe_emit_shutdown_state_changed(v, p, c) \in View \cup {None}
BY DEF maybe_emit_shutdown_state_changed, View

\* InternetPolicyChanged leaves the subscriber a well-typed view.
LEMMA ViewInternetType ==
    ASSUME NEW v \in View \cup {None}, NEW p, NEW d \in DesiredInternetState, NEW o \in InternetState
    PROVE  maybe_emit_internet_policy_changed(v, p, <<d, o>>) \in View \cup {None}
BY DEF maybe_emit_internet_policy_changed, View

\* derive_shutdown_state answers a ShutdownState.
LEMMA DeriveType ==
    ASSUME NEW c, NEW a
    PROVE  derive_shutdown_state(c, a) \in ShutdownState
BY DEF derive_shutdown_state, ShutdownState

\* The locals of a handler that starts a platform call are well-typed.
LEMMA NewJobType ==
    ASSUME NEW op \in Op, NEW t \in TimerId \cup {None}, NEW ids \in SUBSET TimerId,
           NEW w \in DesiredInternetState
    PROVE  /\ NewJob(op, t, ids, w) \in Job
           /\ NewJob(op, t, ids, w).op = op
           /\ NewJob(op, t, ids, w).timer = t
BY DEF NewJob, Job, ShutdownState

\* A worker outside a platform call has no job.
LEMMA NoJobType == NoJob \in Job /\ NoJob.op = "none"
BY DEF NoJob, NewJob, Job, Op, ShutdownState, DesiredInternetState

\* handle_schedule_action preserves the invariant.
LEMMA ScheduleInv ==
    ASSUME IInv, NEW t \in TimerId, NEW kind \in ActionKind, NEW d \in Durations, NEW res \in Result,
           handle_schedule_action(t, kind, d, res)
    PROVE  IInv'
<1> DEFINE cand == scheduled_candidate(mem, t, kind, d)
<1>1. cand \in PersistentState
  BY ScheduledCandidateType DEF TypeOK
<1>2. /\ commit_authoritative_state(cand, res) /\ mark_persistence(res) /\ TakeCommand
      /\ pc' = pc /\ pc = "idle" /\ job' = job
  BY DEF handle_schedule_action, TakeCommand
<1> HIDE DEF cand
<1>3. DurabilityGap' /\ JobOK'
  BY <1>1, <1>2, CommitGap DEF JobOK
<1>4. [start |-> mono, target |-> mono + d * MsPerSec, dur |-> d, last |-> d] \in Anchor
  BY CoreAssumption, RuntimeAssumption DEF CoreAssumption, RuntimeAssumption, Anchor, TypeOK
<1>5. anchors' \in [TimerId -> Anchor]
  BY <1>4 DEF handle_schedule_action, TypeOK
<1>6. shutdown' \in ShutdownState
  BY DeriveType DEF handle_schedule_action, TypeOK
<1>7. view' \in View \cup {None}
  BY <1>6, ViewShutdownType DEF handle_schedule_action, TypeOK
<1>8. fate' \in [TimerId -> {"unused", "accepted", "cancelled", "done", "missed"}]
  BY DEF handle_schedule_action, TypeOK
<1>9. warned' \in [TimerId -> [Thresholds -> Nat]]
  <2> DEFINE w == [th \in Thresholds |->
                      IF th \in creation_due_thresholds(d) THEN warned[t][th] + 1 ELSE warned[t][th]]
  <2>1. w \in [Thresholds -> Nat]
    BY DEF TypeOK
  <2>2. warned' = warned \/ warned' = [warned EXCEPT ![t] = w]
    BY DEF handle_schedule_action
  <2>3. QED
    BY <2>1, <2>2 DEF TypeOK
<1>10. TypeOK'
  BY <1>1, <1>2, <1>5, <1>6, <1>7, <1>8, <1>9, CommitType, MarkType, TakeCommandType
     DEF TypeOK, handle_schedule_action
<1>11. QED
  BY <1>3, <1>10

\* handle_cancel_exact_timer preserves the invariant.
LEMMA CancelInv ==
    ASSUME IInv, NEW t \in TimerId, NEW res \in Result, handle_cancel_exact_timer(t, res)
    PROVE  IInv'
<1> DEFINE cand == cancelled_candidate(mem, t)
<1>1. cand \in PersistentState
  BY CancelledCandidateType DEF TypeOK
<1>2. /\ commit_authoritative_state(cand, res) /\ mark_persistence(res) /\ TakeCommand
      /\ pc' = pc /\ pc = "idle" /\ job' = job
  BY DEF handle_cancel_exact_timer, TakeCommand
<1> HIDE DEF cand
<1>3. DurabilityGap' /\ JobOK'
  BY <1>1, <1>2, CommitGap DEF JobOK
<1>5. anchors' \in [TimerId -> Anchor]
  BY DEF handle_cancel_exact_timer, disarmed, TypeOK, NoAnchor, Anchor
<1>6. shutdown' \in ShutdownState
  BY DeriveType DEF handle_cancel_exact_timer, TypeOK
<1>7. view' \in View \cup {None}
  BY <1>6, ViewShutdownType DEF handle_cancel_exact_timer, TypeOK
<1>8. fate' \in [TimerId -> {"unused", "accepted", "cancelled", "done", "missed"}]
  BY DEF handle_cancel_exact_timer, TypeOK
<1>10. TypeOK'
  BY <1>1, <1>2, <1>5, <1>6, <1>7, <1>8, CommitType, MarkType, TakeCommandType
     DEF TypeOK, handle_cancel_exact_timer
<1>11. QED
  BY <1>3, <1>10

\* An immediate block and a restore record their policy before they call.
LEMMA CommitDesiredInv ==
    ASSUME IInv, NEW op \in {"block", "restore"}, NEW target \in DesiredInternetState,
           op = "block" => target = "Blocked", op = "restore" => target = "Unrestricted",
           NEW res \in Result, commit_desired(op, target, res)
    PROVE  IInv'
<1> DEFINE cand == [mem EXCEPT !.desired = target]
<1>1. cand \in PersistentState /\ cand.desired = target
  BY DEF TypeOK, PersistentState
<1>2. /\ commit_authoritative_state(cand, res) /\ mark_persistence(res) /\ TakeCommand
      /\ pc = "idle"
  BY DEF commit_desired, TakeCommand
<1> HIDE DEF cand
<1>a. mem.desired \in DesiredInternetState /\ op \in Op
  BY DEF TypeOK, PersistentState, Op
<1> DEFINE j == NewJob(op, None, {}, mem.desired)
<1>b. j \in Job /\ j.op = op
  BY <1>a, NewJobType
<1>c. \/ res = "Ok" /\ pc' = "effect" /\ job' = j
      \/ res = "Err" /\ pc' = pc /\ job' = job
  BY DEF commit_desired, Result
<1> HIDE DEF j
<1>3. /\ res = "Ok" => pc' = "effect" /\ job'.op = op /\ job' \in Job
      /\ res # "Ok" => pc' = pc /\ job' = job
  BY <1>b, <1>c
<1>4. DurabilityGap'
  BY <1>1, <1>2, CommitGap
<1>5. JobOK'
  BY <1>1, <1>2, <1>3, CommitGap DEF JobOK
<1>6. TypeOK'
  BY <1>1, <1>2, <1>3, CommitType, MarkType, TakeCommandType DEF TypeOK, commit_desired
<1>7. QED
  BY <1>4, <1>5, <1>6

\* handle_ack_telegram preserves the invariant.
LEMMA AckInv ==
    ASSUME IInv, NEW e \in mem.outbox, NEW res \in Result, handle_ack_telegram(e, res)
    PROVE  IInv'
<1> DEFINE cand == [mem EXCEPT !.outbox = @ \ {e}]
<1>1. cand \in PersistentState /\ e \in OutboxEntry
  BY DEF TypeOK, PersistentState
<1>2. /\ commit_authoritative_state(cand, res) /\ mark_persistence(res) /\ TakeCommand
      /\ pc' = pc /\ pc = "idle" /\ job' = job
  BY DEF handle_ack_telegram, TakeCommand
<1> HIDE DEF cand
<1>3. DurabilityGap' /\ JobOK'
  BY <1>1, <1>2, CommitGap DEF JobOK
<1>4. acked' \in SUBSET OutboxEntry
  BY <1>1 DEF handle_ack_telegram, TypeOK
<1>5. TypeOK'
  BY <1>1, <1>2, <1>4, CommitType, MarkType, TakeCommandType DEF TypeOK, handle_ack_telegram
<1>6. QED
  BY <1>3, <1>5

\* handle_send_child_message preserves the invariant.
LEMMA SendInv ==
    ASSUME IInv, NEW res \in Result, handle_send_child_message(res)
    PROVE  IInv'
<1> DEFINE cand == [mem EXCEPT !.outbox = @ \cup {Entry("chat", None, commands')}]
<1>1. /\ commit_authoritative_state(cand, res) /\ mark_persistence(res) /\ TakeCommand
      /\ pc' = pc /\ pc = "idle" /\ job' = job
  BY DEF handle_send_child_message, TakeCommand
<1>2. Entry("chat", None, commands') \in OutboxEntry
  BY <1>1, TakeCommandType DEF Entry, OutboxEntry
<1>3. cand \in PersistentState
  BY <1>2 DEF TypeOK, PersistentState
<1> HIDE DEF cand
<1>4. DurabilityGap' /\ JobOK'
  BY <1>1, <1>3, CommitGap DEF JobOK
<1>5. TypeOK'
  BY <1>1, <1>3, CommitType, MarkType, TakeCommandType DEF TypeOK, handle_send_child_message
<1>6. QED
  BY <1>4, <1>5

\* handle_subscribe_events only reads the state.
LEMMA SubscribeInv ==
    ASSUME IInv, handle_subscribe_events
    PROVE  IInv'
<1>1. TakeCommand /\ pc = "idle" /\ pc' = pc
  BY DEF handle_subscribe_events, TakeCommand
<1>2. view' \in View
  BY DEF handle_subscribe_events, build_status_snapshot, View, TypeOK, PersistentState
<1>3. TypeOK'
  BY <1>1, <1>2, TakeCommandType DEF TypeOK, handle_subscribe_events, durableVars
<1>4. DurabilityGap' /\ JobOK'
  BY <1>1 DEF DurabilityGap, JobOK, handle_subscribe_events, durableVars
<1>5. QED
  BY <1>3, <1>4
-----------------------------------------------------------------------------
(* The clock.                                                               *)

\* The seconds left on the monotonic clock are an integer.
LEMMA CurrentRemainingType ==
    ASSUME TypeOK, NEW t \in TimerId, NEW now \in Nat
    PROVE  current_remaining(t, now) \in Int
BY CoreAssumption DEF CoreAssumption, TypeOK, Anchor, current_remaining

\* Only thresholds are crossed.
LEMMA CrossedType ==
    ASSUME NEW t, NEW now
    PROVE  crossed(t, now) \in SUBSET Thresholds
BY DEF crossed, crossed_warning_thresholds

\* The collection of expired anchors preserves the invariant.
LEMMA ProcessClockInv ==
    ASSUME IInv, process_clock_and_events
    PROVE  IInv'
<1>1. anchors' \in [TimerId -> Anchor]
  <2>1. \A t \in TimerId : [anchors[t] EXCEPT !.last = current_remaining(t, mono)] \in Anchor
    BY CurrentRemainingType DEF TypeOK, Anchor
  <2>2. QED
    BY <2>1 DEF process_clock_and_events, TypeOK
<1>2. tick' \in Tick
  BY DEF process_clock_and_events, TypeOK, Tick
<1>3. TypeOK'
  BY <1>1, <1>2 DEF process_clock_and_events, TypeOK, durableVars, stopVars, clockVars, history
<1>4. DurabilityGap' /\ JobOK'
  BY DEF process_clock_and_events, DurabilityGap, JobOK, durableVars
<1>5. QED
  BY <1>3, <1>4

\* Recording a warning preserves the invariant.
LEMMA TickWarningInv ==
    ASSUME IInv, NEW t \in TimerId, NEW res \in Result, tick_warning(t, res)
    PROVE  IInv'
<1> DEFINE due == crossed(t, tick.now)
           cand == warned_candidate(mem, t, due)
<1>1. due \in SUBSET Thresholds
  BY CrossedType
<1>2. cand \in PersistentState
  BY <1>1, WarnedCandidateType DEF TypeOK
<1>3. /\ commit_authoritative_state(cand, res) /\ mark_persistence(res)
      /\ pc' = pc /\ pc = "tick" /\ job' = job
  BY DEF tick_warning
<1> HIDE DEF cand
<1>4. DurabilityGap' /\ JobOK'
  BY <1>2, <1>3, CommitGap DEF JobOK
<1>5. anchors' \in [TimerId -> Anchor]
  <2>1. tick.now \in Nat
    BY DEF TypeOK, Tick
  <2>2. [anchors[t] EXCEPT !.last = current_remaining(t, tick.now)] \in Anchor
    BY <2>1, CurrentRemainingType DEF TypeOK, Anchor
  <2>3. anchors' = anchors
        \/ anchors' = [anchors EXCEPT ![t] = [anchors[t] EXCEPT !.last = current_remaining(t, tick.now)]]
    BY DEF tick_warning
  <2>4. QED
    BY <2>2, <2>3 DEF TypeOK
<1>6. warned' \in [TimerId -> [Thresholds -> Nat]]
  <2> DEFINE w == [th \in Thresholds |-> IF th \in due THEN warned[t][th] + 1 ELSE warned[t][th]]
  <2>1. w \in [Thresholds -> Nat]
    BY DEF TypeOK
  <2>2. warned' = warned \/ warned' = [warned EXCEPT ![t] = w]
    BY DEF tick_warning
  <2>3. QED
    BY <2>1, <2>2 DEF TypeOK
<1>7. tick' \in Tick
  BY DEF tick_warning, TypeOK, Tick
<1>8. TypeOK'
  BY <1>2, <1>3, <1>5, <1>6, <1>7, CommitType, MarkType
     DEF TypeOK, tick_warning, stopVars, clockVars
<1>9. QED
  BY <1>4, <1>8

\* Leaving the loop over the expired anchors preserves the invariant.
LEMMA TickStoppedInv ==
    ASSUME IInv, tick_stopped
    PROVE  IInv'
BY DEF tick_stopped, TypeOK, DurabilityGap, JobOK, durableVars, stopVars, clockVars, history, NoTick, Tick

\* Skipping an action that is not Pending preserves the invariant.
LEMMA TickNotPendingInv ==
    ASSUME IInv, NEW t \in TimerId, tick_not_pending(t)
    PROVE  IInv'
BY DEF tick_not_pending, TypeOK, DurabilityGap, JobOK, durableVars, stopVars, clockVars, history, Tick

\* What the deadline commits: Executing, of the same kind, and Blocked for a
\* block.
LEMMA ExecutingCandidateFacts ==
    ASSUME NEW s \in PersistentState, NEW t \in TimerId, s.actions[t].state = "Pending"
    PROVE  /\ executing_candidate(s, t).actions[t].state = "Executing"
           /\ executing_candidate(s, t).actions[t].kind = s.actions[t].kind
           /\ s.actions[t].kind = "BlockInternet" => executing_candidate(s, t).desired = "Blocked"
<1>1. runtime_deadline_transition("Pending", 0) = "Executing"
  BY DEF runtime_deadline_transition, deadline_is_due
<1>2. QED
  BY <1>1 DEF executing_candidate, PersistentState, ScheduledAction

\* A deadline is on disk as Executing before the platform is called.
LEMMA DeadlineInv ==
    ASSUME IInv, NEW t \in TimerId, NEW op \in {"deadline", "shutdown"}, NEW res \in Result,
           mem.actions[t].kind = (IF op = "shutdown" THEN "ShutdownComputer" ELSE "BlockInternet"),
           execute_scheduled_deadline(t, op, res)
    PROVE  IInv'
<1> DEFINE cand == executing_candidate(mem, t)
<1>1. mem.actions[t].state = "Pending"
  BY DEF execute_scheduled_deadline, runtime_deadline_transition, NoTransition
<1>2. cand \in PersistentState
  BY <1>1, ExecutingCandidateType DEF TypeOK
<1>3. /\ cand.actions[t].state = "Executing"
      /\ cand.actions[t].kind = mem.actions[t].kind
      /\ mem.actions[t].kind = "BlockInternet" => cand.desired = "Blocked"
  BY <1>1, ExecutingCandidateFacts DEF TypeOK
<1>4. /\ commit_authoritative_state(cand, res) /\ mark_persistence(res) /\ pc = "tick"
  BY DEF execute_scheduled_deadline
<1> HIDE DEF cand
<1>5. mem.desired \in DesiredInternetState /\ op \in Op
  BY DEF TypeOK, PersistentState, Op
<1> DEFINE j == NewJob(op, t, {}, mem.desired)
<1>b. j \in Job /\ j.op = op /\ j.timer = t
  BY <1>5, NewJobType
<1>c. \/ res = "Ok" /\ pc' = "effect" /\ job' = j
      \/ res = "Err" /\ pc' = pc /\ job' = job
  BY DEF execute_scheduled_deadline, Result
<1> HIDE DEF j
<1>6. /\ res = "Ok" => pc' = "effect" /\ job'.op = op /\ job'.timer = t /\ job' \in Job
      /\ res # "Ok" => pc' = pc /\ job' = job
  BY <1>b, <1>c
<1>7. DurabilityGap'
  BY <1>2, <1>4, CommitGap
<1>8. JobOK'
  BY <1>2, <1>3, <1>4, <1>6, CommitGap DEF JobOK
<1>9. anchors' \in [TimerId -> Anchor] /\ tick' \in Tick
  <2>1. NoAnchor \in Anchor
    BY DEF NoAnchor, Anchor
  <2>2. anchors' = anchors \/ anchors' = [anchors EXCEPT ![t] = NoAnchor]
    BY DEF execute_scheduled_deadline, disarmed
  <2>3. tick' \in Tick
    BY DEF execute_scheduled_deadline, TypeOK, Tick
  <2>4. QED
    BY <2>1, <2>2, <2>3 DEF TypeOK
<1>10. TypeOK'
  BY <1>2, <1>4, <1>6, <1>9, CommitType, MarkType
     DEF TypeOK, execute_scheduled_deadline, stopVars, clockVars, history
<1>11. QED
  BY <1>7, <1>8, <1>10

\* Taking, or putting off, a retry preserves the invariant.
LEMMA TickRetryInv ==
    ASSUME IInv, tick_retry
    PROVE  IInv'
<1>1. mem.desired \in DesiredInternetState /\ "retry" \in Op
  BY DEF TypeOK, PersistentState, Op
<1> DEFINE j == NewJob("retry", None, {}, mem.desired)
<1>b. j \in Job /\ j.op = "retry"
  BY <1>1, NewJobType
<1>c. \/ /\ health.persistence = "ok" /\ nextRetry' = 0 /\ pc' = "effect" /\ job' = j
      \/ pc' = "idle" /\ job' = job /\ nextRetry' = nextRetry
  BY DEF tick_retry
<1> HIDE DEF j
<1>2. \/ /\ health.persistence = "ok" /\ nextRetry' = 0 /\ pc' = "effect"
         /\ job' \in Job /\ job'.op = "retry"
      \/ pc' = "idle" /\ job' = job /\ nextRetry' = nextRetry
  BY <1>b, <1>c
<1>3. tick' \in Tick
  BY DEF tick_retry, NoTick, Tick
<1>4. TypeOK'
  BY <1>2, <1>3 DEF TypeOK, tick_retry, durableVars, stopVars, clockVars, history
<1>5. DurabilityGap' /\ JobOK'
  BY <1>2 DEF DurabilityGap, JobOK, tick_retry, durableVars
<1>6. QED
  BY <1>4, <1>5
-----------------------------------------------------------------------------
(* Platform calls and the save that follows.                                *)

\* A firewall call leaves a well-typed platform.
LEMMA GateCallType ==
    ASSUME TypeOK, NEW target \in DesiredInternetState, NEW res, NEW obs,
           gate_call(target, res, obs)
    PROVE  /\ platform' \in DesiredInternetState
           /\ obs \in InternetState
           /\ faults' \in [FaultKind -> Nat]
BY FaultType DEF TypeOK, gate_call, FaultKind, InternetState

\* A platform call given up for a requested stop preserves the invariant.
LEMMA EffectStoppedInv ==
    ASSUME IInv, effect_stopped
    PROVE  IInv'
<1>1. pc' \in {"tick", "idle"} /\ job' \in Job
  BY NoJobType DEF effect_stopped, ReturnFrom
<1>2. TypeOK'
  BY <1>1 DEF effect_stopped, TypeOK, durableVars, stopVars, clockVars, history
<1>3. DurabilityGap' /\ JobOK'
  BY <1>1 DEF effect_stopped, DurabilityGap, JobOK, durableVars
<1>4. QED
  BY <1>2, <1>3

\* Every firewall call preserves the invariant.
LEMMA ReconcileInv ==
    ASSUME IInv, NEW op \in Op, NEW target \in DesiredInternetState,
           NEW done, NEW failing, NEW always, NEW res \in Result, NEW obs,
           reconcile(op, target, done, failing, always, res, obs)
    PROVE  IInv'
<1> DEFINE cand == IF res = "Ok" THEN reconciled_candidate(mem, done)
                                 ELSE failed_candidate(mem, failing, faults.gate + 1)
           j == [job EXCEPT !.cand = cand, !.prev = shutdown,
                            !.arm = IF res = "Ok" THEN 0 ELSE cand.retry]
<1>1. faults.gate + 1 \in Nat
  BY DEF TypeOK, FaultKind
<1>2. cand \in PersistentState
  BY <1>1, ReconciledCandidateType, FailedCandidateType DEF TypeOK
<1>3. gate_call(target, res, obs) /\ observed' = obs /\ pc = "effect" /\ stop = "no"
  BY DEF reconcile
<1>4. \/ pc' = "save" /\ job' = j
      \/ pc' = ReturnFrom(op) /\ job' = NoJob
  BY DEF reconcile
<1>5. cand.retry \in Nat
  BY <1>2 DEF PersistentState
<1> HIDE DEF cand
<1>6. j \in Job /\ j.cand = cand
  BY <1>2, <1>5 DEF TypeOK, Job
<1> HIDE DEF j
<1>7. /\ pc' = "save" => job'.cand \in PersistentState
      /\ pc' \in {"save", "tick", "idle"} /\ job' \in Job
  BY <1>2, <1>4, <1>6, NoJobType DEF ReturnFrom
<1>8. view' \in View \cup {None}
  <2>1. mem.desired \in DesiredInternetState /\ obs \in InternetState
    BY <1>3, GateCallType DEF TypeOK, PersistentState
  <2>2. view' = maybe_emit_internet_policy_changed(view, <<job.was, observed>>, <<mem.desired, obs>>)
    BY DEF reconcile
  <2>3. QED
    BY <2>1, <2>2, ViewInternetType DEF TypeOK
<1>9. health' \in [{"persistence", "gate", "power", "policy"} -> {"ok", "error"}]
      /\ health'.persistence = health.persistence
  BY DEF reconcile, TypeOK, mark_gate
<1>10. fate' \in [TimerId -> {"unused", "accepted", "cancelled", "done", "missed"}]
  BY DEF reconcile, TypeOK
<1>11. /\ disk' = disk /\ mem' = mem /\ pending' = pending /\ shutdown' = shutdown
       /\ anchors' = anchors /\ nextRetry' = nextRetry /\ tick' = tick
       /\ stop' = stop /\ backlog' = backlog /\ mono' = mono /\ utc' = utc
       /\ commands' = commands /\ calls' = calls /\ warned' = warned /\ acked' = acked
  BY DEF reconcile, durableVars, stopVars, clockVars
<1>12. TypeOK'
  BY <1>3, <1>7, <1>8, <1>9, <1>10, <1>11, GateCallType DEF TypeOK
<1>13. DurabilityGap' /\ JobOK'
  BY <1>3, <1>7, <1>9, <1>11 DEF DurabilityGap, JobOK
<1>14. QED
  BY <1>12, <1>13

\* The power controller's call preserves the invariant.
LEMMA ShutdownEffectInv ==
    ASSUME IInv, NEW res \in Result, shutdown_effect(res)
    PROVE  IInv'
<1> DEFINE t == job.timer
           gone == reconciled_candidate(mem, {t}).actions
           ok == [mem EXCEPT !.actions = gone]
           err == [mem EXCEPT !.actions[t].state = execution_failure_transition(@),
                              !.outbox = @ \cup {Entry("power", t, 0)}]
           cand == IF res = "Ok" THEN ok ELSE err
           next == IF res = "Ok" THEN "InProgress" ELSE derive_shutdown_state(shutdown, cand.actions)
           j == [job EXCEPT !.cand = cand, !.prev = IF res = "Ok" THEN next ELSE shutdown]
<1>1. t \in TimerId /\ mem.actions[t].state = "Executing" /\ pc = "effect" /\ pending = None
  BY DEF JobOK, shutdown_effect
<1>2. cand \in PersistentState
  <2>1. gone \in [TimerId -> ScheduledAction]
    BY ReconciledCandidateType DEF TypeOK, PersistentState
  <2> HIDE DEF gone
  <2>2. ok \in PersistentState
    BY <2>1 DEF TypeOK, PersistentState
  <2>3. execution_failure_transition("Executing") = "Failed"
    BY DEF execution_failure_transition
  <2>4. mem.outbox \cup {Entry("power", t, 0)} \in SUBSET OutboxEntry
    BY <1>1 DEF TypeOK, PersistentState, OutboxEntry, Entry
  <2>a. mem.actions[t] \in ScheduledAction
    BY <1>1 DEF TypeOK, PersistentState
  <2>5. [mem.actions[t] EXCEPT !.state = "Failed"] \in ScheduledAction
    BY <2>a DEF ScheduledAction, StoredState
  <2>6. err \in PersistentState
    BY <1>1, <2>3, <2>4, <2>5 DEF TypeOK, PersistentState
  <2>7. QED
    BY <2>2, <2>6
<1>3. /\ pc' = "save" /\ job' = j /\ shutdown' = next
      /\ view' = view \/ view' = maybe_emit_shutdown_state_changed(view, shutdown, next)
      /\ initiate_shutdown(res)
  BY DEF shutdown_effect
<1>4. next \in ShutdownState
  BY DeriveType DEF ShutdownState
<1> HIDE DEF cand, next
<1>5. j \in Job /\ j.cand = cand
  BY <1>2, <1>4 DEF TypeOK, Job
<1> HIDE DEF j
<1>6. view' \in View \cup {None}
  BY <1>3, <1>4, ViewShutdownType DEF TypeOK
<1>7. calls' \in [TimerId -> Nat]
      /\ fate' \in [TimerId -> {"unused", "accepted", "cancelled", "done", "missed"}]
  BY <1>1 DEF shutdown_effect, TypeOK
<1>8. health' \in [{"persistence", "gate", "power", "policy"} -> {"ok", "error"}]
      /\ health'.persistence = health.persistence
  BY DEF shutdown_effect, TypeOK
<1>9. faults' \in [FaultKind -> Nat]
  BY <1>3, FaultType DEF initiate_shutdown, FaultKind, TypeOK
<1>10. /\ disk' = disk /\ mem' = mem /\ pending' = pending /\ observed' = observed
       /\ anchors' = anchors /\ nextRetry' = nextRetry /\ tick' = tick
       /\ stop' = stop /\ backlog' = backlog /\ mono' = mono /\ utc' = utc
       /\ platform' = platform /\ commands' = commands /\ warned' = warned /\ acked' = acked
  BY DEF shutdown_effect, durableVars, stopVars, clockVars
<1>11. TypeOK'
  BY <1>3, <1>4, <1>5, <1>6, <1>7, <1>8, <1>9, <1>10 DEF TypeOK
<1>12. DurabilityGap' /\ JobOK'
  BY <1>1, <1>2, <1>3, <1>5, <1>8, <1>10 DEF DurabilityGap, JobOK
<1>13. QED
  BY <1>11, <1>12

\* The save after a platform call leaves memory on disk, or its candidate kept
\* and the store reported unhealthy.
LEMMA SaveAfterEffectInv ==
    ASSUME IInv, NEW res \in Result, NEW delay \in RetryDelays, save_after_effect(res, delay)
    PROVE  IInv'
<1>1. pc = "save" /\ job.cand \in PersistentState /\ pending = None /\ mem = disk
  BY DEF JobOK, save_after_effect, DurabilityGap
<1>2. /\ mono' = mono /\ utc' = utc /\ platform' = platform /\ commands' = commands
      /\ fate' = fate /\ calls' = calls /\ warned' = warned /\ acked' = acked
  BY DEF save_after_effect, clockVars, history
<1>3. CASE job.op = "startup" /\ res = "Err"
  <2>1. save(job.cand, res) /\ Down
    BY <1>3 DEF save_after_effect
  <2>2. disk' \in PersistentState /\ faults' \in [FaultKind -> Nat]
    BY <1>1, <2>1, SaveType
  <2>3. TypeOK'
    BY <1>2, <2>1, <2>2, DownType DEF TypeOK
  <2>4. DurabilityGap' /\ JobOK'
    BY <2>1, <2>2, DownType DEF DurabilityGap, JobOK
  <2>5. QED
    BY <2>3, <2>4
<1>4. CASE ~(job.op = "startup" /\ res = "Err")
  <2>1. /\ commit_post_side_effect_candidate(job.cand, res)
        /\ pc' = ReturnFrom(job.op) /\ job' = NoJob
        /\ observed' = observed /\ shutdown' = shutdown /\ anchors' = anchors /\ tick' = tick
        /\ stop' = stop /\ backlog' = backlog
        /\ view' = view \/ view' = maybe_emit_shutdown_state_changed(view, job.prev, shutdown)
    BY <1>4 DEF save_after_effect, stopVars
  <2>2. /\ disk' \in PersistentState /\ faults' \in [FaultKind -> Nat]
        /\ res = "Ok" => disk' = job.cand
    BY <1>1, <2>1, SaveType DEF commit_post_side_effect_candidate
  <2>3. mem' = job.cand /\ pending' = IF res = "Ok" THEN None ELSE job.cand
    BY <2>1 DEF commit_post_side_effect_candidate
  <2>4. /\ health' \in [{"persistence", "gate", "power", "policy"} -> {"ok", "error"}]
        /\ health'.persistence = IF res = "Ok" THEN "ok" ELSE "error"
    BY <1>4 DEF save_after_effect, TypeOK
  <2>5. nextRetry' \in Nat
    <3>1. delay * MsPerSec \in Nat
      BY CoreAssumption, RuntimeAssumption DEF CoreAssumption, RuntimeAssumption
    <3>2. schedule_next_internet_retry(delay) \in Nat
      BY <3>1 DEF schedule_next_internet_retry, TypeOK
    <3>3. QED
      BY <1>4, <3>2 DEF save_after_effect, TypeOK
  <2>6. view' \in View \cup {None}
    BY <2>1, ViewShutdownType DEF TypeOK
  <2>7. pc' \in {"tick", "idle"} /\ job' \in Job
    BY <2>1, NoJobType DEF ReturnFrom
  <2>8. TypeOK'
    BY <1>1, <1>2, <2>1, <2>2, <2>3, <2>4, <2>5, <2>6, <2>7 DEF TypeOK
  <2>9. DurabilityGap' /\ JobOK'
    BY <1>1, <2>2, <2>3, <2>4, <2>7, NoneAssumption DEF DurabilityGap, JobOK, NoneAssumption
  <2>10. QED
    BY <2>8, <2>9
<1>5. QED
  BY <1>3, <1>4
-----------------------------------------------------------------------------
(* Starting, stopping, crashing, the clocks.                                *)

\* Startup recovery is on disk before the firewall is called.
LEMMA StartupInv ==
    ASSUME IInv, NEW res \in Result, perform_startup_recovery(res)
    PROVE  IInv'
<1> DEFINE cand == recovery_candidate(disk)
           j == NewJob("startup", None, recovered_overdue_block_ids(disk), cand.desired)
<1>1. cand \in PersistentState /\ cand.desired \in DesiredInternetState
  <2>1. cand \in PersistentState
    BY RecoveryCandidateType DEF TypeOK
  <2>2. QED
    BY <2>1 DEF PersistentState
<1>2. recovered_anchors(disk) \in [TimerId -> Anchor]
  BY RecoveredAnchorsType DEF TypeOK
<1>3. recovered_overdue_block_ids(disk) \in SUBSET TimerId
  BY DEF recovered_overdue_block_ids
<1>4. j \in Job /\ j.op = "startup"
  <2>1. "startup" \in Op /\ None \in TimerId \cup {None}
    BY DEF Op
  <2> HIDE DEF cand
  <2>2. QED
    BY <1>1, <1>3, <2>1, NewJobType
<1>5. IF cand = disk THEN res = "Ok" /\ UNCHANGED <<disk, faults>> ELSE save(cand, res)
  BY DEF perform_startup_recovery
<1>6. \/ /\ res = "Err" /\ mem' = mem /\ pc' = pc /\ job' = job /\ shutdown' = shutdown
         /\ anchors' = anchors /\ fate' = fate
      \/ /\ res = "Ok" /\ mem' = cand /\ pc' = "effect" /\ job' = j
         /\ shutdown' = derive_shutdown_state("Idle", cand.actions)
         /\ anchors' = recovered_anchors(disk)
         /\ fate' = [t \in TimerId |-> IF t \in missed_shutdowns(disk) THEN "missed" ELSE fate[t]]
  BY DEF perform_startup_recovery, Result
<1> HIDE DEF cand, j
<1>7. /\ disk' \in PersistentState /\ faults' \in [FaultKind -> Nat]
      /\ res = "Ok" => disk' = cand
      /\ res # "Ok" => disk' = disk
  BY <1>1, <1>5, SaveType DEF TypeOK
<1>8. fate' \in [TimerId -> {"unused", "accepted", "cancelled", "done", "missed"}]
  BY <1>6 DEF TypeOK
<1>9. shutdown' \in ShutdownState
  BY <1>6, DeriveType DEF TypeOK
<1>10. /\ pc = "off" /\ pending' = pending /\ observed' = observed /\ health' = health
       /\ nextRetry' = nextRetry /\ tick' = tick /\ stop' = stop /\ backlog' = backlog
       /\ mono' = mono /\ utc' = utc /\ platform' = platform /\ commands' = commands
       /\ calls' = calls /\ warned' = warned /\ acked' = acked /\ view' = view
  BY DEF perform_startup_recovery, stopVars, clockVars
<1>11. TypeOK'
  BY <1>1, <1>2, <1>4, <1>6, <1>7, <1>8, <1>9, <1>10 DEF TypeOK
<1>12. pending = None /\ mem = disk
  BY <1>10 DEF JobOK, DurabilityGap
<1>13. DurabilityGap' /\ JobOK'
  BY <1>4, <1>6, <1>7, <1>10, <1>12 DEF DurabilityGap, JobOK
<1>14. QED
  BY <1>11, <1>13

\* stop() raises the flag and touches nothing else.
LEMMA RequestStopInv ==
    ASSUME IInv, request_stop
    PROVE  IInv'
<1>1. backlog' \in Nat
  BY RuntimeAssumption DEF request_stop, RuntimeAssumption
<1>2. TypeOK'
  BY <1>1 DEF request_stop, TypeOK, durableVars, clockVars, history
<1>3. DurabilityGap' /\ JobOK'
  BY DEF request_stop, DurabilityGap, JobOK, durableVars
<1>4. QED
  BY <1>2, <1>3

\* RuntimeCommand::Stop saves the kept candidate, or fails to, and ends the
\* process.
LEMMA HandleStopInv ==
    ASSUME IInv, NEW res \in Result, handle_stop(res)
    PROVE  IInv'
<1>1. /\ Down /\ mono' = mono /\ utc' = utc /\ platform' = platform /\ commands' = commands
      /\ fate' = fate /\ calls' = calls /\ warned' = warned /\ acked' = acked
  BY DEF handle_stop, clockVars, history
<1>2. disk' \in PersistentState /\ faults' \in [FaultKind -> Nat]
  <2>1. CASE pending = None
    BY <2>1 DEF handle_stop, flush_pending_durable_candidate, TypeOK
  <2>2. CASE pending # None
    <3>1. pending \in PersistentState /\ save(pending, res)
      BY <2>2 DEF handle_stop, flush_pending_durable_candidate, TypeOK
    <3>2. QED
      BY <3>1, SaveType
  <2>3. QED
    BY <2>1, <2>2
<1>3. TypeOK'
  BY <1>1, <1>2, DownType DEF TypeOK
<1>4. DurabilityGap' /\ JobOK'
  BY <1>1, <1>2, DownType DEF DurabilityGap, JobOK
<1>5. QED
  BY <1>3, <1>4

\* A crash loses everything but state.json.
LEMMA CrashInv ==
    ASSUME IInv, Crash
    PROVE  IInv'
<1>1. /\ Down /\ mono' = mono /\ utc' = utc /\ platform' = platform /\ commands' = commands
      /\ fate' = fate /\ calls' = calls /\ warned' = warned /\ acked' = acked
  BY DEF Crash, clockVars, history
<1>2. disk' \in PersistentState /\ faults' \in [FaultKind -> Nat]
  BY FaultType DEF Crash, TypeOK, FaultKind
<1>3. TypeOK'
  BY <1>1, <1>2, DownType DEF TypeOK
<1>4. DurabilityGap' /\ JobOK'
  BY <1>1, <1>2, DownType DEF DurabilityGap, JobOK
<1>5. QED
  BY <1>3, <1>4

\* The clocks move on their own.
LEMMA ClockInv ==
    ASSUME IInv, Advance \/ ClockJump
    PROVE  IInv'
<1>1. mono' \in Nat /\ utc' \in Int /\ faults' \in [FaultKind -> Nat]
  BY FaultType, RuntimeAssumption DEF Advance, ClockJump, TypeOK, RuntimeAssumption, FaultKind
<1>2. /\ disk' = disk /\ mem' = mem /\ pending' = pending /\ observed' = observed
      /\ shutdown' = shutdown /\ health' = health /\ anchors' = anchors
      /\ nextRetry' = nextRetry /\ pc' = pc /\ tick' = tick /\ job' = job
      /\ stop' = stop /\ backlog' = backlog /\ platform' = platform /\ commands' = commands
      /\ fate' = fate /\ calls' = calls /\ warned' = warned /\ acked' = acked /\ view' = view
  BY DEF Advance, ClockJump, durableVars, stopVars, history
<1>3. TypeOK'
  BY <1>1, <1>2 DEF TypeOK
<1>4. DurabilityGap' /\ JobOK'
  BY <1>2 DEF DurabilityGap, JobOK
<1>5. QED
  BY <1>3, <1>4
-----------------------------------------------------------------------------
(* The theorems.                                                            *)

\* A service that was never started satisfies the invariant.
LEMMA InitInv == Init => IInv
<1> SUFFICES ASSUME Init PROVE IInv
  OBVIOUS
<1>1. NoAction \in ScheduledAction /\ NoAnchor \in Anchor /\ NoTick \in Tick
  BY DEF NoAction, ScheduledAction, NoAnchor, Anchor, NoTick, Tick, ActionKind
<1>2. disk \in PersistentState
  BY <1>1 DEF Init, PersistentState
<1>3. health \in [{"persistence", "gate", "power", "policy"} -> {"ok", "error"}]
  BY DEF Init, Healthy
<1>4. TypeOK
  BY <1>1, <1>2, <1>3, NoJobType DEF Init, TypeOK, InternetState, ShutdownState
<1>5. DurabilityGap /\ JobOK
  BY DEF Init, DurabilityGap, JobOK
<1>6. QED
  BY <1>4, <1>5

\* Every step of the coordinator and of its environment preserves the
\* invariant.
LEMMA NextInv == IInv /\ [Next]_vars => IInv'
<1> SUFFICES ASSUME IInv, [Next]_vars PROVE IInv'
  OBVIOUS
<1> USE DEF DesiredInternetState
<1>1. ASSUME NEW res \in Result, perform_startup_recovery(res) PROVE IInv'
  BY <1>1, StartupInv
<1>2. CASE Command
  <2>1. ASSUME NEW res \in Result, NEW t \in TimerId, NEW kind \in ActionKind, NEW d \in Durations,
               handle_schedule_action(t, kind, d, res)
        PROVE  IInv'
    BY <2>1, ScheduleInv
  <2>2. ASSUME NEW res \in Result, NEW t \in TimerId, handle_cancel_exact_timer(t, res)
        PROVE  IInv'
    BY <2>2, CancelInv
  <2>3. ASSUME NEW res \in Result, handle_immediate_block(res) PROVE IInv'
    BY <2>3, CommitDesiredInv DEF handle_immediate_block
  <2>4. ASSUME NEW res \in Result, handle_restore_internet(res) PROVE IInv'
    BY <2>4, CommitDesiredInv DEF handle_restore_internet
  <2>5. ASSUME NEW res \in Result, NEW e \in mem.outbox, handle_ack_telegram(e, res) PROVE IInv'
    BY <2>5, AckInv
  <2>6. ASSUME NEW res \in Result, handle_send_child_message(res) PROVE IInv'
    BY <2>6, SendInv
  <2>7. CASE handle_subscribe_events
    BY <2>7, SubscribeInv
  <2>8. QED
    BY <1>2, <2>1, <2>2, <2>3, <2>4, <2>5, <2>6, <2>7 DEF Command
<1>3. CASE Clock
  <2>1. ASSUME NEW t \in TimerId, NEW res \in Result, execute_scheduled_internet_deadline(t, res)
        PROVE  IInv'
    BY <2>1, DeadlineInv DEF execute_scheduled_internet_deadline
  <2>2. ASSUME NEW t \in TimerId, NEW res \in Result, execute_scheduled_shutdown_deadline(t, res)
        PROVE  IInv'
    BY <2>2, DeadlineInv DEF execute_scheduled_shutdown_deadline
  <2>3. QED
    BY <1>3, <2>1, <2>2, ProcessClockInv, TickStoppedInv, TickRetryInv, TickNotPendingInv,
       TickWarningInv DEF Clock
<1>4. CASE Effect
  <2>1. ASSUME NEW res \in Result, NEW obs \in InternetState,
               \/ startup_reconciliation(res, obs)
               \/ immediate_block_effect(res, obs)
               \/ restore_internet_effect(res, obs)
               \/ internet_deadline_effect(res, obs)
               \/ process_internet_reconciliation_retry(res, obs)
        PROVE  IInv'
    <3>1. mem.desired \in DesiredInternetState
      BY DEF TypeOK, PersistentState
    <3>2. CASE startup_reconciliation(res, obs)
      BY <3>1, <3>2, ReconcileInv DEF startup_reconciliation, Op
    <3>3. CASE immediate_block_effect(res, obs)
      BY <3>3, ReconcileInv DEF immediate_block_effect, Op
    <3>4. CASE restore_internet_effect(res, obs)
      BY <3>4, ReconcileInv DEF restore_internet_effect, Op
    <3>5. CASE internet_deadline_effect(res, obs)
      BY <3>5, ReconcileInv DEF internet_deadline_effect, Op
    <3>6. CASE process_internet_reconciliation_retry(res, obs)
      BY <3>1, <3>6, ReconcileInv DEF process_internet_reconciliation_retry, Op
    <3>7. QED
      BY <2>1, <3>2, <3>3, <3>4, <3>5, <3>6
  <2>2. QED
    BY <1>4, <2>1, EffectStoppedInv, ShutdownEffectInv, SaveAfterEffectInv DEF Effect
<1>5. ASSUME NEW res \in Result, handle_stop(res) PROVE IInv'
  BY <1>5, HandleStopInv
<1>6. CASE UNCHANGED vars
  BY <1>6 DEF vars, TypeOK, DurabilityGap, JobOK
<1>7. QED
  BY <1>1, <1>2, <1>3, <1>4, <1>5, <1>6, RequestStopInv, CrashInv, ClockInv DEF Next, Worker

\* The invariant holds in every reachable state.
THEOREM Invariance == Spec => []IInv
<1> HIDE DEF IInv
<1>1. QED
  BY InitInv, NextInv, PTL DEF Spec

\* Type correctness of the coordinator.
THEOREM TypeCorrect == Spec => []TypeOK
<1>1. IInv => TypeOK
  OBVIOUS
<1> HIDE DEF IInv
<1>2. QED
  BY <1>1, Invariance, PTL

\* Memory and state.json differ only after a failed save that followed a
\* platform call; then the candidate is kept and the failure is reported
\* (commit_authoritative_state, commit_post_side_effect_candidate,
\* flush_pending_durable_candidate and startup recovery together).
THEOREM GapBounded == Spec => []DurabilityGap
<1>1. IInv => DurabilityGap
  OBVIOUS
<1> HIDE DEF IInv
<1>2. QED
  BY <1>1, Invariance, PTL

\* The two together, which is what every handler finds and leaves.
THEOREM Consistent == Spec => []StateConsistent
<1>1. TypeOK /\ DurabilityGap => StateConsistent
  BY DEF StateConsistent
<1>2. QED
  BY <1>1, TypeCorrect, GapBounded, PTL

\* Durable before side effect: whenever the worker is about to call the
\* firewall or the power controller, the intent it carries out is on disk.
THEOREM DurableBeforeSideEffect == Spec => []EffectIsDurable
<1>1. IInv => EffectIsDurable
  <2> SUFFICES ASSUME IInv, pc = "effect" PROVE EffectIsDurable
    BY DEF EffectIsDurable
  <2>1. mem = disk
    BY DEF DurabilityGap, JobOK
  <2>2. QED
    BY <2>1 DEF EffectIsDurable, JobOK
<1> HIDE DEF IInv
<1>2. QED
  BY <1>1, Invariance, PTL
=============================================================================
