----------------------------- MODULE TimerProofs -----------------------------
(***************************************************************************)
(* What becomes of a timer (Runtime.tla): a confirmed one is not lost, a   *)
(* cancelled one does not come back, and a shutdown timer calls the power  *)
(* controller at most once, whatever crashes, restarts, clock corrections  *)
(* and failing saves happen in between.  Then what becomes of state.json   *)
(* in a step: its outbox, its policy and the stages of its actions, up to  *)
(* the refinement of ActionLifecycle.                                      *)
(***************************************************************************)
EXTENDS RuntimeProofs

USE DEF IInv

-----------------------------------------------------------------------------
(* The inductive invariant.                                                 *)

\* What a stored action a may be, given the fate f and the number c of power
\* calls of its timer.
Sound(a, f, c) ==
    /\ f \in {"unused", "cancelled"} => a = NoAction
    /\ f = "accepted" => a.state # "Absent"
    /\ c > 0 => a.state # "Pending"

\* It must hold of every copy of the state that may become state.json: the
\* file, memory (a kept candidate is equal to it) and the candidate of the
\* handler at its second save.  A warning is being recorded only for an action
\* that exists.
TimerInv ==
    /\ \A t \in TimerId :
           /\ Sound(disk.actions[t], fate[t], calls[t])
           /\ Sound(mem.actions[t], fate[t], calls[t])
           /\ pc = "save" => Sound(job.cand.actions[t], fate[t], calls[t])
           /\ calls[t] =< 1
           /\ fate[t] \in {"unused", "cancelled"} => calls[t] = 0 /\ anchors[t] = NoAnchor
           /\ t \in tick.warn => pc = "tick" /\ mem.actions[t].state # "Absent"
    /\ pc = "effect" /\ job.op = "shutdown" => calls[job.timer] = 0

\* A later version b of an action a with the same fate: nothing is revived,
\* dropped or made pending again.
Keeps(a, b) ==
    /\ a = NoAction => b = NoAction
    /\ b.state = "Absent" => a.state = "Absent"
    /\ b.state = "Pending" => a.state = "Pending"

\* Keeping is what makes a candidate as sound as the state it was made from.
LEMMA KeepsSound ==
    ASSUME NEW a, NEW b, NEW f, NEW c, Keeps(a, b), Sound(a, f, c)
    PROVE  Sound(b, f, c)
BY DEF Keeps, Sound
-----------------------------------------------------------------------------
(* Steps that touch no stored action.                                       *)

\* commit_desired, handle_ack_telegram, handle_send_child_message.
LEMMA QuietCommit ==
    ASSUME IInv, TimerInv, NEW cand \in PersistentState, NEW res \in Result, cand.actions = mem.actions,
           commit_authoritative_state(cand, res), mark_persistence(res),
           fate' = fate, calls' = calls, anchors' = anchors, tick' = tick, pc = "idle",
           \/ pc' = pc
           \/ pc' = "effect" /\ job'.op # "shutdown"
    PROVE  TimerInv'
<1>1. /\ res = "Ok" => mem' = cand /\ disk' = cand
      /\ res # "Ok" => mem' = mem /\ disk' = disk
  BY CommitGap
<1>2. mem'.actions = mem.actions
  BY <1>1
<1>3. \A t \in TimerId : disk'.actions[t] = disk.actions[t] \/ disk'.actions[t] = mem.actions[t]
  BY <1>1
<1>4. \A t \in TimerId : t \notin tick.warn
  BY DEF TimerInv
<1>5. QED
  BY <1>2, <1>3, <1>4 DEF TimerInv
-----------------------------------------------------------------------------
(* Commands.                                                                *)

\* A new timer was unused, hence never called; no other timer is touched.
LEMMA ScheduleTimer ==
    ASSUME IInv, TimerInv, NEW t \in TimerId, NEW kind \in ActionKind, NEW d \in Durations,
           NEW res \in Result, handle_schedule_action(t, kind, d, res)
    PROVE  TimerInv'
<1> DEFINE cand == scheduled_candidate(mem, t, kind, d)
<1>1. cand \in PersistentState
  BY ScheduledCandidateType DEF TypeOK
<1>2. /\ cand.actions[t].state = "Pending"
      /\ \A u \in TimerId \ {t} : cand.actions[u] = mem.actions[u]
  BY DEF scheduled_candidate, TypeOK, PersistentState
<1>3. /\ commit_authoritative_state(cand, res) /\ mark_persistence(res)
      /\ pc' = pc /\ pc = "idle" /\ fate[t] = "unused" /\ calls' = calls /\ tick' = tick
  BY DEF handle_schedule_action, TakeCommand
<1> HIDE DEF cand
<1>4. /\ res = "Ok" => mem' = cand /\ disk' = cand
      /\ res # "Ok" => mem' = mem /\ disk' = disk
  BY <1>1, <1>3, CommitGap
<1>5. CASE res = "Err"
  <2>1. fate' = fate /\ anchors' = anchors
    BY <1>5 DEF handle_schedule_action
  <2>2. QED
    BY <1>3, <1>4, <1>5, <2>1 DEF TimerInv
<1>6. CASE res = "Ok"
  <2>1. /\ fate' = [fate EXCEPT ![t] = "accepted"]
        /\ \A u \in TimerId \ {t} : anchors'[u] = anchors[u]
    BY <1>6 DEF handle_schedule_action, TypeOK
  <2>2. ASSUME NEW u \in TimerId
        PROVE  /\ Sound(cand.actions[u], fate'[u], calls[u])
               /\ calls[u] =< 1
               /\ fate'[u] \in {"unused", "cancelled"} => calls[u] = 0 /\ anchors'[u] = NoAnchor
    <3>1. CASE u = t
      BY <1>2, <1>3, <2>1, <3>1 DEF TimerInv, Sound, TypeOK
    <3>2. CASE u # t
      BY <1>2, <2>1, <3>2 DEF TimerInv, TypeOK
    <3>3. QED
      BY <3>1, <3>2
  <2>3. \A u \in TimerId : u \notin tick.warn
    BY <1>3 DEF TimerInv
  <2>4. QED
    BY <1>3, <1>4, <1>6, <2>2, <2>3 DEF TimerInv
<1>7. QED
  BY <1>5, <1>6 DEF Result

\* A cancelled timer was Pending, hence never called, and its action and its
\* anchor go together.
LEMMA CancelTimer ==
    ASSUME IInv, TimerInv, NEW t \in TimerId, NEW res \in Result, handle_cancel_exact_timer(t, res)
    PROVE  TimerInv'
<1> DEFINE cand == cancelled_candidate(mem, t)
<1>1. cand \in PersistentState
  BY CancelledCandidateType DEF TypeOK
<1>2. /\ cand.actions[t] = NoAction
      /\ \A u \in TimerId \ {t} : cand.actions[u] = mem.actions[u]
  BY DEF cancelled_candidate, TypeOK, PersistentState
<1>3. /\ commit_authoritative_state(cand, res) /\ mark_persistence(res)
      /\ pc' = pc /\ pc = "idle" /\ calls' = calls /\ tick' = tick
      /\ mem.actions[t].state = "Pending"
  BY DEF handle_cancel_exact_timer, TakeCommand, cancellable
<1> HIDE DEF cand
<1>4. /\ res = "Ok" => mem' = cand /\ disk' = cand
      /\ res # "Ok" => mem' = mem /\ disk' = disk
  BY <1>1, <1>3, CommitGap
<1>5. CASE res = "Err"
  <2>1. fate' = fate /\ anchors' = anchors
    BY <1>5 DEF handle_cancel_exact_timer, disarmed
  <2>2. QED
    BY <1>3, <1>4, <1>5, <2>1 DEF TimerInv
<1>6. CASE res = "Ok"
  <2>1. /\ fate' = [fate EXCEPT ![t] = "cancelled"]
        /\ anchors' = [anchors EXCEPT ![t] = NoAnchor]
    BY <1>6 DEF handle_cancel_exact_timer, disarmed
  <2>2. calls[t] = 0
    BY <1>3 DEF TimerInv, Sound, TypeOK
  <2>3. ASSUME NEW u \in TimerId
        PROVE  /\ Sound(cand.actions[u], fate'[u], calls[u])
               /\ calls[u] =< 1
               /\ fate'[u] \in {"unused", "cancelled"} => calls[u] = 0 /\ anchors'[u] = NoAnchor
    <3>1. CASE u = t
      BY <1>2, <2>1, <2>2, <3>1 DEF Sound, TypeOK
    <3>2. CASE u # t
      BY <1>2, <2>1, <3>2 DEF TimerInv, TypeOK
    <3>3. QED
      BY <3>1, <3>2
  <2>4. \A u \in TimerId : u \notin tick.warn
    BY <1>3 DEF TimerInv
  <2>5. QED
    BY <1>3, <1>4, <1>6, <2>3, <2>4 DEF TimerInv
<1>7. QED
  BY <1>5, <1>6 DEF Result

\* The other commands change no stored action.
LEMMA CommandTimer ==
    ASSUME IInv, TimerInv, Command
    PROVE  TimerInv'
<1>1. ASSUME NEW res \in Result, NEW op \in {"block", "restore"}, NEW target \in DesiredInternetState,
             commit_desired(op, target, res)
      PROVE  TimerInv'
  <2> DEFINE cand == [mem EXCEPT !.desired = target]
  <2>1. cand \in PersistentState /\ cand.actions = mem.actions
    BY DEF TypeOK, PersistentState
  <2>2. /\ commit_authoritative_state(cand, res) /\ mark_persistence(res) /\ pc = "idle"
        /\ fate' = fate /\ calls' = calls /\ anchors' = anchors /\ tick' = tick
    BY <1>1 DEF commit_desired, TakeCommand
  <2>3. \/ pc' = pc
        \/ pc' = "effect" /\ job'.op # "shutdown"
    <3>1. NewJob(op, None, {}, mem.desired).op = op
      BY DEF NewJob
    <3>2. QED
      BY <1>1, <3>1 DEF commit_desired
  <2> HIDE DEF cand
  <2>4. QED
    BY <2>1, <2>2, <2>3, QuietCommit
<1>2. ASSUME NEW res \in Result, NEW e \in mem.outbox, handle_ack_telegram(e, res)
      PROVE  TimerInv'
  <2> DEFINE cand == [mem EXCEPT !.outbox = @ \ {e}]
  <2>1. cand \in PersistentState /\ cand.actions = mem.actions
    BY DEF TypeOK, PersistentState
  <2>2. /\ commit_authoritative_state(cand, res) /\ mark_persistence(res) /\ pc = "idle" /\ pc' = pc
        /\ fate' = fate /\ calls' = calls /\ anchors' = anchors /\ tick' = tick
    BY <1>2 DEF handle_ack_telegram, TakeCommand
  <2> HIDE DEF cand
  <2>3. QED
    BY <2>1, <2>2, QuietCommit
<1>3. ASSUME NEW res \in Result, handle_send_child_message(res)
      PROVE  TimerInv'
  <2> DEFINE cand == [mem EXCEPT !.outbox = @ \cup {Entry("chat", None, commands')}]
  <2>1. /\ commit_authoritative_state(cand, res) /\ mark_persistence(res) /\ pc = "idle" /\ pc' = pc
        /\ fate' = fate /\ calls' = calls /\ anchors' = anchors /\ tick' = tick /\ TakeCommand
    BY <1>3 DEF handle_send_child_message, TakeCommand
  <2>2. Entry("chat", None, commands') \in OutboxEntry
    BY <2>1, TakeCommandType DEF Entry, OutboxEntry
  <2>3. cand \in PersistentState /\ cand.actions = mem.actions
    BY <2>2 DEF TypeOK, PersistentState
  <2> HIDE DEF cand
  <2>4. QED
    BY <2>1, <2>3, QuietCommit
<1>4. CASE handle_subscribe_events
  BY <1>4 DEF handle_subscribe_events, TakeCommand, durableVars, TimerInv
<1>5. QED
  BY <1>1, <1>2, <1>3, <1>4, ScheduleTimer, CancelTimer
     DEF Command, handle_immediate_block, handle_restore_internet, DesiredInternetState
-----------------------------------------------------------------------------
(* The clock.                                                               *)

\* A warning is recorded on an action that exists, and changes neither its
\* state nor any other action.
LEMMA WarningTimer ==
    ASSUME IInv, TimerInv, NEW t \in TimerId, NEW res \in Result, tick_warning(t, res)
    PROVE  TimerInv'
<1> DEFINE due == crossed(t, tick.now)
           cand == warned_candidate(mem, t, due)
<1>1. cand \in PersistentState
  BY CrossedType, WarnedCandidateType DEF TypeOK
<1>2. \A u \in TimerId : /\ cand.actions[u].state = mem.actions[u].state
                         /\ u # t => cand.actions[u] = mem.actions[u]
  <2> HIDE DEF due
  <2>1. QED
    BY DEF warned_candidate, TypeOK, PersistentState, ScheduledAction
<1>3. /\ commit_authoritative_state(cand, res) /\ mark_persistence(res)
      /\ pc' = pc /\ pc = "tick" /\ job' = job /\ fate' = fate /\ calls' = calls
      /\ t \in tick.warn
  BY DEF tick_warning
<1>a. tick'.warn \subseteq tick.warn
  BY DEF tick_warning, TypeOK, Tick
<1> HIDE DEF cand
<1>4. /\ res = "Ok" => mem' = cand /\ disk' = cand
      /\ res # "Ok" => mem' = mem /\ disk' = disk
  BY <1>1, <1>3, CommitGap
<1>5. mem.actions[t].state # "Absent"
  BY <1>3 DEF TimerInv
<1>6. fate[t] \notin {"unused", "cancelled"}
  BY <1>5 DEF TimerInv, Sound, NoAction
<1>7. \A u \in TimerId : Keeps(mem.actions[u], cand.actions[u])
  BY <1>2, <1>5 DEF Keeps, NoAction
<1>8. \A u \in TimerId : u # t => anchors'[u] = anchors[u]
  BY DEF tick_warning, TypeOK
<1>9. \A u \in TimerId : Sound(cand.actions[u], fate[u], calls[u])
  BY <1>7, KeepsSound DEF TimerInv
<1>10. QED
  BY <1>2, <1>3, <1>a, <1>4, <1>6, <1>8, <1>9 DEF TimerInv

\* A deadline turns a Pending action, whose timer was never called, into an
\* Executing one.
LEMMA DeadlineTimer ==
    ASSUME IInv, TimerInv, NEW t \in TimerId, NEW op \in {"deadline", "shutdown"}, NEW res \in Result,
           execute_scheduled_deadline(t, op, res)
    PROVE  TimerInv'
<1> DEFINE cand == executing_candidate(mem, t)
<1>1. mem.actions[t].state = "Pending"
  BY DEF execute_scheduled_deadline, runtime_deadline_transition, NoTransition
<1>2. cand \in PersistentState /\ cand.actions[t].state = "Executing"
  BY <1>1, ExecutingCandidateType, ExecutingCandidateFacts DEF TypeOK
<1>3. \A u \in TimerId \ {t} : cand.actions[u] = mem.actions[u]
  BY DEF executing_candidate, TypeOK, PersistentState
<1>4. /\ commit_authoritative_state(cand, res) /\ mark_persistence(res) /\ pc = "tick"
      /\ fate' = fate /\ calls' = calls /\ tick.warn = {}
  BY DEF execute_scheduled_deadline, history
<1>5. tick'.warn = {}
  BY DEF execute_scheduled_deadline, TypeOK, Tick
<1> HIDE DEF cand
<1>6. /\ res = "Ok" => mem' = cand /\ disk' = cand
      /\ res # "Ok" => mem' = mem /\ disk' = disk
  BY <1>2, <1>4, CommitGap
<1>7. \A u \in TimerId : Keeps(mem.actions[u], cand.actions[u])
  BY <1>1, <1>2, <1>3 DEF Keeps, NoAction
<1>8. \A u \in TimerId : Sound(cand.actions[u], fate[u], calls[u])
  BY <1>7, KeepsSound DEF TimerInv
<1>9. calls[t] = 0
  BY <1>1 DEF TimerInv, Sound, TypeOK
<1>10. \A u \in TimerId : anchors'[u] \in {anchors[u], NoAnchor}
  BY DEF execute_scheduled_deadline, disarmed, TypeOK
<1>11. NewJob(op, t, {}, mem.desired).timer = t
  BY DEF NewJob
<1>12. \/ pc' = "effect" /\ job'.timer = t
       \/ pc' = "tick"
  BY <1>4, <1>11 DEF execute_scheduled_deadline
<1>13. QED
  BY <1>4, <1>5, <1>6, <1>8, <1>9, <1>10, <1>12 DEF TimerInv

\* The remaining steps of process_clock_and_events change no stored action.
LEMMA ClockTimer ==
    ASSUME IInv, TimerInv, Clock
    PROVE  TimerInv'
<1>1. CASE process_clock_and_events
  <2>1. \A t \in TimerId : anchors[t] = NoAnchor => anchors'[t] = NoAnchor
    BY <1>1 DEF process_clock_and_events, anchored, NoAnchor
  <2>2. \A t \in tick'.warn : mem.actions[t].state # "Absent"
    BY <1>1 DEF process_clock_and_events, crossed
  <2>3. QED
    BY <1>1, <2>1, <2>2 DEF process_clock_and_events, TimerInv, durableVars, history
<1>2. CASE tick_stopped
  BY <1>2 DEF tick_stopped, TimerInv, durableVars, history, NoTick
<1>3. CASE tick_retry
  <2>1. NewJob("retry", None, {}, mem.desired).op = "retry"
    BY DEF NewJob
  <2>2. pc' = "effect" => job'.op = "retry"
    BY <1>3, <2>1 DEF tick_retry
  <2>3. QED
    BY <1>3, <2>2 DEF tick_retry, TimerInv, durableVars, history, NoTick
<1>4. ASSUME NEW t \in TimerId, tick_not_pending(t) PROVE TimerInv'
  <2>1. tick'.warn = tick.warn
    BY <1>4 DEF tick_not_pending, TypeOK, Tick
  <2>2. QED
    BY <1>4, <2>1 DEF tick_not_pending, TimerInv, durableVars, history
<1>5. QED
  BY <1>1, <1>2, <1>3, <1>4, WarningTimer, DeadlineTimer
     DEF Clock, execute_scheduled_internet_deadline, execute_scheduled_shutdown_deadline
-----------------------------------------------------------------------------
(* Platform calls and the save that follows.                                *)

\* A firewall call completes or fails actions that were Executing.
LEMMA ReconcileTimer ==
    ASSUME IInv, TimerInv, NEW op \in Op, NEW target, NEW done, NEW failing, NEW always,
           NEW res \in Result, NEW obs, op # "shutdown",
           reconcile(op, target, done, failing, always, res, obs)
    PROVE  TimerInv'
<1> DEFINE cand == IF res = "Ok" THEN reconciled_candidate(mem, done)
                                 ELSE failed_candidate(mem, failing, faults.gate + 1)
           j == [job EXCEPT !.cand = cand, !.prev = shutdown,
                            !.arm = IF res = "Ok" THEN 0 ELSE cand.retry]
<1>1. /\ disk' = disk /\ mem' = mem /\ anchors' = anchors /\ tick' = tick /\ calls' = calls
      /\ pc = "effect"
  BY DEF reconcile, durableVars
<1>2. fate' = [t \in TimerId |->
          IF res = "Ok" /\ t \in done /\ mem.actions[t].state = "Executing" THEN "done" ELSE fate[t]]
  BY DEF reconcile
<1>3. \/ pc' = "save" /\ job' = j
      \/ pc' \in {"tick", "idle"}
  BY DEF reconcile, ReturnFrom
<1>4. ASSUME NEW t \in TimerId PROVE Sound(cand.actions[t], fate'[t], calls[t])
  <2>1. CASE res = "Ok" /\ t \in done /\ mem.actions[t].state = "Executing"
    <3>1. cand.actions[t] = NoAction
      BY <2>1 DEF reconciled_candidate, execution_success_transition, TypeOK, PersistentState
    <3>2. fate'[t] = "done"
      BY <1>2, <2>1
    <3>3. QED
      BY <3>1, <3>2 DEF Sound, NoAction
  <2>2. CASE res = "Ok" /\ ~(t \in done /\ mem.actions[t].state = "Executing")
    <3>1. cand.actions[t] = mem.actions[t]
      BY <2>2 DEF reconciled_candidate, execution_success_transition, NoTransition, TypeOK,
                  PersistentState
    <3>2. fate'[t] = fate[t]
      BY <1>2, <2>2
    <3>3. QED
      BY <3>1, <3>2 DEF TimerInv
  <2>3. CASE res = "Err"
    <3> DEFINE act(u) == IF u \in failing /\ execution_failure_transition(mem.actions[u].state) = "Failed"
                         THEN [mem.actions[u] EXCEPT !.state = "Failed"] ELSE mem.actions[u]
    <3>1. cand.actions[t] = act(t)
      BY <2>3 DEF failed_candidate, TypeOK, PersistentState
    <3>2. mem.actions[t] \in ScheduledAction
      BY DEF TypeOK, PersistentState
    <3>3. Keeps(mem.actions[t], act(t))
      BY <3>2 DEF Keeps, NoAction, execution_failure_transition, NoTransition, ScheduledAction
    <3>4. fate'[t] = fate[t]
      BY <1>2, <2>3
    <3>5. QED
      BY <3>1, <3>3, <3>4, KeepsSound DEF TimerInv
  <2>4. QED
    BY <2>1, <2>2, <2>3 DEF Result
<1>5. j.cand = cand
  BY DEF TypeOK, Job
<1> HIDE DEF cand, j
<1>6. pc' = "save" => \A t \in TimerId : Sound(job'.cand.actions[t], fate'[t], calls[t])
  BY <1>3, <1>4, <1>5
<1>7. ASSUME NEW t \in TimerId
      PROVE  /\ fate'[t] \in {"unused", "cancelled", "accepted"} => fate'[t] = fate[t]
             /\ Sound(mem.actions[t], fate'[t], calls[t])
             /\ Sound(disk.actions[t], fate'[t], calls[t])
  BY <1>2 DEF TimerInv, Sound
<1>8. QED
  BY <1>1, <1>3, <1>6, <1>7 DEF TimerInv

\* The power controller is called for an Executing action whose timer was not
\* called before; afterwards it is gone or Failed.
LEMMA ShutdownTimer ==
    ASSUME IInv, TimerInv, NEW res \in Result, shutdown_effect(res)
    PROVE  TimerInv'
<1> DEFINE t == job.timer
           gone == reconciled_candidate(mem, {t}).actions
           cand == IF res = "Ok"
                   THEN [mem EXCEPT !.actions = gone]
                   ELSE [mem EXCEPT !.actions[t].state = execution_failure_transition(@),
                                    !.outbox = @ \cup {Entry("power", t, 0)}]
           next == IF res = "Ok" THEN "InProgress" ELSE derive_shutdown_state(shutdown, cand.actions)
           j == [job EXCEPT !.cand = cand, !.prev = IF res = "Ok" THEN next ELSE shutdown]
<1>1. /\ t \in TimerId /\ mem.actions[t].state = "Executing" /\ pc = "effect"
      /\ mem = disk /\ calls[t] = 0
  BY DEF JobOK, DurabilityGap, TimerInv, shutdown_effect
<1>2. /\ disk' = disk /\ mem' = mem /\ anchors' = anchors /\ tick' = tick
      /\ calls' = [calls EXCEPT ![t] = @ + 1] /\ pc' = "save" /\ job' = j
      /\ fate' = [fate EXCEPT ![t] = IF res = "Ok" THEN "done" ELSE @]
  BY DEF shutdown_effect, durableVars
<1>3. fate[t] \notin {"unused", "cancelled"}
  BY <1>1 DEF TimerInv, Sound, NoAction
<1>4. /\ res = "Ok" => cand.actions[t] = NoAction
      /\ res # "Ok" => cand.actions[t].state = "Failed"
      /\ \A u \in TimerId \ {t} : cand.actions[u] = mem.actions[u]
  BY <1>1 DEF reconciled_candidate, execution_success_transition, execution_failure_transition,
              TypeOK, PersistentState, ScheduledAction
<1>5. j.cand = cand
  BY DEF TypeOK, Job
<1> HIDE DEF cand, next, j
<1>6. ASSUME NEW u \in TimerId
      PROVE  /\ Sound(cand.actions[u], fate'[u], calls'[u])
             /\ Sound(mem.actions[u], fate'[u], calls'[u])
             /\ calls'[u] =< 1
             /\ fate'[u] \in {"unused", "cancelled"} => calls'[u] = 0 /\ anchors[u] = NoAnchor
  <2>1. CASE u = t
    <3>1. calls'[u] = 1 /\ fate'[u] = IF res = "Ok" THEN "done" ELSE fate[t]
      BY <1>1, <1>2, <2>1 DEF TypeOK
    <3>2. QED
      BY <1>1, <1>3, <1>4, <2>1, <3>1 DEF Sound, NoAction
  <2>2. CASE u # t
    <3>1. calls'[u] = calls[u] /\ fate'[u] = fate[u] /\ cand.actions[u] = mem.actions[u]
      BY <1>1, <1>2, <1>4, <2>2 DEF TypeOK
    <3>2. QED
      BY <3>1 DEF TimerInv
  <2>3. QED
    BY <2>1, <2>2
<1>7. QED
  BY <1>1, <1>2, <1>5, <1>6 DEF TimerInv

\* The save after the platform call moves memory, and disk if it succeeds, to
\* the candidate; if start fails, memory is gone.
LEMMA SaveTimer ==
    ASSUME IInv, TimerInv, NEW res \in Result, NEW delay, save_after_effect(res, delay)
    PROVE  TimerInv'
<1>1. pc = "save" /\ job.cand \in PersistentState /\ fate' = fate /\ calls' = calls
  BY DEF JobOK, save_after_effect, history
<1>2. \A t \in TimerId : t \notin tick.warn
  BY <1>1 DEF TimerInv
<1>3. CASE job.op = "startup" /\ res = "Err"
  <2>1. save(job.cand, res) /\ Down
    BY <1>3 DEF save_after_effect
  <2>2. disk' = disk
    BY <1>1, <1>3, <2>1, SaveType
  <2>3. /\ mem' = disk /\ pc' = "off" /\ tick'.warn = {}
        /\ \A t \in TimerId : anchors'[t] = NoAnchor
    BY <2>1, <2>2 DEF Down, NoTick
  <2>4. QED
    BY <1>1, <2>2, <2>3 DEF TimerInv
<1>4. CASE ~(job.op = "startup" /\ res = "Err")
  <2>1. /\ commit_post_side_effect_candidate(job.cand, res)
        /\ pc' \in {"tick", "idle"} /\ anchors' = anchors /\ tick' = tick
    BY <1>4 DEF save_after_effect, ReturnFrom
  <2>2. mem' = job.cand /\ disk' \in {disk, job.cand}
    BY <1>1, <2>1, SaveType DEF commit_post_side_effect_candidate
  <2>3. QED
    BY <1>1, <1>2, <2>1, <2>2 DEF TimerInv
<1>5. QED
  BY <1>3, <1>4

\* All platform steps together.
LEMMA EffectTimer ==
    ASSUME IInv, TimerInv, Effect
    PROVE  TimerInv'
<1>1. CASE effect_stopped
  BY <1>1 DEF effect_stopped, ReturnFrom, TimerInv, durableVars, history
<1>2. ASSUME NEW res \in Result, NEW obs \in InternetState,
             \/ startup_reconciliation(res, obs)
             \/ immediate_block_effect(res, obs)
             \/ restore_internet_effect(res, obs)
             \/ internet_deadline_effect(res, obs)
             \/ process_internet_reconciliation_retry(res, obs)
      PROVE  TimerInv'
  BY <1>2, ReconcileTimer
     DEF startup_reconciliation, immediate_block_effect, restore_internet_effect,
         internet_deadline_effect, process_internet_reconciliation_retry, Op
<1>3. QED
  BY <1>1, <1>2, ShutdownTimer, SaveTimer DEF Effect
-----------------------------------------------------------------------------
(* Starting, stopping, crashing.                                            *)

\* Recovery carries overdue blocks out, drops overdue shutdowns as missed and
\* makes nothing pending that was not.
LEMMA StartupTimer ==
    ASSUME IInv, TimerInv, NEW res \in Result, perform_startup_recovery(res)
    PROVE  TimerInv'
<1> DEFINE cand == recovery_candidate(disk)
<1>1. /\ pc = "off" /\ calls' = calls /\ tick' = tick /\ pending = None /\ mem = disk
  BY DEF perform_startup_recovery, JobOK, DurabilityGap
<1>2. cand \in PersistentState
  BY RecoveryCandidateType DEF TypeOK
<1>3. \A t \in TimerId : cand.actions[t] = recovered_action(disk, t)
  BY DEF recovery_candidate
<1>4. IF cand = disk THEN res = "Ok" /\ UNCHANGED <<disk, faults>> ELSE save(cand, res)
  BY DEF perform_startup_recovery
<1> HIDE DEF cand
<1>5. /\ res = "Ok" => disk' = cand
      /\ res # "Ok" => disk' = disk
  BY <1>2, <1>4, SaveType
<1>6. CASE res = "Err"
  BY <1>1, <1>5, <1>6 DEF perform_startup_recovery, TimerInv
<1>7. CASE res = "Ok"
  <2>1. /\ mem' = cand /\ pc' = "effect" /\ anchors' = recovered_anchors(disk)
        /\ job' = NewJob("startup", None, recovered_overdue_block_ids(disk), cand.desired)
        /\ fate' = [t \in TimerId |-> IF t \in missed_shutdowns(disk) THEN "missed" ELSE fate[t]]
    BY <1>7 DEF perform_startup_recovery, cand
  <2>2. job'.op = "startup"
    BY <2>1 DEF NewJob
  <2>3. ASSUME NEW t \in TimerId
        PROVE  /\ Sound(cand.actions[t], fate'[t], calls[t])
               /\ fate'[t] \in {"unused", "cancelled"} => calls[t] = 0 /\ anchors'[t] = NoAnchor
    <3>1. disk.actions[t] \in ScheduledAction
      BY DEF TypeOK, PersistentState
    <3>2. CASE t \in missed_shutdowns(disk)
      <4>1. t \notin recovered_overdue_block_ids(disk) /\ ~future(disk, t)
        BY <3>2 DEF missed_shutdowns, recovered_overdue_block_ids, overdue, future
      <4>2. recovered_action(disk, t) = NoAction
        BY <3>2, <4>1 DEF recovered_action
      <4>3. fate'[t] = "missed"
        BY <2>1, <3>2
      <4>4. QED
        BY <1>3, <4>2, <4>3 DEF Sound, NoAction
    <3>3. CASE t \notin missed_shutdowns(disk)
      <4>1. fate'[t] = fate[t]
        BY <2>1, <3>3
      <4>2. Keeps(disk.actions[t], recovered_action(disk, t))
        <5>1. CASE t \in recovered_overdue_block_ids(disk)
          BY <3>1, <3>3, <5>1
             DEF Keeps, recovered_action, recovered_overdue_block_ids, NoAction, ScheduledAction
        <5>2. CASE t \notin recovered_overdue_block_ids(disk) /\ future(disk, t)
          <6> DEFINE e == recovery_passed_thresholds(remaining(disk, t), disk.actions[t].emitted)
                     r == [disk.actions[t] EXCEPT !.emitted = @ \cup e]
          <6>1. recovered_action(disk, t) = r
            BY <3>3, <5>2 DEF recovered_action
          <6>2. r.state = disk.actions[t].state
            BY <3>1 DEF ScheduledAction
          <6>3. disk.actions[t] # NoAction
            BY <5>2 DEF future, NoAction
          <6> HIDE DEF r
          <6>4. QED
            BY <6>1, <6>2, <6>3 DEF Keeps
        <5>3. CASE t \notin recovered_overdue_block_ids(disk) /\ ~future(disk, t)
          BY <3>3, <5>3 DEF Keeps, recovered_action
        <5>4. QED
          BY <5>1, <5>2, <5>3
      <4>3. disk.actions[t] = NoAction => anchors'[t] = NoAnchor
        BY <2>1 DEF recovered_anchors, future, NoAction
      <4>4. QED
        BY <1>3, <4>1, <4>2, <4>3, KeepsSound DEF TimerInv, Sound
    <3>4. QED
      BY <3>2, <3>3
  <2>4. \A t \in TimerId : t \notin tick.warn
    BY <1>1 DEF TimerInv
  <2>5. QED
    BY <1>1, <1>5, <1>7, <2>1, <2>2, <2>3, <2>4 DEF TimerInv
<1>8. QED
  BY <1>6, <1>7 DEF Result

\* Stop and crash leave what is on disk, or what memory held.
LEMMA DownTimer ==
    ASSUME IInv, TimerInv,
           \/ \E res \in Result : handle_stop(res)
           \/ Crash
    PROVE  TimerInv'
<1>1. disk' \in {disk, mem}
  <2>1. ASSUME NEW res \in Result, handle_stop(res) PROVE disk' \in {disk, mem}
    <3>1. CASE pending = None
      BY <2>1, <3>1 DEF handle_stop, flush_pending_durable_candidate
    <3>2. CASE pending # None
      <4>1. pending = mem /\ save(pending, res)
        BY <2>1, <3>2 DEF handle_stop, flush_pending_durable_candidate, DurabilityGap
      <4>2. QED
        BY <4>1 DEF save
    <3>3. QED
      BY <3>1, <3>2
  <2>2. QED
    BY <2>1 DEF Crash
<1>2. Down /\ fate' = fate /\ calls' = calls
  BY DEF handle_stop, Crash, history
<1>3. /\ mem' = disk' /\ pc' = "off" /\ tick'.warn = {}
      /\ \A t \in TimerId : anchors'[t] = NoAnchor
  BY <1>2 DEF Down, NoTick
<1>4. QED
  BY <1>1, <1>2, <1>3 DEF TimerInv
-----------------------------------------------------------------------------
(* The theorems.                                                            *)

\* Every step preserves the invariant.
LEMMA NextTimer == IInv /\ TimerInv /\ [Next]_vars => TimerInv'
<1> SUFFICES ASSUME IInv, TimerInv, [Next]_vars PROVE TimerInv'
  OBVIOUS
<1>1. CASE request_stop
  BY <1>1 DEF request_stop, TimerInv, durableVars, history
<1>2. CASE Advance \/ ClockJump
  BY <1>2 DEF Advance, ClockJump, TimerInv, durableVars, history
<1>3. CASE UNCHANGED vars
  BY <1>3 DEF vars, TimerInv
<1>4. QED
  BY <1>1, <1>2, <1>3, StartupTimer, CommandTimer, ClockTimer, EffectTimer, DownTimer DEF Next, Worker

\* The invariant about timers holds in every reachable state.
THEOREM TimerInvariance == Spec => []TimerInv
<1>1. Init => TimerInv
  BY DEF Init, TimerInv, Sound, NoAction, NoTick
<1> HIDE DEF IInv
<1>2. QED
  BY <1>1, NextTimer, Invariance, PTL DEF Spec

\* The power controller is called at most once for a timer, however often the
\* process crashes between the save that records Executing, the call and the
\* save that follows it.
THEOREM AtMostOneShutdown == Spec => []ShutdownAtMostOnce
<1>1. TimerInv => ShutdownAtMostOnce
  BY DEF TimerInv, ShutdownAtMostOnce
<1>2. QED
  BY <1>1, TimerInvariance, PTL

\* A confirmed cancellation is final: no recovery, kept candidate or later
\* save brings the timer back (handle_cancel_exact_timer).
THEOREM CancellationFinal == Spec => []CancelledStaysCancelled
<1>1. TimerInv => CancelledStaysCancelled
  BY DEF TimerInv, CancelledStaysCancelled, Sound
<1>2. QED
  BY <1>1, TimerInvariance, PTL

\* A confirmed timer stays on disk until it was cancelled, carried out or
\* recorded as missed (handle_schedule_action).
THEOREM AcceptanceDurable == Spec => []AcceptedNotLost
<1>1. TimerInv => AcceptedNotLost
  BY DEF TimerInv, AcceptedNotLost, Sound
<1>2. QED
  BY <1>1, TimerInvariance, PTL

\* What a client was told of its timer stays true: the confirmed cancellation
\* and the confirmed schedule, over crashes, failed saves and kept candidates.
THEOREM Confirmed == Spec => []ConfirmedStays
<1>1. CancelledStaysCancelled /\ AcceptedNotLost => ConfirmedStays
  BY DEF ConfirmedStays
<1>2. QED
  BY <1>1, CancellationFinal, AcceptanceDurable, PTL
-----------------------------------------------------------------------------
(* The life cycle on disk.                                                  *)

\* What a platform call may have made of an action a: b is a itself, or a was
\* Executing and is completed (removed) or Failed.
Outcome(a, b) ==
    \/ b = a
    \/ a.state = "Executing" /\ b \in {NoAction, [a EXCEPT !.state = "Failed"]}

\* Memory is ahead of state.json by outcomes of platform calls and their
\* outbox entries only, and so is the candidate of the second save ahead of
\* memory.  No call changes the policy.
LagInv ==
    /\ disk.desired = mem.desired /\ disk.outbox \subseteq mem.outbox
    /\ \A t \in TimerId : Outcome(disk.actions[t], mem.actions[t])
    /\ pc = "save" => /\ job.cand.desired = mem.desired /\ mem.outbox \subseteq job.cand.outbox
                      /\ \A t \in TimerId : Outcome(mem.actions[t], job.cand.actions[t])

\* The candidate of a firewall call changes nothing else.
LEMMA ReconcileCopies ==
    ASSUME IInv, NEW op \in Op, NEW target, NEW done, NEW failing, NEW always,
           NEW res \in Result, NEW obs,
           reconcile(op, target, done, failing, always, res, obs)
    PROVE  /\ disk' = disk /\ mem' = mem /\ pending' = pending /\ pc = "effect" /\ calls' = calls
           /\ \/ pc' \in {"idle", "tick"}
              \/ /\ pc' = "save"
                 /\ job'.cand = (IF res = "Ok" THEN reconciled_candidate(mem, done)
                                 ELSE failed_candidate(mem, failing, faults.gate + 1))
<1> DEFINE cand == IF res = "Ok" THEN reconciled_candidate(mem, done)
                                 ELSE failed_candidate(mem, failing, faults.gate + 1)
           j == [job EXCEPT !.cand = cand, !.prev = shutdown,
                            !.arm = IF res = "Ok" THEN 0 ELSE cand.retry]
<1>1. /\ disk' = disk /\ mem' = mem /\ pending' = pending /\ pc = "effect" /\ calls' = calls
  BY DEF reconcile, durableVars
<1>2. \/ pc' = "save" /\ job' = j
      \/ pc' \in {"idle", "tick"}
  BY DEF reconcile, ReturnFrom
<1>3. j.cand = cand
  BY DEF TypeOK, Job
<1> HIDE DEF j, cand
<1>4. QED
  BY <1>1, <1>2, <1>3 DEF cand

\* A successful call completes what was Executing.
LEMMA ReconciledOutcome ==
    ASSUME NEW s \in PersistentState, NEW ids, NEW t \in TimerId
    PROVE  /\ Outcome(s.actions[t], reconciled_candidate(s, ids).actions[t])
           /\ reconciled_candidate(s, ids).desired = s.desired
           /\ reconciled_candidate(s, ids).outbox = s.outbox
           /\ reconciled_candidate(s, ids).retry = 0
BY DEF reconciled_candidate, execution_success_transition, NoTransition, PersistentState, Outcome

\* A failed one fails what was Executing.
LEMMA FailedOutcome ==
    ASSUME NEW s \in PersistentState, NEW ids, NEW n, NEW t \in TimerId
    PROVE  /\ Outcome(s.actions[t], failed_candidate(s, ids, n).actions[t])
           /\ failed_candidate(s, ids, n).desired = s.desired
           /\ failed_candidate(s, ids, n).outbox = s.outbox \cup {Entry("gate", None, n)}
           /\ failed_candidate(s, ids, n).retry = s.retry + 1
BY DEF failed_candidate, execution_failure_transition, NoTransition, PersistentState, Outcome

\* The power controller's call: its action is completed or Failed, no other
\* one is touched.
LEMMA ShutdownCopies ==
    ASSUME IInv, NEW res \in Result, shutdown_effect(res)
    PROVE  /\ disk' = disk /\ mem' = mem /\ pending' = pending /\ pc = "effect" /\ pc' = "save"
           /\ mem = disk /\ job.timer \in TimerId
           /\ mem.actions[job.timer].state = "Executing"
           /\ mem.actions[job.timer].kind = "ShutdownComputer"
           /\ job'.cand.desired = mem.desired /\ job'.cand.retry = mem.retry
           /\ \A t \in TimerId : Outcome(mem.actions[t], job'.cand.actions[t])
           /\ \A t \in TimerId \ {job.timer} : job'.cand.actions[t] = mem.actions[t]
           /\ job'.cand.outbox = (IF res = "Ok" THEN mem.outbox
                                  ELSE mem.outbox \cup {Entry("power", job.timer, 0)})
           /\ job'.cand.actions[job.timer] = (IF res = "Ok" THEN NoAction
                                  ELSE [mem.actions[job.timer] EXCEPT !.state = "Failed"])
           /\ job'.arm = job.arm /\ job'.op = job.op
<1> DEFINE t == job.timer
           gone == reconciled_candidate(mem, {t}).actions
           cand == IF res = "Ok"
                   THEN [mem EXCEPT !.actions = gone]
                   ELSE [mem EXCEPT !.actions[t].state = execution_failure_transition(@),
                                    !.outbox = @ \cup {Entry("power", t, 0)}]
           next == IF res = "Ok" THEN "InProgress" ELSE derive_shutdown_state(shutdown, cand.actions)
           j == [job EXCEPT !.cand = cand, !.prev = IF res = "Ok" THEN next ELSE shutdown]
<1>1. /\ t \in TimerId /\ mem.actions[t].state = "Executing" /\ pc = "effect" /\ mem = disk
      /\ mem.actions[t].kind = "ShutdownComputer"
  BY DEF JobOK, DurabilityGap, shutdown_effect
<1>2. disk' = disk /\ mem' = mem /\ pending' = pending /\ pc' = "save" /\ job' = j
  BY DEF shutdown_effect, durableVars
<1>3. /\ j.cand = cand /\ j.arm = job.arm /\ j.op = job.op
  BY DEF TypeOK, Job
<1>4. /\ res = "Ok" => cand.actions[t] = NoAction
      /\ res # "Ok" => cand.actions[t] = [mem.actions[t] EXCEPT !.state = "Failed"]
      /\ \A u \in TimerId \ {t} : cand.actions[u] = mem.actions[u]
  BY <1>1 DEF reconciled_candidate, execution_success_transition, execution_failure_transition,
              NoTransition, TypeOK, PersistentState
<1>5. /\ cand.desired = mem.desired /\ cand.retry = mem.retry
      /\ cand.outbox = (IF res = "Ok" THEN mem.outbox ELSE mem.outbox \cup {Entry("power", t, 0)})
  <2> HIDE DEF gone
  <2>1. QED
    BY DEF TypeOK, PersistentState
<1> HIDE DEF cand, next, j
<1>6. \A u \in TimerId : Outcome(mem.actions[u], cand.actions[u])
  BY <1>1, <1>4 DEF Outcome
<1>7. QED
  BY <1>1, <1>2, <1>3, <1>4, <1>5, <1>6

\* Where the three copies of the state come from in a step: they are equal
\* after a save, or stay as they were, or memory takes the candidate alone.
CopyStep ==
    \/ mem' = disk'
    \/ disk' = disk /\ mem' = mem
    \/ pc = "save" /\ disk' = disk /\ mem' = job.cand

\* A command or a clock step either saves its candidate or changes nothing.
LEMMA CommitCopies ==
    ASSUME NEW cand, NEW res, commit_authoritative_state(cand, res)
    PROVE  \/ mem' = disk' /\ mem' = cand
           \/ disk' = disk /\ mem' = mem
BY DEF commit_authoritative_state, save

\* Every step is one of the three.
LEMMA NextCopies ==
    ASSUME IInv, [Next]_vars
    PROVE  /\ CopyStep
           /\ pc' = "save" => \/ job' = job /\ pc = "save" /\ disk' = disk /\ mem' = mem
                              \/ /\ pc = "effect" /\ disk' = disk /\ mem' = mem
                                 /\ job'.cand.desired = mem.desired
                                 /\ mem.outbox \subseteq job'.cand.outbox
                                 /\ \A t \in TimerId : Outcome(mem.actions[t], job'.cand.actions[t])
<1> DEFINE Goal == /\ CopyStep
                   /\ pc' = "save" =>
                         \/ job' = job /\ pc = "save" /\ disk' = disk /\ mem' = mem
                         \/ /\ pc = "effect" /\ disk' = disk /\ mem' = mem
                            /\ job'.cand.desired = mem.desired
                            /\ mem.outbox \subseteq job'.cand.outbox
                            /\ \A t \in TimerId : Outcome(mem.actions[t], job'.cand.actions[t])
<1>1. ASSUME NEW res \in Result, perform_startup_recovery(res) PROVE Goal
  <2>1. mem = disk
    BY <1>1 DEF perform_startup_recovery, JobOK, DurabilityGap
  <2>2. QED
    BY <1>1, <2>1 DEF perform_startup_recovery, save, CopyStep, Result
<1>2. CASE Command
  <2>1. \A cand, res : commit_authoritative_state(cand, res) => CopyStep
    BY CommitCopies DEF CopyStep
  <2>2. pc = "idle" /\ pc' # "save"
    BY <1>2 DEF Command, TakeCommand, handle_schedule_action, handle_cancel_exact_timer,
                handle_immediate_block, handle_restore_internet, commit_desired,
                handle_ack_telegram, handle_send_child_message, handle_subscribe_events
  <2>3. CASE handle_subscribe_events
    BY <2>2, <2>3 DEF handle_subscribe_events, durableVars, CopyStep
  <2>4. CASE ~handle_subscribe_events
    BY <1>2, <2>1, <2>2, <2>4
       DEF Command, handle_schedule_action, handle_cancel_exact_timer,
           handle_immediate_block, handle_restore_internet, commit_desired,
           handle_ack_telegram, handle_send_child_message
  <2>5. QED
    BY <2>3, <2>4
<1>3. CASE Clock
  <2>1. \A cand, res : commit_authoritative_state(cand, res) => CopyStep
    BY CommitCopies DEF CopyStep
  <2>2. pc' # "save"
    BY <1>3 DEF Clock, process_clock_and_events, tick_stopped, tick_retry, tick_not_pending,
                tick_warning, execute_scheduled_internet_deadline,
                execute_scheduled_shutdown_deadline, execute_scheduled_deadline
  <2>3. CASE \E t \in TimerId, res \in Result : \/ tick_warning(t, res)
                                               \/ execute_scheduled_internet_deadline(t, res)
                                               \/ execute_scheduled_shutdown_deadline(t, res)
    BY <2>1, <2>2, <2>3
       DEF tick_warning, execute_scheduled_internet_deadline,
           execute_scheduled_shutdown_deadline, execute_scheduled_deadline
  <2>4. QED
    BY <1>3, <2>2, <2>3
       DEF Clock, process_clock_and_events, tick_stopped, tick_retry, tick_not_pending,
           durableVars, CopyStep
<1>4. CASE Effect
  <2>1. CASE effect_stopped
    BY <2>1 DEF effect_stopped, ReturnFrom, durableVars, CopyStep
  <2>2. ASSUME NEW op \in Op, NEW target, NEW done, NEW failing, NEW always,
               NEW res \in Result, NEW obs,
               reconcile(op, target, done, failing, always, res, obs)
        PROVE  Goal
    <3>1. mem \in PersistentState
      BY DEF TypeOK
    <3>2. \A t \in TimerId :
             /\ Outcome(mem.actions[t], reconciled_candidate(mem, done).actions[t])
             /\ Outcome(mem.actions[t], failed_candidate(mem, failing, faults.gate + 1).actions[t])
      BY <3>1, ReconciledOutcome, FailedOutcome
    <3>3. /\ reconciled_candidate(mem, done).desired = mem.desired
          /\ failed_candidate(mem, failing, faults.gate + 1).desired = mem.desired
          /\ mem.outbox \subseteq reconciled_candidate(mem, done).outbox
          /\ mem.outbox \subseteq failed_candidate(mem, failing, faults.gate + 1).outbox
      BY DEF reconciled_candidate, failed_candidate, TypeOK, PersistentState
    <3>4. QED
      BY <2>2, <3>2, <3>3, ReconcileCopies DEF CopyStep
  <2>3. ASSUME NEW res \in Result, shutdown_effect(res) PROVE Goal
    BY <2>3, ShutdownCopies DEF CopyStep
  <2>4. ASSUME NEW res \in Result, NEW delay, save_after_effect(res, delay) PROVE Goal
    <3>1. CASE job.op = "startup" /\ res = "Err"
      BY <2>4, <3>1 DEF save_after_effect, Down, CopyStep
    <3>2. CASE ~(job.op = "startup" /\ res = "Err")
      <4>1. commit_post_side_effect_candidate(job.cand, res) /\ pc = "save"
            /\ pc' \in {"tick", "idle"}
        BY <2>4, <3>2 DEF save_after_effect, ReturnFrom
      <4>2. QED
        BY <4>1 DEF commit_post_side_effect_candidate, save, CopyStep
    <3>3. QED
      BY <3>1, <3>2
  <2>5. mem.desired \in DesiredInternetState
    BY DEF TypeOK, PersistentState
  <2>6. QED
    BY <1>4, <2>1, <2>2, <2>3, <2>4
       DEF Effect, startup_reconciliation, immediate_block_effect, restore_internet_effect,
           internet_deadline_effect, process_internet_reconciliation_retry, Op
<1>5. CASE (\E res \in Result : handle_stop(res)) \/ Crash
  BY <1>5 DEF handle_stop, Crash, Down, CopyStep
<1>6. CASE request_stop \/ Advance \/ ClockJump \/ UNCHANGED vars
  BY <1>6 DEF request_stop, Advance, ClockJump, vars, durableVars, CopyStep
<1>7. QED
  BY <1>1, <1>2, <1>3, <1>4, <1>5, <1>6 DEF Next, Worker

\* Hence memory and candidate are never ahead by anything but outcomes.
THEOREM LagInvariance == Spec => []LagInv
<1>1. Init => LagInv
  BY DEF Init, LagInv, Outcome
<1>2. ASSUME IInv, LagInv, [Next]_vars PROVE LagInv'
  <2>1. CopyStep
    BY <1>2, NextCopies
  <2>2. /\ disk'.desired = mem'.desired /\ disk'.outbox \subseteq mem'.outbox
        /\ \A t \in TimerId : Outcome(disk'.actions[t], mem'.actions[t])
    <3>1. CASE mem' = disk'
      BY <3>1 DEF Outcome
    <3>2. CASE disk' = disk /\ mem' = mem
      BY <1>2, <3>2 DEF LagInv
    <3>3. CASE pc = "save" /\ disk' = disk /\ mem' = job.cand
      <4>1. mem = disk
        BY <1>2, <3>3 DEF JobOK, DurabilityGap
      <4>2. QED
        BY <1>2, <3>3, <4>1 DEF LagInv
    <3>4. QED
      BY <2>1, <3>1, <3>2, <3>3 DEF CopyStep
  <2>3. pc' = "save" => /\ job'.cand.desired = mem'.desired
                        /\ mem'.outbox \subseteq job'.cand.outbox
                        /\ \A t \in TimerId : Outcome(mem'.actions[t], job'.cand.actions[t])
    BY <1>2, NextCopies DEF LagInv
  <2>4. QED
    BY <2>2, <2>3 DEF LagInv
<1> HIDE DEF IInv
<1>3. QED
  BY <1>1, <1>2, Invariance, PTL DEF Spec
-----------------------------------------------------------------------------
(* What one step makes of state.json.                                       *)

\* The transitions of a stored action b <- a.
StageStep(a, b) ==
    \/ b.state = a.state /\ (b.state # "Absent" => b.kind = a.kind)
    \/ a.state = "Pending" /\ (b.state = "Absent" \/ (b.state = "Executing" /\ b.kind = a.kind))
    \/ a.state = "Executing" /\ (b.state = "Absent" \/ (b.state = "Failed" /\ b.kind = a.kind))
    \/ a.state = "Failed" /\ a.kind = "ShutdownComputer" /\ b.state = "Absent"

\* Those of a command or a deadline.
Small(a, b) ==
    \/ b.state = a.state /\ (b.state # "Absent" => b.kind = a.kind)
    \/ a.state = "Pending" /\ (b.state = "Absent" \/ (b.state = "Executing" /\ b.kind = a.kind))

\* The Blocked policy comes with an immediate block or with an unfinished block.
BlockedFor(newJob, newDisk) ==
    disk.desired = "Unrestricted" /\ newDisk.desired = "Blocked" =>
        \/ newJob.op = "block"
        \/ \E t \in TimerId : /\ disk.actions[t].state \in {"Pending", "Executing"}
                              /\ newDisk.actions[t].state = "Executing"
                              /\ newDisk.actions[t].kind = "BlockInternet"

\* What a step does to state.json, for a timer and as a whole.
LifeStep(t) ==
    \/ fate[t] = "unused" /\ fate'[t] = "unused"
    \/ fate[t] = "unused" /\ fate'[t] # "unused" /\ disk'.actions[t].state = "Pending"
    \/ fate[t] # "unused" /\ fate'[t] # "unused" /\ StageStep(disk.actions[t], disk'.actions[t])

DiskStep ==
    /\ \A t \in TimerId : LifeStep(t)
    /\ disk.outbox \ disk'.outbox \subseteq acked'
    /\ BlockedFor(job', disk')

\* Memory may be ahead by an outcome when a command or a deadline moves on.
LEMMA SmallAfterOutcome ==
    ASSUME NEW a \in ScheduledAction, NEW b, NEW c, Outcome(a, b), Small(b, c)
    PROVE  StageStep(a, c)
<1>1. CASE b = a
  BY <1>1 DEF Small, StageStep
<1>2. CASE a.state = "Executing" /\ b = NoAction
  BY <1>2 DEF Small, StageStep, NoAction
<1>3. CASE a.state = "Executing" /\ b = [a EXCEPT !.state = "Failed"]
  <2>1. b.state = "Failed" /\ b.kind = a.kind
    BY <1>3 DEF ScheduledAction
  <2>2. QED
    BY <1>3, <2>1 DEF Small, StageStep
<1>4. QED
  BY <1>1, <1>2, <1>3 DEF Outcome

\* An outcome is itself a transition.
LEMMA OutcomeStage ==
    ASSUME NEW a \in ScheduledAction, NEW b, Outcome(a, b)
    PROVE  StageStep(a, b)
BY DEF Outcome, StageStep, NoAction, ScheduledAction

\* No step of a timer without a new save: its fate is settled only once it is
\* stored.
LEMMA SameDisk ==
    ASSUME disk' = disk, \A t \in TimerId : fate[t] = "unused" <=> fate'[t] = "unused"
    PROVE  DiskStep
BY DEF DiskStep, LifeStep, StageStep, BlockedFor

\* A commit of a candidate that makes a small step from memory.
LEMMA CommitStep ==
    ASSUME IInv, LagInv, NEW cand \in PersistentState, NEW res,
           commit_authoritative_state(cand, res),
           \A t \in TimerId : fate[t] = "unused" <=> fate'[t] = "unused",
           \A t \in TimerId : fate[t] # "unused" => Small(mem.actions[t], cand.actions[t]),
           mem.outbox \ cand.outbox \subseteq acked' \/ disk' = disk,
           BlockedFor(job', cand) \/ disk' = disk
    PROVE  DiskStep
<1>1. CASE disk' = disk
  BY <1>1, SameDisk
<1>2. CASE disk' # disk
  <2>1. disk' = cand
    BY <1>2, SaveType DEF commit_authoritative_state, save
  <2>2. \A t \in TimerId : disk.actions[t] \in ScheduledAction
    BY DEF TypeOK, PersistentState
  <2>3. \A t \in TimerId : fate[t] # "unused" => StageStep(disk.actions[t], cand.actions[t])
    BY <2>2, SmallAfterOutcome DEF LagInv
  <2>4. disk.outbox \ disk'.outbox \subseteq acked'
    BY <1>2, <2>1 DEF LagInv
  <2>5. QED
    BY <1>2, <2>1, <2>3, <2>4 DEF DiskStep, LifeStep
<1>3. QED
  BY <1>1, <1>2

\* Commands.
LEMMA CommandDisk ==
    ASSUME IInv, TimerInv, LagInv, Command
    PROVE  DiskStep
<1>m. mem \in PersistentState
  BY DEF TypeOK
<1>1. ASSUME NEW t \in TimerId, NEW kind \in ActionKind, NEW d \in Durations, NEW res \in Result,
             handle_schedule_action(t, kind, d, res)
      PROVE  DiskStep
  <2> DEFINE cand == scheduled_candidate(mem, t, kind, d)
  <2>1. cand \in PersistentState
    BY ScheduledCandidateType DEF TypeOK
  <2>2. /\ cand.actions[t].state = "Pending" /\ cand.desired = mem.desired
        /\ mem.outbox \subseteq cand.outbox
        /\ \A u \in TimerId \ {t} : cand.actions[u] = mem.actions[u]
    BY <1>m DEF scheduled_candidate, PersistentState
  <2>3. commit_authoritative_state(cand, res) /\ fate[t] = "unused"
    BY <1>1 DEF handle_schedule_action
  <2>4. CASE res = "Err"
    <3>1. fate' = fate /\ disk' = disk
      BY <1>1, <2>1, <2>4, SaveType DEF handle_schedule_action, commit_authoritative_state
    <3>2. QED
      BY <3>1, SameDisk
  <2>5. CASE res = "Ok"
    <3>1. disk' = cand /\ fate' = [fate EXCEPT ![t] = "accepted"]
      BY <1>1, <2>1, <2>5, SaveType DEF handle_schedule_action, commit_authoritative_state
    <3> HIDE DEF cand
    <3>2. ASSUME NEW u \in TimerId PROVE LifeStep(u)
      <4>1. CASE u = t
        BY <2>2, <2>3, <3>1, <4>1 DEF LifeStep, TypeOK
      <4>2. CASE u # t
        <5>1. cand.actions[u] = mem.actions[u] /\ fate'[u] = fate[u]
          BY <2>2, <3>1, <4>2 DEF TypeOK
        <5>2. disk.actions[u] \in ScheduledAction
          BY DEF TypeOK, PersistentState
        <5>3. StageStep(disk.actions[u], cand.actions[u])
          BY <5>1, <5>2, OutcomeStage DEF LagInv
        <5>4. QED
          BY <3>1, <5>1, <5>3 DEF LifeStep
      <4>3. QED
        BY <4>1, <4>2
    <3>3. disk.outbox \ disk'.outbox \subseteq acked' /\ disk'.desired = disk.desired
      BY <2>2, <3>1 DEF LagInv
    <3>4. QED
      BY <3>2, <3>3 DEF DiskStep, BlockedFor
  <2>6. QED
    BY <2>4, <2>5 DEF Result
<1>2. ASSUME NEW t \in TimerId, NEW res \in Result, handle_cancel_exact_timer(t, res)
      PROVE  DiskStep
  <2> DEFINE cand == cancelled_candidate(mem, t)
  <2>1. cand \in PersistentState
    BY CancelledCandidateType DEF TypeOK
  <2>2. mem.actions[t].state = "Pending" /\ commit_authoritative_state(cand, res)
    BY <1>2 DEF handle_cancel_exact_timer, cancellable
  <2>3. /\ \A u \in TimerId : Small(mem.actions[u], cand.actions[u])
        /\ cand.desired = mem.desired /\ cand.outbox = mem.outbox
    BY <1>m, <2>2 DEF cancelled_candidate, PersistentState, Small, NoAction
  <2>4. \A u \in TimerId : fate[u] = "unused" <=> fate'[u] = "unused"
    <3>1. fate[t] # "unused"
      BY <2>2 DEF TimerInv, Sound, NoAction
    <3>2. fate' = fate \/ fate' = [fate EXCEPT ![t] = "cancelled"]
      BY <1>2 DEF handle_cancel_exact_timer
    <3>3. QED
      BY <3>1, <3>2 DEF TypeOK
  <2> HIDE DEF cand
  <2>5. QED
    BY <2>1, <2>2, <2>3, <2>4, CommitStep DEF BlockedFor, LagInv
<1>3. ASSUME NEW res \in Result, NEW op \in {"block", "restore"}, NEW target \in DesiredInternetState,
             op = "block" => target = "Blocked", op = "restore" => target = "Unrestricted",
             commit_desired(op, target, res)
      PROVE  DiskStep
  <2> DEFINE cand == [mem EXCEPT !.desired = target]
  <2>1. /\ cand \in PersistentState /\ cand.actions = mem.actions /\ cand.outbox = mem.outbox
        /\ cand.desired = target
    BY <1>m DEF PersistentState
  <2>2. commit_authoritative_state(cand, res) /\ fate' = fate
    BY <1>3 DEF commit_desired
  <2>3. \A u \in TimerId : Small(mem.actions[u], cand.actions[u])
    BY <2>1 DEF Small
  <2>4. \/ disk' = disk
        \/ job'.op = op
    <3>1. NewJob(op, None, {}, mem.desired).op = op
      BY DEF NewJob
    <3>2. QED
      BY <1>3, <3>1 DEF commit_desired, commit_authoritative_state, save
  <2> HIDE DEF cand
  <2>5. BlockedFor(job', cand) \/ disk' = disk
    BY <1>3, <2>1, <2>4 DEF BlockedFor
  <2>6. QED
    BY <2>1, <2>2, <2>3, <2>5, CommitStep
<1>4. ASSUME NEW res \in Result, NEW e \in mem.outbox, handle_ack_telegram(e, res)
      PROVE  DiskStep
  <2> DEFINE cand == [mem EXCEPT !.outbox = @ \ {e}]
  <2>1. /\ cand \in PersistentState /\ cand.actions = mem.actions /\ cand.outbox = mem.outbox \ {e}
        /\ cand.desired = mem.desired
    BY <1>m DEF PersistentState
  <2>2. commit_authoritative_state(cand, res) /\ fate' = fate
    BY <1>4 DEF handle_ack_telegram
  <2>3. \A u \in TimerId : Small(mem.actions[u], cand.actions[u])
    BY <2>1 DEF Small
  <2>4. e \in acked' \/ disk' = disk
    BY <1>4 DEF handle_ack_telegram, commit_authoritative_state, save
  <2> HIDE DEF cand
  <2>5. QED
    BY <2>1, <2>2, <2>3, <2>4, CommitStep DEF BlockedFor, LagInv
<1>5. ASSUME NEW res \in Result, handle_send_child_message(res)
      PROVE  DiskStep
  <2> DEFINE cand == [mem EXCEPT !.outbox = @ \cup {Entry("chat", None, commands')}]
  <2>1. commit_authoritative_state(cand, res) /\ fate' = fate /\ TakeCommand
    BY <1>5 DEF handle_send_child_message
  <2>2. Entry("chat", None, commands') \in OutboxEntry
    BY <2>1, TakeCommandType DEF Entry, OutboxEntry
  <2>3. /\ cand \in PersistentState /\ cand.actions = mem.actions /\ mem.outbox \subseteq cand.outbox
        /\ cand.desired = mem.desired
    BY <1>m, <2>2 DEF PersistentState
  <2>4. \A u \in TimerId : Small(mem.actions[u], cand.actions[u])
    BY <2>3 DEF Small
  <2> HIDE DEF cand
  <2>5. QED
    BY <2>1, <2>3, <2>4, CommitStep DEF BlockedFor, LagInv
<1>6. CASE handle_subscribe_events
  BY <1>6, SameDisk DEF handle_subscribe_events, durableVars
<1>7. QED
  BY <1>1, <1>2, <1>3, <1>4, <1>5, <1>6
     DEF Command, handle_immediate_block, handle_restore_internet, DesiredInternetState
-----------------------------------------------------------------------------
\* The clock.
LEMMA ClockDisk ==
    ASSUME IInv, TimerInv, LagInv, Clock
    PROVE  DiskStep
<1>m. mem \in PersistentState
  BY DEF TypeOK
<1>1. CASE process_clock_and_events \/ tick_stopped \/ tick_retry \/ \E t \in TimerId : tick_not_pending(t)
  BY <1>1, SameDisk DEF process_clock_and_events, tick_stopped, tick_retry, tick_not_pending,
                        durableVars, history
<1>2. ASSUME NEW t \in TimerId, NEW res \in Result, tick_warning(t, res)
      PROVE  DiskStep
  <2> DEFINE due == crossed(t, tick.now)
             cand == warned_candidate(mem, t, due)
  <2>1. cand \in PersistentState
    BY <1>m, CrossedType, WarnedCandidateType
  <2> HIDE DEF due
  <2>2. \A u \in TimerId : /\ cand.actions[u].state = mem.actions[u].state
                           /\ cand.actions[u].kind = mem.actions[u].kind
    BY <1>m DEF warned_candidate, PersistentState, ScheduledAction
  <2>3. cand.desired = mem.desired /\ mem.outbox \subseteq cand.outbox
    BY <1>m DEF warned_candidate, PersistentState
  <2>4. commit_authoritative_state(cand, res) /\ fate' = fate
    BY <1>2 DEF tick_warning, due
  <2>5. \A u \in TimerId : Small(mem.actions[u], cand.actions[u])
    BY <2>2 DEF Small
  <2> HIDE DEF cand
  <2>6. QED
    BY <2>1, <2>3, <2>4, <2>5, CommitStep DEF BlockedFor, LagInv
<1>3. ASSUME NEW t \in TimerId, NEW op \in {"deadline", "shutdown"}, NEW res \in Result,
             execute_scheduled_deadline(t, op, res)
      PROVE  DiskStep
  <2> DEFINE cand == executing_candidate(mem, t)
  <2>1. mem.actions[t].state = "Pending"
    BY <1>3 DEF execute_scheduled_deadline, runtime_deadline_transition, NoTransition
  <2>2. /\ cand \in PersistentState
        /\ cand.actions[t].state = "Executing" /\ cand.actions[t].kind = mem.actions[t].kind
    BY <1>m, <2>1, ExecutingCandidateType, ExecutingCandidateFacts
  <2>3. /\ \A u \in TimerId \ {t} : cand.actions[u] = mem.actions[u]
        /\ cand.outbox = mem.outbox
        /\ cand.desired # mem.desired => mem.actions[t].kind = "BlockInternet"
    BY <1>m DEF executing_candidate, PersistentState
  <2>4. commit_authoritative_state(cand, res) /\ fate' = fate
    BY <1>3 DEF execute_scheduled_deadline, history
  <2> HIDE DEF cand
  <2>5. \A u \in TimerId : Small(mem.actions[u], cand.actions[u])
    BY <2>1, <2>2, <2>3 DEF Small
  <2>6. disk.actions[t].state = "Pending"
    BY <1>m, <2>1 DEF LagInv, Outcome, NoAction, TypeOK, PersistentState, ScheduledAction
  <2>7. BlockedFor(job', cand)
    BY <2>2, <2>3, <2>6 DEF BlockedFor, LagInv
  <2>8. QED
    BY <2>2, <2>3, <2>4, <2>5, <2>7, CommitStep
<1>4. QED
  BY <1>1, <1>2, <1>3
     DEF Clock, execute_scheduled_internet_deadline, execute_scheduled_shutdown_deadline

\* The end of the process: state.json stays, or a clean stop saves what memory
\* held.
LEMMA DownDisk ==
    ASSUME IInv, LagInv, fate' = fate, disk' \in {disk, mem}
    PROVE  DiskStep
<1>1. CASE disk' = disk
  BY <1>1, SameDisk
<1>2. CASE disk' = mem
  <2>1. \A t \in TimerId : disk.actions[t] \in ScheduledAction
    BY DEF TypeOK, PersistentState
  <2>2. \A t \in TimerId : StageStep(disk.actions[t], mem.actions[t])
    BY <2>1, OutcomeStage DEF LagInv
  <2>3. QED
    BY <1>2, <2>2 DEF DiskStep, LifeStep, BlockedFor, LagInv
<1>3. QED
  BY <1>1, <1>2

\* Platform calls and the save that follows.
LEMMA EffectDisk ==
    ASSUME IInv, TimerInv, LagInv, Effect
    PROVE  DiskStep
<1>1. CASE effect_stopped
  BY <1>1, SameDisk DEF effect_stopped, durableVars, history
<1>2. ASSUME NEW op, NEW target, NEW done, NEW failing, NEW always, NEW res, NEW obs,
             reconcile(op, target, done, failing, always, res, obs)
      PROVE  DiskStep
  <2>1. disk' = disk
    BY <1>2 DEF reconcile, durableVars
  <2>2. ASSUME NEW t \in TimerId PROVE fate[t] = "unused" <=> fate'[t] = "unused"
    <3>1. fate[t] = "unused" => mem.actions[t].state = "Absent"
      BY DEF TimerInv, Sound, NoAction
    <3>2. QED
      BY <1>2, <3>1 DEF reconcile
  <2>3. QED
    BY <2>1, <2>2, SameDisk
<1>3. ASSUME NEW res \in Result, shutdown_effect(res) PROVE DiskStep
  <2>1. /\ disk' = disk /\ job.timer \in TimerId
        /\ mem.actions[job.timer].state = "Executing"
    BY <1>3, ShutdownCopies
  <2>2. fate[job.timer] # "unused"
    BY <2>1 DEF TimerInv, Sound, NoAction
  <2>3. fate' = [fate EXCEPT ![job.timer] = IF res = "Ok" THEN "done" ELSE @]
    BY <1>3 DEF shutdown_effect
  <2>4. QED
    BY <2>1, <2>2, <2>3, SameDisk DEF TypeOK
<1>4. ASSUME NEW res \in Result, NEW delay, save_after_effect(res, delay) PROVE DiskStep
  <2>1. pc = "save" /\ job.cand \in PersistentState /\ mem = disk /\ fate' = fate
    BY <1>4 DEF save_after_effect, JobOK, DurabilityGap, history
  <2>2. disk' \in {disk, job.cand}
    BY <1>4, <2>1, SaveType DEF save_after_effect, commit_post_side_effect_candidate
  <2>3. CASE disk' = disk
    BY <2>1, <2>3, SameDisk
  <2>4. CASE disk' = job.cand
    <3>1. \A t \in TimerId : disk.actions[t] \in ScheduledAction
      BY DEF TypeOK, PersistentState
    <3>2. \A t \in TimerId : StageStep(disk.actions[t], job.cand.actions[t])
      BY <2>1, <3>1, OutcomeStage DEF LagInv
    <3>3. QED
      BY <2>1, <2>4, <3>2 DEF DiskStep, LifeStep, BlockedFor, LagInv
  <2>5. QED
    BY <2>2, <2>3, <2>4
<1>5. QED
  BY <1>1, <1>2, <1>3, <1>4
     DEF Effect, startup_reconciliation, immediate_block_effect, restore_internet_effect,
         internet_deadline_effect, process_internet_reconciliation_retry

\* Recovery carries out or drops what is overdue and touches nothing else.
LEMMA RecoveredStage ==
    ASSUME NEW s \in PersistentState, NEW t \in TimerId
    PROVE  /\ StageStep(s.actions[t], recovered_action(s, t))
           /\ t \in recovered_overdue_block_ids(s) =>
                  /\ s.actions[t].state \in {"Pending", "Executing"}
                  /\ recovered_action(s, t).state = "Executing"
                  /\ recovered_action(s, t).kind = "BlockInternet"
           /\ t \in missed_shutdowns(s) => s.actions[t].state # "Absent"
<1>1. s.actions[t] \in ScheduledAction
  BY DEF PersistentState
<1>a. /\ t \in missed_shutdowns(s) => t \notin recovered_overdue_block_ids(s) /\ ~future(s, t)
      /\ t \in recovered_overdue_block_ids(s) => t \notin missed_shutdowns(s) /\ ~future(s, t)
  BY DEF missed_shutdowns, recovered_overdue_block_ids, overdue, future
<1>2. t \in missed_shutdowns(s) =>
          /\ s.actions[t].state \in StoredState /\ s.actions[t].kind = "ShutdownComputer"
          /\ recovered_action(s, t) = NoAction
  <2>1. t \in missed_shutdowns(s) => recovered_action(s, t) = NoAction
    BY <1>a DEF recovered_action
  <2>2. t \in missed_shutdowns(s) =>
           s.actions[t].state # "Absent" /\ s.actions[t].kind = "ShutdownComputer"
    BY DEF missed_shutdowns, overdue
  <2>3. QED
    BY <1>1, <2>1, <2>2 DEF ScheduledAction
<1>3. t \in recovered_overdue_block_ids(s) =>
          /\ s.actions[t].state \in {"Pending", "Executing"} /\ s.actions[t].kind = "BlockInternet"
          /\ recovered_action(s, t) = [s.actions[t] EXCEPT !.state = "Executing"]
  <2>1. t \in recovered_overdue_block_ids(s) =>
           recovered_action(s, t) = [s.actions[t] EXCEPT !.state = "Executing"]
    BY <1>a DEF recovered_action
  <2>2. QED
    BY <2>1 DEF recovered_overdue_block_ids
<1> DEFINE e == recovery_passed_thresholds(remaining(s, t), s.actions[t].emitted)
           r == [s.actions[t] EXCEPT !.emitted = @ \cup e]
<1>4. t \notin missed_shutdowns(s) \cup recovered_overdue_block_ids(s) =>
          recovered_action(s, t) \in {r, s.actions[t]}
  BY DEF recovered_action
<1>5. r.state = s.actions[t].state /\ r.kind = s.actions[t].kind
  BY <1>1 DEF ScheduledAction
<1> HIDE DEF r
<1>6. QED
  BY <1>1, <1>2, <1>3, <1>4, <1>5 DEF StageStep, NoAction, StoredState, ScheduledAction

\* Startup.
LEMMA StartupDisk ==
    ASSUME IInv, TimerInv, LagInv, NEW res \in Result, perform_startup_recovery(res)
    PROVE  DiskStep
<1> DEFINE cand == recovery_candidate(disk)
<1>1. cand \in PersistentState /\ disk \in PersistentState
  BY RecoveryCandidateType DEF TypeOK
<1>2. /\ \A t \in TimerId : cand.actions[t] = recovered_action(disk, t)
      /\ disk.outbox \subseteq cand.outbox
      /\ cand.desired # disk.desired => recovered_overdue_block_ids(disk) # {}
  BY DEF recovery_candidate
<1>3. IF cand = disk THEN res = "Ok" /\ UNCHANGED <<disk, faults>> ELSE save(cand, res)
  BY DEF perform_startup_recovery
<1>4. \A t \in TimerId : fate[t] = "unused" <=> fate'[t] = "unused"
  <2>1. \A t \in missed_shutdowns(disk) : t \in TimerId /\ fate[t] # "unused"
    BY <1>1, RecoveredStage DEF TimerInv, Sound, NoAction, missed_shutdowns
  <2>2. QED
    BY <2>1 DEF perform_startup_recovery, Result
<1> HIDE DEF cand
<1>5. CASE disk' = disk
  BY <1>4, <1>5, SameDisk
<1>6. CASE disk' # disk
  <2>1. disk' = cand
    BY <1>3, <1>6 DEF save
  <2>2. \A t \in TimerId : StageStep(disk.actions[t], cand.actions[t])
    BY <1>1, <1>2, RecoveredStage
  <2>3. BlockedFor(job', cand)
    <3>1. \A t \in recovered_overdue_block_ids(disk) :
             /\ t \in TimerId
             /\ disk.actions[t].state \in {"Pending", "Executing"}
             /\ cand.actions[t].state = "Executing" /\ cand.actions[t].kind = "BlockInternet"
      BY <1>1, <1>2, RecoveredStage DEF recovered_overdue_block_ids
    <3>2. QED
      BY <1>2, <3>1 DEF BlockedFor
  <2>4. QED
    BY <1>2, <1>4, <2>1, <2>2, <2>3 DEF DiskStep, LifeStep
<1>7. QED
  BY <1>5, <1>6

\* What any step makes of state.json.
LEMMA NextDisk == IInv /\ TimerInv /\ LagInv /\ [Next]_vars => DiskStep
<1> SUFFICES ASSUME IInv, TimerInv, LagInv, [Next]_vars PROVE DiskStep
  OBVIOUS
<1>1. CASE (\E res \in Result : handle_stop(res)) \/ Crash
  <2>1. disk' \in {disk, mem} /\ fate' = fate
    BY <1>1 DEF handle_stop, flush_pending_durable_candidate, save, Crash, DurabilityGap, history
  <2>2. QED
    BY <2>1, DownDisk
<1>2. CASE request_stop \/ Advance \/ ClockJump \/ UNCHANGED vars
  BY <1>2, SameDisk DEF request_stop, Advance, ClockJump, vars, durableVars, history
<1>3. QED
  BY <1>1, <1>2, StartupDisk, CommandDisk, ClockDisk, EffectDisk DEF Next, Worker
-----------------------------------------------------------------------------
(* What follows for state.json.                                             *)

\* An outbox entry leaves state.json only by being acknowledged, whatever
\* recovery, failed saves and kept candidates do to the state.
THEOREM NoEntryLost == Spec => OutboxLossless
<1>1. IInv /\ TimerInv /\ LagInv /\ [Next]_vars =>
          [\A e \in disk.outbox \ disk'.outbox : e \in acked']_vars
  BY NextDisk DEF DiskStep
<1> HIDE DEF IInv
<1>2. QED
  BY <1>1, Invariance, TimerInvariance, LagInvariance, PTL DEF Spec, OutboxLossless

\* The stored policy goes back to Blocked only for an immediate block or
\* together with a block timer that was Pending or Executing: no failed or
\* finished one overrides a restore.
THEOREM RestoreRespected == Spec => ReblockHasTimer
<1>1. IInv /\ TimerInv /\ LagInv /\ [Next]_vars =>
          [disk.desired = "Unrestricted" /\ disk'.desired = "Blocked" =>
               \/ job'.op = "block"
               \/ \E t \in TimerId : /\ disk.actions[t].state \in {"Pending", "Executing"}
                                     /\ disk'.actions[t].state = "Executing"
                                     /\ disk'.actions[t].kind = "BlockInternet"]_vars
  BY NextDisk DEF DiskStep, BlockedFor
<1> HIDE DEF IInv
<1>2. QED
  BY <1>1, Invariance, TimerInvariance, LagInvariance, PTL DEF Spec, ReblockHasTimer

\* A stop that answers Ok has saved what memory held: without a kept candidate
\* memory is on disk already, and a kept candidate is memory.
THEOREM StopIsDurable == Spec => CleanStopDurable
<1>1. IInv => [handle_stop("Ok") => disk' = mem]_vars
  BY DEF handle_stop, flush_pending_durable_candidate, save, DurabilityGap
<1> HIDE DEF IInv
<1>2. QED
  BY <1>1, Invariance, PTL DEF CleanStopDurable
-----------------------------------------------------------------------------
(* The coordinator implements ActionLifecycle.                              *)

\* A step of state.json is a stutter or a transition of the life cycle.
LEMMA StageMoves ==
    ASSUME NEW t \in TimerId, disk.actions[t] \in ScheduledAction,
           disk'.actions[t] \in ScheduledAction, LifeStep(t)
    PROVE  /\ durable_stage(t)' \in Lifecycle!Stage
           /\ \/ durable_stage(t)' = durable_stage(t)
              \/ Lifecycle!MayBecome(durable_stage(t), durable_stage(t)')
<1> DEFINE a == disk.actions[t]
           b == disk'.actions[t]
<1>1. /\ a.kind \in ActionKind /\ a.state \in StoredState \cup {"Absent"}
      /\ b.kind \in ActionKind /\ b.state \in StoredState \cup {"Absent"}
  BY DEF ScheduledAction
<1>2. durable_stage(t) = (IF fate[t] = "unused" THEN Lifecycle!Unused
                          ELSE IF a.state = "Absent" THEN Lifecycle!Gone ELSE <<a.kind, a.state>>)
  BY DEF durable_stage, Lifecycle!Unused, Lifecycle!Gone
<1>3. durable_stage(t)' = (IF fate'[t] = "unused" THEN Lifecycle!Unused
                           ELSE IF b.state = "Absent" THEN Lifecycle!Gone ELSE <<b.kind, b.state>>)
  BY DEF durable_stage, Lifecycle!Unused, Lifecycle!Gone
<1> HIDE DEF a, b
<1>4. durable_stage(t)' \in Lifecycle!Stage
  BY <1>1, <1>3 DEF Lifecycle!Stage, StoredState
<1>5. CASE fate[t] = "unused"
  BY <1>1, <1>2, <1>3, <1>4, <1>5 DEF LifeStep, Lifecycle!MayBecome, b
<1>6. CASE fate[t] # "unused"
  <2>1. StageStep(a, b) /\ fate'[t] # "unused"
    BY <1>6 DEF LifeStep, a, b
  <2>2. QED
    BY <1>1, <1>2, <1>3, <1>4, <1>6, <2>1 DEF StageStep, Lifecycle!MayBecome, ActionKind, StoredState
<1>7. QED
  BY <1>4, <1>5, <1>6

\* Only shutdown_effect calls the power controller.
LEMMA CallsOnlyInEffect ==
    ASSUME [Next]_vars
    PROVE  calls' = calls \/ \E res \in Result : shutdown_effect(res)
<1>1. CASE Command
  BY <1>1 DEF Command, TakeCommand, handle_schedule_action, handle_cancel_exact_timer,
              handle_immediate_block, handle_restore_internet, commit_desired,
              handle_ack_telegram, handle_send_child_message, handle_subscribe_events
<1>2. CASE Clock
  BY <1>2 DEF Clock, process_clock_and_events, tick_stopped, tick_retry, tick_not_pending,
              tick_warning, execute_scheduled_internet_deadline,
              execute_scheduled_shutdown_deadline, execute_scheduled_deadline, history
<1>3. CASE Effect
  BY <1>3 DEF Effect, effect_stopped, startup_reconciliation, immediate_block_effect,
              restore_internet_effect, internet_deadline_effect,
              process_internet_reconciliation_retry, reconcile, save_after_effect, history
<1>4. QED
  BY <1>1, <1>2, <1>3
     DEF Next, Worker, perform_startup_recovery, handle_stop, request_stop, Crash, Advance,
         ClockJump, vars, history

\* The coordinator, with its crashes, failing saves, kept candidates and
\* corrected clocks, implements the life cycle of a scheduled action.
THEOREM LifecycleImplemented == Spec => ImplementsLifecycle
<1> DEFINE life == [t \in TimerId |-> durable_stage(t)]
<1>1. Init => Lifecycle!LifeInit
  BY DEF Init, Lifecycle!LifeInit, durable_stage, Lifecycle!Unused
<1>2. ASSUME IInv, IInv', TimerInv, LagInv, [Next]_vars
      PROVE  [Lifecycle!LifeNext]_<<life, calls>>
  <2>1. CASE calls' = calls
    <3>1. \A t \in TimerId : /\ disk.actions[t] \in ScheduledAction
                             /\ disk'.actions[t] \in ScheduledAction
      BY <1>2 DEF TypeOK, PersistentState
    <3>2. \A t \in TimerId : LifeStep(t)
      BY <1>2, NextDisk DEF DiskStep
    <3>3. \A t \in TimerId : /\ durable_stage(t)' \in Lifecycle!Stage
                             /\ \/ durable_stage(t)' = durable_stage(t)
                                \/ Lifecycle!MayBecome(durable_stage(t), durable_stage(t)')
      BY <3>1, <3>2, StageMoves
    <3>4. Lifecycle!Move
      BY <2>1, <3>3 DEF Lifecycle!Move
    <3>5. QED
      BY <3>4 DEF Lifecycle!LifeNext
  <2>2. ASSUME NEW res \in Result, shutdown_effect(res) PROVE Lifecycle!LifeNext
    <3>1. /\ disk' = disk /\ job.timer \in TimerId /\ mem = disk
          /\ disk.actions[job.timer].state = "Executing"
          /\ disk.actions[job.timer].kind = "ShutdownComputer"
      BY <1>2, <2>2, ShutdownCopies
    <3>2. calls[job.timer] = 0 /\ calls' = [calls EXCEPT ![job.timer] = 1]
      <4>1. /\ pc = "effect" /\ job.op = "shutdown"
            /\ calls' = [calls EXCEPT ![job.timer] = @ + 1]
        BY <2>2 DEF shutdown_effect
      <4>2. calls[job.timer] = 0
        BY <1>2, <4>1 DEF TimerInv
      <4>3. QED
        BY <4>1, <4>2
    <3>3. fate[job.timer] # "unused"
      BY <1>2, <3>1 DEF TimerInv, Sound, NoAction
    <3>4. \A t \in TimerId : durable_stage(t)' = durable_stage(t)
      <4>1. fate' = [fate EXCEPT ![job.timer] = IF res = "Ok" THEN "done" ELSE @]
        BY <2>2 DEF shutdown_effect
      <4>2. \A t \in TimerId : fate'[t] = "unused" <=> fate[t] = "unused"
        BY <1>2, <3>3, <4>1 DEF TypeOK
      <4>3. QED
        BY <3>1, <4>2 DEF durable_stage
    <3>5. durable_stage(job.timer) = <<"ShutdownComputer", "Executing">>
      BY <3>1, <3>3 DEF durable_stage
    <3>6. life' = life /\ life[job.timer] = <<"ShutdownComputer", "Executing">>
      BY <3>1, <3>4, <3>5
    <3>7. Lifecycle!PowerCall(job.timer)
      BY <3>2, <3>6 DEF Lifecycle!PowerCall
    <3>8. QED
      BY <3>1, <3>7 DEF Lifecycle!LifeNext
  <2>3. QED
    BY <1>2, <2>1, <2>2, CallsOnlyInEffect
<1> HIDE DEF IInv
<1>3. QED
  BY <1>1, <1>2, Invariance, TimerInvariance, LagInvariance, PTL
     DEF Spec, ImplementsLifecycle, Lifecycle!LifeSpec
=============================================================================
