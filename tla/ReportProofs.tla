---------------------------- MODULE ReportProofs ----------------------------
(***************************************************************************)
(* What the service reports and what it does by its clocks (Runtime.tla).  *)
(* First the snapshot against the firewall, the retry metadata and the     *)
(* stored actions.  Then every pending action has an anchor that wakes it, *)
(* warnings are raised in their window and once, an outbox entry is        *)
(* offered until it is acknowledged and never again, and the worker wakes  *)
(* only for work.                                                          *)
(***************************************************************************)
EXTENDS TimerProofs

USE DEF IInv

-----------------------------------------------------------------------------
(* The inductive invariant.                                                 *)

\* The shutdowns that can still happen.
Live(s) == {t \in TimerId : /\ s.actions[t].kind = "ShutdownComputer"
                            /\ s.actions[t].state \in {"Pending", "Executing"}}

\* A shutdown state that tells whether there is one.
Reports(current, s) ==
    /\ current = "Idle" => Live(s) = {}
    /\ current = "Scheduled" => Live(s) # {}

\* A healthy gate enforces the policy, an unhealthy one is being retried.
Enforces(gate, p, o, s) ==
    /\ gate = "ok" => p = s.desired /\ o = s.desired
    /\ gate = "error" <=> s.retry > 0

Armed(h, next) == h.gate = "error" => next > 0 \/ h.policy = "error"

\* After a firewall call and before its save the snapshot speaks of the
\* candidate, which memory is about to become; until the call of an operation
\* that changes the policy it is not enforced yet.
ReportInv ==
    /\ pc \in {"idle", "tick", "effect"} => Reports(shutdown, mem)
    /\ pc = "save" => Reports(shutdown, job.cand)
    /\ stop = "no" /\ (pc \in {"idle", "tick"} \/ (pc = "effect" /\ job.op = "shutdown")) =>
           Enforces(health.gate, platform, observed, mem) /\ Armed(health, nextRetry)
    /\ stop = "no" /\ pc = "save" =>
           /\ Enforces(health.gate, platform, observed, job.cand)
           /\ Armed(health, nextRetry) \/ job.arm # 0
    /\ pc = "effect" /\ job.op = "startup" =>
           \A t \in job.ids : mem.actions[t].kind = "BlockInternet"
-----------------------------------------------------------------------------
(* The shutdown state.                                                      *)

\* derive_shutdown_state reports the actions it is given.
LEMMA DerivedReports ==
    ASSUME NEW c \in ShutdownState, NEW s
    PROVE  Reports(derive_shutdown_state(c, s.actions), s)
BY DEF derive_shutdown_state, ShutdownState, Reports, Live

\* A state with the same shutdowns deserves the same report.
LEMMA SameLive ==
    ASSUME NEW s, NEW r,
           \A t \in TimerId :
               \/ r.actions[t] = s.actions[t]
               \/ s.actions[t].kind # "ShutdownComputer" /\ r.actions[t].kind # "ShutdownComputer"
               \/ /\ r.actions[t].kind = s.actions[t].kind
                  /\ r.actions[t].state \in {"Pending", "Executing"} <=>
                         s.actions[t].state \in {"Pending", "Executing"}
    PROVE  Live(r) = Live(s)
BY DEF Live

\* NoAction is no shutdown.
LEMMA NoActionKind == NoAction.kind = "BlockInternet" /\ NoAction.state = "Absent"
BY DEF NoAction
-----------------------------------------------------------------------------
(* Commands and clock steps: one authoritative commit.                      *)

\* Such a step leaves the gate alone; it moves the policy only on its way to
\* the firewall.
LEMMA CommitReport ==
    ASSUME IInv, ReportInv, NEW cand \in PersistentState, NEW res \in Result,
           commit_authoritative_state(cand, res), mark_persistence(res),
           pc \in {"idle", "tick"}, stop' = stop,
           observed' = observed, platform' = platform, nextRetry' = nextRetry,
           cand.retry = mem.retry,
           \/ pc' \in {"idle", "tick"} /\ cand.desired = mem.desired
           \/ pc' = pc /\ res = "Err"
           \/ pc' = "effect" /\ job'.op \in {"block", "restore", "deadline"}
           \/ pc' = "effect" /\ job'.op = "shutdown" /\ cand.desired = mem.desired,
           Reports(shutdown', mem')
    PROVE  ReportInv'
<1>1. /\ res = "Ok" => mem' = cand
      /\ res # "Ok" => mem' = mem
  BY CommitGap
<1>2. health'.gate = health.gate /\ health'.policy = health.policy
  BY DEF mark_persistence, TypeOK
<1>3. mem'.retry = mem.retry
  BY <1>1
<1>4. mem'.desired = mem.desired \/ (pc' = "effect" /\ job'.op # "shutdown")
  BY <1>1
<1>5. pc' # "save" /\ (pc' = "effect" => job'.op # "startup")
  OBVIOUS
<1>6. stop = "no" => Enforces(health.gate, platform, observed, mem) /\ Armed(health, nextRetry)
  BY DEF ReportInv
<1>7. Armed(health, nextRetry) => Armed(health', nextRetry')
  BY <1>2 DEF Armed
<1>8. Enforces(health.gate, platform, observed, mem) /\ mem'.desired = mem.desired =>
          Enforces(health'.gate, platform', observed', mem')
  BY <1>2, <1>3 DEF Enforces
<1>9. stop' = "no" /\ (pc' \in {"idle", "tick"} \/ (pc' = "effect" /\ job'.op = "shutdown")) =>
           Enforces(health'.gate, platform', observed', mem') /\ Armed(health', nextRetry')
  BY <1>4, <1>5, <1>6, <1>7, <1>8
<1>10. QED
  BY <1>5, <1>9 DEF ReportInv

\* Commands.
LEMMA ScheduleReport ==
    ASSUME IInv, TimerInv, ReportInv, NEW t \in TimerId, NEW kind \in ActionKind, NEW d \in Durations,
           NEW res \in Result, handle_schedule_action(t, kind, d, res)
    PROVE  ReportInv'
<1> DEFINE cand == scheduled_candidate(mem, t, kind, d)
<1>1. cand \in PersistentState
  BY ScheduledCandidateType DEF TypeOK
<1>2. /\ cand.actions[t].kind = kind /\ cand.desired = mem.desired /\ cand.retry = mem.retry
      /\ \A u \in TimerId \ {t} : cand.actions[u] = mem.actions[u]
  BY DEF scheduled_candidate, TypeOK, PersistentState
<1>3. /\ commit_authoritative_state(cand, res) /\ mark_persistence(res) /\ stop' = stop
      /\ observed' = observed /\ platform' = platform /\ nextRetry' = nextRetry
      /\ pc' = pc /\ pc = "idle" /\ fate[t] = "unused"
  BY DEF handle_schedule_action, TakeCommand
<1>4. mem.actions[t] = NoAction
  BY <1>3 DEF TimerInv, Sound
<1> HIDE DEF cand
<1>5. /\ res = "Ok" => mem' = cand
      /\ res # "Ok" => mem' = mem
  BY <1>1, <1>3, CommitGap
<1>6. Reports(shutdown', mem')
  <2>1. CASE res = "Err"
    BY <1>3, <1>5, <2>1 DEF handle_schedule_action, ReportInv
  <2>2. CASE res = "Ok" /\ kind = "ShutdownComputer"
    BY <1>5, <2>2, DerivedReports DEF handle_schedule_action, TypeOK
  <2>3. CASE res = "Ok" /\ kind # "ShutdownComputer"
    <3>1. Live(cand) = Live(mem)
      BY <1>2, <1>4, <2>3, NoActionKind, SameLive
    <3>2. shutdown' = shutdown
      BY <2>3 DEF handle_schedule_action
    <3>3. QED
      BY <1>3, <1>5, <2>3, <3>1, <3>2 DEF ReportInv, Reports
  <2>4. QED
    BY <2>1, <2>2, <2>3 DEF Result
<1>7. QED
  BY <1>1, <1>2, <1>3, <1>6, CommitReport

\* A cancellation gives up the shutdown report with the shutdown.
LEMMA CancelReport ==
    ASSUME IInv, ReportInv, NEW t \in TimerId, NEW res \in Result, handle_cancel_exact_timer(t, res)
    PROVE  ReportInv'
<1> DEFINE cand == cancelled_candidate(mem, t)
<1>1. cand \in PersistentState
  BY CancelledCandidateType DEF TypeOK
<1>2. /\ cand.actions[t] = NoAction /\ cand.desired = mem.desired /\ cand.retry = mem.retry
      /\ \A u \in TimerId \ {t} : cand.actions[u] = mem.actions[u]
  BY DEF cancelled_candidate, TypeOK, PersistentState
<1>3. /\ commit_authoritative_state(cand, res) /\ mark_persistence(res) /\ stop' = stop
      /\ observed' = observed /\ platform' = platform /\ nextRetry' = nextRetry
      /\ pc' = pc /\ pc = "idle"
  BY DEF handle_cancel_exact_timer, TakeCommand
<1> HIDE DEF cand
<1>5. /\ res = "Ok" => mem' = cand
      /\ res # "Ok" => mem' = mem
  BY <1>1, <1>3, CommitGap
<1>6. Reports(shutdown', mem')
  <2>1. CASE res = "Err"
    BY <1>3, <1>5, <2>1 DEF handle_cancel_exact_timer, ReportInv
  <2>2. CASE res = "Ok" /\ mem.actions[t].kind = "ShutdownComputer"
    BY <1>5, <2>2, DerivedReports DEF handle_cancel_exact_timer, TypeOK
  <2>3. CASE res = "Ok" /\ mem.actions[t].kind # "ShutdownComputer"
    <3>1. Live(cand) = Live(mem)
      BY <1>2, <2>3, NoActionKind, SameLive
    <3>2. shutdown' = shutdown
      BY <2>3 DEF handle_cancel_exact_timer
    <3>3. QED
      BY <1>3, <1>5, <2>3, <3>1, <3>2 DEF ReportInv, Reports
  <2>4. QED
    BY <2>1, <2>2, <2>3 DEF Result
<1>7. QED
  BY <1>1, <1>2, <1>3, <1>6, CommitReport

\* A commit that leaves the shutdowns alone keeps their report.
LEMMA QuietReports ==
    ASSUME IInv, ReportInv, NEW cand \in PersistentState, NEW res \in Result,
           commit_authoritative_state(cand, res), mark_persistence(res),
           pc \in {"idle", "tick"}, shutdown' = shutdown, Live(cand) = Live(mem)
    PROVE  Reports(shutdown', mem')
<1>1. mem' \in {cand, mem}
  BY CommitGap
<1>2. Reports(shutdown, mem)
  BY DEF ReportInv
<1>3. QED
  BY <1>1, <1>2 DEF Reports

\* Commands.
LEMMA CommandReport ==
    ASSUME IInv, TimerInv, ReportInv, Command
    PROVE  ReportInv'
<1>1. ASSUME NEW res \in Result, NEW op \in {"block", "restore"}, NEW target \in DesiredInternetState,
             commit_desired(op, target, res)
      PROVE  ReportInv'
  <2> DEFINE cand == [mem EXCEPT !.desired = target]
  <2>1. cand \in PersistentState /\ cand.actions = mem.actions /\ cand.retry = mem.retry
    BY DEF TypeOK, PersistentState
  <2>2. /\ commit_authoritative_state(cand, res) /\ mark_persistence(res) /\ pc = "idle" /\ stop' = stop
        /\ observed' = observed /\ platform' = platform /\ nextRetry' = nextRetry /\ shutdown' = shutdown
    BY <1>1 DEF commit_desired, TakeCommand
  <2>3. \/ pc' = pc /\ res = "Err"
        \/ pc' = "effect" /\ job'.op = op
    <3>1. NewJob(op, None, {}, mem.desired).op = op
      BY DEF NewJob
    <3>2. QED
      BY <1>1, <3>1 DEF commit_desired
  <2> HIDE DEF cand
  <2>4. Live(cand) = Live(mem)
    BY <2>1, SameLive
  <2>5. QED
    BY <2>1, <2>2, <2>3, <2>4, QuietReports, CommitReport
<1>2. ASSUME NEW res \in Result, NEW e \in mem.outbox, handle_ack_telegram(e, res)
      PROVE  ReportInv'
  <2> DEFINE cand == [mem EXCEPT !.outbox = @ \ {e}]
  <2>1. cand \in PersistentState /\ cand.actions = mem.actions /\ cand.retry = mem.retry
        /\ cand.desired = mem.desired
    BY DEF TypeOK, PersistentState
  <2>2. /\ commit_authoritative_state(cand, res) /\ mark_persistence(res) /\ pc = "idle" /\ stop' = stop
        /\ observed' = observed /\ platform' = platform /\ nextRetry' = nextRetry
        /\ shutdown' = shutdown /\ pc' = pc
    BY <1>2 DEF handle_ack_telegram, TakeCommand
  <2> HIDE DEF cand
  <2>3. Live(cand) = Live(mem)
    BY <2>1, SameLive
  <2>4. QED
    BY <2>1, <2>2, <2>3, QuietReports, CommitReport
<1>3. ASSUME NEW res \in Result, handle_send_child_message(res)
      PROVE  ReportInv'
  <2> DEFINE cand == [mem EXCEPT !.outbox = @ \cup {Entry("chat", None, commands')}]
  <2>1. /\ commit_authoritative_state(cand, res) /\ mark_persistence(res) /\ pc = "idle" /\ stop' = stop
        /\ observed' = observed /\ platform' = platform /\ nextRetry' = nextRetry
        /\ shutdown' = shutdown /\ pc' = pc /\ TakeCommand
    BY <1>3 DEF handle_send_child_message, TakeCommand
  <2>2. Entry("chat", None, commands') \in OutboxEntry
    BY <2>1, TakeCommandType DEF Entry, OutboxEntry
  <2>3. cand \in PersistentState /\ cand.actions = mem.actions /\ cand.retry = mem.retry
        /\ cand.desired = mem.desired
    BY <2>2 DEF TypeOK, PersistentState
  <2> HIDE DEF cand
  <2>4. Live(cand) = Live(mem)
    BY <2>3, SameLive
  <2>5. QED
    BY <2>1, <2>3, <2>4, QuietReports, CommitReport
<1>4. CASE handle_subscribe_events
  BY <1>4 DEF handle_subscribe_events, TakeCommand, durableVars, ReportInv
<1>5. QED
  BY <1>1, <1>2, <1>3, <1>4, ScheduleReport, CancelReport
     DEF Command, handle_immediate_block, handle_restore_internet, DesiredInternetState

\* Clock steps: no shutdown starts or ends, a deadline that moves the policy
\* is on its way to the firewall.
LEMMA ClockReport ==
    ASSUME IInv, ReportInv, Clock
    PROVE  ReportInv'
<1>1. CASE process_clock_and_events \/ tick_stopped \/ \E t \in TimerId : tick_not_pending(t)
  BY <1>1 DEF process_clock_and_events, tick_stopped, tick_not_pending, durableVars, stopVars, ReportInv
<1>2. CASE tick_retry
  <2>1. NewJob("retry", None, {}, mem.desired).op = "retry"
    BY DEF NewJob
  <2>2. /\ pc = "tick" /\ mem' = mem /\ shutdown' = shutdown /\ health' = health /\ stop' = stop
        /\ observed' = observed /\ platform' = platform
        /\ \/ pc' = "effect" /\ job'.op = "retry"
           \/ pc' = "idle" /\ nextRetry' = nextRetry
    BY <1>2, <2>1 DEF tick_retry, durableVars, stopVars
  <2>3. QED
    BY <2>2 DEF ReportInv
<1>3. ASSUME NEW t \in TimerId, NEW res \in Result, tick_warning(t, res) PROVE ReportInv'
  <2> DEFINE due == crossed(t, tick.now)
             cand == warned_candidate(mem, t, due)
  <2>1. cand \in PersistentState
    BY CrossedType, WarnedCandidateType DEF TypeOK
  <2> HIDE DEF due
  <2>2. /\ \A u \in TimerId : /\ cand.actions[u].state = mem.actions[u].state
                              /\ cand.actions[u].kind = mem.actions[u].kind
        /\ cand.desired = mem.desired /\ cand.retry = mem.retry
    BY DEF warned_candidate, TypeOK, PersistentState, ScheduledAction
  <2>3. /\ commit_authoritative_state(cand, res) /\ mark_persistence(res) /\ pc = "tick" /\ stop' = stop
        /\ observed' = observed /\ platform' = platform /\ nextRetry' = nextRetry
        /\ shutdown' = shutdown /\ pc' = pc
    BY <1>3 DEF tick_warning, stopVars, due
  <2> HIDE DEF cand
  <2>4. Live(cand) = Live(mem)
    BY <2>2, SameLive
  <2>5. QED
    BY <2>1, <2>2, <2>3, <2>4, QuietReports, CommitReport
<1>4. ASSUME NEW t \in TimerId, NEW op \in {"deadline", "shutdown"}, NEW res \in Result,
             mem.actions[t].kind = (IF op = "shutdown" THEN "ShutdownComputer" ELSE "BlockInternet"),
             execute_scheduled_deadline(t, op, res)
      PROVE  ReportInv'
  <2> DEFINE cand == executing_candidate(mem, t)
  <2>1. mem.actions[t].state = "Pending"
    BY <1>4 DEF execute_scheduled_deadline, runtime_deadline_transition, NoTransition
  <2>2. /\ cand \in PersistentState
        /\ cand.actions[t].state = "Executing" /\ cand.actions[t].kind = mem.actions[t].kind
    BY <2>1, ExecutingCandidateType, ExecutingCandidateFacts DEF TypeOK
  <2>3. /\ \A u \in TimerId \ {t} : cand.actions[u] = mem.actions[u]
        /\ cand.retry = mem.retry
        /\ mem.actions[t].kind # "BlockInternet" => cand.desired = mem.desired
    BY DEF executing_candidate, TypeOK, PersistentState
  <2>4. /\ commit_authoritative_state(cand, res) /\ mark_persistence(res) /\ pc = "tick" /\ stop' = stop
        /\ observed' = observed /\ platform' = platform /\ nextRetry' = nextRetry /\ shutdown' = shutdown
    BY <1>4 DEF execute_scheduled_deadline, stopVars
  <2>5. \/ pc' = pc /\ res = "Err"
        \/ pc' = "effect" /\ job'.op = op
    <3>1. NewJob(op, t, {}, mem.desired).op = op
      BY DEF NewJob
    <3>2. QED
      BY <1>4, <3>1 DEF execute_scheduled_deadline
  <2> HIDE DEF cand
  <2>6. Live(cand) = Live(mem)
    BY <2>1, <2>2, <2>3, SameLive
  <2>7. Reports(shutdown', mem')
    BY <2>2, <2>4, <2>6, QuietReports
  <2>8. cand.desired = mem.desired \/ op = "deadline"
    BY <1>4, <2>3
  <2>9. QED
    BY <2>2, <2>3, <2>4, <2>5, <2>7, <2>8, CommitReport
<1>5. QED
  BY <1>1, <1>2, <1>3, <1>4
     DEF Clock, execute_scheduled_internet_deadline, execute_scheduled_shutdown_deadline
-----------------------------------------------------------------------------
(* Platform calls and the save that follows.                                *)

\* The actions a firewall call carries out are blocks.
BlocksOnly(ids) == \A t \in ids \cap TimerId : mem.actions[t].kind = "BlockInternet"

\* A firewall call for the stored policy settles what the snapshot says of the
\* gate, and carries out blocks only.
LEMMA ReconcileReport ==
    ASSUME IInv, ReportInv, NEW op \in Op, NEW done, NEW failing, NEW always,
           NEW res \in Result, NEW obs,
           BlocksOnly(done), BlocksOnly(failing),
           reconcile(op, mem.desired, done, failing, always, res, obs)
    PROVE  ReportInv'
<1> DEFINE cand == IF res = "Ok" THEN reconciled_candidate(mem, done)
                                 ELSE failed_candidate(mem, failing, faults.gate + 1)
           j == [job EXCEPT !.cand = cand, !.prev = shutdown,
                            !.arm = IF res = "Ok" THEN 0 ELSE cand.retry]
<1>1. /\ mem' = mem /\ shutdown' = shutdown /\ pc = "effect" /\ stop' = stop
      /\ observed' = obs /\ nextRetry' = nextRetry
      /\ res = "Ok" => platform' = mem.desired /\ obs = mem.desired
  BY DEF reconcile, durableVars, stopVars, gate_call
<1>2. \/ pc' = "save" /\ job' = j
      \/ pc' \in {"idle", "tick"} /\ res = "Ok" /\ cand = mem
  BY DEF reconcile, ReturnFrom, Result
<1>3. /\ res = "Ok" => health'.gate = "ok"
      /\ res # "Ok" => health'.gate = "error"
  BY DEF reconcile, TypeOK, mark_gate
<1>4. mem.retry \in Nat /\ mem \in PersistentState
  BY DEF TypeOK, PersistentState
<1>5. /\ cand.desired = mem.desired
      /\ res = "Ok" => cand.retry = 0
      /\ res # "Ok" => cand.retry = mem.retry + 1
  BY <1>4 DEF reconciled_candidate, failed_candidate, PersistentState
<1>6. Live(cand) = Live(mem)
  <2>1. ASSUME NEW t \in TimerId, t \notin done \cup failing
        PROVE  cand.actions[t] = mem.actions[t]
    BY <1>4, <2>1 DEF reconciled_candidate, failed_candidate, PersistentState
  <2>2. ASSUME NEW t \in TimerId, t \in done \cup failing
        PROVE  mem.actions[t].kind = "BlockInternet" /\ cand.actions[t].kind = "BlockInternet"
    <3>1. mem.actions[t].kind = "BlockInternet" /\ mem.actions[t] \in ScheduledAction
      BY <1>4, <2>2 DEF PersistentState, BlocksOnly
    <3>2. cand.actions[t] \in {NoAction, mem.actions[t], [mem.actions[t] EXCEPT !.state = "Failed"]}
      BY <1>4 DEF reconciled_candidate, failed_candidate, PersistentState
    <3>3. QED
      BY <3>1, <3>2, NoActionKind DEF ScheduledAction
  <2>3. QED
    BY <2>1, <2>2, SameLive
<1>7. j.cand = cand /\ j.arm = (IF res = "Ok" THEN 0 ELSE cand.retry)
  BY DEF TypeOK, Job
<1> HIDE DEF cand, j
<1>8. Enforces(health'.gate, platform', observed', cand)
  BY <1>1, <1>3, <1>4, <1>5 DEF Enforces, Result
<1>9. res = "Ok" => Armed(health', nextRetry')
  BY <1>3 DEF Armed
<1>10. Reports(shutdown', cand)
  BY <1>1, <1>6 DEF ReportInv, Reports
<1>11. CASE pc' = "save" /\ job' = j
  <2>1. Armed(health', nextRetry') \/ job'.arm # 0
    BY <1>4, <1>5, <1>7, <1>9, <1>11
  <2>2. QED
    BY <1>7, <1>8, <1>10, <1>11, <2>1 DEF ReportInv
<1>12. CASE pc' \in {"idle", "tick"} /\ res = "Ok" /\ cand = mem
  BY <1>1, <1>8, <1>9, <1>10, <1>12 DEF ReportInv
<1>13. QED
  BY <1>2, <1>11, <1>12

\* The power controller's call leaves the gate alone and announces what its
\* candidate holds, or InProgress.
LEMMA ShutdownReport ==
    ASSUME IInv, ReportInv, NEW res \in Result, shutdown_effect(res)
    PROVE  ReportInv'
<1>1. /\ pc = "effect" /\ pc' = "save" /\ mem' = mem /\ job'.cand.desired = mem.desired
      /\ job'.cand.retry = mem.retry
  BY ShutdownCopies
<1>2. /\ job.op = "shutdown" /\ stop' = stop /\ observed' = observed /\ platform' = platform
      /\ nextRetry' = nextRetry /\ health'.gate = health.gate /\ health'.policy = health.policy
  BY DEF shutdown_effect, TypeOK, stopVars
<1>3. Reports(shutdown', job'.cand)
  <2> DEFINE t == job.timer
             gone == reconciled_candidate(mem, {t}).actions
             cand == IF res = "Ok"
                     THEN [mem EXCEPT !.actions = gone]
                     ELSE [mem EXCEPT !.actions[t].state = execution_failure_transition(@),
                                      !.outbox = @ \cup {Entry("power", t, 0)}]
             next == IF res = "Ok" THEN "InProgress"
                                   ELSE derive_shutdown_state(shutdown, cand.actions)
             j == [job EXCEPT !.cand = cand, !.prev = IF res = "Ok" THEN next ELSE shutdown]
  <2>1. shutdown' = next /\ job' = j
    BY DEF shutdown_effect
  <2>2. j.cand = cand
    BY DEF TypeOK, Job
  <2> HIDE DEF cand, j
  <2>3. CASE res = "Ok"
    BY <2>1, <2>2, <2>3 DEF Reports
  <2>4. CASE res # "Ok"
    BY <2>1, <2>2, <2>4, DerivedReports DEF TypeOK
  <2>5. QED
    BY <2>3, <2>4
<1>4. stop = "no" => Enforces(health.gate, platform, observed, mem) /\ Armed(health, nextRetry)
  BY <1>1, <1>2 DEF ReportInv
<1>5. QED
  BY <1>1, <1>2, <1>3, <1>4 DEF ReportInv, Enforces, Armed

\* A retry is never scheduled at instant 0, which stands for None.
LEMMA RetryInstant ==
    ASSUME NEW a \in Nat, NEW d \in Nat \ {0}, NEW m \in Nat \ {0}
    PROVE  a + d * m > 0
OBVIOUS

\* The save moves memory to the candidate the snapshot speaks of, and arms the
\* retry unless its delay is refused.
LEMMA SaveReport ==
    ASSUME IInv, ReportInv, NEW res \in Result, NEW delay \in RetryDelays,
           save_after_effect(res, delay)
    PROVE  ReportInv'
<1>1. CASE job.op = "startup" /\ res = "Err"
  <2>1. pc' = "off"
    BY <1>1 DEF save_after_effect, Down
  <2>2. QED
    BY <2>1 DEF ReportInv
<1>2. CASE ~(job.op = "startup" /\ res = "Err")
  <2>1. /\ pc = "save" /\ pc' \in {"idle", "tick"} /\ mem' = job.cand /\ shutdown' = shutdown
        /\ stop' = stop /\ observed' = observed /\ platform' = platform
    BY <1>2 DEF save_after_effect, commit_post_side_effect_candidate, ReturnFrom, stopVars
  <2>2. /\ health'.gate = health.gate
        /\ job.arm = 0 => health'.policy = health.policy /\ nextRetry' = nextRetry
        /\ job.arm # 0 =>
               /\ delay = 0 => health'.policy = "error"
               /\ delay # 0 => nextRetry' = mono + delay * MsPerSec
    BY <1>2 DEF save_after_effect, schedule_next_internet_retry, TypeOK
  <2>3. delay # 0 => mono + delay * MsPerSec > 0
    <3>1. delay \in Nat /\ MsPerSec \in Nat \ {0} /\ mono \in Nat
      BY CoreAssumption, RuntimeAssumption DEF CoreAssumption, RuntimeAssumption, TypeOK
    <3>2. QED
      BY <3>1, RetryInstant
  <2>4. Armed(health, nextRetry) \/ job.arm # 0 => Armed(health', nextRetry')
    BY <2>2, <2>3 DEF Armed
  <2>5. QED
    BY <2>1, <2>2, <2>4 DEF ReportInv
<1>3. QED
  BY <1>1, <1>2

\* Platform calls and the save that follows them.
LEMMA EffectReport ==
    ASSUME IInv, ReportInv, Effect
    PROVE  ReportInv'
<1>1. CASE effect_stopped
  BY <1>1 DEF effect_stopped, ReturnFrom, durableVars, stopVars, ReportInv
<1>2. ASSUME NEW res \in Result, NEW obs \in InternetState,
             \/ startup_reconciliation(res, obs)
             \/ immediate_block_effect(res, obs)
             \/ restore_internet_effect(res, obs)
             \/ internet_deadline_effect(res, obs)
             \/ process_internet_reconciliation_retry(res, obs)
      PROVE  ReportInv'
  <2>0. BlocksOnly({})
    BY DEF BlocksOnly
  <2>1. CASE startup_reconciliation(res, obs)
    <3>1. pc = "effect" /\ job.op = "startup"
      BY <2>1 DEF startup_reconciliation, reconcile
    <3>2. BlocksOnly(job.ids)
      BY <3>1 DEF ReportInv, BlocksOnly
    <3>3. QED
      BY <2>1, <3>2, ReconcileReport DEF startup_reconciliation, Op
  <2>2. CASE immediate_block_effect(res, obs)
    <3>1. mem.desired = "Blocked"
      BY <2>2 DEF immediate_block_effect, reconcile, JobOK
    <3>2. reconcile("block", mem.desired, {}, {}, FALSE, res, obs)
      BY <2>2, <3>1 DEF immediate_block_effect
    <3>3. QED
      BY <2>0, <3>2, ReconcileReport DEF Op
  <2>3. CASE restore_internet_effect(res, obs)
    <3>1. mem.desired = "Unrestricted"
      BY <2>3 DEF restore_internet_effect, reconcile, JobOK
    <3>2. reconcile("restore", mem.desired, {}, {}, FALSE, res, obs)
      BY <2>3, <3>1 DEF restore_internet_effect
    <3>3. QED
      BY <2>0, <3>2, ReconcileReport DEF Op
  <2>4. CASE internet_deadline_effect(res, obs)
    <3>1. mem.desired = "Blocked" /\ mem.actions[job.timer].kind = "BlockInternet"
      BY <2>4 DEF internet_deadline_effect, reconcile, JobOK
    <3>2. BlocksOnly({job.timer})
      BY <3>1 DEF BlocksOnly
    <3>3. reconcile("deadline", mem.desired, {job.timer}, {job.timer}, TRUE, res, obs)
      BY <2>4, <3>1 DEF internet_deadline_effect
    <3>4. "deadline" \in Op
      BY DEF Op
    <3>5. QED
      BY <3>2, <3>3, <3>4, ReconcileReport
  <2>5. CASE process_internet_reconciliation_retry(res, obs)
    <3>1. BlocksOnly(executing_blocks)
      BY DEF executing_blocks, BlocksOnly
    <3>2. reconcile("retry", mem.desired, executing_blocks, {}, TRUE, res, obs)
      BY <2>5 DEF process_internet_reconciliation_retry
    <3>3. "retry" \in Op
      BY DEF Op
    <3>4. QED
      BY <2>0, <3>1, <3>2, <3>3, ReconcileReport
  <2>6. QED
    BY <1>2, <2>1, <2>2, <2>3, <2>4, <2>5
<1>3. QED
  BY <1>1, <1>2, ShutdownReport, SaveReport DEF Effect
-----------------------------------------------------------------------------
(* Starting and ending.                                                     *)

\* Startup derives the shutdown state from what it recovered; the blocks it
\* carries out are blocks.
LEMMA StartupReport ==
    ASSUME IInv, ReportInv, NEW res \in Result, perform_startup_recovery(res)
    PROVE  ReportInv'
<1>1. CASE res = "Err"
  BY <1>1 DEF perform_startup_recovery, ReportInv
<1>2. CASE res = "Ok"
  <2> DEFINE cand == recovery_candidate(disk)
  <2>1. /\ mem' = cand /\ pc' = "effect"
        /\ job' = NewJob("startup", None, recovered_overdue_block_ids(disk), cand.desired)
        /\ shutdown' = derive_shutdown_state("Idle", cand.actions)
    BY <1>2 DEF perform_startup_recovery
  <2>2. job'.op = "startup" /\ job'.ids = recovered_overdue_block_ids(disk)
    BY <2>1 DEF NewJob
  <2>3. \A t \in job'.ids : cand.actions[t].kind = "BlockInternet"
    <3>1. \A t \in TimerId : cand.actions[t] = recovered_action(disk, t)
      BY DEF recovery_candidate
    <3>2. QED
      BY <2>2, <3>1, RecoveredStage DEF recovered_overdue_block_ids, TypeOK
  <2> HIDE DEF cand
  <2>4. Reports(shutdown', mem')
    BY <2>1, DerivedReports DEF ShutdownState
  <2>5. QED
    BY <2>1, <2>2, <2>3, <2>4 DEF ReportInv
<1>3. QED
  BY <1>1, <1>2 DEF Result

\* Every step preserves the invariant.
LEMMA NextReport == IInv /\ TimerInv /\ ReportInv /\ [Next]_vars => ReportInv'
<1> SUFFICES ASSUME IInv, TimerInv, ReportInv, [Next]_vars PROVE ReportInv'
  OBVIOUS
<1>1. CASE (\E res \in Result : handle_stop(res)) \/ Crash
  <2>1. pc' = "off"
    BY <1>1 DEF handle_stop, Crash, Down
  <2>2. QED
    BY <2>1 DEF ReportInv
<1>2. CASE request_stop
  BY <1>2 DEF request_stop, durableVars, ReportInv
<1>3. CASE Advance \/ ClockJump \/ UNCHANGED vars
  BY <1>3 DEF Advance, ClockJump, vars, durableVars, stopVars, ReportInv
<1>4. QED
  BY <1>1, <1>2, <1>3, StartupReport, CommandReport, ClockReport, EffectReport DEF Next, Worker

\* The invariant about reports holds in every reachable state.
THEOREM ReportInvariance == Spec => []ReportInv
<1>1. Init => ReportInv
  BY DEF Init, ReportInv
<1> HIDE DEF IInv
<1>2. QED
  BY <1>1, NextReport, Invariance, TimerInvariance, PTL DEF Spec

\* What a snapshot says is the case while the worker waits: a healthy gate
\* enforces the stored policy, an unhealthy one is recorded and its retry armed
\* unless the policy refused the delay, and a shutdown is reported exactly
\* while one can still happen.
THEOREM TruthfulReports == Spec => []ReportTruthful
<1>1. IInv /\ ReportInv => ReportTruthful
  <2> SUFFICES ASSUME IInv, ReportInv, Settled PROVE ReportTruthful
    BY DEF ReportTruthful, EnforcementTruthful, RetryArmed, ShutdownStateTruthful
  <2>1. /\ Reports(shutdown, mem)
        /\ Enforces(health.gate, platform, observed, mem) /\ Armed(health, nextRetry)
    BY DEF Settled, ReportInv
  <2>2. EnforcementTruthful
    BY <2>1 DEF EnforcementTruthful, Enforces, DurabilityGap
  <2>3. RetryArmed
    BY <2>1 DEF RetryArmed, Enforces, Armed
  <2>4. ShutdownStateTruthful
    BY <2>1 DEF ShutdownStateTruthful, Reports, Live
  <2>5. QED
    BY <2>2, <2>3, <2>4 DEF ReportTruthful
<1> HIDE DEF IInv
<1>2. QED
  BY <1>1, Invariance, ReportInvariance, PTL
-----------------------------------------------------------------------------
(* The subscriber's picture.                                                *)

PolicyView(v, o, d) == v # None => v.observed = o /\ v.desired = d

ShutdownView(v, s, power) ==
    v # None => /\ v.shutdown = s \/ power = "error"
                /\ s = "InProgress" => v.shutdown = "InProgress"

\* The policy a handler started from is the one last announced: the handler
\* announces the new one after its firewall call.  A failure of the power
\* controller is announced after its save, if that succeeds.
ViewInv ==
    /\ pc = "off" => view = None
    /\ stop = "no" => PolicyView(view, observed, IF pc = "effect" THEN job.was ELSE mem.desired)
    /\ ShutdownView(view, shutdown, health.power)
    /\ pc = "save" => job.prev = shutdown \/ health.power = "error"
    /\ pc = "effect" /\ job.op = "shutdown" => job.was = mem.desired

\* ShutdownStateChanged brings the shutdown state up to date, nothing else.
LEMMA EmitShutdown ==
    ASSUME NEW v \in View \cup {None}, NEW p, NEW c, NEW power
    PROVE  /\ ShutdownView(v, p, power) =>
                  ShutdownView(maybe_emit_shutdown_state_changed(v, p, c), c, power)
           /\ \A o, d : PolicyView(v, o, d) =>
                  PolicyView(maybe_emit_shutdown_state_changed(v, p, c), o, d)
BY NoneAssumption DEF maybe_emit_shutdown_state_changed, ShutdownView, PolicyView, View

\* InternetPolicyChanged brings the policy up to date, nothing else.
LEMMA EmitPolicy ==
    ASSUME NEW v \in View \cup {None}, NEW was, NEW o, NEW d, NEW obs, PolicyView(v, o, was)
    PROVE  /\ PolicyView(maybe_emit_internet_policy_changed(v, <<was, o>>, <<d, obs>>), obs, d)
           /\ \A s, power : ShutdownView(v, s, power) =>
                  ShutdownView(maybe_emit_internet_policy_changed(v, <<was, o>>, <<d, obs>>), s, power)
BY NoneAssumption DEF maybe_emit_internet_policy_changed, ShutdownView, PolicyView, View

\* One authoritative commit: it announces a new shutdown state, and starts a
\* firewall call with the policy it found.
LEMMA CommitView ==
    ASSUME IInv, ViewInv, NEW cand \in PersistentState, NEW res \in Result,
           commit_authoritative_state(cand, res), mark_persistence(res),
           pc \in {"idle", "tick"}, stop' = stop, observed' = observed,
           view' = maybe_emit_shutdown_state_changed(view, shutdown, shutdown'),
           \/ pc' \in {"idle", "tick"} /\ cand.desired = mem.desired
           \/ pc' = pc /\ res = "Err"
           \/ /\ pc' = "effect" /\ job'.was = mem.desired
              /\ job'.op = "shutdown" => cand.desired = mem.desired
    PROVE  ViewInv'
<1>1. /\ res = "Ok" => mem' = cand
      /\ res # "Ok" => mem' = mem
  BY CommitGap
<1>2. health'.power = health.power
  BY DEF mark_persistence, TypeOK
<1>3. ShutdownView(view', shutdown', health'.power)
  BY <1>2, EmitShutdown DEF ViewInv, TypeOK
<1>4. stop' = "no" => PolicyView(view', observed', mem.desired)
  BY EmitShutdown DEF ViewInv, TypeOK
<1>5. \/ pc' \notin {"off", "effect", "save"} /\ mem'.desired = mem.desired
      \/ pc' = "effect" /\ job'.was = mem.desired /\ (job'.op = "shutdown" => mem'.desired = mem.desired)
  BY <1>1
<1>6. QED
  BY <1>3, <1>4, <1>5 DEF ViewInv

\* Nothing is announced when the shutdown state stays as it is.
LEMMA NoEmit ==
    ASSUME view' = view, shutdown' = shutdown
    PROVE  view' = maybe_emit_shutdown_state_changed(view, shutdown, shutdown')
BY DEF maybe_emit_shutdown_state_changed

\* Commands.
LEMMA CommandView ==
    ASSUME IInv, ViewInv, Command
    PROVE  ViewInv'
<1>m. mem \in PersistentState
  BY DEF TypeOK
<1>1. ASSUME NEW t \in TimerId, NEW kind \in ActionKind, NEW d \in Durations, NEW res \in Result,
             handle_schedule_action(t, kind, d, res)
      PROVE  ViewInv'
  <2> DEFINE cand == scheduled_candidate(mem, t, kind, d)
  <2>1. cand \in PersistentState
    BY ScheduledCandidateType DEF TypeOK
  <2>2. cand.desired = mem.desired
    BY <1>m DEF scheduled_candidate, PersistentState
  <2>3. /\ commit_authoritative_state(cand, res) /\ mark_persistence(res) /\ stop' = stop
        /\ observed' = observed /\ pc' = pc /\ pc = "idle"
    BY <1>1 DEF handle_schedule_action, TakeCommand
  <2>4. view' = maybe_emit_shutdown_state_changed(view, shutdown, shutdown')
    BY <1>1, NoEmit DEF handle_schedule_action
  <2> HIDE DEF cand
  <2>5. QED
    BY <2>1, <2>2, <2>3, <2>4, CommitView
<1>2. ASSUME NEW t \in TimerId, NEW res \in Result, handle_cancel_exact_timer(t, res)
      PROVE  ViewInv'
  <2> DEFINE cand == cancelled_candidate(mem, t)
  <2>1. cand \in PersistentState
    BY <1>m, CancelledCandidateType
  <2>2. cand.desired = mem.desired
    BY <1>m DEF cancelled_candidate, PersistentState
  <2>3. /\ commit_authoritative_state(cand, res) /\ mark_persistence(res) /\ stop' = stop
        /\ observed' = observed /\ pc' = pc /\ pc = "idle"
    BY <1>2 DEF handle_cancel_exact_timer, TakeCommand
  <2>4. view' = maybe_emit_shutdown_state_changed(view, shutdown, shutdown')
    BY <1>2, NoEmit DEF handle_cancel_exact_timer
  <2> HIDE DEF cand
  <2>5. QED
    BY <2>1, <2>2, <2>3, <2>4, CommitView
<1>3. ASSUME NEW res \in Result, NEW op \in {"block", "restore"}, NEW target \in DesiredInternetState,
             commit_desired(op, target, res)
      PROVE  ViewInv'
  <2> DEFINE cand == [mem EXCEPT !.desired = target]
  <2>1. cand \in PersistentState
    BY <1>m DEF PersistentState
  <2>2. /\ commit_authoritative_state(cand, res) /\ mark_persistence(res) /\ pc = "idle" /\ stop' = stop
        /\ observed' = observed /\ view' = maybe_emit_shutdown_state_changed(view, shutdown, shutdown')
    BY <1>3, NoEmit DEF commit_desired, TakeCommand
  <2>3. \/ pc' = pc /\ res = "Err"
        \/ pc' = "effect" /\ job'.was = mem.desired /\ job'.op = op
    <3>1. NewJob(op, None, {}, mem.desired).was = mem.desired /\ NewJob(op, None, {}, mem.desired).op = op
      BY DEF NewJob
    <3>2. QED
      BY <1>3, <3>1 DEF commit_desired
  <2> HIDE DEF cand
  <2>4. QED
    BY <2>1, <2>2, <2>3, CommitView
<1>4. ASSUME NEW res \in Result, NEW e \in mem.outbox, handle_ack_telegram(e, res)
      PROVE  ViewInv'
  <2> DEFINE cand == [mem EXCEPT !.outbox = @ \ {e}]
  <2>1. cand \in PersistentState /\ cand.desired = mem.desired
    BY <1>m DEF PersistentState
  <2>2. /\ commit_authoritative_state(cand, res) /\ mark_persistence(res) /\ pc = "idle" /\ stop' = stop
        /\ observed' = observed /\ view' = maybe_emit_shutdown_state_changed(view, shutdown, shutdown')
        /\ pc' = pc
    BY <1>4, NoEmit DEF handle_ack_telegram, TakeCommand
  <2> HIDE DEF cand
  <2>3. QED
    BY <2>1, <2>2, CommitView
<1>5. ASSUME NEW res \in Result, handle_send_child_message(res)
      PROVE  ViewInv'
  <2> DEFINE cand == [mem EXCEPT !.outbox = @ \cup {Entry("chat", None, commands')}]
  <2>1. /\ commit_authoritative_state(cand, res) /\ mark_persistence(res) /\ pc = "idle" /\ stop' = stop
        /\ observed' = observed /\ view' = maybe_emit_shutdown_state_changed(view, shutdown, shutdown')
        /\ pc' = pc /\ TakeCommand
    BY <1>5, NoEmit DEF handle_send_child_message, TakeCommand
  <2>2. Entry("chat", None, commands') \in OutboxEntry
    BY <2>1, TakeCommandType DEF Entry, OutboxEntry
  <2>3. cand \in PersistentState /\ cand.desired = mem.desired
    BY <1>m, <2>2 DEF PersistentState
  <2> HIDE DEF cand
  <2>4. QED
    BY <2>1, <2>3, CommitView
<1>6. CASE handle_subscribe_events
  <2>1. /\ view' = [desired |-> mem.desired, observed |-> observed, shutdown |-> shutdown]
        /\ mem' = mem /\ observed' = observed /\ shutdown' = shutdown /\ pc' = pc /\ pc = "idle"
    BY <1>6 DEF handle_subscribe_events, build_status_snapshot, TakeCommand, durableVars
  <2>2. QED
    BY <2>1 DEF ViewInv, PolicyView, ShutdownView
<1>7. QED
  BY <1>1, <1>2, <1>3, <1>4, <1>5, <1>6
     DEF Command, handle_immediate_block, handle_restore_internet, DesiredInternetState

\* Clock steps.
LEMMA ClockView ==
    ASSUME IInv, ViewInv, Clock
    PROVE  ViewInv'
<1>1. CASE process_clock_and_events \/ tick_stopped \/ \E t \in TimerId : tick_not_pending(t)
  BY <1>1 DEF process_clock_and_events, tick_stopped, tick_not_pending, durableVars, stopVars, ViewInv
<1>2. CASE tick_retry
  <2>1. NewJob("retry", None, {}, mem.desired).op = "retry"
        /\ NewJob("retry", None, {}, mem.desired).was = mem.desired
    BY DEF NewJob
  <2>2. /\ pc = "tick" /\ mem' = mem /\ shutdown' = shutdown /\ health' = health /\ stop' = stop
        /\ observed' = observed /\ view' = view
        /\ \/ pc' = "effect" /\ job'.op = "retry" /\ job'.was = mem.desired
           \/ pc' = "idle"
    BY <1>2, <2>1 DEF tick_retry, durableVars, stopVars
  <2>3. QED
    BY <2>2 DEF ViewInv
<1>3. ASSUME NEW t \in TimerId, NEW res \in Result, tick_warning(t, res) PROVE ViewInv'
  <2> DEFINE due == crossed(t, tick.now)
             cand == warned_candidate(mem, t, due)
  <2>1. cand \in PersistentState
    BY CrossedType, WarnedCandidateType DEF TypeOK
  <2> HIDE DEF due
  <2>2. cand.desired = mem.desired
    BY DEF warned_candidate, TypeOK, PersistentState
  <2>3. /\ commit_authoritative_state(cand, res) /\ mark_persistence(res) /\ pc = "tick" /\ stop' = stop
        /\ observed' = observed /\ view' = maybe_emit_shutdown_state_changed(view, shutdown, shutdown')
        /\ pc' = pc
    BY <1>3, NoEmit DEF tick_warning, stopVars, due
  <2> HIDE DEF cand
  <2>4. QED
    BY <2>1, <2>2, <2>3, CommitView
<1>4. ASSUME NEW t \in TimerId, NEW op \in {"deadline", "shutdown"}, NEW res \in Result,
             mem.actions[t].kind = (IF op = "shutdown" THEN "ShutdownComputer" ELSE "BlockInternet"),
             execute_scheduled_deadline(t, op, res)
      PROVE  ViewInv'
  <2> DEFINE cand == executing_candidate(mem, t)
  <2>1. mem.actions[t].state = "Pending"
    BY <1>4 DEF execute_scheduled_deadline, runtime_deadline_transition, NoTransition
  <2>2. cand \in PersistentState
    BY <2>1, ExecutingCandidateType DEF TypeOK
  <2>3. mem.actions[t].kind # "BlockInternet" => cand.desired = mem.desired
    BY DEF executing_candidate, TypeOK, PersistentState
  <2>4. /\ commit_authoritative_state(cand, res) /\ mark_persistence(res) /\ pc = "tick" /\ stop' = stop
        /\ observed' = observed /\ view' = maybe_emit_shutdown_state_changed(view, shutdown, shutdown')
    BY <1>4, NoEmit DEF execute_scheduled_deadline, stopVars
  <2>5. \/ pc' = pc /\ res = "Err"
        \/ pc' = "effect" /\ job'.op = op /\ job'.was = mem.desired
    <3>1. NewJob(op, t, {}, mem.desired).op = op /\ NewJob(op, t, {}, mem.desired).was = mem.desired
      BY DEF NewJob
    <3>2. QED
      BY <1>4, <3>1 DEF execute_scheduled_deadline
  <2> HIDE DEF cand
  <2>6. op = "shutdown" => cand.desired = mem.desired
    BY <1>4, <2>3
  <2>7. QED
    BY <2>2, <2>4, <2>5, <2>6, CommitView
<1>5. QED
  BY <1>1, <1>2, <1>3, <1>4
     DEF Clock, execute_scheduled_internet_deadline, execute_scheduled_shutdown_deadline

\* Platform calls: the firewall's announces the policy at once, the power
\* controller's a success at once and a failure when it is saved.
LEMMA EffectView ==
    ASSUME IInv, LagInv, ViewInv, Effect
    PROVE  ViewInv'
<1>1. CASE effect_stopped
  BY <1>1 DEF effect_stopped, ReturnFrom, durableVars, stopVars, ViewInv
<1>2. ASSUME NEW op, NEW target, NEW done, NEW failing, NEW always,
             NEW res \in Result, NEW obs,
             reconcile(op, target, done, failing, always, res, obs)
      PROVE  ViewInv'
  <2> DEFINE cand == IF res = "Ok" THEN reconciled_candidate(mem, done)
                                   ELSE failed_candidate(mem, failing, faults.gate + 1)
             j == [job EXCEPT !.cand = cand, !.prev = shutdown,
                              !.arm = IF res = "Ok" THEN 0 ELSE cand.retry]
  <2>1. /\ mem' = mem /\ shutdown' = shutdown /\ pc = "effect" /\ stop' = stop /\ stop = "no"
        /\ observed' = obs
        /\ view' = maybe_emit_internet_policy_changed(view, <<job.was, observed>>, <<mem.desired, obs>>)
    BY <1>2 DEF reconcile, durableVars, stopVars
  <2>2. \/ pc' = "save" /\ job' = j
        \/ pc' \in {"idle", "tick"}
    BY <1>2 DEF reconcile, ReturnFrom
  <2>3. j.prev = shutdown
    BY DEF TypeOK, Job
  <2>4. health'.power = health.power
    BY <1>2 DEF reconcile, TypeOK
  <2> HIDE DEF cand, j
  <2>5. PolicyView(view, observed, job.was) /\ ShutdownView(view, shutdown, health.power)
    BY <2>1 DEF ViewInv
  <2>6. PolicyView(view', observed', mem'.desired) /\ ShutdownView(view', shutdown', health'.power)
    BY <2>1, <2>4, <2>5, EmitPolicy DEF TypeOK
  <2>7. QED
    BY <2>1, <2>2, <2>3, <2>6 DEF ViewInv
<1>3. ASSUME NEW res \in Result, shutdown_effect(res) PROVE ViewInv'
  <2> DEFINE t == job.timer
             gone == reconciled_candidate(mem, {t}).actions
             cand == IF res = "Ok"
                     THEN [mem EXCEPT !.actions = gone]
                     ELSE [mem EXCEPT !.actions[t].state = execution_failure_transition(@),
                                      !.outbox = @ \cup {Entry("power", t, 0)}]
             next == IF res = "Ok" THEN "InProgress"
                                   ELSE derive_shutdown_state(shutdown, cand.actions)
             j == [job EXCEPT !.cand = cand, !.prev = IF res = "Ok" THEN next ELSE shutdown]
  <2>1. /\ mem' = mem /\ pc = "effect" /\ pc' = "save" /\ job.op = "shutdown" /\ stop' = stop
        /\ observed' = observed /\ shutdown' = next /\ job' = j
        /\ view' = IF res = "Ok" THEN maybe_emit_shutdown_state_changed(view, shutdown, next) ELSE view
    BY <1>3 DEF shutdown_effect, durableVars, stopVars
  <2>2. j.prev = IF res = "Ok" THEN next ELSE shutdown
    BY DEF TypeOK, Job
  <2>3. /\ res = "Ok" => health'.power = "ok"
        /\ res # "Ok" => health'.power = "error"
    BY <1>3 DEF shutdown_effect, TypeOK
  <2>4. /\ res = "Ok" => next = "InProgress"
        /\ res # "Ok" /\ next = "InProgress" => shutdown = "InProgress"
    BY DEF derive_shutdown_state
  <2> HIDE DEF cand, next, j
  <2>5. ShutdownView(view', shutdown', health'.power)
    <3>1. ShutdownView(view, shutdown, health.power)
      BY DEF ViewInv
    <3>2. CASE res # "Ok"
      BY <2>1, <2>3, <2>4, <3>1, <3>2 DEF ShutdownView
    <3>3. CASE res = "Ok"
      BY <2>1, <2>3, <2>4, <3>1, <3>3, NoneAssumption
         DEF ShutdownView, maybe_emit_shutdown_state_changed, TypeOK, View
    <3>4. QED
      BY <3>2, <3>3
  <2>6. stop = "no" => PolicyView(view', observed', mem'.desired)
    <3>1. stop = "no" => PolicyView(view, observed, mem.desired)
      BY <2>1 DEF ViewInv
    <3>2. QED
      BY <2>1, <3>1, EmitShutdown DEF TypeOK
  <2>7. job'.prev = shutdown' \/ health'.power = "error"
    BY <2>1, <2>2, <2>3
  <2>8. QED
    BY <2>1, <2>5, <2>6, <2>7 DEF ViewInv
<1>4. ASSUME NEW res \in Result, NEW delay, save_after_effect(res, delay) PROVE ViewInv'
  <2>1. CASE job.op = "startup" /\ res = "Err"
    <3>1. Down
      BY <1>4, <2>1 DEF save_after_effect
    <3>2. QED
      BY <3>1 DEF Down, ViewInv, PolicyView, ShutdownView
  <2>2. CASE ~(job.op = "startup" /\ res = "Err")
    <3>1. /\ pc = "save" /\ pc' \in {"idle", "tick"} /\ mem' = job.cand /\ shutdown' = shutdown
          /\ stop' = stop /\ observed' = observed
          /\ view' = IF res = "Ok" THEN maybe_emit_shutdown_state_changed(view, job.prev, shutdown)
                                   ELSE view
      BY <1>4, <2>2 DEF save_after_effect, commit_post_side_effect_candidate, ReturnFrom, stopVars
    <3>2. health'.power = health.power
      BY <1>4, <2>2 DEF save_after_effect, TypeOK
    <3>3. mem'.desired = mem.desired
      BY <3>1 DEF LagInv
    <3>4. ShutdownView(view', shutdown', health'.power)
      <4>1. ShutdownView(view, shutdown, health.power)
        BY DEF ViewInv
      <4>2. QED
        BY <3>1, <3>2, <4>1, NoneAssumption
           DEF ShutdownView, maybe_emit_shutdown_state_changed, TypeOK, View
    <3>5. stop = "no" => PolicyView(view', observed', mem'.desired)
      <4>1. stop = "no" => PolicyView(view, observed, mem.desired)
        BY <3>1 DEF ViewInv
      <4>2. QED
        BY <3>1, <3>3, <4>1, EmitShutdown DEF TypeOK
    <3>6. QED
      BY <3>1, <3>4, <3>5 DEF ViewInv
  <2>3. QED
    BY <2>1, <2>2
<1>5. QED
  BY <1>1, <1>2, <1>3, <1>4
     DEF Effect, startup_reconciliation, immediate_block_effect, restore_internet_effect,
         internet_deadline_effect, process_internet_reconciliation_retry

\* Every step preserves the invariant; a new process has no subscriber.
LEMMA NextView == IInv /\ LagInv /\ ViewInv /\ [Next]_vars => ViewInv'
<1> SUFFICES ASSUME IInv, LagInv, ViewInv, [Next]_vars PROVE ViewInv'
  OBVIOUS
<1>1. ASSUME NEW res \in Result, perform_startup_recovery(res) PROVE ViewInv'
  <2>1. /\ pc = "off" /\ view' = view /\ observed' = observed /\ health' = health
        /\ \/ pc' = pc
           \/ /\ pc' = "effect"
              /\ job' = NewJob("startup", None, recovered_overdue_block_ids(disk),
                               recovery_candidate(disk).desired)
    BY <1>1 DEF perform_startup_recovery
  <2>2. NewJob("startup", None, recovered_overdue_block_ids(disk),
               recovery_candidate(disk).desired).op = "startup"
    BY DEF NewJob
  <2>3. QED
    BY <2>1, <2>2 DEF ViewInv, PolicyView, ShutdownView
<1>2. CASE (\E res \in Result : handle_stop(res)) \/ Crash
  BY <1>2 DEF handle_stop, Crash, Down, ViewInv, PolicyView, ShutdownView
<1>3. CASE request_stop
  BY <1>3 DEF request_stop, durableVars, ViewInv
<1>4. CASE Advance \/ ClockJump \/ UNCHANGED vars
  BY <1>4 DEF Advance, ClockJump, vars, durableVars, stopVars, ViewInv
<1>5. QED
  BY <1>1, <1>2, <1>3, <1>4, CommandView, ClockView, EffectView DEF Next, Worker

\* A subscriber's snapshot, kept up by the events, is what the coordinator
\* holds whenever the worker waits, but for a shutdown state while a failure
\* of the power controller is reported.
THEOREM CurrentViews == Spec => []ViewCurrent
<1>1. Init => ViewInv
  BY DEF Init, ViewInv, PolicyView, ShutdownView
<1>2. ViewInv => ViewCurrent
  BY DEF ViewInv, ViewCurrent, InternetViewCurrent, ShutdownViewCurrent, Settled, PolicyView,
         ShutdownView
<1> HIDE DEF IInv
<1>3. QED
  BY <1>1, <1>2, NextView, Invariance, LagInvariance, PTL DEF Spec

-----------------------------------------------------------------------------
(* Arithmetic of the clocks.                                                *)

\* Euclidean division by a positive number.
LEMMA Quotient ==
    ASSUME NEW a \in Int, NEW b \in Nat \ {0}
    PROVE  a \div b \in Int /\ (a \div b) * b =< a /\ a < (a \div b) * b + b
OBVIOUS

\* Multiplication is monotone.
LEMMA Monotone ==
    ASSUME NEW a \in Int, NEW b \in Int, NEW m \in Nat, a =< b
    PROVE  a * m =< b * m
OBVIOUS

\* A count-down in whole seconds has reached a threshold exactly when the
\* clock has reached the threshold's instant.
LEMMA CountDown ==
    ASSUME NEW start \in Int, NEW dur \in Int, NEW now \in Int, NEW th \in Int, NEW m \in Nat \ {0}
    PROVE  dur - ((now - start) \div m) =< th <=> start + (dur - th) * m =< now
<1> DEFINE q == (now - start) \div m
           k == dur - th
<1>1. q \in Int /\ q * m =< now - start /\ now - start < q * m + m
  BY Quotient
<1>2. k \in Int
  OBVIOUS
<1> HIDE DEF q
<1>3. CASE k =< q
  <2>1. k * m =< q * m
    BY <1>1, <1>2, <1>3, Monotone
  <2>2. dur - q =< th
    BY <1>1, <1>3
  <2>3. k * m \in Int /\ q * m \in Int
    BY <1>1, <1>2
  <2> HIDE DEF k
  <2>4. start + k * m =< now
    BY <1>1, <2>1, <2>3
  <2>5. QED
    BY <2>2, <2>4 DEF q, k
<1>4. CASE ~(k =< q)
  <2>1. (q + 1) * m =< k * m
    BY <1>1, <1>2, <1>4, Monotone
  <2>2. ~(dur - q =< th)
    BY <1>1, <1>4
  <2>3. k * m \in Int /\ q * m \in Int /\ (q + 1) * m = q * m + m
    BY <1>1, <1>2
  <2> HIDE DEF k
  <2>4. ~(start + k * m =< now)
    BY <1>1, <2>1, <2>3
  <2>5. QED
    BY <2>2, <2>4 DEF q, k
<1>5. QED
  BY <1>3, <1>4

\* Rounding up to whole seconds loses nothing of a future deadline.
LEMMA Ceiling ==
    ASSUME NEW delta \in Int, NEW m \in Nat \ {0}, delta > 0
    PROVE  /\ (delta + m - 1) \div m > 0
           /\ delta =< ((delta + m - 1) \div m) * m
<1> DEFINE a == delta + m - 1
           q == a \div m
<1>1. q \in Int /\ q * m =< a /\ a < q * m + m
  BY Quotient
<1>2. delta =< q * m
  <2> HIDE DEF q
  <2>1. q * m \in Int
    BY <1>1
  <2>2. QED
    BY <1>1, <2>1
<1>3. q > 0
  <2> HIDE DEF q
  <2>1. q * m > 0
    BY <1>1, <1>2
  <2>2. q =< 0 => q * m =< 0 * m
    BY <1>1, Monotone
  <2>3. QED
    BY <1>1, <2>1, <2>2
<1>4. QED
  BY <1>2, <1>3

\* A deadline is in the future exactly when seconds remain, and they cover it.
LEMMA RemainingFuture ==
    ASSUME NEW delta \in Int
    PROVE  /\ ~deadline_is_due(remaining_seconds_from_delta_ms(delta)) <=> delta > 0
           /\ delta > 0 => delta =< remaining_seconds_from_delta_ms(delta) * MsPerSec
<1>1. MsPerSec \in Nat \ {0}
  BY CoreAssumption DEF CoreAssumption
<1>2. CASE delta > 0
  BY <1>1, <1>2, Ceiling, RemainingType DEF deadline_is_due, remaining_seconds_from_delta_ms
<1>3. CASE ~(delta > 0)
  <2> DEFINE q == (-delta) \div MsPerSec
  <2>1. q \in Int /\ -delta < q * MsPerSec + MsPerSec
    BY <1>1, Quotient
  <2>2. q >= 0
    <3> HIDE DEF q
    <3>1. q < 0 => (q + 1) * MsPerSec =< 0 * MsPerSec
      BY <1>1, <2>1, Monotone
    <3>2. (q + 1) * MsPerSec = q * MsPerSec + MsPerSec /\ q * MsPerSec \in Int
      BY <1>1, <2>1
    <3>3. QED
      BY <1>1, <1>3, <2>1, <3>1, <3>2
  <2>3. remaining_seconds_from_delta_ms(delta) = -q
    BY <1>3 DEF remaining_seconds_from_delta_ms
  <2> HIDE DEF q
  <2>4. QED
    BY <1>3, <2>1, <2>2, <2>3 DEF deadline_is_due
<1>4. QED
  BY <1>2, <1>3
-----------------------------------------------------------------------------
(* What a step does to anchors.                                             *)

\* Most steps keep the anchor of a timer, or drop it when its action is no
\* longer Pending, and leave its deadline and its warnings alone.
Kept(t) ==
    /\ \/ /\ anchors'[t] = anchors[t]
          /\ mem'.actions[t].state = "Pending" <=> mem.actions[t].state = "Pending"
       \/ anchors'[t] = NoAnchor /\ mem'.actions[t].state # "Pending"
    /\ mem'.actions[t].state # "Absent" =>
           /\ mem.actions[t].state # "Absent"
           /\ mem'.actions[t].emitted = mem.actions[t].emitted
           /\ mem'.actions[t].deadline = mem.actions[t].deadline
    /\ mem'.actions[t].state \in {"Executing", "Failed"} =>
           \/ mem.actions[t].state \in {"Executing", "Failed"}
           \/ mem.actions[t].state = "Pending" /\ t \in tick.expired
    /\ t \in tick'.warn => t \in tick.warn /\ anchors'[t] = anchors[t]
    /\ t \in tick'.expired => t \in tick.expired
    /\ tick'.now = tick.now \/ (tick'.now = 0 /\ tick'.warn = {} /\ tick'.expired = {})
    /\ pc = "off" <=> pc' = "off"

\* Steps that leave memory's actions and the anchors alone.
LEMMA KeptSame ==
    ASSUME mem'.actions = mem.actions, anchors' = anchors, pc = "off" <=> pc' = "off",
           \/ tick' = tick
           \/ tick' = NoTick
           \/ /\ tick'.now = tick.now
              /\ tick'.warn \subseteq tick.warn /\ tick'.expired \subseteq tick.expired
    PROVE  \A t \in TimerId : Kept(t)
BY DEF Kept, NoTick

\* Commands other than a successful schedule.
LEMMA CommandKept ==
    ASSUME IInv, TimerInv, Command
    PROVE  \/ \A t \in TimerId : Kept(t)
           \/ \E t \in TimerId, kind \in ActionKind, d \in Durations :
                  handle_schedule_action(t, kind, d, "Ok")
<1>p. pc = "idle" /\ tick' = tick
  BY DEF Command, TakeCommand, handle_schedule_action, handle_cancel_exact_timer,
         handle_immediate_block, handle_restore_internet, commit_desired,
         handle_ack_telegram, handle_send_child_message, handle_subscribe_events
<1>1. ASSUME NEW t \in TimerId, NEW kind \in ActionKind, NEW d \in Durations,
             handle_schedule_action(t, kind, d, "Err")
      PROVE  \A u \in TimerId : Kept(u)
  BY <1>1, <1>p, KeptSame DEF handle_schedule_action, commit_authoritative_state
<1>2. ASSUME NEW t \in TimerId, NEW res \in Result, handle_cancel_exact_timer(t, res)
      PROVE  \A u \in TimerId : Kept(u)
  <2>1. CASE res # "Ok"
    BY <1>2, <1>p, <2>1, KeptSame DEF handle_cancel_exact_timer, commit_authoritative_state, Result
  <2>2. CASE res = "Ok"
    <3>1. mem' = cancelled_candidate(mem, t) /\ anchors' = [anchors EXCEPT ![t] = NoAnchor] /\ pc' = pc
      BY <1>2, <2>2 DEF handle_cancel_exact_timer, commit_authoritative_state, disarmed
    <3>2. /\ mem'.actions[t] = NoAction /\ anchors'[t] = NoAnchor
          /\ \A u \in TimerId \ {t} : mem'.actions[u] = mem.actions[u] /\ anchors'[u] = anchors[u]
      BY <3>1 DEF cancelled_candidate, TypeOK, PersistentState
    <3>3. QED
      BY <1>p, <3>1, <3>2, NoActionKind DEF Kept, TimerInv
  <2>3. QED
    BY <2>1, <2>2
<1>3. ASSUME NEW res, NEW cand, cand.actions = mem.actions,
             commit_authoritative_state(cand, res), anchors' = anchors, pc' # "off"
      PROVE  \A u \in TimerId : Kept(u)
  BY <1>3, <1>p, KeptSame DEF commit_authoritative_state
<1>4. ASSUME NEW res \in Result, NEW op, NEW target, commit_desired(op, target, res)
      PROVE  \A u \in TimerId : Kept(u)
  <2> DEFINE cand == [mem EXCEPT !.desired = target]
  <2>1. cand.actions = mem.actions
    BY DEF TypeOK, PersistentState
  <2>2. commit_authoritative_state(cand, res) /\ anchors' = anchors /\ pc' # "off"
    BY <1>4, <1>p DEF commit_desired
  <2> HIDE DEF cand
  <2>3. QED
    BY <2>1, <2>2, <1>3
<1>5. ASSUME NEW res \in Result, NEW e \in mem.outbox, handle_ack_telegram(e, res)
      PROVE  \A u \in TimerId : Kept(u)
  <2> DEFINE cand == [mem EXCEPT !.outbox = @ \ {e}]
  <2>1. cand.actions = mem.actions
    BY DEF TypeOK, PersistentState
  <2>2. commit_authoritative_state(cand, res) /\ anchors' = anchors /\ pc' # "off"
    BY <1>5, <1>p DEF handle_ack_telegram
  <2> HIDE DEF cand
  <2>3. QED
    BY <2>1, <2>2, <1>3
<1>6. ASSUME NEW res \in Result, handle_send_child_message(res)
      PROVE  \A u \in TimerId : Kept(u)
  <2> DEFINE cand == [mem EXCEPT !.outbox = @ \cup {Entry("chat", None, commands')}]
  <2>1. cand.actions = mem.actions
    BY DEF TypeOK, PersistentState
  <2>2. commit_authoritative_state(cand, res) /\ anchors' = anchors /\ pc' # "off"
    BY <1>6, <1>p DEF handle_send_child_message
  <2> HIDE DEF cand
  <2>3. QED
    BY <2>1, <2>2, <1>3
<1>7. CASE handle_subscribe_events
  BY <1>7, <1>p, KeptSame DEF handle_subscribe_events, durableVars
<1>8. QED
  BY <1>1, <1>2, <1>4, <1>5, <1>6, <1>7
     DEF Command, handle_immediate_block, handle_restore_internet, Result

\* Clock steps other than the collection and a recorded warning.
LEMMA ClockKept ==
    ASSUME IInv, Clock
    PROVE  \/ \A t \in TimerId : Kept(t)
           \/ process_clock_and_events
           \/ \E t \in TimerId : tick_warning(t, "Ok")
<1>1. CASE tick_stopped \/ tick_retry
  BY <1>1, KeptSame DEF tick_stopped, tick_retry, durableVars
<1>2. ASSUME NEW t \in TimerId, tick_not_pending(t) PROVE \A u \in TimerId : Kept(u)
  <2>1. tick'.now = tick.now /\ tick'.warn = tick.warn /\ tick'.expired \subseteq tick.expired
    BY <1>2 DEF tick_not_pending, TypeOK, Tick
  <2>2. QED
    BY <1>2, <2>1, KeptSame DEF tick_not_pending, durableVars
<1>3. ASSUME NEW t \in TimerId, tick_warning(t, "Err") PROVE \A u \in TimerId : Kept(u)
  <2>1. tick'.now = tick.now /\ tick'.warn \subseteq tick.warn /\ tick'.expired = tick.expired
    BY <1>3 DEF tick_warning, TypeOK, Tick
  <2>2. mem' = mem /\ anchors' = anchors /\ pc' = pc
    BY <1>3 DEF tick_warning, commit_authoritative_state
  <2>3. QED
    BY <2>1, <2>2, KeptSame
<1>4. ASSUME NEW t \in TimerId, NEW op, NEW res \in Result, execute_scheduled_deadline(t, op, res)
      PROVE  \A u \in TimerId : Kept(u)
  <2>1. /\ tick'.now = tick.now /\ tick'.warn = tick.warn /\ tick'.expired \subseteq tick.expired
        /\ t \in tick.expired /\ pc = "tick" /\ tick.warn = {}
    BY <1>4 DEF execute_scheduled_deadline, TypeOK, Tick
  <2>2. CASE res # "Ok"
    <3>1. mem' = mem /\ anchors' = anchors /\ pc' = pc
      BY <1>4, <2>2 DEF execute_scheduled_deadline, commit_authoritative_state, Result
    <3>2. QED
      BY <2>1, <3>1, KeptSame
  <2>3. CASE res = "Ok"
    <3>1. mem.actions[t].state = "Pending"
      BY <1>4 DEF execute_scheduled_deadline, runtime_deadline_transition, NoTransition
    <3>2. /\ mem' = executing_candidate(mem, t) /\ anchors' = [anchors EXCEPT ![t] = NoAnchor]
          /\ pc' = "effect"
      BY <1>4, <2>3 DEF execute_scheduled_deadline, commit_authoritative_state, disarmed
    <3>3. mem'.actions[t].state = "Executing"
      BY <3>1, <3>2, ExecutingCandidateFacts DEF TypeOK
    <3>4. /\ mem'.actions[t].emitted = mem.actions[t].emitted
          /\ mem'.actions[t].deadline = mem.actions[t].deadline
          /\ anchors'[t] = NoAnchor
          /\ \A u \in TimerId \ {t} : mem'.actions[u] = mem.actions[u] /\ anchors'[u] = anchors[u]
      BY <3>2 DEF executing_candidate, TypeOK, PersistentState, ScheduledAction
    <3>5. QED
      BY <2>1, <3>1, <3>2, <3>3, <3>4 DEF Kept
  <2>4. QED
    BY <2>2, <2>3
<1>5. QED
  BY <1>1, <1>2, <1>3, <1>4
     DEF Clock, execute_scheduled_internet_deadline, execute_scheduled_shutdown_deadline, Result

\* The process ends: state.json is what it was or what memory held.
Ends == Down /\ disk' \in {disk, mem}

\* Platform calls and the save that follows, unless start fails.
LEMMA EffectKept ==
    ASSUME IInv, LagInv, Effect
    PROVE  (\A t \in TimerId : Kept(t)) \/ Ends
<1>1. CASE effect_stopped
  BY <1>1, KeptSame DEF effect_stopped, durableVars, ReturnFrom
<1>2. ASSUME NEW op, NEW target, NEW done, NEW failing, NEW always, NEW res, NEW obs,
             reconcile(op, target, done, failing, always, res, obs)
      PROVE  \A t \in TimerId : Kept(t)
  <2>1. mem' = mem /\ anchors' = anchors /\ tick' = tick /\ pc = "effect" /\ pc' # "off"
    BY <1>2 DEF reconcile, durableVars, ReturnFrom
  <2>2. QED
    BY <2>1, KeptSame
<1>3. ASSUME NEW res \in Result, shutdown_effect(res) PROVE \A t \in TimerId : Kept(t)
  BY <1>3, KeptSame DEF shutdown_effect, durableVars
<1>4. ASSUME NEW res \in Result, NEW delay, save_after_effect(res, delay),
             ~(job.op = "startup" /\ res = "Err"), NEW t \in TimerId
      PROVE  Kept(t)
  <2>1. pc = "save" /\ pc' # "off" /\ mem' = job.cand /\ anchors' = anchors /\ tick' = tick
    BY <1>4 DEF save_after_effect, commit_post_side_effect_candidate, ReturnFrom
  <2>2. Outcome(mem.actions[t], mem'.actions[t]) /\ mem.actions[t] \in ScheduledAction
    BY <2>1 DEF LagInv, TypeOK, PersistentState
  <2>3. \/ mem'.actions[t] = mem.actions[t]
        \/ mem.actions[t].state = "Executing" /\ mem'.actions[t].state = "Absent"
        \/ /\ mem.actions[t].state = "Executing" /\ mem'.actions[t].state = "Failed"
           /\ mem'.actions[t].emitted = mem.actions[t].emitted
           /\ mem'.actions[t].deadline = mem.actions[t].deadline
    BY <2>2, NoActionKind DEF Outcome, ScheduledAction
  <2>4. QED
    BY <2>1, <2>3 DEF Kept
<1>5. ASSUME NEW res \in Result, NEW delay, save_after_effect(res, delay),
             job.op = "startup" /\ res = "Err"
      PROVE  Ends
  BY <1>5 DEF save_after_effect, save, Ends
<1>6. QED
  BY <1>1, <1>2, <1>3, <1>4, <1>5
     DEF Effect, startup_reconciliation, immediate_block_effect, restore_internet_effect,
         internet_deadline_effect, process_internet_reconciliation_retry

\* Every step.
LEMMA NextKept ==
    ASSUME IInv, TimerInv, LagInv, [Next]_vars
    PROVE  \/ \A t \in TimerId : Kept(t)
           \/ \E t \in TimerId, kind \in ActionKind, d \in Durations :
                  handle_schedule_action(t, kind, d, "Ok")
           \/ process_clock_and_events
           \/ \E t \in TimerId : tick_warning(t, "Ok")
           \/ perform_startup_recovery("Ok")
           \/ Ends
<1>1. CASE perform_startup_recovery("Err")
  BY <1>1, KeptSame DEF perform_startup_recovery
<1>2. CASE (\E res \in Result : handle_stop(res)) \/ Crash
  BY <1>2 DEF handle_stop, Crash, flush_pending_durable_candidate, save, DurabilityGap, Ends
<1>3. CASE request_stop \/ Advance \/ ClockJump \/ UNCHANGED vars
  BY <1>3, KeptSame DEF request_stop, Advance, ClockJump, vars, durableVars
<1>4. QED
  BY <1>1, <1>2, <1>3, CommandKept, ClockKept, EffectKept DEF Next, Worker, Result
-----------------------------------------------------------------------------
(* Every pending action has a sound anchor.                                 *)

\* An anchor ends no later than its whole duration after its start.
Fits(a) == a.target =< a.start + a.dur * MsPerSec

\* The cursor has not passed a threshold that is still to be announced.
Ahead(a, s) ==
    s.state # "Absent" => \A th \in Thresholds \ s.emitted : a.dur > th => a.last > th

AnchorOK(t) ==
    /\ pc # "off" /\ mem.actions[t].state = "Pending" => anchored(t)
    /\ Fits(anchors[t])
    /\ Ahead(anchors[t], mem.actions[t])
    /\ t \in tick.warn => anchored(t) /\ ~expired(t, tick.now)

AnchorInv == \A t \in TimerId : AnchorOK(t)

\* No anchor is a sound one.
LEMMA NoAnchorSound ==
    ASSUME NEW s
    PROVE  Fits(NoAnchor) /\ Ahead(NoAnchor, s)
<1>1. MsPerSec \in Nat /\ Thresholds \subseteq Nat
  BY CoreAssumption DEF CoreAssumption
<1>2. QED
  BY <1>1 DEF Fits, Ahead, NoAnchor

\* Keeping an anchor keeps it sound.
LEMMA KeptAnchor ==
    ASSUME NEW t \in TimerId, AnchorOK(t), Kept(t)
    PROVE  AnchorOK(t)'
<1>1. CASE anchors'[t] = anchors[t] /\ (mem'.actions[t].state = "Pending" <=> mem.actions[t].state = "Pending")
  BY <1>1 DEF Kept, AnchorOK, Fits, Ahead, anchored, expired
<1>2. CASE anchors'[t] = NoAnchor /\ mem'.actions[t].state # "Pending"
  BY <1>2, NoAnchorSound DEF Kept, AnchorOK, anchored, expired
<1>3. QED
  BY <1>1, <1>2 DEF Kept

\* A new timer's anchor spans its duration; the thresholds that are not
\* announced at once are below it.
LEMMA ScheduleAnchor ==
    ASSUME IInv, TimerInv, AnchorInv, NEW t \in TimerId, NEW kind \in ActionKind, NEW d \in Durations,
           handle_schedule_action(t, kind, d, "Ok")
    PROVE  AnchorInv'
<1> DEFINE cand == scheduled_candidate(mem, t, kind, d)
           a == [start |-> mono, target |-> mono + d * MsPerSec, dur |-> d, last |-> d]
<1>1. /\ mem' = cand /\ anchors' = [anchors EXCEPT ![t] = a] /\ tick' = tick /\ pc' = pc /\ pc = "idle"
  BY DEF handle_schedule_action, TakeCommand, commit_authoritative_state
<1>2. /\ cand.actions[t].emitted = creation_passed_thresholds(d) \cup creation_due_thresholds(d)
      /\ \A u \in TimerId \ {t} : cand.actions[u] = mem.actions[u]
  BY DEF scheduled_candidate, TypeOK, PersistentState
<1>3. d \in Nat \ {0} /\ Thresholds \subseteq Nat
  BY CoreAssumption, RuntimeAssumption DEF CoreAssumption, RuntimeAssumption
<1>4. Fits(a) /\ a.dur > 0
  <2>1. d * MsPerSec \in Int /\ mono \in Int
    BY <1>3, CoreAssumption DEF CoreAssumption, TypeOK
  <2>2. QED
    BY <1>3, <2>1 DEF Fits
<1>5. Ahead(a, cand.actions[t])
  BY <1>2, <1>3 DEF Ahead, creation_passed_thresholds, creation_due_thresholds
<1> HIDE DEF cand, a
<1>6. \A u \in TimerId : u \notin tick'.warn
  BY <1>1 DEF TimerInv
<1>7. ASSUME NEW u \in TimerId PROVE AnchorOK(u)'
  <2>1. CASE u = t
    BY <1>1, <1>4, <1>5, <1>6, <2>1 DEF AnchorOK, anchored, TypeOK
  <2>2. CASE u # t
    BY <1>1, <1>2, <1>6, <2>2 DEF AnchorInv, AnchorOK, anchored, expired, TypeOK
  <2>3. QED
    BY <2>1, <2>2
<1>8. QED
  BY <1>7 DEF AnchorInv

\* The seconds left reach a threshold at its instant.
LEMMA RemainingInstant ==
    ASSUME TypeOK, NEW t \in TimerId, NEW now \in Int, NEW th \in Int
    PROVE  current_remaining(t, now) =< th
               <=> anchors[t].start + (anchors[t].dur - th) * MsPerSec =< now
<1> DEFINE start == anchors[t].start
           dur == anchors[t].dur
<1>1. start \in Int /\ dur \in Int /\ MsPerSec \in Nat \ {0}
  BY CoreAssumption DEF CoreAssumption, TypeOK, Anchor
<1>2. current_remaining(t, now) = dur - ((now - start) \div MsPerSec)
  BY DEF current_remaining
<1> HIDE DEF start, dur
<1>3. dur - ((now - start) \div MsPerSec) =< th <=> start + (dur - th) * MsPerSec =< now
  BY <1>1, CountDown
<1>4. QED
  BY <1>2, <1>3 DEF start, dur

\* While an anchor has not expired, seconds remain on it.
LEMMA SecondsRemain ==
    ASSUME TypeOK, NEW t \in TimerId, NEW now \in Nat, Fits(anchors[t]), ~expired(t, now), anchored(t)
    PROVE  /\ current_remaining(t, now) > 0
           /\ current_remaining(t, now) \in Int
<1>1. /\ anchors[t].start \in Int /\ anchors[t].dur \in Int /\ anchors[t].target \in Int
      /\ MsPerSec \in Nat \ {0}
  BY CoreAssumption DEF CoreAssumption, TypeOK, Anchor
<1>2. current_remaining(t, now) \in Int
  BY CurrentRemainingType
<1>3. current_remaining(t, now) =< 0 <=> anchors[t].start + (anchors[t].dur - 0) * MsPerSec =< now
  BY <1>1, RemainingInstant
<1>4. anchors[t].dur - 0 = anchors[t].dur /\ anchors[t].dur * MsPerSec \in Int
  BY <1>1
<1>5. now < anchors[t].target
  BY <1>1 DEF expired
<1>6. QED
  BY <1>1, <1>2, <1>3, <1>4, <1>5 DEF Fits

\* The cursor stays ahead of what was not announced when it moves to now.
LEMMA CursorMoves ==
    ASSUME TypeOK, NEW t \in TimerId, NEW now \in Nat, anchored(t), ~expired(t, now),
           Fits(anchors[t]), Ahead(anchors[t], mem.actions[t]), mem.actions[t].state # "Absent",
           NEW th \in Thresholds, th \notin mem.actions[t].emitted, th \notin crossed(t, now),
           anchors[t].dur > th
    PROVE  current_remaining(t, now) > th
<1>1. current_remaining(t, now) > 0 /\ current_remaining(t, now) \in Int
  BY SecondsRemain
<1>2. anchors[t].last > th
  BY DEF Ahead
<1>3. th \in Int
  BY CoreAssumption DEF CoreAssumption
<1>4. ~(current_remaining(t, now) =< th)
  BY <1>1, <1>2 DEF crossed, crossed_warning_thresholds
<1>5. QED
  BY <1>1, <1>3, <1>4

\* A recorded warning moves the cursor past the thresholds it announces only.
LEMMA WarningAnchor ==
    ASSUME IInv, TimerInv, AnchorInv, NEW t \in TimerId, tick_warning(t, "Ok")
    PROVE  AnchorInv'
<1> DEFINE due == crossed(t, tick.now)
           cand == warned_candidate(mem, t, due)
           cur == current_remaining(t, tick.now)
<1>1. /\ mem' = cand /\ anchors' = [anchors EXCEPT ![t].last = cur] /\ pc' = pc /\ t \in tick.warn
      /\ tick' = [tick EXCEPT !.warn = @ \ {t}]
  BY DEF tick_warning, commit_authoritative_state
<1>2. tick'.now = tick.now /\ tick'.warn \subseteq tick.warn /\ tick.now \in Nat
  BY <1>1 DEF TypeOK, Tick
<1>3. /\ anchored(t) /\ ~expired(t, tick.now) /\ Fits(anchors[t]) /\ Ahead(anchors[t], mem.actions[t])
      /\ mem.actions[t].state # "Absent"
  BY <1>1 DEF AnchorInv, AnchorOK, TimerInv
<1>4. /\ cand.actions[t].emitted = mem.actions[t].emitted \cup due
      /\ cand.actions[t].state = mem.actions[t].state
      /\ \A u \in TimerId \ {t} : cand.actions[u] = mem.actions[u]
  <2> HIDE DEF due
  <2>1. QED
    BY DEF warned_candidate, TypeOK, PersistentState, ScheduledAction
<1>5. \A th \in Thresholds : th \notin mem.actions[t].emitted \cup due /\ anchors[t].dur > th => cur > th
  BY <1>2, <1>3, CursorMoves DEF TypeOK
<1>6. /\ anchors'[t].start = anchors[t].start /\ anchors'[t].target = anchors[t].target
      /\ anchors'[t].dur = anchors[t].dur /\ anchors'[t].last = cur
      /\ \A u \in TimerId \ {t} : anchors'[u] = anchors[u]
  <2> HIDE DEF cur
  <2>1. QED
    BY <1>1 DEF TypeOK, Anchor
<1> HIDE DEF due, cand, cur
<1>7. ASSUME NEW u \in TimerId PROVE AnchorOK(u)'
  <2>1. CASE u = t
    BY <1>1, <1>2, <1>3, <1>4, <1>5, <1>6, <2>1 DEF AnchorOK, anchored, expired, Fits, Ahead
  <2>2. CASE u # t
    BY <1>1, <1>2, <1>4, <1>6, <2>2 DEF AnchorInv, AnchorOK, anchored, expired
  <2>3. QED
    BY <2>1, <2>2
<1>8. QED
  BY <1>7 DEF AnchorInv

\* So does the collection, for the timers that crossed nothing.
LEMMA ProcessAnchor ==
    ASSUME IInv, TimerInv, AnchorInv, process_clock_and_events
    PROVE  AnchorInv'
<1>1. /\ mem' = mem /\ pc' = "tick" /\ pc = "idle" /\ tick'.now = mono
      /\ tick'.warn = {t \in TimerId : crossed(t, mono) # {}}
  BY DEF process_clock_and_events, durableVars
<1>2. ASSUME NEW t \in TimerId
      PROVE  \/ anchors'[t] = anchors[t]
             \/ /\ anchored(t) /\ ~expired(t, mono) /\ crossed(t, mono) = {}
                /\ anchors'[t] = [anchors[t] EXCEPT !.last = current_remaining(t, mono)]
  BY DEF process_clock_and_events
<1>3. ASSUME NEW t \in TimerId PROVE AnchorOK(t)'
  <2>1. AnchorOK(t) /\ mono \in Nat /\ anchors[t] \in Anchor
    BY DEF AnchorInv, TypeOK
  <2>2. t \in tick'.warn => anchored(t) /\ ~expired(t, mono)
    BY <1>1 DEF crossed
  <2>3. CASE anchors'[t] = anchors[t]
    BY <1>1, <2>1, <2>2, <2>3 DEF AnchorOK, anchored, expired
  <2>4. CASE /\ anchored(t) /\ ~expired(t, mono) /\ crossed(t, mono) = {}
             /\ anchors'[t] = [anchors[t] EXCEPT !.last = current_remaining(t, mono)]
    <3> DEFINE cur == current_remaining(t, mono)
    <3>1. mem.actions[t].state # "Absent" =>
             \A th \in Thresholds \ mem.actions[t].emitted : anchors[t].dur > th => cur > th
      BY <2>1, <2>4, CursorMoves DEF AnchorOK
    <3> HIDE DEF cur
    <3>2. /\ anchors'[t].start = anchors[t].start /\ anchors'[t].target = anchors[t].target
          /\ anchors'[t].dur = anchors[t].dur /\ anchors'[t].last = cur
      BY <2>1, <2>4 DEF Anchor, cur
    <3>3. QED
      BY <1>1, <2>1, <2>2, <2>4, <3>1, <3>2 DEF AnchorOK, anchored, expired, Fits, Ahead
  <2>5. QED
    BY <1>2, <2>3, <2>4
<1>4. QED
  BY <1>3 DEF AnchorInv

\* Startup recovery anchors what is in the future, rounded up, and announces
\* no threshold that has passed.
LEMMA RecoveryAnchor ==
    ASSUME IInv, TimerInv, perform_startup_recovery("Ok")
    PROVE  AnchorInv'
<1> DEFINE cand == recovery_candidate(disk)
<1>1. /\ mem' = cand /\ anchors' = recovered_anchors(disk) /\ pc = "off" /\ tick' = tick
  BY DEF perform_startup_recovery
<1>2. /\ \A t \in TimerId : cand.actions[t] = recovered_action(disk, t) /\ disk.actions[t] \in ScheduledAction
      /\ \A t \in TimerId : t \notin tick'.warn
  BY <1>1 DEF recovery_candidate, TypeOK, PersistentState, TimerInv
<1> HIDE DEF cand
<1>3. ASSUME NEW t \in TimerId PROVE AnchorOK(t)'
  <2> DEFINE delta == disk.actions[t].deadline - utc
             r == remaining(disk, t)
             a == [start |-> mono, target |-> mono + delta, dur |-> r, last |-> r]
             e == disk.actions[t].emitted
             b == [disk.actions[t] EXCEPT !.emitted = e \cup recovery_passed_thresholds(r, e)]
  <2>1. delta \in Int /\ mono \in Int /\ r \in Int
    BY <1>2, RemainingType DEF TypeOK, ScheduledAction, remaining
  <2>2. CASE future(disk, t)
    <3>1. anchors'[t] = a
      BY <1>1, <2>2 DEF recovered_anchors
    <3>2. r > 0 /\ delta =< r * MsPerSec
      BY <2>1, <2>2, RemainingFuture DEF future, remaining, deadline_is_due
    <3>3. recovered_action(disk, t) = b
      BY <2>2 DEF recovered_action, future, missed_shutdowns, recovered_overdue_block_ids, overdue
    <3>4. b.emitted = e \cup recovery_passed_thresholds(r, e)
      BY <1>2 DEF ScheduledAction
    <3> HIDE DEF delta, r, b, e
    <3>5. Fits(a)
      <4>1. r * MsPerSec \in Int
        BY <2>1, CoreAssumption DEF CoreAssumption
      <4>2. QED
        BY <2>1, <3>2, <4>1 DEF Fits
    <3>6. Ahead(a, b)
      BY <2>1, <3>2, <3>4, CoreAssumption DEF Ahead, recovery_passed_thresholds, CoreAssumption
    <3> HIDE DEF a
    <3>7. QED
      BY <1>1, <1>2, <3>1, <3>2, <3>3, <3>5, <3>6 DEF AnchorOK, anchored, a
  <2>3. CASE ~future(disk, t)
    <3>1. anchors'[t] = NoAnchor
      BY <1>1, <2>3 DEF recovered_anchors
    <3>2. mem'.actions[t].state # "Pending"
      <4>1. CASE disk.actions[t].state # "Pending"
        <5>1. StageStep(disk.actions[t], recovered_action(disk, t))
          BY RecoveredStage DEF TypeOK
        <5>2. QED
          BY <1>1, <1>2, <4>1, <5>1 DEF StageStep
      <4>2. CASE disk.actions[t].state = "Pending"
        <5>1. overdue(disk, t) /\ deadline_is_due(remaining(disk, t))
          BY <2>3, <4>2 DEF future, overdue
        <5>2. CASE disk.actions[t].kind = "BlockInternet"
          <6>1. t \in recovered_overdue_block_ids(disk)
            BY <4>2, <5>1, <5>2 DEF recovered_overdue_block_ids
          <6>2. QED
            BY <1>1, <1>2, <6>1, RecoveredStage DEF TypeOK
        <5>3. CASE disk.actions[t].kind = "ShutdownComputer"
          <6>1. t \in missed_shutdowns(disk)
            BY <4>2, <5>1, <5>3 DEF missed_shutdowns, recovery_overdue_transition, StoredState
          <6>2. recovered_action(disk, t) = NoAction
            BY <2>3, <5>3, <6>1 DEF recovered_action, recovered_overdue_block_ids
          <6>3. QED
            BY <1>1, <1>2, <6>2, NoActionKind
        <5>4. QED
          BY <1>2, <5>2, <5>3 DEF ScheduledAction, ActionKind
      <4>3. QED
        BY <4>1, <4>2
    <3>3. QED
      BY <1>2, <3>1, <3>2, NoAnchorSound DEF AnchorOK
  <2>4. QED
    BY <2>2, <2>3
<1>4. QED
  BY <1>3 DEF AnchorInv

\* Every step preserves the invariant.
LEMMA NextAnchor == IInv /\ TimerInv /\ LagInv /\ AnchorInv /\ [Next]_vars => AnchorInv'
<1> SUFFICES ASSUME IInv, TimerInv, LagInv, AnchorInv, [Next]_vars PROVE AnchorInv'
  OBVIOUS
<1>1. CASE \A t \in TimerId : Kept(t)
  BY <1>1, KeptAnchor DEF AnchorInv
<1>2. CASE Ends
  <2>1. pc' = "off" /\ tick'.warn = {} /\ \A t \in TimerId : anchors'[t] = NoAnchor
    BY <1>2 DEF Ends, Down, NoTick
  <2>2. QED
    BY <2>1, NoAnchorSound DEF AnchorInv, AnchorOK
<1>3. QED
  BY <1>1, <1>2, NextKept, ScheduleAnchor, ProcessAnchor, WarningAnchor, RecoveryAnchor

\* The invariant about anchors holds in every reachable state.
THEOREM AnchorInvariance == Spec => []AnchorInv
<1>1. Init => AnchorInv
  BY NoAnchorSound DEF Init, AnchorInv, AnchorOK, NoTick
<1> HIDE DEF IInv
<1>2. QED
  BY <1>1, NextAnchor, Invariance, TimerInvariance, LagInvariance, PTL DEF Spec

\* Every pending action has an anchor that will wake the worker for it: no
\* command, crash, recovery or corrected clock leaves one without.
THEOREM EveryPendingAnchored == Spec => []PendingAnchored
<1>1. AnchorInv => PendingAnchored
  BY DEF AnchorInv, AnchorOK, PendingAnchored
<1>2. QED
  BY <1>1, AnchorInvariance, PTL
-----------------------------------------------------------------------------
(* When warnings are raised.                                                *)

\* While the clock is being processed only a recorded warning raises one.
LEMMA RaisedByTick ==
    ASSUME [Next]_vars, pc = "tick", warned' # warned
    PROVE  \E t \in TimerId : tick_warning(t, "Ok")
<1>1. ~Command
  BY DEF Command, TakeCommand, handle_schedule_action, handle_cancel_exact_timer,
         handle_immediate_block, handle_restore_internet, commit_desired,
         handle_ack_telegram, handle_send_child_message, handle_subscribe_events
<1>2. ~Effect
  BY DEF Effect, effect_stopped, startup_reconciliation, immediate_block_effect,
         restore_internet_effect, internet_deadline_effect,
         process_internet_reconciliation_retry, reconcile, shutdown_effect, save_after_effect
<1>3. Clock => \E t \in TimerId : tick_warning(t, "Ok")
  BY DEF Clock, process_clock_and_events, tick_stopped, tick_retry, tick_not_pending, tick_warning,
         execute_scheduled_internet_deadline, execute_scheduled_shutdown_deadline,
         execute_scheduled_deadline, history, Result
<1>4. QED
  BY <1>1, <1>2, <1>3
     DEF Next, Worker, perform_startup_recovery, handle_stop, request_stop, Crash, Advance,
         ClockJump, vars, history

\* A threshold that is crossed lies ahead of the deadline, within its seconds.
LEMMA CrossedInWindow ==
    ASSUME TypeOK, NEW t \in TimerId, NEW now \in Nat, NEW th \in crossed(t, now), Fits(anchors[t])
    PROVE  anchors[t].target - now \in 1 .. th * MsPerSec
<1> DEFINE start == anchors[t].start
           dur == anchors[t].dur
           target == anchors[t].target
<1>1. start \in Int /\ dur \in Int /\ target \in Int /\ MsPerSec \in Nat \ {0}
  BY CoreAssumption DEF CoreAssumption, TypeOK, Anchor
<1>2. anchored(t) /\ ~expired(t, now) /\ th \in Thresholds /\ current_remaining(t, now) =< th
  BY DEF crossed, crossed_warning_thresholds
<1>3. th \in Int
  BY <1>2, CoreAssumption DEF CoreAssumption
<1>4. start + (dur - th) * MsPerSec =< now
  BY <1>2, <1>3, RemainingInstant
<1>5. now < target /\ target =< start + dur * MsPerSec
  BY <1>1, <1>2 DEF expired, Fits
<1> HIDE DEF start, dur, target
<1>6. (dur - th) * MsPerSec = dur * MsPerSec - th * MsPerSec /\ dur * MsPerSec \in Int
      /\ th * MsPerSec \in Int
  BY <1>1, <1>3
<1>7. 1 =< target - now /\ target - now =< th * MsPerSec /\ target - now \in Int
  BY <1>1, <1>4, <1>5, <1>6
<1>8. QED
  BY <1>6, <1>7 DEF target

\* A warning is raised while its timer runs and not before its threshold,
\* however late the worker wakes and whatever happens to the wall clock.
THEOREM WarningInWindow == Spec => WarningTimely
<1> DEFINE Timely == \A t \in TimerId, th \in Thresholds :
                        warned'[t][th] > warned[t][th] /\ pc = "tick" =>
                            anchors[t].target - tick.now \in 1 .. th * MsPerSec
<1>1. ASSUME IInv, AnchorInv, [Next]_vars, NEW u \in TimerId, NEW th \in Thresholds,
             warned'[u][th] > warned[u][th], pc = "tick"
      PROVE  anchors[u].target - tick.now \in 1 .. th * MsPerSec
  <2>1. warned[u][th] \in Nat /\ tick.now \in Nat
    BY <1>1 DEF TypeOK, Tick
  <2>2. warned' # warned
    BY <1>1, <2>1
  <2>3. PICK t \in TimerId : tick_warning(t, "Ok")
    BY <1>1, <2>2, RaisedByTick
  <2> DEFINE due == crossed(t, tick.now)
             w == [h \in Thresholds |-> IF h \in due THEN warned[t][h] + 1 ELSE warned[t][h]]
  <2>4. warned' = [warned EXCEPT ![t] = w]
    BY <2>3 DEF tick_warning
  <2>5. th \notin due => w[th] = warned[t][th]
    OBVIOUS
  <2> HIDE DEF due, w
  <2>6. u = t /\ th \in due
    BY <1>1, <2>1, <2>4, <2>5 DEF TypeOK
  <2>7. QED
    BY <1>1, <2>1, <2>6, CrossedInWindow DEF due, AnchorInv, AnchorOK
<1>2. IInv /\ AnchorInv /\ [Next]_vars => Timely
  BY <1>1
<1> HIDE DEF IInv
<1>3. QED
  BY <1>2, Invariance, AnchorInvariance, PTL DEF Spec, WarningTimely
-----------------------------------------------------------------------------
(* How often warnings are raised.                                           *)

\* Whoever raised a warning recorded the threshold with the action.
Recorded(a, w) == a.state # "Absent" => \A th \in Thresholds : w[th] > 0 => th \in a.emitted

WarnInv ==
    \A t \in TimerId :
        /\ Recorded(disk.actions[t], warned[t]) /\ Recorded(mem.actions[t], warned[t])
        /\ \A th \in Thresholds : warned[t][th] =< 1 /\ (warned[t][th] > 0 => fate[t] # "unused")

\* Warnings are raised by a new timer or by the clock.
LEMMA Raised ==
    ASSUME [Next]_vars
    PROVE  \/ warned' = warned
           \/ \E t \in TimerId : tick_warning(t, "Ok")
           \/ \E t \in TimerId, kind \in ActionKind, d \in Durations :
                  handle_schedule_action(t, kind, d, "Ok")
<1>1. CASE Command
  <2>1. CASE \E t \in TimerId, kind \in ActionKind, d \in Durations, res \in Result :
                 handle_schedule_action(t, kind, d, res)
    BY <2>1 DEF handle_schedule_action, Result
  <2>2. CASE \E t \in TimerId, res \in Result : handle_cancel_exact_timer(t, res)
    BY <2>2 DEF handle_cancel_exact_timer
  <2>3. QED
    BY <1>1, <2>1, <2>2 DEF Command, handle_immediate_block, handle_restore_internet, commit_desired,
         handle_ack_telegram, handle_send_child_message, handle_subscribe_events
<1>2. CASE Effect
  BY <1>2 DEF Effect, effect_stopped, startup_reconciliation, immediate_block_effect,
         restore_internet_effect, internet_deadline_effect,
         process_internet_reconciliation_retry, reconcile, shutdown_effect, save_after_effect, history
<1>3. CASE Clock
  BY <1>3 DEF Clock, process_clock_and_events, tick_stopped, tick_retry, tick_not_pending, tick_warning,
         execute_scheduled_internet_deadline, execute_scheduled_shutdown_deadline,
         execute_scheduled_deadline, history, Result
<1>4. QED
  BY <1>1, <1>2, <1>3
     DEF Next, Worker, perform_startup_recovery, handle_stop, request_stop, Crash, Advance,
         ClockJump, vars, history

\* A new timer had raised nothing; what it announces at once it records.
LEMMA ScheduleOnce ==
    ASSUME IInv, WarnInv, NEW t \in TimerId, NEW kind \in ActionKind, NEW d \in Durations,
           handle_schedule_action(t, kind, d, "Ok")
    PROVE  /\ \A th \in Thresholds : warned[t][th] = 0
           /\ \A th \in Thresholds : warned'[t][th] = IF th \in creation_due_thresholds(d) THEN 1 ELSE 0
           /\ WarnInv'
<1> DEFINE due == creation_due_thresholds(d)
           cand == scheduled_candidate(mem, t, kind, d)
           w == [th \in Thresholds |-> IF th \in due THEN warned[t][th] + 1 ELSE warned[t][th]]
<1>1. /\ disk' = cand /\ mem' = cand /\ warned' = [warned EXCEPT ![t] = w]
      /\ fate[t] = "unused" /\ fate' = [fate EXCEPT ![t] = "accepted"]
  BY DEF handle_schedule_action, commit_authoritative_state, save
<1>2. /\ due \subseteq cand.actions[t].emitted
      /\ \A u \in TimerId \ {t} : cand.actions[u] = mem.actions[u]
  BY DEF scheduled_candidate, TypeOK, PersistentState
<1>3. \A th \in Thresholds : warned[t][th] = 0
  BY <1>1 DEF WarnInv, TypeOK
<1>4. \A th \in Thresholds : w[th] = IF th \in due THEN 1 ELSE 0
  BY <1>3, 0 + 1 = 1
<1> HIDE DEF due, cand, w
<1>5. warned'[t] = w /\ \A u \in TimerId \ {t} : warned'[u] = warned[u] /\ fate'[u] = fate[u]
  BY <1>1 DEF TypeOK
<1>6. fate'[t] # "unused"
  BY <1>1 DEF TypeOK
<1>7. WarnInv'
  <2>1. ASSUME NEW u \in TimerId
        PROVE  /\ Recorded(disk'.actions[u], warned'[u]) /\ Recorded(mem'.actions[u], warned'[u])
               /\ \A th \in Thresholds : warned'[u][th] =< 1 /\ (warned'[u][th] > 0 => fate'[u] # "unused")
    <3>1. CASE u = t
      BY <1>1, <1>2, <1>4, <1>5, <1>6, <3>1 DEF Recorded
    <3>2. CASE u # t
      BY <1>1, <1>2, <1>5, <3>2 DEF WarnInv
    <3>3. QED
      BY <3>1, <3>2
  <2>2. QED
    BY <2>1 DEF WarnInv
<1>8. QED
  BY <1>3, <1>4, <1>5, <1>7 DEF due

\* Nor had a threshold that is crossed.
LEMMA TickOnce ==
    ASSUME IInv, TimerInv, WarnInv, NEW t \in TimerId, tick_warning(t, "Ok")
    PROVE  /\ \A th \in crossed(t, tick.now) : th \in Thresholds /\ warned[t][th] = 0 /\ warned'[t][th] = 1
           /\ \A u \in TimerId, th \in Thresholds : warned'[u][th] >= warned[u][th]
           /\ WarnInv'
<1> DEFINE due == crossed(t, tick.now)
           cand == warned_candidate(mem, t, due)
           w == [th \in Thresholds |-> IF th \in due THEN warned[t][th] + 1 ELSE warned[t][th]]
<1>1. /\ disk' = cand /\ mem' = cand /\ warned' = [warned EXCEPT ![t] = w] /\ fate' = fate
      /\ mem.actions[t].state # "Absent"
  BY DEF tick_warning, commit_authoritative_state, save, TimerInv
<1>2. \A th \in due : th \in Thresholds /\ th \notin mem.actions[t].emitted
  BY DEF crossed, crossed_warning_thresholds
<1>3. \A th \in due : warned[t][th] = 0
  BY <1>1, <1>2 DEF WarnInv, Recorded, TypeOK
<1>f. fate[t] # "unused"
  BY <1>1, NoActionKind DEF TimerInv, Sound
<1>4. \A th \in Thresholds : /\ w[th] = IF th \in due THEN 1 ELSE warned[t][th]
                             /\ w[th] >= warned[t][th] /\ w[th] =< 1
  BY <1>3 DEF WarnInv, TypeOK
<1> HIDE DEF due
<1>5. /\ cand.actions[t].emitted = mem.actions[t].emitted \cup due
      /\ \A u \in TimerId \ {t} : cand.actions[u] = mem.actions[u]
  BY DEF warned_candidate, TypeOK, PersistentState, ScheduledAction
<1> HIDE DEF cand, w
<1>6. warned'[t] = w /\ \A u \in TimerId \ {t} : warned'[u] = warned[u]
  BY <1>1 DEF TypeOK
<1>7. WarnInv'
  <2>1. ASSUME NEW u \in TimerId
        PROVE  /\ Recorded(disk'.actions[u], warned'[u]) /\ Recorded(mem'.actions[u], warned'[u])
               /\ \A th \in Thresholds : warned'[u][th] =< 1 /\ (warned'[u][th] > 0 => fate'[u] # "unused")
    <3>1. CASE u = t
      BY <1>1, <1>f, <1>4, <1>5, <1>6, <3>1 DEF WarnInv, Recorded
    <3>2. CASE u # t
      BY <1>1, <1>5, <1>6, <3>2 DEF WarnInv
    <3>3. QED
      BY <3>1, <3>2
  <2>2. QED
    BY <2>1 DEF WarnInv
<1>8. \A u \in TimerId, th \in Thresholds : warned'[u][th] >= warned[u][th]
  BY <1>4, <1>6 DEF TypeOK
<1>9. QED
  BY <1>2, <1>3, <1>4, <1>6, <1>7, <1>8 DEF due

\* Recovery adds to what is recorded.
LEMMA RecoveredRecorded ==
    ASSUME NEW s \in PersistentState, NEW t \in TimerId, NEW w, Recorded(s.actions[t], w)
    PROVE  Recorded(recovered_action(s, t), w)
<1>1. s.actions[t] \in ScheduledAction
  BY DEF PersistentState
<1> DEFINE e == recovery_passed_thresholds(remaining(s, t), s.actions[t].emitted)
           r == [s.actions[t] EXCEPT !.emitted = @ \cup e]
           x == [s.actions[t] EXCEPT !.state = "Executing"]
<1>2. /\ r.state = s.actions[t].state /\ s.actions[t].emitted \subseteq r.emitted
      /\ x.emitted = s.actions[t].emitted
  BY <1>1 DEF ScheduledAction
<1>3. \/ recovered_action(s, t) \in {NoAction, r, s.actions[t]}
      \/ s.actions[t].state # "Absent" /\ recovered_action(s, t) = x
  <2>a. /\ t \in missed_shutdowns(s) => t \notin recovered_overdue_block_ids(s) /\ ~future(s, t)
        /\ t \in recovered_overdue_block_ids(s) => /\ t \notin missed_shutdowns(s) /\ ~future(s, t)
                                                  /\ s.actions[t].state # "Absent"
    BY DEF missed_shutdowns, recovered_overdue_block_ids, overdue, future
  <2>1. /\ t \in missed_shutdowns(s) => recovered_action(s, t) = NoAction
        /\ t \in recovered_overdue_block_ids(s) => recovered_action(s, t) = x
    BY <2>a DEF recovered_action
  <2>2. t \notin missed_shutdowns(s) \cup recovered_overdue_block_ids(s) =>
           recovered_action(s, t) \in {r, s.actions[t]}
    BY DEF recovered_action
  <2>3. QED
    BY <2>a, <2>1, <2>2
<1> HIDE DEF r, x
<1>4. QED
  BY <1>2, <1>3, NoActionKind DEF Recorded

\* Every step preserves the invariant.
LEMMA NextWarn == IInv /\ TimerInv /\ LagInv /\ WarnInv /\ [Next]_vars => WarnInv'
<1> SUFFICES ASSUME IInv, TimerInv, LagInv, WarnInv, [Next]_vars PROVE WarnInv'
  OBVIOUS
<1>1. \A t \in TimerId : fate'[t] = "unused" => fate[t] = "unused"
  BY NextDisk DEF DiskStep, LifeStep
<1>2. ASSUME warned' = warned,
             \A t \in TimerId : /\ Recorded(disk'.actions[t], warned[t])
                                /\ Recorded(mem'.actions[t], warned[t])
      PROVE  WarnInv'
  BY <1>1, <1>2 DEF WarnInv
<1>3. CASE warned' = warned /\ \A t \in TimerId : Kept(t)
  <2>1. \A t \in TimerId : Recorded(mem'.actions[t], warned[t])
    BY <1>3 DEF WarnInv, Recorded, Kept
  <2>2. QED
    BY <1>2, <1>3, <2>1, NextCopies DEF CopyStep, WarnInv
<1>4. CASE warned' = warned /\ process_clock_and_events
  BY <1>2, <1>4 DEF process_clock_and_events, durableVars, WarnInv
<1>5. CASE warned' = warned /\ perform_startup_recovery("Ok")
  <2> DEFINE cand == recovery_candidate(disk)
  <2>1. disk' = cand /\ mem' = cand /\ disk \in PersistentState
    BY <1>5 DEF perform_startup_recovery, save, TypeOK
  <2>2. \A t \in TimerId : cand.actions[t] = recovered_action(disk, t)
    BY DEF recovery_candidate
  <2> HIDE DEF cand
  <2>3. QED
    BY <1>2, <1>5, <2>1, <2>2, RecoveredRecorded DEF WarnInv
<1>6. CASE warned' = warned /\ Ends
  BY <1>2, <1>6 DEF Ends, Down, WarnInv
<1>7. QED
  BY <1>3, <1>4, <1>5, <1>6, NextKept, Raised, ScheduleOnce, TickOnce

\* What was announced is recorded in every reachable state.
THEOREM WarnInvariance == Spec => []WarnInv
<1>1. Init => WarnInv
  BY NoActionKind DEF Init, WarnInv, Recorded
<1> HIDE DEF IInv
<1>2. QED
  BY <1>1, NextWarn, Invariance, TimerInvariance, LagInvariance, PTL DEF Spec

\* Over crashes, recoveries, failed saves and kept candidates, every threshold
\* of a timer is announced at most once, and in its window.
THEOREM WarningsOnceInWindow == Spec => WarningsExact
<1>1. WarnInv => WarnAtMostOnce
  BY DEF WarnInv, WarnAtMostOnce
<1>2. QED
  BY <1>1, WarnInvariance, WarningInWindow, PTL DEF WarningsExact
-----------------------------------------------------------------------------
(* Notifications that were acknowledged.                                    *)

\* The counters of the environment only grow.
LEMMA Counted ==
    ASSUME TypeOK, [Next]_vars
    PROVE  faults'["gate"] >= faults["gate"] /\ commands' >= commands
<1> DEFINE Failing == faults' = faults \/ \E kind \in FaultKind : Fault(kind)
<1>1. \A cand, res : save(cand, res) => Failing
  BY DEF save, FaultKind
<1>2. Command => Failing /\ commands' = commands + 1
  <2>1. ASSUME Command PROVE commands' = commands + 1
    BY <2>1 DEF Command, TakeCommand, handle_schedule_action, handle_cancel_exact_timer,
           handle_immediate_block, handle_restore_internet, commit_desired,
           handle_ack_telegram, handle_send_child_message, handle_subscribe_events
  <2>2. ASSUME handle_subscribe_events PROVE Failing
    BY <2>2 DEF handle_subscribe_events
  <2> HIDE DEF Failing
  <2>3. ASSUME NEW cand, NEW res, commit_authoritative_state(cand, res) PROVE Failing
    BY <1>1, <2>3 DEF commit_authoritative_state
  <2>4. ASSUME Command PROVE Failing
    <3>1. ASSUME NEW res \in Result, NEW t \in TimerId, NEW kind \in ActionKind, NEW d \in Durations,
                 handle_schedule_action(t, kind, d, res)
          PROVE  Failing
      BY <2>3, <3>1 DEF handle_schedule_action
    <3>2. ASSUME NEW res \in Result, NEW t \in TimerId, handle_cancel_exact_timer(t, res) PROVE Failing
      BY <2>3, <3>2 DEF handle_cancel_exact_timer
    <3>3. ASSUME NEW res \in Result, handle_immediate_block(res) \/ handle_restore_internet(res)
          PROVE  Failing
      BY <2>3, <3>3 DEF handle_immediate_block, handle_restore_internet, commit_desired
    <3>4. ASSUME NEW res \in Result, NEW e \in mem.outbox, handle_ack_telegram(e, res) PROVE Failing
      BY <2>3, <3>4 DEF handle_ack_telegram
    <3>5. ASSUME NEW res \in Result, handle_send_child_message(res) PROVE Failing
      BY <2>3, <3>5 DEF handle_send_child_message
    <3>6. QED
      BY <2>2, <2>4, <3>1, <3>2, <3>3, <3>4, <3>5 DEF Command
  <2>5. QED
    BY <2>1, <2>4
<1>3. Clock => Failing /\ commands' = commands
  <2>1. ASSUME NEW t \in TimerId, NEW res \in Result, tick_warning(t, res)
        PROVE  Failing /\ commands' = commands
    <3> HIDE DEF Failing
    <3>1. QED
      BY <1>1, <2>1 DEF tick_warning, commit_authoritative_state
  <2>2. ASSUME NEW t \in TimerId, NEW op, NEW res \in Result, execute_scheduled_deadline(t, op, res)
        PROVE  Failing /\ commands' = commands
    <3> HIDE DEF Failing
    <3>1. QED
      BY <1>1, <2>2 DEF execute_scheduled_deadline, commit_authoritative_state
  <2>3. QED
    BY <2>1, <2>2
       DEF Clock, process_clock_and_events, tick_stopped, tick_retry, tick_not_pending,
           execute_scheduled_internet_deadline, execute_scheduled_shutdown_deadline
<1>4. Effect => Failing /\ commands' = commands
  <2>1. ASSUME NEW op, NEW target, NEW done, NEW failing, NEW always, NEW res, NEW obs,
               reconcile(op, target, done, failing, always, res, obs)
        PROVE  Failing /\ commands' = commands
    BY <2>1 DEF reconcile, gate_call, FaultKind
  <2>2. ASSUME NEW res \in Result, shutdown_effect(res) PROVE Failing /\ commands' = commands
    BY <2>2 DEF shutdown_effect, initiate_shutdown, FaultKind
  <2>3. ASSUME NEW res \in Result, NEW delay, save_after_effect(res, delay)
        PROVE  Failing /\ commands' = commands
    <3> HIDE DEF Failing
    <3>1. QED
      BY <1>1, <2>3 DEF save_after_effect, commit_post_side_effect_candidate
  <2>4. QED
    BY <2>1, <2>2, <2>3
       DEF Effect, effect_stopped, startup_reconciliation, immediate_block_effect,
           restore_internet_effect, internet_deadline_effect, process_internet_reconciliation_retry
<1>5. ASSUME (\E res \in Result : perform_startup_recovery(res) \/ handle_stop(res)) \/ Crash
             \/ request_stop \/ Advance \/ ClockJump \/ UNCHANGED vars
      PROVE  Failing /\ commands' = commands
  BY <1>1, <1>5
     DEF perform_startup_recovery, handle_stop, flush_pending_durable_candidate, Crash, request_stop,
         Advance, ClockJump, vars, FaultKind
<1>6. Failing /\ commands' \in {commands, commands + 1}
  BY <1>2, <1>3, <1>4, <1>5 DEF Next, Worker
<1>7. Failing => faults'["gate"] >= faults["gate"]
  BY DEF Fault, FaultKind, TypeOK
<1> HIDE DEF Failing
<1>8. QED
  BY <1>6, <1>7 DEF TypeOK

\* What settles the fate of a timer.
LEMMA Settles ==
    ASSUME IInv, [Next]_vars
    PROVE  \/ fate' = fate
           \/ perform_startup_recovery("Ok")
           \/ \E t \in TimerId :
                  \/ fate[t] = "unused" /\ fate' = [fate EXCEPT ![t] = "accepted"]
                  \/ handle_cancel_exact_timer(t, "Ok")
           \/ \A t \in TimerId : \/ fate'[t] = fate[t]
                                 \/ fate'[t] = "done" /\ mem.actions[t].state = "Executing"
<1> DEFINE Done == \A t \in TimerId : \/ fate'[t] = fate[t]
                                      \/ fate'[t] = "done" /\ mem.actions[t].state = "Executing"
<1>1. CASE Command
  <2>1. CASE \E t \in TimerId, kind \in ActionKind, d \in Durations, res \in Result :
                 handle_schedule_action(t, kind, d, res)
    BY <2>1 DEF handle_schedule_action
  <2>2. CASE \E t \in TimerId, res \in Result : handle_cancel_exact_timer(t, res)
    BY <2>2 DEF handle_cancel_exact_timer, Result
  <2>3. QED
    BY <1>1, <2>1, <2>2 DEF Command, handle_immediate_block, handle_restore_internet, commit_desired,
         handle_ack_telegram, handle_send_child_message, handle_subscribe_events
<1>2. ASSUME Effect PROVE Done
  <2>1. ASSUME NEW res \in Result, shutdown_effect(res) PROVE Done
    <3>1. fate' = [fate EXCEPT ![job.timer] = IF res = "Ok" THEN "done" ELSE fate[job.timer]]
      BY <2>1 DEF shutdown_effect
    <3>2. job.timer \in TimerId /\ mem.actions[job.timer].state = "Executing"
      BY <2>1, ShutdownCopies
    <3>3. QED
      BY <3>1, <3>2 DEF TypeOK
  <2>2. ASSUME NEW res \in Result, NEW delay, save_after_effect(res, delay) PROVE Done
    BY <2>2 DEF save_after_effect, history
  <2>3. ASSUME NEW op, NEW goal, NEW done, NEW failing, NEW always, NEW res, NEW obs,
               reconcile(op, goal, done, failing, always, res, obs)
        PROVE  Done
    BY <2>3 DEF reconcile
  <2>4. ASSUME effect_stopped PROVE Done
    BY <2>4 DEF effect_stopped, history
  <2> HIDE DEF Done
  <2>5. QED
    BY <1>2, <2>1, <2>2, <2>3, <2>4
       DEF Effect, startup_reconciliation, immediate_block_effect, restore_internet_effect,
           internet_deadline_effect, process_internet_reconciliation_retry
<1>3. CASE Clock
  BY <1>3 DEF Clock, process_clock_and_events, tick_stopped, tick_retry, tick_not_pending, tick_warning,
         execute_scheduled_internet_deadline, execute_scheduled_shutdown_deadline,
         execute_scheduled_deadline, history
<1>4. QED
  BY <1>1, <1>2, <1>3
     DEF Next, Worker, perform_startup_recovery, handle_stop, request_stop, Crash, Advance,
         ClockJump, vars, history, Result

\* A missed shutdown is gone, and stays recorded as missed.
MissedGone == \A t \in TimerId : fate[t] = "missed" => disk.actions[t].state = "Absent"

\* No step takes a missed shutdown back.
LEMMA MissedStays ==
    ASSUME IInv, TimerInv, LagInv, MissedGone, [Next]_vars, NEW t \in TimerId
    PROVE  /\ fate[t] = "missed" => fate'[t] = "missed"
           /\ fate'[t] = "missed" => disk'.actions[t].state = "Absent"
<1>0. disk.actions[t].state = "Absent" => mem.actions[t].state = "Absent"
  BY DEF LagInv, Outcome
<1>1. fate[t] = "missed" => fate'[t] = "missed" /\ disk'.actions[t].state = "Absent"
  <2> SUFFICES ASSUME fate[t] = "missed" PROVE fate'[t] = "missed" /\ disk'.actions[t].state = "Absent"
    OBVIOUS
  <2>1. disk.actions[t].state = "Absent" /\ mem.actions[t].state = "Absent"
    BY <1>0 DEF MissedGone
  <2>2. disk'.actions[t].state = "Absent"
    BY <2>1, NextDisk DEF DiskStep, LifeStep, StageStep
  <2>3. fate'[t] = "missed"
    <3>1. CASE perform_startup_recovery("Ok")
      BY <3>1 DEF perform_startup_recovery
    <3>2. ASSUME NEW u \in TimerId, fate[u] = "unused" /\ fate' = [fate EXCEPT ![u] = "accepted"]
          PROVE  fate'[t] = "missed"
      BY <3>2 DEF TypeOK
    <3>3. ASSUME NEW u \in TimerId, handle_cancel_exact_timer(u, "Ok") PROVE fate'[t] = "missed"
      BY <2>1, <3>3 DEF handle_cancel_exact_timer, cancellable, TypeOK
    <3>4. QED
      BY <2>1, <3>1, <3>2, <3>3, Settles
  <2>4. QED
    BY <2>2, <2>3
<1>2. fate[t] # "missed" /\ fate'[t] = "missed" => disk'.actions[t].state = "Absent"
  <2> SUFFICES ASSUME fate[t] # "missed", fate'[t] = "missed" PROVE disk'.actions[t].state = "Absent"
    OBVIOUS
  <2>1. ~(\E u \in TimerId : fate[u] = "unused" /\ fate' = [fate EXCEPT ![u] = "accepted"])
    BY DEF TypeOK
  <2>2. ~(\E u \in TimerId : handle_cancel_exact_timer(u, "Ok"))
    BY DEF handle_cancel_exact_timer, TypeOK
  <2>3. perform_startup_recovery("Ok") /\ t \in missed_shutdowns(disk)
    <3>1. perform_startup_recovery("Ok")
      BY <2>1, <2>2, Settles
    <3>2. QED
      BY <3>1 DEF perform_startup_recovery
  <2>4. disk'.actions[t] = recovered_action(disk, t)
    BY <2>3 DEF perform_startup_recovery, save, recovery_candidate
  <2>5. recovered_action(disk, t) = NoAction
    BY <2>3 DEF recovered_action, missed_shutdowns, recovered_overdue_block_ids, future, overdue
  <2>6. QED
    BY <2>4, <2>5, NoActionKind
<1>3. QED
  BY <1>1, <1>2
\* The entries that were ever made: each kind leaves a trace in the history
\* or in a counter.
Known(e) ==
    /\ e.type = "warning" => e.timer \in TimerId /\ e.n \in Thresholds /\ warned[e.timer][e.n] > 0
    /\ e.type = "missed" => e.timer \in TimerId /\ fate[e.timer] = "missed"
    /\ e.type = "power" => e.timer \in TimerId /\ calls[e.timer] > 0
    /\ e.type = "gate" => e.n =< faults["gate"]
    /\ e.type = "chat" => e.n =< commands

\* An entry of memory or of the candidate of a second save.
Offered(e) == e \in mem.outbox \/ (pc = "save" /\ e \in job.cand.outbox)

\* Entries are new when they are made, so an acknowledged one is not made again.
NoteInv ==
    /\ MissedGone
    /\ \A e \in OutboxEntry : /\ Offered(e) \/ e \in acked => Known(e)
                             /\ ~(Offered(e) /\ e \in acked)

\* What was made once stays known.
LEMMA KnownStays ==
    ASSUME IInv, TimerInv, LagInv, WarnInv, NoteInv, [Next]_vars, NEW e \in OutboxEntry, Known(e)
    PROVE  Known(e)'
<1>1. ASSUME NEW t \in TimerId, NEW th \in Thresholds, warned[t][th] > 0 PROVE warned'[t][th] > 0
  <2>1. CASE warned' = warned
    BY <1>1, <2>1
  <2>2. ASSUME NEW u \in TimerId, tick_warning(u, "Ok") PROVE warned'[t][th] > 0
    <3>1. warned'[t][th] >= warned[t][th]
      BY <2>2, TickOnce
    <3>2. warned[t][th] \in Nat /\ warned'[t][th] \in Nat
      BY <1>1, NextInv DEF TypeOK
    <3>3. QED
      BY <1>1, <3>1, <3>2
  <2>3. ASSUME NEW u \in TimerId, NEW kind \in ActionKind, NEW d \in Durations,
               handle_schedule_action(u, kind, d, "Ok")
        PROVE  warned'[t][th] > 0
    <3>1. u # t
      BY <1>1, <2>3, ScheduleOnce
    <3>2. warned'[t] = warned[t]
      BY <2>3, <3>1 DEF handle_schedule_action, TypeOK
    <3>3. QED
      BY <1>1, <3>2
  <2>4. QED
    BY <2>1, <2>2, <2>3, Raised
<1>2. ASSUME NEW t \in TimerId, fate[t] = "missed" PROVE fate'[t] = "missed"
  BY <1>2, MissedStays DEF NoteInv
<1>3. ASSUME NEW t \in TimerId, calls[t] > 0 PROVE calls'[t] > 0
  <2>1. CASE calls' = calls
    BY <1>3, <2>1
  <2>2. ASSUME NEW res \in Result, shutdown_effect(res) PROVE calls'[t] > 0
    <3>1. calls' = [calls EXCEPT ![job.timer] = calls[job.timer] + 1] /\ job.timer \in TimerId
      BY <2>2, ShutdownCopies DEF shutdown_effect
    <3>2. QED
      BY <1>3, <3>1 DEF TypeOK
  <2>3. QED
    BY <2>1, <2>2, CallsOnlyInEffect
<1>4. faults'["gate"] >= faults["gate"] /\ commands' >= commands
  BY Counted
<1>5. /\ faults["gate"] \in Nat /\ faults'["gate"] \in Nat /\ commands \in Nat /\ commands' \in Nat
      /\ e.n \in Nat
  <2>1. TypeOK /\ TypeOK'
    BY NextInv
  <2>2. QED
    BY <2>1 DEF TypeOK, OutboxEntry, FaultKind
<1>6. QED
  BY <1>1, <1>2, <1>3, <1>4, <1>5 DEF Known
\* What a step does to an entry: offered entries are kept or new, acknowledged
\* ones were offered and are no longer.
NoteStep(e) ==
    /\ Offered(e)' => Offered(e) \/ (Known(e)' /\ ~Known(e))
    /\ e \in acked' => e \in acked \/ (Offered(e) /\ ~Offered(e)')

\* Steps that make no entry.
LEMMA SameNotes ==
    ASSUME acked' = acked,
           \/ pc' # "save" /\ mem'.outbox \subseteq mem.outbox
           \/ pc' # "save" /\ pc = "save" /\ mem'.outbox \subseteq mem.outbox \cup job.cand.outbox
           \/ pc' = pc /\ job' = job /\ mem' = mem
           \/ mem' = mem /\ job'.cand.outbox = mem.outbox
    PROVE  \A e \in OutboxEntry : NoteStep(e)
BY DEF NoteStep, Offered

\* Steps that make the entries of E.
LEMMA AddedNotes ==
    ASSUME acked' = acked, NEW E, \A e \in E : Known(e)' /\ ~Known(e),
           \/ pc' # "save" /\ mem'.outbox \subseteq mem.outbox \cup E
           \/ mem' = mem /\ job'.cand.outbox \subseteq mem.outbox \cup E
    PROVE  \A e \in OutboxEntry : NoteStep(e)
BY DEF NoteStep, Offered

\* A commit that leaves the outbox alone.
LEMMA QuietNotes ==
    ASSUME NEW cand, NEW res, commit_authoritative_state(cand, res), cand.outbox = mem.outbox,
           acked' = acked, pc' # "save"
    PROVE  \A e \in OutboxEntry : NoteStep(e)
BY SameNotes DEF commit_authoritative_state

\* Warnings a step raises are new entries.
LEMMA NewWarnings ==
    ASSUME NEW t \in TimerId, NEW due \in SUBSET Thresholds,
           \A th \in due : warned[t][th] = 0 /\ warned'[t][th] = 1
    PROVE  \A e \in {Entry("warning", t, th) : th \in due} : Known(e)' /\ ~Known(e)
BY DEF Known, Entry

\* Commands.
LEMMA CommandNotes ==
    ASSUME IInv, TimerInv, WarnInv, Command
    PROVE  \A e \in OutboxEntry : NoteStep(e)
<1> DEFINE Goal == \A e \in OutboxEntry : NoteStep(e)
<1>1. ASSUME NEW t \in TimerId, NEW kind \in ActionKind, NEW d \in Durations, NEW res \in Result,
             handle_schedule_action(t, kind, d, res)
      PROVE  Goal
  <2> DEFINE due == creation_due_thresholds(d)
             cand == scheduled_candidate(mem, t, kind, d)
             E == {Entry("warning", t, th) : th \in due}
  <2>1. commit_authoritative_state(cand, res) /\ acked' = acked /\ pc' = pc /\ pc = "idle"
    BY <1>1 DEF handle_schedule_action, TakeCommand
  <2>2. cand.outbox = mem.outbox \cup E
    <3> HIDE DEF E
    <3>1. PersistentState = [desired : DesiredInternetState, actions : [TimerId -> ScheduledAction],
                             retry : Nat, outbox : SUBSET OutboxEntry]
      BY DEF PersistentState
    <3>2. QED
      BY <3>1 DEF scheduled_candidate, TypeOK, E
  <2> HIDE DEF cand
  <2>3. CASE res = "Ok"
    <3>1. due \in SUBSET Thresholds
      BY DEF creation_due_thresholds
    <3>2. \A th \in due : warned[t][th] = 0 /\ warned'[t][th] = 1
      BY <1>1, <2>3, <3>1, ScheduleOnce
    <3> HIDE DEF due
    <3>3. \A e \in E : Known(e)' /\ ~Known(e)
      BY <3>1, <3>2, NewWarnings
    <3> HIDE DEF E
    <3>4. QED
      BY <2>1, <2>2, <3>3, AddedNotes DEF commit_authoritative_state
  <2>4. CASE res # "Ok"
    BY <2>1, <2>4, SameNotes DEF commit_authoritative_state
  <2>5. QED
    BY <2>3, <2>4
<1>2. ASSUME NEW t \in TimerId, NEW res \in Result, handle_cancel_exact_timer(t, res) PROVE Goal
  <2> DEFINE cand == cancelled_candidate(mem, t)
  <2>1. commit_authoritative_state(cand, res) /\ acked' = acked /\ pc' = pc /\ pc = "idle"
    BY <1>2 DEF handle_cancel_exact_timer, TakeCommand
  <2>2. cand.outbox = mem.outbox
    BY DEF cancelled_candidate, TypeOK, PersistentState
  <2> HIDE DEF cand
  <2>3. QED
    BY <2>1, <2>2, QuietNotes
<1>3. ASSUME NEW res \in Result, NEW op, NEW target, commit_desired(op, target, res) PROVE Goal
  <2> DEFINE cand == [mem EXCEPT !.desired = target]
  <2>1. commit_authoritative_state(cand, res) /\ acked' = acked /\ pc' \in {"idle", "effect"}
    BY <1>3 DEF commit_desired, TakeCommand
  <2>2. cand.outbox = mem.outbox
    BY DEF TypeOK, PersistentState
  <2> HIDE DEF cand
  <2>3. QED
    BY <2>1, <2>2, QuietNotes
<1>4. ASSUME NEW x \in mem.outbox, NEW res \in Result, handle_ack_telegram(x, res) PROVE Goal
  <2> DEFINE cand == [mem EXCEPT !.outbox = @ \ {x}]
  <2>1. /\ commit_authoritative_state(cand, res) /\ pc' = pc /\ pc = "idle"
        /\ acked' = IF res = "Ok" THEN acked \cup {x} ELSE acked
    BY <1>4 DEF handle_ack_telegram, TakeCommand
  <2>2. cand.outbox = mem.outbox \ {x}
    BY DEF TypeOK, PersistentState
  <2> HIDE DEF cand
  <2>3. QED
    BY <2>1, <2>2 DEF commit_authoritative_state, NoteStep, Offered
<1>5. ASSUME NEW res \in Result, handle_send_child_message(res) PROVE Goal
  <2>x. PICK x : x = Entry("chat", None, commands')
    OBVIOUS
  <2> DEFINE cand == [mem EXCEPT !.outbox = @ \cup {x}]
  <2>1. /\ commit_authoritative_state(cand, res) /\ pc' = pc /\ pc = "idle" /\ acked' = acked
        /\ commands' = commands + 1 /\ commands \in Nat
    BY <1>5, <2>x DEF handle_send_child_message, TakeCommand, TypeOK
  <2>2. Known(x)' /\ ~Known(x)
    BY <2>1, <2>x DEF Known, Entry
  <2>3. cand.outbox = mem.outbox \cup {x}
    BY DEF TypeOK, PersistentState
  <2> HIDE DEF cand
  <2> DEFINE E == {x}
  <2>4. \A e \in E : Known(e)' /\ ~Known(e)
    BY <2>2
  <2>5. mem'.outbox \subseteq mem.outbox \cup E /\ pc' # "save"
    BY <2>1, <2>3 DEF commit_authoritative_state
  <2> HIDE DEF E
  <2>6. QED
    BY <2>1, <2>4, <2>5, AddedNotes
<1>6. ASSUME handle_subscribe_events PROVE Goal
  <2>1. acked' = acked /\ mem' = mem /\ job' = job /\ pc' = pc
    BY <1>6 DEF handle_subscribe_events, durableVars
  <2>2. QED
    BY <2>1, SameNotes
<1> HIDE DEF Goal
<1>7. ASSUME NEW res \in Result, handle_immediate_block(res) \/ handle_restore_internet(res) PROVE Goal
  BY <1>3, <1>7 DEF handle_immediate_block, handle_restore_internet
<1>8. Goal
  BY <1>1, <1>2, <1>4, <1>5, <1>6, <1>7 DEF Command
<1>9. QED
  BY <1>8 DEF Goal
\* Clock steps.
LEMMA ClockNotes ==
    ASSUME IInv, TimerInv, WarnInv, Clock
    PROVE  \A e \in OutboxEntry : NoteStep(e)
<1> DEFINE Goal == \A e \in OutboxEntry : NoteStep(e)
<1>1. ASSUME NEW t \in TimerId, tick_warning(t, "Ok") PROVE Goal
  <2> DEFINE due == crossed(t, tick.now)
             cand == warned_candidate(mem, t, due)
             E == {Entry("warning", t, th) : th \in due}
  <2>1. mem' = cand /\ acked' = acked /\ pc' = pc /\ pc = "tick"
    BY <1>1 DEF tick_warning, commit_authoritative_state
  <2>2. \A th \in due : th \in Thresholds /\ warned[t][th] = 0 /\ warned'[t][th] = 1
    BY <1>1, TickOnce
  <2> HIDE DEF due
  <2>3. cand.outbox = mem.outbox \cup E
    <3> HIDE DEF E
    <3>1. QED
      BY DEF warned_candidate, TypeOK, PersistentState, E
  <2> HIDE DEF cand
  <2>4. \A e \in E : Known(e)' /\ ~Known(e)
    BY <2>2, NewWarnings
  <2> HIDE DEF E
  <2>5. QED
    BY <2>1, <2>3, <2>4, AddedNotes
<1>2. ASSUME NEW t \in TimerId, NEW op, NEW res \in Result, execute_scheduled_deadline(t, op, res)
      PROVE  Goal
  <2> DEFINE cand == executing_candidate(mem, t)
  <2>1. commit_authoritative_state(cand, res) /\ acked' = acked /\ pc' # "save"
    BY <1>2 DEF execute_scheduled_deadline, history
  <2>2. cand.outbox = mem.outbox
    BY DEF executing_candidate, TypeOK, PersistentState
  <2> HIDE DEF cand
  <2>3. QED
    BY <2>1, <2>2, QuietNotes
<1>3. ASSUME mem' = mem, acked' = acked, pc' # "save" PROVE Goal
  BY <1>3, SameNotes
<1>4. ASSUME NEW t \in TimerId, tick_warning(t, "Err") PROVE Goal
  BY <1>3, <1>4 DEF tick_warning, commit_authoritative_state
<1> HIDE DEF Goal
<1>5. ASSUME process_clock_and_events \/ tick_stopped \/ tick_retry
             \/ \E t \in TimerId : tick_not_pending(t)
      PROVE  Goal
  BY <1>3, <1>5 DEF process_clock_and_events, tick_stopped, tick_retry, tick_not_pending,
                    durableVars, history
<1>6. ASSUME NEW t \in TimerId, NEW res \in Result,
             \/ execute_scheduled_internet_deadline(t, res)
             \/ execute_scheduled_shutdown_deadline(t, res)
      PROVE  Goal
  BY <1>2, <1>6 DEF execute_scheduled_internet_deadline, execute_scheduled_shutdown_deadline
<1>7. Goal
  BY <1>1, <1>4, <1>5, <1>6 DEF Clock, Result
<1>8. QED
  BY <1>7 DEF Goal

\* Platform calls and the save that follows, unless start fails.
LEMMA EffectNotes ==
    ASSUME IInv, TimerInv, Effect
    PROVE  (\A e \in OutboxEntry : NoteStep(e)) \/ (Ends /\ acked' = acked)
<1> DEFINE Goal == \A e \in OutboxEntry : NoteStep(e)
<1>1. ASSUME effect_stopped PROVE Goal
  <2>1. mem' = mem /\ acked' = acked /\ pc' # "save"
    BY <1>1 DEF effect_stopped, ReturnFrom, durableVars, history
  <2>2. QED
    BY <2>1, SameNotes
<1>2. ASSUME NEW op \in Op, NEW target, NEW done, NEW failing, NEW always,
             NEW res \in Result, NEW obs,
             reconcile(op, target, done, failing, always, res, obs)
      PROVE  Goal
  <2>1. /\ mem' = mem /\ acked' = acked
        /\ \/ pc' # "save"
           \/ job'.cand = (IF res = "Ok" THEN reconciled_candidate(mem, done)
                           ELSE failed_candidate(mem, failing, faults.gate + 1))
    <3>1. acked' = acked
      BY <1>2 DEF reconcile
    <3>2. QED
      BY <1>2, <3>1, ReconcileCopies
  <2>2. CASE pc' # "save"
    BY <2>1, <2>2, SameNotes
  <2>3. CASE res = "Ok" /\ job'.cand = reconciled_candidate(mem, done)
    <3>1. job'.cand.outbox = mem.outbox
      BY <2>3, ReconciledOutcome DEF reconciled_candidate, TypeOK, PersistentState
    <3>2. QED
      BY <2>1, <3>1, SameNotes
  <2>4. CASE res # "Ok" /\ job'.cand = failed_candidate(mem, failing, faults.gate + 1)
    <3> DEFINE x == Entry("gate", None, faults.gate + 1)
               E == {x}
    <3>1. job'.cand.outbox = mem.outbox \cup E
      <4> HIDE DEF x
      <4>1. QED
        BY <2>4 DEF failed_candidate, TypeOK, PersistentState, x
    <3>2. faults' = [faults EXCEPT !["gate"] = faults["gate"] + 1] /\ faults["gate"] \in Nat
      BY <1>2, <2>4 DEF reconcile, gate_call, Fault, TypeOK, FaultKind
    <3>3. faults'["gate"] = faults["gate"] + 1
      BY <3>2 DEF TypeOK, FaultKind
    <3>4. PICK y : y = x
      OBVIOUS
    <3>5. Known(y)' /\ ~Known(y)
      BY <3>2, <3>3, <3>4 DEF Known, Entry
    <3>6. PICK F : F = {y}
      OBVIOUS
    <3>7. job'.cand.outbox \subseteq mem.outbox \cup F
      BY <3>1, <3>4, <3>6
    <3>8. \A e \in F : Known(e)' /\ ~Known(e)
      BY <3>5, <3>6
    <3>9. QED
      BY <2>1, <3>7, <3>8, AddedNotes
  <2>5. QED
    BY <2>1, <2>2, <2>3, <2>4
<1>3. ASSUME NEW res \in Result, shutdown_effect(res) PROVE Goal
  <2>1. /\ mem' = mem /\ acked' = acked /\ job.timer \in TimerId /\ pc = "effect" /\ job.op = "shutdown"
        /\ calls' = [calls EXCEPT ![job.timer] = calls[job.timer] + 1]
        /\ job'.cand.outbox = (IF res = "Ok" THEN mem.outbox
                               ELSE mem.outbox \cup {Entry("power", job.timer, 0)})
    BY <1>3, ShutdownCopies DEF shutdown_effect
  <2>2. CASE res = "Ok"
    BY <2>1, <2>2, SameNotes
  <2>3. CASE res # "Ok"
    <3>1. calls[job.timer] = 0 /\ calls'[job.timer] = 1
      BY <2>1 DEF TimerInv, TypeOK
    <3>2. PICK t : t = job.timer
      OBVIOUS
    <3>3. Known(Entry("power", t, 0))' /\ ~Known(Entry("power", t, 0))
      BY <2>1, <3>1, <3>2 DEF Known, Entry
    <3>4. PICK F : F = {Entry("power", t, 0)}
      OBVIOUS
    <3>5. \A e \in F : Known(e)' /\ ~Known(e)
      BY <3>3, <3>4
    <3>6. QED
      BY <2>1, <2>3, <3>2, <3>4, <3>5, AddedNotes
  <2>4. QED
    BY <2>2, <2>3
<1>4. ASSUME NEW res \in Result, NEW delay, save_after_effect(res, delay)
      PROVE  Goal \/ (Ends /\ acked' = acked)
  <2>1. pc = "save" /\ acked' = acked
    BY <1>4 DEF save_after_effect, history
  <2>2. CASE job.op = "startup" /\ res = "Err"
    BY <1>4, <2>1, <2>2 DEF save_after_effect, save, Ends
  <2>3. CASE ~(job.op = "startup" /\ res = "Err")
    <3>1. mem' = job.cand /\ pc' # "save"
      BY <1>4, <2>3 DEF save_after_effect, commit_post_side_effect_candidate, ReturnFrom
    <3>2. QED
      BY <2>1, <3>1, SameNotes
  <2>4. QED
    BY <2>2, <2>3
<1> HIDE DEF Goal
<1>5. mem.desired \in DesiredInternetState
  BY DEF TypeOK, PersistentState
<1>6. Goal \/ (Ends /\ acked' = acked)
  BY <1>1, <1>2, <1>3, <1>4
     DEF Effect, startup_reconciliation, immediate_block_effect, restore_internet_effect,
         internet_deadline_effect, process_internet_reconciliation_retry, Op
<1>7. QED
  BY <1>6 DEF Goal
\* Startup recovery offers what was on disk and what it finds missed.
LEMMA RecoveryNotes ==
    ASSUME IInv, MissedGone, perform_startup_recovery("Ok")
    PROVE  \A e \in OutboxEntry : NoteStep(e)
<1> DEFINE E == {Entry("missed", t, 0) : t \in missed_shutdowns(disk)}
<1>1. mem'.outbox = disk.outbox \cup E /\ acked' = acked /\ pc' = "effect" /\ mem = disk
  BY DEF perform_startup_recovery, recovery_candidate, JobOK, DurabilityGap
<1>2. ASSUME NEW t \in missed_shutdowns(disk)
      PROVE  Known(Entry("missed", t, 0))' /\ ~Known(Entry("missed", t, 0))
  <2>1. t \in TimerId /\ fate'[t] = "missed"
    BY DEF perform_startup_recovery, missed_shutdowns
  <2>2. fate[t] # "missed"
    BY <2>1, RecoveredStage DEF MissedGone, TypeOK
  <2>3. QED
    BY <2>1, <2>2 DEF Known, Entry
<1>3. \A e \in E : Known(e)' /\ ~Known(e)
  BY <1>2
<1> HIDE DEF E
<1>4. QED
  BY <1>1, <1>3, AddedNotes

\* Every step.
LEMMA NextNotes ==
    ASSUME IInv, TimerInv, LagInv, WarnInv, NoteInv, [Next]_vars
    PROVE  \A e \in OutboxEntry : NoteStep(e)
<1> DEFINE Goal == \A e \in OutboxEntry : NoteStep(e)
<1>1. ASSUME Ends, acked' = acked PROVE Goal
  <2>1. mem'.outbox \subseteq mem.outbox /\ pc' # "save"
    BY <1>1 DEF Ends, Down, LagInv
  <2>2. QED
    BY <1>1, <2>1, SameNotes
<1>2. ASSUME (\E res \in Result : handle_stop(res)) \/ Crash PROVE Ends /\ acked' = acked
  BY <1>2 DEF handle_stop, Crash, flush_pending_durable_candidate, save, DurabilityGap, Ends, history
<1>3. ASSUME perform_startup_recovery("Err") PROVE Goal
  <2>1. mem' = mem /\ acked' = acked /\ pc' = pc /\ pc = "off"
    BY <1>3 DEF perform_startup_recovery
  <2>2. QED
    BY <2>1, SameNotes
<1>4. ASSUME request_stop \/ Advance \/ ClockJump \/ UNCHANGED vars PROVE Goal
  <2>1. mem' = mem /\ acked' = acked /\ pc' = pc /\ job' = job
    BY <1>4 DEF request_stop, Advance, ClockJump, vars, durableVars, history
  <2>2. QED
    BY <2>1, SameNotes
<1>5. ASSUME Command \/ Clock \/ perform_startup_recovery("Ok") PROVE Goal
  BY <1>5, CommandNotes, ClockNotes, RecoveryNotes DEF NoteInv
<1>6. ASSUME Effect PROVE Goal \/ (Ends /\ acked' = acked)
  BY <1>6, EffectNotes
<1> HIDE DEF Goal
<1>7. Goal
  BY <1>1, <1>2, <1>3, <1>4, <1>5, <1>6 DEF Next, Worker, Result
<1>8. QED
  BY <1>7 DEF Goal

\* What is offered and what was acknowledged stay known and apart.
THEOREM NoteInvariance == Spec => []NoteInv
<1>1. Init => NoteInv
  BY DEF Init, NoteInv, MissedGone, Offered
<1>2. ASSUME IInv, TimerInv, LagInv, WarnInv, NoteInv, [Next]_vars PROVE NoteInv'
  <2>1. MissedGone'
    <3>1. \A t \in TimerId : fate'[t] = "missed" => disk'.actions[t].state = "Absent"
      BY <1>2, MissedStays DEF NoteInv
    <3>2. QED
      BY <3>1 DEF MissedGone
  <2>2. ASSUME NEW e \in OutboxEntry
        PROVE  /\ Offered(e)' \/ e \in acked' => Known(e)'
               /\ ~(Offered(e)' /\ e \in acked')
    <3>1. NoteStep(e)
      BY <1>2, NextNotes
    <3>2. Known(e) => Known(e)'
      BY <1>2, KnownStays
    <3>3. QED
      BY <1>2, <3>1, <3>2 DEF NoteStep, NoteInv
  <2>3. QED
    BY <2>1, <2>2 DEF NoteInv
<1> HIDE DEF IInv
<1>3. QED
  BY <1>1, <1>2, Invariance, TimerInvariance, LagInvariance, WarnInvariance, PTL DEF Spec

\* An outbox entry is offered until it is acknowledged and never again after:
\* recovery, failed saves, kept candidates and restarts neither lose an entry
\* nor make one a second time.
THEOREM EntriesExactlyOnce == Spec => OutboxExact
<1>1. IInv /\ LagInv /\ NoteInv => AckedStaysGone
  <2> SUFFICES ASSUME IInv, LagInv, NoteInv PROVE acked \cap (disk.outbox \cup mem.outbox) = {}
    BY DEF AckedStaysGone
  <2>1. \A e \in mem.outbox : e \in OutboxEntry /\ Offered(e)
    BY DEF TypeOK, PersistentState, Offered
  <2>2. \A e \in mem.outbox : e \notin acked
    BY <2>1 DEF NoteInv
  <2>3. QED
    BY <2>2 DEF LagInv
<1> HIDE DEF IInv
<1>2. QED
  BY <1>1, Invariance, LagInvariance, NoteInvariance, NoEntryLost, PTL DEF OutboxExact
-----------------------------------------------------------------------------
(* The worker wakes only for work, as long as the wall clock is not set     *)
(* back: a startup after that would anchor an action that is not Pending.   *)

\* The wall clock is only ever set forwards.
JumpsForward == Jumps \subseteq Nat

\* The wall clock advances at least as far as the monotonic one.
LEMMA ClocksForward ==
    ASSUME TypeOK, JumpsForward, [Next]_vars
    PROVE  /\ mono' >= mono /\ utc' - utc >= mono' - mono
           /\ mono' \in Int /\ utc' \in Int
<1> DEFINE Still == mono' = mono /\ utc' = utc
<1>1. Command => Still
  BY DEF Command, TakeCommand, handle_schedule_action, handle_cancel_exact_timer,
         handle_immediate_block, handle_restore_internet, commit_desired, clockVars,
         handle_ack_telegram, handle_send_child_message, handle_subscribe_events
<1>2. Effect => Still
  <2>1. ASSUME NEW res \in Result, NEW delay, save_after_effect(res, delay) PROVE Still
    BY <2>1 DEF save_after_effect, clockVars
  <2>2. ASSUME NEW res \in Result, shutdown_effect(res) PROVE Still
    BY <2>2 DEF shutdown_effect, clockVars
  <2>3. ASSUME NEW op, NEW target, NEW done, NEW failing, NEW always, NEW res, NEW obs,
               reconcile(op, target, done, failing, always, res, obs)
        PROVE  Still
    BY <2>3 DEF reconcile, clockVars
  <2>4. effect_stopped => Still
    BY DEF effect_stopped, clockVars
  <2> HIDE DEF Still
  <2>5. QED
    BY <2>1, <2>2, <2>3, <2>4
       DEF Effect, startup_reconciliation, immediate_block_effect, restore_internet_effect,
           internet_deadline_effect, process_internet_reconciliation_retry
<1>3. Clock => Still
  BY DEF Clock, process_clock_and_events, tick_stopped, tick_retry, tick_not_pending, tick_warning,
         execute_scheduled_internet_deadline, execute_scheduled_shutdown_deadline,
         execute_scheduled_deadline, clockVars
<1>4. Still \/ Advance \/ ClockJump
  BY <1>1, <1>2, <1>3
     DEF Next, Worker, perform_startup_recovery, handle_stop, request_stop, Crash, vars, clockVars
<1>5. CASE Still
  BY <1>5 DEF TypeOK
<1>6. CASE Advance
  BY <1>6 DEF Advance, TypeOK
<1>7. CASE ClockJump
  <2>1. PICK j \in Jumps : utc' = utc + j
    BY <1>7 DEF ClockJump
  <2>2. j \in Nat /\ mono' = mono /\ mono \in Int /\ utc \in Int
    BY <1>7 DEF ClockJump, JumpsForward, TypeOK
  <2>3. QED
    BY <2>1, <2>2
<1>8. QED
  BY <1>4, <1>5, <1>6, <1>7

\* An action that began is overdue.
Begun(a, now) == a.state \in {"Executing", "Failed"} => a.deadline =< now

\* Only Pending actions are anchored, and the wall clock has not fallen behind
\* the anchor.
Behind(t) ==
    anchored(t) => /\ mem.actions[t].state = "Pending"
                   /\ mem.actions[t].deadline - utc =< anchors[t].target - mono

\* What was collected has expired.
Collected(t) ==
    t \in tick.expired => /\ pc # "off" /\ fate[t] # "unused"
                          /\ anchored(t) => anchors[t].target =< mono

Forwards(t) == Begun(disk.actions[t], utc) /\ Behind(t) /\ Collected(t)

ForwardInv == \A t \in TimerId : Forwards(t)

\* Memory has begun what state.json has begun.
LEMMA BegunMemory ==
    ASSUME IInv, LagInv, NEW t \in TimerId, Begun(disk.actions[t], utc)
    PROVE  Begun(mem.actions[t], utc)
<1>1. disk.actions[t] \in ScheduledAction /\ Outcome(disk.actions[t], mem.actions[t])
  BY DEF LagInv, TypeOK, PersistentState
<1>2. CASE mem.actions[t] = [disk.actions[t] EXCEPT !.state = "Failed"] /\ disk.actions[t].state = "Executing"
  <2>1. mem.actions[t].deadline = disk.actions[t].deadline
    BY <1>1, <1>2 DEF ScheduledAction
  <2>2. QED
    BY <1>2, <2>1 DEF Begun
<1>3. QED
  BY <1>1, <1>2, NoActionKind DEF Outcome, Begun

\* A number that grows by more than another one that grows.
LEMMA GrowsToo ==
    ASSUME NEW x \in Int, NEW y \in Int, NEW u \in Int, NEW v \in Int, y >= x, v - u >= y - x
    PROVE  v >= u
OBVIOUS

\* What the steps have in common: the types of the numbers compared, and what
\* is not unused was not, or is now.
LEMMA ForwardFacts ==
    ASSUME IInv, TimerInv, LagInv, JumpsForward, [Next]_vars, NEW t \in TimerId
    PROVE  /\ mono' >= mono /\ utc' >= utc /\ utc' - utc >= mono' - mono
           /\ mono' \in Int /\ utc' \in Int /\ mono \in Int /\ utc \in Int
           /\ anchors[t].target \in Int /\ anchors'[t].target \in Int
           /\ mem.actions[t].deadline \in Int /\ mem'.actions[t].deadline \in Int
           /\ disk.actions[t].deadline \in Int
           /\ fate'[t] = "unused" => fate[t] = "unused"
<1>1. mono' >= mono /\ utc' - utc >= mono' - mono /\ mono' \in Int /\ utc' \in Int
  BY ClocksForward
<1>2. mono \in Int /\ utc \in Int
  BY DEF TypeOK
<1>3. fate'[t] = "unused" => fate[t] = "unused"
  BY NextDisk DEF DiskStep, LifeStep
<1>4. /\ anchors[t].target \in Int /\ mem.actions[t].deadline \in Int
      /\ disk.actions[t].deadline \in Int
  BY DEF TypeOK, Anchor, PersistentState, ScheduledAction
<1>5. /\ anchors'[t].target \in Int /\ mem'.actions[t].deadline \in Int
  <2>1. TypeOK'
    BY NextInv
  <2>2. QED
    BY <2>1 DEF TypeOK, Anchor, PersistentState, ScheduledAction
<1>6. utc' >= utc
  <2> HIDE DEF IInv, TimerInv, LagInv, JumpsForward
  <2>1. PICK x \in Int, y \in Int, u \in Int, v \in Int : x = mono /\ y = mono' /\ u = utc /\ v = utc'
    BY <1>1, <1>2
  <2>2. y >= x /\ v - u >= y - x
    BY <1>1, <2>1
  <2>3. v >= u
    BY <2>2, GrowsToo
  <2>4. QED
    BY <2>1, <2>3
<1>7. QED
  BY <1>1, <1>2, <1>3, <1>4, <1>5, <1>6

\* Steps that keep the anchors.
LEMMA KeptForward ==
    ASSUME IInv, TimerInv, LagInv, AnchorInv, ForwardInv, JumpsForward, [Next]_vars,
           NEW t \in TimerId, Kept(t)
    PROVE  Forwards(t)'
<1>1. /\ mono' >= mono /\ utc' >= utc /\ utc' - utc >= mono' - mono
      /\ mono' \in Int /\ utc' \in Int /\ mono \in Int /\ utc \in Int
      /\ anchors[t].target \in Int /\ mem.actions[t].deadline \in Int
      /\ disk.actions[t].deadline \in Int
      /\ fate'[t] = "unused" => fate[t] = "unused"
  BY ForwardFacts
<1>2. Forwards(t) /\ Begun(mem.actions[t], utc) /\ AnchorOK(t)
  BY BegunMemory DEF ForwardInv, Forwards, AnchorInv
<1>3. Begun(mem'.actions[t], utc')
  <2>1. CASE mem'.actions[t].state \in {"Executing", "Failed"}
    <3>1. mem'.actions[t].deadline = mem.actions[t].deadline
      BY <2>1 DEF Kept
    <3>2. mem.actions[t].deadline =< utc
      <4>1. CASE mem.actions[t].state \in {"Executing", "Failed"}
        BY <1>2, <4>1 DEF Begun
      <4>2. CASE mem.actions[t].state = "Pending" /\ t \in tick.expired
        <5>1. anchored(t) /\ anchors[t].target =< mono
          BY <1>2, <4>2 DEF Forwards, Collected, AnchorOK
        <5>2. mem.actions[t].deadline - utc =< anchors[t].target - mono
          BY <1>2, <5>1 DEF Forwards, Behind
        <5>3. QED
          BY <1>1, <5>1, <5>2
      <4>3. QED
        BY <2>1, <4>1, <4>2 DEF Kept
    <3>3. QED
      BY <1>1, <3>1, <3>2 DEF Begun
  <2>2. QED
    BY <2>1 DEF Begun
<1>4. Begun(disk'.actions[t], utc')
  <2>1. CASE disk' = disk
    BY <1>1, <1>2, <2>1 DEF Forwards, Begun
  <2>2. CASE mem' = disk'
    BY <1>3, <2>2
  <2>3. QED
    BY <2>1, <2>2, NextCopies DEF CopyStep
<1>5. Behind(t)'
  <2>1. CASE anchors'[t] = anchors[t] /\ (mem'.actions[t].state = "Pending" <=> mem.actions[t].state = "Pending")
    <3> SUFFICES ASSUME anchored(t)'
                 PROVE  /\ mem'.actions[t].state = "Pending"
                        /\ mem'.actions[t].deadline - utc' =< anchors'[t].target - mono'
      BY DEF Behind
    <3>1. anchored(t)
      BY <2>1 DEF anchored
    <3>2. mem.actions[t].state = "Pending" /\ mem.actions[t].deadline - utc =< anchors[t].target - mono
      BY <1>2, <3>1 DEF Forwards, Behind
    <3>3. mem'.actions[t].state = "Pending" /\ mem'.actions[t].deadline = mem.actions[t].deadline
      BY <2>1, <3>2 DEF Kept
    <3>4. anchors'[t].target = anchors[t].target
      BY <2>1
    <3>5. mem.actions[t].deadline - utc' =< anchors[t].target - mono'
      BY <1>1, <3>2
    <3>6. QED
      BY <3>3, <3>4, <3>5
  <2>2. CASE anchors'[t] = NoAnchor
    BY <2>2 DEF Behind, anchored, NoAnchor
  <2>3. QED
    BY <2>1, <2>2 DEF Kept
<1>6. Collected(t)'
  <2>1. t \in tick'.expired => t \in tick.expired /\ (pc # "off" => pc' # "off")
    BY DEF Kept
  <2>2. CASE anchors'[t] = anchors[t]
    BY <1>1, <1>2, <2>1, <2>2 DEF Forwards, Collected, anchored
  <2>3. CASE anchors'[t] = NoAnchor
    BY <1>1, <1>2, <2>1, <2>3 DEF Forwards, Collected, anchored, NoAnchor
  <2>4. QED
    BY <2>2, <2>3 DEF Kept
<1>7. QED
  BY <1>4, <1>5, <1>6 DEF Forwards
\* A new timer: its deadline is as far on both clocks.
LEMMA ScheduleForward ==
    ASSUME IInv, TimerInv, LagInv, ForwardInv, JumpsForward, [Next]_vars,
           NEW t \in TimerId, NEW kind \in ActionKind, NEW d \in Durations,
           handle_schedule_action(t, kind, d, "Ok")
    PROVE  ForwardInv'
<1> DEFINE cand == scheduled_candidate(mem, t, kind, d)
           a == [start |-> mono, target |-> mono + d * MsPerSec, dur |-> d, last |-> d]
<1>1. /\ mem' = cand /\ disk' = cand /\ anchors' = [anchors EXCEPT ![t] = a] /\ tick' = tick
      /\ pc' = pc /\ pc = "idle" /\ mono' = mono /\ utc' = utc /\ fate[t] = "unused"
  BY DEF handle_schedule_action, TakeCommand, commit_authoritative_state, save, clockVars
<1>2. /\ cand.actions[t].state = "Pending" /\ cand.actions[t].deadline = utc + d * MsPerSec
      /\ \A u \in TimerId \ {t} : cand.actions[u] = mem.actions[u]
  BY DEF scheduled_candidate, TypeOK, PersistentState
<1>3. /\ d * MsPerSec \in Int /\ mono \in Int /\ utc \in Int
  <2>1. d \in Nat /\ MsPerSec \in Nat
    BY CoreAssumption, RuntimeAssumption DEF CoreAssumption, RuntimeAssumption
  <2>2. QED
    BY <2>1 DEF TypeOK
<1>4. cand.actions[t].deadline - utc =< a.target - mono
  <2>1. a.target = mono + d * MsPerSec
    OBVIOUS
  <2> DEFINE x == d * MsPerSec
  <2>2. x \in Int /\ a.target = mono + x /\ cand.actions[t].deadline = utc + x
    BY <1>2, <1>3, <2>1
  <2> HIDE DEF x, a, cand
  <2>3. QED
    BY <1>3, <2>2
<1> HIDE DEF cand, a
<1>5. ASSUME NEW u \in TimerId PROVE Forwards(u)'
  <2>1. Forwards(u) /\ Begun(mem.actions[u], utc)
    BY BegunMemory DEF ForwardInv, Forwards
  <2>2. fate'[u] = "unused" => fate[u] = "unused"
    BY ForwardFacts
  <2>3. CASE u = t
    <3>1. anchors'[u] = a /\ u \notin tick'.expired
      BY <1>1, <2>1, <2>3 DEF TypeOK, Forwards, Collected
    <3>2. QED
      BY <1>1, <1>2, <1>4, <2>3, <3>1 DEF Forwards, Begun, Behind, Collected
  <2>4. CASE u # t
    <3>1. anchors'[u] = anchors[u] /\ mem'.actions[u] = mem.actions[u] /\ disk'.actions[u] = mem.actions[u]
      BY <1>1, <1>2, <2>4 DEF TypeOK
    <3>2. QED
      BY <1>1, <2>1, <2>2, <3>1 DEF Forwards, Behind, Collected, anchored
  <2>5. QED
    BY <2>3, <2>4
<1>6. QED
  BY <1>5 DEF ForwardInv

\* The collection takes what has expired.
LEMMA ProcessForward ==
    ASSUME IInv, TimerInv, ForwardInv, process_clock_and_events
    PROVE  ForwardInv'
<1>1. /\ mem' = mem /\ disk' = disk /\ pc' = "tick" /\ mono' = mono /\ utc' = utc /\ fate' = fate
      /\ tick'.expired = {t \in TimerId : expired(t, mono)}
  BY DEF process_clock_and_events, durableVars, clockVars, history
<1>2. ASSUME NEW t \in TimerId PROVE Forwards(t)'
  <2>1. Forwards(t) /\ anchors[t] \in Anchor
    BY DEF ForwardInv, TypeOK
  <2>2. anchors'[t].dur = anchors[t].dur /\ anchors'[t].target = anchors[t].target
    <3> DEFINE b == [anchors[t] EXCEPT !.last = current_remaining(t, mono)]
    <3>1. anchors'[t] \in {anchors[t], b}
      BY DEF process_clock_and_events
    <3>2. b.dur = anchors[t].dur /\ b.target = anchors[t].target
      BY <2>1 DEF Anchor
    <3> HIDE DEF b
    <3>3. QED
      BY <3>1, <3>2
  <2>3. t \in tick'.expired => fate[t] # "unused" /\ anchors[t].target =< mono
    <3>1. anchored(t) => fate[t] # "unused"
      BY DEF TimerInv, anchored, NoAnchor
    <3>2. anchors[t].target \in Int /\ mono \in Int
      BY <2>1 DEF Anchor, TypeOK
    <3>3. QED
      BY <1>1, <3>1, <3>2 DEF expired
  <2>4. QED
    BY <1>1, <2>1, <2>2, <2>3 DEF Forwards, Behind, Collected, anchored
<1>3. QED
  BY <1>2 DEF ForwardInv

\* A warning moves the cursor only.
LEMMA WarningForward ==
    ASSUME IInv, LagInv, ForwardInv, NEW t \in TimerId, tick_warning(t, "Ok")
    PROVE  ForwardInv'
<1> DEFINE due == crossed(t, tick.now)
           cand == warned_candidate(mem, t, due)
           cur == current_remaining(t, tick.now)
<1>1. /\ mem' = cand /\ disk' = cand /\ anchors' = [anchors EXCEPT ![t].last = cur] /\ pc' = pc
      /\ tick' = [tick EXCEPT !.warn = @ \ {t}]
      /\ mono' = mono /\ utc' = utc /\ fate' = fate
  BY DEF tick_warning, commit_authoritative_state, save, clockVars
<1>2. tick'.expired = tick.expired
  BY <1>1 DEF TypeOK, Tick
<1> HIDE DEF due, cur
<1>3. \A u \in TimerId : /\ cand.actions[u].state = mem.actions[u].state
                         /\ cand.actions[u].deadline = mem.actions[u].deadline
  BY DEF warned_candidate, TypeOK, PersistentState, ScheduledAction
<1>4. \A u \in TimerId : anchors'[u].dur = anchors[u].dur /\ anchors'[u].target = anchors[u].target
  BY <1>1 DEF TypeOK, Anchor
<1> HIDE DEF cand
<1>5. ASSUME NEW u \in TimerId PROVE Forwards(u)'
  <2>1. Forwards(u) /\ Begun(mem.actions[u], utc)
    BY BegunMemory DEF ForwardInv, Forwards
  <2>2. QED
    BY <1>1, <1>2, <1>3, <1>4, <2>1 DEF Forwards, Begun, Behind, Collected, anchored
<1>6. QED
  BY <1>5 DEF ForwardInv

\* Startup anchors what is ahead, and only a Pending action is: the others
\* began when their deadline had come.
LEMMA RecoveryForward ==
    ASSUME IInv, ForwardInv, perform_startup_recovery("Ok")
    PROVE  ForwardInv'
<1> DEFINE cand == recovery_candidate(disk)
<1>1. /\ mem' = cand /\ disk' = cand /\ anchors' = recovered_anchors(disk) /\ pc = "off" /\ tick' = tick
      /\ mono' = mono /\ utc' = utc
  BY DEF perform_startup_recovery, save, clockVars
<1>2. \A t \in TimerId : cand.actions[t] = recovered_action(disk, t)
  BY DEF recovery_candidate
<1> HIDE DEF cand
<1>3. ASSUME NEW t \in TimerId PROVE Forwards(t)'
  <2> DEFINE s == disk.actions[t]
             delta == s.deadline - utc
             r == recovered_action(disk, t)
             b == [s EXCEPT !.emitted = @ \cup recovery_passed_thresholds(remaining(disk, t), @)]
             x == [s EXCEPT !.state = "Executing"]
  <2>1. Forwards(t) /\ s \in ScheduledAction /\ delta \in Int /\ s.deadline \in Int /\ utc \in Int /\ mono \in Int
    BY DEF ForwardInv, TypeOK, PersistentState, ScheduledAction
  <2>2. t \notin tick'.expired
    BY <1>1, <2>1 DEF Forwards, Collected
  <2>3. remaining(disk, t) = remaining_seconds_from_delta_ms(delta)
    BY DEF remaining
  <2>4. ~deadline_is_due(remaining(disk, t)) <=> delta > 0
    BY <2>1, <2>3, RemainingFuture
  <2>5. /\ b.state = s.state /\ b.deadline = s.deadline /\ x.deadline = s.deadline
    BY <2>1 DEF ScheduledAction
  <2> HIDE DEF s, delta, b, x
  <2>6. CASE future(disk, t)
    <3>1. s.state # "Absent" /\ delta > 0
      BY <2>4, <2>6 DEF future, s
    <3>2. s.state = "Pending"
      BY <2>1, <3>1 DEF Forwards, Begun, ScheduledAction, StoredState, s, delta
    <3>3. r = b
      BY <2>6 DEF recovered_action, future, missed_shutdowns, recovered_overdue_block_ids, overdue, b, s
    <3>4. anchors'[t].target = mono + delta
      BY <1>1, <2>6 DEF recovered_anchors, delta, s
    <3>5. mem'.actions[t].state = "Pending" /\ mem'.actions[t].deadline - utc =< anchors'[t].target - mono
      <4>1. mem'.actions[t] = b
        BY <1>1, <1>2, <3>3
      <4>2. s.deadline - utc =< (mono + delta) - mono
        BY <2>1 DEF delta
      <4>3. QED
        BY <2>5, <3>2, <3>4, <4>1, <4>2
    <3>6. QED
      BY <1>1, <2>2, <3>5 DEF Forwards, Begun, Behind, Collected
  <2>7. CASE ~future(disk, t)
    <3>1. anchors'[t] = NoAnchor
      BY <1>1, <2>7 DEF recovered_anchors
    <3>2. s.state # "Absent" => s.deadline =< utc
      <4>1. s.state # "Absent" => ~(delta > 0)
        BY <2>4, <2>7 DEF future, s
      <4>2. QED
        BY <2>1, <4>1 DEF delta
    <3>3. r \in {NoAction, s} \/ (s.state # "Absent" /\ r = x)
      <4>1. /\ t \in missed_shutdowns(disk) => t \notin recovered_overdue_block_ids(disk)
            /\ t \in recovered_overdue_block_ids(disk) => /\ t \notin missed_shutdowns(disk)
                                                         /\ s.state # "Absent"
        BY DEF missed_shutdowns, recovered_overdue_block_ids, overdue, s
      <4>2. QED
        BY <2>7, <4>1 DEF recovered_action, s, x
    <3> HIDE DEF r
    <3>4. Begun(r, utc)
      BY <2>5, <3>2, <3>3, NoActionKind DEF Begun, StoredState, ScheduledAction
    <3>5. mem'.actions[t] = r /\ disk'.actions[t] = r
      BY <1>1, <1>2 DEF r
    <3>6. QED
      BY <1>1, <2>2, <3>1, <3>4, <3>5 DEF Forwards, Behind, Collected, anchored, NoAnchor
  <2>8. QED
    BY <2>6, <2>7
<1>4. QED
  BY <1>3 DEF ForwardInv

\* Every step preserves the invariant.
LEMMA NextForward ==
    ASSUME IInv, TimerInv, LagInv, AnchorInv, ForwardInv, JumpsForward, [Next]_vars
    PROVE  ForwardInv'
<1>1. CASE \A t \in TimerId : Kept(t)
  BY <1>1, KeptForward DEF ForwardInv
<1>2. CASE Ends
  <2>1. ASSUME NEW t \in TimerId PROVE Forwards(t)'
    <3>1. /\ anchors'[t] = NoAnchor /\ t \notin tick'.expired /\ disk' \in {disk, mem}
      BY <1>2 DEF Ends, Down, NoTick
    <3>2. Begun(disk.actions[t], utc) /\ Begun(mem.actions[t], utc)
      BY BegunMemory DEF ForwardInv, Forwards
    <3>3. /\ utc' >= utc /\ utc \in Int /\ utc' \in Int
          /\ disk.actions[t].deadline \in Int /\ mem.actions[t].deadline \in Int
      BY ForwardFacts
    <3>4. Begun(disk'.actions[t], utc')
      BY <3>1, <3>2, <3>3 DEF Begun
    <3>5. QED
      BY <3>1, <3>4 DEF Forwards, Behind, Collected, anchored, NoAnchor
  <2>2. QED
    BY <2>1 DEF ForwardInv
<1>3. QED
  BY <1>1, <1>2, NextKept, ScheduleForward, ProcessForward, WarningForward, RecoveryForward

\* While the wall clock is only set forwards, anchors are for Pending actions.
LEMMA ForwardInvariance ==
    ASSUME JumpsForward
    PROVE  Spec => []ForwardInv
<1>1. Init => ForwardInv
  BY NoActionKind DEF Init, ForwardInv, Forwards, Begun, Behind, Collected, anchored, NoAnchor, NoTick
<1> HIDE DEF IInv, JumpsForward
<1>2. IInv /\ TimerInv /\ LagInv /\ AnchorInv /\ ForwardInv /\ [Next]_vars => ForwardInv'
  BY NextForward
<1>3. QED
  BY <1>1, <1>2, Invariance, TimerInvariance, LagInvariance, AnchorInvariance, PTL DEF Spec

\* An instant that has come is a warning to record or a deadline to execute.
LEMMA WakeIsWork ==
    ASSUME IInv, AnchorInv, ForwardInv
    PROVE  WakeHasWork
<1> SUFFICES ASSUME wake_due, ~retry_due(mono)
             PROVE  \/ \E t \in TimerId : crossed(t, mono) # {}
                    \/ \E t \in TimerId : expired(t, mono) /\ mem.actions[t].state = "Pending"
  BY DEF WakeHasWork
<1>1. PICK t \in TimerId : anchored(t) /\ \E i \in wake_instants(t) : i =< mono
  BY DEF wake_due
<1>2. PICK i \in wake_instants(t) : i =< mono
  BY <1>1
<1>3. mem.actions[t].state = "Pending" /\ AnchorOK(t) /\ mono \in Nat
  BY <1>1 DEF ForwardInv, Forwards, Behind, AnchorInv, TypeOK
<1>4. CASE expired(t, mono)
  BY <1>3, <1>4
<1>5. CASE ~expired(t, mono)
  <2>1. i # anchors[t].target
    <3>1. anchors[t].target \in Int
      BY DEF TypeOK, Anchor
    <3>2. QED
      BY <1>1, <1>2, <1>3, <1>5, <3>1 DEF expired
  <2>2. PICK th \in Thresholds : /\ mem.actions[t].state # "Absent" /\ anchors[t].dur > th
                                 /\ th \notin mem.actions[t].emitted
                                 /\ i = anchors[t].start + (anchors[t].dur - th) * MsPerSec
    BY <1>2, <2>1 DEF wake_instants
  <2>3. th \in Int
    BY CoreAssumption DEF CoreAssumption
  <2>4. current_remaining(t, mono) =< th
    BY <1>2, <1>3, <2>2, <2>3, RemainingInstant
  <2>5. current_remaining(t, mono) > 0
    BY <1>1, <1>3, <1>5, SecondsRemain DEF AnchorOK
  <2>6. anchors[t].last > th
    BY <1>3, <2>2 DEF AnchorOK, Ahead
  <2>7. th \in crossed(t, mono)
    BY <1>1, <1>5, <2>2, <2>4, <2>5, <2>6 DEF crossed, crossed_warning_thresholds
  <2>8. QED
    BY <2>7
<1>6. QED
  BY <1>4, <1>5

\* While the wall clock is only set forwards, the worker wakes for every
\* pending action and never without work (no busy loop).
THEOREM WakesExactly ==
    ASSUME JumpsForward
    PROVE  Spec => []TimersArmed
<1>1. IInv /\ AnchorInv /\ ForwardInv => WakeHasWork
  BY WakeIsWork
<1> HIDE DEF IInv, JumpsForward
<1>2. QED
  BY <1>1, Invariance, AnchorInvariance, EveryPendingAnchored, ForwardInvariance, PTL DEF TimersArmed
=============================================================================
