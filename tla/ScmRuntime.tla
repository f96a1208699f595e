----------------------------- MODULE ScmRuntime -----------------------------
(***************************************************************************)
(* The service process under the Windows SCM: the dispatcher, ServiceMain  *)
(* and the control handler (scm_runtime.rs), and the orchestration that    *)
(* ServiceMain runs (service_integration.rs, main.rs).  Three threads act: *)
(* the dispatcher's (controls arrive on it, and main returns on it),       *)
(* ServiceMain's, and the runtime's worker, which is one bit here and is   *)
(* StopProtocol's subject.  SetServiceStatus may fail at every call.       *)
(***************************************************************************)
EXTENDS Naturals, Sequences

CONSTANTS PortMayFail,  \* wait_for_control may fail (a port of the orchestration may)
          Poison        \* the worker may panic inside a platform call
ASSUME ScmAssumption == {PortMayFail, Poison} \subseteq BOOLEAN

NO_ERROR == 0
ERROR_EXCEPTION_IN_SERVICE == 1064
Control == {"Stop", "Shutdown", "Interrogate"}
ScmServiceState == {"Unreported", "StartPending", "Running", "StopPending", "Stopped"}

VARIABLES
    dispatcher,      \* "outside", "dispatching", "returned", "exited", "aborted"
    main_pc,         \* of ServiceMain
    lifecycle,       \* ScmLifecycleStateMachine: [state, checkpoint]
    scm,             \* what the SCM was told last: [state, checkpoint, exit]
    delivering,      \* the control the SCM is delivering
    control_queue,   \* sync_channel(1)
    fallback,        \* ACTIVE_FALLBACK is installed
    stopped_reported,
    runtime,         \* "none", "running", "poisoned", "stopped", "failed"
    panicked,        \* the entry unwound
    failed,          \* the orchestration returned an error
    service_result,  \* SERVICE_RESULT
    returned,        \* what run_palka_service_dispatcher returned
    accepted,        \* the handler said NO_ERROR to a stop or shutdown control
    stops            \* successful STOPPED publications
host == <<dispatcher, returned>>
control == <<delivering, control_queue, accepted>>
status == <<lifecycle, scm, stopped_reported, stops>>
scm_vars == <<dispatcher, main_pc, lifecycle, scm, delivering, control_queue, fallback, stopped_reported, runtime,
              panicked, failed, service_result, returned, accepted, stops>>

ScmInit ==
    /\ dispatcher = "outside" /\ main_pc = "idle"
    /\ lifecycle = [state |-> "Unreported", checkpoint |-> 0]
    /\ scm = [state |-> "Unreported", checkpoint |-> 0, exit |-> 0]
    /\ delivering = "none" /\ control_queue = <<>> /\ fallback = FALSE /\ stopped_reported = FALSE
    /\ runtime = "none" /\ panicked = FALSE /\ failed = FALSE
    /\ service_result = "None" /\ returned = "none" /\ accepted = FALSE /\ stops = 0

(* What ServiceMain is about to write to SERVICE_RESULT.                   *)
Verdict == {"Ok", "ServiceEntryPanicked", "ServiceEntryReturnedBeforeStopped"}
(* The entry is gone, and its receiver with it.                            *)
EntryGone == {"log", "guard", "trampoline", "done"} \cup Verdict
Live == dispatcher \in {"dispatching", "returned"}
main_at(p) == Live /\ main_pc = p

-----------------------------------------------------------------------------
(* The lifecycle state machine: the transitions it plans.                  *)
plan_start_pending(checkpoint) ==
    /\ checkpoint > 0
    /\ \/ lifecycle.state = "Unreported"
       \/ lifecycle.state = "StartPending" /\ checkpoint > lifecycle.checkpoint
plan_running == lifecycle.state = "StartPending"
plan_stop_pending(checkpoint) ==
    /\ checkpoint > 0
    /\ \/ lifecycle.state = "Running"
       \/ lifecycle.state = "StopPending" /\ checkpoint > lifecycle.checkpoint
plan_stopped(code) ==
    lifecycle.state = "StopPending" \/ (lifecycle.state = "StartPending" /\ code # 0)

(* StatusSink::publish succeeds: SetServiceStatus took the status.         *)
publish(s) ==
    /\ scm' = s
    /\ stopped_reported' = (stopped_reported \/ s.state = "Stopped")
    /\ stops' = IF s.state = "Stopped" THEN stops + 1 ELSE stops

(* report_*: the candidate state is committed only if it was legal and     *)
(* published; `ok' and `err' are where ServiceMain goes on.                *)
report(plan, s, ok, err) ==
    \/ plan /\ publish(s) /\ lifecycle' = [state |-> s.state, checkpoint |-> s.checkpoint]
            /\ main_pc' = ok /\ UNCHANGED failed
    \/ main_pc' = err /\ failed' = TRUE /\ UNCHANGED status
start_pending(n) == [state |-> "StartPending", checkpoint |-> n, exit |-> 0]
running == [state |-> "Running", checkpoint |-> 0, exit |-> 0]
stop_pending(n) == [state |-> "StopPending", checkpoint |-> n, exit |-> 0]
stopped(code) == [state |-> "Stopped", checkpoint |-> 0, exit |-> code]

-----------------------------------------------------------------------------
(* run_palka_service_dispatcher, up to the call that blocks.  The system   *)
(* refuses, or it starts ServiceMain on a thread of its own.               *)
run_palka_service_dispatcher ==
    /\ dispatcher = "outside" /\ service_result' = "None"
    /\ \/ dispatcher' = "returned" /\ returned' = "WindowsApi" /\ UNCHANGED main_pc
       \/ dispatcher' = "dispatching" /\ main_pc' = "register" /\ UNCHANGED returned
    /\ UNCHANGED <<control, status, fallback, runtime, panicked, failed>>

(* StartServiceCtrlDispatcherW returns once the service is STOPPED, which  *)
(* is not when ServiceMain has returned; a ServiceMain that returned       *)
(* without reporting STOPPED is given up on.  The guard clears the cells.  *)
dispatcher_returns ==
    /\ dispatcher = "dispatching" /\ (scm.state = "Stopped" \/ main_pc = "done")
    /\ dispatcher' = "returned" /\ fallback' = FALSE /\ delivering' = "none"
    /\ returned' = IF service_result = "None" THEN "InternalBridgeError" ELSE service_result
    /\ service_result' = "None"
    /\ UNCHANGED <<main_pc, status, control_queue, accepted, runtime, panicked, failed>>

(* main returns what the dispatcher returned; every other thread ends.     *)
main_exits ==
    /\ dispatcher = "returned" /\ dispatcher' = "exited"
    /\ UNCHANGED <<main_pc, status, control, fallback, runtime, panicked, failed, service_result, returned>>

-----------------------------------------------------------------------------
(* The SCM checks a control against the last status and delivers it; the   *)
(* status may change before the handler runs.                              *)
scm_sends(c) ==
    /\ dispatcher = "dispatching" /\ delivering = "none"
    /\ main_pc \notin {"idle", "register", "done"}
    /\ c = "Interrogate" \/ scm.state = "Running"
    /\ delivering' = c
    /\ UNCHANGED <<host, main_pc, status, control_queue, accepted, fallback, runtime, panicked, failed, service_result>>

(* service_control_handler.  try_send never blocks: a control that finds   *)
(* the channel full, or the receiver gone, is dropped and answered NO_ERROR.*)
Delivered(c) == c \in {"Stop", "Shutdown"}
MutRendezvous(c) == IF Delivered(c) /\ control_queue = <<>> /\ main_pc = "wait" THEN <<c>> ELSE control_queue
try_send(c) == IF Delivered(c) /\ control_queue = <<>> /\ main_pc \notin EntryGone THEN <<c>> ELSE control_queue
service_control_handler ==
    /\ dispatcher = "dispatching" /\ delivering # "none"
    /\ control_queue' = try_send(delivering)
    /\ accepted' = (accepted \/ Delivered(delivering)) /\ delivering' = "none"
    /\ UNCHANGED <<host, main_pc, status, fallback, runtime, panicked, failed, service_result>>

-----------------------------------------------------------------------------
(* service_main_inner: the handler is registered, the fallback installed.  *)
service_main_registers ==
    /\ main_at("register")
    /\ \/ main_pc' = "done" /\ service_result' = "WindowsApi" /\ UNCHANGED fallback
       \/ main_pc' = "install" /\ UNCHANGED <<fallback, service_result>>
    /\ UNCHANGED <<host, control, status, runtime, panicked, failed>>

service_main_installs ==
    /\ main_at("install")
    /\ fallback' = TRUE /\ main_pc' = "start_pending_1"
    /\ UNCHANGED <<host, control, status, runtime, panicked, failed, service_result>>

(* A panic of service_main_inner outside the entry reaches the trampoline. *)
service_main_panics ==
    /\ main_pc \in {"register", "install"} \cup Verdict /\ Live
    /\ main_pc' = "trampoline" /\ panicked' = TRUE
    /\ UNCHANGED <<host, control, status, fallback, runtime, failed, service_result>>

-----------------------------------------------------------------------------
(* run_service_with_ports, phase by phase.                                 *)
phase_1 ==
    /\ main_at("start_pending_1")
    /\ report(plan_start_pending(1), start_pending(1), "bootstrap", "leave")
    /\ UNCHANGED <<host, control, fallback, runtime, panicked, service_result>>
phase_2 ==
    /\ main_at("bootstrap") /\ main_pc' \in {"start_pending_2", "startup_failed"}
    /\ UNCHANGED <<host, control, status, fallback, runtime, panicked, failed, service_result>>
phase_3 ==
    /\ main_at("start_pending_2")
    /\ report(plan_start_pending(2), start_pending(2), "start_runtime", "leave")
    /\ UNCHANGED <<host, control, fallback, runtime, panicked, service_result>>
phase_4 ==
    /\ main_at("start_runtime")
    /\ \/ main_pc' = "running" /\ runtime' = "running"
       \/ main_pc' = "startup_failed" /\ UNCHANGED runtime
    /\ UNCHANGED <<host, control, status, fallback, panicked, failed, service_result>>
startup_failed ==
    /\ main_at("startup_failed")
    /\ \/ /\ plan_stopped(ERROR_EXCEPTION_IN_SERVICE)
          /\ publish(stopped(ERROR_EXCEPTION_IN_SERVICE))
          /\ lifecycle' = [state |-> "Stopped", checkpoint |-> 0]
       \/ UNCHANGED status
    /\ main_pc' = "leave" /\ failed' = TRUE
    /\ UNCHANGED <<host, control, fallback, runtime, panicked, service_result>>
phase_6 ==
    /\ main_at("running")
    /\ report(plan_running, running, "call_recv", "leave")
    /\ UNCHANGED <<host, control, fallback, runtime, panicked, service_result>>
(* The SCM may deliver a control from here on, before recv is called.      *)
phase_7 ==
    /\ main_at("call_recv") /\ main_pc' = "wait"
    /\ UNCHANGED <<host, control, status, fallback, runtime, panicked, failed, service_result>>
wait_for_control ==
    /\ main_at("wait") /\ control_queue # <<>> /\ control_queue' = <<>> /\ main_pc' = "stop_pending"
    /\ UNCHANGED <<host, delivering, accepted, status, fallback, runtime, panicked, failed, service_result>>
control_channel_closes ==
    /\ main_at("wait") /\ PortMayFail /\ main_pc' = "control_lost" /\ failed' = TRUE
    /\ UNCHANGED <<host, control, status, fallback, runtime, panicked, service_result>>
(* A lost channel stops the runtime even if STOP_PENDING was not published.*)
control_lost ==
    /\ main_at("control_lost")
    /\ report(plan_stop_pending(1), stop_pending(1), "stopping", "stopping_unreported")
    /\ UNCHANGED <<host, control, fallback, runtime, panicked, service_result>>
phase_8 ==
    /\ main_at("stop_pending")
    /\ report(plan_stop_pending(1), stop_pending(1), "stopping", "leave")
    /\ UNCHANGED <<host, control, fallback, runtime, panicked, service_result>>

(* runtime.stop(): Ok, an error after the join, or (the effect gate is     *)
(* poisoned) a panic, and Drop panics while that unwinds: abort.           *)
runtime_stop ==
    /\ main_pc \in {"stopping", "stopping_unreported"} /\ Live
    /\ \/ runtime = "poisoned" /\ dispatcher' = "aborted" /\ UNCHANGED <<main_pc, runtime>>
       \/ /\ runtime = "running"
          /\ runtime' \in {"stopped", "failed"}
          /\ main_pc' = IF main_pc = "stopping" THEN "report_stopped" ELSE "leave"
          /\ UNCHANGED dispatcher
    /\ UNCHANGED <<returned, control, status, fallback, panicked, failed, service_result>>

(* Phase 10: 0 only for a graceful stop.                                   *)
exit_code == IF runtime = "stopped" /\ ~failed THEN NO_ERROR ELSE ERROR_EXCEPTION_IN_SERVICE
phase_10 ==
    /\ main_at("report_stopped")
    /\ \/ /\ plan_stopped(exit_code) /\ publish(stopped(exit_code))
          /\ lifecycle' = [state |-> "Stopped", checkpoint |-> 0]
          /\ failed' = (failed \/ exit_code # NO_ERROR)
       \/ failed' = TRUE /\ UNCHANGED status
    /\ main_pc' = "leave"
    /\ UNCHANGED <<host, control, fallback, runtime, panicked, service_result>>

(* The orchestration returns: the runtime is dropped, and Drop stops it.   *)
(* Dropping a poisoned one panics.                                         *)
MutForgets == runtime
dropped_runtime == IF runtime \in {"running", "poisoned"} THEN "stopped" ELSE runtime
leave ==
    /\ main_at("leave")
    /\ runtime' = dropped_runtime /\ control_queue' = <<>>
    /\ panicked' = (panicked \/ runtime = "poisoned")
    /\ main_pc' = IF failed /\ ~panicked' THEN "log" ELSE "guard"
    /\ UNCHANGED <<host, delivering, accepted, status, fallback, failed, service_result>>

(* palka_service_entry logs an error; eprintln! panics if stderr fails.    *)
palka_service_entry_logs ==
    /\ main_at("log") /\ main_pc' = "guard" /\ panicked' \in BOOLEAN
    /\ UNCHANGED <<host, control, status, fallback, runtime, failed, service_result>>

(* Bootstrap and the runtime's construction may panic: nothing is alive    *)
(* that Drop would have to stop.                                           *)
entry_panics ==
    /\ main_pc \in {"bootstrap", "start_runtime"} /\ Live
    /\ main_pc' = "guard" /\ panicked' = TRUE
    /\ UNCHANGED <<host, control, status, fallback, runtime, failed, service_result>>

worker_panics ==
    /\ Poison /\ runtime = "running" /\ Live /\ runtime' = "poisoned"
    /\ UNCHANGED <<host, main_pc, control, status, fallback, panicked, failed, service_result>>

-----------------------------------------------------------------------------
(* execute_panic_fallback: STOPPED(1064) unless STOPPED was reported.      *)
execute_panic_fallback ==
    \/ ~stopped_reported /\ publish(stopped(ERROR_EXCEPTION_IN_SERVICE)) /\ UNCHANGED lifecycle
    \/ UNCHANGED status

(* The tail of service_main_inner: the fallback, then the result cell.     *)
entry_result ==
    IF panicked THEN "ServiceEntryPanicked"
    ELSE IF stopped_reported THEN "Ok" ELSE "ServiceEntryReturnedBeforeStopped"
entry_return_guard ==
    /\ main_at("guard") /\ main_pc' = entry_result
    /\ IF panicked \/ ~stopped_reported THEN execute_panic_fallback ELSE UNCHANGED status
    /\ UNCHANGED <<host, control, fallback, runtime, panicked, failed, service_result>>
record_result ==
    /\ main_pc \in Verdict /\ Live /\ main_pc' = "done" /\ service_result' = main_pc
    /\ UNCHANGED <<host, control, status, fallback, runtime, panicked, failed>>
service_main_trampoline ==
    /\ main_at("trampoline") /\ main_pc' = "done" /\ service_result' = "ServiceEntryPanicked"
    /\ IF fallback THEN execute_panic_fallback ELSE UNCHANGED status
    /\ UNCHANGED <<host, control, fallback, runtime, panicked, failed>>

ServiceMain ==
    \/ service_main_registers \/ service_main_installs
    \/ phase_1 \/ phase_2 \/ phase_3 \/ phase_4 \/ startup_failed \/ phase_6
    \/ phase_7 \/ wait_for_control \/ control_lost \/ phase_8 \/ runtime_stop \/ phase_10
    \/ leave \/ palka_service_entry_logs \/ entry_return_guard \/ record_result
    \/ service_main_trampoline
Dispatcher == run_palka_service_dispatcher \/ dispatcher_returns \/ main_exits
Ended == dispatcher \in {"exited", "aborted"} /\ UNCHANGED scm_vars
ScmNext ==
    \/ Dispatcher \/ service_control_handler \/ ServiceMain
    \/ \E c \in Control : scm_sends(c)
    \/ service_main_panics \/ entry_panics \/ worker_panics \/ control_channel_closes
    \/ Ended

(* Threads are scheduled: each of them that can go on does.  A panic, a    *)
(* control and the return of the dispatcher are not promised.              *)
ScmFairness == WF_scm_vars(ServiceMain) /\ WF_scm_vars(service_control_handler)
ScmSpec == ScmInit /\ [][ScmNext]_scm_vars /\ ScmFairness

-----------------------------------------------------------------------------
ScmTypeOK ==
    /\ dispatcher \in {"outside", "dispatching", "returned", "exited", "aborted"}
    /\ lifecycle \in [state : ScmServiceState, checkpoint : 0..2]
    /\ scm \in [state : ScmServiceState, checkpoint : 0..2, exit : {0, ERROR_EXCEPTION_IN_SERVICE}]
    /\ delivering \in Control \cup {"none"} /\ Len(control_queue) <= 1
    /\ runtime \in {"none", "running", "poisoned", "stopped", "failed"}
    /\ {fallback, stopped_reported, panicked, failed, accepted} \subseteq BOOLEAN
    /\ stops \in Nat

(* However failed publications, panics and the early-return guard combine, *)
(* the SCM is told STOPPED at most once (017, EXE-14).                     *)
StoppedOnce == stops <= 1

(* STOPPED is only said when no worker of the runtime is left to act: the  *)
(* fallbacks of scm_runtime.rs never overtake the runtime's teardown.      *)
StoppedMeansQuiet == scm.state = "Stopped" => runtime \notin {"running", "poisoned"}

(* Exit code 0 tells the SCM not to restart the service: it takes an       *)
(* accepted control and a teardown that succeeded.                         *)
CleanExitEarned ==
    scm.state = "Stopped" /\ scm.exit = NO_ERROR => accepted /\ runtime = "stopped"

(* What the lifecycle state machine believes is what the SCM was told,     *)
(* until a fallback speaks past it.                                        *)
LocalViewCurrent ==
    lifecycle.state # scm.state => scm = stopped(ERROR_EXCEPTION_IN_SERVICE) /\ main_pc \in EntryGone

(* run_palka_service_dispatcher returns Ok only if the entry itself        *)
(* reported STOPPED and came back.                                         *)
OkIsConfirmed == returned = "Ok" => lifecycle.state = "Stopped" /\ ~panicked

(* What the SCM and the caller of the dispatcher are told is what happened,*)
(* over every combination of panics, failed reports and early returns.     *)
ServiceStatusTrue == /\ ScmTypeOK /\ StoppedOnce /\ StoppedMeansQuiet
                     /\ CleanExitEarned /\ LocalViewCurrent /\ OkIsConfirmed

(* A stop that the handler accepted is carried out: the process ends, or   *)
(* the SCM learns STOPPED, or SetServiceStatus refused that to the last.   *)
StopCarriedOut == accepted ~> (scm.state = "Stopped" \/ main_pc = "done" \/ ~Live)

(* "Blocks until the service has completed execution" (scm_runtime.rs:768):*)
(* a graceful stop is returned as Ok.                                      *)
GracefulIsOk ==
    dispatcher = "returned" /\ scm.state = "Stopped" /\ scm.exit = NO_ERROR /\ ~panicked
        => returned = "Ok"
=============================================================================
