------------------------------ MODULE PalkaCore ------------------------------
(***************************************************************************)
(* The pure domain rules of palka-core (crates/core/src/lib.rs) and the    *)
(* millisecond conversion of the runtime that feeds them.  Times are       *)
(* integers in clock ticks ("milliseconds"); MsPerSec ticks make a second, *)
(* 1000 in the code and a small number in the models.  Thresholds is the   *)
(* set of warning thresholds in seconds (WarningThreshold::ALL is          *)
(* {3600, 1800, 1200, 600, 180} in the code).                              *)
(***************************************************************************)
EXTENDS Integers

CONSTANTS Thresholds, MsPerSec

ASSUME CoreAssumption ==
    /\ Thresholds \subseteq Nat \ {0}
    /\ MsPerSec \in Nat \ {0}

ActionKind == {"BlockInternet", "ShutdownComputer"}

\* Completed and Missed are terminal: such an action is removed, never stored.
StoredState == {"Pending", "Executing", "Failed"}
ActionExecutionState == StoredState \cup {"Completed", "Missed"}

\* Option::None of the transition functions.
NoTransition == "None"
-----------------------------------------------------------------------------
(* Warning thresholds.                                                      *)

creation_passed_thresholds(duration) == {th \in Thresholds : duration < th}

creation_due_thresholds(duration) == {th \in Thresholds : duration = th}

crossed_warning_thresholds(previous, current, emitted) ==
    {th \in Thresholds : /\ current > 0
                         /\ previous > th
                         /\ current =< th
                         /\ th \notin emitted}

recovery_passed_thresholds(current, emitted) ==
    {th \in Thresholds : /\ current > 0
                         /\ th >= current
                         /\ th \notin emitted}
-----------------------------------------------------------------------------
(* The life cycle of a scheduled action.                                    *)

deadline_is_due(remaining) == remaining =< 0

\* Mutant: an action that is already executing is executed again.
MutExecuteAgain(state, remaining) ==
    IF deadline_is_due(remaining) /\ state \in {"Pending", "Executing"}
    THEN "Executing" ELSE NoTransition

runtime_deadline_transition(state, remaining) ==
    IF deadline_is_due(remaining) /\ state = "Pending"
    THEN "Executing" ELSE NoTransition

execution_success_transition(state) ==
    IF state = "Executing" THEN "Completed" ELSE NoTransition

execution_failure_transition(state) ==
    IF state = "Executing" THEN "Failed" ELSE NoTransition

recovery_overdue_transition(kind, state, remaining) ==
    CASE ~deadline_is_due(remaining) -> NoTransition
      [] /\ deadline_is_due(remaining)
         /\ kind = "BlockInternet" ->
            IF state = "Pending" THEN "Executing" ELSE NoTransition
      [] /\ deadline_is_due(remaining)
         /\ kind = "ShutdownComputer" ->
            IF state \in StoredState THEN "Missed" ELSE NoTransition

\* Seconds left: rounded up while the deadline is ahead, so that a future
\* deadline is never 0; Rust's "/" truncates towards zero once it is not.
remaining_seconds_from_delta_ms(delta) ==
    IF delta > 0 THEN (delta + MsPerSec - 1) \div MsPerSec
                 ELSE -((-delta) \div MsPerSec)
=============================================================================
