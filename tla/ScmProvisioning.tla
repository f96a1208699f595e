-------------------------- MODULE ScmProvisioning --------------------------
(***************************************************************************)
(* Installing and repairing the service's entry in the Service Control     *)
(* Manager: provision_palka_service (scm_provisioning.rs) with the query   *)
(* it starts and ends with and the validator that decides what is          *)
(* canonical (scm.rs).  An entry is read and written one group of fields   *)
(* per call; between any two calls another administrator may edit, delete  *)
(* or create the entry, and any call may fail.                             *)
(***************************************************************************)
EXTENDS Integers, Sequences, FiniteSets

CONSTANTS NoEntry,      \* no entry
          BaseField,    \* fields ChangeServiceConfigW sets at once; "display" is one
          MaxAttempts,  \* calls of provision_palka_service
          MaxEdits,     \* steps of other administrators
          MayFail       \* Windows calls may fail
ASSUME ProvisioningAssumption ==
    "display" \in BaseField /\ MaxAttempts \in Nat /\ MaxEdits \in Nat /\ MayFail \in BOOLEAN

Restart(delay) == [action_type |-> "Restart", delay_ms |-> delay]
expected_actions == <<Restart(5000), Restart(15000), Restart(60000)>>
(* The drifts of the recovery actions told apart: none, too few, too many, *)
(* a prohibited one, a wrong delay.                                        *)
RecoveryActions ==
    {expected_actions, <<>>, SubSeq(expected_actions, 1, 2), Append(expected_actions, Restart(60000)),
     [expected_actions EXCEPT ![2] = [action_type |-> "Reboot", delay_ms |-> 15000]],
     [expected_actions EXCEPT ![3] = Restart(5000)]}

(* base holds the fields that differ from the contract, reset whether the  *)
(* reset period does; marked is an entry deleted while a handle is open.   *)
ScmConfigSnapshot ==
    [service_name : {"PalkaService", "palkaservice"}, base : SUBSET BaseField, description : BOOLEAN,
     delayed_auto_start : BOOLEAN, failure : [reset : BOOLEAN, actions : RecoveryActions],
     flag : BOOLEAN, marked : BOOLEAN]
ASSUME NoEntryAssumption == NoEntry \notin ScmConfigSnapshot
Canonical ==
    [service_name |-> "PalkaService", base |-> {}, description |-> TRUE, delayed_auto_start |-> FALSE,
     failure |-> [reset |-> TRUE, actions |-> expected_actions], flag |-> FALSE, marked |-> FALSE]
Created == [Canonical EXCEPT !.description = FALSE, !.failure = [reset |-> FALSE, actions |-> <<>>]]

-----------------------------------------------------------------------------
(* validate_canonical: prohibited actions anywhere, the positions both     *)
(* lists have, the count.                                                  *)
MutOverlapOnly(actions) ==
    {<<"RecoveryActionMismatch", i>> : i \in {i \in 1..Len(actions) :
         i <= Len(expected_actions) /\ actions[i] # expected_actions[i]}}
recovery_mismatches(actions) ==
    {<<"ProhibitedRecoveryAction", i>> : i \in {i \in 1..Len(actions) : actions[i].action_type \in {"Reboot", "RunCommand"}}}
    \cup {<<"RecoveryActionMismatch", i>> : i \in {i \in 1..Len(actions) :
              i <= Len(expected_actions) /\ actions[i] # expected_actions[i]}}
    \cup {<<"RecoveryActionsCount", n>> : n \in {Len(actions)} \ {Len(expected_actions)}}
Mismatch(broken, name) == IF broken THEN {<<name, 0>>} ELSE {}
validate_canonical(s) ==
    Mismatch(s.service_name # "PalkaService", "ServiceName")
    \cup {<<f, 0>> : f \in s.base}
    \cup Mismatch(~s.description, "Description")
    \cup Mismatch(s.delayed_auto_start, "DelayedAutoStart")
    \cup Mismatch(~s.failure.reset, "FailureResetPeriod")
    \cup recovery_mismatches(s.failure.actions)
    \cup Mismatch(s.flag, "FailureActionsOnNonCrashFailures")

plan_provisioning(s) ==
    CASE s.service_name # "PalkaService" -> "UnrepairableIdentity"
      [] s.service_name = "PalkaService" /\ validate_canonical(s) = {} -> "AlreadyCanonical"
      [] OTHER -> "Update"

-----------------------------------------------------------------------------
VARIABLES scm,       \* the entry, or NoEntry
          prov_pc,   \* what provision_palka_service does next
          purpose,   \* why it queries: "initial", "raced" or "back"
          at,        \* the next group read or written
          seen,      \* what the query has read so far
          existing,  \* the snapshot convergence started from, or NoEntry
          outcome,   \* of the last attempt: its result or its error
          advised,   \* requires_os_restart_before_recovery_behavior_verification
          run        \* history: attempt, edits, and of this attempt writes, faults, disturbances
provisioning_vars == <<scm, prov_pc, purpose, at, seen, existing, outcome, advised, run>>

Reads == <<"base", "service_name", "description", "delayed_auto_start", "failure", "flag">>
Writes == <<"base", "description", "delayed_auto_start", "failure", "flag">>
Results == {"AlreadyCanonical", "Created", "Updated"}
Errors == {"InvalidBinaryPath", "Query", "UnrepairableServiceIdentity", "ConcurrentScmMutation",
           "WindowsApi", "DisplayNameConflict", "QueryBackMismatch"}

ProvisioningTypeOK ==
    /\ scm \in ScmConfigSnapshot \cup {NoEntry}
    /\ prov_pc \in {"idle", "open", "query", "converge", "create", "write"}
    /\ purpose \in {"initial", "raced", "back"}
    /\ at \in 1..(Len(Reads) + 1)
    /\ seen \in ScmConfigSnapshot /\ existing \in ScmConfigSnapshot \cup {NoEntry}
    /\ outcome \in Results \cup Errors \cup {"none"} /\ advised \in BOOLEAN
    /\ run.attempt \in 0..MaxAttempts /\ run.edits \in 0..MaxEdits /\ run.writes \in Nat
    /\ {run.faulted, run.disturbed, run.cleared} \subseteq BOOLEAN

handle_open == prov_pc \in {"query", "write"}
released == IF scm # NoEntry /\ scm.marked THEN NoEntry ELSE scm

ProvisioningInit ==
    /\ scm \in {NoEntry} \cup {s \in ScmConfigSnapshot : ~s.marked}
    /\ prov_pc = "idle" /\ purpose = "initial" /\ at = 1 /\ seen = Canonical /\ existing = NoEntry
    /\ outcome = "none" /\ advised = FALSE
    /\ run = [attempt |-> 0, edits |-> 0, writes |-> 0, faulted |-> FALSE, disturbed |-> FALSE, cleared |-> FALSE]

(* The call returns; its handles are closed.                               *)
returns(result, flag_changed) ==
    /\ prov_pc' = "idle" /\ outcome' = result /\ advised' = flag_changed /\ scm' = released
    /\ UNCHANGED <<purpose, at, seen, existing>>
succeeds(result, flag_changed) == returns(result, flag_changed) /\ UNCHANGED run
fault(error) == MayFail /\ returns(error, FALSE) /\ run' = [run EXCEPT !.faulted = TRUE]

provision_palka_service ==
    /\ prov_pc = "idle" /\ run.attempt < MaxAttempts
    /\ run' = [run EXCEPT !.attempt = @ + 1, !.writes = 0, !.faulted = FALSE, !.disturbed = FALSE,
                          !.cleared = FALSE]
    /\ existing' = NoEntry /\ outcome' = "none" /\ advised' = FALSE
    /\ prov_pc' = "open" /\ purpose' = "initial"
    /\ UNCHANGED <<scm, at, seen>>
(* validate_and_render_canonical_binary_path refuses the path.             *)
validate_and_render_canonical_binary_path ==
    /\ prov_pc = "idle" /\ run.attempt < MaxAttempts
    /\ run' = [run EXCEPT !.attempt = @ + 1, !.writes = 0, !.faulted = TRUE, !.disturbed = FALSE,
                          !.cleared = FALSE]
    /\ outcome' = "InvalidBinaryPath" /\ advised' = FALSE /\ existing' = NoEntry
    /\ UNCHANGED <<scm, prov_pc, purpose, at, seen>>

(* query_palka_service_config: open, then one call per group.              *)
open_service ==
    /\ prov_pc = "open"
    /\ \/ /\ scm # NoEntry
          /\ prov_pc' = "query" /\ at' = 1 /\ seen' = Canonical
          /\ UNCHANGED <<scm, purpose, existing, outcome, advised, run>>
       \/ /\ scm = NoEntry /\ purpose = "initial"
          /\ prov_pc' = "create"
          /\ UNCHANGED <<scm, purpose, at, seen, existing, outcome, advised, run>>
       \/ scm = NoEntry /\ purpose # "initial" /\ succeeds("Query", FALSE)
       \/ fault("Query")

(* GetServiceKeyNameW looks the entry up by the display name just read.    *)
key_name_found == ("display" \in seen.base) = ("display" \in scm.base)
read_group(group) ==
          /\ prov_pc = "query" /\ at <= Len(Reads) /\ Reads[at] = group
          /\ \/ /\ group = "service_name" => key_name_found
                /\ seen' = [seen EXCEPT ![group] = scm[group]] /\ at' = at + 1
                /\ UNCHANGED <<scm, prov_pc, purpose, existing, outcome, advised, run>>
             \/ group = "service_name" /\ ~key_name_found /\ succeeds("Query", FALSE)
             \/ fault("Query")
query_service_config == read_group("base")
query_service_key_name == read_group("service_name")
query_description == read_group("description")
query_delayed_auto_start == read_group("delayed_auto_start")
query_failure_actions == read_group("failure")
query_failure_actions_flag == read_group("flag")

goes_to(step) == prov_pc' = step /\ existing' = seen /\ scm' = released
                 /\ UNCHANGED <<purpose, at, seen, outcome, advised, run>>
query_initial ==
    /\ prov_pc = "query" /\ at > Len(Reads) /\ purpose = "initial"
    /\ IF validate_canonical(seen) = {} THEN succeeds("AlreadyCanonical", FALSE) ELSE goes_to("converge")
query_raced ==
    /\ prov_pc = "query" /\ at > Len(Reads) /\ purpose = "raced"
    /\ CASE plan_provisioning(seen) = "AlreadyCanonical" -> succeeds("AlreadyCanonical", FALSE)
         [] plan_provisioning(seen) = "UnrepairableIdentity" -> succeeds("UnrepairableServiceIdentity", FALSE)
         [] plan_provisioning(seen) = "Update" -> goes_to("converge")
(* From the snapshot of before the writes: the one read back has it clear. *)
failure_actions_flag_changed == existing.flag
query_back_mismatches == validate_canonical(seen)
query_back ==
    /\ prov_pc = "query" /\ at > Len(Reads) /\ purpose = "back"
    /\ IF query_back_mismatches # {} THEN succeeds("QueryBackMismatch", FALSE)
       ELSE IF existing = NoEntry THEN succeeds("Created", FALSE)
       ELSE succeeds("Updated", failure_actions_flag_changed)

(* converge_existing_service up to the handle it writes through.           *)
identity_holds == existing.service_name = "PalkaService"
converge_existing_service ==
    /\ prov_pc = "converge"
    /\ \/ ~identity_holds /\ succeeds("UnrepairableServiceIdentity", FALSE)
       \/ identity_holds /\ scm = NoEntry /\ succeeds("ConcurrentScmMutation", FALSE)
       \/ /\ identity_holds /\ scm # NoEntry
          /\ prov_pc' = "write" /\ at' = 1
          /\ UNCHANGED <<scm, purpose, seen, existing, outcome, advised, run>>
       \/ fault("WindowsApi")

create_service_and_converge ==
    /\ prov_pc = "create"
    /\ \/ /\ scm # NoEntry
          /\ prov_pc' = "open" /\ purpose' = "raced"
          /\ UNCHANGED <<scm, at, seen, existing, outcome, advised, run>>
       \/ /\ scm = NoEntry /\ scm' = Created /\ run' = [run EXCEPT !.writes = @ + 1]
          /\ prov_pc' = "write" /\ at' = 2
          /\ UNCHANGED <<purpose, seen, existing, outcome, advised>>
       \/ scm = NoEntry /\ fault("DisplayNameConflict")
       \/ fault("WindowsApi")

(* ChangeServiceConfigW, then apply_optional_config's four calls.          *)
value_written(group) == Canonical[group]
apply_optional_config ==
    /\ prov_pc = "write" /\ at <= Len(Writes)
    /\ \/ /\ ~scm.marked /\ at' = at + 1
          /\ scm' = [scm EXCEPT ![Writes[at]] = value_written(Writes[at])]
          /\ run' = [run EXCEPT !.writes = @ + 1,
                                !.cleared = @ \/ (Writes[at] = "flag" /\ scm.flag)]
          /\ UNCHANGED <<prov_pc, purpose, seen, existing, outcome, advised>>
       \/ scm.marked /\ succeeds("WindowsApi", FALSE)
       \/ Writes[at] = "base" /\ fault("DisplayNameConflict")
       \/ fault("WindowsApi")
drop_service_handle ==
    /\ prov_pc = "write" /\ at > Len(Writes)
    /\ scm' = released /\ prov_pc' = "open" /\ purpose' = "back"
    /\ UNCHANGED <<at, seen, existing, outcome, advised, run>>

-----------------------------------------------------------------------------
(* Other administrators.                                                   *)
edited(becomes) ==
    /\ run.edits < MaxEdits /\ scm' = becomes
    /\ run' = [run EXCEPT !.edits = @ + 1, !.disturbed = TRUE]
    /\ UNCHANGED <<prov_pc, purpose, at, seen, existing, outcome, advised>>
other_edits == /\ scm # NoEntry /\ ~scm.marked
               /\ \E s \in {Created, [scm EXCEPT !.base = BaseField], [scm EXCEPT !.description = FALSE],
                            [scm EXCEPT !.flag = TRUE], [scm EXCEPT !.failure = Created.failure]} :
                      edited([s EXCEPT !.service_name = scm.service_name])
other_deletes == /\ scm # NoEntry /\ ~scm.marked
                 /\ edited(IF handle_open THEN [scm EXCEPT !.marked = TRUE] ELSE NoEntry)
other_creates == /\ scm = NoEntry
                 /\ \E n \in {"PalkaService", "palkaservice"}, s \in {Created, Canonical} :
                        edited([s EXCEPT !.service_name = n])

ProvisioningNext == \/ provision_palka_service \/ validate_and_render_canonical_binary_path
                    \/ open_service \/ query_service_config \/ query_service_key_name \/ query_description
                    \/ query_delayed_auto_start \/ query_failure_actions \/ query_failure_actions_flag
                    \/ query_initial \/ query_raced \/ query_back
                    \/ converge_existing_service \/ create_service_and_converge
                    \/ apply_optional_config \/ drop_service_handle
                    \/ other_edits \/ other_deletes \/ other_creates
ProvisioningSpec == ProvisioningInit /\ [][ProvisioningNext]_provisioning_vars

-----------------------------------------------------------------------------
finished == prov_pc = "idle" /\ run.attempt > 0

(* A call that reports success, during which nobody else wrote, leaves the *)
(* entry exactly as the contract wants it, whatever drift, leftover of an  *)
(* earlier half-done attempt or recovery list it found.                    *)
OkIsCanonical == finished /\ outcome \in Results /\ ~run.disturbed => scm = Canonical

(* "Already canonical" and a refused identity mean that not one write was  *)
(* made; and without a racing administrator nothing is ever written to an  *)
(* entry whose stored name is not exactly ours.                            *)
WritesAreWarranted ==
    /\ finished /\ outcome \in {"AlreadyCanonical", "UnrepairableServiceIdentity"} => run.writes = 0
    /\ run.writes > 0 /\ ~run.disturbed => scm # NoEntry /\ scm.service_name = "PalkaService"

(* A call no fault and no other administrator touched succeeds on any      *)
(* entry of our name, and on none at all: whatever a failed attempt leaves *)
(* behind can be repaired by calling again.                                *)
RepairAlwaysPossible ==
    finished /\ ~run.faulted /\ ~run.disturbed /\ (scm = NoEntry \/ scm.service_name = "PalkaService") =>
        outcome \in Results

(* A successful call that cleared the failure-actions flag, undisturbed,   *)
(* asks for the OS restart without which the service manager keeps the old *)
(* value: the advice is about what this call changed, and is computed      *)
(* after a query-back that shows the flag clear in either case.            *)
RestartAdvised == finished /\ outcome \in Results /\ ~run.disturbed => advised = run.cleared

(* Success, refusal and advice are earned, and failures can be repaired.   *)
ProvisioningConverges == /\ ProvisioningTypeOK /\ OkIsCanonical /\ WritesAreWarranted
                         /\ RepairAlwaysPossible /\ RestartAdvised
=============================================================================
