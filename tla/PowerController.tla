-------------------------- MODULE PowerController ---------------------------
(***************************************************************************)
(* WindowsPowerController (power.rs) over the Win32 token and shutdown     *)
(* calls (power_windows.rs), behind the service's adapter                  *)
(* (windows_power_controller.rs).  Every Win32 call may fail.  Buffers the *)
(* system fills are sizes and counts; entry and header sizes are those of  *)
(* TOKEN_PRIVILEGES, usize arithmetic is checked against MaxUsize.         *)
(***************************************************************************)
EXTENDS Integers, Sequences, FiniteSets

CONSTANTS MaxUsize,      \* largest usize; 2^64 - 1, or 2^32 - 1 on x86
          BufferLength,  \* lengths the system may report
          Count          \* privilege counts a buffer may carry
ASSUME PowerAssumption ==
    MaxUsize \in Nat /\ MaxUsize > 3 /\ BufferLength \subseteq Nat /\ Count \subseteq Nat

header_size == 4
entry_size == 12
Fail == -1
checked_mul(a, b) == IF a * b > MaxUsize THEN Fail ELSE a * b
usize_checked_add(a, b) == IF b = Fail \/ a + b > MaxUsize THEN Fail ELSE a + b
required_payload(count) == usize_checked_add(header_size, checked_mul(count, entry_size))

(* Bytes read of a buffer, the last offset used plus one; 0: none was.     *)
(* held: how many entries are before the target's, or all without it.      *)
entries_end(count, at) == header_size + entry_size * (IF at \in 1..count THEN at ELSE count)

(* parse_and_verify_token_privileges: [result, reads] *)
parse_and_verify_token_privileges(len, capacity, count, at) ==
    IF len < header_size \/ len > capacity THEN [result |-> "TokenPrivilegeQueryFailure", reads |-> 0]
    ELSE IF count = 0 THEN [result |-> "PrivilegeNotAssigned", reads |-> header_size]
    ELSE IF \/ required_payload(count) = Fail
            \/ required_payload(count) > len \/ required_payload(count) > capacity
           THEN [result |-> "TokenPrivilegeQueryFailure", reads |-> header_size]
    ELSE [result |-> IF at \in 1..count THEN "Ok" ELSE "PrivilegeNotAssigned",
          reads |-> entries_end(count, at)]

(* parse_and_validate_previous_state: [ok, size] of the captured bytes.    *)
parse_and_validate_previous_state(len, capacity, count) ==
    LET payload == IF count = 0 THEN header_size ELSE required_payload(count)
    IN  IF len < header_size \/ len > capacity \/ payload = Fail \/ payload > len
          THEN [ok |-> FALSE, size |-> 0] ELSE [ok |-> TRUE, size |-> payload]

(* validate_restore_buffer, at the boundary to AdjustTokenPrivileges *)
validate_restore_buffer(size, count) ==
    size >= header_size /\ required_payload(count) # Fail /\ size >= required_payload(count)

-----------------------------------------------------------------------------
VARIABLES
    power_pc,
    privilege,     \* SeShutdownPrivilege in the process token: "absent", "disabled", "enabled"
    before,        \* ... when the call began
    previous,      \* PreviousState as captured: the entry's old attribute, or none
    handles,       \* token handles open
    reads, bytes,  \* bytes the parser read of a buffer, and how many that buffer has
    accepted,      \* the system accepted a shutdown request during this call
    power_answer,
    built          \* the constructor's probe succeeded: a controller exists
power_vars == <<power_pc, privilege, before, previous, handles, reads, bytes, accepted, power_answer, built>>

PowerInit ==
    /\ power_pc = "unready" /\ privilege \in {"absent", "disabled", "enabled"}
    /\ before = privilege /\ previous = "none"
    /\ handles = 0 /\ reads = 0 /\ bytes = 0 /\ accepted = FALSE /\ power_answer = "none" /\ built = FALSE

(* A return drops the token, which closes its handle.                      *)
finish(a) ==
    /\ power_answer' = a /\ handles' = 0
    /\ power_pc' = IF built THEN "ready" ELSE "unready"

(* from_production probes before a controller exists; initiate_shutdown    *)
(* probes again before it enables anything.                                *)
begin ==
    /\ power_pc \in {"unready", "ready"}
    /\ power_pc' = "probe" /\ before' = privilege
    /\ previous' = "none" /\ accepted' = FALSE /\ power_answer' = "none"
    /\ UNCHANGED <<privilege, handles, reads, bytes, built>>

open_process_token ==
    /\ power_pc \in {"probe", "open"}
    /\ \/ finish("OpenProcessTokenFailure")
       \/ /\ handles' = handles + 1 /\ power_answer' = power_answer
          /\ power_pc' = IF power_pc = "probe" THEN "query" ELSE "adjust"
    /\ UNCHANGED <<privilege, before, previous, reads, bytes, accepted, built>>
lookup_privilege_value_fails ==
    /\ power_pc \in {"query", "adjust"} /\ finish("LookupPrivilegeFailure")
    /\ UNCHANGED <<privilege, before, previous, reads, bytes, accepted, built>>

(* The probe's token is dropped before initiate_shutdown opens its own.    *)
probe_ends == power_pc' = (IF built THEN "open" ELSE "ready") /\ handles' = 0

(* The two GetTokenInformation calls: the second may fail, report another  *)
(* length than the first, and carry any count; the target is at position   *)
(* "at" if the token has the privilege.                                    *)
get_token_privileges(capacity, len, count, at) ==
    LET p == parse_and_verify_token_privileges(len, capacity, count, at)
    IN  /\ power_pc = "query"
        /\ privilege = "absent" => at = 0
        /\ bytes' = capacity
        /\ IF capacity = 0
             THEN finish("TokenPrivilegeQueryFailure") /\ reads' = 0
             ELSE /\ reads' = p.reads
                  /\ IF p.result # "Ok" THEN finish(p.result)
                     ELSE probe_ends /\ UNCHANGED power_answer
        /\ built' = (built \/ (capacity # 0 /\ p.result = "Ok"))
        /\ UNCHANGED <<privilege, before, previous, accepted>>
get_token_privileges_fails ==
    /\ power_pc = "query" /\ finish("TokenPrivilegeQueryFailure")
    /\ UNCHANGED <<privilege, before, previous, reads, bytes, accepted, built>>

(* AdjustTokenPrivileges: nothing changes unless the token has the         *)
(* privilege; PreviousState lists it only if it was changed.               *)
captured == IF privilege = "enabled" THEN "none" ELSE privilege
adjust_privilege_enable ==
    /\ power_pc = "adjust"
    /\ \/ finish("AdjustPrivilegeFailure") /\ UNCHANGED <<privilege, previous>>
       \/ privilege = "absent" /\ finish("PrivilegeNotAssigned") /\ UNCHANGED <<privilege, previous>>
       \/ /\ privilege # "absent"
          /\ previous' = captured /\ privilege' = "enabled"
          /\ power_pc' = "request" /\ UNCHANGED <<handles, power_answer>>
    /\ UNCHANGED <<before, reads, bytes, accepted, built>>

(* The PreviousState the system filled in makes no sense: the call ends    *)
(* here, with AdjustPrivilegeFailure and the privilege enabled.            *)
previous_state_malformed(len, capacity, count) ==
    /\ power_pc = "request" /\ ~parse_and_validate_previous_state(len, capacity, count).ok
    /\ finish("MalformedPreviousState")
    /\ UNCHANGED <<privilege, before, previous, reads, bytes, accepted, built>>

request_shutdown ==
    /\ power_pc = "request"
    /\ \/ accepted' = TRUE /\ finish("Ok")
       \/ \E e \in {"ShutdownRequestFailure", "ShutdownAlreadyInProgress"} :
             /\ power_pc' = "restore" /\ power_answer' = e /\ UNCHANGED <<accepted, handles>>
    /\ UNCHANGED <<privilege, before, previous, reads, bytes, built>>

MutKeepOriginalError == power_answer
restore_failure == "PrivilegeRestoreFailure"
restore_ok == privilege' = (IF previous = "none" THEN privilege ELSE previous) /\ finish(power_answer)
restore_privilege ==
    /\ power_pc = "restore"
    /\ \/ restore_ok
       \/ UNCHANGED privilege /\ finish(restore_failure)
    /\ UNCHANGED <<before, previous, reads, bytes, accepted, built>>

Query == \E capacity \in BufferLength, len \in BufferLength, count \in Count, at \in 0..2 :
            get_token_privileges(capacity, len, count, at)
Malformed == \E capacity \in BufferLength, len \in BufferLength, count \in Count :
            previous_state_malformed(len, capacity, count)
PowerNext ==
    \/ begin \/ open_process_token \/ lookup_privilege_value_fails
    \/ Query \/ get_token_privileges_fails \/ adjust_privilege_enable
    \/ Malformed \/ request_shutdown \/ restore_privilege
PowerSpec == PowerInit /\ [][PowerNext]_power_vars

-----------------------------------------------------------------------------
PowerTypeOK ==
    /\ power_pc \in {"unready", "ready", "probe", "query", "open", "adjust", "request", "restore"}
    /\ privilege \in {"absent", "disabled", "enabled"} /\ handles \in 0..1

(* Whatever the system reports, no byte outside the buffer is read, and    *)
(* what was captured as PreviousState passes the check before its restore. *)
InBounds ==
    /\ reads <= bytes
    /\ power_pc = "restore" =>
          \A len \in BufferLength, capacity \in BufferLength, count \in Count :
             LET p == parse_and_validate_previous_state(len, capacity, count)
             IN  p.ok => p.size <= capacity /\ validate_restore_buffer(p.size, count)

(* A failed call leaves the token as it found it; if the restore failed,   *)
(* the error says so, whatever the error of the shutdown request was.  The *)
(* one exception is a PreviousState that makes no sense.                   *)
FailureLeavesToken ==
    power_pc = "ready" /\ power_answer # "none" /\ privilege # before =>
        accepted \/ power_answer \in {"PrivilegeRestoreFailure", "MalformedPreviousState"}

(* Ok exactly when the system accepted a shutdown, with a controller whose *)
(* probe found the privilege, and not a handle stays open.                 *)
OkIsAccepted ==
    power_pc = "ready" =>
        /\ handles = 0
        /\ power_answer # "none" => (power_answer = "Ok" <=> accepted)
        /\ accepted => before # "absent"

(* The token is read within its buffer and given back as it was, and the   *)
(* answer says which of it was possible.                                   *)
PrivilegeSafe == PowerTypeOK /\ InBounds /\ FailureLeavesToken /\ OkIsAccepted
=============================================================================
