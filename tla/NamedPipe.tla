----------------------------- MODULE NamedPipe ------------------------------
(***************************************************************************)
(* The named pipe transport (named_pipe.rs, named_pipe_windows.rs): accept *)
(* with its handshake (connect, length prefix, impersonation), cancellable *)
(* overlapped reads and writes, and the server's cancel event.  Threads    *)
(* share one NamedPipeServer; the kernel and the clients are external.     *)
(* A byte is a unit; the declared length is one of three classes.          *)
(***************************************************************************)
EXTENDS Naturals, FiniteSets

CONSTANTS Thread,
          MAX_PIPE_INSTANCES,
          PREFIX_BYTES,  \* INITIAL_FRAME_PREFIX_BYTES
          BodyBytes,     \* bytes the caller reads, and writes, on a connection
          WaitMayFail,   \* WaitForMultipleObjects may return WAIT_FAILED
          CancelMayFail  \* CancelIoEx may fail with an operation pending
ASSUME PipeAssumption ==
    /\ {MAX_PIPE_INSTANCES, PREFIX_BYTES, BodyBytes} \subseteq Nat \ {0}
    /\ {WaitMayFail, CancelMayFail} \subseteq BOOLEAN

VARIABLES
    cancel_event,  \* manual-reset event of the server
    process,       \* "up", "aborted"
    pc,            \* where the thread is
    op,            \* the operation in hand: "connect", "prefix", "body", "write"
    total,         \* total_read / total_written of it
    io,            \* its OVERLAPPED: "none", "pending", "done", "aborted", "broken"
    transferred,   \* bytes of the last completion
    open,          \* the thread's pipe instance exists
    client,        \* its far end: "none", "connected", "gone"
    token,         \* the client's token: its Administrators group entry
    declared,      \* the length in its prefix
    sent, got,     \* bytes the client wrote, and bytes ReadFile took out
    impersonating,
    admin,         \* is_local_administrator of the connection's context
    result
pipe == <<open, client, token, declared, sent, got>>
call == <<op, total, io, transferred>>
pipe_vars == <<cancel_event, process, pc, op, total, io, transferred, open, client, token,
               declared, sent, got, impersonating, admin, result>>

(* Attributes of BUILTIN\Administrators in a token, or no such group.      *)
SE_GROUP_ENABLED == "enabled"
SE_GROUP_ENABLED_BY_DEFAULT == "by_default"
SE_GROUP_USE_FOR_DENY_ONLY == "deny_only"
Token == {[member |-> TRUE, attrs |-> a] : a \in
             {{SE_GROUP_ENABLED, SE_GROUP_ENABLED_BY_DEFAULT}, {SE_GROUP_USE_FOR_DENY_ONLY},
              {SE_GROUP_ENABLED, SE_GROUP_USE_FOR_DENY_ONLY}}}
         \cup {[member |-> FALSE, attrs |-> {}]}
NoToken == [member |-> FALSE, attrs |-> {}]
is_active_administrator_group(attrs) ==
    SE_GROUP_ENABLED \in attrs /\ SE_GROUP_USE_FOR_DENY_ONLY \notin attrs

Length == {"zero", "allowed", "too_large"}
validate_initial_request_prefix(n) == n = "allowed"

PipeInit ==
    /\ cancel_event = FALSE /\ process = "up"
    /\ pc = [t \in Thread |-> "idle"] /\ op = [t \in Thread |-> "connect"]
    /\ total = [t \in Thread |-> 0] /\ io = [t \in Thread |-> "none"]
    /\ transferred = [t \in Thread |-> 0]
    /\ open = [t \in Thread |-> FALSE] /\ client = [t \in Thread |-> "none"]
    /\ token = [t \in Thread |-> NoToken] /\ declared = [t \in Thread |-> "zero"]
    /\ sent = [t \in Thread |-> 0] /\ got = [t \in Thread |-> 0]
    /\ impersonating = [t \in Thread |-> FALSE] /\ admin = [t \in Thread |-> FALSE]
    /\ result = [t \in Thread |-> "none"]

Target(t) == IF op[t] = "prefix" THEN PREFIX_BYTES ELSE BodyBytes
at(t, p) == process = "up" /\ pc[t] = p
goto(t, p) == pc' = [pc EXCEPT ![t] = p]

(* The call returns r.  Before a connection exists an error drops the      *)
(* instance; after, the caller does.  Either way its handle is closed.     *)
return(t, r) ==
    /\ goto(t, "idle") /\ result' = [result EXCEPT ![t] = r]
    /\ open' = [open EXCEPT ![t] = FALSE] /\ client' = [client EXCEPT ![t] = "none"]
    /\ token' = [token EXCEPT ![t] = NoToken] /\ declared' = [declared EXCEPT ![t] = "zero"]
    /\ sent' = [sent EXCEPT ![t] = 0] /\ got' = [got EXCEPT ![t] = 0]
    /\ admin' = [admin EXCEPT ![t] = FALSE]
    /\ total' = [total EXCEPT ![t] = 0]

-----------------------------------------------------------------------------
(* NamedPipeServer::accept: create an instance, within the limit.          *)
instance_free == Cardinality({t \in Thread : open[t]}) < MAX_PIPE_INSTANCES
accept(t) ==
    /\ at(t, "idle")
    /\ \/ /\ instance_free /\ open' = [open EXCEPT ![t] = TRUE] /\ goto(t, "connect")
          /\ result' = [result EXCEPT ![t] = "none"]
       \/ ~instance_free /\ result' = [result EXCEPT ![t] = "CapacityExceeded"] /\ UNCHANGED <<open, pc>>
       \/ result' = [result EXCEPT ![t] = "WindowsApi"] /\ UNCHANGED <<open, pc>>
    /\ op' = [op EXCEPT ![t] = "connect"] /\ io' = [io EXCEPT ![t] = "none"]
    /\ UNCHANGED <<cancel_event, process, total, transferred, client, token, declared, sent, got,
                   impersonating, admin>>

(* accept_connection calls ConnectNamedPipe; a client may be there, or     *)
(* have come and gone.                                                     *)
connect(t) ==
    /\ at(t, "connect")
    /\ \/ client[t] = "none" /\ io' = [io EXCEPT ![t] = "pending"] /\ goto(t, "wait")
          /\ UNCHANGED <<op, total, result, pipe, admin>>
       \/ client[t] = "connected" /\ goto(t, "transfer") /\ op' = [op EXCEPT ![t] = "prefix"]
          /\ UNCHANGED <<io, total, result, pipe, admin>>
       \/ client[t] = "gone" /\ return(t, "WindowsApi") /\ UNCHANGED <<io, op>>
    /\ UNCHANGED <<cancel_event, process, transferred, impersonating>>

(* ReadFile or WriteFile for what is left of the buffer: some bytes now,   *)
(* an end of file, or a pending operation.                                 *)
readable(t) == sent[t] - got[t]
Smaller(a, b) == IF a < b THEN a ELSE b
transfer(t) ==
    /\ at(t, "transfer")
    /\ LET left == Target(t) - total[t]
           fill == IF op[t] = "write" THEN left ELSE Smaller(left, readable(t))
       IN  \/ \E n \in 1..fill :
                 /\ client[t] = "connected" \/ op[t] # "write"
                 /\ transferred' = [transferred EXCEPT ![t] = n]
                 /\ io' = [io EXCEPT ![t] = "done"] /\ goto(t, "completed")
                 /\ got' = IF op[t] = "write" THEN got ELSE [got EXCEPT ![t] = @ + n]
           \/ /\ client[t] = "gone" /\ (fill = 0 \/ op[t] = "write")
              /\ io' = [io EXCEPT ![t] = "broken"] /\ goto(t, "completed")
              /\ UNCHANGED <<transferred, got>>
           \/ /\ client[t] = "connected" /\ (fill = 0 \/ op[t] = "write")
              /\ io' = [io EXCEPT ![t] = "pending"] /\ goto(t, "wait")
              /\ UNCHANGED <<transferred, got>>
    /\ UNCHANGED <<cancel_event, process, op, total, open, client, token, declared, sent,
                   impersonating, admin, result>>

(* wait_overlapped_or_cancel.  Of two signalled events the I/O event wins. *)
wait(t) ==
    /\ at(t, "wait")
    /\ \/ io[t] # "pending" /\ goto(t, "completed")
       \/ io[t] = "pending" /\ cancel_event /\ goto(t, "cancelling")
    /\ UNCHANGED <<cancel_event, process, call, pipe, impersonating, admin, result>>
wait_fails(t) ==
    /\ at(t, "wait") /\ WaitMayFail /\ return(t, "WindowsApi")
    /\ UNCHANGED <<cancel_event, process, op, io, transferred, impersonating>>

(* CancelIoEx; the operation may have ended since the wait.  Then          *)
(* GetOverlappedResult waits for the end, whatever CancelIoEx answered.    *)
terminated(t) == io[t] # "pending"
MutNoCancel(t) == {io[t]}
after_cancel(t) ==
    IF io[t] = "pending" THEN {"aborted"} \cup (IF CancelMayFail THEN {"pending"} ELSE {}) ELSE {io[t]}
cancel_io(t) ==
    /\ at(t, "cancelling") /\ goto(t, "await_terminal")
    /\ \E r \in after_cancel(t) : io' = [io EXCEPT ![t] = r]
    /\ UNCHANGED <<cancel_event, process, op, total, transferred, pipe, impersonating, admin, result>>
await_terminal(t) ==
    /\ at(t, "await_terminal") /\ terminated(t) /\ goto(t, "completed")
    /\ UNCHANGED <<cancel_event, process, call, pipe, impersonating, admin, result>>

(* completed_overlapped_transfer, and the loop around it.                  *)
accumulated(t) == total[t] + transferred[t]
short(t) == accumulated(t) < Target(t)
completed(t) ==
    /\ at(t, "completed")
    /\ \/ io[t] = "aborted" /\ return(t, "OperationCancelled") /\ UNCHANGED op
       \/ io[t] = "broken" /\ UNCHANGED op
          /\ return(t, IF op[t] = "prefix" THEN "PartialPrefixDisconnect" ELSE "Disconnected")
       \/ /\ io[t] = "done" /\ op[t] = "connect"
          /\ goto(t, "transfer") /\ op' = [op EXCEPT ![t] = "prefix"]
          /\ UNCHANGED <<total, pipe, admin, result>>
       \/ /\ io[t] = "done" /\ op[t] # "connect"
          /\ IF short(t)
               THEN total' = [total EXCEPT ![t] = accumulated(t)] /\ goto(t, "transfer")
               ELSE /\ total' = [total EXCEPT ![t] = 0]
                    /\ goto(t, IF op[t] = "prefix" THEN "validate" ELSE "connection")
          /\ UNCHANGED <<op, pipe, admin, result>>
    /\ io' = [io EXCEPT ![t] = "none"]
    /\ UNCHANGED <<cancel_event, process, transferred, impersonating>>

-----------------------------------------------------------------------------
validate(t) ==
    /\ at(t, "validate")
    /\ IF validate_initial_request_prefix(declared[t])
         THEN goto(t, "impersonate") /\ UNCHANGED <<total, pipe, admin, result>>
         ELSE return(t, IF declared[t] = "zero" THEN "ZeroLengthInitialRequest" ELSE "FrameTooLarge")
    /\ UNCHANGED <<cancel_event, process, op, io, transferred, impersonating>>

(* extract_client_security_context: impersonate, read the token, revert.   *)
impersonate(t) ==
    /\ at(t, "impersonate")
    /\ \/ impersonating' = [impersonating EXCEPT ![t] = TRUE] /\ goto(t, "extract")
          /\ UNCHANGED <<total, pipe, admin, result>>
       \/ return(t, "WindowsApi") /\ UNCHANGED impersonating
    /\ UNCHANGED <<cancel_event, process, op, io, transferred>>

(* Any of the queries may fail or return an inconsistent structure.        *)
extract(t) ==
    /\ at(t, "extract")
    /\ \/ goto(t, "revert") /\ result' = [result EXCEPT ![t] = "Ok"]
          /\ admin' = [admin EXCEPT ![t] =
                          token[t].member /\ is_active_administrator_group(token[t].attrs)]
       \/ goto(t, "revert") /\ UNCHANGED admin
          /\ \E e \in {"WindowsApi", "SecurityViolation"} : result' = [result EXCEPT ![t] = e]
    /\ UNCHANGED <<cancel_event, process, call, pipe, impersonating>>

(* ImpersonationGuard::revert, or its Drop on the `?' paths.  A failed     *)
(* RevertToSelf aborts the process.                                        *)
MutRevertsOnOk(t) == result[t] = "Ok"
reverts(t) == TRUE
revert(t) ==
    /\ at(t, "revert")
    /\ \/ process' = "aborted" /\ UNCHANGED <<pc, total, pipe, impersonating, admin, result>>
       \/ /\ impersonating' = [impersonating EXCEPT ![t] = ~reverts(t)] /\ UNCHANGED process
          /\ IF result[t] = "Ok" THEN goto(t, "connection") /\ UNCHANGED <<total, pipe, admin, result>>
                                 ELSE return(t, result[t])
    /\ UNCHANGED <<cancel_event, op, io, transferred>>

(* NamedPipeConnection: read_exact, write_all, disconnect, drop.           *)
connection_io(t, kind) ==
    /\ at(t, "connection") /\ goto(t, "transfer") /\ op' = [op EXCEPT ![t] = kind]
    /\ kind = "body" => op[t] = "prefix"                     \* one request a connection
    /\ UNCHANGED <<cancel_event, process, total, io, transferred, pipe, impersonating, admin, result>>
close(t) ==
    /\ at(t, "connection") /\ return(t, "Closed")
    /\ UNCHANGED <<cancel_event, process, op, io, transferred, impersonating>>

-----------------------------------------------------------------------------
(* NamedPipeServer::cancel and reset_cancel, from any thread.              *)
cancel == cancel_event' = TRUE /\ process = "up"
          /\ UNCHANGED <<process, pc, call, pipe, impersonating, admin, result>>
reset_cancel == cancel_event' = FALSE /\ process = "up"
          /\ UNCHANGED <<process, pc, call, pipe, impersonating, admin, result>>

(* Clients.  Bytes that find a read pending complete it; so does the       *)
(* client's end.                                                           *)
client_connects(t) ==
    /\ process = "up" /\ open[t] /\ client[t] = "none"
    /\ client' = [client EXCEPT ![t] = "connected"]
    /\ token' \in {[token EXCEPT ![t] = k] : k \in Token}
    /\ declared' \in {[declared EXCEPT ![t] = n] : n \in Length}
    /\ io' = IF io[t] = "pending" /\ op[t] = "connect" THEN [io EXCEPT ![t] = "done"] ELSE io
    /\ UNCHANGED <<cancel_event, process, pc, op, total, transferred, open, sent, got,
                   impersonating, admin, result>>
client_writes(t) ==
    /\ process = "up" /\ client[t] = "connected"
    /\ \E n \in 1..(PREFIX_BYTES + BodyBytes - sent[t]) :
          /\ sent' = [sent EXCEPT ![t] = @ + n]
          /\ IF io[t] = "pending" /\ op[t] \in {"prefix", "body"}
               THEN LET k == Smaller(n, Target(t) - total[t])
                    IN  /\ io' = [io EXCEPT ![t] = "done"] /\ got' = [got EXCEPT ![t] = @ + k]
                        /\ transferred' = [transferred EXCEPT ![t] = k]
               ELSE UNCHANGED <<io, got, transferred>>
    /\ UNCHANGED <<cancel_event, process, pc, op, total, open, client, token, declared,
                   impersonating, admin, result>>
client_reads(t) ==
    /\ process = "up" /\ io[t] = "pending" /\ op[t] = "write"
    /\ io' = [io EXCEPT ![t] = "done"]
    /\ \E n \in 1..(Target(t) - total[t]) : transferred' = [transferred EXCEPT ![t] = n]
    /\ UNCHANGED <<cancel_event, process, pc, op, total, pipe, impersonating, admin, result>>
client_closes(t) ==
    /\ process = "up" /\ client[t] = "connected" /\ client' = [client EXCEPT ![t] = "gone"]
    /\ io' = IF io[t] = "pending" THEN [io EXCEPT ![t] = "broken"] ELSE io
    /\ UNCHANGED <<cancel_event, process, pc, op, total, transferred, open, token, declared, sent, got,
                   impersonating, admin, result>>

ThreadStep(t) ==
          \/ connect(t) \/ transfer(t) \/ wait(t) \/ cancel_io(t) \/ await_terminal(t)
          \/ completed(t) \/ validate(t) \/ impersonate(t) \/ extract(t) \/ revert(t)
PipeNext ==
    \/ \E t \in Thread :
         \/ ThreadStep(t) \/ accept(t) \/ wait_fails(t) \/ close(t)
         \/ \E kind \in {"body", "write"} : connection_io(t, kind)
         \/ client_connects(t) \/ client_writes(t) \/ client_reads(t) \/ client_closes(t)
    \/ cancel \/ reset_cancel
    \/ process = "aborted" /\ UNCHANGED pipe_vars
PipeFairness == \A t \in Thread : WF_pipe_vars(ThreadStep(t))
PipeSpec == PipeInit /\ [][PipeNext]_pipe_vars /\ PipeFairness

-----------------------------------------------------------------------------
InCall == {"connect", "transfer", "wait", "cancelling", "await_terminal", "completed",
           "validate", "impersonate", "extract", "revert"}
PipeTypeOK ==
    /\ process \in {"up", "aborted"} /\ cancel_event \in BOOLEAN
    /\ pc \in [Thread -> InCall \cup {"idle", "connection"}]
    /\ op \in [Thread -> {"connect", "prefix", "body", "write"}]
    /\ io \in [Thread -> {"none", "pending", "done", "aborted", "broken"}]
    /\ total \in [Thread -> Nat] /\ \A t \in Thread : total[t] < Target(t)
    /\ client \in [Thread -> {"none", "connected", "gone"}]
    /\ {open, impersonating, admin} \subseteq [Thread -> BOOLEAN]
    /\ {sent, got} \subseteq [Thread -> 0..(PREFIX_BYTES + BodyBytes)]

(* "before its stack/buffer storage can disappear"                         *)
(* (named_pipe_windows.rs:442): no call returns while the kernel still     *)
(* owns its OVERLAPPED and its buffer, cancelled or not.                   *)
NoDanglingIo == \A t \in Thread : io[t] = "pending" => pc[t] \in {"wait", "cancelling", "await_terminal"}

(* No thread leaves the handshake wearing the client's identity, on any    *)
(* error path; if it cannot take it off the process is gone.               *)
NeverLeavesImpersonating == \A t \in Thread : impersonating[t] => pc[t] \in {"extract", "revert"}

(* A connection stands where the caller thinks: the handshake consumed the *)
(* prefix and nothing of the body, a read its whole target, even when the  *)
(* cancellation lost the race to a completion.                             *)
StreamAligned ==
    \A t \in Thread : pc[t] = "connection" =>
        got[t] = PREFIX_BYTES + (IF op[t] = "body" THEN BodyBytes ELSE 0) \/ op[t] = "write"

(* Only a client whose request length is allowed and whose token holds the *)
(* group for allow checks is reported to the service as an administrator.  *)
AdminIsActive ==
    \A t \in Thread : pc[t] = "connection" =>
        /\ declared[t] = "allowed"
        /\ admin[t] => token[t] = [member |-> TRUE, attrs |-> {SE_GROUP_ENABLED, SE_GROUP_ENABLED_BY_DEFAULT}]

(* A call leaves neither its buffer with the kernel nor its thread with    *)
(* another identity, and a connection is at the right byte with the right  *)
(* rights (as long as WaitForMultipleObjects does not fail).               *)
ConnectionsSafe == /\ PipeTypeOK /\ NoDanglingIo /\ NeverLeavesImpersonating
                   /\ StreamAligned /\ AdminIsActive

(* A cancel that is not reset ends every accept, read and write that       *)
(* waits for a client (CancelIoEx does not refuse it).                     *)
CancelEndsWait ==
    \A t \in Thread :
        (cancel_event /\ pc[t] = "wait") ~> (pc[t] \notin {"wait", "cancelling", "await_terminal"} \/ ~cancel_event)
=============================================================================
