---------------------------- MODULE InternetGate ----------------------------
(***************************************************************************)
(* WindowsInternetGate (internet_gate.rs) over a WFP engine session        *)
(* (wfp.rs, wfp_windows.rs).  The Base Filtering Engine keeps the          *)
(* committed objects; a session with an open transaction reads and writes  *)
(* a private view of them, and the transaction locks every other writer    *)
(* out.  Any engine call may fail.  Administrators and other products      *)
(* ("somebody") change objects between transactions.  An object is         *)
(* reduced to what the code tells apart: whose it is, whether every other  *)
(* field has the canonical value, and for a filter the SID of its ACE.     *)
(***************************************************************************)
EXTENDS Integers, FiniteSets

CONSTANTS Key,           \* the canonical filter keys (four in the code)
          Sid, BadSid,   \* accounts; BadSid is refused by validate_sid
          AbortMayFail,  \* FwpmTransactionAbort0 may report an error
          MaxSomebody    \* bound on the changes made by others
ASSUME GateAssumption ==
    /\ IsFiniteSet(Key) /\ Key # {} /\ BadSid \notin Sid
    /\ AbortMayFail \in BOOLEAN /\ MaxSomebody \in Nat

NoObject == [present |-> FALSE]
Infra == [present : {TRUE}, ours : BOOLEAN, exact : BOOLEAN] \cup {NoObject}
Filter == [present : {TRUE}, ours : BOOLEAN, exact : BOOLEAN, sid : Sid] \cup {NoObject}
Bfe == [provider : Infra, sublayer : Infra, filter : [Key -> Filter],
        extra : BOOLEAN]   \* a filter of PALKA's provider under another key
NoCall == [op |-> "none"]

VARIABLES
    bfe,                  \* the committed objects: what really filters traffic
    in_tx, session_view,  \* the session's transaction and its view
    gate_pc, request,     \* where the call that holds the engine's mutex is
    reading,              \* what current_state has read so far
    gate_answer,          \* outcome of the last call
    untouched,            \* nobody else changed an object since that call began
    somebody              \* changes made by others
gate_vars == <<bfe, in_tx, session_view, gate_pc, request, reading, gate_answer, untouched, somebody>>

canonical_infra == [present |-> TRUE, ours |-> TRUE, exact |-> TRUE]
canonical_filter_spec(s) == [present |-> TRUE, ours |-> TRUE, exact |-> TRUE, sid |-> s]
is_canonical_palka_filter(f, s) == f = canonical_filter_spec(s)
classify_existing(o) ==
    CASE ~o.present -> "Absent"
      [] o.present /\ ~o.ours -> "ForeignCollision"
      [] o.present /\ o.ours /\ ~o.exact -> "InconsistentPalka"
      [] OTHER -> "Canonical"

(* What the session sees: its own transaction's view while one is open. *)
seen_objects == IF in_tx THEN session_view ELSE bfe
present(b) == {k \in Key : b.filter[k].present}
palkas(b) == {k \in present(b) : b.filter[k].ours}
Blocks(b, s) ==
    /\ classify_existing(b.provider) = "Canonical" /\ classify_existing(b.sublayer) = "Canonical"
    /\ ~b.extra
    /\ \A k \in Key : is_canonical_palka_filter(b.filter[k], s)

Clean == [provider |-> NoObject, sublayer |-> NoObject, filter |-> [k \in Key |-> NoObject], extra |-> FALSE]
GateInit ==
    /\ bfe = Clean /\ session_view = Clean /\ in_tx = FALSE
    /\ gate_pc = "idle" /\ request = NoCall /\ reading = Clean /\ gate_answer = "none"
    /\ untouched = TRUE /\ somebody = 0

-----------------------------------------------------------------------------
(* A call begins: the SID is validated before the engine is asked.         *)
begin_call(op, s) ==
    /\ gate_pc = "idle"
    /\ untouched' = TRUE
    /\ IF s = BadSid
         THEN gate_answer' = "InvalidSid" /\ UNCHANGED <<gate_pc, request, reading>>
         ELSE /\ request' = [op |-> op, sid |-> s]
              /\ gate_pc' = IF op = "current_state" THEN "enum" ELSE "begin"
              /\ gate_answer' = "none" /\ reading' = Clean
    /\ UNCHANGED <<bfe, in_tx, session_view, somebody>>
gate_return(a) == gate_pc' = "idle" /\ gate_answer' = a

transaction_begin ==
    /\ gate_pc = "begin"
    /\ \/ gate_return("TransactionBeginFailure") /\ UNCHANGED <<in_tx, session_view>>
       \/ /\ ~in_tx
          /\ in_tx' = TRUE /\ session_view' = bfe /\ gate_pc' = "validate" /\ UNCHANGED gate_answer
    /\ UNCHANGED <<bfe, request, reading, untouched, somebody>>

(* TransactionGuard::handle_error: roll back, then answer the error of the *)
(* operation, or the error of the rollback.                                *)
handle_error ==
    \/ in_tx' = FALSE /\ session_view' = Clean /\ gate_return("error")
    \/ AbortMayFail /\ gate_return("TransactionAbortFailure") /\ UNCHANGED <<in_tx, session_view>>

(* A query or a mutation inside the transaction fails. *)
calls_engine ==
    \/ gate_pc = "validate"
    \/ gate_pc = "add_provider" /\ ~session_view.provider.present
    \/ gate_pc = "add_sublayer" /\ ~session_view.sublayer.present
    \/ gate_pc = "delete" /\ palkas(session_view) # {}
    \/ gate_pc = "add" /\ present(session_view) # Key
engine_call_fails ==
    /\ calls_engine
    /\ handle_error
    /\ UNCHANGED <<bfe, request, reading, untouched, somebody>>

(* block_internet: authoritative validation, fast path or mutation.        *)
block_allowed ==
    /\ classify_existing(seen_objects.provider) \in {"Absent", "Canonical"}
    /\ classify_existing(seen_objects.sublayer) \in {"Absent", "Canonical"}
    /\ \A k \in present(seen_objects) : seen_objects.filter[k].ours
    /\ ~seen_objects.extra
can_fast_path == Blocks(seen_objects, request.sid)
block_validates ==
    /\ gate_pc = "validate" /\ request.op = "block"
    /\ \/ ~block_allowed /\ handle_error
       \/ /\ block_allowed
          /\ gate_pc' = IF can_fast_path THEN "commit" ELSE "add_provider"
          /\ UNCHANGED <<in_tx, session_view, gate_answer>>
    /\ UNCHANGED <<bfe, request, reading, untouched, somebody>>

add_provider ==
    /\ gate_pc = "add_provider"
    /\ session_view' = IF session_view.provider.present THEN session_view
                       ELSE [session_view EXCEPT !.provider = canonical_infra]
    /\ gate_pc' = "add_sublayer"
    /\ UNCHANGED <<bfe, in_tx, request, reading, gate_answer, untouched, somebody>>
add_sublayer ==
    /\ gate_pc = "add_sublayer"
    /\ session_view' = IF session_view.sublayer.present THEN session_view
                       ELSE [session_view EXCEPT !.sublayer = canonical_infra]
    /\ gate_pc' = "delete"
    /\ UNCHANGED <<bfe, in_tx, request, reading, gate_answer, untouched, somebody>>

(* One filter at a time: every one may be the one that fails.              *)
MutDeleteEverything == present(session_view)
to_delete == palkas(session_view)
delete_filter ==
    /\ gate_pc = "delete"
    /\ IF to_delete # {}
         THEN /\ \E k \in to_delete : session_view' = [session_view EXCEPT !.filter[k] = NoObject]
              /\ UNCHANGED gate_pc
         ELSE /\ gate_pc' = IF request.op = "block" THEN "add" ELSE "commit"
              /\ UNCHANGED session_view
    /\ UNCHANGED <<bfe, in_tx, request, reading, gate_answer, untouched, somebody>>
add_next ==
    IF present(session_view) # Key
      THEN /\ \E k \in Key \ present(session_view) :
                  session_view' = [session_view EXCEPT !.filter[k] = canonical_filter_spec(request.sid)]
           /\ UNCHANGED gate_pc
      ELSE gate_pc' = "commit" /\ UNCHANGED session_view
add_filter ==
    /\ gate_pc = "add" /\ add_next
    /\ UNCHANGED <<bfe, in_tx, request, reading, gate_answer, untouched, somebody>>

(* commit_or_cleanup *)
commit ==
    /\ gate_pc = "commit"
    /\ bfe' = session_view /\ in_tx' = FALSE /\ session_view' = Clean
    /\ gate_return("Ok")
    /\ UNCHANGED <<request, reading, untouched, somebody>>
MutAbortForgotten == gate_return("TransactionCommitFailure") /\ UNCHANGED <<in_tx, session_view>>
cleanup ==
    \/ in_tx' = FALSE /\ session_view' = Clean /\ gate_return("TransactionCommitFailure")
    \/ AbortMayFail /\ gate_return("TransactionAbortFailure") /\ UNCHANGED <<in_tx, session_view>>
commit_fails ==
    /\ gate_pc = "commit" /\ cleanup
    /\ UNCHANGED <<bfe, request, reading, untouched, somebody>>

(* unblock_internet: unexpected filters stop it, other products' filters   *)
(* under a canonical key are left alone.                                   *)
unblock_validates ==
    /\ gate_pc = "validate" /\ request.op = "unblock"
    /\ \/ seen_objects.extra /\ handle_error
       \/ ~seen_objects.extra /\ gate_pc' = "delete" /\ UNCHANGED <<in_tx, session_view, gate_answer>>
    /\ UNCHANGED <<bfe, request, reading, untouched, somebody>>

-----------------------------------------------------------------------------
(* current_state reads outside any transaction of its own: the enumeration,*)
(* each canonical filter, the provider and the sublayer, one after the     *)
(* other.                                                                  *)
enum_filters ==
    /\ gate_pc = "enum"
    /\ IF seen_objects.extra
         THEN gate_return("Unknown") /\ UNCHANGED reading
         ELSE /\ gate_pc' = "get" /\ reading' = [filter |-> [k \in Key |-> NoObject], done |-> {},
                                                 none |-> palkas(seen_objects) = {}]
              /\ UNCHANGED gate_answer
    /\ UNCHANGED <<bfe, in_tx, session_view, request, untouched, somebody>>
get_filter ==
    /\ gate_pc = "get" /\ reading.done # Key
    /\ \E k \in Key \ reading.done :
         reading' = [reading EXCEPT !.filter[k] = seen_objects.filter[k], !.done = @ \cup {k}]
    /\ UNCHANGED <<bfe, in_tx, session_view, gate_pc, request, gate_answer, untouched, somebody>>

decide(prov, sub) ==
    LET count == Cardinality({k \in Key : reading.filter[k].present})
    IN  CASE count = 0 ->
               IF {prov, sub} \subseteq {"Absent", "Canonical"} /\ reading.none
                 THEN "Unrestricted" ELSE "Unknown"
          [] 0 < count /\ count < Cardinality(Key) -> "Unknown"
          [] OTHER ->
               IF /\ prov = "Canonical" /\ sub = "Canonical"
                  /\ \A k \in Key : is_canonical_palka_filter(reading.filter[k], request.sid)
                 THEN "Blocked" ELSE "Unknown"
get_infrastructure ==
    /\ gate_pc = "get" /\ reading.done = Key
    /\ gate_return(decide(classify_existing(seen_objects.provider), classify_existing(seen_objects.sublayer)))
    /\ UNCHANGED <<bfe, in_tx, session_view, request, reading, untouched, somebody>>
query_fails ==
    /\ gate_pc \in {"enum", "get"} /\ gate_return("error")
    /\ UNCHANGED <<bfe, in_tx, session_view, request, reading, untouched, somebody>>

-----------------------------------------------------------------------------
(* Somebody else's change; an open transaction keeps them out.             *)
somebody_changes ==
    /\ somebody < MaxSomebody /\ ~in_tx
    /\ somebody' = somebody + 1 /\ untouched' = FALSE
    /\ \/ \E k \in Key, f \in Filter : bfe' = [bfe EXCEPT !.filter[k] = f]
       \/ \E o \in Infra : bfe' = [bfe EXCEPT !.provider = o]
       \/ \E o \in Infra : bfe' = [bfe EXCEPT !.sublayer = o]
       \/ bfe' = [bfe EXCEPT !.extra = ~@]
    /\ UNCHANGED <<in_tx, session_view, gate_pc, request, reading, gate_answer>>

(* The process ends and starts again: the engine closes the session and    *)
(* rolls its transaction back, whatever the guard had or had not done.     *)
restart ==
    /\ in_tx' = FALSE /\ session_view' = Clean
    /\ gate_pc' = "idle" /\ request' = NoCall /\ reading' = Clean /\ gate_answer' = "none"
    /\ UNCHANGED <<bfe, untouched, somebody>>

steps ==
    \/ transaction_begin \/ engine_call_fails
    \/ block_validates \/ add_provider \/ add_sublayer \/ delete_filter \/ add_filter
    \/ commit \/ commit_fails \/ unblock_validates
    \/ enum_filters \/ get_filter \/ get_infrastructure \/ query_fails
GateNext ==
    \/ \E op \in {"current_state", "block", "unblock"}, s \in Sid \cup {BadSid} : begin_call(op, s)
    \/ steps \/ somebody_changes \/ restart
GateSpec == GateInit /\ [][GateNext]_gate_vars

-----------------------------------------------------------------------------
GateTypeOK ==
    /\ bfe \in Bfe /\ session_view \in Bfe /\ in_tx \in BOOLEAN
    /\ gate_pc \in {"idle", "enum", "get", "begin", "validate", "add_provider", "add_sublayer",
                    "delete", "add", "commit"}
    /\ untouched \in BOOLEAN /\ somebody \in 0..MaxSomebody

(* A successful call has done what it says until somebody interferes:      *)
(* blocked for that account by the full canonical set, or unblocked with   *)
(* not one of PALKA's filters left.                                        *)
OkMeansDone ==
    gate_pc = "idle" /\ gate_answer = "Ok" /\ untouched =>
        IF request.op = "block" THEN Blocks(bfe, request.sid) ELSE palkas(bfe) = {}

(* current_state never claims a block that is not in force: unless somebody *)
(* interferes during the call, "Blocked" means the committed filters block  *)
(* the account and "Unrestricted" that none of PALKA's is there.            *)
ReportIsTrue ==
    gate_pc = "idle" /\ untouched =>
        /\ gate_answer = "Blocked" => Blocks(bfe, request.sid)
        /\ gate_answer = "Unrestricted" => palkas(bfe) = {} /\ ~bfe.extra

(* All or nothing: the gate changes the committed objects only to a        *)
(* complete block or to no block, never to a part of one; and it never     *)
(* changes or removes what is not PALKA's, nor the infrastructure.         *)
GateStepIsWhole ==
    [][steps /\ bfe' # bfe =>
        /\ Blocks(bfe', request.sid) \/ palkas(bfe') = {}
        /\ \A k \in Key : bfe.filter[k].present /\ ~bfe.filter[k].ours => bfe'.filter[k] = bfe.filter[k]
        /\ bfe.provider.present => bfe'.provider = bfe.provider
        /\ bfe.sublayer.present => bfe'.sublayer = bfe.sublayer
        /\ bfe'.extra = bfe.extra]_gate_vars

(* Every path out of a call closes its transaction, so that the next call  *)
(* can begin one and no other writer waits on an idle service.             *)
NoOrphanTransaction == gate_pc = "idle" => ~in_tx

(* If aborts do not fail: reports are true and no transaction stays open.  *)
GateSafe == GateTypeOK /\ ReportIsTrue /\ NoOrphanTransaction

(* Even if an abort fails: a change is whole, and an Ok means it was made. *)
GateWhole == GateStepIsWhole /\ []OkMeansDone
=============================================================================
