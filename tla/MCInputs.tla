------------------------------- MODULE MCInputs -------------------------------
(***************************************************************************)
(* What reaches the service from outside and has to be read, decoded or    *)
(* survived, for TLC: state.json, credentials and config, IPC documents,   *)
(* buffers of the SCM and of the filter engine, PINs, a wrapping           *)
(* identifier space, other administrators, and the two Windows calls whose *)
(* failure is worst (a replace that loses its target, an abort that        *)
(* fails).  The components are independent: a behaviour is about one of    *)
(* them, `focus', and the others stay in one of their initial states.      *)
(***************************************************************************)
EXTENDS StateCodec, IpcCodec, Credentials, ScmQuery, IdSource, PinLockout, WfpEngine,
        ScmProvisioning, FileStore, InternetGate

VARIABLE focus

Init ==
    /\ focus \in {"codec", "ipc", "credentials", "query", "ids", "lockout", "engine",
                  "provisioning", "store", "gate"}
    /\ \/ focus = "codec"
       \/ focus # "codec" /\ saved = [desired |-> "Blocked", active |-> <<>>, outbox |-> <<>>]
    /\ CodecInit
    /\ \/ focus = "ipc"
       \/ focus # "ipc" /\ type = "request" /\ message = [kind |-> "QueryStatus", args |-> <<>>]
    /\ IpcInit
    /\ focus = "query" \/ (focus # "query" /\ buffer = <<>>)
    /\ QueryInit
    /\ focus = "provisioning" \/ (focus # "provisioning" /\ scm = NoEntry)
    /\ ProvisioningInit
    /\ CredInit /\ IdsInit /\ LockoutInit /\ EngineInit /\ StoreInit /\ GateInit

files == <<store_vars, gate_vars>>
documents == <<codec_vars, ipc_vars, cred_vars>>
others == <<query_vars, ids_vars, lockout_vars, engine_vars, provisioning_vars>>

CodecRuns == focus = "codec" /\ CodecNext /\ UNCHANGED <<focus, ipc_vars, cred_vars, others, files>>
IpcRuns == focus = "ipc" /\ IpcNext /\ UNCHANGED <<focus, codec_vars, cred_vars, others, files>>
CredRuns == focus = "credentials" /\ CredNext /\ UNCHANGED <<focus, codec_vars, ipc_vars, others, files>>
QueryRuns == /\ focus = "query" /\ QueryNext
             /\ UNCHANGED <<focus, documents, ids_vars, lockout_vars, engine_vars, provisioning_vars, files>>
IdsRun == /\ focus = "ids" /\ IdsNext
          /\ UNCHANGED <<focus, documents, query_vars, lockout_vars, engine_vars, provisioning_vars, files>>
LockoutRuns == /\ focus = "lockout" /\ LockoutNext
               /\ UNCHANGED <<focus, documents, query_vars, ids_vars, engine_vars, provisioning_vars, files>>
EngineRuns == /\ focus = "engine" /\ EngineNext
              /\ UNCHANGED <<focus, documents, query_vars, ids_vars, lockout_vars, provisioning_vars, files>>
ProvisioningRuns == /\ focus = "provisioning" /\ ProvisioningNext
                    /\ UNCHANGED <<focus, documents, query_vars, ids_vars, lockout_vars, engine_vars, files>>
StoreRuns == focus = "store" /\ StoreNext /\ UNCHANGED <<focus, documents, others, gate_vars>>
GateRuns == focus = "gate" /\ GateNext /\ UNCHANGED <<focus, documents, others, store_vars>>

(* The bounded clock and the bounded attempts come to an end. *)
BoundReached ==
    /\ \/ focus = "lockout" /\ \A d \in Step : now + d > MaxNow
       \/ focus = "provisioning" /\ prov_pc = "idle" /\ run.attempt = MaxAttempts
    /\ UNCHANGED <<focus, documents, others, files>>

Next == \/ CodecRuns \/ IpcRuns \/ CredRuns \/ QueryRuns \/ IdsRun \/ LockoutRuns
        \/ EngineRuns \/ ProvisioningRuns \/ StoreRuns \/ GateRuns \/ BoundReached
vars == <<focus, documents, others, files>>
Spec == Init /\ [][Next]_vars
=============================================================================
