------------------------------ MODULE MCAdapters ------------------------------
(***************************************************************************)
(* The components between the coordinator and its surroundings, for TLC:   *)
(* the files, the firewall, the power API, the data directory, the event   *)
(* subscribers and the named pipe.  Each is called on its own, so a        *)
(* behaviour is about one of them, `focus', and the others stay as they    *)
(* start.                                                                  *)
(***************************************************************************)
EXTENDS FileStore, InternetGate, EventBus, NamedPipe, PowerController, ProtectedDirectory

VARIABLE focus

Init == /\ focus \in {"store", "gate", "bus", "pipe", "power", "directory"}
        /\ StoreInit /\ GateInit /\ BusInit /\ PipeInit
        /\ focus = "power" \/ (focus # "power" /\ privilege = "absent")
        /\ PowerInit
        /\ focus = "directory" \/ (focus # "directory" /\ target = "none" /\ parent = "none")
        /\ DirectoryInit

StoreRuns == /\ focus = "store" /\ StoreNext
             /\ UNCHANGED <<focus, gate_vars, bus_vars, pipe_vars, power_vars, directory_vars>>
GateRuns == /\ focus = "gate" /\ GateNext
            /\ UNCHANGED <<focus, store_vars, bus_vars, pipe_vars, power_vars, directory_vars>>
BusRuns == /\ focus = "bus" /\ BusNext
           /\ UNCHANGED <<focus, store_vars, gate_vars, pipe_vars, power_vars, directory_vars>>
PipeRuns == /\ focus = "pipe" /\ PipeNext
            /\ UNCHANGED <<focus, store_vars, gate_vars, bus_vars, power_vars, directory_vars>>
PowerRuns == /\ focus = "power" /\ PowerNext
             /\ UNCHANGED <<focus, store_vars, gate_vars, bus_vars, pipe_vars, directory_vars>>
DirectoryRuns == /\ focus = "directory" /\ DirectoryNext
                 /\ UNCHANGED <<focus, store_vars, gate_vars, bus_vars, pipe_vars, power_vars>>

Next == StoreRuns \/ GateRuns \/ BusRuns \/ PipeRuns \/ PowerRuns \/ DirectoryRuns
vars == <<focus, store_vars, gate_vars, bus_vars, pipe_vars, power_vars, directory_vars>>
Spec == Init /\ [][Next]_vars
=============================================================================
