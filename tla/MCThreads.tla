------------------------------ MODULE MCThreads ------------------------------
(***************************************************************************)
(* The components in which threads wait for each other, for TLC: stop()    *)
(* against clients and worker, the SCM's threads against ServiceMain, a    *)
(* pipe thread against its client and cancel, and a reader against a       *)
(* writer that may hang up.  They share no state in the program, so a      *)
(* behaviour is about one of them, `focus', and the others stay as they    *)
(* start; fairness is that of each component.                              *)
(***************************************************************************)
EXTENDS StopProtocol, ScmRuntime, NamedPipe, IpcFraming

VARIABLE focus

Init == /\ focus \in {"stop", "scm", "pipe", "framing"}
        /\ StopInit /\ ScmInit /\ PipeInit /\ FramingInit

StopRuns == focus = "stop" /\ StopNext /\ UNCHANGED <<focus, scm_vars, pipe_vars, framing_vars>>
ScmRuns == focus = "scm" /\ ScmNext /\ UNCHANGED <<focus, stop_vars, pipe_vars, framing_vars>>
PipeRuns == focus = "pipe" /\ PipeNext /\ UNCHANGED <<focus, stop_vars, scm_vars, framing_vars>>
FramingRuns == focus = "framing" /\ FramingNext /\ UNCHANGED <<focus, stop_vars, scm_vars, pipe_vars>>

Next == StopRuns \/ ScmRuns \/ PipeRuns \/ FramingRuns
vars == <<focus, stop_vars, scm_vars, pipe_vars, framing_vars>>

(* The fairness each component states, while it is the one in focus.       *)
StopFair ==
    LET Running == focus = "stop" /\ Alive IN
    /\ \A c \in Client : WF_stop_vars(Running /\ Serve(c)) /\ SF_stop_vars(Running /\ lock_ingress(c))
    /\ WF_stop_vars(Running /\ WorkerStep)
    /\ SF_stop_vars(Running /\ lock_gate) /\ SF_stop_vars(Running /\ timeout)
    /\ WF_stop_vars(focus = "stop" /\ OwnerStep) /\ SF_stop_vars(focus = "stop" /\ stop_locks_gate)
ScmFair == /\ WF_scm_vars(focus = "scm" /\ ServiceMain)
           /\ WF_scm_vars(focus = "scm" /\ service_control_handler)
PipeFair == \A t \in Thread : WF_pipe_vars(focus = "pipe" /\ ThreadStep(t))
FramingFair == /\ WF_framing_vars(focus = "framing" /\ Deliver)
               /\ WF_framing_vars(focus = "framing" /\ extract_next)

Spec == Init /\ [][Next]_vars /\ StopFair /\ ScmFair /\ PipeFair /\ FramingFair
=============================================================================
