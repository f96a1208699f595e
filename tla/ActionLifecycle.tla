--------------------------- MODULE ActionLifecycle ---------------------------
(***************************************************************************)
(* What the service promises about a scheduled action, told from its       *)
(* durable stage alone (the life cycle of ActionExecutionState in          *)
(* crates/core/src/lib.rs): an accepted action only ever moves forward,    *)
(* nothing that ended comes back, a failed block is kept, and the power    *)
(* controller is called once, for a shutdown that is durably Executing.    *)
(* Runtime.tla implements it, crashes and failing saves included.          *)
(***************************************************************************)
EXTENDS Naturals

CONSTANTS TimerId, ActionKind

VARIABLES life, calls

\* Not yet scheduled; cancelled, completed or missed; or <<kind, state>>.
Unused == <<"no action", "unused">>
Gone   == <<"no action", "gone">>
Stage  == {Unused, Gone} \cup (ActionKind \X {"Pending", "Executing", "Failed"})

LifeInit ==
    /\ life = [t \in TimerId |-> Unused]
    /\ calls = [t \in TimerId |-> 0]

\* The transitions an action may make in one save.
MayBecome(from, to) ==
    \/ from = Unused /\ \E k \in ActionKind : to = <<k, "Pending">>
    \/ \E k \in ActionKind :
           \/ from = <<k, "Pending">> /\ to \in {<<k, "Executing">>, Gone}
           \/ from = <<k, "Executing">> /\ to \in {<<k, "Failed">>, Gone}
    \/ from = <<"ShutdownComputer", "Failed">> /\ to = Gone

\* One save may move several actions (startup recovery does).
Move ==
    /\ life' \in [TimerId -> Stage]
    /\ \A t \in TimerId : life'[t] = life[t] \/ MayBecome(life[t], life'[t])
    /\ UNCHANGED calls

PowerCall(t) ==
    /\ life[t] = <<"ShutdownComputer", "Executing">>
    /\ calls[t] = 0
    /\ calls' = [calls EXCEPT ![t] = 1]
    /\ UNCHANGED life

LifeNext == Move \/ \E t \in TimerId : PowerCall(t)

LifeSpec == LifeInit /\ [][LifeNext]_<<life, calls>>
=============================================================================
