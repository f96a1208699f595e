---------------------------- MODULE AtomicFiles ----------------------------
(***************************************************************************)
(* What the stores of the service promise about config.json,               *)
(* credentials.json and state.json: a file holds nothing or one valid      *)
(* value, and it changes in one step from one value to the next.  The      *)
(* first value is on the disk at once, a later one some time after it can  *)
(* be read; until then a power failure brings back the one that is.        *)
(***************************************************************************)
CONSTANTS File, Value, NoFile

VARIABLES content, stable

Init == content = [f \in File |-> NoFile] /\ stable = content

Replace(f, v) ==
    /\ content' = [content EXCEPT ![f] = v]
    /\ stable' = IF content[f] = NoFile THEN [stable EXCEPT ![f] = v] ELSE stable

Settle(f) == stable' = [stable EXCEPT ![f] = content[f]] /\ UNCHANGED content

PowerFailure == content' = stable /\ UNCHANGED stable

Next == PowerFailure \/ \E f \in File : Settle(f) \/ \E v \in Value : Replace(f, v)

Spec == Init /\ [][Next]_<<content, stable>>
=============================================================================
