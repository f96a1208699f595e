----------------------------- MODULE StateCodec -----------------------------
(***************************************************************************)
(* The codec of state.json (persistence.rs): encoding validates a          *)
(* PersistentState and turns it into the file's document, decoding         *)
(* validates a document that may have been edited.  Texts, times and       *)
(* initiators, which both directions copy, are left out; identifiers have  *)
(* StateIdBytes bytes (16 in the code), written as hex digits, with 16     *)
(* standing for any character that is no lower-case hex digit.             *)
(***************************************************************************)
EXTENDS Integers, Sequences, FiniteSets, SequencesExt

CONSTANTS StateIdBytes,  \* bytes of an identifier
          Bytes,         \* byte values used
          Threshold,     \* warning thresholds used
          MaxActions, MaxOutbox

ASSUME CodecBounds == {StateIdBytes, MaxActions, MaxOutbox} \subseteq Nat /\ StateIdBytes > 0
                      /\ Bytes \subseteq 0..255 /\ IsFiniteSet(Threshold)

TimerId == [1..StateIdBytes -> Bytes]
TextChar == 0..16
V1 == 1

ExecutionState == {"Pending", "Executing", "Failed", "Completed", "Missed"}
StoredKind == {"Pending", "Executing", "Failed"}
Payload == [kind : {"Notification"}]
           \cup [kind : {"Chat"}, id : TimerId, sender : {"Child", "Parent"},
                 delivery : {"AcceptedByService", "AcceptedByTelegram"}]

StoredAction == [id : TimerId, emitted : SUBSET Threshold, state : ExecutionState]
Entry == [id : TimerId, payload : Payload]
PersistentState == [desired : {"Unrestricted", "Blocked"},
                    active : BoundedSeq(StoredAction, MaxActions),
                    outbox : BoundedSeq(Entry, MaxOutbox)]

CodecError == [error |-> TRUE]

-----------------------------------------------------------------------------
(* Identifiers as text: two hex digits per byte. *)
format_128bit_id_hex(b) ==
    [k \in 1..(2 * StateIdBytes) |-> LET byte == b[(k + 1) \div 2]
                                     IN  IF k % 2 = 1 THEN byte \div 16 ELSE byte % 16]
well_formed(t) == Len(t) = 2 * StateIdBytes /\ \A k \in 1..Len(t) : t[k] < 16
parse_128bit_id_hex(t) == [i \in 1..StateIdBytes |-> 16 * t[2 * i - 1] + t[2 * i]]

distinct_ids(s) == IsInjective([i \in 1..Len(s) |-> s[i].id])

(* TryFrom<&PersistentState> for StateFileV1Dto *)
MutStoreTerminal(a) == TRUE
storable_action(a) == a.state \in StoredKind
storable_entry(e) == e.payload.kind = "Chat" =>
                        e.payload.sender = "Child" /\ e.payload.delivery = "AcceptedByService"

encode_action(a) == [id |-> format_128bit_id_hex(a.id), emitted |-> SetToSeq(a.emitted), state |-> a.state]
encode_entry(e) ==
    [id |-> format_128bit_id_hex(e.id),
     payload |-> IF e.payload.kind = "Chat"
                   THEN [e.payload EXCEPT !.id = format_128bit_id_hex(@)]
                   ELSE e.payload]

document(s) ==
    [version |-> V1, desired |-> s.desired,
     active |-> [i \in 1..Len(s.active) |-> encode_action(s.active[i])],
     outbox |-> [i \in 1..Len(s.outbox) |-> encode_entry(s.outbox[i])]]

encode_state_json(s) ==
    IF /\ distinct_ids(s.active) /\ distinct_ids(s.outbox)
       /\ \A i \in 1..Len(s.active) : storable_action(s.active[i])
       /\ \A i \in 1..Len(s.outbox) : storable_entry(s.outbox[i])
      THEN document(s)
      ELSE CodecError

(* TryFrom<StateFileV1Dto> for PersistentState; serde itself refuses the   *)
(* terminal states, other senders and other delivery states.               *)
readable_action(d) ==
    well_formed(d.id) /\ d.state \in StoredKind /\ IsInjective(d.emitted)
readable_entry(d) ==
    /\ well_formed(d.id)
    /\ d.payload.kind = "Chat" => /\ well_formed(d.payload.id)
                                  /\ d.payload.sender = "Child"
                                  /\ d.payload.delivery = "AcceptedByService"
unique_ids(d) == /\ IsInjective([i \in 1..Len(d.active) |-> parse_128bit_id_hex(d.active[i].id)])
                 /\ IsInjective([i \in 1..Len(d.outbox) |-> parse_128bit_id_hex(d.outbox[i].id)])

decode_action(d) == [id |-> parse_128bit_id_hex(d.id), emitted |-> ToSet(d.emitted), state |-> d.state]
decode_entry(d) ==
    [id |-> parse_128bit_id_hex(d.id),
     payload |-> IF d.payload.kind = "Chat"
                   THEN [d.payload EXCEPT !.id = parse_128bit_id_hex(@)]
                   ELSE d.payload]

decode_state_json(d) ==
    IF /\ d.version = V1
       /\ \A i \in 1..Len(d.active) : readable_action(d.active[i])
       /\ \A i \in 1..Len(d.outbox) : readable_entry(d.outbox[i])
       /\ unique_ids(d)
      THEN [desired |-> d.desired,
            active |-> [i \in 1..Len(d.active) |-> decode_action(d.active[i])],
            outbox |-> [i \in 1..Len(d.outbox) |-> decode_entry(d.outbox[i])]]
      ELSE CodecError

-----------------------------------------------------------------------------
(* A state is saved, the document perhaps edited, and loaded. *)
VARIABLES saved, file, state_loaded, codec_pc
codec_vars == <<saved, file, state_loaded, codec_pc>>

CodecInit == saved \in PersistentState /\ file = CodecError /\ state_loaded = CodecError /\ codec_pc = "save"

Save == /\ codec_pc = "save"
        /\ file' = encode_state_json(saved)
        /\ codec_pc' = IF file' = CodecError THEN "refused" ELSE "load"
        /\ UNCHANGED <<saved, state_loaded>>

(* Edited documents: another version, an identifier's text changed, cut or *)
(* lengthened, another state, an element or a threshold written twice.     *)
EditedTexts(t) == {[t EXCEPT ![k] = c] : k \in 1..Len(t), c \in {0, 16}}
                  \cup {SubSeq(t, 2, Len(t)), Append(t, 0)}
EditedActions(a) == {[a EXCEPT !.id = t] : t \in EditedTexts(a.id)}
                    \cup {[a EXCEPT !.emitted = @ \o @], [a EXCEPT !.state = "Completed"]}
EditedEntries(e) == {[e EXCEPT !.id = t] : t \in EditedTexts(e.id)}
ActiveEdited(d) == UNION {{[d EXCEPT !.active = [@ EXCEPT ![i] = a]] : a \in EditedActions(d.active[i])} :
                            i \in 1..Len(d.active)}
OutboxEdited(d) == UNION {{[d EXCEPT !.outbox = [@ EXCEPT ![i] = e]] : e \in EditedEntries(d.outbox[i])} :
                            i \in 1..Len(d.outbox)}
StateEdits(d) ==
    {[d EXCEPT !.version = 2], [d EXCEPT !.active = @ \o @], [d EXCEPT !.outbox = @ \o @]}
    \cup ActiveEdited(d) \cup OutboxEdited(d)

Edit == /\ codec_pc = "load"
        /\ file' \in StateEdits(file)
        /\ codec_pc' = "edited"
        /\ UNCHANGED <<saved, state_loaded>>

Load == /\ codec_pc \in {"load", "edited"}
        /\ state_loaded' = decode_state_json(file)
        /\ codec_pc' = IF codec_pc = "load" THEN "unedited" ELSE "done"
        /\ UNCHANGED <<saved, file>>

CodecDone == codec_pc \in {"refused", "unedited", "done"} /\ UNCHANGED codec_vars

CodecNext == Save \/ Edit \/ Load \/ CodecDone
CodecSpec == CodecInit /\ [][CodecNext]_codec_vars

(* What is saved is loaded again, byte for byte in the identifiers.        *)
StateRoundTrip == codec_pc = "unedited" => state_loaded = saved

(* A document that decodes can be saved again, and holds then what it held *)
(* before: no file the service accepts at start makes its saves fail.      *)
LoadedIsSavable ==
    codec_pc = "done" /\ state_loaded # CodecError =>
        LET again == encode_state_json(state_loaded)
        IN  /\ again # CodecError
            /\ decode_state_json(again) = state_loaded
            /\ \A i \in 1..Len(file.active) : again.active[i].id = file.active[i].id

(* Saving refuses exactly the states whose document loading would refuse:  *)
(* the two directions, written apart, enforce the same rules.              *)
SameRules ==
    codec_pc = "save" => (encode_state_json(saved) = CodecError <=> decode_state_json(document(saved)) = CodecError)

(* Saving and loading state.json are inverse to each other and equally     *)
(* strict.                                                                 *)
StateExact == StateRoundTrip /\ LoadedIsSavable /\ SameRules
=============================================================================
