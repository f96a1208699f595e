------------------------------ MODULE IpcCodec ------------------------------
(***************************************************************************)
(* The wire messages of ipc-protocol: requests, responses, errors and      *)
(* events are encoded to JSON documents and decoded from documents that    *)
(* anyone may have written.  A document is the fields it holds, each with  *)
(* a value or a class of value; strings of JSON matter only for the PIN,   *)
(* whose escapes the crate undoes itself.  serde is external: it refuses   *)
(* missing and unknown fields, the latter not for a variant without any.   *)
(***************************************************************************)
EXTENDS Integers, Sequences, FiniteSets, SequencesExt

CONSTANTS IdBytes, Byte,      \* identifiers: IdBytes bytes (16)
          CodePoint,          \* characters of a PIN
          MaxPin,             \* its length
          VersionFaults,      \* wrong values of `version' put into documents
          MaxTampering,       \* faults put into one document
          Wrong, OverU32      \* a value of another JSON type, an integer above u32::MAX
ASSUME IpcBounds == {IdBytes, MaxPin, MaxTampering} \subseteq Nat /\ IdBytes > 0
                    /\ Byte \subseteq 0..255 /\ CodePoint \subseteq Nat
                    /\ VersionFaults \cap {"one", "absent"} = {}

MAX_REQUEST_BYTES == 65536         \* MAX_EVENT_BYTES too
MAX_RESPONSE_BYTES == 1048576
MAX_CHAT_TEXT_UTF8_BYTES == 4096
MAX_DURATION_MINUTES == 71582788
QuarterU32Max == 1073741823       \* u32::MAX \div 4: 60 * m <= u32::MAX iff 15 * m <= this
EnvelopeBytes == 128              \* at most, around a field of a request

Err(code) == [err |-> code]
IsErr(x) == "err" \in DOMAIN x

-----------------------------------------------------------------------------
(* Identifiers, ids.rs.  16 is any character that is no lower-case digit.  *)
encode_hex_16(b) == [k \in 1..(2 * IdBytes) |->
                        IF k % 2 = 1 THEN b[(k + 1) \div 2] \div 16 ELSE b[(k + 1) \div 2] % 16]
decode_hex_16(s) ==
    IF Len(s) = 2 * IdBytes /\ \A k \in 1..Len(s) : s[k] < 16
      THEN [id |-> [i \in 1..IdBytes |-> 16 * s[2 * i - 1] + s[2 * i]]]
      ELSE Err("InvalidRequest")
WireId == [1..IdBytes -> Byte]

(* A JSON string as its tokens: a character, a short escape, a \u escape.  *)
Raw(c) == [form |-> "raw", code |-> c]
Short(c) == [form |-> "short", code |-> c]
U(c) == [form |-> "u", code |-> c]
ShortEscapes == {34, 92, 47, 8, 12, 10, 13, 9}
escape(pin) == [i \in 1..Len(pin) |-> IF pin[i] \in ShortEscapes \ {47} THEN Short(pin[i])
                                      ELSE IF pin[i] < 32 THEN U(pin[i]) ELSE Raw(pin[i])]

(* unescape_pin_json_string: hi is a high surrogate waiting for its pair.  *)
High == 55296..56319
Low == 56320..57343
code_point(hi, low) == 65536 + (hi - 55296) * 1024 + (low - 56320)
pairs(t) == t.form = "u" /\ t.code \in Low
unescape_token(acc, t) ==
    IF ~acc.ok THEN acc
    ELSE IF acc.hi # 0
      THEN IF pairs(t)
             THEN [ok |-> TRUE, hi |-> 0, out |-> Append(acc.out, code_point(acc.hi, t.code))]
             ELSE [acc EXCEPT !.ok = FALSE]
    ELSE CASE t.form = "raw" -> IF t.code >= 32 THEN [acc EXCEPT !.out = Append(@, t.code)]
                                                ELSE [acc EXCEPT !.ok = FALSE]
           [] t.form = "short" -> IF t.code \in ShortEscapes THEN [acc EXCEPT !.out = Append(@, t.code)]
                                                             ELSE [acc EXCEPT !.ok = FALSE]
           [] t.form = "u" -> IF t.code \in High THEN [acc EXCEPT !.hi = t.code]
                              ELSE IF t.code \in Low THEN [acc EXCEPT !.ok = FALSE]
                              ELSE [acc EXCEPT !.out = Append(@, t.code)]
NoTokens == [ok |-> TRUE, hi |-> 0, out |-> <<>>]
unescape_tokens(tokens) ==
    LET after[n \in 0..Len(tokens)] ==
            IF n = 0 THEN NoTokens ELSE unescape_token(after[n - 1], tokens[n])
    IN  after[Len(tokens)]
unescape_pin_json_string(tokens) ==
    LET end == unescape_tokens(tokens)
    IN  IF end.ok /\ end.hi = 0 THEN [pin |-> end.out] ELSE Err("MalformedFrame")

-----------------------------------------------------------------------------
(* Requests, request.rs. *)
RequestKind == {"QueryStatus", "VerifyPin", "SubscribeEvents", "SendChildMessage",
                "ScheduleInternetBlock", "ImmediateInternetBlock", "CancelInternetBlockTimer",
                "RestoreInternet", "ScheduleShutdown", "CancelShutdownTimer"}
allowed_fields(kind) ==
    CASE kind = "VerifyPin" -> {"pin"}
      [] kind = "SendChildMessage" -> {"text"}
      [] kind \in {"ScheduleInternetBlock", "ScheduleShutdown"} -> {"duration_minutes"}
      [] kind \in {"CancelInternetBlockTimer", "CancelShutdownTimer"} -> {"timer_id"}
      [] OTHER -> {}
WirePin == UNION {[1..n -> CodePoint] : n \in 0..MaxPin}
WireText == {[bytes |-> 0, blank |-> TRUE]}
            \cup [bytes : {1, MAX_CHAT_TEXT_UTF8_BYTES, MAX_CHAT_TEXT_UTF8_BYTES + 1}, blank : BOOLEAN]
Minutes == {0, 1, MAX_DURATION_MINUTES, MAX_DURATION_MINUTES + 1, 100000000}
Argument(f) == CASE f = "pin" -> WirePin [] f = "text" -> WireText
                 [] f = "duration_minutes" -> Minutes [] f = "timer_id" -> WireId
NoFields == [f \in {} |-> f]
RequestsWith(f) == [kind : {k \in RequestKind : allowed_fields(k) = {f}}, args : [{f} -> Argument(f)]]
PlainRequests == [kind : {k \in RequestKind : allowed_fields(k) = {}}, args : {NoFields}]
Request == (UNION {RequestsWith(f) : f \in {"pin", "text", "duration_minutes", "timer_id"}}) \cup PlainRequests

validate_duration_minutes(m) == m > 0 /\ m <= MAX_DURATION_MINUTES /\ 15 * m <= QuarterU32Max
validate_message(r) ==
    CASE "text" \in DOMAIN r.args -> LET t == r.args.text
                                     IN  t.bytes \in 1..MAX_CHAT_TEXT_UTF8_BYTES /\ ~t.blank
      [] "duration_minutes" \in DOMAIN r.args -> validate_duration_minutes(r.args.duration_minutes)
      [] OTHER -> TRUE

(* A character takes at most six bytes of JSON. *)
json_len(r) == EnvelopeBytes + (CASE "text" \in DOMAIN r.args -> 6 * r.args.text.bytes
                                  [] "pin" \in DOMAIN r.args -> 6 * Len(r.args.pin)
                                  [] OTHER -> 0)
ASSUME PinFits == EnvelopeBytes + 6 * MaxPin <= MAX_REQUEST_BYTES
Limit(type) == IF type \in {"response", "error"} THEN MAX_RESPONSE_BYTES ELSE MAX_REQUEST_BYTES
validate_frame_length(type, len) ==
    IF type = "request" /\ len = 0 THEN "ProtocolError"
    ELSE IF len <= Limit(type) THEN "Ok"
    ELSE IF type \in {"response", "error"} THEN "ResponseTooLarge" ELSE "FrameTooLarge"

(* A body that is missing, and one that is no JSON object.                 *)
NoBody == [class |-> "missing"]
NotObject == [class |-> "scalar"]
to_json(f, v) == CASE f = "pin" -> escape(v) [] f = "timer_id" -> encode_hex_16(v) [] OTHER -> v
Document(type, len, body) ==
    [len |-> len, utf8 |-> TRUE, shape |-> "object", dup |-> "none", extra |-> FALSE,
     version |-> "one", type |-> type, body |-> body]
encode_request_frame(r) ==
    IF ~validate_message(r) THEN Err("InvalidRequest")
    ELSE IF validate_frame_length("request", json_len(r)) # "Ok"
      THEN Err(validate_frame_length("request", json_len(r)))
    ELSE Document("request", json_len(r),
                  [kind |-> r.kind, args |-> [f \in DOMAIN r.args |-> to_json(f, r.args[f])]])

(* The checks every envelope goes through, in their order; "Ok" or a code. *)
Unreadable == {"float", "string", "beyond_64_bits"}      \* no u64 and no i64 to the parsers
validate_raw_version_field(v) ==
    CASE v = "one" -> "Ok" [] v \in Unreadable \cup {"absent"} -> "ProtocolError"
      [] OTHER -> "UnsupportedProtocolVersion"
MutNestedUnchecked(d) == d.dup = "top"
check_no_duplicate_keys(d) == d.dup # "none"
envelope(d, type) ==
    IF validate_frame_length(type, d.len) # "Ok" THEN validate_frame_length(type, d.len)
    ELSE IF d.len = 0 \/ ~d.utf8 \/ d.shape = "broken" THEN "MalformedFrame"
    ELSE IF check_no_duplicate_keys(d) \/ d.shape # "object" \/ d.extra THEN "ProtocolError"
    ELSE IF validate_raw_version_field(d.version) # "Ok" THEN validate_raw_version_field(d.version)
    ELSE IF d.type # type \/ d.body = NoBody THEN "ProtocolError"
    ELSE "Ok"

(* parse_request_payload_raw.                                            *)
from_json(f, w) ==
    IF w = Wrong THEN Err(IF f = "pin" THEN "MalformedFrame" ELSE "InvalidRequest")
    ELSE IF w = OverU32 THEN Err("InvalidRequest")
    ELSE CASE f = "pin" -> unescape_pin_json_string(w)
           [] f = "timer_id" -> decode_hex_16(w)
           [] OTHER -> [plain |-> w]
value(x) == x[CHOOSE k \in DOMAIN x : TRUE]
has_fields(b) == allowed_fields(b.kind) \subseteq DOMAIN b.args
unknown_field(b) == ~(DOMAIN b.args \subseteq allowed_fields(b.kind))
parse_request_payload_raw(b) ==
    IF b = NotObject THEN Err("ProtocolError")
    ELSE IF b.kind \notin RequestKind THEN Err("InvalidRequest")
    ELSE IF unknown_field(b) THEN Err("ProtocolError")
    ELSE IF ~has_fields(b) THEN Err("InvalidRequest")
    ELSE LET got == [f \in allowed_fields(b.kind) |-> from_json(f, b.args[f])]
         IN  IF \E f \in DOMAIN got : IsErr(got[f])
               THEN got[CHOOSE f \in DOMAIN got : IsErr(got[f])]
               ELSE [kind |-> b.kind, args |-> [f \in DOMAIN got |-> value(got[f])]]
decode_request_frame(d) ==
    IF envelope(d, "request") # "Ok" THEN Err(envelope(d, "request"))
    ELSE LET r == parse_request_payload_raw(d.body)
         IN  IF IsErr(r) THEN r ELSE IF validate_message(r) THEN r ELSE Err("InvalidRequest")
-----------------------------------------------------------------------------
(* Responses, errors and events: snapshot.rs, response.rs, events.rs,      *)
(* error.rs.  Enums keep their variants' names; thresholds become seconds. *)
Kind == {"BlockInternet", "ShutdownComputer"}
Action == [id : WireId, action_kind : Kind, deadline : {1, 2}, created_by : {"ParentTelegram", "ParentLocalPin"},
           emitted_thresholds : SUBSET {180, 600}, execution_state : {"Pending", "Failed"}]
ascending(q) == \A i, j \in DOMAIN q : i < j => q[i] < q[j]
sorted(S) == CHOOSE q \in [1..Cardinality(S) -> S] : ascending(q)
ScheduledActionDto(a) ==
    [a EXCEPT !.id = encode_hex_16(@), !.emitted_thresholds = sorted(@)]
Snapshot == [desired_internet_state : {"Unrestricted", "Blocked"},
             observed_internet_state : {"Unknown", "Unrestricted", "Blocked"},
             active_actions : {<<>>} \cup {<<a>> : a \in {x \in Action : x.deadline = 1 /\ x.execution_state = "Failed"}},
             last_error : {"null", "text"}]
StatusSnapshotDto(s) == [s EXCEPT !.active_actions = [i \in 1..Len(@) |-> ScheduledActionDto(@[i])]]

CoreEvent ==
    [kind : {"InternetPolicyChanged"}, desired : {"Unrestricted", "Blocked"},
     observed : {"Unknown", "Unrestricted", "Blocked"}, reason : {"TimerExpired", "PlatformSync"}]
    \cup [kind : {"ShutdownStateChanged"}, previous : {"Idle", "Scheduled"}, current : {"Idle", "Scheduled"}]
    \cup [kind : {"TimerScheduled"}, action : Action]
    \cup [kind : {"TimerCancelled", "TimerExpired"}, id : WireId, action_kind : Kind]
    \cup [kind : {"WarningThresholdReached"}, timer_id : WireId, action_kind : Kind, threshold : {180, 600}]
    \cup [kind : {"MissedDeadlineOccurred"}, action : Action, reason : {"late"}]
    \cup [kind : {"ChatMessageReceived"}, id : WireId, sender : {"Parent", "Child"}, text : {"hello", "bye"}]
    \cup [kind : {"ServiceHealthUpdated"}, last_error : {"null", "text"}]
    \cup [kind : {"PinAuthenticationResult"}, success : BOOLEAN]
    \cup [kind : {"ServiceLifecycleEvent"}, stage : {"Starting", "Stopped"}]
Fields(r) == DOMAIN r \ {"kind"}
IdFields == {"id", "timer_id", "message_id"}
field_dto(f, v) ==
    CASE f \in IdFields -> encode_hex_16(v)
      [] f = "action" -> ScheduledActionDto(v)
      [] f = "snapshot" -> StatusSnapshotDto(v)
      [] OTHER -> v
Dto(r) == [kind |-> r.kind, args |-> [f \in Fields(r) |-> field_dto(f, r[f])]]
allowlisted(e) == e.kind \notin {"PinAuthenticationResult", "ServiceLifecycleEvent"}

Response == [kind : {"Status", "Subscribed"}, snapshot : Snapshot]
            \cup [kind : {"PinVerified"}, expires_in_seconds : {0, 300}]
            \cup [kind : {"AcceptedByService"}, message_id : WireId]
            \cup [kind : {"TimerScheduled"}, timer_id : WireId]
            \cup [kind : {"Acknowledged"}]
            \cup [kind : {"TimerCancellation"}, result : {"Cancelled", "AlreadyAbsent", "TimerKindMismatch"}]
ErrorPayload == [kind : {"error"}, code : {"PinLocked", "InternalError"}, message : {"null", "text"},
                 retry_after_seconds : {"null", "seconds"}]
Messages(type) == CASE type = "response" -> Response [] type = "error" -> ErrorPayload
                    [] type = "event" -> {e \in CoreEvent : allowlisted(e)}
Sample(type, kind) == CHOOSE m \in Messages(type) : m.kind = kind
Kinds(type) == {m.kind : m \in Messages(type)}

(* Sizes other than the request's are not computed: any up to the limit.   *)
encode_frame(type, m, len) ==
    IF validate_frame_length(type, len) # "Ok" THEN Err(validate_frame_length(type, len))
    ELSE Document(type, len, Dto(m))

(* serde's reading of the typed payload, and decode_*_frame's reading of   *)
(* serde's message.                                                        *)
typed(type, b) ==
    IF b = NotObject THEN Err("MalformedFrame")
    ELSE IF b.kind = "absent" THEN Err("ProtocolError")
    ELSE IF b.kind \notin Kinds(type) THEN Err("MalformedFrame")
    ELSE LET wanted == Fields(Sample(type, b.kind)) IN
         IF wanted # {} /\ ~(DOMAIN b.args \subseteq wanted) THEN Err("ProtocolError")
         ELSE IF ~(wanted \subseteq DOMAIN b.args) THEN Err("ProtocolError")
         ELSE IF \E f \in wanted : b.args[f] \in {Wrong, OverU32} THEN Err("MalformedFrame")
         ELSE IF \E f \in wanted \cap IdFields : IsErr(decode_hex_16(b.args[f])) THEN Err("MalformedFrame")
         ELSE [kind |-> b.kind, args |-> [f \in wanted |-> b.args[f]]]
decode_frame(type, d) ==
    IF type = "request" THEN decode_request_frame(d)
    ELSE IF envelope(d, type) # "Ok" THEN Err(envelope(d, type))
    ELSE typed(type, d.body)

-----------------------------------------------------------------------------
(* A message is encoded, the document perhaps tampered with, and decoded.  *)
VARIABLES type, message, frame, tampering, decoded, ipc_pc
ipc_vars == <<type, message, frame, tampering, decoded, ipc_pc>>

Nothing == [kind |-> "nothing", args |-> NoFields]
IpcInit == /\ \/ type = "request" /\ message \in Request
              \/ type \in {"response", "error"} /\ message \in Messages(type)
              \/ type = "event" /\ message \in CoreEvent
           /\ frame = Err("none") /\ tampering = <<>> /\ decoded = Nothing /\ ipc_pc = "encode"

encode ==
    /\ ipc_pc = "encode"
    /\ IF type = "request" THEN frame' = encode_request_frame(message)
       ELSE IF type = "event" /\ ~allowlisted(message) THEN frame' = Err("excluded")
       ELSE \E len \in {1, Limit(type), Limit(type) + 1} :
               frame' = encode_frame(type, message, len)
    /\ ipc_pc' = IF IsErr(frame') THEN "refused" ELSE "sent"
    /\ UNCHANGED <<type, message, tampering, decoded>>

(* A fault: its name, and the document with it.                            *)
version_fault(v) ==
    CASE v \in {"float", "string"} -> "version_no_integer"
      [] v = "beyond_64_bits" -> "version_too_wide"
      [] OTHER -> "other_version"
EnvelopeFaults(d) ==
    { <<"empty", [d EXCEPT !.len = 0]>>, <<"oversize", [d EXCEPT !.len = Limit(type) + 1]>>,
      <<"bad_utf8", [d EXCEPT !.utf8 = FALSE]>>, <<"broken", [d EXCEPT !.shape = "broken"]>>,
      <<"not_object", [d EXCEPT !.shape = "scalar"]>>,
      <<"duplicate", [d EXCEPT !.dup = "top"]>>, <<"duplicate", [d EXCEPT !.dup = "nested"]>>,
      <<"unknown_top", [d EXCEPT !.extra = TRUE]>>, <<"no_version", [d EXCEPT !.version = "absent"]>>,
      <<"no_type", [d EXCEPT !.type = "absent"]>>, <<"other_type", [d EXCEPT !.type = "wrong"]>>,
      <<"no_body", [d EXCEPT !.body = NoBody]>> }
    \cup {<<version_fault(v), [d EXCEPT !.version = v]>> : v \in VersionFaults}
body(kind, args) == [kind |-> kind, args |-> args]
put(args, f, w) == [g \in DOMAIN args \cup {f} |-> IF g = f THEN w ELSE args[g]]
drop(args, f) == [g \in DOMAIN args \ {f} |-> args[g]]
HighHalf == 55357      \* the two halves of an emoji
LowHalf == 56832
BadSpellings == {<<Raw(1)>>, <<Short(97)>>, <<U(LowHalf)>>, <<U(HighHalf)>>,
                 <<U(HighHalf), Raw(65)>>, <<U(HighHalf), U(65)>>}
Respellings == {<<U(HighHalf), U(LowHalf)>>, <<U(65), Short(47)>>}

(* A value of the right type is neither of the wrong ones.                 *)
ASSUME MarksDistinct ==
    /\ \A f \in {"pin", "text", "duration_minutes", "timer_id"} : \A v \in Argument(f) :
           to_json(f, v) \notin {Wrong, OverU32}
    /\ \A t \in {"response", "error", "event"} : \A m \in Messages(t) : \A f \in Fields(m) :
           field_dto(f, m[f]) \notin {Wrong, OverU32}
    /\ \A s \in BadSpellings \cup Respellings : s \notin {Wrong, OverU32}

no_hex_16 == [k \in 1..(2 * IdBytes) |-> 16]
wrong_value(f) == IF f = "pin" THEN "bad_string" ELSE "bad_value"
BadBodies(k, args) ==
    {<<"body_no_object", NotObject>>, <<"unknown_field", body(k, put(args, "extra", Wrong))>>}
    \cup (IF type = "error" THEN {} ELSE {<<"no_kind", body("absent", args)>>, <<"unknown_kind", body("number", args)>>})
    \cup {<<"no_field", body(k, drop(args, f))>> : f \in DOMAIN args}
    \cup {<<wrong_value(f), body(k, put(args, f, Wrong))>> : f \in DOMAIN args}
    \cup {<<"bad_value", body(k, put(args, f, OverU32))>> : f \in DOMAIN args \cap {"duration_minutes"}}
    \cup {<<"bad_value", body(k, put(args, f, no_hex_16))>> : f \in DOMAIN args \cap IdFields}
    \cup (IF "pin" \notin DOMAIN args THEN {}
          ELSE {<<"bad_string", body(k, put(args, "pin", t))>> : t \in BadSpellings}
               \cup {<<"respelt", body(k, put(args, "pin", t))>> : t \in Respellings})
BodyFaults(d) == {<<x[1], [d EXCEPT !.body = x[2]]>> : x \in BadBodies(d.body.kind, d.body.args)}
tamper ==
    /\ ipc_pc = "sent" /\ Len(tampering) < MaxTampering /\ (tampering = <<>> \/ type = "request")
    /\ \E x \in EnvelopeFaults(frame)
                  \cup (IF frame.body \in {NoBody, NotObject} THEN {} ELSE BodyFaults(frame)) :
          tampering' = Append(tampering, x[1]) /\ frame' = x[2]
    /\ UNCHANGED <<type, message, decoded, ipc_pc>>
decode ==
    /\ ipc_pc = "sent" /\ decoded' = decode_frame(type, frame) /\ ipc_pc' = "decoded"
    /\ UNCHANGED <<type, message, frame, tampering>>
IpcNext == encode \/ tamper \/ decode \/ (ipc_pc \in {"refused", "decoded"} /\ UNCHANGED ipc_vars)
IpcSpec == IpcInit /\ [][IpcNext]_ipc_vars

-----------------------------------------------------------------------------
(* What one side sends the other reads, the PIN's escapes and the          *)
(* identifiers' digits undone; a request is refused by its sender only for *)
(* its own values, never because a text it may hold does not fit a frame.  *)
IpcRoundTrip ==
    /\ ipc_pc = "decoded" /\ tampering = <<>> =>
         decoded = IF type = "request" THEN message ELSE Dto(message)
    /\ ipc_pc = "refused" /\ type = "request" => frame.err = "InvalidRequest" /\ ~validate_message(message)

(* Two events of the core are one on the wire only if they are one: no     *)
(* conversion drops a field or the set of warnings already shown; the      *)
(* outcome of a PIN attempt is never on the wire (IPC-91).                 *)
EventsFaithful ==
    type = "event" /\ ipc_pc = "sent" /\ tampering = <<>> =>
        /\ {e \in CoreEvent : allowlisted(e) /\ e.kind = message.kind /\ Dto(e) = frame.body} = {message}
        /\ message.kind # "PinAuthenticationResult"

(* docs/021 section 12.1 and IPC-04..15, 76..78, 86: the code a document   *)
(* with one thing wrong is to be refused with.                             *)
Documented(fault) ==
    CASE fault \in {"bad_utf8", "broken", "bad_string"} -> "MalformedFrame"
      [] fault \in {"unknown_kind", "no_field", "no_kind", "bad_value"} -> "InvalidRequest"
      [] fault = "oversize" -> "FrameTooLarge"
      [] fault \in {"other_version", "version_too_wide"} -> "UnsupportedProtocolVersion"
      [] OTHER -> "ProtocolError"

(* The code follows it but for one fault: a version that is an integer     *)
(* beyond 64 bits is a floating point number to its parsers (IPC-05 makes  *)
(* no exception for it).                                                   *)
Refusal(fault) == IF fault = "version_too_wide" THEN "ProtocolError" ELSE Documented(fault)
OneFault == ipc_pc = "decoded" /\ Len(tampering) = 1 /\ tampering # <<"respelt">>
RefusedAsDocumented ==
    OneFault => IF type = "request" THEN decoded = Err(Refusal(tampering[1]))
                ELSE tampering[1] \in {"no_version", "other_version", "version_too_wide", "duplicate", "unknown_top"} =>
                        decoded = Err(Refusal(tampering[1]))

(* Nothing in a request that is accepted was overlooked: whatever was done *)
(* to the document, encoding what was read gives a document with the same  *)
(* fields, and the values are ones the runtime can take (no timer's        *)
(* seconds overflow a u32).                                                *)
Outline(d) == <<d.utf8, d.shape, d.dup, d.extra, d.version, d.type, d.body.kind, DOMAIN d.body.args>>
AcceptedIsWhole ==
    ipc_pc = "decoded" /\ type = "request" /\ ~IsErr(decoded) =>
        LET again == encode_request_frame(decoded)
        IN  /\ ~IsErr(again)
            /\ Outline(again) = Outline(frame)
            /\ "duration_minutes" \in DOMAIN decoded.args =>
                  decoded.args.duration_minutes > 0 /\ 15 * decoded.args.duration_minutes <= QuarterU32Max

(* A message arrives as it was sent or is refused for what is wrong in it. *)
IpcExact == IpcRoundTrip /\ EventsFaithful /\ RefusedAsDocumented /\ AcceptedIsWhole
=============================================================================
