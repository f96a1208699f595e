----------------------------- MODULE IpcFraming -----------------------------
(***************************************************************************)
(* Frames on a byte stream (ipc-protocol/codec.rs): the length prefix, the *)
(* limits checked before a body is read, and extract_frame_payload, which  *)
(* a reader calls on what has arrived so far.  The stream delivers bytes   *)
(* in pieces of any size; the client may stop in the middle of a frame.    *)
(* A byte has Radix values (256) and a length PrefixBytes bytes (4).       *)
(***************************************************************************)
EXTENDS Naturals, Sequences, SequencesExt

CONSTANTS Radix, PrefixBytes, MAX_REQUEST_BYTES,
          Content,    \* bytes used in payloads
          MaxLength,  \* the longest payload a client tries to send
          MaxFrames   \* frames a client tries to send
ASSUME FramingAssumption ==
    /\ {Radix, PrefixBytes, MAX_REQUEST_BYTES, MaxLength, MaxFrames} \subseteq Nat \ {0}
    /\ Content \subseteq 0..(Radix - 1)

VARIABLES
    written,         \* payloads the client has written to the end
    writing,         \* the payload it is writing
    unwritten,       \* the bytes of its frame still to write
    hung_up,         \* the client closed its end
    wire,            \* bytes under way
    buffer, is_eof,  \* the arguments of extract_frame_payload
    received,        \* payloads it has returned
    verdict          \* "open", "closed" or the error that ended the connection
framing_vars == <<written, writing, unwritten, hung_up, wire, buffer, is_eof, received, verdict>>

-----------------------------------------------------------------------------
(* to_le_bytes: what is left of the length before each byte; the byte is   *)
(* its last digit.                                                         *)
quotients(len) ==
    LET q[i \in 0..PrefixBytes] == IF i = 0 THEN len ELSE q[i - 1] \div Radix
    IN  q
encode_length_prefix(len) == [i \in 1..PrefixBytes |-> quotients(len)[i - 1] % Radix]

(* from_le_bytes: the value of the last bytes, one more at a time.         *)
decode_length_prefix(bytes) ==
    LET v[i \in 0..PrefixBytes] == IF i = 0 THEN 0 ELSE Radix * v[i - 1] + bytes[PrefixBytes + 1 - i]
    IN  v[PrefixBytes]

(* No payload of 4 GiB: the casts to u32 are exact.                        *)
ASSUME LengthFits == quotients(MaxLength)[PrefixBytes] = 0

Ok == "ok"
validate_request_frame_length(len) ==
    IF len = 0 THEN "ProtocolError" ELSE IF len > MAX_REQUEST_BYTES THEN "FrameTooLarge" ELSE Ok

(* The frame of a payload, without the check that encode_request_frame     *)
(* makes: what a client with other limits may write.                       *)
Frame(payload) == encode_length_prefix(Len(payload)) \o payload

None == [error |-> Ok, payload |-> <<>>, used |-> 0]
Failed(e) == [error |-> e, payload |-> <<>>, used |-> 0]
MutUsedPayloadOnly(n) == n
total_needed(n) == PrefixBytes + n
MutWaitsForPrefix(buf, at_end) == at_end /\ Len(buf) >= PrefixBytes
premature(buf, at_end) == at_end /\ buf # <<>>
extract_frame_payload(buf, at_end) ==
    IF Len(buf) < PrefixBytes
      THEN IF premature(buf, at_end) THEN Failed("TransportFailure") ELSE None
      ELSE LET declared == decode_length_prefix(SubSeq(buf, 1, PrefixBytes))
           IN  IF validate_request_frame_length(declared) # Ok
                 THEN Failed(validate_request_frame_length(declared))
               ELSE IF Len(buf) < PrefixBytes + declared
                 THEN IF premature(buf, at_end) THEN Failed("TransportFailure") ELSE None
               ELSE [error |-> Ok, payload |-> SubSeq(buf, PrefixBytes + 1, PrefixBytes + declared),
                     used |-> total_needed(declared)]

-----------------------------------------------------------------------------
FramingInit ==
    /\ written = <<>> /\ writing = <<>> /\ unwritten = <<>> /\ hung_up = FALSE
    /\ wire = <<>> /\ buffer = <<>> /\ is_eof = FALSE
    /\ received = <<>> /\ verdict = "open"

Payload == UNION {[1..n -> Content] : n \in 0..MaxLength}
client_begins(p) ==
    /\ ~hung_up /\ unwritten = <<>> /\ Len(written) < MaxFrames
    /\ writing' = p /\ unwritten' = Frame(p)
    /\ UNCHANGED <<written, hung_up, wire, buffer, is_eof, received, verdict>>
client_sends(n) ==
    /\ ~hung_up /\ n <= Len(unwritten)
    /\ wire' = wire \o SubSeq(unwritten, 1, n)
    /\ unwritten' = SubSeq(unwritten, n + 1, Len(unwritten))
    /\ written' = IF unwritten' = <<>> THEN Append(written, writing) ELSE written
    /\ UNCHANGED <<writing, hung_up, buffer, is_eof, received, verdict>>
client_hangs_up ==
    /\ ~hung_up /\ hung_up' = TRUE
    /\ UNCHANGED <<written, writing, unwritten, wire, buffer, is_eof, received, verdict>>
arrive(n) ==
    /\ verdict = "open" /\ n <= Len(wire)
    /\ buffer' = buffer \o SubSeq(wire, 1, n) /\ wire' = SubSeq(wire, n + 1, Len(wire))
    /\ UNCHANGED <<written, writing, unwritten, hung_up, is_eof, received, verdict>>
eof ==
    /\ verdict = "open" /\ hung_up /\ wire = <<>> /\ ~is_eof /\ is_eof' = TRUE
    /\ UNCHANGED <<written, writing, unwritten, hung_up, wire, buffer, received, verdict>>

(* The reader: extract, take the payload, drop what was used.              *)
extract_next ==
    /\ verdict = "open"
    /\ LET x == extract_frame_payload(buffer, is_eof)
       IN  \/ /\ x.used > 0
              /\ received' = Append(received, x.payload)
              /\ buffer' = SubSeq(buffer, x.used + 1, Len(buffer))
              /\ UNCHANGED verdict
           \/ /\ x.error # Ok /\ verdict' = x.error /\ UNCHANGED <<received, buffer>>
           \/ /\ x = None /\ is_eof /\ buffer = <<>> /\ verdict' = "closed" /\ UNCHANGED <<received, buffer>>
    /\ UNCHANGED <<written, writing, unwritten, hung_up, wire, is_eof>>

FramingNext ==
    \/ \E p \in Payload : client_begins(p)
    \/ \E n \in 1..Len(unwritten) : client_sends(n)
    \/ client_hangs_up
    \/ \E n \in 1..Len(wire) : arrive(n)
    \/ eof \/ extract_next
    \/ hung_up /\ UNCHANGED framing_vars
Deliver == (\E n \in 1..Len(wire) : arrive(n)) \/ eof
FramingSpec == FramingInit /\ [][FramingNext]_framing_vars /\ WF_framing_vars(Deliver) /\ WF_framing_vars(extract_next)

-----------------------------------------------------------------------------
(* However the stream is cut into pieces, the payloads come out whole, in  *)
(* order, none twice, none out of two (codec.rs:719-750).                  *)
FramesIntact == IsPrefix(received, written)

(* The end of a connection is named for what happened: closed means that   *)
(* every frame was handed over, a transport failure that the client broke  *)
(* off inside one (IPC-15), the length errors that the next frame really   *)
(* has a forbidden length.                                                 *)
VerdictTrue ==
    LET next == written[Len(received) + 1]
    IN  CASE verdict = "closed" -> received = written /\ hung_up /\ unwritten \in {<<>>, Frame(writing)}
          [] verdict = "TransportFailure" -> received = written /\ hung_up /\ unwritten # <<>>
          [] verdict = "ProtocolError" -> Len(received) < Len(written) => next = <<>>
          [] verdict = "FrameTooLarge" -> Len(received) < Len(written) => Len(next) > MAX_REQUEST_BYTES
          [] OTHER -> \A i \in 1..Len(received) : Len(received[i]) \in 1..MAX_REQUEST_BYTES

(* The reader hands over what was written and ends for the reason there is. *)
ReaderExact == FramesIntact /\ VerdictTrue

(* A reader whose client is gone does not wait for more.                   *)
DisconnectDecided == hung_up ~> verdict # "open"
=============================================================================
