------------------------------ MODULE ScmQuery ------------------------------
(***************************************************************************)
(* Reading what QueryServiceConfigW wrote into the caller's buffer         *)
(* (scm.rs): strings and string lists behind pointers that are checked     *)
(* against the buffer before they are followed.  The buffer is a sequence  *)
(* of 16-bit units, a pointer a byte offset from its start or Null; unit 0 *)
(* is NUL, Lone a surrogate without its pair.                              *)
(***************************************************************************)
EXTENDS Integers, Sequences, SequencesExt

CONSTANTS Char,     \* units of well-formed text
          Lone, Null,
          MaxUnits  \* units in a buffer
ASSUME QueryAssumption == Char \subseteq Nat \ {0, Lone} /\ Lone \in Nat \ {0} /\ Null \notin Int /\ MaxUnits \in Nat

MalformedText == [ok |-> FALSE, value |-> <<>>]
Ok(v) == [ok |-> TRUE, value |-> v]
Unit == Char \cup {0, Lone}
Buffer == BoundedSeq(Unit, MaxUnits)

-----------------------------------------------------------------------------
within(buffer, ptr) == ptr >= 0 /\ ptr < 2 * Len(buffer) /\ ptr % 2 = 0
rest(buffer, ptr) == SubSeq(buffer, ptr \div 2 + 1, Len(buffer))
from_utf16(units) == IF \E i \in 1..Len(units) : units[i] = Lone THEN MalformedText ELSE Ok(units)

decode_utf16_z_within_buffer(ptr, buffer, allow_null) ==
    IF ptr = Null THEN (IF allow_null THEN Ok(<<>>) ELSE MalformedText)
    ELSE IF ~within(buffer, ptr) THEN MalformedText
    ELSE LET s == rest(buffer, ptr)
             nuls == {i \in 1..Len(s) : s[i] = 0}
         IN  IF nuls = {} THEN MalformedText
             ELSE from_utf16(SubSeq(s, 1, (CHOOSE i \in nuls : \A j \in nuls : i <= j) - 1))

(* The loop of parse_multi_sz_within_buffer: the strings so far, the one   *)
(* being read, and whether the list has ended or gone wrong.               *)
MutEndsAtNul(acc) == acc.current = <<>> \/ acc.strings # <<>>
list_ends(acc) == acc.current = <<>>
multi_sz_unit(acc, ch) ==
    IF acc.state # "reading" THEN acc
    ELSE IF ch # 0 THEN [acc EXCEPT !.current = Append(@, ch)]
    ELSE IF list_ends(acc) THEN [acc EXCEPT !.state = "ended"]
    ELSE IF ~from_utf16(acc.current).ok THEN [acc EXCEPT !.state = "wrong"]
    ELSE [acc EXCEPT !.strings = Append(@, acc.current), !.current = <<>>]
Begun == [state |-> "reading", strings |-> <<>>, current |-> <<>>]
multi_sz_units(s) ==
    LET after[n \in 0..Len(s)] == IF n = 0 THEN Begun ELSE multi_sz_unit(after[n - 1], s[n])
    IN  after[Len(s)]
parse_multi_sz_within_buffer(ptr, buffer) ==
    IF ptr = Null THEN Ok(<<>>)
    ELSE IF ~within(buffer, ptr) THEN MalformedText
    ELSE LET end == multi_sz_units(rest(buffer, ptr))
         IN  IF end.state = "ended" THEN Ok(end.strings) ELSE MalformedText

-----------------------------------------------------------------------------
(* Every buffer and pointer, one at a time.                                *)
VARIABLES buffer, ptr, text, list
query_vars == <<buffer, ptr, text, list>>
Pointer == (-1)..(2 * MaxUnits + 1) \cup {Null}
QueryInit == buffer \in Buffer /\ ptr = Null /\ text = MalformedText /\ list = MalformedText
read_buffer == /\ ptr' \in Pointer /\ UNCHANGED buffer
               /\ text' = decode_utf16_z_within_buffer(ptr', buffer, TRUE)
               /\ list' = parse_multi_sz_within_buffer(ptr', buffer)
QueryNext == read_buffer
QuerySpec == QueryInit /\ [][QueryNext]_query_vars

-----------------------------------------------------------------------------
Written(strings) == FlattenSeq([i \in 1..Len(strings) |-> strings[i] \o <<0>>]) \o <<0>>
IsText(s) == \A i \in 1..Len(s) : s[i] \in Char

(* What is read is what lies in the buffer at the pointer, terminator      *)
(* included, and all of it is inside the buffer: a text that ran on past   *)
(* the end, or a list without its second NUL, is refused.                  *)
ReadAsWritten ==
    ptr # Null =>
        /\ text.ok => IsText(text.value) /\ ptr >= 0 /\ IsPrefix(text.value \o <<0>>, rest(buffer, ptr))
        /\ list.ok => /\ \A i \in 1..Len(list.value) : list.value[i] # <<>> /\ IsText(list.value[i])
                      /\ ptr >= 0 /\ IsPrefix(Written(list.value), rest(buffer, ptr))

(* And nothing well formed is refused.                                     *)
Texts == BoundedSeq(Char, 2)
NothingRefused ==
    ptr \in 0..(2 * Len(buffer) - 1) /\ ptr % 2 = 0 =>
        /\ \A t \in Texts : IsPrefix(t \o <<0>>, rest(buffer, ptr)) => text = Ok(t)
        /\ \A strings \in BoundedSeq(Texts \ {<<>>}, 2) :
              IsPrefix(Written(strings), rest(buffer, ptr)) => list = Ok(strings)

(* Exactly the well-formed strings of a buffer are read.                   *)
QueryExact == ReadAsWritten /\ NothingRefused
=============================================================================
