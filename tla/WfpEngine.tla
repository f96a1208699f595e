----------------------------- MODULE WfpEngine ------------------------------
(***************************************************************************)
(* How WindowsWfpEngine (wfp_windows.rs) reads filters back: the paged     *)
(* enumeration of a provider's filters, and the security descriptor of a   *)
(* filter's condition, parsed and then judged by is_canonical_palka_filter *)
(* (internet_gate.rs).  The Win32 calls and what the engine stores are     *)
(* external: a descriptor is a validity flag, its control flag and a DACL. *)
(***************************************************************************)
EXTENDS Integers, Sequences, FiniteSets

CONSTANTS Account, Child,  \* accounts, one of them the child's
          PAGE_SIZE,       \* 100 in the code
          MaxFilters,      \* bound on the filters of the provider
          MaxAces          \* bound on the ACEs of a descriptor
ASSUME EngineAssumption == Child \in Account /\ PAGE_SIZE \in Nat \ {0} /\ MaxFilters \in Nat

FWP_ACTRL_MATCH_FILTER == 1
Ace == [type : {"allow", "deny", "other"}, readable : BOOLEAN, sid : Account, mask : {1, 3}, flags : {0, 8}]
NoDacl == [kind |-> "none"]        \* a null DACL: everyone matches
BadAcl == [kind |-> "invalid"]
Dacl(aces) == [kind |-> "acl", aces |-> aces]
AceSeq == UNION {[1..n -> Ace] : n \in 0..MaxAces}
Descriptor(valid, self, dacl) == [valid |-> valid, self |-> self, dacl |-> dacl]

(* create_child_sid_condition_sd: D:(A;;0x1;;;child) *)
create_child_sid_condition_sd(s) ==
    Descriptor(TRUE, TRUE, Dacl(<<[type |-> "allow", readable |-> TRUE, sid |-> s,
                                   mask |-> FWP_ACTRL_MATCH_FILTER, flags |-> 0]>>))

Malformed == [is_valid_sd |-> FALSE, dacl_present |-> FALSE, is_self_relative |-> FALSE, aces |-> <<>>]
snapshot(a) == IF a.type = "other" THEN [sid |-> "", mask |-> 0, is_allow |-> FALSE, ace_flags |-> a.flags]
               ELSE [sid |-> a.sid, mask |-> a.mask, is_allow |-> a.type = "allow", ace_flags |-> a.flags]
parse_security_descriptor_condition(sd) ==
    IF ~sd.valid THEN Malformed
    ELSE IF sd.dacl.kind # "acl" THEN [Malformed EXCEPT !.is_valid_sd = TRUE, !.is_self_relative = sd.self]
    ELSE IF \E i \in 1..Len(sd.dacl.aces) : ~sd.dacl.aces[i].readable THEN Malformed
    ELSE [is_valid_sd |-> TRUE, dacl_present |-> TRUE, is_self_relative |-> sd.self,
          aces |-> [i \in 1..Len(sd.dacl.aces) |-> snapshot(sd.dacl.aces[i])]]

(* The part of is_canonical_palka_filter that looks at the condition.      *)
is_canonical_condition(c, s) ==
    /\ c.is_valid_sd /\ c.dacl_present /\ c.is_self_relative
    /\ Len(c.aces) = 1
    /\ c.aces[1] = [sid |-> s, mask |-> FWP_ACTRL_MATCH_FILTER, is_allow |-> TRUE, ace_flags |-> 0]

(* Reference: the accounts a descriptor matches when it is access-checked  *)
(* for FWP_ACTRL_MATCH_FILTER; flag 8 is an inherit-only ACE, which grants *)
(* and denies nothing.                                                     *)
Effective(a) == a.type # "other" /\ a.flags = 0
Matches(sd) ==
    CASE ~sd.valid -> {}
      [] sd.valid /\ sd.dacl.kind = "none" -> Account
      [] sd.valid /\ sd.dacl.kind = "invalid" -> {}
      [] OTHER -> {s \in Account : \E i \in 1..Len(sd.dacl.aces) :
                      LET a == sd.dacl.aces[i]
                      IN  /\ a.type = "allow" /\ Effective(a) /\ a.sid = s
                          /\ \A j \in 1..(i - 1) : ~(sd.dacl.aces[j].type = "deny"
                                                     /\ Effective(sd.dacl.aces[j]) /\ sd.dacl.aces[j].sid = s)}

-----------------------------------------------------------------------------
VARIABLES sd, judged,  \* a stored descriptor and the verdict on it
          engine_pc, total, got, page, pages_live, enum_handle
engine_vars == <<sd, judged, engine_pc, total, got, page, pages_live, enum_handle>>

StoredDescriptor ==
    {Descriptor(v, f, d) : v \in BOOLEAN, f \in BOOLEAN, d \in {NoDacl, BadAcl} \cup {Dacl(s) : s \in AceSeq}}
    \cup {create_child_sid_condition_sd(s) : s \in Account}

EngineInit ==
    /\ sd = Descriptor(FALSE, FALSE, NoDacl) /\ judged = "no" /\ engine_pc = "create"
    /\ total = 0 /\ got = 0 /\ page = [count |-> 0, ptr |-> FALSE]
    /\ pages_live = 0 /\ enum_handle = FALSE

(* The descriptor of a filter that was found, whatever somebody stored there. *)
judge ==
    /\ engine_pc = "done" /\ judged = "no"
    /\ sd' \in StoredDescriptor
    /\ judged' = IF is_canonical_condition(parse_security_descriptor_condition(sd'), Child)
                 THEN "canonical" ELSE "other"
    /\ UNCHANGED <<engine_pc, total, got, page, pages_live, enum_handle>>

(* enum_filters_by_provider *)
create_enum_handle ==
    /\ engine_pc = "create"
    /\ \/ engine_pc' = "failed" /\ UNCHANGED <<total, enum_handle>>
       \/ /\ total' \in 0..MaxFilters
          /\ engine_pc' = "page" /\ enum_handle' = TRUE
    /\ UNCHANGED <<sd, judged, got, page, pages_live>>
leave(outcome, freed) == engine_pc' = outcome /\ enum_handle' = FALSE /\ pages_live' = pages_live - freed

(* FwpmFilterEnum0: an empty page may or may not come with memory; a       *)
(* broken engine may return a count without any.                           *)
filter_enum ==
    /\ engine_pc = "page"
    /\ \/ leave("failed", 0) /\ UNCHANGED page
       \/ /\ LET n == IF total - got < PAGE_SIZE THEN total - got ELSE PAGE_SIZE
             IN  \E ptr \in BOOLEAN :
                    /\ page' = [count |-> n, ptr |-> ptr]
                    /\ pages_live' = pages_live + (IF ptr THEN 1 ELSE 0)
          /\ engine_pc' = "classify" /\ UNCHANGED enum_handle
    /\ UNCHANGED <<sd, judged, total, got>>

MutStopsOnFullPage(n) == n <= PAGE_SIZE
is_last(n) == n < PAGE_SIZE
freed_on_exit == IF page.ptr THEN 1 ELSE 0
classify_filter_enum_page ==
    CASE page.count = 0 -> "exhausted"
      [] page.count > 0 /\ ~page.ptr -> "inconsistent"
      [] OTHER -> "process"
process_page ==
    /\ engine_pc = "classify"
    /\ CASE classify_filter_enum_page = "exhausted" -> leave("done", freed_on_exit) /\ UNCHANGED got
         [] classify_filter_enum_page = "inconsistent" -> leave("failed", freed_on_exit) /\ UNCHANGED got
         [] OTHER ->
              /\ got' = got + page.count
              /\ IF is_last(page.count) THEN leave("done", 1)
                 ELSE engine_pc' = "page" /\ pages_live' = pages_live - 1 /\ UNCHANGED enum_handle
    /\ UNCHANGED <<sd, judged, total, page>>

(* An entry of the page is null: the call fails, its guards still run. *)
null_entry ==
    /\ engine_pc = "classify" /\ classify_filter_enum_page = "process"
    /\ leave("failed", 1) /\ UNCHANGED <<sd, judged, total, got, page>>

EngineDone == engine_pc \in {"done", "failed"} /\ UNCHANGED engine_vars
EngineNext == judge \/ create_enum_handle \/ filter_enum \/ process_page \/ null_entry \/ EngineDone
EngineSpec == EngineInit /\ [][EngineNext]_engine_vars

(* A condition accepted as canonical matches the child and nobody else,    *)
(* judged by an access check of the stored descriptor; and the descriptor  *)
(* the gate itself stores is accepted.                                     *)
AcceptedMatchesChildOnly ==
    /\ judged = "canonical" => Matches(sd) = {Child}
    /\ judged = "other" => sd # create_child_sid_condition_sd(Child)

(* The paged enumeration sees every filter of the provider, whatever their *)
(* number is to the page size: no unexpected filter stays unseen.          *)
EnumerationComplete == engine_pc = "done" => got = total

(* Page memory and the enumeration handle are released on every way out.   *)
NothingLeaked == engine_pc \in {"done", "failed"} => pages_live = 0 /\ ~enum_handle

(* The gate's reading of the engine is complete, correct and frees all.    *)
EngineReadExact == AcceptedMatchesChildOnly /\ EnumerationComplete /\ NothingLeaked
=============================================================================
