----------------------------- MODULE PinLockout -----------------------------
(***************************************************************************)
(* PinLockoutState of pin_auth.rs: three wrong PINs lock authentication    *)
(* for 30 s, then 60 s, then 300 s at a time, until a right one.  Time is  *)
(* the caller's monotonic clock in seconds; it may pass between the check  *)
(* of an attempt and the record of its outcome (Argon2 takes a while), and *)
(* a caller may record a failure without having checked first.             *)
(***************************************************************************)
EXTENDS Integers, Sequences

CONSTANTS Step,   \* by how much the clock may advance
          MaxNow  \* bound on the clock
ASSUME StepAssumption == Step \subseteq Nat

FAILURES_PER_LOCKOUT == 3
LOCKOUT_SCHEDULE_SECONDS == <<30, 60, 300>>
None == -1

VARIABLES
    now,
    consecutive_failures, lockout_level, lockout_until,  \* PinLockoutState
    checked,                                             \* an attempt was allowed and is being verified
    (* history since the last success: when it was, the wrong PINs recorded, *)
    (* the lockouts they caused and what those ought to add up to            *)
    since, guesses, lockouts, penalty
state == <<consecutive_failures, lockout_level, lockout_until>>
history == <<since, guesses, lockouts, penalty>>
lockout_vars == <<now, state, checked, history>>

LockoutInit ==
    /\ now = 0 /\ checked = FALSE
    /\ consecutive_failures = 0 /\ lockout_level = 0 /\ lockout_until = None
    /\ since = 0 /\ guesses = 0 /\ lockouts = 0 /\ penalty = 0

locked == lockout_until # None /\ now < lockout_until

(* The code's index is zero-based. *)
timeout == LOCKOUT_SCHEDULE_SECONDS[1 + (IF lockout_level < Len(LOCKOUT_SCHEDULE_SECONDS) - 1
                                         THEN lockout_level ELSE Len(LOCKOUT_SCHEDULE_SECONDS) - 1)]
(* The duration the schedule promises the n-th lockout in a row. *)
Promised(n) == LOCKOUT_SCHEDULE_SECONDS[IF n < 3 THEN n ELSE 3]

check_attempt ==
    /\ ~checked /\ ~locked
    /\ checked' = TRUE
    /\ UNCHANGED <<now, state, history>>

MutRestartsLockout == /\ locked /\ lockout_until' = now + Promised(lockouts)
                      /\ UNCHANGED <<consecutive_failures, lockout_level, history>>
still_locked == locked /\ UNCHANGED <<state, history>>
failed ==
    /\ ~locked
    /\ consecutive_failures + 1 < FAILURES_PER_LOCKOUT
    /\ consecutive_failures' = consecutive_failures + 1
    /\ lockout_until' = None
    /\ guesses' = guesses + 1
    /\ UNCHANGED <<lockout_level, since, lockouts, penalty>>
raised == IF lockout_level < Len(LOCKOUT_SCHEDULE_SECONDS) - 1 THEN lockout_level + 1 ELSE lockout_level
lockout_triggered ==
    /\ ~locked
    /\ consecutive_failures + 1 >= FAILURES_PER_LOCKOUT
    /\ lockout_until' = now + timeout
    /\ consecutive_failures' = 0
    /\ lockout_level' = raised
    /\ guesses' = guesses + 1 /\ lockouts' = lockouts + 1
    /\ penalty' = penalty + Promised(lockouts + 1)
    /\ UNCHANGED since
(* Called with or without a check before it. *)
record_failure ==
    /\ still_locked \/ failed \/ lockout_triggered
    /\ checked' = FALSE /\ UNCHANGED now
record_success ==
    /\ checked
    /\ consecutive_failures' = 0 /\ lockout_level' = 0 /\ lockout_until' = None
    /\ since' = now /\ guesses' = 0 /\ lockouts' = 0 /\ penalty' = 0
    /\ checked' = FALSE /\ UNCHANGED now

pass(d) == now + d <= MaxNow /\ now' = now + d /\ UNCHANGED <<state, checked, history>>

LockoutNext == check_attempt \/ record_failure \/ record_success \/ \E d \in Step : pass(d)
LockoutSpec == LockoutInit /\ [][LockoutNext]_lockout_vars

LockoutTypeOK ==
    /\ now \in Nat /\ checked \in BOOLEAN
    /\ consecutive_failures \in 0..(FAILURES_PER_LOCKOUT - 1)
    /\ lockout_level \in 0..(Len(LOCKOUT_SCHEDULE_SECONDS) - 1)
    /\ lockout_until \in Nat \cup {None}
    /\ since \in Nat /\ guesses \in Nat /\ lockouts \in Nat /\ penalty \in Nat

(* The point of the lockout: whoever keeps guessing since the last success *)
(* has had three wrong PINs per lockout and has waited out every one of    *)
(* them, in full and as the schedule promises, before another PIN counts.  *)
GuessingIsPaidFor ==
    /\ guesses = FAILURES_PER_LOCKOUT * lockouts + consecutive_failures
    /\ ~locked => now - since >= penalty

(* Refused attempts neither prolong nor shorten a lockout: as long as it   *)
(* runs only a success recorded for an attempt checked earlier ends it.    *)
LockoutIsFixed ==
    [][locked => lockout_until' = lockout_until \/ (checked /\ guesses' = 0 /\ lockout_until' = None)]_lockout_vars

(* Never locked out for longer than the schedule's last entry: the right   *)
(* PIN is accepted again at the latest after that time.                    *)
NeverLongerThanPromised ==
    locked => lockout_until - now <= Promised(lockouts)

(* The schedule of lockouts is kept, neither shorter nor longer.           *)
LockoutExact == /\ [](LockoutTypeOK /\ GuessingIsPaidFor /\ NeverLongerThanPromised)
                /\ LockoutIsFixed
=============================================================================
