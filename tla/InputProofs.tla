----------------------------- MODULE InputProofs ------------------------------
(***************************************************************************)
(* What reaches the service from outside.                                  *)
(*                                                                         *)
(* StateCodec, for any length of identifier and of lists: two hex digits   *)
(* and a byte are the same thing (BytesAsDigits, DigitsAsBytes), a set and *)
(* its list too (SetAsList); from there a state is what is read from its   *)
(* document if it may be stored (DocumentIsRead), and a document that is   *)
(* read is a storable state's (ReadIsStorable).                            *)
(*                                                                         *)
(* Credentials, for any PINs, salts, costs and edits: a file that nobody   *)
(* edited is what the set-up wrote (Untouched); an edited one holds the    *)
(* digest that was last put into it or none (Digest), so that no other     *)
(* PIN opens; what the codec accepts it would write back (RoundTrip).      *)
(*                                                                         *)
(* PinLockout, for every clock: the price of guessing, the longest         *)
(* lockout and its independence of what happens while it runs. The         *)
(* history variables and the code's own state must be tied to each other:  *)
(* the level is the number of lockouts capped at two, and what the         *)
(* lockouts should add up to never exceeds the time until the running one  *)
(* ends.                                                                   *)
(*                                                                         *)
(* IdSource, for any width: an identifier in use is reserved, or was given *)
(* out in this run, fewer calls ago than the sequence is long (Age, Given),*)
(* so that the next one is neither.                                        *)
(*                                                                         *)
(* WfpEngine, for any number of filters and size of page: a page is as long*)
(* as it can be and never longer than what is left (PagesAddUp), every     *)
(* allocation is freed, and an accepted descriptor is the child's alone.   *)
(*                                                                         *)
(* ScmProvisioning, for any order of faults and of other administrators:   *)
(* what the call has read of the entry is what the entry is, for as long   *)
(* as nobody else wrote to it (Undisturbed).                               *)
(*                                                                         *)
(* ScmQuery, for any buffer: after n units the strings read so far and the *)
(* one under way are those n units (ReadSo), so that a list that is read   *)
(* lies in the buffer; and a list that lies there is read string by string *)
(* (Inside), so that none is refused.                                      *)
(*                                                                         *)
(* IpcCodec, for any identifiers, PINs, wrong versions and number of       *)
(* faults: escaping and unescaping a PIN and an identifier give them back  *)
(* (PinRoundTrip, IdDigits), and no conversion takes two events to one     *)
(* (EventsDiffer). A document with one fault is the original with it,      *)
(* since that much is kept (Tampered), and each fault is refused with its  *)
(* own code (EnvelopeRefuses, RequestRefuses); one with more faults still  *)
(* has the shape of a document (Framed), in which nothing is accepted      *)
(* unread (Accepted).                                                      *)
(***************************************************************************)
EXTENDS StateCodec, Credentials, PinLockout, IdSource, WfpEngine, ScmProvisioning,
        ScmQuery, IpcCodec, DataInduction, FiniteSetTheorems

(* PinLockout *)
LockoutInv ==
    /\ LockoutTypeOK
    /\ since <= now
    /\ lockout_level = IF lockouts < 2 THEN lockouts ELSE 2
    /\ guesses = FAILURES_PER_LOCKOUT * lockouts + consecutive_failures
    /\ lockout_until = None => penalty <= now - since
    /\ lockout_until # None => /\ lockouts >= 1
                               /\ penalty <= lockout_until - since
                               /\ lockout_until <= now + Promised(lockouts)

\* The schedule, as numbers.
LEMMA Schedule ==
    /\ Len(LOCKOUT_SCHEDULE_SECONDS) = 3
    /\ LOCKOUT_SCHEDULE_SECONDS[1] = 30
    /\ LOCKOUT_SCHEDULE_SECONDS[2] = 60
    /\ LOCKOUT_SCHEDULE_SECONDS[3] = 300
BY DEF LOCKOUT_SCHEDULE_SECONDS

\* The ranges hold what a fresh PinLockoutState starts from.
LEMMA FreshLockout ==
    /\ 0 \in 0..(FAILURES_PER_LOCKOUT - 1)
    /\ 0 \in 0..(Len(LOCKOUT_SCHEDULE_SECONDS) - 1)
    /\ 0 = FAILURES_PER_LOCKOUT * 0 + 0
    /\ 0 \in Nat /\ None \in Nat \cup {None}
BY Schedule DEF FAILURES_PER_LOCKOUT

\* The code's index into the schedule, from the level, is the n-th lockout's.
LEMMA TimeoutIsPromised ==
    ASSUME LockoutInv
    PROVE  /\ timeout = Promised(lockouts + 1)
           /\ timeout \in Nat /\ timeout > 0
           /\ raised = IF lockouts + 1 < 2 THEN lockouts + 1 ELSE 2
<1>1. CASE lockouts = 0
    BY <1>1, Schedule DEF LockoutInv, LockoutTypeOK, timeout, raised, Promised
<1>2. CASE lockouts = 1
    BY <1>2, Schedule DEF LockoutInv, LockoutTypeOK, timeout, raised, Promised
<1>3. CASE lockouts >= 2
    BY <1>3, Schedule DEF LockoutInv, LockoutTypeOK, timeout, raised, Promised
<1> QED BY <1>1, <1>2, <1>3 DEF LockoutInv, LockoutTypeOK

\* Every lockout but the zeroth has a length.
LEMMA PromisedIsNat ==
    ASSUME NEW n \in Nat, n >= 1
    PROVE  Promised(n) \in Nat /\ Promised(n) > 0
<1>1. CASE n = 1
    BY <1>1, Schedule DEF Promised
<1>2. CASE n = 2
    BY <1>2, Schedule DEF Promised
<1>3. CASE n >= 3
    BY <1>3, Schedule DEF Promised
<1> QED BY <1>1, <1>2, <1>3

\* What has elapsed only grows.
LEMMA LaterIsLess ==
    ASSUME NEW a \in Nat, NEW b \in Nat, NEW c \in Nat, NEW p \in Nat, b >= a, p <= a - c
    PROVE  p <= b - c
OBVIOUS

\* A clock that has moved on only shortens what is left of a lockout.
LEMMA PassInv ==
    ASSUME LockoutInv, NEW d \in Step, pass(d)
    PROVE  LockoutInv'
<1>1. now' \in Nat /\ now' >= now
    BY StepAssumption DEF LockoutInv, LockoutTypeOK, pass
<1>2. UNCHANGED <<consecutive_failures, lockout_level, lockout_until, checked, since, guesses, lockouts, penalty>>
    BY DEF pass, state, history
<1>3. LockoutTypeOK'
    BY <1>1, <1>2 DEF LockoutInv, LockoutTypeOK
<1>4. ASSUME lockout_until # None
      PROVE  lockout_until <= now' + Promised(lockouts)
    <2>1. lockouts \in Nat /\ lockouts >= 1 /\ lockout_until \in Nat /\ now \in Nat
        BY <1>4 DEF LockoutInv, LockoutTypeOK
    <2>2. lockout_until <= now + Promised(lockouts)
        BY <1>4 DEF LockoutInv
    <2>3. Promised(lockouts) \in Nat
        BY <2>1, PromisedIsNat
    <2> QED BY <1>1, <2>1, <2>2, <2>3
<1>5. Promised(lockouts)' = Promised(lockouts)
    BY <1>2 DEF Promised
<1>6. since <= now' /\ (lockout_until = None => penalty <= now' - since)
    <2>1. now \in Nat /\ since \in Nat /\ penalty \in Nat
        BY DEF LockoutInv, LockoutTypeOK
    <2>2. since <= now'
        BY <1>1, <2>1 DEF LockoutInv
    <2>3. penalty <= now - since => penalty <= now' - since
        BY <1>1, <2>1, LaterIsLess
    <2> QED BY <2>2, <2>3 DEF LockoutInv
<1>7. lockout_until # None => lockouts >= 1 /\ penalty <= lockout_until - since
    BY DEF LockoutInv
<1> QED BY <1>2, <1>3, <1>4, <1>5, <1>6, <1>7 DEF LockoutInv

\* The third wrong PIN in a row: the lockout starts at an instant at which the
\* ones before it have been waited out, so it adds to what was paid so far.
LEMMA TriggeredInv ==
    ASSUME LockoutInv, lockout_triggered, checked' = FALSE, UNCHANGED now
    PROVE  LockoutInv'
<1> DEFINE length == Promised(lockouts + 1)
<1>1. length \in Nat /\ lockout_until' = now + length /\ lockout_level' = IF lockouts + 1 < 2 THEN lockouts + 1 ELSE 2
    BY TimeoutIsPromised DEF lockout_triggered
<1>2. lockouts \in Nat /\ now \in Nat /\ since \in Nat /\ penalty \in Nat /\ guesses \in Nat
    BY DEF LockoutInv, LockoutTypeOK
<1>3. penalty <= now - since
    BY <1>2 DEF LockoutInv, LockoutTypeOK, lockout_triggered, locked
<1>4. /\ lockouts' = lockouts + 1 /\ penalty' = penalty + length
      /\ guesses' = guesses + 1 /\ consecutive_failures' = 0 /\ since' = since
    BY DEF lockout_triggered
<1>5. Promised(lockouts)' = length
    BY <1>4 DEF Promised
<1>6. lockout_until' # None
    BY <1>1, <1>2 DEF None
<1>7. guesses' = FAILURES_PER_LOCKOUT * lockouts' + consecutive_failures'
    BY <1>2, <1>4 DEF LockoutInv, LockoutTypeOK, lockout_triggered, FAILURES_PER_LOCKOUT
<1>8. lockout_level' \in 0..2 /\ lockout_until' \in Nat
    BY <1>1, <1>2
<1>9. LockoutTypeOK'
    <2>1. penalty' \in Nat /\ guesses' \in Nat /\ lockouts' \in Nat /\ since' \in Nat /\ now' \in Nat
        BY <1>1, <1>2, <1>4
    <2>2. consecutive_failures' \in 0..(FAILURES_PER_LOCKOUT - 1)
        BY <1>4 DEF FAILURES_PER_LOCKOUT
    <2>3. lockout_level' \in 0..(Len(LOCKOUT_SCHEDULE_SECONDS) - 1)
        BY <1>8, Schedule
    <2>4. checked' \in BOOLEAN /\ lockout_until' \in Nat \cup {None}
        BY <1>8
    <2> QED BY <2>1, <2>2, <2>3, <2>4 DEF LockoutTypeOK
<1>10. penalty' <= lockout_until' - since' /\ lockout_until' <= now' + Promised(lockouts)'
    <2> HIDE DEF length
    <2> QED BY <1>1, <1>2, <1>3, <1>4, <1>5
<1> HIDE DEF length
<1> QED BY <1>1, <1>2, <1>4, <1>6, <1>7, <1>9, <1>10 DEF LockoutInv

\* A wrong PIN short of the third: a lockout that is over is forgotten, and was
\* waited out.
LEMMA FailedInv ==
    ASSUME LockoutInv, failed, checked' = FALSE, UNCHANGED now
    PROVE  LockoutInv'
<1>1. penalty <= now - since
    BY DEF LockoutInv, LockoutTypeOK, failed, locked
<1>2. LockoutTypeOK'
    <2>1. guesses' \in Nat /\ consecutive_failures' \in 0..(FAILURES_PER_LOCKOUT - 1)
        BY DEF LockoutInv, LockoutTypeOK, failed, FAILURES_PER_LOCKOUT
    <2>2. checked' \in BOOLEAN /\ lockout_until' \in Nat \cup {None}
        BY DEF failed
    <2> QED BY <2>1, <2>2 DEF LockoutInv, LockoutTypeOK, failed
<1> QED BY <1>1, <1>2 DEF LockoutInv, LockoutTypeOK, failed, FAILURES_PER_LOCKOUT, Promised

\* Every step preserves the inductive invariant.
LEMMA LockoutStep ==
    ASSUME LockoutInv, [LockoutNext]_lockout_vars
    PROVE  LockoutInv'
<1>1. CASE check_attempt
    BY <1>1 DEF LockoutInv, LockoutTypeOK, check_attempt, state, history, Promised
<1>2. CASE record_failure
    <2>1. checked' = FALSE /\ UNCHANGED now
        BY <1>2 DEF record_failure
    <2>2. CASE still_locked
        BY <2>1, <2>2 DEF LockoutInv, LockoutTypeOK, still_locked, state, history, Promised
    <2> QED BY <1>2, <2>1, <2>2, FailedInv, TriggeredInv DEF record_failure
<1>3. CASE record_success
    <2>1. now \in Nat /\ now' = now /\ since' = now
        BY <1>3 DEF LockoutInv, LockoutTypeOK, record_success
    <2>2. /\ consecutive_failures' = 0 /\ lockout_level' = 0 /\ lockout_until' = None
          /\ guesses' = 0 /\ lockouts' = 0 /\ penalty' = 0
        BY <1>3 DEF record_success
    <2>3. checked' \in BOOLEAN
        BY <1>3 DEF record_success
    <2>4. LockoutTypeOK'
        BY <2>1, <2>2, <2>3, FreshLockout DEF LockoutTypeOK
    <2> QED BY <2>1, <2>2, <2>4, FreshLockout DEF LockoutInv
<1>4. CASE \E d \in Step : pass(d)
    BY <1>4, PassInv
<1>5. CASE UNCHANGED lockout_vars
    BY <1>5 DEF LockoutInv, LockoutTypeOK, lockout_vars, state, history, Promised
<1> QED BY <1>1, <1>2, <1>3, <1>4, <1>5 DEF LockoutNext

\* The inductive invariant holds in every state of PinLockoutState.
THEOREM LockoutInvariance == LockoutSpec => []LockoutInv
<1>1. LockoutInit => LockoutInv
    <2> SUFFICES ASSUME LockoutInit PROVE LockoutInv
        OBVIOUS
    <2>1. LockoutTypeOK
        BY FreshLockout DEF LockoutInit, LockoutTypeOK
    <2> QED BY <2>1, FreshLockout DEF LockoutInit, LockoutInv
<1> QED BY <1>1, LockoutStep, PTL DEF LockoutSpec

\* The counters of PinLockoutState stay in their ranges: the level never
\* indexes the schedule out of bounds.
THEOREM LockoutTypeCorrect == LockoutSpec => []LockoutTypeOK
<1>1. LockoutInv => LockoutTypeOK
    BY DEF LockoutInv
<1> QED BY <1>1, LockoutInvariance, PTL

\* Guessing is paid for, whatever the clock does and however long it runs:
\* between two successes every third wrong PIN has cost the whole of its
\* lockout before another one counts.
THEOREM PaidFor == LockoutSpec => []GuessingIsPaidFor
<1>1. LockoutInv => GuessingIsPaidFor
    BY DEF LockoutInv, LockoutTypeOK, GuessingIsPaidFor, locked
<1> QED BY <1>1, LockoutInvariance, PTL

\* No lockout outlasts the entry of the schedule that it was given.
THEOREM BoundedLockout == LockoutSpec => []NeverLongerThanPromised
<1>1. LockoutInv => NeverLongerThanPromised
    <2> SUFFICES ASSUME LockoutInv, locked
                 PROVE  lockout_until - now <= Promised(lockouts)
        BY DEF NeverLongerThanPromised
    <2>1. lockouts \in Nat /\ lockouts >= 1 /\ lockout_until \in Nat /\ now \in Nat
        BY DEF LockoutInv, LockoutTypeOK, locked
    <2>2. Promised(lockouts) \in Nat
        BY <2>1, PromisedIsNat
    <2>3. lockout_until <= now + Promised(lockouts)
        BY DEF LockoutInv, locked
    <2> QED BY <2>1, <2>2, <2>3
<1> QED BY <1>1, LockoutInvariance, PTL

\* Nothing but a success ends or moves a lockout that is running.
THEOREM FixedLockout == LockoutSpec => LockoutIsFixed
<1>1. ASSUME [LockoutNext]_lockout_vars, locked
      PROVE  lockout_until' = lockout_until \/ (checked /\ guesses' = 0 /\ lockout_until' = None)
    BY <1>1 DEF LockoutNext, lockout_vars, state, history, check_attempt, record_failure, still_locked, failed,
                lockout_triggered, record_success, pass
<1>2. [LockoutNext]_lockout_vars => [locked => lockout_until' = lockout_until
                                     \/ (checked /\ guesses' = 0 /\ lockout_until' = None)]_lockout_vars
    BY <1>1
<1> QED BY <1>2, PTL DEF LockoutSpec, LockoutIsFixed

\* The schedule is kept exactly: no guess is cheaper than it says, no lockout
\* is longer, and none is moved by the attempts it refuses.
THEOREM ExactLockout == LockoutSpec => LockoutExact
BY LockoutTypeCorrect, PaidFor, BoundedLockout, FixedLockout, PTL DEF LockoutExact

-----------------------------------------------------------------------------
(* IdSource *)
Space == 2 ^ Bits

\* How many calls ago the sequence gave out an identifier, its turn being next
\* after Space calls.
Age(i) == IF i < next_value THEN next_value - i ELSE next_value + Space - i
Given(i) == Age(i) <= calls
Holding(c) == ids_pc[c] = "holding"

IdsTypes ==
    /\ up \in BOOLEAN /\ next_value \in Id /\ reserved_ids \subseteq Id /\ calls \in 0..MaxCalls
    /\ ids_pc \in [Caller -> {"idle", "looping", "holding"}] /\ candidate \in [Caller -> Id]
    /\ carriers \in [Place -> [Id -> Nat]]
Idle == ~up => \A c \in Caller : ids_pc[c] = "idle"
(* What carries an identifier was there at the start or got it since. *)
Known(i) == up /\ Carried(i) > 0 => i \in reserved_ids \/ Given(i)
Held(c) == up /\ Holding(c) => candidate[c] \notin reserved_ids /\ Given(candidate[c])

IdsInv == /\ IdsTypes /\ Idle /\ NoSharedId
          /\ \A i \in Id : Known(i)
          /\ \A c \in Caller : Held(c)

\* The identifiers are numbers below Space.
LEMMA SpaceFacts ==
    Space \in Nat \ {0} /\ MaxCalls \in Nat /\ MaxCalls <= Space /\ Id = 0..(Space - 1)
BY IdAssumption DEF Space, Id

\* The number of carriers of an identifier.
LEMMA CarriedType ==
    ASSUME NEW i \in Id, carriers \in [Place -> [Id -> Nat]]
    PROVE  /\ Carried(i) \in Nat
           /\ \A p \in Place : carriers[p][i] \in Nat /\ carriers[p][i] <= Carried(i)
           /\ Carried(i) = 0 <=> \A p \in Place : carriers[p][i] = 0
<1>1. carriers["active_actions"][i] \in Nat /\ carriers["telegram_outbox"][i] \in Nat
    BY DEF Place
<1> QED BY <1>1 DEF Carried, Place

\* One call ages every identifier but the one it gives out.
LEMMA Ageing ==
    ASSUME IdsTypes, next_value' = wrapping_add_1(next_value), calls' = calls + 1,
           calls < MaxCalls, NEW i \in Id
    PROVE  /\ i # next_value /\ Given(i) => Given(i)'
           /\ i = next_value => Given(i)' /\ ~Given(i)
<1>1. PICK S \in Nat \ {0} : S = Space /\ calls < S /\ calls \in Nat
    BY SpaceFacts DEF IdsTypes
<1>2. next_value \in 0..(S - 1) /\ i \in 0..(S - 1)
    BY <1>1, SpaceFacts DEF IdsTypes
<1>3. next_value' = (next_value + 1) % S
    BY <1>1 DEF wrapping_add_1, Space
<1>4. next_value' = IF next_value + 1 = S THEN 0 ELSE next_value + 1
    BY <1>2, <1>3
<1>5. /\ Given(i) <=> (IF i < next_value THEN next_value - i ELSE next_value + S - i) <= calls
      /\ Given(i)' <=> (IF i < next_value' THEN next_value' - i ELSE next_value' + S - i) <= calls'
    BY <1>1 DEF Given, Age, Space
<1> HIDE DEF Given, Age, Space
<1>6. ASSUME i # next_value, Given(i) PROVE Given(i)'
    BY <1>1, <1>2, <1>4, <1>5, <1>6
<1>7. ASSUME i = next_value PROVE Given(i)' /\ ~Given(i)
    BY <1>1, <1>2, <1>4, <1>5, <1>7
<1> QED BY <1>6, <1>7

\* What a step leaves of the identifiers given out and carried.
SameIds == UNCHANGED <<next_value, reserved_ids, calls, candidate>>

\* from_production reserves whatever carries an identifier.
LEMMA StartIds ==
    ASSUME IdsInv, from_production
    PROVE  IdsInv'
<1>1. IdsTypes'
    BY SpaceFacts DEF IdsInv, IdsTypes, from_production
<1>2. \A c \in Caller : ids_pc'[c] = "idle"
    BY DEF IdsInv, Idle, from_production
<1>3. carriers' = carriers /\ candidate' = candidate
    BY DEF from_production
<1>4. ASSUME NEW i \in Id PROVE Known(i)' /\ Carried(i)' = Carried(i)
    <2>1. Carried(i)' = Carried(i)
        BY <1>3 DEF Carried
    <2>2. CASE Carried(i) = 0
        BY <2>1, <2>2 DEF Known
    <2>3. CASE Carried(i) # 0
        <3>1. \E p \in Place : carriers[p][i] > 0
            BY <2>3, CarriedType DEF IdsInv, IdsTypes
        <3>2. i \in reserved_ids'
            BY <3>1 DEF from_production, reserves
        <3> QED BY <2>1, <3>2 DEF Known
    <2> QED BY <2>1, <2>2, <2>3
<1>5. \A c \in Caller : Held(c)'
    BY <1>2 DEF Held, Holding
<1>6. NoSharedId'
    BY <1>2, <1>4 DEF IdsInv, NoSharedId
<1> QED BY <1>1, <1>2, <1>4, <1>5, <1>6 DEF IdsInv, Idle

\* next_128: a fresh identifier, unless it is reserved.
LEMMA CallIds ==
    ASSUME IdsInv, NEW c \in Caller, next_128(c)
    PROVE  IdsInv'
<1>1. /\ up /\ up' = up /\ calls < MaxCalls /\ calls' = calls + 1 /\ reserved_ids' = reserved_ids
      /\ carriers' = carriers /\ ids_pc[c] = "looping"
      /\ next_value' = wrapping_add_1(next_value)
      /\ candidate' = [candidate EXCEPT ![c] = next_value]
      /\ ids_pc' = [ids_pc EXCEPT ![c] = IF next_value \in reserved_ids THEN "looping" ELSE "holding"]
    BY DEF next_128
<1>2. IdsTypes
    BY DEF IdsInv
<1>3. next_value' \in Id /\ calls' \in 0..MaxCalls
    <2>1. PICK S \in Nat \ {0} : S = Space /\ Id = 0..(S - 1)
        BY SpaceFacts
    <2>2. next_value \in 0..(S - 1) /\ next_value' = (next_value + 1) % S
        BY <1>1, <1>2, <2>1 DEF IdsTypes, wrapping_add_1, Space
    <2>3. next_value' \in 0..(S - 1)
        BY <2>1, <2>2
    <2> QED BY <1>1, <1>2, <2>1, <2>3, SpaceFacts DEF IdsTypes
<1>4. IdsTypes' /\ Idle'
    BY <1>1, <1>2, <1>3 DEF IdsTypes, Idle
<1>5. \A i \in Id : Carried(i)' = Carried(i)
    BY <1>1 DEF Carried
<1>6. \A i \in Id : Known(i)'
    BY <1>1, <1>2, <1>5, Ageing DEF IdsInv, Known
<1>7. Carried(next_value) = 0 \/ next_value \in reserved_ids
    BY <1>1, <1>2, Ageing, CarriedType DEF IdsInv, Known, IdsTypes
<1>8. ASSUME NEW d \in Caller \ {c}, Holding(d)'
      PROVE  /\ Holding(d) /\ candidate'[d] = candidate[d] /\ candidate[d] \in Id
             /\ Held(d)' /\ candidate[d] # next_value
    <2>1. Holding(d) /\ candidate'[d] = candidate[d] /\ candidate[d] \in Id
        BY <1>1, <1>2, <1>8 DEF IdsTypes, Holding
    <2>2. Given(candidate[d]) /\ candidate[d] \notin reserved_ids
        BY <1>1, <2>1 DEF IdsInv, Held
    <2>3. PICK i \in Id : i = candidate[d]
        BY <2>1
    <2>4. Given(i)' /\ i # next_value
        BY <1>1, <1>2, <2>2, <2>3, Ageing
    <2>5. Given(candidate[d])'
        BY <2>1, <2>3, <2>4 DEF Given, Age
    <2> QED BY <1>1, <2>1, <2>2, <2>3, <2>4, <2>5 DEF Held
<1>9. Held(c)'
    <2>1. CASE next_value \in reserved_ids
        BY <1>1, <1>2, <2>1 DEF Held, Holding, IdsTypes
    <2>2. CASE next_value \notin reserved_ids
        <3>1. PICK i \in Id : i = next_value
            BY <1>2 DEF IdsTypes
        <3>2. Given(i)'
            BY <1>1, <1>2, <3>1, Ageing
        <3>3. candidate'[c] = i
            BY <1>1, <1>2, <3>1 DEF IdsTypes
        <3> QED BY <1>1, <2>2, <3>1, <3>2, <3>3 DEF Held, Given, Age
    <2> QED BY <2>1, <2>2
<1>10. \A d \in Caller : Held(d)'
    BY <1>8, <1>9 DEF Held
<1>11. NoSharedId'
    <2>1. \A i \in Id : Carried(i)' <= 1
        BY <1>5 DEF IdsInv, NoSharedId
    <2>2. ASSUME NEW d \in Caller, Holding(d)'
          PROVE  /\ Carried(candidate[d])' = 0
                 /\ \A e \in Caller \ {d} : Holding(e)' => candidate'[e] # candidate'[d]
        <3>1. CASE d = c
            <4>1. next_value \notin reserved_ids /\ candidate'[c] = next_value
                BY <1>1, <1>2, <2>2, <3>1 DEF Holding, IdsTypes
            <4>2. Carried(candidate[c])' = 0
                BY <1>1, <1>7, <4>1 DEF Carried
            <4> QED BY <1>8, <3>1, <4>1, <4>2
        <3>2. CASE d # c
            <4>1. Holding(d) /\ candidate'[d] = candidate[d] /\ candidate[d] # next_value
                BY <1>8, <2>2, <3>2
            <4>2. Carried(candidate[d])' = 0
                <5>1. Carried(candidate[d]) = 0
                    BY <1>1, <4>1 DEF IdsInv, NoSharedId, Holding
                <5> QED BY <1>1, <4>1, <5>1 DEF Carried
            <4>3. ASSUME NEW e \in Caller \ {d}, Holding(e)' PROVE candidate'[e] # candidate'[d]
                <5>1. CASE e = c
                    BY <1>1, <1>2, <4>1, <5>1 DEF IdsTypes
                <5>2. CASE e # c
                    BY <1>1, <1>8, <4>1, <4>3, <5>2 DEF IdsInv, NoSharedId, Holding
                <5> QED BY <5>1, <5>2
            <4> QED BY <4>2, <4>3
        <3> QED BY <3>1, <3>2
    <2> QED BY <2>1, <2>2 DEF NoSharedId, Holding
<1> QED BY <1>4, <1>6, <1>10, <1>11 DEF IdsInv

\* The identifier of a caller is stored: it had no carrier.
LEMMA StoreIds ==
    ASSUME IdsInv, NEW c \in Caller, NEW p \in Place, store(c, p)
    PROVE  IdsInv'
<1>1. /\ up /\ up' = up /\ SameIds /\ Holding(c)
      /\ ids_pc' = [ids_pc EXCEPT ![c] = "idle"]
      /\ carriers' = [carriers EXCEPT ![p][candidate[c]] = @ + 1]
    BY DEF store, SameIds, Holding
<1>2. IdsTypes /\ candidate[c] \in Id
    BY DEF IdsInv, IdsTypes
<1>3. IdsTypes' /\ Idle'
    <2>1. carriers' \in [Place -> [Id -> Nat]]
        BY <1>1, <1>2 DEF IdsTypes
    <2> QED BY <1>1, <1>2, <2>1 DEF IdsTypes, SameIds, Idle
<1>4. ASSUME NEW i \in Id \ {candidate[c]} PROVE Carried(i)' = Carried(i)
    BY <1>1, <1>2 DEF Carried, IdsTypes, Place
<1>5. Carried(candidate[c]) = 0 /\ Held(c)
    BY <1>1 DEF IdsInv, NoSharedId, Holding
<1>6. carriers["active_actions"][candidate[c]] = 0 /\ carriers["telegram_outbox"][candidate[c]] = 0
    BY <1>2, <1>5, CarriedType DEF IdsTypes, Place
<1>7. ASSUME NEW i \in Id, i = candidate[c] PROVE Carried(i)' = 1
    <2>1. /\ carriers'[p][i] = carriers[p][i] + 1
          /\ \A q \in Place \ {p} : carriers'[q][i] = carriers[q][i]
        BY <1>1, <1>2, <1>7 DEF IdsTypes
    <2> QED BY <1>6, <1>7, <2>1 DEF Carried, Place
<1>8. ASSUME NEW i \in Id PROVE Given(i)' = Given(i)
    BY <1>1 DEF Given, Age, SameIds
<1>9. \A i \in Id : Known(i)'
    <2>1. ASSUME NEW i \in Id PROVE Known(i)'
        <3>1. CASE i = candidate[c]
            BY <1>1, <1>5, <1>8, <3>1 DEF Known, Held, Given, Age, SameIds
        <3>2. CASE i # candidate[c]
            BY <1>1, <1>4, <1>8, <3>2 DEF IdsInv, Known, SameIds
        <3> QED BY <3>1, <3>2
    <2> QED BY <2>1
<1>10. \A d \in Caller : Held(d)'
    BY <1>1, <1>2 DEF IdsInv, Held, Holding, Given, Age, SameIds, IdsTypes
<1>11. NoSharedId'
    <2>1. \A i \in Id : Carried(i)' <= 1
        BY <1>4, <1>7 DEF IdsInv, NoSharedId
    <2>2. ASSUME NEW d \in Caller, Holding(d)'
          PROVE  /\ Carried(candidate[d])' = 0
                 /\ \A e \in Caller \ {d} : Holding(e)' => candidate'[e] # candidate'[d]
        <3>1. d # c /\ Holding(d) /\ candidate' = candidate
            BY <1>1, <1>2, <2>2 DEF Holding, SameIds, IdsTypes
        <3>2. candidate[d] # candidate[c] /\ candidate[d] \in Id /\ Carried(candidate[d]) = 0
            BY <1>1, <1>2, <3>1 DEF IdsInv, NoSharedId, Holding, IdsTypes
        <3>3. PICK i \in Id : i = candidate[d]
            BY <3>2
        <3>4. Carried(i)' = 0
            BY <1>4, <3>2, <3>3
        <3>5. Carried(candidate[d])' = 0
            BY <3>1, <3>3, <3>4 DEF Carried
        <3>6. ASSUME NEW e \in Caller \ {d}, Holding(e)' PROVE Holding(e)
            BY <1>1, <1>2, <3>6 DEF Holding, IdsTypes
        <3> QED BY <1>1, <3>1, <3>5, <3>6 DEF IdsInv, NoSharedId, Holding
    <2> QED BY <2>1, <2>2 DEF NoSharedId, Holding
<1> QED BY <1>3, <1>9, <1>10, <1>11 DEF IdsInv

\* What carried an identifier goes.
LEMMA RemoveIds ==
    ASSUME IdsInv, NEW p \in Place, NEW i \in Id, remove(p, i)
    PROVE  IdsInv'
<1>1. /\ up /\ up' = up /\ SameIds /\ ids_pc' = ids_pc /\ carriers[p][i] > 0
      /\ carriers' = [carriers EXCEPT ![p][i] = @ - 1]
    BY DEF remove, SameIds
<1>2. IdsTypes
    BY DEF IdsInv
<1>3. IdsTypes' /\ Idle'
    <2>1. carriers' \in [Place -> [Id -> Nat]]
        BY <1>1, <1>2 DEF IdsTypes
    <2> QED BY <1>1, <1>2, <2>1 DEF IdsTypes, SameIds, Idle
<1>4. ASSUME NEW j \in Id PROVE Carried(j)' \in Nat /\ Carried(j)' <= Carried(j)
    <2>1. \A q \in Place : carriers'[q][j] \in Nat /\ carriers'[q][j] <= carriers[q][j] /\ carriers[q][j] \in Nat
        BY <1>1, <1>2 DEF IdsTypes
    <2> QED BY <2>1 DEF Carried, Place
<1>5. \A j \in Id : Known(j)'
    <2>1. ASSUME NEW j \in Id PROVE Known(j)'
        <3>1. Carried(j) \in Nat
            BY <1>2, CarriedType DEF IdsTypes
        <3>2. Known(j)
            BY DEF IdsInv
        <3> QED BY <1>1, <1>4, <3>1, <3>2 DEF Known, SameIds, Given, Age
    <2> QED BY <2>1
<1>6. \A c \in Caller : Held(c)'
    BY <1>1 DEF IdsInv, Held, Holding, Given, Age, SameIds
<1>7. NoSharedId'
    <2>1. \A j \in Id : Carried(j)' <= 1
        <3>1. ASSUME NEW j \in Id PROVE Carried(j)' <= 1
            <4>1. Carried(j) <= 1 /\ Carried(j) \in Nat
                BY <1>2, CarriedType DEF IdsInv, NoSharedId, IdsTypes
            <4> QED BY <1>4, <4>1
        <3> QED BY <3>1
    <2>2. ASSUME NEW c \in Caller, Holding(c)
          PROVE  Carried(candidate[c])' = 0
        <3>1. PICK j \in Id : j = candidate[c]
            BY <1>2 DEF IdsTypes
        <3>2. Carried(j) = 0
            BY <1>1, <2>2, <3>1 DEF IdsInv, NoSharedId, Holding
        <3>3. Carried(j)' = 0
            BY <1>4, <3>2
        <3> QED BY <1>1, <3>1, <3>3 DEF Carried, SameIds
    <2> QED BY <1>1, <2>1, <2>2 DEF IdsInv, NoSharedId, Holding, SameIds
<1> QED BY <1>3, <1>5, <1>6, <1>7 DEF IdsInv

\* Steps that give out and store nothing.
LEMMA QuietIds ==
    ASSUME IdsInv,
           \/ \E c \in Caller : next_timer_or_outbox_id(c) \/ forget(c)
           \/ stop_or_crash \/ UNCHANGED ids_vars
    PROVE  IdsInv'
<1>1. SameIds /\ carriers' = carriers
    BY DEF next_timer_or_outbox_id, forget, stop_or_crash, ids_vars, SameIds
<1>2. IdsTypes' /\ Idle'
    BY <1>1 DEF IdsInv, IdsTypes, Idle, next_timer_or_outbox_id, forget, stop_or_crash, ids_vars, SameIds
<1>3. \A d \in Caller : up' /\ Holding(d)' => up /\ Holding(d)
    BY DEF IdsInv, IdsTypes, Holding, next_timer_or_outbox_id, forget, stop_or_crash, ids_vars
<1>4. up' => up
    BY DEF next_timer_or_outbox_id, forget, stop_or_crash, ids_vars
<1>5. \A i \in Id : Known(i)'
    BY <1>1, <1>4 DEF IdsInv, Known, Carried, Given, Age, SameIds
<1>6. \A d \in Caller : Held(d)'
    BY <1>1, <1>3 DEF IdsInv, Held, Given, Age, SameIds
<1>7. NoSharedId'
    BY <1>1, <1>3 DEF IdsInv, NoSharedId, Holding, Carried, SameIds
<1> QED BY <1>2, <1>5, <1>6, <1>7 DEF IdsInv

\* No two persisted things, and no caller about to store one, share an
\* identifier: within one run the sequence cannot come round, and what an earlier
\* run left behind is reserved.
THEOREM IdsUnique == IdsSpec => []NoSharedId
<1>1. ASSUME IdsInit PROVE IdsInv
    <2>1. 0 \in Id /\ 0 \in 0..MaxCalls
        BY SpaceFacts
    <2>2. IdsTypes
        BY <1>1, <2>1 DEF IdsInit, IdsTypes
    <2>3. \A i \in Id : Carried(i) = 0
        BY <1>1 DEF IdsInit, Carried, Place
    <2> QED BY <1>1, <2>2, <2>3 DEF IdsInit, IdsInv, Idle, Known, Held, NoSharedId, Holding
<1>2. IdsInv /\ [IdsNext]_ids_vars => IdsInv'
    <2> SUFFICES ASSUME IdsInv, [IdsNext]_ids_vars PROVE IdsInv'
        OBVIOUS
    <2> QED BY StartIds, CallIds, StoreIds, RemoveIds, QuietIds DEF IdsNext
<1>3. IdsInv => NoSharedId
    BY DEF IdsInv
<1> QED BY <1>1, <1>2, <1>3, PTL DEF IdsSpec

-----------------------------------------------------------------------------
(* WfpEngine *)
EngineTypes ==
    /\ engine_pc \in {"create", "page", "classify", "done", "failed"} /\ enum_handle \in BOOLEAN
    /\ total \in Nat /\ got \in Nat /\ page \in [count : Nat, ptr : BOOLEAN]

(* Between two pages no memory is held; a page is as long as it can be.    *)
PagesAddUp ==
    /\ engine_pc \in {"create", "page"} => pages_live = 0
    /\ engine_pc = "create" => got = 0 /\ enum_handle = FALSE
    /\ engine_pc \in {"page", "classify"} => got <= total
    /\ engine_pc = "classify" =>
          /\ pages_live = freed_on_exit
          /\ page.count = IF total - got < PAGE_SIZE THEN total - got ELSE PAGE_SIZE
EngineInv == EngineTypes /\ PagesAddUp /\ EngineReadExact

\* A condition the parser and the judge accept is a list of one effective entry
\* that allows the child.
LEMMA CanonicalIsSingle ==
    ASSUME NEW d \in StoredDescriptor, is_canonical_condition(parse_security_descriptor_condition(d), Child)
    PROVE  /\ d.valid /\ d.dacl.kind = "acl" /\ Len(d.dacl.aces) = 1
           /\ LET a == d.dacl.aces[1] IN a.type = "allow" /\ a.flags = 0 /\ a.sid = Child
<1> DEFINE c == parse_security_descriptor_condition(d)
<1>1. d.valid /\ d.dacl.kind = "acl"
    BY DEF is_canonical_condition, parse_security_descriptor_condition, Malformed
<1>2. c = [is_valid_sd |-> TRUE, dacl_present |-> TRUE, is_self_relative |-> d.self,
           aces |-> [i \in 1..Len(d.dacl.aces) |-> snapshot(d.dacl.aces[i])]]
    BY <1>1 DEF is_canonical_condition, parse_security_descriptor_condition, Malformed
<1> DEFINE s == d.dacl.aces
<1>3. PICK n \in Nat : s \in [1..n -> Ace] /\ s \in Seq(Ace)
    <2>1. CASE \E k \in Account : d = create_child_sid_condition_sd(k)
        <3>1. PICK k \in Account : d = create_child_sid_condition_sd(k)
            BY <2>1
        <3> DEFINE a == [type |-> "allow", readable |-> TRUE, sid |-> k,
                         mask |-> FWP_ACTRL_MATCH_FILTER, flags |-> 0]
                   t == <<a>>
        <3>2. d.dacl.aces = t
            BY <3>1 DEF create_child_sid_condition_sd, Descriptor, Dacl
        <3>3. a \in Ace
            BY DEF Ace, FWP_ACTRL_MATCH_FILTER
        <3> HIDE DEF a
        <3>4. t \in [1..1 -> Ace] /\ t \in Seq(Ace)
            BY <3>3
        <3> HIDE DEF t
        <3> QED BY <3>2, <3>4
    <2>2. CASE d \in {Descriptor(v, f, e) : v \in BOOLEAN, f \in BOOLEAN, e \in {NoDacl, BadAcl} \cup {Dacl(t) : t \in AceSeq}}
        <3>1. PICK e \in {NoDacl, BadAcl} \cup {Dacl(t) : t \in AceSeq} : d.dacl = e
            BY <2>2 DEF Descriptor
        <3>2. PICK t \in AceSeq : e = Dacl(t)
            BY <1>1, <3>1 DEF NoDacl, BadAcl
        <3>3. PICK n \in 0..MaxAces : t \in [1..n -> Ace]
            BY <3>2 DEF AceSeq
        <3>4. n \in Nat
            OBVIOUS
        <3>5. t \in Seq(Ace)
            BY <3>3, <3>4
        <3>6. d.dacl.aces = t
            BY <3>1, <3>2 DEF Dacl
        <3> QED BY <3>3, <3>4, <3>5, <3>6
    <2> QED BY <2>1, <2>2 DEF StoredDescriptor
<1>4. Len(s) = n
    BY <1>3
<1>5. c.aces = [i \in 1..n |-> snapshot(s[i])]
    BY <1>2, <1>4
<1> HIDE DEF c, s
<1>6. Len(c.aces) = 1 /\ c.aces[1] = [sid |-> Child, mask |-> FWP_ACTRL_MATCH_FILTER, is_allow |-> TRUE, ace_flags |-> 0]
    BY DEF is_canonical_condition, c
<1>7. n = 1
    BY <1>3, <1>5, <1>6
<1>8. snapshot(s[1]) = [sid |-> Child, mask |-> FWP_ACTRL_MATCH_FILTER, is_allow |-> TRUE, ace_flags |-> 0]
    BY <1>5, <1>6, <1>7
<1>9. snapshot(s[1]).is_allow = TRUE /\ snapshot(s[1]).sid = Child /\ snapshot(s[1]).ace_flags = 0
    BY <1>8
<1>10. s[1].type # "other"
    BY <1>9 DEF snapshot
<1>11. s[1].type = "allow" /\ s[1].sid = Child /\ s[1].flags = 0
    BY <1>9, <1>10 DEF snapshot
<1> QED BY <1>1, <1>4, <1>7, <1>11 DEF s

\* The descriptor the gate stores is one the judge accepts.
LEMMA OwnIsCanonical ==
    is_canonical_condition(parse_security_descriptor_condition(create_child_sid_condition_sd(Child)), Child)
<1> DEFINE d == create_child_sid_condition_sd(Child)
           a == [type |-> "allow", readable |-> TRUE, sid |-> Child, mask |-> FWP_ACTRL_MATCH_FILTER, flags |-> 0]
<1>1. d = [valid |-> TRUE, self |-> TRUE, dacl |-> [kind |-> "acl", aces |-> <<a>>]]
    BY DEF create_child_sid_condition_sd, Descriptor, Dacl
<1>2. snapshot(a) = [sid |-> Child, mask |-> FWP_ACTRL_MATCH_FILTER, is_allow |-> TRUE, ace_flags |-> 0]
    BY DEF snapshot
<1>3. a.readable = TRUE
    OBVIOUS
<1> HIDE DEF a
<1>4. d.valid = TRUE /\ d.self = TRUE /\ d.dacl.kind = "acl" /\ d.dacl.aces = <<a>>
    BY <1>1
<1> HIDE DEF d
<1>5. Len(d.dacl.aces) = 1 /\ \A i \in 1..1 : d.dacl.aces[i] = a
    BY <1>4
<1>6. parse_security_descriptor_condition(d) =
        [is_valid_sd |-> TRUE, dacl_present |-> TRUE, is_self_relative |-> TRUE, aces |-> [i \in 1..1 |-> snapshot(a)]]
    BY <1>3, <1>4, <1>5 DEF parse_security_descriptor_condition
<1>7. Len([i \in 1..1 |-> snapshot(a)]) = 1 /\ [i \in 1..1 |-> snapshot(a)][1] = snapshot(a)
    OBVIOUS
<1>8. is_canonical_condition(parse_security_descriptor_condition(d), Child)
    BY <1>2, <1>6, <1>7 DEF is_canonical_condition
<1> QED BY <1>8 DEF d

\* A list of one effective entry that allows the child matches the child only.
LEMMA SingleMatches ==
    ASSUME NEW d, d.valid, d.dacl.kind = "acl", Len(d.dacl.aces) = 1, d.dacl.aces[1].type = "allow",
           d.dacl.aces[1].flags = 0, d.dacl.aces[1].sid = Child
    PROVE  Matches(d) = {Child}
<1>1. Matches(d) = {s \in Account : \E i \in 1..Len(d.dacl.aces) :
                      LET a == d.dacl.aces[i]
                      IN  /\ a.type = "allow" /\ Effective(a) /\ a.sid = s
                          /\ \A j \in 1..(i - 1) : ~(d.dacl.aces[j].type = "deny"
                                                     /\ Effective(d.dacl.aces[j]) /\ d.dacl.aces[j].sid = s)}
    BY DEF Matches
<1>2. \A i : i \in 1..Len(d.dacl.aces) <=> i = 1
    OBVIOUS
<1>3. \A j : j \notin 1..(1 - 1)
    OBVIOUS
<1> QED BY <1>1, <1>2, <1>3, EngineAssumption DEF Effective

\* Each step keeps the invariant: the pages add up to what was there.
LEMMA EngineStep ==
    ASSUME EngineInv, [EngineNext]_engine_vars
    PROVE  EngineInv'
<1>0. EngineTypes /\ PagesAddUp /\ AcceptedMatchesChildOnly /\ EnumerationComplete /\ NothingLeaked
    BY DEF EngineInv, EngineReadExact
<1>1. CASE judge
    <2>1. sd' \in StoredDescriptor /\ UNCHANGED <<engine_pc, total, got, page, pages_live, enum_handle>>
          /\ judged' = IF is_canonical_condition(parse_security_descriptor_condition(sd'), Child)
                       THEN "canonical" ELSE "other"
        BY <1>1 DEF judge
    <2>2. judged' = "canonical" => Matches(sd') = {Child}
        <3>1. SUFFICES ASSUME judged' = "canonical" PROVE Matches(sd') = {Child}
            OBVIOUS
        <3>2. PICK d : d = sd'
            OBVIOUS
        <3>3. is_canonical_condition(parse_security_descriptor_condition(d), Child)
            BY <2>1, <3>1, <3>2
        <3> QED BY <2>1, <3>2, <3>3, CanonicalIsSingle, SingleMatches
    <2>3. judged' = "other" => sd' # create_child_sid_condition_sd(Child)
        BY <2>1, OwnIsCanonical
    <2>4. AcceptedMatchesChildOnly'
        BY <2>2, <2>3 DEF AcceptedMatchesChildOnly
    <2>5. EngineTypes' /\ PagesAddUp' /\ EnumerationComplete' /\ NothingLeaked'
        BY <1>0, <2>1 DEF EngineTypes, PagesAddUp, EnumerationComplete, NothingLeaked, freed_on_exit
    <2> QED BY <2>4, <2>5 DEF EngineInv, EngineReadExact
<1>2. ASSUME UNCHANGED <<sd, judged>>, EngineTypes', PagesAddUp', EnumerationComplete', NothingLeaked'
      PROVE  EngineInv'
    BY <1>0, <1>2 DEF EngineInv, EngineReadExact, AcceptedMatchesChildOnly
<1>3. CASE create_enum_handle
    <2>1. /\ engine_pc = "create" /\ UNCHANGED <<sd, judged, got, page, pages_live>> /\ got = 0 /\ pages_live = 0
          /\ enum_handle = FALSE /\ total \in Nat
        BY <1>0, <1>3 DEF create_enum_handle, EngineTypes, PagesAddUp
    <2>2. /\ engine_pc' \in {"page", "failed"} /\ total' \in Nat
          /\ enum_handle' \in BOOLEAN /\ (engine_pc' = "failed" => enum_handle' = FALSE)
        <3>1. CASE engine_pc' = "failed" /\ UNCHANGED <<total, enum_handle>>
            BY <2>1, <3>1
        <3>2. CASE total' \in 0..MaxFilters /\ engine_pc' = "page" /\ enum_handle' = TRUE
            <4>1. total' \in Nat
                BY <3>2, EngineAssumption
            <4> QED BY <3>2, <4>1
        <3> QED BY <1>3, <3>1, <3>2 DEF create_enum_handle
    <2>3. EngineTypes' /\ PagesAddUp'
        BY <1>0, <2>1, <2>2 DEF EngineTypes, PagesAddUp
    <2>4. EnumerationComplete' /\ NothingLeaked'
        BY <2>1, <2>2 DEF EnumerationComplete, NothingLeaked
    <2> QED BY <1>2, <2>1, <2>3, <2>4
<1>4. CASE filter_enum
    <2>1. /\ engine_pc = "page" /\ UNCHANGED <<sd, judged, total, got>> /\ pages_live = 0 /\ got <= total
          /\ total \in Nat /\ got \in Nat
        BY <1>0, <1>4 DEF filter_enum, EngineTypes, PagesAddUp
    <2>2. CASE leave("failed", 0) /\ UNCHANGED page
        <3>1. engine_pc' = "failed" /\ enum_handle' = FALSE /\ pages_live' = 0
            BY <2>1, <2>2 DEF leave
        <3>2. EngineTypes' /\ PagesAddUp' /\ EnumerationComplete' /\ NothingLeaked'
            BY <1>0, <2>1, <2>2, <3>1 DEF EngineTypes, PagesAddUp, EnumerationComplete, NothingLeaked
        <3> QED BY <1>2, <2>1, <3>2
    <2>3. CASE ~(leave("failed", 0) /\ UNCHANGED page)
        <3>1. PICK p \in BOOLEAN :
                 /\ page' = [count |-> IF total - got < PAGE_SIZE THEN total - got ELSE PAGE_SIZE, ptr |-> p]
                 /\ pages_live' = pages_live + (IF p THEN 1 ELSE 0)
            BY <1>4, <2>3 DEF filter_enum
        <3>2. engine_pc' = "classify" /\ UNCHANGED enum_handle
            BY <1>4, <2>3 DEF filter_enum
        <3>3. page'.count = (IF total - got < PAGE_SIZE THEN total - got ELSE PAGE_SIZE) /\ page'.ptr = p
            BY <3>1
        <3>4. page' \in [count : Nat, ptr : BOOLEAN]
            BY <2>1, <3>1, EngineAssumption
        <3>5. EngineTypes'
            BY <1>0, <2>1, <3>2, <3>4 DEF EngineTypes
        <3>6. PagesAddUp'
            BY <2>1, <3>1, <3>2, <3>3 DEF PagesAddUp, freed_on_exit
        <3>7. EnumerationComplete' /\ NothingLeaked'
            BY <3>2 DEF EnumerationComplete, NothingLeaked
        <3> QED BY <1>2, <2>1, <3>5, <3>6, <3>7
    <2> QED BY <2>2, <2>3
<1>5. ASSUME process_page \/ null_entry PROVE EngineInv'
    <2>1. /\ engine_pc = "classify" /\ UNCHANGED <<sd, judged, total, page>>
          /\ pages_live = (IF page.ptr THEN 1 ELSE 0) /\ got <= total
          /\ total \in Nat /\ got \in Nat /\ page.count \in Nat /\ page.ptr \in BOOLEAN
          /\ page.count = IF total - got < PAGE_SIZE THEN total - got ELSE PAGE_SIZE
        BY <1>0, <1>5 DEF process_page, null_entry, EngineTypes, PagesAddUp, freed_on_exit
    <2>2. \/ page.count = 0 /\ leave("done", freed_on_exit) /\ UNCHANGED got
          \/ leave("failed", freed_on_exit) /\ got' \in {got, got + page.count}
          \/ /\ page.count > 0 /\ page.ptr /\ got' = got + page.count
             /\ \/ page.count < PAGE_SIZE /\ leave("done", 1)
                \/ /\ page.count >= PAGE_SIZE /\ engine_pc' = "page"
                   /\ pages_live' = pages_live - 1 /\ UNCHANGED enum_handle
        <3>1. CASE page.count = 0
            BY <1>5, <2>1, <3>1 DEF process_page, null_entry, classify_filter_enum_page
        <3>2. CASE page.count > 0 /\ ~page.ptr
            BY <1>5, <2>1, <3>2 DEF process_page, null_entry, classify_filter_enum_page
        <3>3. CASE page.count > 0 /\ page.ptr
            <4>1. classify_filter_enum_page = "process" /\ freed_on_exit = 1
                BY <2>1, <3>3 DEF classify_filter_enum_page, freed_on_exit
            <4>2. CASE process_page
                <5>1. got' = got + page.count /\ IF is_last(page.count) THEN leave("done", 1)
                        ELSE engine_pc' = "page" /\ pages_live' = pages_live - 1 /\ UNCHANGED enum_handle
                    BY <4>1, <4>2 DEF process_page
                <5> QED BY <2>1, <3>3, <5>1, EngineAssumption DEF is_last
            <4>3. CASE null_entry
                BY <4>1, <4>3 DEF null_entry
            <4> QED BY <1>5, <4>2, <4>3
        <3> QED BY <2>1, <3>1, <3>2, <3>3
    <2>3. /\ engine_pc' \in {"page", "done", "failed"} /\ pages_live' = 0 /\ got' \in Nat
          /\ engine_pc' = "done" => got' = total
          /\ engine_pc' = "page" => got' <= total
          /\ engine_pc' # "page" => enum_handle' = FALSE
          /\ engine_pc' = "page" => enum_handle' = enum_handle
        BY <2>1, <2>2, EngineAssumption DEF leave, freed_on_exit
    <2>4. EngineTypes' /\ PagesAddUp'
        BY <1>0, <2>1, <2>3 DEF EngineTypes, PagesAddUp
    <2>5. EnumerationComplete' /\ NothingLeaked'
        BY <2>1, <2>3 DEF EnumerationComplete, NothingLeaked
    <2> QED BY <1>2, <2>1, <2>4, <2>5
<1>6. CASE UNCHANGED engine_vars
    <2>1. EngineTypes' /\ PagesAddUp'
        BY <1>0, <1>6 DEF engine_vars, EngineTypes, PagesAddUp, freed_on_exit
    <2>2. EnumerationComplete' /\ NothingLeaked'
        BY <1>0, <1>6 DEF engine_vars, EnumerationComplete, NothingLeaked
    <2> QED BY <1>2, <1>6, <2>1, <2>2 DEF engine_vars
<1> QED BY <1>1, <1>3, <1>4, <1>5, <1>6 DEF EngineNext, EngineDone

\* The gate reads the engine exactly, whatever the page size, the number of
\* filters and the descriptors somebody stored: all filters seen, nothing
\* leaked, and what is accepted admits the child and nobody else.
THEOREM EngineRead == EngineSpec => []EngineReadExact
<1>1. ASSUME EngineInit PROVE EngineInv
    <2>1. EngineTypes
        BY <1>1 DEF EngineInit, EngineTypes
    <2>2. PagesAddUp
        BY <1>1 DEF EngineInit, PagesAddUp
    <2>3. EngineReadExact
        BY <1>1 DEF EngineInit, EngineReadExact, EnumerationComplete, NothingLeaked, AcceptedMatchesChildOnly
    <2> QED BY <2>1, <2>2, <2>3 DEF EngineInv
<1>2. EngineInv => EngineReadExact
    BY DEF EngineInv
<1> QED BY <1>1, <1>2, EngineStep, PTL DEF EngineSpec

-----------------------------------------------------------------------------
(* ScmProvisioning *)
Run == [attempt : 0..MaxAttempts, edits : 0..MaxEdits, writes : Nat,
        faulted : BOOLEAN, disturbed : BOOLEAN, cleared : BOOLEAN]
ProvTypes == ProvisioningTypeOK /\ run \in Run

(* An entry cannot vanish under an open handle, and is marked under one only. *)
Handles ==
    /\ handle_open => scm # NoEntry
    /\ ~handle_open /\ scm # NoEntry => scm.marked = FALSE
NothingYet ==
    /\ prov_pc # "idle" => run.faulted = FALSE
    /\ prov_pc \in {"converge", "create"} => run.writes = 0
    /\ prov_pc \in {"open", "query"} /\ purpose # "back" => run.writes = 0

(* What the call knows, as long as nobody else has written.                *)
QueriedSoFar ==
    /\ seen.marked = FALSE
    /\ at > 1 => seen.base = scm.base
    /\ at > 2 => seen.service_name = scm.service_name
    /\ at > 3 => seen.description = scm.description
    /\ at > 4 => seen.delayed_auto_start = scm.delayed_auto_start
    /\ at > 5 => seen.failure = scm.failure
    /\ at > 6 => seen.flag = scm.flag
WrittenSoFar ==
    /\ scm.service_name = "PalkaService"
    /\ at > 1 => scm.base = {}
    /\ at > 2 => scm.description = TRUE
    /\ at > 3 => scm.delayed_auto_start = FALSE
    /\ at > 4 => scm.failure = Canonical.failure
    /\ at > 5 => scm.flag = FALSE
    /\ existing = NoEntry => scm.flag = FALSE /\ run.cleared = FALSE
    /\ existing # NoEntry /\ at <= 5 => scm.flag = existing.flag /\ run.cleared = FALSE
    /\ existing # NoEntry /\ at > 5 => run.cleared = existing.flag
Undisturbed ==
    run.disturbed = FALSE /\ prov_pc # "idle" =>
        /\ scm # NoEntry => scm.marked = FALSE
        /\ purpose \in {"initial", "back"}
        /\ purpose = "initial" /\ prov_pc \in {"open", "query"} => existing = NoEntry /\ run.cleared = FALSE
        /\ purpose = "back" => /\ prov_pc \in {"open", "query"} /\ scm = Canonical
                               /\ existing = NoEntry => run.cleared = FALSE
                               /\ existing # NoEntry => run.cleared = existing.flag
        /\ prov_pc = "query" => QueriedSoFar
        /\ prov_pc = "create" => scm = NoEntry /\ existing = NoEntry /\ run.cleared = FALSE
        /\ prov_pc = "converge" => scm # NoEntry /\ existing = scm /\ run.cleared = FALSE
        /\ prov_pc = "write" => WrittenSoFar
ProvInv == ProvTypes /\ Handles /\ NothingYet /\ Undisturbed /\ ProvisioningConverges

\* The canonical entries are entries.
LEMMA CanonicalEntries ==
    /\ Canonical \in ScmConfigSnapshot /\ Created \in ScmConfigSnapshot
    /\ Canonical # NoEntry /\ Created # NoEntry
    /\ Canonical.marked = FALSE /\ Created.marked = FALSE
<1>1. Canonical.failure \in [reset : BOOLEAN, actions : RecoveryActions]
    BY DEF Canonical, RecoveryActions
<1>2. Canonical \in ScmConfigSnapshot
    BY <1>1 DEF ScmConfigSnapshot, Canonical
<1>3. [reset |-> FALSE, actions |-> <<>>] \in [reset : BOOLEAN, actions : RecoveryActions]
    BY DEF RecoveryActions
<1>4. Created \in ScmConfigSnapshot
    BY <1>2, <1>3 DEF ScmConfigSnapshot, Created, Canonical
<1>5. Canonical.marked = FALSE /\ Created.marked = FALSE
    BY DEF Canonical, Created
<1> QED BY <1>2, <1>4, <1>5, NoEntryAssumption

LEMMA CreatedRecovery == Created.failure \in [reset : BOOLEAN, actions : RecoveryActions]
BY CanonicalEntries DEF ScmConfigSnapshot

\* An entry is canonical when the fields the query reads are.
LEMMA CanonicalByFields ==
    ASSUME NEW s \in ScmConfigSnapshot, s.service_name = "PalkaService", s.base = {}, s.description = TRUE,
           s.delayed_auto_start = FALSE, s.failure = Canonical.failure, s.flag = FALSE, s.marked = FALSE
    PROVE  s = Canonical
BY DEF ScmConfigSnapshot, Canonical

\* The lists of the wrong length.
LEMMA AppendLength ==
    ASSUME NEW S, NEW q \in Seq(S), NEW e \in S
    PROVE  Len(Append(q, e)) = Len(q) + 1
OBVIOUS
LEMMA OtherLengths ==
    ASSUME NEW S, NEW q \in Seq(S), Len(q) = 3, NEW e \in S
    PROVE  /\ \A x : Len(x) = 3 => x # <<>>
           /\ \A x : Len(x) = 3 => x # SubSeq(q, 1, 2)
           /\ \A x : Len(x) = 3 => x # Append(q, e)
<1>1. Len(SubSeq(q, 1, 2)) = 2
    OBVIOUS
<1>2. Len(Append(q, e)) = 4
    <2>1. Len(Append(q, e)) = Len(q) + 1
        BY AppendLength, Zenon
    <2> QED BY <2>1
<1>3. \A x : Len(x) = 3 => x # <<>>
    OBVIOUS
<1>4. \A x : Len(x) = 3 => x # SubSeq(q, 1, 2)
    <2>1. PICK y : y = SubSeq(q, 1, 2)
        OBVIOUS
    <2>2. Len(y) # 3
        <3>1. Len(y) = 2
            BY <1>1, <2>1, Zenon
        <3>2. 2 # 3
            OBVIOUS
        <3> QED BY <3>1, <3>2, Zenon
    <2>3. \A x : Len(x) = 3 => x # y
        BY <2>2, Zenon
    <2> QED BY <2>1, <2>3, Zenon
<1>5. \A x : Len(x) = 3 => x # Append(q, e)
    <2>1. PICK y : y = Append(q, e)
        OBVIOUS
    <2>2. Len(y) = 4
        BY <1>2, <2>1, Zenon
    <2>3. \A x : Len(x) = 3 => x # y
        BY <2>2
    <2> QED BY <2>1, <2>3, Zenon
<1> QED BY <1>3, <1>4, <1>5
\* The validator finds nothing exactly in the contract.
LEMMA ValidRecovery ==
    ASSUME NEW a \in RecoveryActions, recovery_mismatches(a) = {}
    PROVE  a = expected_actions
<1>1. Len(expected_actions) = 3 /\ expected_actions \in Seq([action_type : {"Restart"}, delay_ms : Nat])
    BY DEF expected_actions, Restart
<1>2. Len(a) = 3
    BY <1>1 DEF recovery_mismatches
<1>3. a[2] = expected_actions[2] /\ a[3] = expected_actions[3]
    <2>1. SUFFICES ASSUME NEW i \in {2, 3}, a[i] # expected_actions[i] PROVE FALSE
        OBVIOUS
    <2>2. <<"RecoveryActionMismatch", i>> \in recovery_mismatches(a)
        BY <1>1, <1>2, <2>1 DEF recovery_mismatches
    <2> QED BY <2>2
<1>4. a # <<>> /\ a # SubSeq(expected_actions, 1, 2) /\ a # Append(expected_actions, Restart(60000))
    <2>1. Restart(60000) \in [action_type : {"Restart"}, delay_ms : Nat]
        BY DEF Restart
    <2> DEFINE e == Restart(60000)
    <2>2. e \in [action_type : {"Restart"}, delay_ms : Nat]
        BY <2>1
    <2> HIDE DEF e
    <2>3. /\ \A x : Len(x) = 3 => x # <<>>
          /\ \A x : Len(x) = 3 => x # SubSeq(expected_actions, 1, 2)
          /\ \A x : Len(x) = 3 => x # Append(expected_actions, e)
        BY <1>1, <2>2, OtherLengths, Zenon
    <2>4. a # <<>> /\ a # SubSeq(expected_actions, 1, 2) /\ a # Append(expected_actions, e)
        BY <1>2, <2>3, Zenon
    <2> QED BY <2>4 DEF e
<1>5. a # [expected_actions EXCEPT ![2] = [action_type |-> "Reboot", delay_ms |-> 15000]]
    <2>1. expected_actions[2].action_type = "Restart"
        BY DEF expected_actions, Restart
    <2> QED BY <1>1, <1>3, <2>1
<1>6. a # [expected_actions EXCEPT ![3] = Restart(5000)]
    <2>1. expected_actions[3].delay_ms = 60000
        BY DEF expected_actions, Restart
    <2> QED BY <1>1, <1>3, <2>1 DEF Restart
<1> QED BY <1>4, <1>5, <1>6 DEF RecoveryActions
LEMMA ValidIsCanonical ==
    ASSUME NEW s \in ScmConfigSnapshot, s.marked = FALSE, validate_canonical(s) = {}
    PROVE  s = Canonical
<1>1. s.service_name = "PalkaService" /\ s.base = {} /\ s.description /\ ~s.delayed_auto_start
      /\ s.failure.reset /\ recovery_mismatches(s.failure.actions) = {} /\ ~s.flag
    BY DEF validate_canonical, Mismatch
<1>2. s.failure \in [reset : BOOLEAN, actions : RecoveryActions]
      /\ {s.description, s.delayed_auto_start, s.flag} \subseteq BOOLEAN
    BY DEF ScmConfigSnapshot
<1>3. s.failure.actions = expected_actions
    BY <1>1, <1>2, ValidRecovery
<1>4. s.failure = Canonical.failure
    BY <1>1, <1>2, <1>3 DEF Canonical
<1> QED BY <1>1, <1>2, <1>4, CanonicalByFields
LEMMA CanonicalIsValid == validate_canonical(Canonical) = {}
<1>1. Len(expected_actions) = 3
    BY DEF expected_actions
<1>2. \A i \in 1..3 : expected_actions[i].action_type = "Restart"
    BY DEF expected_actions, Restart
<1>3. recovery_mismatches(expected_actions) = {}
    BY <1>1, <1>2 DEF recovery_mismatches
<1> QED BY <1>3 DEF validate_canonical, Mismatch, Canonical

\* A call that returns, having earned its result.
LEMMA ProvReturns ==
    ASSUME ProvInv, prov_pc # "idle", NEW r \in Results \cup Errors, NEW f \in BOOLEAN, returns(r, f),
           run' \in Run, run'.attempt = run.attempt, run'.writes = run.writes,
           run'.disturbed = run.disturbed, run'.cleared = run.cleared,
           r \in {"AlreadyCanonical", "UnrepairableServiceIdentity"} => run.writes = 0,
           r \in Results /\ run.disturbed = FALSE => scm = Canonical /\ f = run.cleared,
           run'.faulted = FALSE /\ run.disturbed = FALSE =>
              r \in Results \/ (scm # NoEntry /\ scm.service_name # "PalkaService")
    PROVE  ProvInv'
<1>1. /\ prov_pc' = "idle" /\ outcome' = r /\ advised' = f /\ scm' = released
      /\ UNCHANGED <<purpose, at, seen, existing>>
    BY DEF returns
<1>2. scm' \in ScmConfigSnapshot \cup {NoEntry} /\ (scm' # NoEntry => scm'.marked = FALSE)
    BY <1>1, Zenon DEF released, ProvInv, ProvTypes, ProvisioningTypeOK, ScmConfigSnapshot
<1>3. run.disturbed = FALSE => scm' = scm
    BY <1>1 DEF released, ProvInv, Undisturbed
<1>4. ProvTypes'
    BY <1>1, <1>2, Zenon DEF ProvInv, ProvTypes, ProvisioningTypeOK, Run
<1>5. Handles' /\ NothingYet' /\ Undisturbed'
    BY <1>1, <1>2 DEF Handles, NothingYet, Undisturbed, handle_open
<1>6. OkIsCanonical' /\ RestartAdvised'
    BY <1>1, <1>3 DEF OkIsCanonical, RestartAdvised, finished
<1>7. WritesAreWarranted'
    BY <1>1, <1>3 DEF WritesAreWarranted, finished, ProvInv, ProvisioningConverges
<1>8. RepairAlwaysPossible'
    BY <1>1, <1>3 DEF RepairAlwaysPossible, finished
<1> QED BY <1>4, <1>5, <1>6, <1>7, <1>8 DEF ProvInv, ProvisioningConverges, ProvTypes

\* A step inside a call keeps its history.
LEMMA ProvGoesOn ==
    ASSUME ProvInv, prov_pc' # "idle", run' \in Run, ProvisioningTypeOK',
           Handles', NothingYet', Undisturbed',
           run'.writes > 0 /\ run'.disturbed = FALSE => scm' # NoEntry /\ scm'.service_name = "PalkaService"
    PROVE  ProvInv'
BY DEF ProvInv, ProvTypes, ProvisioningConverges, OkIsCanonical, WritesAreWarranted, RepairAlwaysPossible,
       RestartAdvised, finished, Run

\* What another administrator does ends the claims about the call it disturbs.
LEMMA ProvEdited ==
    ASSUME ProvInv, NEW s \in ScmConfigSnapshot \cup {NoEntry}, edited(s),
           handle_open => s # NoEntry, ~handle_open /\ s # NoEntry => s.marked = FALSE
    PROVE  ProvInv'
<1>1. /\ scm' = s /\ run' = [run EXCEPT !.edits = @ + 1, !.disturbed = TRUE] /\ run.edits < MaxEdits
      /\ UNCHANGED <<prov_pc, purpose, at, seen, existing, outcome, advised>> /\ run \in Run
    BY DEF edited, ProvInv, ProvTypes
<1>2. /\ run' \in Run /\ run'.disturbed = TRUE /\ run'.attempt = run.attempt
      /\ run'.writes = run.writes /\ run'.faulted = run.faulted
    <2>1. run.edits + 1 \in 0..MaxEdits
        BY <1>1, ProvisioningAssumption DEF Run
    <2> QED BY <1>1, <2>1 DEF Run
<1>3. ProvisioningTypeOK'
    BY <1>1, <1>2, Zenon DEF ProvInv, ProvTypes, ProvisioningTypeOK, Run
<1>4. Handles' /\ NothingYet' /\ Undisturbed'
    BY <1>1, <1>2 DEF ProvInv, Handles, NothingYet, Undisturbed, handle_open
<1>5. OkIsCanonical' /\ RestartAdvised' /\ RepairAlwaysPossible' /\ WritesAreWarranted'
    BY <1>1, <1>2 DEF OkIsCanonical, RestartAdvised, RepairAlwaysPossible, WritesAreWarranted, finished,
                      ProvInv, ProvisioningConverges
<1> QED BY <1>2, <1>3, <1>4, <1>5 DEF ProvInv, ProvisioningConverges, ProvTypes

\* The three things another administrator does.
LEMMA OthersInv ==
    ASSUME ProvInv, other_edits \/ other_deletes \/ other_creates
    PROVE  ProvInv'
<1>1. CASE other_edits
    <2>1. scm \in ScmConfigSnapshot /\ ~scm.marked
        BY <1>1 DEF other_edits, ProvInv, ProvTypes, ProvisioningTypeOK
    <2>2. PICK s \in {Created, [scm EXCEPT !.base = BaseField], [scm EXCEPT !.description = FALSE],
                      [scm EXCEPT !.flag = TRUE], [scm EXCEPT !.failure = Created.failure]} :
              edited([s EXCEPT !.service_name = scm.service_name])
        BY <1>1 DEF other_edits
    <2>3. s \in ScmConfigSnapshot /\ ~s.marked
        <3>1. CASE s = Created
            BY <3>1, CanonicalEntries
        <3>2. CASE s # Created
            BY <2>1, <2>2, <3>2, CreatedRecovery DEF ScmConfigSnapshot
        <3> QED BY <3>1, <3>2
    <2>4. PICK b : b = [s EXCEPT !.service_name = scm.service_name]
        OBVIOUS
    <2>5. b \in ScmConfigSnapshot /\ b.marked = FALSE
        BY <2>1, <2>3, <2>4 DEF ScmConfigSnapshot
    <2> QED BY <2>2, <2>4, <2>5, NoEntryAssumption, ProvEdited
<1>2. CASE other_deletes
    <2>1. scm \in ScmConfigSnapshot
        BY <1>2 DEF other_deletes, ProvInv, ProvTypes, ProvisioningTypeOK
    <2>2. PICK b : b = [scm EXCEPT !.marked = TRUE]
        OBVIOUS
    <2>3. b \in ScmConfigSnapshot
        BY <2>1, <2>2 DEF ScmConfigSnapshot
    <2>4. CASE handle_open
        BY <1>2, <2>2, <2>3, <2>4, NoEntryAssumption, ProvEdited DEF other_deletes
    <2>5. CASE ~handle_open
        BY <1>2, <2>5, ProvEdited DEF other_deletes
    <2> QED BY <2>4, <2>5
<1>3. CASE other_creates
    <2>1. PICK n \in {"PalkaService", "palkaservice"}, s \in {Created, Canonical} :
              edited([s EXCEPT !.service_name = n])
        BY <1>3 DEF other_creates
    <2>2. PICK b : b = [s EXCEPT !.service_name = n]
        OBVIOUS
    <2>3. s \in ScmConfigSnapshot /\ s.marked = FALSE
        BY <2>1, CanonicalEntries
    <2>4. b \in ScmConfigSnapshot /\ b.marked = FALSE
        BY <2>2, <2>3 DEF ScmConfigSnapshot
    <2> QED BY <2>1, <2>2, <2>4, NoEntryAssumption, ProvEdited
<1> QED BY <1>1, <1>2, <1>3

\* A call begins, or is refused for its path.
LEMMA AttemptInv ==
    ASSUME ProvInv, provision_palka_service \/ validate_and_render_canonical_binary_path
    PROVE  ProvInv'
<1>1. /\ run \in Run /\ run.attempt < MaxAttempts /\ prov_pc = "idle"
      /\ existing' = NoEntry /\ advised' = FALSE /\ UNCHANGED <<scm, at, seen>>
    BY DEF ProvInv, ProvTypes, provision_palka_service, validate_and_render_canonical_binary_path
<1>2. CASE provision_palka_service
    <2>1. /\ run' \in Run /\ run'.writes = 0 /\ run'.faulted = FALSE /\ run'.cleared = FALSE
        <3>1. run.attempt + 1 \in 0..MaxAttempts
            BY <1>1, ProvisioningAssumption DEF Run
        <3>2. run' = [run EXCEPT !.attempt = @ + 1, !.writes = 0, !.faulted = FALSE, !.disturbed = FALSE,
                                 !.cleared = FALSE]
            BY <1>2 DEF provision_palka_service
        <3> QED BY <1>1, <3>1, <3>2 DEF Run
    <2>2. prov_pc' = "open" /\ purpose' = "initial" /\ outcome' = "none"
        BY <1>2 DEF provision_palka_service
    <2>3. ProvisioningTypeOK'
        BY <1>1, <2>1, <2>2, Zenon DEF ProvInv, ProvTypes, ProvisioningTypeOK, Run
    <2>4. Handles' /\ NothingYet' /\ Undisturbed'
        BY <1>1, <2>1, <2>2 DEF ProvInv, Handles, NothingYet, Undisturbed, handle_open
    <2> QED BY <2>1, <2>2, <2>3, <2>4, ProvGoesOn
<1>3. CASE validate_and_render_canonical_binary_path
    <2>1. /\ run' \in Run /\ run'.writes = 0 /\ run'.faulted = TRUE
        <3>1. run.attempt + 1 \in 0..MaxAttempts
            BY <1>1, ProvisioningAssumption DEF Run
        <3>2. run' = [run EXCEPT !.attempt = @ + 1, !.writes = 0, !.faulted = TRUE, !.disturbed = FALSE,
                                 !.cleared = FALSE]
            BY <1>3 DEF validate_and_render_canonical_binary_path
        <3> QED BY <1>1, <3>1, <3>2 DEF Run
    <2>2. prov_pc' = "idle" /\ purpose' = purpose /\ outcome' = "InvalidBinaryPath"
        BY <1>1, <1>3 DEF validate_and_render_canonical_binary_path
    <2>3. ProvisioningTypeOK'
        BY <1>1, <2>1, <2>2, Zenon DEF ProvInv, ProvTypes, ProvisioningTypeOK, Run, Errors
    <2>4. Handles' /\ NothingYet' /\ Undisturbed'
        BY <1>1, <2>1, <2>2 DEF ProvInv, Handles, NothingYet, Undisturbed, handle_open
    <2>5. OkIsCanonical' /\ RestartAdvised' /\ RepairAlwaysPossible' /\ WritesAreWarranted'
        BY <1>1, <2>1, <2>2 DEF OkIsCanonical, RestartAdvised, RepairAlwaysPossible, WritesAreWarranted, finished, Results
    <2> QED BY <2>1, <2>3, <2>4, <2>5 DEF ProvInv, ProvisioningConverges, ProvTypes
<1> QED BY <1>2, <1>3

\* A call that fails, and a call that returns on its own account.
LEMMA FaultInv ==
    ASSUME ProvInv, prov_pc # "idle", NEW e \in Errors \ {"UnrepairableServiceIdentity"}, fault(e)
    PROVE  ProvInv'
<1>1. returns(e, FALSE) /\ run' = [run EXCEPT !.faulted = TRUE] /\ run \in Run
    BY DEF fault, ProvInv, ProvTypes
<1>2. /\ run' \in Run /\ run'.faulted = TRUE /\ run'.attempt = run.attempt /\ run'.writes = run.writes
      /\ run'.disturbed = run.disturbed /\ run'.cleared = run.cleared
    BY <1>1 DEF Run
<1>3. e \notin Results /\ e \in Results \cup Errors
    BY DEF Results, Errors
<1> QED BY <1>1, <1>2, <1>3, ProvReturns DEF Results
LEMMA SucceedsInv ==
    ASSUME ProvInv, prov_pc # "idle", NEW r \in Results \cup Errors, NEW f \in BOOLEAN, succeeds(r, f),
           r \in {"AlreadyCanonical", "UnrepairableServiceIdentity"} => run.writes = 0,
           r \in Results /\ run.disturbed = FALSE => scm = Canonical /\ f = run.cleared,
           run.disturbed = FALSE => r \in Results \/ (scm # NoEntry /\ scm.service_name # "PalkaService")
    PROVE  ProvInv'
<1>1. returns(r, f) /\ run' = run /\ run \in Run
    BY DEF succeeds, ProvInv, ProvTypes
<1>2. /\ run' \in Run /\ run'.attempt = run.attempt /\ run'.writes = run.writes
      /\ run'.disturbed = run.disturbed /\ run'.cleared = run.cleared
    BY <1>1
<1>3. run'.faulted = FALSE /\ run.disturbed = FALSE =>
          r \in Results \/ (scm # NoEntry /\ scm.service_name # "PalkaService")
    OBVIOUS
<1> QED BY <1>1, <1>2, <1>3, ProvReturns, Zenon

LEMMA OpenInv ==
    ASSUME ProvInv, open_service
    PROVE  ProvInv'
<1>1. prov_pc = "open" /\ run \in Run /\ scm \in ScmConfigSnapshot \cup {NoEntry}
    BY DEF open_service, ProvInv, ProvTypes, ProvisioningTypeOK
<1>2. ASSUME scm # NoEntry, prov_pc' = "query", at' = 1, seen' = Canonical,
             UNCHANGED <<scm, purpose, existing, outcome, advised, run>>
      PROVE  ProvInv'
    <2>1. ProvisioningTypeOK'
        BY <1>1, <1>2, CanonicalEntries DEF ProvInv, ProvTypes, ProvisioningTypeOK, Reads
    <2>2. Handles' /\ NothingYet'
        BY <1>1, <1>2 DEF ProvInv, Handles, NothingYet, handle_open
    <2>3. QueriedSoFar'
        BY <1>2, CanonicalEntries DEF QueriedSoFar
    <2>4. Undisturbed'
        BY <1>1, <1>2, <2>3 DEF ProvInv, Undisturbed
    <2>5. run.writes > 0 /\ run.disturbed = FALSE => scm # NoEntry /\ scm.service_name = "PalkaService"
        BY DEF ProvInv, ProvisioningConverges, WritesAreWarranted
    <2> QED BY <1>1, <1>2, <2>1, <2>2, <2>4, <2>5, ProvGoesOn
<1>3. ASSUME scm = NoEntry, purpose = "initial", prov_pc' = "create",
             UNCHANGED <<scm, purpose, at, seen, existing, outcome, advised, run>>
      PROVE  ProvInv'
    <2>1. ProvisioningTypeOK'
        BY <1>1, <1>3 DEF ProvInv, ProvTypes, ProvisioningTypeOK
    <2>2. Handles' /\ NothingYet' /\ Undisturbed'
        BY <1>1, <1>3 DEF ProvInv, Handles, NothingYet, handle_open, Undisturbed
    <2> QED BY <1>1, <1>3, <2>1, <2>2, ProvGoesOn DEF ProvInv, ProvisioningConverges, WritesAreWarranted
<1>4. ASSUME scm = NoEntry, purpose # "initial", succeeds("Query", FALSE)
      PROVE  ProvInv'
    <2>1. run.disturbed # FALSE
        BY <1>1, <1>4, CanonicalEntries DEF ProvInv, Undisturbed
    <2> QED BY <1>1, <1>4, <2>1, SucceedsInv DEF Errors, Results
<1>5. ASSUME fault("Query") PROVE ProvInv'
    BY <1>1, <1>5, FaultInv DEF Errors
<1> QED BY <1>2, <1>3, <1>4, <1>5 DEF open_service

\* One group of fields is read.
LEMMA ReadInv ==
    ASSUME ProvInv, NEW group, read_group(group)
    PROVE  ProvInv'
<1>1. /\ prov_pc = "query" /\ at \in 1..6 /\ Reads[at] = group /\ run \in Run /\ seen \in ScmConfigSnapshot
      /\ scm \in ScmConfigSnapshot
    BY DEF read_group, ProvInv, ProvTypes, ProvisioningTypeOK, Handles, handle_open, Reads
<1>2. ASSUME seen' = [seen EXCEPT ![group] = scm[group]], at' = at + 1,
             UNCHANGED <<scm, prov_pc, purpose, existing, outcome, advised, run>>
      PROVE  ProvInv'
    <2>1. seen' \in ScmConfigSnapshot /\ at' \in 1..7 /\ (QueriedSoFar => QueriedSoFar')
        <3>1. CASE at = 1
            <4>1. seen' = [seen EXCEPT !.base = scm.base]
                BY <1>1, <1>2, <3>1 DEF Reads
            <4> QED BY <1>1, <1>2, <3>1, <4>1 DEF ScmConfigSnapshot, QueriedSoFar
        <3>2. CASE at = 2
            <4>1. seen' = [seen EXCEPT !.service_name = scm.service_name]
                BY <1>1, <1>2, <3>2 DEF Reads
            <4> QED BY <1>1, <1>2, <3>2, <4>1 DEF ScmConfigSnapshot, QueriedSoFar
        <3>3. CASE at = 3
            <4>1. seen' = [seen EXCEPT !.description = scm.description]
                BY <1>1, <1>2, <3>3 DEF Reads
            <4> QED BY <1>1, <1>2, <3>3, <4>1 DEF ScmConfigSnapshot, QueriedSoFar
        <3>4. CASE at = 4
            <4>1. seen' = [seen EXCEPT !.delayed_auto_start = scm.delayed_auto_start]
                BY <1>1, <1>2, <3>4 DEF Reads
            <4> QED BY <1>1, <1>2, <3>4, <4>1 DEF ScmConfigSnapshot, QueriedSoFar
        <3>5. CASE at = 5
            <4>1. seen' = [seen EXCEPT !.failure = scm.failure]
                BY <1>1, <1>2, <3>5 DEF Reads
            <4> QED BY <1>1, <1>2, <3>5, <4>1 DEF ScmConfigSnapshot, QueriedSoFar
        <3>6. CASE at = 6
            <4>1. seen' = [seen EXCEPT !.flag = scm.flag]
                BY <1>1, <1>2, <3>6 DEF Reads
            <4> QED BY <1>1, <1>2, <3>6, <4>1 DEF ScmConfigSnapshot, QueriedSoFar
        <3> QED BY <1>1, <3>1, <3>2, <3>3, <3>4, <3>5, <3>6
    <2>2. ProvisioningTypeOK'
        BY <1>1, <1>2, <2>1 DEF ProvInv, ProvTypes, ProvisioningTypeOK, Reads
    <2>3. Handles' /\ NothingYet' /\ Undisturbed'
        BY <1>1, <1>2, <2>1 DEF ProvInv, Handles, NothingYet, handle_open, Undisturbed
    <2> QED BY <1>1, <1>2, <2>2, <2>3, ProvGoesOn DEF ProvInv, ProvisioningConverges, WritesAreWarranted
<1>3. ASSUME group = "service_name", ~key_name_found, succeeds("Query", FALSE)
      PROVE  ProvInv'
    <2>1. at = 2
        BY <1>1, <1>3 DEF Reads
    <2>2. run.disturbed # FALSE
        <3>1. SUFFICES ASSUME run.disturbed = FALSE PROVE FALSE
            OBVIOUS
        <3>2. seen.base = scm.base
            BY <1>1, <2>1, <3>1 DEF ProvInv, Undisturbed, QueriedSoFar
        <3>3. key_name_found
            BY <3>2, Zenon DEF key_name_found
        <3> QED BY <1>3, <3>3
    <2> QED BY <1>1, <1>3, <2>2, SucceedsInv DEF Errors, Results
<1>4. ASSUME fault("Query") PROVE ProvInv'
    BY <1>1, <1>4, FaultInv DEF Errors
<1> QED BY <1>2, <1>3, <1>4 DEF read_group

\* What was read, when nobody interfered, is what is there.
LEMMA QueriedAll ==
    ASSUME ProvInv, prov_pc = "query", at > Len(Reads), run.disturbed = FALSE
    PROVE  seen = scm /\ scm.marked = FALSE
<1>1. at = 7 /\ seen \in ScmConfigSnapshot /\ scm \in ScmConfigSnapshot
    BY DEF ProvInv, ProvTypes, ProvisioningTypeOK, Handles, handle_open, Reads
<1>2. QueriedSoFar /\ scm.marked = FALSE
    BY <1>1, NoEntryAssumption DEF ProvInv, Undisturbed
<1> QED BY <1>1, <1>2 DEF QueriedSoFar, ScmConfigSnapshot

\* The call goes on to write what it has read.
LEMMA GoesToInv ==
    ASSUME ProvInv, prov_pc = "query", at > Len(Reads), purpose \in {"initial", "raced"}, goes_to("converge")
    PROVE  ProvInv'
<1>1. /\ prov_pc' = "converge" /\ existing' = seen /\ scm' = released
      /\ UNCHANGED <<purpose, at, seen, outcome, advised, run>> /\ run \in Run /\ seen \in ScmConfigSnapshot
    BY DEF goes_to, ProvInv, ProvTypes, ProvisioningTypeOK
<1>2. scm' \in ScmConfigSnapshot \cup {NoEntry} /\ (scm' # NoEntry => scm'.marked = FALSE)
    BY <1>1, Zenon DEF released, ProvInv, ProvTypes, ProvisioningTypeOK, ScmConfigSnapshot
<1>3. run.writes = 0
    BY DEF ProvInv, NothingYet
<1>4. ProvisioningTypeOK'
    BY <1>1, <1>2 DEF ProvInv, ProvTypes, ProvisioningTypeOK
<1>5. Handles' /\ NothingYet'
    BY <1>1, <1>2, <1>3 DEF ProvInv, Handles, NothingYet, handle_open
<1>6. Undisturbed'
    <2>1. ASSUME run.disturbed = FALSE
          PROVE  /\ scm' = scm /\ scm # NoEntry /\ seen = scm /\ run.cleared = FALSE /\ purpose = "initial"
        BY <1>1, <2>1, QueriedAll DEF released, ProvInv, Undisturbed, Handles, handle_open
    <2> QED BY <1>1, <1>2, <2>1 DEF Undisturbed
<1> QED BY <1>1, <1>3, <1>4, <1>5, <1>6, ProvGoesOn

\* The three ends of a query.
LEMMA QueriedInv ==
    ASSUME ProvInv, query_initial \/ query_raced \/ query_back
    PROVE  ProvInv'
<1>1. prov_pc = "query" /\ at > Len(Reads) /\ scm # NoEntry
    BY DEF query_initial, query_raced, query_back, ProvInv, Handles, handle_open
<1>2. run.disturbed = FALSE => /\ seen = scm /\ (validate_canonical(seen) = {} => scm = Canonical)
                               /\ (scm = Canonical => validate_canonical(seen) = {})
    BY <1>1, QueriedAll, ValidIsCanonical, CanonicalIsValid DEF ProvInv, ProvTypes, ProvisioningTypeOK
<1>3. CASE query_initial
    <2>1. purpose = "initial" /\ run.writes = 0 /\ (run.disturbed = FALSE => run.cleared = FALSE)
        BY <1>1, <1>3 DEF query_initial, ProvInv, NothingYet, Undisturbed
    <2>2. CASE validate_canonical(seen) = {}
        <3>1. succeeds("AlreadyCanonical", FALSE)
            BY <1>3, <2>2 DEF query_initial
        <3> QED BY <1>1, <1>2, <2>1, <2>2, <3>1, SucceedsInv DEF Results
    <2>3. CASE validate_canonical(seen) # {}
        BY <1>1, <1>3, <2>1, <2>3, GoesToInv DEF query_initial
    <2> QED BY <2>2, <2>3
<1>4. CASE query_raced
    <2>1. purpose = "raced" /\ run.writes = 0 /\ run.disturbed # FALSE
        BY <1>1, <1>4 DEF query_raced, ProvInv, NothingYet, Undisturbed
    <2>2. \/ succeeds("AlreadyCanonical", FALSE) \/ succeeds("UnrepairableServiceIdentity", FALSE)
          \/ goes_to("converge")
        BY <1>4 DEF query_raced, plan_provisioning
    <2> QED BY <1>1, <2>1, <2>2, GoesToInv, SucceedsInv DEF Results, Errors
<1>5. CASE query_back
    <2>1. purpose = "back" /\ (run.disturbed = FALSE => scm = Canonical)
        BY <1>1, <1>5 DEF query_back, ProvInv, Undisturbed
    <2>2. CASE query_back_mismatches # {}
        <3>1. succeeds("QueryBackMismatch", FALSE) /\ run.disturbed # FALSE
            BY <1>2, <1>5, <2>1, <2>2 DEF query_back, query_back_mismatches
        <3> QED BY <1>1, <3>1, SucceedsInv DEF Results, Errors
    <2>3. CASE query_back_mismatches = {} /\ existing = NoEntry
        <3>1. succeeds("Created", FALSE) /\ (run.disturbed = FALSE => run.cleared = FALSE)
            BY <1>1, <1>5, <2>1, <2>3 DEF query_back, ProvInv, Undisturbed
        <3> QED BY <1>1, <2>1, <3>1, SucceedsInv DEF Results
    <2>4. CASE query_back_mismatches = {} /\ existing # NoEntry
        <3>1. succeeds("Updated", existing.flag) /\ (run.disturbed = FALSE => run.cleared = existing.flag)
            BY <1>1, <1>5, <2>1, <2>4 DEF query_back, failure_actions_flag_changed, ProvInv, Undisturbed
        <3>2. existing.flag \in BOOLEAN
            BY <2>4 DEF ProvInv, ProvTypes, ProvisioningTypeOK, ScmConfigSnapshot
        <3> QED BY <1>1, <2>1, <3>1, <3>2, SucceedsInv DEF Results
    <2> QED BY <2>2, <2>3, <2>4
<1> QED BY <1>3, <1>4, <1>5

\* Up to the handle the call writes through.
LEMMA ConvergeInv ==
    ASSUME ProvInv, converge_existing_service
    PROVE  ProvInv'
<1>1. /\ prov_pc = "converge" /\ run \in Run /\ run.writes = 0 /\ scm \in ScmConfigSnapshot \cup {NoEntry}
      /\ run.disturbed = FALSE => /\ scm # NoEntry /\ existing = scm /\ run.cleared = FALSE /\ scm.marked = FALSE
                                  /\ purpose = "initial"
    BY DEF converge_existing_service, ProvInv, ProvTypes, ProvisioningTypeOK, NothingYet, Undisturbed
<1>2. CASE ~identity_holds /\ succeeds("UnrepairableServiceIdentity", FALSE)
    BY <1>1, <1>2, SucceedsInv DEF identity_holds, Results, Errors
<1>3. CASE scm = NoEntry /\ succeeds("ConcurrentScmMutation", FALSE)
    BY <1>1, <1>3, SucceedsInv DEF Results, Errors
<1>4. ASSUME identity_holds, scm # NoEntry, prov_pc' = "write", at' = 1,
             UNCHANGED <<scm, purpose, seen, existing, outcome, advised, run>>
      PROVE  ProvInv'
    <2>1. ProvisioningTypeOK'
        BY <1>1, <1>4 DEF ProvInv, ProvTypes, ProvisioningTypeOK, Reads
    <2>2. Handles' /\ NothingYet'
        BY <1>1, <1>4 DEF ProvInv, Handles, NothingYet, handle_open
    <2>3. run.disturbed = FALSE => WrittenSoFar'
        BY <1>1, <1>4 DEF WrittenSoFar, identity_holds
    <2>4. Undisturbed'
        BY <1>1, <1>4, <2>3 DEF Undisturbed
    <2>5. run' = run /\ ~(run'.writes > 0) /\ prov_pc' # "idle"
        BY <1>1, <1>4
    <2> QED BY <1>1, <2>1, <2>2, <2>4, <2>5, ProvGoesOn
<1>5. CASE fault("WindowsApi")
    BY <1>1, <1>5, FaultInv DEF Errors
<1> QED BY <1>2, <1>3, <1>4, <1>5 DEF converge_existing_service
LEMMA CreateInv ==
    ASSUME ProvInv, create_service_and_converge
    PROVE  ProvInv'
<1>1. /\ prov_pc = "create" /\ run \in Run /\ run.writes = 0 /\ scm \in ScmConfigSnapshot \cup {NoEntry}
      /\ run.disturbed = FALSE => /\ scm = NoEntry /\ existing = NoEntry /\ run.cleared = FALSE
                                  /\ purpose = "initial"
    BY DEF create_service_and_converge, ProvInv, ProvTypes, ProvisioningTypeOK, NothingYet, Undisturbed
<1>2. ASSUME scm # NoEntry, prov_pc' = "open", purpose' = "raced",
             UNCHANGED <<scm, at, seen, existing, outcome, advised, run>>
      PROVE  ProvInv'
    <2>1. ProvisioningTypeOK'
        BY <1>1, <1>2 DEF ProvInv, ProvTypes, ProvisioningTypeOK
    <2>2. Handles' /\ NothingYet' /\ Undisturbed'
        BY <1>1, <1>2 DEF ProvInv, Handles, NothingYet, handle_open, Undisturbed
    <2> QED BY <1>1, <1>2, <2>1, <2>2, ProvGoesOn
<1>3. ASSUME scm = NoEntry, scm' = Created, run' = [run EXCEPT !.writes = @ + 1], prov_pc' = "write", at' = 2,
             UNCHANGED <<purpose, seen, existing, outcome, advised>>
      PROVE  ProvInv'
    <2>1. /\ run' \in Run /\ run'.attempt = run.attempt /\ run'.edits = run.edits /\ run'.faulted = run.faulted
          /\ run'.disturbed = run.disturbed /\ run'.cleared = run.cleared
        BY <1>1, <1>3 DEF Run
    <2>2. ProvisioningTypeOK'
        BY <1>1, <1>3, <2>1, CanonicalEntries DEF ProvInv, ProvTypes, ProvisioningTypeOK, Reads, Run
    <2>3. Handles' /\ NothingYet'
        BY <1>1, <1>3, <2>1, CanonicalEntries DEF ProvInv, Handles, NothingYet, handle_open
    <2>4. Created.service_name = "PalkaService" /\ Created.base = {} /\ Created.flag = FALSE
        BY DEF Created, Canonical
    <2>5. run.disturbed = FALSE => WrittenSoFar'
        BY <1>1, <1>3, <2>1, <2>4 DEF WrittenSoFar
    <2>6. Undisturbed'
        BY <1>1, <1>3, <2>1, <2>5, CanonicalEntries DEF Undisturbed
    <2> QED BY <1>1, <1>3, <2>1, <2>2, <2>3, <2>4, <2>6, CanonicalEntries, ProvGoesOn
<1>4. CASE fault("DisplayNameConflict") \/ fault("WindowsApi")
    BY <1>1, <1>4, FaultInv DEF Errors
<1> QED BY <1>2, <1>3, <1>4 DEF create_service_and_converge

\* One group of fields is written.
LEMMA WriteInv ==
    ASSUME ProvInv, apply_optional_config
    PROVE  ProvInv'
<1>1. /\ prov_pc = "write" /\ at \in 1..5 /\ run \in Run /\ scm \in ScmConfigSnapshot
      /\ run.disturbed = FALSE => WrittenSoFar /\ scm.marked = FALSE /\ purpose = "initial"
    BY DEF apply_optional_config, ProvInv, ProvTypes, ProvisioningTypeOK, Handles, handle_open, Undisturbed, Writes
<1>2. ASSUME at' = at + 1, scm' = [scm EXCEPT ![Writes[at]] = value_written(Writes[at])],
             run' = [run EXCEPT !.writes = @ + 1, !.cleared = @ \/ (Writes[at] = "flag" /\ scm.flag)],
             UNCHANGED <<prov_pc, purpose, seen, existing, outcome, advised>>
      PROVE  ProvInv'
    <2>1. /\ run' \in Run /\ run'.attempt = run.attempt /\ run'.edits = run.edits /\ run'.faulted = run.faulted
          /\ run'.disturbed = run.disturbed
          /\ run'.cleared = (run.cleared \/ (Writes[at] = "flag" /\ scm.flag))
        <3>1. (run.cleared \/ (Writes[at] = "flag" /\ scm.flag)) \in BOOLEAN /\ run.writes + 1 \in Nat
            BY <1>1 DEF Run
        <3>2. PICK c \in BOOLEAN : c = (run.cleared \/ (Writes[at] = "flag" /\ scm.flag))
            BY <3>1
        <3>3. run' = [run EXCEPT !.writes = @ + 1, !.cleared = c]
            BY <1>2, <3>2, Zenon
        <3>4. /\ run' \in Run /\ run'.attempt = run.attempt /\ run'.edits = run.edits /\ run'.faulted = run.faulted
              /\ run'.disturbed = run.disturbed /\ run'.cleared = c
            BY <1>1, <3>1, <3>3 DEF Run
        <3> QED BY <3>2, <3>4, Zenon
    <2>2. scm' \in ScmConfigSnapshot /\ scm'.marked = scm.marked /\ at' \in 1..7 /\ (WrittenSoFar => WrittenSoFar')
        <3>1. CASE at = 1
            <4>1. scm' = [scm EXCEPT !.base = {}] /\ Writes[at] = "base"
                BY <1>1, <1>2, <3>1 DEF Writes, value_written, Canonical
            <4>2. run.cleared \in BOOLEAN /\ run'.cleared = run.cleared
                BY <1>1, <2>1, <4>1 DEF Run
            <4>3. /\ scm' \in ScmConfigSnapshot
                  /\ scm'.service_name = scm.service_name
                  /\ scm'.base = {}
                  /\ scm'.description = scm.description
                  /\ scm'.delayed_auto_start = scm.delayed_auto_start
                  /\ scm'.failure = scm.failure
                  /\ scm'.flag = scm.flag
                  /\ scm'.marked = scm.marked
                BY <1>1, <4>1 DEF ScmConfigSnapshot
            <4>4. at' = 2 /\ UNCHANGED existing
                BY <1>2, <3>1
            <4> QED BY <3>1, <4>2, <4>3, <4>4 DEF WrittenSoFar
        <3>2. CASE at = 2
            <4>1. scm' = [scm EXCEPT !.description = TRUE] /\ Writes[at] = "description"
                BY <1>1, <1>2, <3>2 DEF Writes, value_written, Canonical
            <4>2. run.cleared \in BOOLEAN /\ run'.cleared = run.cleared
                BY <1>1, <2>1, <4>1 DEF Run
            <4>3. /\ scm' \in ScmConfigSnapshot
                  /\ scm'.service_name = scm.service_name
                  /\ scm'.base = scm.base
                  /\ scm'.description = TRUE
                  /\ scm'.delayed_auto_start = scm.delayed_auto_start
                  /\ scm'.failure = scm.failure
                  /\ scm'.flag = scm.flag
                  /\ scm'.marked = scm.marked
                BY <1>1, <4>1 DEF ScmConfigSnapshot
            <4>4. at' = 3 /\ UNCHANGED existing
                BY <1>2, <3>2
            <4> QED BY <3>2, <4>2, <4>3, <4>4 DEF WrittenSoFar
        <3>3. CASE at = 3
            <4>1. scm' = [scm EXCEPT !.delayed_auto_start = FALSE] /\ Writes[at] = "delayed_auto_start"
                BY <1>1, <1>2, <3>3 DEF Writes, value_written, Canonical
            <4>2. run.cleared \in BOOLEAN /\ run'.cleared = run.cleared
                BY <1>1, <2>1, <4>1 DEF Run
            <4>3. /\ scm' \in ScmConfigSnapshot
                  /\ scm'.service_name = scm.service_name
                  /\ scm'.base = scm.base
                  /\ scm'.description = scm.description
                  /\ scm'.delayed_auto_start = FALSE
                  /\ scm'.failure = scm.failure
                  /\ scm'.flag = scm.flag
                  /\ scm'.marked = scm.marked
                BY <1>1, <4>1 DEF ScmConfigSnapshot
            <4>4. at' = 4 /\ UNCHANGED existing
                BY <1>2, <3>3
            <4> QED BY <3>3, <4>2, <4>3, <4>4 DEF WrittenSoFar
        <3>4. CASE at = 4
            <4>1. scm' = [scm EXCEPT !.failure = Canonical.failure] /\ Writes[at] = "failure"
                BY <1>1, <1>2, <3>4 DEF Writes, value_written
            <4>2. run.cleared \in BOOLEAN /\ run'.cleared = run.cleared
                BY <1>1, <2>1, <4>1 DEF Run
            <4>3. Canonical.failure \in [reset : BOOLEAN, actions : RecoveryActions]
                BY CanonicalEntries DEF ScmConfigSnapshot
            <4> QED BY <1>1, <1>2, <3>4, <4>1, <4>2, <4>3 DEF ScmConfigSnapshot, WrittenSoFar
        <3>5. CASE at = 5
            <4>1. scm' = [scm EXCEPT !.flag = FALSE] /\ Writes[at] = "flag"
                BY <1>1, <1>2, <3>5 DEF Writes, value_written, Canonical
            <4>2. WrittenSoFar => run.cleared = FALSE /\ scm.flag \in BOOLEAN
                BY <1>1, <3>5 DEF ScmConfigSnapshot, WrittenSoFar
            <4>3. WrittenSoFar => run'.cleared = scm.flag
                BY <2>1, <4>1, <4>2
            <4>4. /\ scm' \in ScmConfigSnapshot
                  /\ scm'.service_name = scm.service_name
                  /\ scm'.base = scm.base
                  /\ scm'.description = scm.description
                  /\ scm'.delayed_auto_start = scm.delayed_auto_start
                  /\ scm'.failure = scm.failure
                  /\ scm'.flag = FALSE
                  /\ scm'.marked = scm.marked
                BY <1>1, <4>1 DEF ScmConfigSnapshot
            <4>5. WrittenSoFar => /\ existing = NoEntry => run'.cleared = FALSE
                                  /\ existing # NoEntry => run'.cleared = existing.flag
                BY <3>5, <4>3 DEF WrittenSoFar
            <4>6. at' = 6 /\ UNCHANGED existing
                BY <1>2, <3>5
            <4>7. ASSUME WrittenSoFar PROVE WrittenSoFar'
                BY <3>5, <4>4, <4>5, <4>6, <4>7 DEF WrittenSoFar
            <4> QED BY <4>4, <4>6, <4>7
        <3> QED BY <1>1, <3>1, <3>2, <3>3, <3>4, <3>5
    <2>3. ProvisioningTypeOK'
        BY <1>1, <1>2, <2>1, <2>2 DEF ProvInv, ProvTypes, ProvisioningTypeOK, Reads, Run
    <2>4. Handles' /\ NothingYet'
        BY <1>1, <1>2, <2>1, <2>2, NoEntryAssumption DEF ProvInv, Handles, NothingYet, handle_open
    <2>5. Undisturbed'
        BY <1>1, <1>2, <2>1, <2>2 DEF Undisturbed
    <2>6. run.disturbed = FALSE => scm'.service_name = "PalkaService"
        BY <1>1, <2>2 DEF WrittenSoFar
    <2> QED BY <1>1, <1>2, <2>1, <2>2, <2>3, <2>4, <2>5, <2>6, NoEntryAssumption, ProvGoesOn
<1>3. CASE scm.marked /\ succeeds("WindowsApi", FALSE)
    BY <1>1, <1>3, SucceedsInv DEF Results, Errors
<1>4. CASE fault("DisplayNameConflict") \/ fault("WindowsApi")
    BY <1>1, <1>4, FaultInv DEF Errors
<1> QED BY <1>2, <1>3, <1>4 DEF apply_optional_config

\* All is written: the handle is dropped and the entry read back.
LEMMA DropInv ==
    ASSUME ProvInv, drop_service_handle
    PROVE  ProvInv'
<1>1. /\ prov_pc = "write" /\ at \in {6, 7} /\ run \in Run /\ scm \in ScmConfigSnapshot
      /\ run.disturbed = FALSE => WrittenSoFar /\ scm.marked = FALSE
    BY DEF drop_service_handle, ProvInv, ProvTypes, ProvisioningTypeOK, Handles, handle_open, Undisturbed, Writes, Reads
<1>2. /\ scm' = released /\ prov_pc' = "open" /\ purpose' = "back"
      /\ UNCHANGED <<at, seen, existing, outcome, advised, run>>
    BY DEF drop_service_handle
<1>3. scm' \in ScmConfigSnapshot \cup {NoEntry} /\ (scm' # NoEntry => scm'.marked = FALSE)
    BY <1>1, <1>2, Zenon DEF released, ScmConfigSnapshot
<1>4. run.disturbed = FALSE => scm' = scm /\ scm = Canonical
    <2>1. SUFFICES ASSUME run.disturbed = FALSE PROVE scm' = scm /\ scm = Canonical
        OBVIOUS
    <2>2. WrittenSoFar /\ scm.marked = FALSE
        BY <1>1, <2>1
    <2>3. /\ scm.service_name = "PalkaService" /\ scm.base = {} /\ scm.description = TRUE
          /\ scm.delayed_auto_start = FALSE /\ scm.failure = Canonical.failure /\ scm.flag = FALSE
        BY <1>1, <2>2 DEF WrittenSoFar
    <2> QED BY <1>1, <1>2, <2>2, <2>3, CanonicalByFields DEF released
<1>5. ProvisioningTypeOK'
    BY <1>1, <1>2, <1>3 DEF ProvInv, ProvTypes, ProvisioningTypeOK
<1>6. Handles' /\ NothingYet'
    BY <1>1, <1>2, <1>3 DEF ProvInv, Handles, NothingYet, handle_open
<1>7. Undisturbed'
    BY <1>1, <1>2, <1>4, CanonicalEntries DEF Undisturbed, WrittenSoFar
<1>8. Canonical.service_name = "PalkaService"
    BY DEF Canonical
<1> QED BY <1>1, <1>2, <1>4, <1>5, <1>6, <1>7, <1>8, CanonicalEntries, ProvGoesOn

\* Each step of the program and of the others keeps the invariant.
LEMMA ProvStep ==
    ASSUME ProvInv, [ProvisioningNext]_provisioning_vars
    PROVE  ProvInv'
<1>1. CASE UNCHANGED provisioning_vars
    <2>1. ProvTypes' /\ Handles' /\ NothingYet'
        BY <1>1 DEF provisioning_vars, ProvInv, ProvTypes, ProvisioningTypeOK, Handles, NothingYet, handle_open
    <2>2. Undisturbed'
        BY <1>1 DEF provisioning_vars, ProvInv, Undisturbed, QueriedSoFar, WrittenSoFar
    <2>3. OkIsCanonical' /\ WritesAreWarranted' /\ RepairAlwaysPossible' /\ RestartAdvised'
        BY <1>1 DEF provisioning_vars, ProvInv, ProvisioningConverges, OkIsCanonical, WritesAreWarranted,
                    RepairAlwaysPossible, RestartAdvised, finished
    <2> QED BY <2>1, <2>2, <2>3 DEF ProvInv, ProvTypes, ProvisioningConverges
<1>2. CASE \/ query_service_config \/ query_service_key_name \/ query_description
           \/ query_delayed_auto_start \/ query_failure_actions \/ query_failure_actions_flag
    BY <1>2, ReadInv DEF query_service_config, query_service_key_name, query_description,
                         query_delayed_auto_start, query_failure_actions, query_failure_actions_flag
<1> QED BY <1>1, <1>2, AttemptInv, OpenInv, QueriedInv, ConvergeInv, CreateInv, WriteInv, DropInv, OthersInv
        DEF ProvisioningNext

\* Installing and repairing converge, whatever entry was found, whichever call
\* failed and whatever other administrators did between the calls: a success
\* nobody disturbed leaves the contract, a refusal wrote nothing, a call with
\* no fault repairs what a failed one left, and the restart advice is about
\* what this call changed.
THEOREM ProvisioningHolds == ProvisioningSpec => []ProvisioningConverges
<1>1. ASSUME ProvisioningInit PROVE ProvInv
    <2>1. /\ run \in Run /\ run.attempt = 0 /\ run.writes = 0
        BY <1>1, ProvisioningAssumption DEF ProvisioningInit, Run
    <2>2. ProvisioningTypeOK
        <3>1. scm \in ScmConfigSnapshot \cup {NoEntry}
            BY <1>1 DEF ProvisioningInit
        <3>2. /\ prov_pc = "idle" /\ purpose = "initial" /\ at = 1 /\ seen = Canonical /\ existing = NoEntry
              /\ outcome = "none" /\ advised = FALSE
            BY <1>1 DEF ProvisioningInit
        <3>3. 1 \in 1..(Len(Reads) + 1)
            BY DEF Reads
        <3>4. /\ run.attempt \in 0..MaxAttempts /\ run.edits \in 0..MaxEdits /\ run.writes \in Nat
              /\ {run.faulted, run.disturbed, run.cleared} \subseteq BOOLEAN
            BY <2>1 DEF Run
        <3> QED BY <3>1, <3>2, <3>3, <3>4, CanonicalEntries, Zenon DEF ProvisioningTypeOK
    <2>3. Handles /\ NothingYet /\ Undisturbed
        BY <1>1 DEF ProvisioningInit, Handles, NothingYet, Undisturbed, handle_open
    <2>4. OkIsCanonical /\ WritesAreWarranted /\ RepairAlwaysPossible /\ RestartAdvised
        BY <2>1 DEF OkIsCanonical, WritesAreWarranted, RepairAlwaysPossible, RestartAdvised, finished
    <2> QED BY <2>1, <2>2, <2>3, <2>4 DEF ProvInv, ProvTypes, ProvisioningConverges
<1>2. ProvInv => ProvisioningConverges
    BY DEF ProvInv
<1> QED BY <1>1, <1>2, ProvStep, PTL DEF ProvisioningSpec

-----------------------------------------------------------------------------
(* Credentials *)
Sealed == [sealed |-> token, account |-> "service"]
(* Until somebody edits it, the file is what the set-up wrote; after that   *)
(* it still is a credentials file, and its digest one of pin or none.       *)
Untouched ==
    \E s \in Salt : wire = [schema_version |-> 1, pin_hash |-> hash_pin(pin, s),
                            token_dpapi |-> Text(Sealed, "canonical")]
Phc(h) == h = [alg |-> h.alg, version |-> h.version, params |-> h.params, salt |-> h.salt, hash |-> h.hash]
IsFile == /\ wire = [schema_version |-> wire.schema_version, pin_hash |-> wire.pin_hash,
                     token_dpapi |-> Text(wire.token_dpapi.bytes, wire.token_dpapi.form)]
          /\ Phc(wire.pin_hash)
Digest == wire.pin_hash.hash.bytes # Empty => wire.pin_hash.hash.bytes.pin = pin
Wire == wire # Error => /\ pin \in Pin /\ token \in Token
                        /\ IsFile /\ Digest
                        /\ cred_edits = 0 => Untouched
Loaded ==
    /\ cred_pc = "down" => cred_loaded = Error /\ verdict = "none"
    /\ cred_pc = "running" => /\ wire # Error
                              /\ cred_loaded = [pin_hash |-> wire.pin_hash, token_dpapi |-> wire.token_dpapi.bytes]
                              /\ encode_credentials_json(cred_loaded) = wire
                              /\ validate_pin_hash(cred_loaded.pin_hash)
Verdict ==
    /\ verdict \in {"true", "false"} => policy(cred_loaded.pin_hash)
    /\ verdict \in {"none", "error", "true", "false"}
CredPcs == cred_pc \in {"down", "running"} /\ cred_edits \in Nat
Opened == verdict # "none" /\ cred_edits = 0 => opened = token

CredInv == CredPcs /\ Wire /\ Loaded /\ Verdict /\ OnlyThePin /\ Opened

\* A hash, a sealed token, a record read and a file are no errors.
LEMMA NoError ==
    /\ \A a, b, c, d, e : [alg |-> a, version |-> b, params |-> c, salt |-> d, hash |-> e] # Error
    /\ \A a, b : [sealed |-> a, account |-> b] # Error
    /\ \A a, b : [schema_version |-> a, config |-> b] # Error
    /\ \A a, b : [pin_hash |-> a, token_dpapi |-> b] # Error
<1>1. DOMAIN Error = {"error"}
    BY DEF Error
<1>2. ASSUME NEW a, NEW b, NEW c, NEW d, NEW e
      PROVE [alg |-> a, version |-> b, params |-> c, salt |-> d, hash |-> e] # Error
    <2>1. "alg" \in DOMAIN [alg |-> a, version |-> b, params |-> c, salt |-> d, hash |-> e]
        OBVIOUS
    <2> QED BY <1>1, <2>1
<1>3. ASSUME NEW a, NEW b
      PROVE /\ [sealed |-> a, account |-> b] # Error
            /\ [schema_version |-> a, config |-> b] # Error
            /\ [pin_hash |-> a, token_dpapi |-> b] # Error
    <2>1. /\ "sealed" \in DOMAIN [sealed |-> a, account |-> b]
          /\ "config" \in DOMAIN [schema_version |-> a, config |-> b]
          /\ "pin_hash" \in DOMAIN [pin_hash |-> a, token_dpapi |-> b]
        OBVIOUS
    <2> QED BY <1>1, <2>1
<1> QED BY <1>2, <1>3

\* What set-up makes of a PIN passes the codec and the policy.
LEMMA HashIsValid ==
    ASSUME NEW p \in Pin, NEW s \in Salt
    PROVE  /\ hash_pin(p, s) # Error
           /\ hash_pin(p, s).hash = Text([pin |-> p, salt |-> s, cost |-> ARGON2_M_COST], "canonical")
           /\ hash_pin(p, s).salt = Text(s, "canonical")
           /\ validate_pin_hash(hash_pin(p, s)) /\ policy(hash_pin(p, s))
<1> DEFINE h == hash_pin(p, s)
           ps == << <<"m", Number(TRUE, ARGON2_M_COST)>>, <<"t", Number(TRUE, ARGON2_T_COST)>>,
                    <<"p", Number(TRUE, ARGON2_P_COST)>> >>
           digest == [pin |-> p, salt |-> s, cost |-> ARGON2_M_COST]
<1>1. h = [alg |-> "argon2id", version |-> 19, params |-> ps,
           salt |-> Text(s, "canonical"), hash |-> Text(digest, "canonical")]
    BY SpecialValues DEF hash_pin
<1>2. h # Error
    BY <1>1, NoError, Zenon
<1>3. digest # Empty /\ s # Empty
    BY SpecialValues
<1>4. /\ Len(ps) = 3
      /\ ps[1] = <<"m", Number(TRUE, ARGON2_M_COST)>>
      /\ ps[2] = <<"t", Number(TRUE, ARGON2_T_COST)>>
      /\ ps[3] = <<"p", Number(TRUE, ARGON2_P_COST)>>
    OBVIOUS
<1> HIDE DEF ps, digest
<1>5. /\ h.alg = "argon2id" /\ h.version = 19 /\ h.params = ps
      /\ h.salt = Text(s, "canonical") /\ h.hash = Text(digest, "canonical")
    BY <1>1
<1> HIDE DEF h
<1>6. /\ validate_phc_base64(h.salt) /\ validate_phc_base64(h.hash)
      /\ h.salt.bytes = s /\ h.hash.bytes = digest
    BY <1>3, <1>5 DEF validate_phc_base64, Text
<1>7. /\ parse_positive_u32(Number(TRUE, ARGON2_M_COST)) /\ parse_positive_u32(Number(TRUE, ARGON2_T_COST))
      /\ parse_positive_u32(Number(TRUE, ARGON2_P_COST))
    BY ParametersAreU32 DEF parse_positive_u32, Number
<1>8. \A i \in 1..3 : ps[i][1] = <<"m", "t", "p">>[i] /\ parse_positive_u32(ps[i][2])
    <2>1. \A i \in 1..3 : i = 1 \/ i = 2 \/ i = 3
        OBVIOUS
    <2>2. /\ ps[1][1] = "m" /\ ps[2][1] = "t" /\ ps[3][1] = "p"
          /\ ps[1][2] = Number(TRUE, ARGON2_M_COST) /\ ps[2][2] = Number(TRUE, ARGON2_T_COST)
          /\ ps[3][2] = Number(TRUE, ARGON2_P_COST)
        BY <1>4
    <2>3. <<"m", "t", "p">>[1] = "m" /\ <<"m", "t", "p">>[2] = "t" /\ <<"m", "t", "p">>[3] = "p"
        OBVIOUS
    <2> QED BY <2>1, <2>2, <2>3, <1>7, Zenon
<1>9. validate_pin_hash(h)
    BY <1>4, <1>5, <1>6, <1>8 DEF validate_pin_hash
<1>10. /\ exactly(h, "m", ARGON2_M_COST) /\ exactly(h, "t", ARGON2_T_COST) /\ exactly(h, "p", ARGON2_P_COST)
    <2>1. \A name : {j \in 1..Len(h.params) : h.params[j][1] = name} = {j \in 1..3 : ps[j][1] = name}
        BY <1>4, <1>5, Zenon
    <2>2. /\ {j \in 1..3 : ps[j][1] = "m"} = {1} /\ {j \in 1..3 : ps[j][1] = "t"} = {2}
          /\ {j \in 1..3 : ps[j][1] = "p"} = {3}
        <3>1. /\ ps[1][1] = "m" /\ ps[2][1] = "t" /\ ps[3][1] = "p"
            BY <1>4
        <3> QED BY <3>1
    <2>3. ASSUME NEW name, NEW k, {j \in 1..3 : ps[j][1] = name} = {k}
          PROVE  param(h, name) = {ps[k][2]}
        <3>1. param(h, name) = {h.params[i][2] : i \in {j \in 1..Len(h.params) : h.params[j][1] = name}}
            BY DEF param
        <3>2. {j \in 1..Len(h.params) : h.params[j][1] = name} = {k}
            BY <2>1, <2>3
        <3>3. {h.params[i][2] : i \in {k}} = {h.params[k][2]}
            OBVIOUS
        <3> QED BY <3>1, <3>2, <3>3, <1>5
    <2>4. /\ ps[1][2] = Number(TRUE, ARGON2_M_COST) /\ ps[2][2] = Number(TRUE, ARGON2_T_COST)
          /\ ps[3][2] = Number(TRUE, ARGON2_P_COST)
        BY <1>4
    <2>5. exactly(h, "m", ARGON2_M_COST)
        <3>1. param(h, "m") = {ps[1][2]}
            BY <2>2, <2>3
        <3> QED BY <2>4, <3>1 DEF exactly
    <2>6. exactly(h, "t", ARGON2_T_COST)
        <3>1. param(h, "t") = {ps[2][2]}
            BY <2>2, <2>3
        <3> QED BY <2>4, <3>1 DEF exactly
    <2>7. exactly(h, "p", ARGON2_P_COST)
        <3>1. {j \in 1..3 : ps[j][1] = "p"} = {3}
            BY <2>2
        <3>2. param(h, "p") = {ps[3][2]}
            BY <3>1, <2>3
        <3> QED BY <2>4, <3>2 DEF exactly
    <2> QED BY <2>5, <2>6, <2>7
<1>11. policy(h)
    BY <1>3, <1>4, <1>5, <1>6, <1>10 DEF policy
<1> QED BY <1>2, <1>5, <1>9, <1>11 DEF h, digest


\* What the set-up wrote is a credentials file with the PIN's digest.
LEMMA FileKept ==
    ASSUME pin' \in Pin, Untouched'
    PROVE  IsFile' /\ Digest'
<1>1. PICK s \in Salt : wire' = [schema_version |-> 1, pin_hash |-> hash_pin(pin', s),
                                  token_dpapi |-> Text(Sealed', "canonical")]
    BY DEF Untouched
<1>2. PICK h : h = hash_pin(pin', s)
    OBVIOUS
<1>3. PICK p : p = pin'
    OBVIOUS
<1>4. h.hash = Text([pin |-> p, salt |-> s, cost |-> ARGON2_M_COST], "canonical")
    BY <1>2, <1>3, HashIsValid
<1>5. h.hash.bytes = [pin |-> p, salt |-> s, cost |-> ARGON2_M_COST]
    BY <1>4 DEF Text
<1>6. PICK t : t = Text(Sealed', "canonical")
    OBVIOUS
<1>7. t = Text(t.bytes, t.form)
    BY <1>6 DEF Text
<1>8. wire' = [schema_version |-> 1, pin_hash |-> h, token_dpapi |-> t]
    BY <1>1, <1>2, <1>6
<1>9. wire'.schema_version = 1 /\ wire'.pin_hash = h /\ wire'.token_dpapi = t
    BY <1>8
<1>10. Phc(h)
    <2>1. p # Empty
        BY <1>3, SpecialValues
    <2>2. PICK a, v, q, u, g : h = [alg |-> a, version |-> v, params |-> q, salt |-> u, hash |-> g]
        BY <1>2, <1>3, <2>1 DEF hash_pin
    <2> QED BY <2>2 DEF Phc
<1>11. IsFile'
    BY <1>7, <1>8, <1>9, <1>10 DEF IsFile
<1>12. h.hash.bytes.pin = p
    BY <1>5
<1> QED BY <1>3, <1>9, <1>11, <1>12 DEF Digest

\* A hash with one part changed is a hash; its digest is kept or emptied.
LEMMA HashEdited ==
    ASSUME NEW h, Phc(h), NEW k \in EditedHash(h)
    PROVE  Phc(k) /\ k.hash.bytes \in {h.hash.bytes, Empty}
<1>1. PICK a, v, p, u, g : h = [alg |-> a, version |-> v, params |-> p, salt |-> u, hash |-> g]
    BY DEF Phc
<1>2. h.alg = a /\ h.version = v /\ h.params = p /\ h.salt = u /\ h.hash = g
    BY <1>1
<1>3. CASE k = [h EXCEPT !.alg = "argon2i"]
    <2>1. k = [alg |-> "argon2i", version |-> v, params |-> p, salt |-> u, hash |-> g]
        BY <1>1, <1>3
    <2> QED BY <1>2, <2>1 DEF Phc
<1>4. CASE k = [h EXCEPT !.version = 16]
    <2>1. k = [alg |-> a, version |-> 16, params |-> p, salt |-> u, hash |-> g]
        BY <1>1, <1>4
    <2> QED BY <1>2, <2>1 DEF Phc
<1>5. CASE \E q \in EditedParams(h.params) : k = [h EXCEPT !.params = q]
    <2>1. PICK q : k = [h EXCEPT !.params = q]
        BY <1>5
    <2>2. k = [alg |-> a, version |-> v, params |-> q, salt |-> u, hash |-> g]
        BY <1>1, <2>1
    <2> QED BY <1>2, <2>2 DEF Phc
<1>6. CASE \E q \in EditedText(h.salt, Salt \cup {Empty}) : k = [h EXCEPT !.salt = q]
    <2>1. PICK q : k = [h EXCEPT !.salt = q]
        BY <1>6
    <2>2. k = [alg |-> a, version |-> v, params |-> p, salt |-> q, hash |-> g]
        BY <1>1, <2>1
    <2> QED BY <1>2, <2>2 DEF Phc
<1>7. CASE \E q \in EditedText(h.hash, {Empty}) : k = [h EXCEPT !.hash = q]
    <2>1. PICK q \in EditedText(h.hash, {Empty}) : k = [h EXCEPT !.hash = q]
        BY <1>7
    <2>2. k = [alg |-> a, version |-> v, params |-> p, salt |-> u, hash |-> q]
        BY <1>1, <2>1
    <2>3. q.bytes \in {h.hash.bytes, Empty}
        BY DEF EditedText, Text
    <2> QED BY <2>2, <2>3 DEF Phc
<1> QED BY <1>3, <1>4, <1>5, <1>6, <1>7 DEF EditedHash

\* A credentials file in which another hash is put is one.
LEMMA FileWithHash ==
    ASSUME IsFile, NEW k, Phc(k), wire' = [wire EXCEPT !.pin_hash = k],
           k.hash.bytes # Empty => k.hash.bytes.pin = pin'
    PROVE  IsFile' /\ Digest'
<1>1. PICK v, h, t : /\ wire = [schema_version |-> v, pin_hash |-> h, token_dpapi |-> t]
                     /\ t = Text(t.bytes, t.form)
    <2>1. wire = [schema_version |-> wire.schema_version, pin_hash |-> wire.pin_hash,
                  token_dpapi |-> Text(wire.token_dpapi.bytes, wire.token_dpapi.form)]
        BY DEF IsFile
    <2>2. PICK t : t = Text(wire.token_dpapi.bytes, wire.token_dpapi.form)
        OBVIOUS
    <2>3. t = Text(t.bytes, t.form)
        BY <2>2 DEF Text
    <2> QED BY <2>1, <2>2, <2>3, Zenon
<1>2. wire' = [schema_version |-> v, pin_hash |-> k, token_dpapi |-> t]
    BY <1>1
<1>3. wire'.schema_version = v /\ wire'.pin_hash = k /\ wire'.token_dpapi = t
    BY <1>2
<1>4. IsFile'
    BY <1>1, <1>2, <1>3, Zenon DEF IsFile
<1> QED BY <1>3, <1>4 DEF Digest

\* An edited file still is a credentials file; its digest is kept or emptied.
LEMMA EditKeeps ==
    ASSUME IsFile, Digest, wire' \in Edits(wire), UNCHANGED pin
    PROVE  IsFile' /\ Digest'
<1>1. CASE \E k \in EditedHash(wire.pin_hash) : wire' = [wire EXCEPT !.pin_hash = k]
    <2>1. PICK k \in EditedHash(wire.pin_hash) : wire' = [wire EXCEPT !.pin_hash = k]
        BY <1>1
    <2>2. PICK h : h = wire.pin_hash /\ Phc(h)
        BY DEF IsFile
    <2>3. Phc(k) /\ k.hash.bytes \in {h.hash.bytes, Empty}
        BY <2>1, <2>2, HashEdited
    <2>4. k.hash.bytes # Empty => k.hash.bytes.pin = pin'
        BY <2>2, <2>3 DEF Digest
    <2> QED BY <2>1, <2>3, <2>4, FileWithHash
<1>2. PICK v, h, t : /\ wire = [schema_version |-> v, pin_hash |-> h, token_dpapi |-> t]
                     /\ t = Text(t.bytes, t.form) /\ Phc(h) /\ h = wire.pin_hash
    <2>1. /\ wire = [schema_version |-> wire.schema_version, pin_hash |-> wire.pin_hash,
                     token_dpapi |-> Text(wire.token_dpapi.bytes, wire.token_dpapi.form)]
          /\ Phc(wire.pin_hash)
        BY DEF IsFile
    <2>2. PICK t : t = Text(wire.token_dpapi.bytes, wire.token_dpapi.form)
        OBVIOUS
    <2>3. t = Text(t.bytes, t.form)
        BY <2>2 DEF Text
    <2> QED BY <2>1, <2>2, <2>3, Zenon
<1>3. ASSUME NEW v1, NEW t1, t1 = Text(t1.bytes, t1.form),
             wire' = [schema_version |-> v1, pin_hash |-> h, token_dpapi |-> t1]
      PROVE  IsFile' /\ Digest'
    <2>1. wire'.schema_version = v1 /\ wire'.pin_hash = h /\ wire'.token_dpapi = t1
        BY <1>3
    <2>2. IsFile'
        BY <1>2, <1>3, <2>1, Zenon DEF IsFile
    <2> QED BY <1>2, <2>1, <2>2 DEF Digest
<1>4. CASE wire' = [wire EXCEPT !.schema_version = 2]
    <2>1. wire' = [schema_version |-> 2, pin_hash |-> h, token_dpapi |-> t]
        BY <1>2, <1>4
    <2> QED BY <1>2, <1>3, <2>1
<1>5. CASE \E q : wire' = [wire EXCEPT !.token_dpapi = q] /\ q = Text(q.bytes, q.form)
    <2>1. PICK q : wire' = [wire EXCEPT !.token_dpapi = q] /\ q = Text(q.bytes, q.form)
        BY <1>5
    <2>2. wire' = [schema_version |-> v, pin_hash |-> h, token_dpapi |-> q]
        BY <1>2, <2>1
    <2> QED BY <1>3, <2>1, <2>2
<1>6. \/ wire' = [wire EXCEPT !.schema_version = 2]
      \/ \E k \in EditedHash(wire.pin_hash) : wire' = [wire EXCEPT !.pin_hash = k]
      \/ \E q : wire' = [wire EXCEPT !.token_dpapi = q] /\ q = Text(q.bytes, q.form)
    <2>1. \A x, b : \A q \in EditedText(x, b) : q = Text(q.bytes, q.form)
        BY DEF EditedText, Text
    <2> QED BY <2>1 DEF Edits
<1> QED BY <1>1, <1>4, <1>5, <1>6

\* While the service is down nobody logs in.
LEMMA DownInv ==
    ASSUME CredInv, cred_pc = "down", UNCHANGED service_side, cred_edits' \in Nat, Wire'
    PROVE  CredInv'
BY DEF CredInv, CredPcs, Loaded, Verdict, OnlyThePin, Opened, service_side

\* Writing the two files.
LEMMA ProvisionInv ==
    ASSUME CredInv, NEW p \in Pin \cup {Empty}, NEW t \in Token \cup {Huge}, NEW c \in Config, NEW s \in Salt,
           provision(p, t, c, s)
    PROVE  CredInv'
<1> DEFINE phc == hash_pin(p, s)
           blob == protect_data(t, "service")
<1>1. cred_pc = "down" /\ UNCHANGED service_side
    BY DEF provision
<1>2. CASE UNCHANGED cred_files
    <2>1. Wire'
        BY <1>2 DEF CredInv, Wire, IsFile, Phc, Digest, Untouched, Sealed, cred_files
    <2>2. cred_edits' \in Nat
        BY <1>2 DEF CredInv, CredPcs, cred_files
    <2> QED BY <1>1, <2>1, <2>2, DownInv
<1>3. CASE /\ phc # Error /\ blob # Error
           /\ wire' = encode_credentials_json([pin_hash |-> phc, token_dpapi |-> blob])
           /\ pin' = p /\ token' = t /\ cred_edits' = 0
    <2>1. p \in Pin
        BY <1>3 DEF hash_pin
    <2>2. t \in Token /\ blob = [sealed |-> t, account |-> "service"]
        BY <1>3 DEF protect_data
    <2>3. blob # Empty /\ blob = Sealed'
        BY <1>3, <2>2, SpecialValues DEF Sealed
    <2>4. validate_pin_hash(phc)
        BY <2>1, HashIsValid
    <2>5. PICK d : d = [pin_hash |-> phc, token_dpapi |-> blob]
        OBVIOUS
    <2>6. phc = hash_pin(pin', s)
        BY <1>3
    <2> HIDE DEF phc, blob
    <2>7. d.pin_hash = phc /\ d.token_dpapi = blob
        BY <2>5
    <2>8. wire' = [schema_version |-> 1, pin_hash |-> phc, token_dpapi |-> Text(blob, "canonical")]
        BY <1>3, <2>3, <2>4, <2>5, <2>7 DEF encode_credentials_json, validate
    <2>9. Untouched'
        BY <2>3, <2>6, <2>8 DEF Untouched
    <2>10. IsFile' /\ Digest'
        BY <1>3, <2>1, <2>9, FileKept
    <2>11. Wire'
        BY <1>3, <2>1, <2>2, <2>9, <2>10 DEF Wire
    <2> QED BY <1>1, <1>3, <2>11, DownInv
<1> QED BY <1>2, <1>3 DEF provision

LEMMA EditInv ==
    ASSUME CredInv, edits_file, IsFile' /\ Digest', pin' \in Pin
    PROVE  CredInv'
<1>1. /\ cred_pc = "down" /\ wire # Error /\ cred_edits' = cred_edits + 1 /\ cred_edits \in Nat
      /\ UNCHANGED service_side /\ token' = token
    BY DEF edits_file, CredInv, CredPcs
<1>2. cred_edits' \in Nat /\ cred_edits' # 0
    BY <1>1
<1>3. Wire'
    BY <1>1, <1>2 DEF CredInv, Wire
<1> QED BY <1>1, <1>2, <1>3, DownInv

LEMMA EditedInv ==
    ASSUME CredInv, edit
    PROVE  CredInv'
<1>1. edits_file /\ pin' = pin /\ pin \in Pin /\ IsFile /\ Digest /\ (wire' \in Edits(wire) \/ UNCHANGED wire)
    BY DEF edit, edits_file, CredInv, Wire
<1>2. CASE wire' \in Edits(wire)
    BY <1>1, <1>2, EditKeeps, EditInv
<1>3. CASE UNCHANGED wire
    <2>1. IsFile' /\ Digest'
        BY <1>1, <1>3 DEF IsFile, Phc, Digest
    <2> QED BY <1>1, <2>1, EditInv
<1> QED BY <1>1, <1>2, <1>3

\* A digest of another PIN in the file is that PIN's.
LEMMA PlantInv ==
    ASSUME CredInv, NEW p \in Pin, NEW s \in Salt, NEW cost, plant(p, s, cost)
    PROVE  CredInv'
<1>1. edits_file /\ pin' = p /\ IsFile
    BY DEF plant, edits_file, CredInv, Wire
<1>2. PICK x : x = Text([pin |-> p, salt |-> s, cost |-> cost], "canonical")
    OBVIOUS
<1>3. PICK k : k = [wire.pin_hash EXCEPT !.hash = x]
    OBVIOUS
<1>4. wire' = [wire EXCEPT !.pin_hash = k]
    BY <1>2, <1>3 DEF plant
<1>5. Phc(k) /\ k.hash = x
    <2>1. PICK a, v, q, u, g : wire.pin_hash = [alg |-> a, version |-> v, params |-> q, salt |-> u, hash |-> g]
        BY <1>1 DEF IsFile, Phc
    <2>2. k = [alg |-> a, version |-> v, params |-> q, salt |-> u, hash |-> x]
        BY <1>3, <2>1
    <2> QED BY <2>2 DEF Phc
<1>6. x.bytes.pin = p
    BY <1>2 DEF Text
<1>7. IsFile' /\ Digest'
    BY <1>1, <1>4, <1>5, <1>6, FileWithHash
<1> QED BY <1>1, <1>7, EditInv

\* What the codec accepts is the file, and is written back as the file.
LEMMA RoundTrip ==
    ASSUME IsFile, NEW c, c = decode_credentials_json(wire), c # Error
    PROVE  /\ c = [pin_hash |-> wire.pin_hash, token_dpapi |-> wire.token_dpapi.bytes]
           /\ c.pin_hash = wire.pin_hash /\ c.token_dpapi = wire.token_dpapi.bytes
           /\ validate_pin_hash(c.pin_hash)
           /\ encode_credentials_json(c) = wire
<1>1. /\ wire.schema_version = 1 /\ validate_pin_hash(wire.pin_hash)
      /\ decode_dpapi_base64(wire.token_dpapi) # Error
      /\ c = [pin_hash |-> wire.pin_hash, token_dpapi |-> decode_dpapi_base64(wire.token_dpapi)]
    BY DEF decode_credentials_json
<1>2. /\ decode_dpapi_base64(wire.token_dpapi) = wire.token_dpapi.bytes
      /\ wire.token_dpapi.bytes # Empty /\ wire.token_dpapi.form = "canonical"
    BY <1>1 DEF decode_dpapi_base64
<1>3. c.pin_hash = wire.pin_hash /\ c.token_dpapi = wire.token_dpapi.bytes
    BY <1>1, <1>2
<1>4. encode_credentials_json(c) = [schema_version |-> 1, pin_hash |-> wire.pin_hash,
                                    token_dpapi |-> Text(wire.token_dpapi.bytes, "canonical")]
    BY <1>1, <1>2, <1>3 DEF encode_credentials_json, validate
<1>5. wire = [schema_version |-> 1, pin_hash |-> wire.pin_hash,
              token_dpapi |-> Text(wire.token_dpapi.bytes, "canonical")]
    BY <1>1, <1>2 DEF IsFile
<1> QED BY <1>1, <1>2, <1>3, <1>4, <1>5

\* The service reads, and writes, no file while it runs.
LEMMA FilesKept == Wire /\ UNCHANGED cred_files => Wire'
BY DEF Wire, IsFile, Phc, Digest, Untouched, Sealed, cred_files

LEMMA LoadInv ==
    ASSUME CredInv, load_files
    PROVE  CredInv'
<1>1. /\ cred_pc = "down" /\ wire # Error /\ cred_loaded = Error /\ verdict = "none"
      /\ UNCHANGED <<cred_files, asked, verdict, opened>>
    BY DEF load_files, CredInv, Loaded
<1>2. UNCHANGED <<wire, pin, token, cred_edits>> /\ Wire'
    BY <1>1, FilesKept DEF CredInv, cred_files
<1>3. \/ cred_pc' = "down" /\ cred_loaded' = Error
      \/ /\ cred_pc' = "running" /\ decode_credentials_json(wire) # Error
         /\ cred_loaded' = decode_credentials_json(wire)
    BY <1>1 DEF load_files
<1>4. Verdict' /\ OnlyThePin' /\ Opened' /\ CredPcs'
    BY <1>1, <1>2, <1>3 DEF CredInv, Verdict, OnlyThePin, Opened, CredPcs
<1>5. Loaded'
    <2>1. CASE cred_pc' = "down" /\ cred_loaded' = Error
        BY <1>1, <2>1 DEF Loaded
    <2>2. CASE /\ cred_pc' = "running" /\ decode_credentials_json(wire) # Error
               /\ cred_loaded' = decode_credentials_json(wire)
        <3>1. IsFile
            BY <1>1 DEF CredInv, Wire
        <3>2. PICK c : c = decode_credentials_json(wire)
            OBVIOUS
        <3>3. /\ c = [pin_hash |-> wire.pin_hash, token_dpapi |-> wire.token_dpapi.bytes]
              /\ validate_pin_hash(c.pin_hash) /\ encode_credentials_json(c) = wire
            BY <2>2, <3>1, <3>2, RoundTrip
        <3>4. cred_loaded' = c /\ wire' = wire
            BY <1>2, <2>2, <3>2
        <3> QED BY <1>1, <2>2, <3>3, <3>4 DEF Loaded
    <2> QED BY <1>3, <2>1, <2>2
<1> QED BY <1>2, <1>4, <1>5 DEF CredInv

LEMMA AuthInv ==
    ASSUME CredInv, NEW tried \in Pin \cup {Empty}, authenticate(tried)
    PROVE  CredInv'
<1>1. /\ cred_pc = "running"
      /\ asked' = tried
      /\ verdict' = verify_pin(tried, cred_loaded.pin_hash)
      /\ opened' = unprotect_data(cred_loaded.token_dpapi, "service")
      /\ UNCHANGED <<wire, pin, token, cred_edits, cred_pc, cred_loaded>> /\ UNCHANGED cred_files
    BY DEF authenticate, cred_files
<1>2. /\ pin \in Pin /\ token \in Token /\ IsFile /\ Digest /\ (cred_edits = 0 => Untouched)
      /\ wire # Error
    BY <1>1 DEF CredInv, Wire, Loaded
<1>3. cred_loaded.pin_hash = wire.pin_hash /\ cred_loaded.token_dpapi = wire.token_dpapi.bytes
    BY <1>1 DEF CredInv, Loaded
<1>4. Wire'
    BY <1>1, FilesKept DEF CredInv
<1>5. Loaded'
    <2>1. Loaded
        BY DEF CredInv
    <2> QED BY <1>1, <2>1 DEF Loaded
<1>6. PICK h : h = cred_loaded.pin_hash
    OBVIOUS
<1>7. /\ verdict' \in {"error", "true", "false"}
      /\ verdict' # "error" => policy(h)
      /\ verdict' = "true" => /\ h.hash.bytes = [pin |-> tried, salt |-> h.salt.bytes, cost |-> ARGON2_M_COST]
                              /\ h.hash.bytes # Empty /\ tried # Empty
      /\ policy(h) => /\ verdict' # "error"
                      /\ tried # Empty
                         /\ h.hash.bytes = [pin |-> tried, salt |-> h.salt.bytes, cost |-> ARGON2_M_COST]
                         => verdict' = "true"
    BY <1>1, <1>6 DEF verify_pin, policy
<1>8. Verdict'
    BY <1>1, <1>6, <1>7 DEF Verdict
<1>9. ASSUME verdict' = "true" PROVE tried = pin
    <2>1. h.hash.bytes.pin = pin
        BY <1>2, <1>3, <1>6, <1>7, <1>9 DEF Digest
    <2>2. h.hash.bytes.pin = tried
        BY <1>7, <1>9
    <2> QED BY <2>1, <2>2
<1>10. ASSUME cred_edits = 0 PROVE policy(h) /\ (tried = pin => verdict' = "true")
    <2>1. PICK s \in Salt : wire.pin_hash = hash_pin(pin, s)
        BY <1>2, <1>10 DEF Untouched
    <2>2. /\ h.hash = Text([pin |-> pin, salt |-> s, cost |-> ARGON2_M_COST], "canonical")
          /\ h.salt = Text(s, "canonical") /\ policy(h)
        BY <1>2, <1>3, <1>6, <2>1, HashIsValid
    <2>3. h.hash.bytes = [pin |-> pin, salt |-> s, cost |-> ARGON2_M_COST] /\ h.salt.bytes = s
        BY <2>2 DEF Text
    <2>4. pin # Empty
        BY <1>2, SpecialValues
    <2> QED BY <1>7, <2>2, <2>3, <2>4
<1>11. OnlyThePin'
    <2>1. cred_edits' = cred_edits /\ pin' = pin /\ asked' = tried
        BY <1>1
    <2>2. verdict' = "true" => tried # Empty
        BY <1>7
    <2>3. cred_edits = 0 => verdict' = IF tried = pin THEN "true" ELSE "false"
        BY <1>7, <1>9, <1>10
    <2> QED BY <2>1, <2>2, <2>3, <1>9 DEF OnlyThePin
<1>12. ASSUME cred_edits = 0 PROVE opened' = token
    <2>1. wire.token_dpapi = Text(Sealed, "canonical")
        BY <1>2, <1>12 DEF Untouched
    <2>2. wire.token_dpapi.bytes = Sealed
        BY <2>1 DEF Text
    <2> QED BY <1>1, <1>3, <2>2 DEF Sealed, unprotect_data
<1>13. Opened' /\ CredPcs'
    BY <1>1, <1>12 DEF CredInv, Opened, CredPcs
<1> QED BY <1>4, <1>5, <1>8, <1>11, <1>13 DEF CredInv

LEMMA ExitInv ==
    ASSUME CredInv, service_exits
    PROVE  CredInv'
<1>1. /\ cred_pc' = "down" /\ cred_loaded' = Error /\ verdict' = "none" /\ UNCHANGED cred_files
    BY DEF service_exits
<1>2. Wire' /\ cred_edits' = cred_edits
    BY <1>1, FilesKept DEF CredInv, cred_files
<1> QED BY <1>1, <1>2 DEF CredInv, CredPcs, Loaded, Verdict, OnlyThePin, Opened

\* A hash that passes the policy has the policy's parameters, in the codec's order.
LEMMA PolicyParameters ==
    ASSUME NEW h, policy(h), validate_pin_hash(h)
    PROVE  \A i \in 1..3 : h.params[i][2].value = <<ARGON2_M_COST, ARGON2_T_COST, ARGON2_P_COST>>[i]
<1>1. ASSUME NEW i \in 1..3, NEW name, h.params[i][1] = name, NEW cost, exactly(h, name, cost)
      PROVE  h.params[i][2].value = cost
    <2>1. i \in {j \in 1..Len(h.params) : h.params[j][1] = name}
        BY <1>1 DEF policy
    <2>2. h.params[i][2] \in param(h, name)
        BY <2>1 DEF param
    <2>3. h.params[i][2] = Number(TRUE, cost)
        BY <1>1, <2>2 DEF exactly
    <2> QED BY <2>3 DEF Number
<1>2. /\ h.params[1][1] = "m" /\ h.params[2][1] = "t" /\ h.params[3][1] = "p"
    BY DEF validate_pin_hash
<1>3. /\ h.params[1][2].value = ARGON2_M_COST /\ h.params[2][2].value = ARGON2_T_COST
      /\ h.params[3][2].value = ARGON2_P_COST
    BY <1>1, <1>2 DEF policy
<1> QED BY <1>3

\* However often the files are set up, edited and loaded, and PINs tried: a PIN
\* is accepted only if its digest is the one last put into the file, the PIN of
\* the set-up is accepted as long as nobody edits it, no hash but the policy's is
\* ever verified, and what was loaded is what a save would write back.
THEOREM OnlyThisPin == CredSpec => []PinHonoured
<1>1. CredInit => CredInv
    BY DEF CredInit, CredInv, CredPcs, Wire, Loaded, Verdict, OnlyThePin, Opened
<1>2. ASSUME CredInv, [CredNext]_cred_vars PROVE CredInv'
    <2>1. CASE UNCHANGED cred_vars
        <3>1. CredPcs' /\ Loaded' /\ Verdict' /\ OnlyThePin' /\ Opened'
            BY <1>2, <2>1 DEF cred_vars, CredInv, CredPcs, Loaded, Verdict, OnlyThePin, Opened
        <3>2. Wire'
            BY <1>2, <2>1, FilesKept DEF cred_vars, cred_files, CredInv
        <3> QED BY <3>1, <3>2 DEF CredInv
    <2> QED BY <1>2, <2>1, ProvisionInv, EditedInv, PlantInv, LoadInv, AuthInv, ExitInv DEF CredNext
<1>3. CredInv => PinHonoured
    <2> SUFFICES ASSUME CredInv PROVE NoDowngrade /\ LoadedIsCanonical
        BY DEF CredInv, PinHonoured
    <2>1. NoDowngrade
        <3> SUFFICES ASSUME verdict # "error", verdict # "none"
                     PROVE  \A i \in 1..3 : cred_loaded.pin_hash.params[i][2].value
                                            = <<ARGON2_M_COST, ARGON2_T_COST, ARGON2_P_COST>>[i]
            BY DEF NoDowngrade
        <3>1. policy(cred_loaded.pin_hash) /\ cred_pc = "running"
            BY DEF CredInv, Verdict, Loaded, CredPcs
        <3>2. validate_pin_hash(cred_loaded.pin_hash)
            BY <3>1 DEF CredInv, Loaded
        <3> QED BY <3>1, <3>2, PolicyParameters
    <2>2. LoadedIsCanonical
        BY DEF CredInv, CredPcs, Loaded, Opened, LoadedIsCanonical
    <2> QED BY <2>1, <2>2
<1> QED BY <1>1, <1>2, <1>3, PTL DEF CredSpec

-----------------------------------------------------------------------------
(* StateCodec *)
(* States and documents with any identifiers and of any size.              *)
AnyId == [1..StateIdBytes -> 0..255]
AnyPayload == [kind : {"Notification"}]
              \cup [kind : {"Chat"}, id : AnyId, sender : {"Child", "Parent"},
                    delivery : {"AcceptedByService", "AcceptedByTelegram"}]
AnyAction == [id : AnyId, emitted : SUBSET Threshold, state : ExecutionState]
AnyEntry == [id : AnyId, payload : AnyPayload]
AnyState == [desired : {"Unrestricted", "Blocked"}, active : Seq(AnyAction), outbox : Seq(AnyEntry)]

IdText == Seq(TextChar)
PayloadDto == [kind : {"Notification"}]
              \cup [kind : {"Chat"}, id : IdText, sender : {"Child", "Parent"},
                    delivery : {"AcceptedByService", "AcceptedByTelegram"}]
ActionDto == [id : IdText, emitted : Seq(Threshold), state : ExecutionState]
EntryDto == [id : IdText, payload : PayloadDto]
DocumentDto == [version : {1, 2}, desired : {"Unrestricted", "Blocked"},
                active : Seq(ActionDto), outbox : Seq(EntryDto)]

Storable(s) == /\ distinct_ids(s.active) /\ distinct_ids(s.outbox)
               /\ \A i \in 1..Len(s.active) : storable_action(s.active[i])
               /\ \A i \in 1..Len(s.outbox) : storable_entry(s.outbox[i])

\* A byte and its two digits.
LEMMA TwoDigits ==
    \A y \in 0..255 : y \div 16 \in 0..15 /\ y % 16 \in 0..15 /\ y = 16 * (y \div 16) + (y % 16)
OBVIOUS

\* Sixteen times the first digit plus the second is the byte.
LEMMA BytesAsDigits ==
    ASSUME NEW b \in AnyId
    PROVE  /\ format_128bit_id_hex(b) \in IdText
           /\ well_formed(format_128bit_id_hex(b))
           /\ parse_128bit_id_hex(format_128bit_id_hex(b)) = b
<1> DEFINE t == format_128bit_id_hex(b)
<1>1. t = [k \in 1..(2 * StateIdBytes) |-> LET byte == b[(k + 1) \div 2]
                                          IN  IF k % 2 = 1 THEN byte \div 16 ELSE byte % 16]
    BY DEF format_128bit_id_hex
<1> HIDE DEF t
<1>2. StateIdBytes \in Nat /\ 2 * StateIdBytes \in Nat
    BY CodecBounds
<1>3. ASSUME NEW k \in 1..(2 * StateIdBytes)
      PROVE  t[k] \in 0..15
    <2>1. (k + 1) \div 2 \in 1..StateIdBytes
        BY <1>2
    <2>2. PICK y \in 0..255 : y = b[(k + 1) \div 2]
        BY <2>1 DEF AnyId
    <2>3. t[k] = IF k % 2 = 1 THEN y \div 16 ELSE y % 16
        BY <1>1, <2>2
    <2>4. y \div 16 \in 0..15 /\ y % 16 \in 0..15
        OBVIOUS
    <2> QED BY <2>3, <2>4
<1>4. t \in [1..(2 * StateIdBytes) -> 0..15]
    BY <1>1, <1>3
<1>5. t \in IdText /\ Len(t) = 2 * StateIdBytes
    <2>1. t \in Seq(0..15) /\ Len(t) = 2 * StateIdBytes
        BY <1>2, <1>4, FunctionIsSeq
    <2>2. 0..15 \subseteq TextChar
        BY DEF TextChar
    <2> QED BY <2>1, <2>2, SeqMonotonic DEF IdText
<1>6. well_formed(t)
    BY <1>3, <1>5 DEF well_formed
<1>7. ASSUME NEW i \in 1..StateIdBytes
      PROVE  16 * t[2 * i - 1] + t[2 * i] = b[i]
    <2>1. /\ 2 * i - 1 \in 1..(2 * StateIdBytes) /\ 2 * i \in 1..(2 * StateIdBytes)
          /\ ((2 * i - 1) + 1) \div 2 = i /\ (2 * i + 1) \div 2 = i
          /\ (2 * i - 1) % 2 = 1 /\ (2 * i) % 2 = 0
        BY <1>2
    <2>2. PICK y \in 0..255 : y = b[i]
        BY DEF AnyId
    <2>3. t[2 * i - 1] = y \div 16
        BY <1>1, <2>1, <2>2
    <2>4. t[2 * i] = y % 16
        BY <1>1, <2>1, <2>2
    <2> QED BY <2>2, <2>3, <2>4, TwoDigits, SMTT(30)
<1>8. parse_128bit_id_hex(t) = b
    <2>1. parse_128bit_id_hex(t) = [i \in 1..StateIdBytes |-> b[i]]
        BY <1>7 DEF parse_128bit_id_hex
    <2> QED BY <2>1 DEF AnyId
<1> QED BY <1>5, <1>6, <1>8 DEF t

\* And a well-formed text is the text of the identifier it is read as.
LEMMA DigitsAsBytes ==
    ASSUME NEW t \in IdText, well_formed(t)
    PROVE  /\ parse_128bit_id_hex(t) \in AnyId
           /\ format_128bit_id_hex(parse_128bit_id_hex(t)) = t
<1> DEFINE b == parse_128bit_id_hex(t)
<1>1. b = [i \in 1..StateIdBytes |-> 16 * t[2 * i - 1] + t[2 * i]]
    BY DEF parse_128bit_id_hex
<1> HIDE DEF b
<1>2. StateIdBytes \in Nat /\ Len(t) = 2 * StateIdBytes
    BY CodecBounds DEF well_formed
<1>3. ASSUME NEW k \in 1..(2 * StateIdBytes)
      PROVE  t[k] \in 0..15
    <2>1. t[k] \in TextChar
        BY <1>2, ElementOfSeq DEF IdText
    <2> QED BY <1>2, <2>1 DEF well_formed, TextChar
<1>4. ASSUME NEW i \in 1..StateIdBytes
      PROVE  /\ b[i] \in 0..255 /\ b[i] \div 16 = t[2 * i - 1] /\ b[i] % 16 = t[2 * i]
    <2>1. t[2 * i - 1] \in 0..15 /\ t[2 * i] \in 0..15
        BY <1>2, <1>3
    <2>2. PICK x \in 0..15, y \in 0..15 : x = t[2 * i - 1] /\ y = t[2 * i]
        BY <2>1
    <2>3. b[i] = 16 * x + y
        BY <1>1, <2>2
    <2>4. 16 * x + y \in 0..255 /\ (16 * x + y) \div 16 = x /\ (16 * x + y) % 16 = y
        OBVIOUS
    <2> QED BY <2>2, <2>3, <2>4
<1>5. b \in AnyId
    BY <1>1, <1>4 DEF AnyId
<1>6. ASSUME NEW k \in 1..(2 * StateIdBytes)
      PROVE  t[k] = LET byte == b[(k + 1) \div 2] IN IF k % 2 = 1 THEN byte \div 16 ELSE byte % 16
    <2>1. PICK i \in 1..StateIdBytes : k = 2 * i - 1 \/ k = 2 * i
        <3>1. (k + 1) \div 2 \in 1..StateIdBytes
              /\ (k = 2 * ((k + 1) \div 2) - 1 \/ k = 2 * ((k + 1) \div 2))
            BY <1>2
        <3> QED BY <3>1
    <2>2. CASE k = 2 * i - 1
        <3>1. (k + 1) \div 2 = i /\ k % 2 = 1
            BY <2>2
        <3> QED BY <1>4, <2>2, <3>1
    <2>3. CASE k = 2 * i
        <3>1. (k + 1) \div 2 = i /\ k % 2 = 0
            BY <2>3
        <3> QED BY <1>4, <2>3, <3>1
    <2> QED BY <2>1, <2>2, <2>3
<1>7. t = [k \in 1..Len(t) |-> t[k]]
    BY LenProperties DEF IdText
<1>8. format_128bit_id_hex(b) = t
    BY <1>2, <1>6, <1>7 DEF format_128bit_id_hex
<1> QED BY <1>5, <1>8 DEF b

\* The thresholds of an action as a list: each once and no other.
LEMMA SetAsList ==
    ASSUME NEW S, S \subseteq Threshold
    PROVE  /\ SetToSeq(S) \in Seq(Threshold)
           /\ IsInjective(SetToSeq(S)) /\ ToSet(SetToSeq(S)) = S
<1>1. IsFiniteSet(S)
    BY CodecBounds, FS_Subset
<1>2. PICK n \in Nat : n = Cardinality(S) /\ ExistsBijection(1..n, S)
    BY <1>1, FS_CardinalityType
<1>3. PICK g \in Bijection(1..n, S) : TRUE
    BY <1>2 DEF ExistsBijection
<1>4. g \in [1..n -> S] /\ IsInjective(g)
    BY <1>3 DEF Bijection, Injection
<1>5. PICK f : f = SetToSeq(S)
    OBVIOUS
<1>6. f \in [1..n -> S] /\ IsInjective(f)
    BY <1>2, <1>4, <1>5 DEF SetToSeq
<1>7. f \in Seq(S) /\ Len(f) = n
    BY <1>6, FunctionIsSeq
<1>8. f \in Seq(Threshold)
    BY <1>7, SeqMonotonic
<1>9. {f[i] : i \in 1..n} = S
    <2>1. f \in Injection(1..n, S)
        BY <1>6 DEF Injection
    <2> DEFINE T == {f[i] : i \in 1..n}
    <2>2. f \in Injection(1..n, T) /\ f \in Surjection(1..n, T)
        BY <1>6 DEF Injection, Surjection, IsInjective
    <2>3. IsFiniteSet(1..n) /\ Cardinality(1..n) = n
        BY FS_Interval
    <2>4. Cardinality(T) = n
        BY <2>2, <2>3, FS_Surjection
    <2>5. T \in SUBSET S
        BY <1>6
    <2> QED BY <1>1, <1>2, <2>4, <2>5, FS_Subset
<1>10. DOMAIN f = 1..n
    BY <1>6
<1> QED BY <1>5, <1>6, <1>8, <1>9, <1>10 DEF ToSet

\* An action is what is read from its own document.
LEMMA ActionRoundTrip ==
    ASSUME NEW a \in AnyAction
    PROVE  /\ encode_action(a) \in ActionDto
           /\ readable_action(encode_action(a)) <=> storable_action(a)
           /\ parse_128bit_id_hex(encode_action(a).id) = a.id
           /\ decode_action(encode_action(a)) = a
<1>1. a.id \in AnyId /\ a.emitted \subseteq Threshold /\ a.state \in ExecutionState
      /\ a = [id |-> a.id, emitted |-> a.emitted, state |-> a.state]
    BY DEF AnyAction
<1>2. PICK t : t = format_128bit_id_hex(a.id)
    OBVIOUS
<1>3. PICK e : e = SetToSeq(a.emitted)
    OBVIOUS
<1>4. t \in IdText /\ well_formed(t) /\ parse_128bit_id_hex(t) = a.id
    BY <1>1, <1>2, BytesAsDigits
<1>5. e \in Seq(Threshold) /\ IsInjective(e) /\ ToSet(e) = a.emitted
    BY <1>1, <1>3, SetAsList
<1>6. PICK d : d = encode_action(a)
    OBVIOUS
<1>7. d = [id |-> t, emitted |-> e, state |-> a.state]
    BY <1>2, <1>3, <1>6 DEF encode_action
<1>8. d.id = t /\ d.emitted = e /\ d.state = a.state
    BY <1>7
<1>9. d \in ActionDto
    BY <1>1, <1>4, <1>5, <1>7 DEF ActionDto
<1>10. readable_action(d) <=> storable_action(a)
    BY <1>4, <1>5, <1>8 DEF readable_action, storable_action
<1>11. decode_action(d) = a
    BY <1>1, <1>4, <1>5, <1>8 DEF decode_action
<1> QED BY <1>4, <1>6, <1>8, <1>9, <1>10, <1>11

\* And a document that is read as an action is a storable action's, with the
\* same identifier in the same letters.
LEMMA ActionReadable ==
    ASSUME NEW d \in ActionDto, readable_action(d)
    PROVE  /\ decode_action(d) \in AnyAction /\ storable_action(decode_action(d))
           /\ decode_action(d).id = parse_128bit_id_hex(d.id)
           /\ encode_action(decode_action(d)).id = d.id
<1>1. d.id \in IdText /\ well_formed(d.id) /\ d.emitted \in Seq(Threshold)
      /\ d.state \in ExecutionState /\ d.state \in StoredKind
    BY DEF ActionDto, readable_action
<1>2. PICK b : b = parse_128bit_id_hex(d.id)
    OBVIOUS
<1>3. b \in AnyId /\ format_128bit_id_hex(b) = d.id
    BY <1>1, <1>2, DigitsAsBytes
<1>4. PICK e : e = ToSet(d.emitted)
    OBVIOUS
<1>5. e \subseteq Threshold
    BY <1>1, <1>4, ElementOfSeq, LenProperties DEF ToSet
<1>6. PICK a : a = decode_action(d)
    OBVIOUS
<1>7. a = [id |-> b, emitted |-> e, state |-> d.state]
    BY <1>2, <1>4, <1>6 DEF decode_action
<1>8. a.id = b /\ a.state = d.state
    BY <1>7
<1>9. a \in AnyAction
    BY <1>1, <1>3, <1>5, <1>7 DEF AnyAction
<1>10. encode_action(a).id = d.id
    BY <1>3, <1>8 DEF encode_action
<1> QED BY <1>1, <1>2, <1>6, <1>8, <1>9, <1>10 DEF storable_action

\* The same of an entry of the outbox.
LEMMA EntryRoundTrip ==
    ASSUME NEW e \in AnyEntry
    PROVE  /\ encode_entry(e) \in EntryDto
           /\ readable_entry(encode_entry(e)) <=> storable_entry(e)
           /\ parse_128bit_id_hex(encode_entry(e).id) = e.id
           /\ decode_entry(encode_entry(e)) = e
<1>1. e.id \in AnyId /\ e.payload \in AnyPayload /\ e = [id |-> e.id, payload |-> e.payload]
    BY DEF AnyEntry
<1>2. PICK t : t = format_128bit_id_hex(e.id)
    OBVIOUS
<1>3. t \in IdText /\ well_formed(t) /\ parse_128bit_id_hex(t) = e.id
    BY <1>1, <1>2, BytesAsDigits
<1>4. PICK d : d = encode_entry(e)
    OBVIOUS
<1>5. PICK p : p = e.payload
    OBVIOUS
<1>6. CASE p.kind = "Chat"
    <2>1. p.id \in AnyId /\ p.sender \in {"Child", "Parent"}
          /\ p.delivery \in {"AcceptedByService", "AcceptedByTelegram"}
          /\ p = [kind |-> "Chat", id |-> p.id, sender |-> p.sender, delivery |-> p.delivery]
        BY <1>1, <1>5, <1>6 DEF AnyPayload
    <2>2. PICK u : u = format_128bit_id_hex(p.id)
        OBVIOUS
    <2>3. u \in IdText /\ well_formed(u) /\ parse_128bit_id_hex(u) = p.id
        BY <2>1, <2>2, BytesAsDigits
    <2>4. PICK q : q = [kind |-> "Chat", id |-> u, sender |-> p.sender, delivery |-> p.delivery]
        OBVIOUS
    <2>5. d = [id |-> t, payload |-> q]
        <3>1. [p EXCEPT !.id = format_128bit_id_hex(@)] = q
            BY <2>1, <2>2, <2>4
        <3> QED BY <1>2, <1>4, <1>5, <1>6, <3>1 DEF encode_entry
    <2>6. d.id = t /\ d.payload = q
        BY <2>5
    <2>7. q.kind = "Chat" /\ q.id = u /\ q.sender = p.sender /\ q.delivery = p.delivery
        BY <2>4
    <2>8. d \in EntryDto
        <3>1. q \in PayloadDto
            BY <2>1, <2>3, <2>4 DEF PayloadDto
        <3> QED BY <1>3, <2>5, <3>1 DEF EntryDto
    <2>9. readable_entry(d) <=> storable_entry(e)
        BY <1>3, <1>5, <1>6, <2>3, <2>6, <2>7 DEF readable_entry, storable_entry
    <2>10. decode_entry(d) = e
        <3>1. [q EXCEPT !.id = parse_128bit_id_hex(@)] = p
            BY <2>1, <2>3, <2>4
        <3>2. decode_entry(d) = [id |-> e.id, payload |-> p]
            BY <1>3, <2>6, <2>7, <3>1 DEF decode_entry
        <3> QED BY <1>1, <1>5, <3>2
    <2> QED BY <1>3, <1>4, <2>6, <2>8, <2>9, <2>10
<1>7. CASE p.kind # "Chat"
    <2>1. p \in PayloadDto
        BY <1>1, <1>5, <1>7 DEF AnyPayload, PayloadDto
    <2>2. d = [id |-> t, payload |-> p]
        BY <1>2, <1>4, <1>5, <1>7 DEF encode_entry
    <2>3. d.id = t /\ d.payload = p
        BY <2>2
    <2>4. d \in EntryDto
        BY <1>3, <2>1, <2>2 DEF EntryDto
    <2>5. readable_entry(d) /\ storable_entry(e)
        BY <1>3, <1>5, <1>7, <2>3 DEF readable_entry, storable_entry
    <2>6. decode_entry(d) = [id |-> e.id, payload |-> p]
        BY <1>3, <1>7, <2>3 DEF decode_entry
    <2> QED BY <1>1, <1>3, <1>4, <1>5, <2>3, <2>4, <2>5, <2>6
<1> QED BY <1>6, <1>7

LEMMA EntryReadable ==
    ASSUME NEW d \in EntryDto, readable_entry(d)
    PROVE  /\ decode_entry(d) \in AnyEntry /\ storable_entry(decode_entry(d))
           /\ decode_entry(d).id = parse_128bit_id_hex(d.id)
<1>1. d.id \in IdText /\ well_formed(d.id) /\ d.payload \in PayloadDto
    BY DEF EntryDto, readable_entry
<1>2. PICK b : b = parse_128bit_id_hex(d.id)
    OBVIOUS
<1>3. b \in AnyId
    BY <1>1, <1>2, DigitsAsBytes
<1>4. PICK e : e = decode_entry(d)
    OBVIOUS
<1>5. PICK p : p = d.payload
    OBVIOUS
<1>6. CASE p.kind = "Chat"
    <2>1. /\ p.id \in IdText /\ well_formed(p.id) /\ p.sender = "Child" /\ p.delivery = "AcceptedByService"
          /\ p = [kind |-> "Chat", id |-> p.id, sender |-> p.sender, delivery |-> p.delivery]
        BY <1>1, <1>5, <1>6 DEF PayloadDto, readable_entry
    <2>2. PICK u : u = parse_128bit_id_hex(p.id)
        OBVIOUS
    <2>3. u \in AnyId
        BY <2>1, <2>2, DigitsAsBytes
    <2>4. PICK q : q = [kind |-> "Chat", id |-> u, sender |-> p.sender, delivery |-> p.delivery]
        OBVIOUS
    <2>5. e = [id |-> b, payload |-> q]
        <3>1. [p EXCEPT !.id = parse_128bit_id_hex(@)] = q
            BY <2>1, <2>2, <2>4
        <3> QED BY <1>2, <1>4, <1>5, <1>6, <3>1 DEF decode_entry
    <2>6. e.id = b /\ e.payload = q /\ q.sender = "Child" /\ q.delivery = "AcceptedByService"
        BY <2>1, <2>4, <2>5
    <2>7. q \in AnyPayload
        BY <2>1, <2>3, <2>4 DEF AnyPayload
    <2> QED BY <1>2, <1>3, <1>4, <2>5, <2>6, <2>7 DEF AnyEntry, storable_entry
<1>7. CASE p.kind # "Chat"
    <2>1. p \in AnyPayload
        BY <1>1, <1>5, <1>7 DEF AnyPayload, PayloadDto
    <2>2. e = [id |-> b, payload |-> p]
        BY <1>2, <1>4, <1>5, <1>7 DEF decode_entry
    <2>3. e.id = b /\ e.payload = p
        BY <2>2
    <2> QED BY <1>2, <1>3, <1>4, <1>7, <2>1, <2>2, <2>3 DEF AnyEntry, storable_entry
<1> QED BY <1>6, <1>7

\* The document of a state, part by part.
LEMMA DocumentOf ==
    ASSUME NEW s \in AnyState, NEW d, d = document(s)
    PROVE  /\ d \in DocumentDto /\ d.version = V1 /\ d.desired = s.desired
           /\ Len(d.active) = Len(s.active) /\ Len(d.outbox) = Len(s.outbox)
           /\ \A i \in 1..Len(s.active) : d.active[i] = encode_action(s.active[i])
           /\ \A i \in 1..Len(s.outbox) : d.outbox[i] = encode_entry(s.outbox[i])
<1>1. s.active \in Seq(AnyAction) /\ s.outbox \in Seq(AnyEntry) /\ s.desired \in {"Unrestricted", "Blocked"}
    BY DEF AnyState
<1>2. Len(s.active) \in Nat /\ Len(s.outbox) \in Nat
    BY <1>1, LenProperties
<1>3. PICK a : a = [i \in 1..Len(s.active) |-> encode_action(s.active[i])]
    OBVIOUS
<1>4. PICK o : o = [i \in 1..Len(s.outbox) |-> encode_entry(s.outbox[i])]
    OBVIOUS
<1>5. \A i \in 1..Len(s.active) : s.active[i] \in AnyAction
    BY <1>1, ElementOfSeq
<1>6. \A i \in 1..Len(s.outbox) : s.outbox[i] \in AnyEntry
    BY <1>1, ElementOfSeq
<1>7. a \in [1..Len(s.active) -> ActionDto]
    BY <1>3, <1>5, ActionRoundTrip
<1>8. o \in [1..Len(s.outbox) -> EntryDto]
    BY <1>4, <1>6, EntryRoundTrip
<1>9. a \in Seq(ActionDto) /\ Len(a) = Len(s.active)
    BY <1>2, <1>7, FunctionIsSeq
<1>10. o \in Seq(EntryDto) /\ Len(o) = Len(s.outbox)
    BY <1>2, <1>8, FunctionIsSeq
<1>11. d = [version |-> V1, desired |-> s.desired, active |-> a, outbox |-> o]
    BY <1>3, <1>4 DEF document
<1>12. d.version = V1 /\ d.desired = s.desired /\ d.active = a /\ d.outbox = o
    BY <1>11
<1>13. d \in DocumentDto
    BY <1>1, <1>9, <1>10, <1>11 DEF DocumentDto, V1
<1>14. \A i \in 1..Len(s.active) : a[i] = encode_action(s.active[i])
    BY <1>3
<1>15. \A i \in 1..Len(s.outbox) : o[i] = encode_entry(s.outbox[i])
    BY <1>4
<1> QED BY <1>9, <1>10, <1>12, <1>13, <1>14, <1>15

\* A state is no error.
LEMMA StateNoError ==
    \A a, b, c : [desired |-> a, active |-> b, outbox |-> c] # CodecError
<1>1. DOMAIN CodecError = {"error"}
    BY DEF CodecError
<1>2. ASSUME NEW a, NEW b, NEW c PROVE [desired |-> a, active |-> b, outbox |-> c] # CodecError
    <2>1. "desired" \in DOMAIN [desired |-> a, active |-> b, outbox |-> c]
        OBVIOUS
    <2> QED BY <1>1, <2>1
<1> QED BY <1>2

LEMMA DocumentNoError ==
    \A v, a, b, c : [version |-> v, desired |-> a, active |-> b, outbox |-> c] # CodecError
<1>1. DOMAIN CodecError = {"error"}
    BY DEF CodecError
<1>2. ASSUME NEW v, NEW a, NEW b, NEW c
      PROVE  [version |-> v, desired |-> a, active |-> b, outbox |-> c] # CodecError
    <2>1. "version" \in DOMAIN [version |-> v, desired |-> a, active |-> b, outbox |-> c]
        OBVIOUS
    <2> QED BY <1>1, <2>1
<1> QED BY <1>2

\* The document of a state is read as that state if it may be stored, and
\* refused otherwise.
LEMMA DocumentIsRead ==
    ASSUME NEW s \in AnyState
    PROVE  /\ Storable(s) => decode_state_json(document(s)) = s
           /\ ~Storable(s) => decode_state_json(document(s)) = CodecError
<1>1. PICK d : d = document(s)
    OBVIOUS
<1>2. /\ d.version = V1 /\ d.desired = s.desired
      /\ Len(d.active) = Len(s.active) /\ Len(d.outbox) = Len(s.outbox)
      /\ \A i \in 1..Len(s.active) : d.active[i] = encode_action(s.active[i])
      /\ \A i \in 1..Len(s.outbox) : d.outbox[i] = encode_entry(s.outbox[i])
    BY <1>1, DocumentOf
<1>3. s.active \in Seq(AnyAction) /\ s.outbox \in Seq(AnyEntry)
      /\ s = [desired |-> s.desired, active |-> s.active, outbox |-> s.outbox]
    BY DEF AnyState
<1>4. /\ \A i \in 1..Len(s.active) : s.active[i] \in AnyAction
      /\ \A i \in 1..Len(s.outbox) : s.outbox[i] \in AnyEntry
    BY <1>3, ElementOfSeq
<1>5. \A i \in 1..Len(s.active) : /\ readable_action(d.active[i]) <=> storable_action(s.active[i])
                                  /\ parse_128bit_id_hex(d.active[i].id) = s.active[i].id
                                  /\ decode_action(d.active[i]) = s.active[i]
    BY <1>2, <1>4, ActionRoundTrip
<1>6. \A i \in 1..Len(s.outbox) : /\ readable_entry(d.outbox[i]) <=> storable_entry(s.outbox[i])
                                  /\ parse_128bit_id_hex(d.outbox[i].id) = s.outbox[i].id
                                  /\ decode_entry(d.outbox[i]) = s.outbox[i]
    BY <1>2, <1>4, EntryRoundTrip
<1>7. unique_ids(d) <=> distinct_ids(s.active) /\ distinct_ids(s.outbox)
    <2>1. [i \in 1..Len(d.active) |-> parse_128bit_id_hex(d.active[i].id)] = [i \in 1..Len(s.active) |-> s.active[i].id]
        BY <1>2, <1>5
    <2>2. [i \in 1..Len(d.outbox) |-> parse_128bit_id_hex(d.outbox[i].id)] = [i \in 1..Len(s.outbox) |-> s.outbox[i].id]
        BY <1>2, <1>6
    <2> QED BY <2>1, <2>2, Zenon DEF unique_ids, distinct_ids
<1>8. [i \in 1..Len(d.active) |-> decode_action(d.active[i])] = s.active
    <2>1. [i \in 1..Len(d.active) |-> decode_action(d.active[i])] = [i \in 1..Len(s.active) |-> s.active[i]]
        BY <1>2, <1>5
    <2>2. [i \in 1..Len(s.active) |-> s.active[i]] = s.active
        BY <1>3, LenProperties
    <2> QED BY <2>1, <2>2
<1>9. [i \in 1..Len(d.outbox) |-> decode_entry(d.outbox[i])] = s.outbox
    <2>1. [i \in 1..Len(d.outbox) |-> decode_entry(d.outbox[i])] = [i \in 1..Len(s.outbox) |-> s.outbox[i]]
        BY <1>2, <1>6
    <2>2. [i \in 1..Len(s.outbox) |-> s.outbox[i]] = s.outbox
        BY <1>3, LenProperties
    <2> QED BY <2>1, <2>2
<1>10. /\ (\A i \in 1..Len(d.active) : readable_action(d.active[i]))
             <=> \A i \in 1..Len(s.active) : storable_action(s.active[i])
       /\ (\A i \in 1..Len(d.outbox) : readable_entry(d.outbox[i]))
             <=> \A i \in 1..Len(s.outbox) : storable_entry(s.outbox[i])
    BY <1>2, <1>5, <1>6
<1>11. /\ d.version = V1
       /\ \A i \in 1..Len(d.active) : readable_action(d.active[i])
       /\ \A i \in 1..Len(d.outbox) : readable_entry(d.outbox[i])
       /\ unique_ids(d)
       <=> Storable(s)
    BY <1>2, <1>7, <1>10 DEF Storable
<1>12. [desired |-> d.desired,
        active |-> [i \in 1..Len(d.active) |-> decode_action(d.active[i])],
        outbox |-> [i \in 1..Len(d.outbox) |-> decode_entry(d.outbox[i])]] = s
    BY <1>2, <1>3, <1>8, <1>9
<1>13. decode_state_json(d) = IF Storable(s) THEN s ELSE CodecError
    BY <1>11, <1>12, Zenon DEF decode_state_json
<1> QED BY <1>1, <1>13

\* A document that is read is a storable state's, with its identifiers in the
\* same letters.
LEMMA ReadIsStorable ==
    ASSUME NEW d \in DocumentDto, NEW s, s = decode_state_json(d), s # CodecError
    PROVE  /\ s \in AnyState /\ Storable(s)
           /\ \A i \in 1..Len(d.active) : document(s).active[i].id = d.active[i].id
<1>1. /\ \A i \in 1..Len(d.active) : readable_action(d.active[i])
      /\ \A i \in 1..Len(d.outbox) : readable_entry(d.outbox[i])
      /\ unique_ids(d)
      /\ s = [desired |-> d.desired,
              active |-> [i \in 1..Len(d.active) |-> decode_action(d.active[i])],
              outbox |-> [i \in 1..Len(d.outbox) |-> decode_entry(d.outbox[i])]]
    BY Zenon DEF decode_state_json
<1>2. d.active \in Seq(ActionDto) /\ d.outbox \in Seq(EntryDto) /\ d.desired \in {"Unrestricted", "Blocked"}
    BY DEF DocumentDto
<1>3. Len(d.active) \in Nat /\ Len(d.outbox) \in Nat
    BY <1>2, LenProperties
<1>4. /\ \A i \in 1..Len(d.active) : d.active[i] \in ActionDto
      /\ \A i \in 1..Len(d.outbox) : d.outbox[i] \in EntryDto
    BY <1>2, ElementOfSeq
<1>5. PICK a : a = [i \in 1..Len(d.active) |-> decode_action(d.active[i])]
    OBVIOUS
<1>6. PICK o : o = [i \in 1..Len(d.outbox) |-> decode_entry(d.outbox[i])]
    OBVIOUS
<1>7. s.desired = d.desired /\ s.active = a /\ s.outbox = o
    BY <1>1, <1>5, <1>6
<1>8. \A i \in 1..Len(d.active) : /\ a[i] \in AnyAction /\ storable_action(a[i])
                                  /\ a[i].id = parse_128bit_id_hex(d.active[i].id)
                                  /\ encode_action(a[i]).id = d.active[i].id
    <2> SUFFICES ASSUME NEW i \in 1..Len(d.active)
                 PROVE  /\ a[i] \in AnyAction /\ storable_action(a[i])
                        /\ a[i].id = parse_128bit_id_hex(d.active[i].id)
                        /\ encode_action(a[i]).id = d.active[i].id
        OBVIOUS
    <2>1. a[i] = decode_action(d.active[i])
        BY <1>5
    <2> QED BY <1>1, <1>4, <2>1, ActionReadable
<1>9. \A i \in 1..Len(d.outbox) : /\ o[i] \in AnyEntry /\ storable_entry(o[i])
                                  /\ o[i].id = parse_128bit_id_hex(d.outbox[i].id)
    <2> SUFFICES ASSUME NEW i \in 1..Len(d.outbox)
                 PROVE  /\ o[i] \in AnyEntry /\ storable_entry(o[i])
                        /\ o[i].id = parse_128bit_id_hex(d.outbox[i].id)
        OBVIOUS
    <2>1. o[i] = decode_entry(d.outbox[i])
        BY <1>6
    <2> QED BY <1>1, <1>4, <2>1, EntryReadable
<1>10. a \in [1..Len(d.active) -> AnyAction] /\ o \in [1..Len(d.outbox) -> AnyEntry]
    BY <1>5, <1>6, <1>8, <1>9
<1>11. /\ a \in Seq(AnyAction) /\ Len(a) = Len(d.active)
       /\ o \in Seq(AnyEntry) /\ Len(o) = Len(d.outbox)
    BY <1>3, <1>10, FunctionIsSeq
<1>12. s \in AnyState
    BY <1>1, <1>2, <1>5, <1>6, <1>11 DEF AnyState
<1>13. distinct_ids(a) /\ distinct_ids(o)
    <2>1. [i \in 1..Len(d.active) |-> parse_128bit_id_hex(d.active[i].id)] = [i \in 1..Len(a) |-> a[i].id]
        BY <1>8, <1>11
    <2>2. [i \in 1..Len(d.outbox) |-> parse_128bit_id_hex(d.outbox[i].id)] = [i \in 1..Len(o) |-> o[i].id]
        BY <1>9, <1>11
    <2> QED BY <1>1, <2>1, <2>2, Zenon DEF unique_ids, distinct_ids
<1>14. Storable(s)
    BY <1>7, <1>8, <1>9, <1>11, <1>13 DEF Storable
<1>15. \A i \in 1..Len(s.active) : document(s).active[i] = encode_action(s.active[i])
    BY <1>12, DocumentOf
<1> QED BY <1>7, <1>8, <1>11, <1>12, <1>14, <1>15

\* Saving writes the document of a storable state and refuses the others.
LEMMA SavedIsDocument ==
    ASSUME NEW s \in AnyState
    PROVE  /\ document(s) # CodecError
           /\ encode_state_json(s) = IF Storable(s) THEN document(s) ELSE CodecError
<1>1. document(s) # CodecError
    BY DocumentNoError, Zenon DEF document
<1> QED BY <1>1, Zenon DEF encode_state_json, Storable

\* Whatever is edited, a document stays one.
LEMMA TextsEdited ==
    ASSUME NEW t \in IdText, NEW u \in EditedTexts(t)
    PROVE  u \in IdText
<1>1. 0 \in TextChar /\ 16 \in TextChar
    BY DEF TextChar
<1>2. CASE \E k \in 1..Len(t), c \in {0, 16} : u = [t EXCEPT ![k] = c]
    BY <1>1, <1>2, ExceptSeq DEF IdText
<1>3. CASE u = SubSeq(t, 2, Len(t))
    <2>1. Len(t) \in Int /\ \A i \in 2..Len(t) : t[i] \in TextChar
        BY LenProperties, ElementOfSeq DEF IdText
    <2> QED BY <1>3, <2>1, SubSeqProperties DEF IdText
<1>4. CASE u = Append(t, 0)
    BY <1>1, <1>4, AppendProperties DEF IdText
<1> QED BY <1>2, <1>3, <1>4 DEF EditedTexts

LEMMA DocumentsEdited ==
    ASSUME NEW d \in DocumentDto, NEW w \in StateEdits(d)
    PROVE  w \in DocumentDto
<1>1. d.active \in Seq(ActionDto) /\ d.outbox \in Seq(EntryDto) /\ d.desired \in {"Unrestricted", "Blocked"}
      /\ d.version \in {1, 2}
      /\ d = [version |-> d.version, desired |-> d.desired, active |-> d.active, outbox |-> d.outbox]
    BY DEF DocumentDto
<1>2. ASSUME NEW a \in Seq(ActionDto), w = [d EXCEPT !.active = a] PROVE w \in DocumentDto
    BY <1>1, <1>2 DEF DocumentDto
<1>3. ASSUME NEW o \in Seq(EntryDto), w = [d EXCEPT !.outbox = o] PROVE w \in DocumentDto
    BY <1>1, <1>3 DEF DocumentDto
<1>4. CASE w = [d EXCEPT !.version = 2]
    BY <1>1, <1>4 DEF DocumentDto
<1>5. CASE w = [d EXCEPT !.active = @ \o @]
    <2>1. w = [d EXCEPT !.active = d.active \o d.active]
        BY <1>1, <1>5
    <2>2. d.active \o d.active \in Seq(ActionDto)
        BY <1>1, ConcatProperties
    <2> QED BY <1>2, <2>1, <2>2
<1>6. CASE w = [d EXCEPT !.outbox = @ \o @]
    <2>1. w = [d EXCEPT !.outbox = d.outbox \o d.outbox]
        BY <1>1, <1>6
    <2>2. d.outbox \o d.outbox \in Seq(EntryDto)
        BY <1>1, ConcatProperties
    <2> QED BY <1>3, <2>1, <2>2
<1>7. ASSUME NEW i \in 1..Len(d.active), NEW a \in EditedActions(d.active[i]),
             w = [d EXCEPT !.active = [@ EXCEPT ![i] = a]]
      PROVE  w \in DocumentDto
    <2>1. PICK b : b = d.active[i]
        OBVIOUS
    <2>2. b.id \in IdText /\ b.emitted \in Seq(Threshold) /\ b.state \in ExecutionState
          /\ b = [id |-> b.id, emitted |-> b.emitted, state |-> b.state]
        <3>1. b \in ActionDto
            BY <1>1, <2>1, ElementOfSeq
        <3> QED BY <3>1 DEF ActionDto
    <2>3. a \in ActionDto
        <3>1. CASE \E t \in EditedTexts(b.id) : a = [b EXCEPT !.id = t]
            BY <2>2, <3>1, TextsEdited DEF ActionDto
        <3>2. CASE a = [b EXCEPT !.emitted = @ \o @]
            <4>1. b.emitted \o b.emitted \in Seq(Threshold)
                BY <2>2, ConcatProperties
            <4>2. a = [id |-> b.id, emitted |-> b.emitted \o b.emitted, state |-> b.state]
                BY <2>2, <3>2
            <4> QED BY <2>2, <4>1, <4>2 DEF ActionDto
        <3>3. CASE a = [b EXCEPT !.state = "Completed"]
            BY <2>2, <3>3 DEF ActionDto, ExecutionState
        <3> QED BY <1>7, <2>1, <3>1, <3>2, <3>3 DEF EditedActions
    <2>4. PICK s : s = [d.active EXCEPT ![i] = a]
        OBVIOUS
    <2>5. s \in Seq(ActionDto)
        BY <1>1, <2>3, <2>4, ExceptSeq
    <2>6. w = [d EXCEPT !.active = s]
        BY <1>1, <1>7, <2>4
    <2> QED BY <1>2, <2>5, <2>6
<1>8. ASSUME NEW i \in 1..Len(d.outbox), NEW e \in EditedEntries(d.outbox[i]),
             w = [d EXCEPT !.outbox = [@ EXCEPT ![i] = e]]
      PROVE  w \in DocumentDto
    <2>1. PICK b : b = d.outbox[i]
        OBVIOUS
    <2>2. b.id \in IdText /\ b.payload \in PayloadDto /\ b = [id |-> b.id, payload |-> b.payload]
        <3>1. b \in EntryDto
            BY <1>1, <2>1, ElementOfSeq
        <3> QED BY <3>1 DEF EntryDto
    <2>3. PICK t \in EditedTexts(b.id) : e = [b EXCEPT !.id = t]
        BY <1>8, <2>1 DEF EditedEntries
    <2>4. e \in EntryDto
        BY <2>2, <2>3, TextsEdited DEF EntryDto
    <2>5. PICK s : s = [d.outbox EXCEPT ![i] = e]
        OBVIOUS
    <2>6. s \in Seq(EntryDto)
        BY <1>1, <2>4, <2>5, ExceptSeq
    <2>7. w = [d EXCEPT !.outbox = s]
        BY <1>1, <1>8, <2>5
    <2> QED BY <1>3, <2>6, <2>7
<1> DEFINE ActionEdited == \E i \in 1..Len(d.active) : \E a \in EditedActions(d.active[i]) :
                                w = [d EXCEPT !.active = [@ EXCEPT ![i] = a]]
           EntryEdited == \E i \in 1..Len(d.outbox) : \E e \in EditedEntries(d.outbox[i]) :
                                w = [d EXCEPT !.outbox = [@ EXCEPT ![i] = e]]
           Whole == \/ w = [d EXCEPT !.version = 2] \/ w = [d EXCEPT !.active = @ \o @]
                    \/ w = [d EXCEPT !.outbox = @ \o @]
<1>9. Whole \/ ActionEdited \/ EntryEdited
    BY Zenon DEF StateEdits, ActiveEdited, OutboxEdited
<1>10. ASSUME ActionEdited PROVE w \in DocumentDto
    BY <1>7, <1>10, Zenon
<1>11. ASSUME EntryEdited PROVE w \in DocumentDto
    BY <1>8, <1>11, Zenon
<1>12. ASSUME Whole PROVE w \in DocumentDto
    BY <1>4, <1>5, <1>6, <1>12, Zenon
<1> HIDE DEF Whole, ActionEdited, EntryEdited
<1> QED BY <1>9, <1>10, <1>11, <1>12

(* The file is the document of what was saved until somebody edits it, and *)
(* a document ever after; what is loaded is what is read from it.          *)
CodecInv ==
    /\ codec_pc \in {"save", "refused", "load", "edited", "unedited", "done"}
    /\ saved \in AnyState
    /\ codec_pc \in {"load", "unedited"} => Storable(saved) /\ file = document(saved)
    /\ codec_pc \in {"edited", "done"} => file \in DocumentDto
    /\ codec_pc \in {"unedited", "done"} => state_loaded = decode_state_json(file)

\* The instance's states are states.
LEMMA StatesAreAny == PersistentState \subseteq AnyState
<1>1. TimerId \subseteq AnyId
    BY CodecBounds DEF TimerId, AnyId
<1>2. StoredAction \subseteq AnyAction
    BY <1>1 DEF StoredAction, AnyAction
<1>3. Entry \subseteq AnyEntry
    BY <1>1 DEF Entry, AnyEntry, Payload, AnyPayload
<1>4. ASSUME NEW S, NEW T, S \subseteq T, NEW n \in Nat PROVE BoundedSeq(S, n) \subseteq Seq(T)
    <2> SUFFICES ASSUME NEW s \in BoundedSeq(S, n) PROVE s \in Seq(T)
        OBVIOUS
    <2>1. PICK m \in 0..n : s \in [1..m -> S]
        BY DEF BoundedSeq, SeqOf
    <2>2. s \in Seq(S)
        BY <2>1, FunctionIsSeq
    <2> QED BY <1>4, <2>2, SeqMonotonic
<1>5. BoundedSeq(StoredAction, MaxActions) \subseteq Seq(AnyAction)
    BY <1>2, <1>4, CodecBounds
<1>6. BoundedSeq(Entry, MaxOutbox) \subseteq Seq(AnyEntry)
    BY <1>3, <1>4, CodecBounds
<1> QED BY <1>5, <1>6 DEF PersistentState, AnyState

\* What is saved is loaded again; a document the service accepts at its start
\* never makes its saves fail; saving and loading refuse the same states.
THEOREM SavesLoad == CodecSpec => []StateExact
<1>1. CodecInit => CodecInv
    BY StatesAreAny DEF CodecInit, CodecInv
<1>2. ASSUME CodecInv, [CodecNext]_codec_vars PROVE CodecInv'
    <2>1. CASE Save
        <3>1. encode_state_json(saved) = IF Storable(saved) THEN document(saved) ELSE CodecError
            BY <1>2, SavedIsDocument DEF CodecInv
        <3>2. codec_pc' = "refused" \/ (codec_pc' = "load" /\ Storable(saved) /\ file' = document(saved))
            BY <2>1, <3>1 DEF Save
        <3>3. saved' = saved /\ state_loaded' = state_loaded
            BY <2>1 DEF Save
        <3> QED BY <1>2, <3>2, <3>3 DEF CodecInv
    <2>2. CASE Edit
        <3>1. file \in DocumentDto
            BY <1>2, <2>2, DocumentOf DEF CodecInv, Edit
        <3>2. file' \in DocumentDto
            BY <2>2, <3>1, DocumentsEdited DEF Edit
        <3> QED BY <1>2, <2>2, <3>2 DEF CodecInv, Edit
    <2>3. CASE Load
        BY <1>2, <2>3 DEF CodecInv, Load
    <2>4. CASE UNCHANGED codec_vars
        BY <1>2, <2>4 DEF CodecInv, codec_vars
    <2> QED BY <1>2, <2>1, <2>2, <2>3, <2>4 DEF CodecNext, CodecDone
<1>3. ASSUME CodecInv PROVE StateExact
    <2>1. StateRoundTrip
        BY <1>3, DocumentIsRead DEF CodecInv, StateRoundTrip
    <2>2. LoadedIsSavable
        <3> SUFFICES ASSUME codec_pc = "done", state_loaded # CodecError
                     PROVE  /\ encode_state_json(state_loaded) # CodecError
                            /\ decode_state_json(encode_state_json(state_loaded)) = state_loaded
                            /\ \A i \in 1..Len(file.active) :
                                  encode_state_json(state_loaded).active[i].id = file.active[i].id
            BY DEF LoadedIsSavable
        <3>1. /\ state_loaded \in AnyState /\ Storable(state_loaded)
              /\ \A i \in 1..Len(file.active) : document(state_loaded).active[i].id = file.active[i].id
            BY <1>3, ReadIsStorable DEF CodecInv
        <3>2. encode_state_json(state_loaded) = document(state_loaded) /\ document(state_loaded) # CodecError
            BY <3>1, SavedIsDocument
        <3> QED BY <3>1, <3>2, DocumentIsRead
    <2>3. SameRules
        <3>1. saved \in AnyState
            BY <1>3 DEF CodecInv
        <3>2. saved # CodecError
            BY <3>1, StateNoError DEF AnyState
        <3> QED BY <3>1, <3>2, SavedIsDocument, DocumentIsRead DEF SameRules
    <2> QED BY <2>1, <2>2, <2>3 DEF StateExact
<1> QED BY <1>1, <1>2, <1>3, PTL DEF CodecSpec

-----------------------------------------------------------------------------
(* ScmQuery *)
Units == Seq(Unit)
Acc == [state : {"reading", "ended", "wrong"}, strings : Seq(Units), current : Units]

\* The loop, unit by unit.
LEMMA ScanSteps ==
    ASSUME NEW s \in Units
    PROVE  \E f \in [0..Len(s) -> Acc] :
              /\ f[0] = Begun /\ multi_sz_units(s) = f[Len(s)]
              /\ \A n \in 1..Len(s) : f[n] = multi_sz_unit(f[n - 1], s[n])
<1>1. Len(s) \in Nat
    BY LenProperties DEF Units
<1>2. Begun \in Acc
    <2>1. <<>> \in Seq(Units) /\ <<>> \in Units
        BY EmptySeq DEF Units
    <2> QED BY <2>1 DEF Begun, Acc
<1>3. ASSUME NEW a \in Acc, NEW u \in Unit PROVE multi_sz_unit(a, u) \in Acc
    <2>1. a.state \in {"reading", "ended", "wrong"} /\ a.strings \in Seq(Units) /\ a.current \in Units
          /\ a = [state |-> a.state, strings |-> a.strings, current |-> a.current]
        BY DEF Acc
    <2>2. Append(a.current, u) \in Units /\ Append(a.strings, a.current) \in Seq(Units) /\ <<>> \in Units
        BY <2>1, AppendProperties, EmptySeq DEF Units
    <2>3. [a EXCEPT !.current = Append(@, u)] \in Acc
        BY <2>1, <2>2 DEF Acc
    <2>4. [a EXCEPT !.state = "ended"] \in Acc /\ [a EXCEPT !.state = "wrong"] \in Acc
        BY <2>1 DEF Acc
    <2>5. [a EXCEPT !.strings = Append(@, a.current), !.current = <<>>] \in Acc
        BY <2>1, <2>2 DEF Acc
    <2> QED BY <2>3, <2>4, <2>5 DEF multi_sz_unit
<1>4. PICK step : step = [n \in 1..Len(s) |-> [a \in Acc |-> multi_sz_unit(a, s[n])]]
    OBVIOUS
<1>5. \A n \in 1..Len(s) : s[n] \in Unit
    BY ElementOfSeq DEF Units
<1>6. step \in [1..Len(s) -> [Acc -> Acc]]
    <2>1. ASSUME NEW n \in 1..Len(s) PROVE step[n] \in [Acc -> Acc]
        <3>1. step[n] = [a \in Acc |-> multi_sz_unit(a, s[n])]
            BY <1>4
        <3>2. \A a \in Acc : multi_sz_unit(a, s[n]) \in Acc
            BY <1>3, <1>5
        <3> QED BY <3>1, <3>2
    <2> QED BY <1>4, <2>1, Zenon
<1>7. PICK f : Runs(f, Len(s), Acc, Begun, step)
    BY <1>1, <1>2, <1>6, Recursion
<1>8. \A n \in 1..Len(s) : f[n] = multi_sz_unit(f[n - 1], s[n])
    <2> SUFFICES ASSUME NEW n \in 1..Len(s) PROVE f[n] = multi_sz_unit(f[n - 1], s[n])
        OBVIOUS
    <2>1. f[n - 1] \in Acc
        BY <1>1, <1>7 DEF Runs
    <2>2. step[n] = [a \in Acc |-> multi_sz_unit(a, s[n])]
        BY <1>4
    <2> QED BY <1>7, <2>1, <2>2 DEF Runs
<1>9. f = [n \in 0..Len(s) |-> IF n = 0 THEN Begun ELSE multi_sz_unit(f[n - 1], s[n])]
    BY <1>1, <1>7, <1>8 DEF Runs
<1> DEFINE after[n \in 0..Len(s)] == IF n = 0 THEN Begun ELSE multi_sz_unit(after[n - 1], s[n])
<1>10. after = CHOOSE g : g = [n \in 0..Len(s) |-> IF n = 0 THEN Begun ELSE multi_sz_unit(g[n - 1], s[n])]
    OBVIOUS
<1>11. multi_sz_units(s) = after[Len(s)]
    BY DEF multi_sz_units
<1> HIDE DEF after
<1>12. after = [n \in 0..Len(s) |-> IF n = 0 THEN Begun ELSE multi_sz_unit(after[n - 1], s[n])]
    BY <1>9, <1>10
<1>13. after[0] = Begun /\ \A n \in 1..Len(s) : after[n] = multi_sz_unit(after[n - 1], s[n])
    BY <1>1, <1>12
<1>14. DOMAIN after = 0..Len(s) /\ after = [n \in DOMAIN after |-> after[n]]
    BY <1>12
<1>15. ASSUME NEW n \in 1..Len(s), after[n - 1] \in Acc PROVE after[n] = step[n][after[n - 1]]
    <2>1. step[n] = [a \in Acc |-> multi_sz_unit(a, s[n])]
        BY <1>4
    <2> QED BY <1>13, <1>15, <2>1
<1>16. Runs(after, Len(s), Acc, Begun, step)
    BY <1>1, <1>2, <1>6, <1>13, <1>14, <1>15, RunsTyped
<1>17. after \in [0..Len(s) -> Acc]
    BY <1>16 DEF Runs
<1> QED BY <1>11, <1>13, <1>17

Lines(strings) == FlattenSeq([i \in 1..Len(strings) |-> strings[i] \o << 0 >>])
Readable(strings) == \A i \in 1..Len(strings) : strings[i] # <<>> /\ IsText(strings[i])

LEMMA UnitFacts ==
    0 \in Unit /\ Lone \in Unit /\ Lone # 0 /\ 0 \notin Char /\ Lone \notin Char /\ Char \subseteq Unit
    /\ \A u \in Unit : u # 0 /\ u # Lone => u \in Char
BY QueryAssumption DEF Unit

LEMMA NulEnded ==
    ASSUME NEW x \in Units
    PROVE  /\ << 0 >> \in Units /\ x \o << 0 >> \in Units /\ Len(x \o << 0 >>) = Len(x) + 1
           /\ x \o << 0 >> = Append(x, 0)
<1>1. << 0 >> \in Units
    BY UnitFacts DEF Units
<1>2. x \o << 0 >> = Append(x, 0)
    BY UnitFacts, AppendIsConcat DEF Units
<1>3. x \o << 0 >> \in Units /\ Len(x \o << 0 >>) = Len(x) + 1
    BY <1>2, UnitFacts, AppendProperties DEF Units
<1> QED BY <1>1, <1>2, <1>3

LEMMA EndedStrings ==
    ASSUME NEW strings \in Seq(Units)
    PROVE  [i \in 1..Len(strings) |-> strings[i] \o << 0 >>] \in Seq(Units)
           /\ Len([i \in 1..Len(strings) |-> strings[i] \o << 0 >>]) = Len(strings)
<1>1. Len(strings) \in Nat
    BY LenProperties
<1>2. ASSUME NEW i \in 1..Len(strings) PROVE strings[i] \o << 0 >> \in Units
    <2>1. strings[i] \in Units
        BY ElementOfSeq
    <2> QED BY <2>1, NulEnded
<1> QED BY <1>1, <1>2, FunctionIsSeq

LEMMA LinesEmpty == Lines(<<>>) = <<>>
<1>1. [i \in 1..Len(<<>>) |-> <<>>[i] \o << 0 >>] \in Seq(Units)
      /\ Len([i \in 1..Len(<<>>) |-> <<>>[i] \o << 0 >>]) = 0
    BY EndedStrings, EmptySeq
<1>2. [i \in 1..Len(<<>>) |-> <<>>[i] \o << 0 >>] = <<>>
    BY <1>1, EmptySeq
<1> QED BY <1>1, <1>2 DEF Lines, FlattenSeq

LEMMA LinesAppend ==
    ASSUME NEW strings \in Seq(Units), NEW x \in Units
    PROVE  Lines(strings) \in Units /\ Lines(Append(strings, x)) = Lines(strings) \o (x \o << 0 >>)
<1>1. PICK t : t = [i \in 1..Len(strings) |-> strings[i] \o << 0 >>]
    OBVIOUS
<1>2. t \in Seq(Units) /\ Len(t) = Len(strings) /\ Len(strings) \in Nat
    BY <1>1, EndedStrings, LenProperties
<1>3. PICK e : e = x \o << 0 >>
    OBVIOUS
<1>4. e \in Units
    BY <1>3, NulEnded
<1>5. PICK s : s = Append(strings, x)
    OBVIOUS
<1>6. /\ s \in Seq(Units) /\ Len(s) = Len(strings) + 1
      /\ \A i \in 1..Len(strings) : s[i] = strings[i]
      /\ s[Len(strings) + 1] = x
    BY <1>5, AppendProperties
<1>7. PICK q : q = [i \in 1..Len(s) |-> s[i] \o << 0 >>]
    OBVIOUS
<1>8. q \in Seq(Units) /\ Len(q) = Len(s)
    BY <1>6, <1>7, EndedStrings
<1>9. PICK p : p = Append(t, e)
    OBVIOUS
<1>10. /\ p \in Seq(Units) /\ Len(p) = Len(t) + 1
       /\ \A i \in 1..Len(t) : p[i] = t[i]
       /\ p[Len(t) + 1] = e
    BY <1>2, <1>4, <1>9, AppendProperties
<1>11. ASSUME NEW i \in 1..Len(q) PROVE q[i] = p[i]
    <2>1. q[i] = s[i] \o << 0 >>
        BY <1>7, <1>8
    <2>2. CASE i = Len(strings) + 1
        BY <1>2, <1>3, <1>6, <1>10, <2>1, <2>2
    <2>3. CASE i # Len(strings) + 1
        <3>1. i \in 1..Len(strings)
            BY <1>2, <1>6, <1>8, <2>3
        <3>2. s[i] = strings[i] /\ p[i] = t[i]
            BY <1>2, <1>6, <1>10, <3>1
        <3>3. t[i] = strings[i] \o << 0 >>
            BY <1>1, <3>1
        <3> QED BY <2>1, <3>2, <3>3
    <2> QED BY <2>2, <2>3
<1>12. q = p
    BY <1>2, <1>6, <1>8, <1>10, <1>11, SeqEqual
<1>13. FlattenSeq(t) \in Units /\ FlattenSeq(p) = FlattenSeq(t) \o e
    BY <1>2, <1>4, <1>9, FlattenAppend DEF Units
<1>14. Lines(strings) = FlattenSeq(t) /\ Lines(s) = FlattenSeq(q)
    BY <1>1, <1>7 DEF Lines
<1> QED BY <1>3, <1>5, <1>12, <1>13, <1>14

\* What has been read after n units: whole strings and the one under way.
ReadSo(s, n, a) ==
    /\ Readable(a.strings)
    /\ a.state = "reading" => /\ Lines(a.strings) \o a.current = SubSeq(s, 1, n)
                              /\ \A i \in 1..Len(a.current) : a.current[i] # 0
    /\ a.state = "ended" => \E k \in 1..n : Lines(a.strings) \o << 0 >> = SubSeq(s, 1, k)

LEMMA ScanStep ==
    ASSUME NEW s \in Units, NEW n \in Nat, n + 1 <= Len(s), NEW a \in Acc, ReadSo(s, n, a)
    PROVE  ReadSo(s, n + 1, multi_sz_unit(a, s[n + 1]))
<1>1. PICK u : u = s[n + 1]
    OBVIOUS
<1>2. u \in Unit /\ Len(s) \in Nat
    BY <1>1, ElementOfSeq, LenProperties DEF Units
<1>3. a.strings \in Seq(Units) /\ a.current \in Units /\ Len(a.current) \in Nat
      /\ a = [state |-> a.state, strings |-> a.strings, current |-> a.current]
    BY LenProperties DEF Acc, Units
<1>4. Lines(a.strings) \in Units
    BY <1>3, LinesAppend
<1>5. SubSeq(s, 1, n + 1) = SubSeq(s, 1, n) \o <<u>>
    <2>1. n + 1 \in 1..Len(s) /\ 1 \in 1..Len(s) /\ n + 1 - 1 = n
        BY <1>2
    <2> QED BY <1>1, <2>1, SubSeqRecursiveSecond DEF Units
<1>6. CASE a.state # "reading"
    <2>1. multi_sz_unit(a, u) = a
        BY <1>6 DEF multi_sz_unit
    <2>2. a.state = "ended" => \E k \in 1..(n + 1) : Lines(a.strings) \o << 0 >> = SubSeq(s, 1, k)
        BY DEF ReadSo
    <2> QED BY <1>1, <1>6, <2>1, <2>2 DEF ReadSo
<1>7. ASSUME a.state = "reading", u # 0 PROVE ReadSo(s, n + 1, multi_sz_unit(a, u))
    <2>1. PICK c : c = Append(a.current, u)
        OBVIOUS
    <2>2. multi_sz_unit(a, u) = [state |-> "reading", strings |-> a.strings, current |-> c]
        BY <1>3, <1>7, <2>1 DEF multi_sz_unit
    <2>3. c = a.current \o <<u>> /\ <<u>> \in Units /\ Len(c) = Len(a.current) + 1
          /\ c[Len(a.current) + 1] = u /\ \A i \in 1..Len(a.current) : c[i] = a.current[i]
        BY <1>2, <1>3, <2>1, AppendIsConcat, AppendProperties DEF Units
    <2>4. Lines(a.strings) \o c = (Lines(a.strings) \o a.current) \o <<u>>
        BY <1>3, <1>4, <2>3, ConcatAssociative DEF Units
    <2>5. Lines(a.strings) \o a.current = SubSeq(s, 1, n) /\ \A i \in 1..Len(a.current) : a.current[i] # 0
        BY <1>7 DEF ReadSo
    <2>6. Lines(a.strings) \o c = SubSeq(s, 1, n + 1)
        BY <1>5, <2>4, <2>5
    <2>7. \A i \in 1..Len(c) : c[i] # 0
        BY <1>3, <1>7, <2>3, <2>5
    <2>8. Readable(a.strings)
        BY DEF ReadSo
    <2> QED BY <2>2, <2>6, <2>7, <2>8 DEF ReadSo
<1>8. ASSUME a.state = "reading", u = 0, a.current = <<>> PROVE ReadSo(s, n + 1, multi_sz_unit(a, u))
    <2>1. multi_sz_unit(a, u) = [state |-> "ended", strings |-> a.strings, current |-> <<>>]
        BY <1>3, <1>8 DEF multi_sz_unit, list_ends
    <2>2. Lines(a.strings) \o <<>> = SubSeq(s, 1, n)
        BY <1>8 DEF ReadSo
    <2>3. Lines(a.strings) \o << 0 >> = SubSeq(s, 1, n + 1)
        BY <1>4, <1>5, <1>8, <2>2, ConcatEmptySeq DEF Units
    <2>4. n + 1 \in 1..(n + 1)
        OBVIOUS
    <2>5. Readable(a.strings)
        BY DEF ReadSo
    <2> QED BY <2>1, <2>3, <2>4, <2>5 DEF ReadSo
<1>9. ASSUME a.state = "reading", u = 0, a.current # <<>>, ~from_utf16(a.current).ok
      PROVE  ReadSo(s, n + 1, multi_sz_unit(a, u))
    <2>1. multi_sz_unit(a, u) = [state |-> "wrong", strings |-> a.strings, current |-> a.current]
        BY <1>3, <1>9 DEF multi_sz_unit, list_ends
    <2> QED BY <2>1 DEF ReadSo
<1>10. ASSUME a.state = "reading", u = 0, a.current # <<>>, from_utf16(a.current).ok
       PROVE  ReadSo(s, n + 1, multi_sz_unit(a, u))
    <2>1. PICK t : t = Append(a.strings, a.current)
        OBVIOUS
    <2>2. multi_sz_unit(a, u) = [state |-> "reading", strings |-> t, current |-> <<>>]
        BY <1>3, <1>10, <2>1 DEF multi_sz_unit, list_ends
    <2>3. t \in Seq(Units) /\ Len(t) = Len(a.strings) + 1 /\ Len(a.strings) \in Nat
          /\ t[Len(a.strings) + 1] = a.current /\ \A i \in 1..Len(a.strings) : t[i] = a.strings[i]
        BY <1>3, <2>1, AppendProperties, LenProperties
    <2>4. Lines(t) = Lines(a.strings) \o (a.current \o << 0 >>) /\ Lines(t) \in Units
        BY <1>3, <2>1, <2>3, LinesAppend
    <2>5. Lines(a.strings) \o (a.current \o << 0 >>) = (Lines(a.strings) \o a.current) \o << 0 >>
        BY <1>3, <1>4, NulEnded, ConcatAssociative DEF Units
    <2>6. Lines(a.strings) \o a.current = SubSeq(s, 1, n) /\ \A i \in 1..Len(a.current) : a.current[i] # 0
        BY <1>10 DEF ReadSo
    <2>7. Lines(t) = SubSeq(s, 1, n + 1)
        BY <1>5, <1>10, <2>4, <2>5, <2>6
    <2>8. Lines(t) \o <<>> = SubSeq(s, 1, n + 1)
        BY <2>4, <2>7, ConcatEmptySeq DEF Units
    <2>9. IsText(a.current)
        <3>1. ~\E i \in 1..Len(a.current) : a.current[i] = Lone
            BY <1>10 DEF from_utf16, MalformedText
        <3>2. \A i \in 1..Len(a.current) : a.current[i] \in Unit
            BY <1>3, ElementOfSeq DEF Units
        <3> QED BY <2>6, <3>1, <3>2, UnitFacts DEF IsText
    <2>10. Readable(t)
        <3>1. Readable(a.strings)
            BY DEF ReadSo
        <3>2. ASSUME NEW i \in 1..Len(t) PROVE t[i] # <<>> /\ IsText(t[i])
            <4>1. CASE i = Len(a.strings) + 1
                BY <1>10, <2>3, <2>9, <4>1
            <4>2. CASE i # Len(a.strings) + 1
                BY <2>3, <3>1, <4>2 DEF Readable
            <4> QED BY <4>1, <4>2
        <3> QED BY <3>2 DEF Readable
    <2>11. \A i \in 1..Len(<<>>) : <<>>[i] # 0
        BY EmptySeq
    <2> QED BY <2>2, <2>8, <2>10, <2>11 DEF ReadSo
<1> QED BY <1>1, <1>6, <1>7, <1>8, <1>9, <1>10

\* A list that is read lies at the front of what was read.
LEMMA ListAsWritten ==
    ASSUME NEW s \in Units, multi_sz_units(s).state = "ended"
    PROVE  Readable(multi_sz_units(s).strings) /\ IsPrefix(Written(multi_sz_units(s).strings), s)
<1>1. PICK f \in [0..Len(s) -> Acc] :
          /\ f[0] = Begun /\ multi_sz_units(s) = f[Len(s)]
          /\ \A n \in 1..Len(s) : f[n] = multi_sz_unit(f[n - 1], s[n])
    BY ScanSteps
<1>2. Len(s) \in Nat
    BY LenProperties DEF Units
<1> DEFINE K == {k \in Nat : k <= Len(s) => ReadSo(s, k, f[k])}
<1>3. 0 \in K
    <2>1. Lines(<<>>) \o <<>> = SubSeq(s, 1, 0)
        <3>1. <<>> \o <<>> = <<>>
            BY EmptySeq, ConcatEmptySeq
        <3>2. SubSeq(s, 1, 0) = <<>>
            BY SubSeqEmpty
        <3> QED BY <3>1, <3>2, LinesEmpty
    <2>2. Readable(<<>>) /\ \A i \in 1..Len(<<>>) : <<>>[i] # 0
        BY EmptySeq DEF Readable
    <2>3. ReadSo(s, 0, Begun)
        BY <2>1, <2>2 DEF ReadSo, Begun
    <2> QED BY <1>1, <2>3
<1>4. ASSUME NEW k \in Nat, k \in K PROVE k + 1 \in K
    <2> SUFFICES ASSUME k + 1 <= Len(s) PROVE ReadSo(s, k + 1, f[k + 1])
        OBVIOUS
    <2>1. k + 1 \in 1..Len(s) /\ k + 1 - 1 = k /\ k \in 0..Len(s) /\ k <= Len(s)
        BY <1>2
    <2>2. ReadSo(s, k, f[k])
        BY <1>4, <2>1
    <2>3. f[k] \in Acc
        BY <1>1, <2>1
    <2>4. f[k + 1] = multi_sz_unit(f[k], s[k + 1])
        BY <1>1, <2>1
    <2>5. ReadSo(s, k + 1, multi_sz_unit(f[k], s[k + 1]))
        BY <2>2, <2>3, ScanStep
    <2> QED BY <2>4, <2>5
<1> HIDE DEF K
<1>5. PICK a \in Acc : a = multi_sz_units(s) /\ ReadSo(s, Len(s), a)
    <2>1. Len(s) \in K
        BY <1>2, <1>3, <1>4, Induction
    <2>2. ReadSo(s, Len(s), f[Len(s)])
        BY <1>2, <2>1 DEF K
    <2>3. f[Len(s)] \in Acc
        BY <1>1, <1>2
    <2> QED BY <1>1, <2>2, <2>3
<1>6. PICK k \in 1..Len(s) : Lines(a.strings) \o << 0 >> = SubSeq(s, 1, k)
    BY <1>5 DEF ReadSo
<1>7. Written(a.strings) = SubSeq(s, 1, k)
    BY <1>6 DEF Written, Lines
<1>8. Len(SubSeq(s, 1, k)) = k /\ SubSeq(s, 1, k) \in Units
    <2>1. \A i \in 1..k : s[i] \in Unit
        BY <1>2, ElementOfSeq DEF Units
    <2> QED BY <1>2, <2>1, SubSeqProperties DEF Units
<1>9. SubSeq(SubSeq(s, 1, k), 1, k) = SubSeq(s, 1, k)
    BY <1>8, SubSeqFull DEF Units
<1>10. IsPrefix(Written(a.strings), s)
    BY <1>2, <1>7, <1>8, <1>9 DEF IsPrefix
<1>11. Readable(a.strings)
    BY <1>5 DEF ReadSo
<1> QED BY <1>5, <1>10, <1>11

-----------------------------------------------------------------------------
\* Where the list written at the front of the buffer has its units.
Layout(strings, s, g, L) ==
    /\ L \in Nat /\ Len(strings) = L
    /\ \A i \in 0..L : Len(g[i]) \in Nat /\ Len(g[i]) <= Len(g[L])
    /\ \A i \in 1..L :
          /\ strings[i] \in Seq(Char) /\ strings[i] \in Units /\ Len(strings[i]) \in Nat \ {0}
          /\ Len(g[i]) = Len(g[i - 1]) + Len(strings[i]) + 1
          /\ \A j \in 1..Len(strings[i]) : s[Len(g[i - 1]) + j] = strings[i][j]
          /\ s[Len(g[i])] = 0
    /\ Len(g[0]) = 0
    /\ Len(g[L]) + 1 <= Len(s) /\ s[Len(g[L]) + 1] = 0

LEMMA LaidOut ==
    ASSUME NEW s \in Units, NEW strings \in Seq(Seq(Char)),
           \A i \in 1..Len(strings) : strings[i] # <<>>,
           IsPrefix(Written(strings), s)
    PROVE  \E g : Layout(strings, s, g, Len(strings))
<1>1. Len(strings) \in Nat
    BY LenProperties
<1>2. ASSUME NEW i \in 1..Len(strings)
      PROVE  strings[i] \in Seq(Char) /\ strings[i] \in Units /\ Len(strings[i]) \in Nat \ {0}
    <2>1. strings[i] \in Seq(Char)
        BY ElementOfSeq
    <2>2. strings[i] \in Units
        BY <2>1, SeqMonotonic, UnitFacts DEF Units
    <2> QED BY <2>1, <2>2, EmptySeq
<1>3. strings \in Seq(Units)
    <2>1. strings \in [1..Len(strings) -> Seq(Char)]
        BY LenProperties
    <2>2. strings \in [1..Len(strings) -> Units]
        BY <1>2, <2>1
    <2> QED BY <1>1, <2>2, FunctionIsSeq
<1>4. PICK ss : ss = [i \in 1..Len(strings) |-> strings[i] \o << 0 >>]
    OBVIOUS
<1>5. ss \in Seq(Units) /\ Len(ss) = Len(strings)
    BY <1>3, <1>4, EndedStrings
<1>6. PICK g : Pieces(g, Unit, ss) /\ FlattenSeq(ss) = g[Len(ss)]
    BY <1>5, FlattenSteps DEF Units
<1>7. PICK L : L = Len(strings)
    OBVIOUS
<1>8. ASSUME NEW i \in 0..L PROVE g[i] \in Units /\ Len(g[i]) \in Nat /\ Len(g[i]) <= Len(g[L])
                                  /\ \A j \in 1..Len(g[i]) : g[L][j] = g[i][j]
    <2>1. L \in i..Len(ss) /\ i \in 0..Len(ss)
        BY <1>1, <1>5, <1>7
    <2> QED BY <1>5, <1>6, <2>1, PiecesStay DEF Units
<1>9. g[L] \in Units /\ Len(g[L]) \in Nat
    <2>1. L \in 0..L
        BY <1>1, <1>7
    <2> QED BY <1>8, <2>1
<1>10. PICK w : w = g[L] \o << 0 >>
    OBVIOUS
<1>11. w = Written(strings)
    BY <1>4, <1>5, <1>6, <1>7, <1>10 DEF Written
<1>12. w = Append(g[L], 0) /\ w \in Units /\ Len(w) = Len(g[L]) + 1
    BY <1>9, <1>10, NulEnded
<1>13. w[Len(g[L]) + 1] = 0 /\ \A j \in 1..Len(g[L]) : w[j] = g[L][j]
    BY <1>9, <1>12, UnitFacts, AppendProperties DEF Units
<1>14. Len(s) \in Nat /\ Len(g[L]) + 1 <= Len(s) /\ \A j \in 1..(Len(g[L]) + 1) : s[j] = w[j]
    <2>1. IsPrefix(w, s)
        BY <1>11
    <2>2. Len(w) <= Len(s) /\ Len(s) \in Nat /\ \A j \in 1..Len(w) : s[j] = w[j]
        BY <1>12, <2>1, PrefixAt DEF Units
    <2> QED BY <1>12, <2>2
<1>15. ASSUME NEW i \in 1..L
       PROVE  /\ Len(g[i]) = Len(g[i - 1]) + Len(strings[i]) + 1
              /\ \A j \in 1..Len(strings[i]) : s[Len(g[i - 1]) + j] = strings[i][j]
              /\ s[Len(g[i])] = 0
    <2>1. i \in 1..Len(ss) /\ i - 1 \in 0..L /\ i \in 0..L /\ i \in 1..Len(strings)
        BY <1>1, <1>5, <1>7
    <2>2. g[i] = g[i - 1] \o ss[i]
        BY <1>6, <2>1 DEF Pieces
    <2>3. strings[i] \in Units /\ Len(strings[i]) \in Nat
        BY <1>2, <2>1
    <2>4. ss[i] = strings[i] \o << 0 >>
        BY <1>4, <2>1
    <2>5. ss[i] = Append(strings[i], 0) /\ ss[i] \in Units /\ Len(ss[i]) = Len(strings[i]) + 1
        BY <2>3, <2>4, NulEnded
    <2>6. ss[i][Len(strings[i]) + 1] = 0 /\ \A j \in 1..Len(strings[i]) : ss[i][j] = strings[i][j]
        BY <2>3, <2>5, UnitFacts, AppendProperties DEF Units
    <2>7. g[i - 1] \in Units /\ Len(g[i - 1]) \in Nat /\ g[i] \in Units /\ Len(g[i]) \in Nat /\ Len(g[i]) <= Len(g[L])
        BY <1>8, <2>1
    <2>8. PICK a, b, c : /\ a = g[i - 1] /\ b = ss[i] /\ c = g[i]
                         /\ a \in Units /\ b \in Units /\ c = a \o b
        BY <2>2, <2>5, <2>7
    <2>9. PICK x, y, z : x = Len(g[i - 1]) /\ y = Len(strings[i]) /\ z = Len(g[L])
        OBVIOUS
    <2>10. Len(c) = Len(a) + Len(b) /\ \A j \in 1..Len(b) : c[Len(a) + j] = b[j]
        <3>1. c = a \o b
            BY <2>8
        <3> QED BY <3>1, ConcatAt DEF Units
    <2>11. Len(g[i]) = x + y + 1 /\ x \in Nat /\ y \in Nat /\ z \in Nat /\ x + y + 1 <= z
        <3>1. Len(a) = x /\ Len(b) = y + 1 /\ Len(c) = Len(g[i])
            BY <2>5, <2>8, <2>9
        <3>2. x \in Nat /\ y \in Nat /\ z \in Nat /\ Len(g[i]) <= z
            BY <1>9, <2>3, <2>7, <2>9
        <3>3. Len(c) = Len(a) + Len(b)
            BY <2>10
        <3>4. PICK l : l = Len(g[i])
            OBVIOUS
        <3>5. l = x + (y + 1)
            BY <3>1, <3>3, <3>4, Zenon
        <3>6. l <= z
            BY <3>2, <3>4, Zenon
        <3> QED BY <3>2, <3>4, <3>5, <3>6
    <2>12. ASSUME NEW j \in 1..(y + 1) PROVE s[x + j] = ss[i][j]
        <3>1. PICK p : p = x + j
            OBVIOUS
        <3>2. p \in 1..(x + y + 1) /\ p \in 1..z /\ p \in 1..(z + 1)
            BY <2>11, <3>1
        <3>3. s[p] = g[L][p]
            BY <1>13, <1>14, <2>9, <3>2
        <3>4. g[L][p] = g[i][p]
            BY <1>8, <2>1, <2>11, <3>2
        <3>5. g[i][p] = ss[i][j]
            BY <2>5, <2>8, <2>9, <2>10, <3>1
        <3> QED BY <3>1, <3>3, <3>4, <3>5
    <2>13. \A j \in 1..y : s[x + j] = strings[i][j]
        BY <2>6, <2>9, <2>11, <2>12
    <2>14. s[x + y + 1] = 0
        <3>1. y + 1 \in 1..(y + 1) /\ x + y + 1 = x + (y + 1)
            BY <2>11
        <3>2. s[x + (y + 1)] = ss[i][y + 1]
            BY <2>12, <3>1
        <3> QED BY <2>6, <2>9, <3>1, <3>2
    <2> QED BY <2>9, <2>13, <2>14, <2>11
<1>16. Len(g[0]) = 0
    BY <1>6, EmptySeq DEF Pieces
<1>17. s[Len(g[L]) + 1] = 0
    BY <1>9, <1>13, <1>14
<1>18. Layout(strings, s, g, L)
    BY <1>1, <1>2, <1>7, <1>8, <1>14, <1>15, <1>16, <1>17 DEF Layout
<1> QED BY <1>7, <1>18

\* In the list: i strings have been read, the next is under way.
Inside(strings, s, g, L, n, a, i) ==
    /\ i \in 0..L /\ Len(g[i]) <= n
    /\ a.state = "reading" /\ a.strings = SubSeq(strings, 1, i)
    /\ a.current = SubSeq(s, Len(g[i]) + 1, n)
    /\ i < L => n < Len(g[i + 1])
    /\ i = L => n = Len(g[L])

LEMMA InsideStep ==
    ASSUME NEW s \in Units, NEW strings \in Seq(Seq(Char)), strings \in Seq(Units), NEW g, NEW L,
           Layout(strings, s, g, L),
           NEW n \in Nat, n < Len(g[L]), NEW a \in Acc, NEW i, Inside(strings, s, g, L, n, a, i)
    PROVE  \E j : Inside(strings, s, g, L, n + 1, multi_sz_unit(a, s[n + 1]), j)
<1>1. L \in Nat /\ Len(strings) = L /\ Len(g[L]) \in Nat /\ Len(s) \in Nat /\ Len(g[L]) + 1 <= Len(s) /\ i \in 0..L
    BY LenProperties DEF Layout, Inside, Units
<1>2. i < L
    <2>1. i # L
        BY <1>1 DEF Inside
    <2> QED BY <1>1, <2>1
<1>3. PICK m : m = i + 1
    OBVIOUS
<1>4. m \in 1..L /\ m - 1 = i /\ m \in Nat
    BY <1>1, <1>2, <1>3
<1>5. PICK b, e : b = Len(g[i]) /\ e = Len(strings[m])
    OBVIOUS
<1>6. /\ strings[m] \in Seq(Char) /\ strings[m] \in Units /\ e \in Nat \ {0} /\ b \in Nat
      /\ Len(g[m]) = b + e + 1
      /\ \A j \in 1..e : s[b + j] = strings[m][j]
      /\ s[Len(g[m])] = 0
    BY <1>1, <1>4, <1>5 DEF Layout
<1>7. Len(g[m]) <= Len(g[L])
    BY <1>1, <1>4 DEF Layout
<1>8. /\ b <= n /\ n < b + e + 1
      /\ a.state = "reading" /\ a.strings = SubSeq(strings, 1, i) /\ a.current = SubSeq(s, b + 1, n)
    BY <1>2, <1>3, <1>5, <1>6 DEF Inside
<1>9. PICK v : v = n + 1
    OBVIOUS
<1>10. v \in Nat /\ v <= Len(s) /\ b < v /\ v - 1 = n /\ n <= Len(s) /\ b + e + 1 <= Len(s)
    BY <1>1, <1>6, <1>7, <1>8, <1>9
<1>11. a = [state |-> "reading", strings |-> a.strings, current |-> a.current] /\ a.current \in Units
       /\ a.strings \in Seq(Units)
    BY <1>8 DEF Acc
<1>12. CASE n < b + e
    <2>1. v - b \in 1..e /\ b + (v - b) = v
        BY <1>6, <1>8, <1>9, <1>12
    <2>2. s[v] = strings[m][v - b]
        BY <1>6, <2>1
    <2>3. strings[m][v - b] \in Char
        BY <1>5, <1>6, <2>1, ElementOfSeq
    <2>4. s[v] # 0
        BY <2>2, <2>3, UnitFacts
    <2>5. PICK c : c = Append(a.current, s[v])
        OBVIOUS
    <2>6. c = SubSeq(s, b + 1, v)
        <3>1. SubSeq(s, b + 1, v) = Append(SubSeq(s, b + 1, v - 1), s[v])
            BY <1>6, <1>10, PartAt DEF Units
        <3> QED BY <1>8, <1>10, <2>5, <3>1
    <2>7. multi_sz_unit(a, s[v]) = [state |-> "reading", strings |-> a.strings, current |-> c]
        BY <1>8, <1>11, <2>4, <2>5 DEF multi_sz_unit
    <2>8. Inside(strings, s, g, L, v, multi_sz_unit(a, s[v]), i)
        <3>1. b <= v /\ v < b + e + 1
            BY <1>6, <1>8, <1>9, <1>12
        <3>2. i # L /\ i + 1 = m
            BY <1>1, <1>2, <1>3
        <3>3. PICK r : r = multi_sz_unit(a, s[v])
            OBVIOUS
        <3>4. r.state = "reading" /\ r.strings = a.strings /\ r.current = c
            BY <2>7, <3>3
        <3>5. r.strings = SubSeq(strings, 1, i) /\ r.current = SubSeq(s, Len(g[i]) + 1, v)
            BY <1>5, <1>8, <2>6, <3>4, Zenon
        <3>6. Len(g[i]) <= v /\ v < Len(g[i + 1])
            BY <1>5, <1>6, <3>1, <3>2, Zenon
        <3> QED BY <1>1, <3>2, <3>3, <3>4, <3>5, <3>6, Zenon DEF Inside
    <2> QED BY <1>9, <2>8
<1>13. CASE ~(n < b + e)
    <2>1. n = b + e /\ v = Len(g[m])
        BY <1>6, <1>8, <1>9, <1>13
    <2>2. a.current = strings[m]
        <3>1. b + e <= Len(s)
            BY <1>6, <1>10
        <3>2. SubSeq(s, b + 1, b + e) = strings[m]
            BY <1>5, <1>6, <3>1, PartIs DEF Units
        <3> QED BY <1>8, <2>1, <3>2
    <2>3. strings[m] # <<>>
        BY <1>5, <1>6, EmptySeq
    <2>4. from_utf16(a.current).ok
        <3>1. ASSUME NEW j \in 1..Len(strings[m]) PROVE strings[m][j] # Lone
            <4>1. strings[m][j] \in Char
                BY <1>6, ElementOfSeq
            <4> QED BY <4>1, UnitFacts
        <3> QED BY <2>2, <3>1 DEF from_utf16, Ok
    <2>5. s[v] = 0
        BY <1>6, <2>1
    <2>6. PICK t : t = Append(a.strings, a.current)
        OBVIOUS
    <2>7. multi_sz_unit(a, s[v]) = [state |-> "reading", strings |-> t, current |-> <<>>]
        BY <1>8, <1>11, <2>2, <2>3, <2>4, <2>5, <2>6 DEF multi_sz_unit, list_ends
    <2>8. t = SubSeq(strings, 1, m)
        <3>1. SubSeq(strings, 0 + 1, m) = Append(SubSeq(strings, 0 + 1, m - 1), strings[m])
            BY <1>1, <1>4, PartAt
        <3>2. 0 + 1 = 1
            OBVIOUS
        <3> QED BY <1>4, <1>8, <2>2, <2>6, <3>1, <3>2
    <2>9. <<>> = SubSeq(s, Len(g[m]) + 1, v)
        <3>1. SubSeq(s, v + 1, v) = <<>>
            BY <1>10, SubSeqEmpty
        <3> QED BY <2>1, <3>1, Zenon
    <2>10. m < L => v < Len(g[m + 1])
        <3> SUFFICES ASSUME m < L PROVE v < Len(g[m + 1])
            OBVIOUS
        <3>1. PICK k : k = m + 1
            OBVIOUS
        <3>2. k \in 1..L /\ k - 1 = m /\ m \in 0..L
            BY <1>1, <1>4, <3>1
        <3>3. Len(g[k]) = Len(g[k - 1]) + Len(strings[k]) + 1 /\ Len(strings[k]) \in Nat
            BY <3>2 DEF Layout
        <3>4. Len(g[k - 1]) = v
            BY <2>1, <3>2
        <3> QED BY <1>10, <3>1, <3>3, <3>4
    <2>11. m = L => v = Len(g[L])
        BY <2>1
    <2>12. m \in 0..L /\ Len(g[m]) <= v
        BY <1>4, <1>10, <2>1
    <2>13. Inside(strings, s, g, L, v, multi_sz_unit(a, s[v]), m)
        <3>1. PICK r : r = multi_sz_unit(a, s[v])
            OBVIOUS
        <3>2. r.state = "reading" /\ r.strings = t /\ r.current = <<>>
            BY <2>7, <3>1
        <3>3. r.strings = SubSeq(strings, 1, m) /\ r.current = SubSeq(s, Len(g[m]) + 1, v)
            BY <2>8, <2>9, <3>2, Zenon
        <3> QED BY <2>10, <2>11, <2>12, <3>1, <3>2, <3>3, Zenon DEF Inside
    <2> QED BY <1>9, <2>13
<1> QED BY <1>12, <1>13

\* A list that lies at the front of the buffer is read.
LEMMA ListIsRead ==
    ASSUME NEW s \in Units, NEW strings \in Seq(Seq(Char)),
           \A i \in 1..Len(strings) : strings[i] # <<>>,
           IsPrefix(Written(strings), s)
    PROVE  multi_sz_units(s).state = "ended" /\ multi_sz_units(s).strings = strings
<1>1. PICK f \in [0..Len(s) -> Acc] :
          /\ f[0] = Begun /\ multi_sz_units(s) = f[Len(s)]
          /\ \A n \in 1..Len(s) : f[n] = multi_sz_unit(f[n - 1], s[n])
    BY ScanSteps
<1>2. PICK L : L = Len(strings)
    OBVIOUS
<1>3. PICK g : Layout(strings, s, g, L)
    BY <1>2, LaidOut
<1>4. L \in Nat /\ Len(g[L]) \in Nat /\ Len(s) \in Nat /\ Len(g[L]) + 1 <= Len(s) /\ s[Len(g[L]) + 1] = 0 /\ Len(g[0]) = 0
    <2>1. L \in 0..L
        BY <1>2, LenProperties
    <2> QED BY <1>3, <2>1, LenProperties DEF Layout, Units
<1>5. strings \in Seq(Units)
    <2>1. strings \in [1..L -> Seq(Char)]
        BY <1>2, LenProperties
    <2>2. \A i \in 1..L : strings[i] \in Units
        BY <1>3 DEF Layout
    <2>3. strings \in [1..L -> Units]
        BY <2>1, <2>2
    <2> QED BY <1>4, <2>3, FunctionIsSeq
<1> DEFINE Ins(n) == \E i : Inside(strings, s, g, L, n, f[n], i)
           K == {k \in Nat : k <= Len(g[L]) => Ins(k)}
<1>6. 0 \in K
    <2>1. SubSeq(strings, 1, 0) = <<>> /\ SubSeq(s, 0 + 1, 0) = <<>>
        BY SubSeqEmpty
    <2>2. 0 < L => 0 < Len(g[0 + 1])
        <3> SUFFICES ASSUME 0 < L PROVE 0 < Len(g[1])
            OBVIOUS
        <3>1. 1 \in 1..L /\ 1 - 1 = 0
            BY <1>4
        <3>2. Len(g[1]) = Len(g[1 - 1]) + Len(strings[1]) + 1 /\ Len(strings[1]) \in Nat
            BY <1>3, <3>1 DEF Layout
        <3>3. Len(g[1 - 1]) = 0
            BY <1>4, <3>1
        <3> QED BY <3>2, <3>3
    <2>3. f[0].state = "reading" /\ f[0].strings = <<>> /\ f[0].current = <<>>
        BY <1>1 DEF Begun
    <2>4. 0 = L => 0 = Len(g[L])
        BY <1>4
    <2>5. 0 \in 0..L /\ Len(g[0]) <= 0 /\ SubSeq(s, Len(g[0]) + 1, 0) = <<>>
        BY <1>4, <2>1
    <2>6. Inside(strings, s, g, L, 0, f[0], 0)
        BY <2>1, <2>2, <2>3, <2>4, <2>5 DEF Inside
    <2>7. Ins(0)
        BY <2>6
    <2> QED BY <2>7
<1>7. ASSUME NEW k \in Nat, k \in K PROVE k + 1 \in K
    <2> SUFFICES ASSUME k + 1 <= Len(g[L]) PROVE Ins(k + 1)
        OBVIOUS
    <2>1. k < Len(g[L]) /\ k <= Len(g[L]) /\ k \in 0..Len(s) /\ k + 1 \in 1..Len(s) /\ k + 1 - 1 = k
        BY <1>4
    <2>2. Ins(k)
        BY <1>7, <2>1
    <2>3. PICK i : Inside(strings, s, g, L, k, f[k], i)
        BY <2>2
    <2>4. f[k] \in Acc
        BY <1>1, <2>1
    <2>5. PICK j : Inside(strings, s, g, L, k + 1, multi_sz_unit(f[k], s[k + 1]), j)
        BY <1>3, <1>5, <2>1, <2>3, <2>4, InsideStep
    <2>6. f[k + 1] = multi_sz_unit(f[k], s[k + 1])
        BY <1>1, <2>1
    <2>7. Inside(strings, s, g, L, k + 1, f[k + 1], j)
        BY <2>5, <2>6
    <2> QED BY <2>7
<1> HIDE DEF K, Ins
<1>8. PICK M : M = Len(g[L])
    OBVIOUS
<1>9. PICK i : Inside(strings, s, g, L, M, f[M], i)
    <2>1. M \in K
        BY <1>4, <1>6, <1>7, <1>8, Induction
    <2> QED BY <1>4, <1>8, <2>1 DEF K, Ins
<1>9a. M \in Nat /\ M + 1 <= Len(s) /\ Len(s) \in Nat
    BY <1>4, <1>8, Zenon
<1>10. i = L
    <2> SUFFICES ASSUME i # L PROVE FALSE
        OBVIOUS
    <2>1. i \in 0..L
        BY <1>9 DEF Inside
    <2>2. i < L /\ i + 1 \in 0..L
        BY <1>4, <2>1
    <2>3. M < Len(g[i + 1])
        BY <1>9, <2>2 DEF Inside
    <2>4. Len(g[i + 1]) \in Nat /\ Len(g[i + 1]) <= Len(g[L])
        BY <1>3, <2>2 DEF Layout
    <2> QED BY <1>4, <1>8, <2>3, <2>4
<1>11. f[M].state = "reading" /\ f[M].strings = strings /\ f[M].current = <<>>
    <2>1. SubSeq(strings, 1, L) = strings
        BY <1>2, SubSeqFull
    <2>2. SubSeq(s, M + 1, M) = <<>>
        BY <1>4, <1>8, SubSeqEmpty
    <2> QED BY <1>8, <1>9, <1>10, <2>1, <2>2 DEF Inside
<1>12. PICK a : a = f[M + 1]
    OBVIOUS
<1>13. a.state = "ended" /\ a.strings = strings
    <2>1. PICK v : v = M + 1
        OBVIOUS
    <2>2. v \in 1..Len(s) /\ v - 1 = M /\ s[v] = 0
        BY <1>4, <1>8, <2>1
    <2>3. f[v] = multi_sz_unit(f[M], 0)
        BY <1>1, <2>2
    <2>4. f[M] \in Acc
        BY <1>1, <1>4, <1>8
    <2>5. f[M] = [state |-> "reading", strings |-> strings, current |-> <<>>]
        BY <1>11, <2>4 DEF Acc
    <2>6. multi_sz_unit(f[M], 0) = [state |-> "ended", strings |-> strings, current |-> <<>>]
        BY <2>5 DEF multi_sz_unit, list_ends
    <2> QED BY <1>12, <2>1, <2>3, <2>6
<1> DEFINE J == {k \in Nat : M + 1 + k <= Len(s) => f[M + 1 + k] = a}
<1>14. 0 \in J
    BY <1>4, <1>8, <1>12
<1>15. ASSUME NEW k \in Nat, k \in J PROVE k + 1 \in J
    <2> SUFFICES ASSUME M + 1 + (k + 1) <= Len(s) PROVE f[M + 1 + (k + 1)] = a
        OBVIOUS
    <2>1. PICK v : v = M + 1 + (k + 1)
        OBVIOUS
    <2>2. v \in 1..Len(s) /\ v - 1 = M + 1 + k /\ M + 1 + k <= Len(s)
        BY <1>9a, <2>1
    <2>3. f[v - 1] = a
        BY <1>15, <2>2
    <2>4. f[v] = multi_sz_unit(f[v - 1], s[v])
        BY <1>1, <2>2
    <2>5. multi_sz_unit(a, s[v]) = a
        BY <1>13 DEF multi_sz_unit
    <2> QED BY <2>1, <2>3, <2>4, <2>5
<1> HIDE DEF J
<1>16. f[Len(s)] = a
    <2>1. PICK k : k = Len(s) - (M + 1)
        OBVIOUS
    <2>2. k \in Nat /\ M + 1 + k = Len(s)
        BY <1>9a, <2>1
    <2>3. k \in J
        BY <1>14, <1>15, <2>2, Induction
    <2> QED BY <1>4, <2>2, <2>3 DEF J
<1> QED BY <1>1, <1>13, <1>16

TextAt(s) == LET nuls == {i \in 1..Len(s) : s[i] = 0}
             IN  IF nuls = {} THEN MalformedText
                 ELSE from_utf16(SubSeq(s, 1, (CHOOSE i \in nuls : \A j \in nuls : i <= j) - 1))

\* The first NUL.
LEMMA FirstNul ==
    ASSUME NEW s \in Units, {i \in 1..Len(s) : s[i] = 0} # {}
    PROVE  \E z \in 1..Len(s) : /\ s[z] = 0 /\ \A j \in 1..(z - 1) : s[j] # 0
                                /\ TextAt(s) = from_utf16(SubSeq(s, 1, z - 1))
<1>1. PICK nuls : nuls = {i \in 1..Len(s) : s[i] = 0}
    OBVIOUS
<1>2. nuls \subseteq Nat /\ nuls # {} /\ Len(s) \in Nat
    BY <1>1, LenProperties DEF Units
<1>3. \E x \in nuls : \A y \in nuls : x <= y
    BY <1>2, Least
<1>4. PICK z : z = CHOOSE i \in nuls : \A j \in nuls : i <= j
    OBVIOUS
<1>5. z \in nuls /\ \A j \in nuls : z <= j
    BY <1>3, <1>4, Zenon
<1>6. z \in 1..Len(s) /\ s[z] = 0
    BY <1>1, <1>5
<1>7. ASSUME NEW j \in 1..(z - 1) PROVE s[j] # 0
    <2>1. j \in 1..Len(s) /\ ~(z <= j)
        BY <1>2, <1>6
    <2> QED BY <1>1, <1>5, <2>1
<1>8. TextAt(s) = from_utf16(SubSeq(s, 1, z - 1))
    BY <1>1, <1>2, <1>4, Zenon DEF TextAt
<1> QED BY <1>6, <1>7, <1>8

\* A text that is read lies at the front of what was read.
LEMMA TextAsWritten ==
    ASSUME NEW s \in Units, TextAt(s).ok
    PROVE  IsText(TextAt(s).value) /\ IsPrefix(TextAt(s).value \o << 0 >>, s)
<1>1. {i \in 1..Len(s) : s[i] = 0} # {}
    BY DEF TextAt, MalformedText
<1>2. PICK z \in 1..Len(s) : /\ s[z] = 0 /\ \A j \in 1..(z - 1) : s[j] # 0
                             /\ TextAt(s) = from_utf16(SubSeq(s, 1, z - 1))
    BY <1>1, FirstNul
<1>3. Len(s) \in Nat /\ z \in Nat /\ z - 1 \in Nat /\ z <= Len(s) /\ z - 1 <= Len(s)
    BY LenProperties DEF Units
<1>4. PICK t : t = SubSeq(s, 1, z - 1)
    OBVIOUS
<1>5. t \in Units /\ Len(t) = z - 1 /\ \A j \in 1..(z - 1) : t[j] = s[j]
    <2>1. \A i \in 1..(z - 1) : s[i] \in Unit
        BY <1>3, ElementOfSeq DEF Units
    <2> QED BY <1>3, <1>4, <2>1, SubSeqProperties DEF Units
<1>6. (~\E i \in 1..Len(t) : t[i] = Lone) /\ TextAt(s).value = t
    <2>1. TextAt(s) = IF \E i \in 1..Len(t) : t[i] = Lone THEN MalformedText ELSE Ok(t)
        BY <1>2, <1>4, Zenon DEF from_utf16
    <2>2. ~MalformedText.ok /\ Ok(t).value = t
        BY DEF MalformedText, Ok
    <2>3. ~\E i \in 1..Len(t) : t[i] = Lone
        BY <2>1, <2>2, Zenon
    <2> QED BY <2>1, <2>2, <2>3, Zenon
<1>7. IsText(t)
    <2>1. \A i \in 1..Len(t) : t[i] \in Unit
        BY <1>5, ElementOfSeq DEF Units
    <2> QED BY <1>2, <1>5, <1>6, <2>1, UnitFacts DEF IsText
<1>8. SubSeq(s, 1, z) = t \o << 0 >>
    <2>1. 1 \in 1..Len(s) /\ z \in 1..Len(s)
        BY <1>3
    <2> QED BY <1>2, <1>4, <2>1, SubSeqRecursiveSecond DEF Units
<1>9. Len(t \o << 0 >>) = z /\ t \o << 0 >> \in Units
    <2>1. Len(t \o << 0 >>) = Len(t) + 1 /\ t \o << 0 >> \in Units
        BY <1>5, NulEnded
    <2> QED BY <1>3, <1>5, <2>1
<1>10. SubSeq(t \o << 0 >>, 1, z) = t \o << 0 >>
    BY <1>9, SubSeqFull DEF Units
<1>11. IsPrefix(t \o << 0 >>, s)
    BY <1>3, <1>8, <1>9, <1>10 DEF IsPrefix
<1> QED BY <1>6, <1>7, <1>11

\* A text that lies at the front of the buffer is read.
LEMMA TextIsRead ==
    ASSUME NEW s \in Units, NEW t \in Seq(Char), IsPrefix(t \o << 0 >>, s)
    PROVE  TextAt(s) = Ok(t)
<1>1. t \in Units /\ Len(t) \in Nat /\ Len(s) \in Nat
    BY SeqMonotonic, UnitFacts, LenProperties DEF Units
<1>2. PICK w : w = t \o << 0 >>
    OBVIOUS
<1>3. w = Append(t, 0) /\ w \in Units /\ Len(w) = Len(t) + 1
    BY <1>1, <1>2, NulEnded
<1>4. w[Len(t) + 1] = 0 /\ \A j \in 1..Len(t) : w[j] = t[j]
    BY <1>1, <1>3, UnitFacts, AppendProperties DEF Units
<1>5. Len(t) + 1 <= Len(s) /\ \A j \in 1..(Len(t) + 1) : s[j] = w[j]
    <2>1. IsPrefix(w, s)
        BY <1>2
    <2>2. Len(w) <= Len(s) /\ \A j \in 1..Len(w) : s[j] = w[j]
        BY <1>3, <2>1, PrefixAt DEF Units
    <2> QED BY <1>3, <2>2
<1>6. s[Len(t) + 1] = 0
    BY <1>1, <1>4, <1>5
<1>7. ASSUME NEW j \in 1..Len(t) PROVE s[j] = t[j] /\ t[j] # 0 /\ t[j] # Lone
    <2>1. s[j] = t[j]
        BY <1>1, <1>4, <1>5
    <2>2. t[j] \in Char
        BY ElementOfSeq
    <2> QED BY <2>1, <2>2, UnitFacts
<1>8. PICK z \in 1..Len(s) : /\ s[z] = 0 /\ \A j \in 1..(z - 1) : s[j] # 0
                             /\ TextAt(s) = from_utf16(SubSeq(s, 1, z - 1))
    <2>1. Len(t) + 1 \in {i \in 1..Len(s) : s[i] = 0}
        BY <1>1, <1>5, <1>6
    <2>2. {i \in 1..Len(s) : s[i] = 0} # {}
        BY <2>1
    <2> QED BY <2>2, FirstNul
<1>9. z = Len(t) + 1
    <2>1. ~(z < Len(t) + 1)
        <3> SUFFICES ASSUME z < Len(t) + 1 PROVE FALSE
            OBVIOUS
        <3>1. z \in 1..Len(t)
            BY <1>1
        <3> QED BY <1>7, <1>8, <3>1
    <2>2. ~(Len(t) + 1 < z)
        <3> SUFFICES ASSUME Len(t) + 1 < z PROVE FALSE
            OBVIOUS
        <3>1. Len(t) + 1 \in 1..(z - 1)
            BY <1>1
        <3> QED BY <1>6, <1>8, <3>1
    <2> QED BY <1>1, <2>1, <2>2
<1>10. SubSeq(s, 0 + 1, 0 + Len(t)) = t
    <2>1. 0 + Len(t) <= Len(s) /\ \A j \in 1..Len(t) : s[0 + j] = t[j]
        BY <1>1, <1>5, <1>7
    <2> QED BY <1>1, <2>1, PartIs DEF Units
<1>11. SubSeq(s, 1, z - 1) = t
    <2>1. 0 + 1 = 1 /\ 0 + Len(t) = z - 1
        BY <1>1, <1>9
    <2> QED BY <1>10, <2>1
<1>12. from_utf16(t) = Ok(t)
    BY <1>7 DEF from_utf16
<1> QED BY <1>8, <1>11, <1>12

-----------------------------------------------------------------------------
\* The invariant: text and list are what the two functions make of the buffer.
QueryInv == /\ buffer \in Units
            /\ ptr # Null => /\ ptr \in Int /\ text = decode_utf16_z_within_buffer(ptr, buffer, TRUE)
                             /\ list = parse_multi_sz_within_buffer(ptr, buffer)

LEMMA RestIsUnits ==
    ASSUME NEW b \in Units, NEW p \in Int, within(b, p)
    PROVE  rest(b, p) \in Units
<1>1. PICK m : m = p \div 2 + 1
    OBVIOUS
<1>2. m \in Int /\ m >= 1 /\ Len(b) \in Nat
    BY <1>1, LenProperties DEF within, Units
<1>3. \A i \in m..Len(b) : b[i] \in Unit
    BY <1>2, ElementOfSeq DEF Units
<1> QED BY <1>1, <1>2, <1>3, SubSeqProperties DEF rest, Units

\* A buffer whose pointer lies within it.
LEMMA WithinExact ==
    ASSUME NEW b \in Units, NEW p \in Int
    PROVE  LET t == decode_utf16_z_within_buffer(p, b, TRUE)
               l == parse_multi_sz_within_buffer(p, b)
               s == rest(b, p)
           IN  /\ t.ok => IsText(t.value) /\ p >= 0 /\ IsPrefix(t.value \o << 0 >>, s)
               /\ l.ok => Readable(l.value) /\ p >= 0 /\ IsPrefix(Written(l.value), s)
               /\ within(b, p) =>
                     /\ \A x \in Seq(Char) : IsPrefix(x \o << 0 >>, s) => t = Ok(x)
                     /\ \A strings \in Seq(Seq(Char)) :
                           (\A i \in 1..Len(strings) : strings[i] # <<>>) /\ IsPrefix(Written(strings), s)
                              => l = Ok(strings)
<1>1. PICK t, l, s : /\ t = decode_utf16_z_within_buffer(p, b, TRUE)
                     /\ l = parse_multi_sz_within_buffer(p, b) /\ s = rest(b, p)
    OBVIOUS
<1>2. p # Null
    BY QueryAssumption
<1>3. CASE ~within(b, p)
    <2>1. t = MalformedText /\ l = MalformedText
        BY <1>1, <1>2, <1>3 DEF decode_utf16_z_within_buffer, parse_multi_sz_within_buffer
    <2>2. ~t.ok /\ ~l.ok
        BY <2>1 DEF MalformedText
    <2> QED BY <1>1, <1>3, <2>2
<1>4. CASE within(b, p)
    <2>1. s \in Units /\ p >= 0
        BY <1>1, <1>4, RestIsUnits DEF within
    <2>2. t = TextAt(s)
        BY <1>1, <1>2, <1>4 DEF decode_utf16_z_within_buffer, TextAt
    <2>3. l = IF multi_sz_units(s).state = "ended" THEN Ok(multi_sz_units(s).strings) ELSE MalformedText
        BY <1>1, <1>2, <1>4 DEF parse_multi_sz_within_buffer
    <2>4. t.ok => IsText(t.value) /\ IsPrefix(t.value \o << 0 >>, s)
        BY <2>1, <2>2, TextAsWritten
    <2>5. l.ok => Readable(l.value) /\ IsPrefix(Written(l.value), s)
        <3> SUFFICES ASSUME l.ok PROVE Readable(l.value) /\ IsPrefix(Written(l.value), s)
            OBVIOUS
        <3>1. multi_sz_units(s).state = "ended" /\ l.value = multi_sz_units(s).strings
            BY <2>3 DEF Ok, MalformedText
        <3> QED BY <2>1, <3>1, ListAsWritten
    <2>6. \A x \in Seq(Char) : IsPrefix(x \o << 0 >>, s) => t = Ok(x)
        BY <2>1, <2>2, TextIsRead
    <2>7. ASSUME NEW strings \in Seq(Seq(Char)), \A i \in 1..Len(strings) : strings[i] # <<>>,
                 IsPrefix(Written(strings), s)
          PROVE  l = Ok(strings)
        BY <2>1, <2>3, <2>7, ListIsRead
    <2> QED BY <1>1, <2>1, <2>4, <2>5, <2>6, <2>7
<1> QED BY <1>3, <1>4

\* Whatever the manager wrote into the buffer and wherever its pointers
\* point: decode_utf16_z_within_buffer and parse_multi_sz_within_buffer read
\* exactly the well-formed texts and lists, terminators included.
THEOREM QueryReadsExactly == QuerySpec => []QueryExact
<1>1. QueryInit => QueryInv
    BY BoundedIsSeq DEF QueryInit, QueryInv, Buffer, Units
<1>2. QueryInv /\ [QueryNext]_query_vars => QueryInv'
    <2>1. ASSUME QueryInv, read_buffer PROVE QueryInv'
        <3>1. buffer' = buffer /\ ptr' \in Pointer
            BY <2>1 DEF read_buffer
        <3>2. ptr' # Null => ptr' \in Int
            BY <3>1, QueryAssumption DEF Pointer
        <3> QED BY <2>1, <3>1, <3>2 DEF QueryInv, read_buffer
    <2>2. ASSUME QueryInv, UNCHANGED query_vars PROVE QueryInv'
        BY <2>2 DEF QueryInv, query_vars
    <2> QED BY <2>1, <2>2 DEF QueryNext
<1>3. QueryInv => QueryExact
    <2> SUFFICES ASSUME QueryInv PROVE QueryExact
        OBVIOUS
    <2>1. CASE ptr = Null
        BY <2>1, QueryAssumption DEF QueryExact, ReadAsWritten, NothingRefused
    <2>2. CASE ptr # Null
        <3>1. /\ buffer \in Units /\ ptr \in Int
              /\ text = decode_utf16_z_within_buffer(ptr, buffer, TRUE)
              /\ list = parse_multi_sz_within_buffer(ptr, buffer)
            BY <2>2 DEF QueryInv
        <3>2. PICK s : s = rest(buffer, ptr)
            OBVIOUS
        <3>3. /\ text.ok => IsText(text.value) /\ ptr >= 0 /\ IsPrefix(text.value \o << 0 >>, s)
              /\ list.ok => Readable(list.value) /\ ptr >= 0 /\ IsPrefix(Written(list.value), s)
              /\ within(buffer, ptr) =>
                     /\ \A x \in Seq(Char) : IsPrefix(x \o << 0 >>, s) => text = Ok(x)
                     /\ \A strings \in Seq(Seq(Char)) :
                           (\A i \in 1..Len(strings) : strings[i] # <<>>) /\ IsPrefix(Written(strings), s)
                              => list = Ok(strings)
            BY <3>1, <3>2, WithinExact
        <3>4. ReadAsWritten
            BY <3>2, <3>3 DEF ReadAsWritten, Readable
        <3>5. ASSUME ptr \in 0..(2 * Len(buffer) - 1) /\ ptr % 2 = 0
              PROVE  /\ \A t \in Texts : IsPrefix(t \o << 0 >>, s) => text = Ok(t)
                     /\ \A strings \in BoundedSeq(Texts \ {<<>>}, 2) :
                           IsPrefix(Written(strings), s) => list = Ok(strings)
            <4>1. within(buffer, ptr)
                <5>1. Len(buffer) \in Nat
                    BY <3>1, LenProperties DEF Units
                <5> QED BY <3>1, <3>5, <5>1 DEF within
            <4>2. Texts \subseteq Seq(Char)
                BY BoundedIsSeq DEF Texts
            <4>3. ASSUME NEW strings \in BoundedSeq(Texts \ {<<>>}, 2)
                  PROVE  strings \in Seq(Seq(Char)) /\ \A i \in 1..Len(strings) : strings[i] # <<>>
                <5>1. strings \in Seq(Texts \ {<<>>})
                    BY BoundedIsSeq
                <5>2. Texts \ {<<>>} \subseteq Seq(Char)
                    BY <4>2
                <5>3. strings \in Seq(Seq(Char))
                    BY <5>1, <5>2, SeqMonotonic
                <5>4. ASSUME NEW i \in 1..Len(strings) PROVE strings[i] # <<>>
                    BY <5>1, ElementOfSeq
                <5> QED BY <5>3, <5>4
            <4> QED BY <3>3, <4>1, <4>2, <4>3
        <3>6. NothingRefused
            BY <3>2, <3>5 DEF NothingRefused
        <3> QED BY <3>4, <3>6 DEF QueryExact
    <2> QED BY <2>1, <2>2
<1> HIDE DEF QueryInv
<1> QED BY <1>1, <1>2, <1>3, PTL DEF QuerySpec

-----------------------------------------------------------------------------
(* IpcCodec *)
\* An identifier is read from its digits.
LEMMA IdDigits ==
    ASSUME NEW b \in WireId
    PROVE  /\ encode_hex_16(b) \in [1..(2 * IdBytes) -> 0..15]
           /\ decode_hex_16(encode_hex_16(b)) = [id |-> b]
<1> DEFINE t == encode_hex_16(b)
<1>1. t = [k \in 1..(2 * IdBytes) |-> IF k % 2 = 1 THEN b[(k + 1) \div 2] \div 16 ELSE b[(k + 1) \div 2] % 16]
    BY DEF encode_hex_16
<1> HIDE DEF t
<1>2. IdBytes \in Nat /\ 2 * IdBytes \in Nat /\ Byte \subseteq 0..255
    BY IpcBounds
<1>3. ASSUME NEW k \in 1..(2 * IdBytes)
      PROVE  t[k] \in 0..15
    <2>1. (k + 1) \div 2 \in 1..IdBytes
        BY <1>2
    <2>2. PICK y \in 0..255 : y = b[(k + 1) \div 2]
        BY <1>2, <2>1 DEF WireId
    <2>3. t[k] = IF k % 2 = 1 THEN y \div 16 ELSE y % 16
        BY <1>1, <2>2
    <2>4. y \div 16 \in 0..15 /\ y % 16 \in 0..15
        OBVIOUS
    <2> QED BY <2>3, <2>4
<1>4. t \in [1..(2 * IdBytes) -> 0..15]
    BY <1>1, <1>3
<1>5. Len(t) = 2 * IdBytes
    BY <1>2, <1>4, FunctionIsSeq
<1>6. ASSUME NEW i \in 1..IdBytes
      PROVE  16 * t[2 * i - 1] + t[2 * i] = b[i]
    <2>1. /\ 2 * i - 1 \in 1..(2 * IdBytes) /\ 2 * i \in 1..(2 * IdBytes)
          /\ ((2 * i - 1) + 1) \div 2 = i /\ (2 * i + 1) \div 2 = i
          /\ (2 * i - 1) % 2 = 1 /\ (2 * i) % 2 = 0
        BY <1>2
    <2>2. PICK y \in 0..255 : y = b[i]
        BY <1>2 DEF WireId
    <2>3. t[2 * i - 1] = y \div 16
        BY <1>1, <2>1, <2>2
    <2>4. t[2 * i] = y % 16
        BY <1>1, <2>1, <2>2
    <2> QED BY <2>2, <2>3, <2>4, TwoDigits, SMTT(30)
<1>7. [i \in 1..IdBytes |-> 16 * t[2 * i - 1] + t[2 * i]] = b
    BY <1>6 DEF WireId
<1>8. \A k \in 1..Len(t) : t[k] < 16
    BY <1>3, <1>5
<1>9. decode_hex_16(t) = [id |-> b]
    BY <1>5, <1>7, <1>8 DEF decode_hex_16
<1> QED BY <1>4, <1>9 DEF t

\* So no two have the same digits.
LEMMA IdsDiffer ==
    \A b, c \in WireId : encode_hex_16(b) = encode_hex_16(c) => b = c
<1> SUFFICES ASSUME NEW b \in WireId, NEW c \in WireId, encode_hex_16(b) = encode_hex_16(c) PROVE b = c
    OBVIOUS
<1>1. [id |-> b] = [id |-> c]
    BY IdDigits
<1> QED BY <1>1

Token1 == [form : {"raw", "short", "u"}, code : Nat]
TokenAcc == [ok : BOOLEAN, hi : Int, out : Seq(Int)]

\* One token more is one character more, or none.
LEMMA TokenTyped ==
    ASSUME NEW a \in TokenAcc, NEW t \in Token1
    PROVE  /\ unescape_token(a, t) \in TokenAcc
           /\ Len(unescape_token(a, t).out) <= Len(a.out) + 1
<1>1. /\ a.ok \in BOOLEAN /\ a.hi \in Int /\ a.out \in Seq(Int) /\ Len(a.out) \in Nat
      /\ a = [ok |-> a.ok, hi |-> a.hi, out |-> a.out]
    BY LenProperties DEF TokenAcc
<1>2. t.form \in {"raw", "short", "u"} /\ t.code \in Int
    BY DEF Token1
<1>3. PICK c : c = code_point(a.hi, t.code)
    OBVIOUS
<1>4. c \in Int
    BY <1>1, <1>2, <1>3 DEF code_point
<1>5. PICK r : r = unescape_token(a, t)
    OBVIOUS
<1>6. \/ r = a \/ r = [a EXCEPT !.ok = FALSE] \/ r = [a EXCEPT !.hi = t.code]
      \/ r = [a EXCEPT !.out = Append(@, t.code)] \/ r = [ok |-> TRUE, hi |-> 0, out |-> Append(a.out, c)]
    BY <1>2, <1>3, <1>5 DEF unescape_token
<1>7. ASSUME NEW k \in Int
      PROVE  Append(a.out, k) \in Seq(Int) /\ Len(Append(a.out, k)) = Len(a.out) + 1
    BY <1>1, AppendProperties
<1>8. \/ r = a \/ r = [ok |-> FALSE, hi |-> a.hi, out |-> a.out] \/ r = [ok |-> a.ok, hi |-> t.code, out |-> a.out]
      \/ r = [ok |-> a.ok, hi |-> a.hi, out |-> Append(a.out, t.code)]
      \/ r = [ok |-> TRUE, hi |-> 0, out |-> Append(a.out, c)]
    BY <1>1, <1>6
<1>9. /\ r.ok \in BOOLEAN /\ r.hi \in Int /\ r = [ok |-> r.ok, hi |-> r.hi, out |-> r.out]
      /\ r.out = a.out \/ r.out = Append(a.out, t.code) \/ r.out = Append(a.out, c)
    <2>1. PICK u : u = Append(a.out, t.code)
        OBVIOUS
    <2>2. PICK v : v = Append(a.out, c)
        OBVIOUS
    <2>3. \/ r = a \/ r = [ok |-> FALSE, hi |-> a.hi, out |-> a.out] \/ r = [ok |-> a.ok, hi |-> t.code, out |-> a.out]
          \/ r = [ok |-> a.ok, hi |-> a.hi, out |-> u] \/ r = [ok |-> TRUE, hi |-> 0, out |-> v]
        BY <1>8, <2>1, <2>2
    <2>4. r = [ok |-> r.ok, hi |-> r.hi, out |-> r.out]
        BY <1>1, <2>3
    <2>5. r.ok \in BOOLEAN
        <3>1. CASE r = a
            BY <1>1, <3>1, Zenon
        <3>2. CASE r = [ok |-> FALSE, hi |-> a.hi, out |-> a.out]
            BY <3>2
        <3>3. CASE r = [ok |-> a.ok, hi |-> t.code, out |-> a.out]
            BY <1>1, <3>3
        <3>4. CASE r = [ok |-> a.ok, hi |-> a.hi, out |-> u]
            BY <1>1, <3>4
        <3>5. CASE r = [ok |-> TRUE, hi |-> 0, out |-> v]
            BY <3>5
        <3> QED BY <2>3, <3>1, <3>2, <3>3, <3>4, <3>5
    <2>6. r.hi \in Int
        BY <1>1, <1>2, <2>3
    <2>7. r.out = a.out \/ r.out = u \/ r.out = v
        BY <2>3
    <2> QED BY <2>1, <2>2, <2>4, <2>5, <2>6, <2>7
<1>10. r.out \in Seq(Int) /\ Len(r.out) <= Len(a.out) + 1
    <2>1. PICK o : o = r.out
        OBVIOUS
    <2>2. CASE o = a.out
        BY <1>1, <2>1, <2>2
    <2>3. CASE o = Append(a.out, t.code)
        <3>1. o \in Seq(Int) /\ Len(o) = Len(a.out) + 1
            BY <1>2, <1>7, <2>3, Zenon
        <3> QED BY <1>1, <2>1, <3>1
    <2>4. CASE o = Append(a.out, c)
        <3>1. o \in Seq(Int) /\ Len(o) = Len(a.out) + 1
            BY <1>4, <1>7, <2>4, Zenon
        <3> QED BY <1>1, <2>1, <3>1
    <2> QED BY <1>9, <2>1, <2>2, <2>3, <2>4
<1>11. r \in TokenAcc
    BY <1>9, <1>10 DEF TokenAcc
<1> QED BY <1>5, <1>10, <1>11

\* The loop, token by token.
LEMMA TokenSteps ==
    ASSUME NEW s \in Seq(Token1)
    PROVE  \E f \in [0..Len(s) -> TokenAcc] :
              /\ f[0] = NoTokens /\ unescape_tokens(s) = f[Len(s)]
              /\ \A n \in 1..Len(s) : f[n] = unescape_token(f[n - 1], s[n])
<1>1. Len(s) \in Nat
    BY LenProperties
<1>2. NoTokens \in TokenAcc
    BY EmptySeq DEF NoTokens, TokenAcc
<1>3. \A n \in 1..Len(s) : s[n] \in Token1
    BY ElementOfSeq
<1>4. PICK step : step = [n \in 1..Len(s) |-> [a \in TokenAcc |-> unescape_token(a, s[n])]]
    OBVIOUS
<1>5. step \in [1..Len(s) -> [TokenAcc -> TokenAcc]]
    <2>1. ASSUME NEW n \in 1..Len(s) PROVE step[n] \in [TokenAcc -> TokenAcc]
        <3>1. step[n] = [a \in TokenAcc |-> unescape_token(a, s[n])]
            BY <1>4
        <3>2. \A a \in TokenAcc : unescape_token(a, s[n]) \in TokenAcc
            BY <1>3, TokenTyped
        <3> QED BY <3>1, <3>2
    <2> QED BY <1>4, <2>1, Zenon
<1>6. PICK f : Runs(f, Len(s), TokenAcc, NoTokens, step)
    BY <1>1, <1>2, <1>5, Recursion
<1>7. \A n \in 1..Len(s) : f[n] = unescape_token(f[n - 1], s[n])
    <2> SUFFICES ASSUME NEW n \in 1..Len(s) PROVE f[n] = unescape_token(f[n - 1], s[n])
        OBVIOUS
    <2>1. f[n - 1] \in TokenAcc
        BY <1>1, <1>6 DEF Runs
    <2>2. step[n] = [a \in TokenAcc |-> unescape_token(a, s[n])]
        BY <1>4
    <2> QED BY <1>6, <2>1, <2>2 DEF Runs
<1>8. f = [n \in 0..Len(s) |-> IF n = 0 THEN NoTokens ELSE unescape_token(f[n - 1], s[n])]
    BY <1>1, <1>6, <1>7 DEF Runs
<1> DEFINE after[n \in 0..Len(s)] == IF n = 0 THEN NoTokens ELSE unescape_token(after[n - 1], s[n])
<1>9. after = CHOOSE g : g = [n \in 0..Len(s) |-> IF n = 0 THEN NoTokens ELSE unescape_token(g[n - 1], s[n])]
    OBVIOUS
<1>10. unescape_tokens(s) = after[Len(s)]
    BY DEF unescape_tokens
<1> HIDE DEF after
<1>11. after = [n \in 0..Len(s) |-> IF n = 0 THEN NoTokens ELSE unescape_token(after[n - 1], s[n])]
    BY <1>8, <1>9
<1>12. after[0] = NoTokens /\ \A n \in 1..Len(s) : after[n] = unescape_token(after[n - 1], s[n])
    BY <1>1, <1>11
<1>13. DOMAIN after = 0..Len(s) /\ after = [n \in DOMAIN after |-> after[n]]
    BY <1>11
<1>14. ASSUME NEW n \in 1..Len(s), after[n - 1] \in TokenAcc PROVE after[n] = step[n][after[n - 1]]
    <2>1. step[n] = [a \in TokenAcc |-> unescape_token(a, s[n])]
        BY <1>4
    <2> QED BY <1>12, <1>14, <2>1
<1>15. Runs(after, Len(s), TokenAcc, NoTokens, step)
    BY <1>1, <1>2, <1>5, <1>12, <1>13, <1>14, RunsTyped
<1>16. after \in [0..Len(s) -> TokenAcc]
    BY <1>15 DEF Runs
<1> QED BY <1>10, <1>12, <1>16

\* A PIN is no longer than its spelling.
LEMMA NoLonger ==
    ASSUME NEW s \in Seq(Token1)
    PROVE  unescape_tokens(s) \in TokenAcc /\ Len(unescape_tokens(s).out) <= Len(s)
<1>1. PICK f \in [0..Len(s) -> TokenAcc] :
          /\ f[0] = NoTokens /\ unescape_tokens(s) = f[Len(s)]
          /\ \A n \in 1..Len(s) : f[n] = unescape_token(f[n - 1], s[n])
    BY TokenSteps
<1>2. Len(s) \in Nat /\ \A n \in 1..Len(s) : s[n] \in Token1
    BY LenProperties, ElementOfSeq
<1> DEFINE K == {k \in Nat : k <= Len(s) => Len(f[k].out) <= k}
<1>3. 0 \in K
    <2>1. f[0].out = <<>>
        BY <1>1 DEF NoTokens
    <2>2. Len(f[0].out) = 0
        BY <2>1, EmptySeq
    <2> QED BY <2>2
<1>4. ASSUME NEW k \in Nat, k \in K PROVE k + 1 \in K
    <2> SUFFICES ASSUME k + 1 <= Len(s) PROVE Len(f[k + 1].out) <= k + 1
        OBVIOUS
    <2>1. PICK n : n = k + 1
        OBVIOUS
    <2>2. n \in 1..Len(s) /\ n - 1 = k /\ k \in 0..Len(s) /\ n \in 0..Len(s)
        BY <1>2, <2>1
    <2>3. f[k] \in TokenAcc /\ f[n] \in TokenAcc /\ f[n] = unescape_token(f[k], s[n]) /\ s[n] \in Token1
        BY <1>1, <1>2, <2>2
    <2>4. Len(f[n].out) <= Len(f[k].out) + 1
        BY <2>3, TokenTyped, Zenon
    <2>5. Len(f[k].out) \in Nat /\ Len(f[n].out) \in Nat
        BY <2>3, LenProperties DEF TokenAcc
    <2>6. Len(f[k].out) <= k
        BY <1>4, <2>2
    <2>7. Len(f[n].out) <= n
        BY <2>1, <2>4, <2>5, <2>6
    <2> QED BY <2>1, <2>7
<1> HIDE DEF K
<1>5. Len(s) \in K
    BY <1>2, <1>3, <1>4, Induction
<1> QED BY <1>1, <1>2, <1>5 DEF K

\* What the decoder has after k characters of an escaped PIN.
Unescaped(a, p, k) ==
    /\ a.ok = TRUE /\ a.hi = 0 /\ Len(a.out) = k
    /\ \A i \in 1..k : a.out[i] = p[i]

LEMMA Escaped ==
    ASSUME NEW p \in Seq(Nat)
    PROVE  escape(p) \in Seq(Token1) /\ Len(escape(p)) = Len(p)
<1>1. Len(p) \in Nat /\ \A i \in 1..Len(p) : p[i] \in Nat
    BY LenProperties, ElementOfSeq
<1>2. PICK e : e = escape(p)
    OBVIOUS
<1>3. ASSUME NEW i \in 1..Len(p) PROVE e[i] \in Token1
    <2>1. e[i] \in {Short(p[i]), U(p[i]), Raw(p[i])}
        BY <1>2 DEF escape
    <2>2. p[i] \in Nat
        BY <1>1
    <2> QED BY <2>1, <2>2 DEF Short, U, Raw, Token1
<1>4. e \in [1..Len(p) -> Token1]
    <2>1. DOMAIN e = 1..Len(p) /\ e = [i \in 1..Len(p) |-> e[i]]
        BY <1>2 DEF escape
    <2> QED BY <1>3, <2>1
<1>5. e \in Seq(Token1) /\ Len(e) = Len(p)
    BY <1>1, <1>4, FunctionIsSeq
<1> QED BY <1>2, <1>5

LEMMA Controls == \A c \in Nat : c < 32 => c \notin High /\ c \notin Low
BY DEF High, Low
LEMMA AccWith ==
    ASSUME NEW a \in TokenAcc, NEW w
    PROVE  [a EXCEPT !.out = w] = [ok |-> a.ok, hi |-> a.hi, out |-> w]
<1>1. a = [ok |-> a.ok, hi |-> a.hi, out |-> a.out]
    BY DEF TokenAcc
<1> QED BY <1>1

LEMMA OneCharacter ==
    ASSUME NEW a \in TokenAcc, NEW p \in Seq(Nat), NEW i \in 1..Len(p), a.ok = TRUE, a.hi = 0
    PROVE  unescape_token(a, escape(p)[i]) = [ok |-> TRUE, hi |-> 0, out |-> Append(a.out, p[i])]
<1>1. PICK c \in Nat : c = p[i]
    BY ElementOfSeq
<1>2. PICK t : t = escape(p)[i]
    OBVIOUS
<1>3. t = IF c \in ShortEscapes \ {47} THEN Short(c) ELSE IF c < 32 THEN U(c) ELSE Raw(c)
    BY <1>1, <1>2 DEF escape
<1>5. [a EXCEPT !.out = Append(@, c)] = [ok |-> TRUE, hi |-> 0, out |-> Append(a.out, c)]
    <2>1. PICK w : w = Append(a.out, c)
        OBVIOUS
    <2>2. [a EXCEPT !.out = w] = [ok |-> a.ok, hi |-> a.hi, out |-> w]
        BY AccWith
    <2>3. [a EXCEPT !.out = w] = [ok |-> TRUE, hi |-> 0, out |-> w]
        BY <2>2, Zenon
    <2> QED BY <2>1, <2>3
<1>6. CASE c \in ShortEscapes \ {47}
    <2>1. t.form = "short" /\ t.code = c
        BY <1>3, <1>6 DEF Short
    <2>2. unescape_token(a, t) = [a EXCEPT !.out = Append(@, c)]
        BY <1>6, <2>1 DEF unescape_token
    <2> QED BY <1>1, <1>2, <1>5, <2>2
<1>7. CASE c \notin ShortEscapes \ {47} /\ c < 32
    <2>1. t.form = "u" /\ t.code = c
        BY <1>3, <1>7 DEF U
    <2>2. c \notin High /\ c \notin Low
        BY <1>7, Controls
    <2>3. unescape_token(a, t) = [a EXCEPT !.out = Append(@, c)]
        BY <2>1, <2>2 DEF unescape_token
    <2> QED BY <1>1, <1>2, <1>5, <2>3
<1>8. CASE c \notin ShortEscapes \ {47} /\ ~(c < 32)
    <2>1. t.form = "raw" /\ t.code = c
        BY <1>3, <1>8 DEF Raw
    <2>2. unescape_token(a, t) = [a EXCEPT !.out = Append(@, c)]
        BY <1>1, <1>8, <2>1 DEF unescape_token
    <2> QED BY <1>1, <1>2, <1>5, <2>2
<1> QED BY <1>6, <1>7, <1>8

\* A PIN is read as it was before it was escaped.
LEMMA PinRoundTrip ==
    ASSUME NEW p \in Seq(Nat)
    PROVE  unescape_pin_json_string(escape(p)) = [pin |-> p]
<1>1. PICK s \in Seq(Token1) : s = escape(p) /\ Len(s) = Len(p)
    BY Escaped
<1>2. PICK f \in [0..Len(s) -> TokenAcc] :
          /\ f[0] = NoTokens /\ unescape_tokens(s) = f[Len(s)]
          /\ \A n \in 1..Len(s) : f[n] = unescape_token(f[n - 1], s[n])
    BY TokenSteps
<1>3. Len(s) \in Nat /\ Len(p) \in Nat /\ \A i \in 1..Len(p) : p[i] \in Nat
    BY LenProperties, ElementOfSeq
<1> DEFINE K == {k \in Nat : k <= Len(s) => Unescaped(f[k], p, k)}
<1>4. 0 \in K
    <2>1. f[0].ok = TRUE /\ f[0].hi = 0 /\ f[0].out = <<>>
        BY <1>2 DEF NoTokens
    <2>2. Len(f[0].out) = 0
        BY <2>1, EmptySeq
    <2> QED BY <2>1, <2>2 DEF Unescaped
<1>5. ASSUME NEW k \in Nat, k \in K PROVE k + 1 \in K
    <2> SUFFICES ASSUME k + 1 <= Len(s) PROVE Unescaped(f[k + 1], p, k + 1)
        OBVIOUS
    <2>1. PICK n : n = k + 1
        OBVIOUS
    <2>2. n \in 1..Len(s) /\ n - 1 = k /\ k \in 0..Len(s) /\ n \in 1..Len(p) /\ k <= Len(s)
        BY <1>1, <1>3, <2>1
    <2>3. PICK a \in TokenAcc : a = f[k]
        BY <1>2, <2>2
    <2>4. Unescaped(a, p, k)
        BY <1>5, <2>2, <2>3
    <2>5. f[n] = unescape_token(a, escape(p)[n])
        BY <1>1, <1>2, <2>2, <2>3
    <2>6. f[n] = [ok |-> TRUE, hi |-> 0, out |-> Append(a.out, p[n])]
        BY <2>2, <2>4, <2>5, OneCharacter DEF Unescaped
    <2>7. a.out \in Seq(Int) /\ p[n] \in Int
        BY <1>3, <2>2 DEF TokenAcc
    <2>8. PICK o : o = Append(a.out, p[n])
        OBVIOUS
    <2>9. /\ Len(o) = Len(a.out) + 1 /\ o[Len(a.out) + 1] = p[n]
          /\ \A i \in 1..Len(a.out) : o[i] = a.out[i]
        BY <2>7, <2>8, AppendProperties
    <2>10. Len(o) = n /\ \A i \in 1..n : o[i] = p[i]
        <3>1. Len(a.out) = k /\ \A i \in 1..k : a.out[i] = p[i]
            BY <2>4 DEF Unescaped
        <3>2. ASSUME NEW i \in 1..n PROVE o[i] = p[i]
            <4>1. CASE i = n
                BY <2>1, <2>9, <3>1, <4>1
            <4>2. CASE i # n
                <5>1. i \in 1..k
                    BY <2>1, <4>2
                <5> QED BY <2>9, <3>1, <5>1
            <4> QED BY <4>1, <4>2
        <3> QED BY <2>1, <2>9, <3>1, <3>2
    <2>11. Unescaped(f[n], p, n)
        BY <2>6, <2>8, <2>10 DEF Unescaped
    <2> QED BY <2>1, <2>11
<1> HIDE DEF K
<1>6. Len(s) \in K
    BY <1>3, <1>4, <1>5, Induction
<1>7. PICK z \in TokenAcc : z = f[Len(s)]
    BY <1>2, <1>3
<1>8. Unescaped(z, p, Len(p))
    BY <1>1, <1>3, <1>6, <1>7 DEF K
<1>9. z.out = p
    <2>1. z.out \in Seq(Int) /\ p \in Seq(Int) /\ Len(z.out) = Len(p)
        <3>1. p \in Seq(Int)
            BY SeqMonotonic
        <3> QED BY <1>8, <3>1 DEF TokenAcc, Unescaped
    <2>2. \A i \in 1..Len(p) : z.out[i] = p[i]
        BY <1>8 DEF Unescaped
    <2> QED BY <2>1, <2>2, SeqEqual
<1>10. unescape_pin_json_string(s) = [pin |-> p]
    <2>1. unescape_tokens(s) = z /\ z.ok = TRUE /\ z.hi = 0
        BY <1>2, <1>7, <1>8 DEF Unescaped
    <2> QED BY <1>9, <2>1 DEF unescape_pin_json_string
<1> QED BY <1>1, <1>10

\* The thresholds of an action in order: each once and no other.
LEMMA SortedThresholds ==
    ASSUME NEW S, \A x \in S : x \in {180, 600}
    PROVE  \A x : x \in S <=> \E i \in DOMAIN sorted(S) : sorted(S)[i] = x
<1> DEFINE F == [1..Cardinality(S) -> S]
<1>1. PICK q : q = sorted(S)
    OBVIOUS
<1>2. q = CHOOSE h \in F : ascending(h)
    BY <1>1 DEF sorted
<1> HIDE DEF F
<1>7. ASSUME NEW g \in F, ascending(g) PROVE q \in F /\ ascending(q)
    BY <1>2, <1>7
<1>3. CASE S = {}
    <2>1. Cardinality(S) = 0
        BY <1>3, FS_EmptySet
    <2>2. F = [1..0 -> {}]
        BY <1>3, <2>1 DEF F
    <2>3. [i \in 1..0 |-> 0] \in F /\ ascending([i \in 1..0 |-> 0])
        BY <2>2 DEF ascending
    <2>4. q \in [1..0 -> {}]
        BY <1>7, <2>2, <2>3
    <2> QED BY <1>1, <1>3, <2>4
<1>4. ASSUME NEW a \in {180, 600}, S = {a} PROVE \A x : x \in S <=> \E i \in DOMAIN q : q[i] = x
    <2>1. Cardinality(S) = 1
        BY <1>4, FS_Singleton
    <2>2. F = [1..1 -> {a}]
        BY <1>4, <2>1 DEF F
    <2>3. [i \in 1..1 |-> a] \in F /\ ascending([i \in 1..1 |-> a])
        BY <2>2 DEF ascending
    <2>4. q \in [1..1 -> {a}]
        BY <1>7, <2>2, <2>3
    <2> QED BY <1>4, <2>4
<1>5. CASE S = {180, 600}
    <2>1. Cardinality({180}) = 1 /\ IsFiniteSet({180})
        BY FS_Singleton
    <2>2. Cardinality({180} \cup {600}) = 2
        BY <2>1, FS_AddElement
    <2>3. Cardinality(S) = 2
        <3>1. S = {180} \cup {600}
            BY <1>5
        <3> QED BY <2>2, <3>1
    <2>4. F = [1..2 -> {180, 600}]
        BY <1>5, <2>3 DEF F
    <2>5. PICK g : g = [i \in 1..2 |-> IF i = 1 THEN 180 ELSE 600]
        OBVIOUS
    <2>6. g \in F /\ ascending(g)
        BY <2>4, <2>5 DEF ascending
    <2>7. q \in [1..2 -> {180, 600}] /\ ascending(q)
        BY <1>7, <2>4, <2>6
    <2>8. q[1] = 180 /\ q[2] = 600 /\ DOMAIN q = 1..2
        BY <2>7 DEF ascending
    <2> QED BY <1>1, <1>5, <2>8
<1>6. S = {} \/ S = {180} \/ S = {600} \/ S = {180, 600}
    <2>1. PICK a : a = 180
        OBVIOUS
    <2>2. PICK b : b = 600
        OBVIOUS
    <2>3. \A x \in S : x = a \/ x = b
        BY <2>1, <2>2
    <2>4. a \in S /\ b \in S => S = {a, b}
        BY <2>3
    <2>5. a \in S /\ b \notin S => S = {a}
        BY <2>3
    <2>6. a \notin S /\ b \in S => S = {b}
        BY <2>3
    <2>7. a \notin S /\ b \notin S => S = {}
        BY <2>3
    <2> QED BY <2>1, <2>2, <2>4, <2>5, <2>6, <2>7
<1> QED BY <1>1, <1>3, <1>4, <1>5, <1>6

LEMMA DtoFields ==
    ASSUME NEW i, NEW k, NEW d, NEW b, NEW e, NEW x, NEW w, NEW z, NEW q,
           q = [[id |-> i, action_kind |-> k, deadline |-> d, created_by |-> b, emitted_thresholds |-> e,
                 execution_state |-> x] EXCEPT !.id = w, !.emitted_thresholds = z]
    PROVE  /\ q.id = w /\ q.action_kind = k /\ q.deadline = d /\ q.created_by = b
           /\ q.emitted_thresholds = z /\ q.execution_state = x
OBVIOUS

\* No two actions have the same DTO.
LEMMA ActionsDiffer ==
    ASSUME NEW a \in Action, NEW b \in Action, ScheduledActionDto(a) = ScheduledActionDto(b)
    PROVE  a = b
<1>1. /\ a = [id |-> a.id, action_kind |-> a.action_kind, deadline |-> a.deadline, created_by |-> a.created_by,
              emitted_thresholds |-> a.emitted_thresholds, execution_state |-> a.execution_state]
      /\ a.id \in WireId /\ a.emitted_thresholds \subseteq {180, 600}
    BY DEF Action
<1>2. /\ b = [id |-> b.id, action_kind |-> b.action_kind, deadline |-> b.deadline, created_by |-> b.created_by,
              emitted_thresholds |-> b.emitted_thresholds, execution_state |-> b.execution_state]
      /\ b.id \in WireId /\ b.emitted_thresholds \subseteq {180, 600}
    BY DEF Action
<1>3. ASSUME NEW c \in Action
      PROVE  /\ ScheduledActionDto(c).id = encode_hex_16(c.id)
             /\ ScheduledActionDto(c).emitted_thresholds = sorted(c.emitted_thresholds)
             /\ ScheduledActionDto(c).action_kind = c.action_kind /\ ScheduledActionDto(c).deadline = c.deadline
             /\ ScheduledActionDto(c).created_by = c.created_by
             /\ ScheduledActionDto(c).execution_state = c.execution_state
    <2>1. c = [id |-> c.id, action_kind |-> c.action_kind, deadline |-> c.deadline, created_by |-> c.created_by,
               emitted_thresholds |-> c.emitted_thresholds, execution_state |-> c.execution_state]
        BY DEF Action
    <2>2. PICK q : q = ScheduledActionDto(c)
        OBVIOUS
    <2>3. PICK w : w = encode_hex_16(c.id)
        OBVIOUS
    <2>4. PICK z : z = sorted(c.emitted_thresholds)
        OBVIOUS
    <2>5. q = [c EXCEPT !.id = w, !.emitted_thresholds = z]
        BY <2>2, <2>3, <2>4 DEF ScheduledActionDto
    <2>6. q = [[id |-> c.id, action_kind |-> c.action_kind, deadline |-> c.deadline, created_by |-> c.created_by,
                emitted_thresholds |-> c.emitted_thresholds, execution_state |-> c.execution_state]
               EXCEPT !.id = w, !.emitted_thresholds = z]
        BY <2>1, <2>5, Zenon
    <2>7. /\ q.id = w /\ q.action_kind = c.action_kind /\ q.deadline = c.deadline /\ q.created_by = c.created_by
          /\ q.emitted_thresholds = z /\ q.execution_state = c.execution_state
        BY <2>6, DtoFields, Zenon
    <2> QED BY <2>2, <2>3, <2>4, <2>7, Zenon
<1>4. a.id = b.id
    BY <1>1, <1>2, <1>3, IdsDiffer
<1>5. a.emitted_thresholds = b.emitted_thresholds
    <2>1. sorted(a.emitted_thresholds) = sorted(b.emitted_thresholds)
        BY <1>3
    <2>2. \A x : x \in a.emitted_thresholds <=> x \in b.emitted_thresholds
        BY <1>1, <1>2, <2>1, SortedThresholds
    <2> QED BY <2>2
<1>6. /\ a.action_kind = b.action_kind /\ a.deadline = b.deadline /\ a.created_by = b.created_by
      /\ a.execution_state = b.execution_state
    BY <1>3
<1> QED BY <1>1, <1>2, <1>4, <1>5, <1>6, Zenon

\* What a message of a kind carries.
FieldsOf(t, k) ==
    IF t = "response" THEN
        CASE k \in {"Status", "Subscribed"} -> {"snapshot"}
          [] k = "PinVerified" -> {"expires_in_seconds"}
          [] k = "AcceptedByService" -> {"message_id"}
          [] k = "TimerScheduled" -> {"timer_id"}
          [] k = "TimerCancellation" -> {"result"}
          [] OTHER -> {}
    ELSE IF t = "error" THEN {"code", "message", "retry_after_seconds"}
    ELSE
        CASE k = "InternetPolicyChanged" -> {"desired", "observed", "reason"}
          [] k = "ShutdownStateChanged" -> {"previous", "current"}
          [] k = "TimerScheduled" -> {"action"}
          [] k \in {"TimerCancelled", "TimerExpired"} -> {"id", "action_kind"}
          [] k = "WarningThresholdReached" -> {"timer_id", "action_kind", "threshold"}
          [] k = "MissedDeadlineOccurred" -> {"action", "reason"}
          [] k = "ChatMessageReceived" -> {"id", "sender", "text"}
          [] k = "ServiceHealthUpdated" -> {"last_error"}
          [] k = "PinAuthenticationResult" -> {"success"}
          [] OTHER -> {"stage"}

LEMMA ResponseFields == \A m \in Response : Fields(m) = FieldsOf("response", m.kind) /\ m.kind # "absent"
<1> SUFFICES ASSUME NEW m \in Response PROVE Fields(m) = FieldsOf("response", m.kind) /\ m.kind # "absent"
    OBVIOUS
<1>1. CASE m \in [kind : {"Status", "Subscribed"}, snapshot : Snapshot]
    BY <1>1 DEF Fields, FieldsOf
<1>2. CASE m \in [kind : {"PinVerified"}, expires_in_seconds : {0, 300}]
    BY <1>2 DEF Fields, FieldsOf
<1>3. CASE m \in [kind : {"AcceptedByService"}, message_id : WireId]
    BY <1>3 DEF Fields, FieldsOf
<1>4. CASE m \in [kind : {"TimerScheduled"}, timer_id : WireId]
    BY <1>4 DEF Fields, FieldsOf
<1>5. CASE m \in [kind : {"Acknowledged"}]
    BY <1>5 DEF Fields, FieldsOf
<1>6. CASE m \in [kind : {"TimerCancellation"}, result : {"Cancelled", "AlreadyAbsent", "TimerKindMismatch"}]
    BY <1>6 DEF Fields, FieldsOf
<1> QED BY <1>1, <1>2, <1>3, <1>4, <1>5, <1>6 DEF Response

LEMMA ErrorFields == \A m \in ErrorPayload : Fields(m) = FieldsOf("error", m.kind) /\ m.kind # "absent"
<1> SUFFICES ASSUME NEW m \in ErrorPayload PROVE Fields(m) = FieldsOf("error", m.kind) /\ m.kind # "absent"
    OBVIOUS
<1>1. DOMAIN m = {"kind", "code", "message", "retry_after_seconds"} /\ m.kind = "error"
    BY DEF ErrorPayload
<1> QED BY <1>1 DEF Fields, FieldsOf

\* An event is the fields it has: every kind of event.
EventIs(e) ==
    /\ Fields(e) = FieldsOf("event", e.kind) /\ e.kind # "absent"
    /\ CASE e.kind = "InternetPolicyChanged" ->
              e = [kind |-> e.kind, desired |-> e.desired, observed |-> e.observed, reason |-> e.reason]
         [] e.kind = "ShutdownStateChanged" -> e = [kind |-> e.kind, previous |-> e.previous, current |-> e.current]
         [] e.kind = "TimerScheduled" -> e = [kind |-> e.kind, action |-> e.action] /\ e.action \in Action
         [] e.kind \in {"TimerCancelled", "TimerExpired"} ->
              e = [kind |-> e.kind, id |-> e.id, action_kind |-> e.action_kind] /\ e.id \in WireId
         [] e.kind = "WarningThresholdReached" ->
              /\ e = [kind |-> e.kind, timer_id |-> e.timer_id, action_kind |-> e.action_kind,
                      threshold |-> e.threshold]
              /\ e.timer_id \in WireId
         [] e.kind = "MissedDeadlineOccurred" ->
              e = [kind |-> e.kind, action |-> e.action, reason |-> e.reason] /\ e.action \in Action
         [] e.kind = "ChatMessageReceived" ->
              e = [kind |-> e.kind, id |-> e.id, sender |-> e.sender, text |-> e.text] /\ e.id \in WireId
         [] e.kind = "ServiceHealthUpdated" -> e = [kind |-> e.kind, last_error |-> e.last_error]
         [] e.kind = "PinAuthenticationResult" -> e = [kind |-> e.kind, success |-> e.success]
         [] OTHER -> e = [kind |-> e.kind, stage |-> e.stage]

LEMMA EventShapes == \A e \in CoreEvent : EventIs(e)
<1> SUFFICES ASSUME NEW e \in CoreEvent PROVE EventIs(e)
    OBVIOUS
<1>1. CASE e \in [kind : {"InternetPolicyChanged"}, desired : {"Unrestricted", "Blocked"},
                  observed : {"Unknown", "Unrestricted", "Blocked"}, reason : {"TimerExpired", "PlatformSync"}]
    BY <1>1 DEF EventIs, Fields, FieldsOf
<1>2. CASE e \in [kind : {"ShutdownStateChanged"}, previous : {"Idle", "Scheduled"}, current : {"Idle", "Scheduled"}]
    BY <1>2 DEF EventIs, Fields, FieldsOf
<1>3. CASE e \in [kind : {"TimerScheduled"}, action : Action]
    BY <1>3 DEF EventIs, Fields, FieldsOf
<1>4. CASE e \in [kind : {"TimerCancelled", "TimerExpired"}, id : WireId, action_kind : Kind]
    BY <1>4 DEF EventIs, Fields, FieldsOf
<1>5. CASE e \in [kind : {"WarningThresholdReached"}, timer_id : WireId, action_kind : Kind, threshold : {180, 600}]
    BY <1>5 DEF EventIs, Fields, FieldsOf
<1>6. CASE e \in [kind : {"MissedDeadlineOccurred"}, action : Action, reason : {"late"}]
    BY <1>6 DEF EventIs, Fields, FieldsOf
<1>7. CASE e \in [kind : {"ChatMessageReceived"}, id : WireId, sender : {"Parent", "Child"}, text : {"hello", "bye"}]
    BY <1>7 DEF EventIs, Fields, FieldsOf
<1>8. CASE e \in [kind : {"ServiceHealthUpdated"}, last_error : {"null", "text"}]
    BY <1>8 DEF EventIs, Fields, FieldsOf
<1>9. CASE e \in [kind : {"PinAuthenticationResult"}, success : BOOLEAN]
    BY <1>9 DEF EventIs, Fields, FieldsOf
<1>10. CASE e \in [kind : {"ServiceLifecycleEvent"}, stage : {"Starting", "Stopped"}]
    BY <1>10 DEF EventIs, Fields, FieldsOf
<1> QED BY <1>1, <1>2, <1>3, <1>4, <1>5, <1>6, <1>7, <1>8, <1>9, <1>10 DEF CoreEvent

LEMMA SameFieldDto ==
    ASSUME NEW e, NEW m, Dto(e) = Dto(m)
    PROVE  /\ e.kind = m.kind /\ Fields(e) = Fields(m)
           /\ \A f \in Fields(e) : field_dto(f, e[f]) = field_dto(f, m[f])
<1>1. PICK a : a = [f \in Fields(e) |-> field_dto(f, e[f])]
    OBVIOUS
<1>2. PICK b : b = [f \in Fields(m) |-> field_dto(f, m[f])]
    OBVIOUS
<1>3. [kind |-> e.kind, args |-> a] = [kind |-> m.kind, args |-> b]
    BY <1>1, <1>2, Zenon DEF Dto
<1>4. e.kind = m.kind /\ a = b
    BY <1>3
<1>5. Fields(e) = Fields(m)
    BY <1>1, <1>2, <1>4
<1> QED BY <1>1, <1>2, <1>4, <1>5

LEMMA PlainField == \A f, v : f \notin {"id", "timer_id", "message_id", "action", "snapshot"} => field_dto(f, v) = v
BY DEF field_dto, IdFields
LEMMA IdField == \A f \in {"id", "timer_id", "message_id"} : \A v : field_dto(f, v) = encode_hex_16(v)
BY DEF field_dto, IdFields
LEMMA ActionField == \A v : field_dto("action", v) = ScheduledActionDto(v)
BY DEF field_dto, IdFields

\* Two events of the core are one on the wire only if they are one.
LEMMA EventsDiffer ==
    ASSUME NEW e \in CoreEvent, NEW m \in CoreEvent, Dto(e) = Dto(m)
    PROVE  e = m
<1>1. EventIs(e) /\ EventIs(m)
    BY EventShapes
<1>2. e.kind = m.kind /\ \A f \in Fields(e) : field_dto(f, e[f]) = field_dto(f, m[f])
    BY SameFieldDto
<1>3. Fields(e) = FieldsOf("event", e.kind)
    BY <1>1 DEF EventIs
<1>4. CASE e.kind = "InternetPolicyChanged"
    <2>1. Fields(e) = {"desired", "observed", "reason"}
        BY <1>3, <1>4 DEF FieldsOf
    <2>2. e.desired = m.desired /\ e.observed = m.observed /\ e.reason = m.reason
        BY <1>2, <2>1, PlainField
    <2> QED BY <1>1, <1>2, <1>4, <2>2 DEF EventIs
<1>5. CASE e.kind = "ShutdownStateChanged"
    <2>1. Fields(e) = {"previous", "current"}
        BY <1>3, <1>5 DEF FieldsOf
    <2>2. e.previous = m.previous /\ e.current = m.current
        BY <1>2, <2>1, PlainField
    <2> QED BY <1>1, <1>2, <1>5, <2>2 DEF EventIs
<1>6. CASE e.kind = "TimerScheduled"
    <2>1. Fields(e) = {"action"}
        BY <1>3, <1>6 DEF FieldsOf
    <2>2. ScheduledActionDto(e.action) = ScheduledActionDto(m.action)
        BY <1>2, <2>1, ActionField
    <2>3. e.action = m.action
        BY <1>1, <1>2, <1>6, <2>2, ActionsDiffer DEF EventIs
    <2> QED BY <1>1, <1>2, <1>6, <2>3 DEF EventIs
<1>7. CASE e.kind \in {"TimerCancelled", "TimerExpired"}
    <2>1. Fields(e) = {"id", "action_kind"}
        BY <1>3, <1>7 DEF FieldsOf
    <2>2. encode_hex_16(e.id) = encode_hex_16(m.id)
        BY <1>2, <2>1, IdField
    <2>3. e.action_kind = m.action_kind
        BY <1>2, <2>1, PlainField
    <2>4. e.id = m.id
        BY <1>1, <1>2, <1>7, <2>2, IdsDiffer DEF EventIs
    <2> QED BY <1>1, <1>2, <1>7, <2>3, <2>4 DEF EventIs
<1>8. CASE e.kind = "WarningThresholdReached"
    <2>1. Fields(e) = {"timer_id", "action_kind", "threshold"}
        BY <1>3, <1>8 DEF FieldsOf
    <2>2. encode_hex_16(e.timer_id) = encode_hex_16(m.timer_id)
        BY <1>2, <2>1, IdField
    <2>3. e.action_kind = m.action_kind /\ e.threshold = m.threshold
        BY <1>2, <2>1, PlainField
    <2>4. e.timer_id = m.timer_id
        BY <1>1, <1>2, <1>8, <2>2, IdsDiffer DEF EventIs
    <2> QED BY <1>1, <1>2, <1>8, <2>3, <2>4 DEF EventIs
<1>9. CASE e.kind = "MissedDeadlineOccurred"
    <2>1. Fields(e) = {"action", "reason"}
        BY <1>3, <1>9 DEF FieldsOf
    <2>2. ScheduledActionDto(e.action) = ScheduledActionDto(m.action)
        BY <1>2, <2>1, ActionField
    <2>3. e.reason = m.reason
        BY <1>2, <2>1, PlainField
    <2>4. e.action = m.action
        BY <1>1, <1>2, <1>9, <2>2, ActionsDiffer DEF EventIs
    <2> QED BY <1>1, <1>2, <1>9, <2>3, <2>4 DEF EventIs
<1>10. CASE e.kind = "ChatMessageReceived"
    <2>1. Fields(e) = {"id", "sender", "text"}
        BY <1>3, <1>10 DEF FieldsOf
    <2>2. encode_hex_16(e.id) = encode_hex_16(m.id)
        BY <1>2, <2>1, IdField
    <2>3. e.sender = m.sender /\ e.text = m.text
        BY <1>2, <2>1, PlainField
    <2>4. e.id = m.id
        BY <1>1, <1>2, <1>10, <2>2, IdsDiffer DEF EventIs
    <2> QED BY <1>1, <1>2, <1>10, <2>3, <2>4 DEF EventIs
<1>11. CASE e.kind = "ServiceHealthUpdated"
    <2>1. Fields(e) = {"last_error"}
        BY <1>3, <1>11 DEF FieldsOf
    <2>2. e.last_error = m.last_error
        BY <1>2, <2>1, PlainField
    <2> QED BY <1>1, <1>2, <1>11, <2>2 DEF EventIs
<1>12. CASE e.kind = "PinAuthenticationResult"
    <2>1. Fields(e) = {"success"}
        BY <1>3, <1>12 DEF FieldsOf
    <2>2. e.success = m.success
        BY <1>2, <2>1, PlainField
    <2> QED BY <1>1, <1>2, <1>12, <2>2 DEF EventIs
<1>13. CASE e.kind \notin {"InternetPolicyChanged", "ShutdownStateChanged", "TimerScheduled", "TimerCancelled",
                           "TimerExpired", "WarningThresholdReached", "MissedDeadlineOccurred",
                           "ChatMessageReceived", "ServiceHealthUpdated", "PinAuthenticationResult"}
    <2>1. Fields(e) = {"stage"}
        BY <1>3, <1>13 DEF FieldsOf
    <2>2. e.stage = m.stage
        BY <1>2, <2>1, PlainField
    <2> QED BY <1>1, <1>2, <1>13, <2>2 DEF EventIs
<1> QED BY <1>4, <1>5, <1>6, <1>7, <1>8, <1>9, <1>10, <1>11, <1>12, <1>13

\* What is said about the messages of the service.
LEMMA MessageFields ==
    ASSUME NEW t \in {"response", "error", "event"}, NEW m \in Messages(t)
    PROVE  /\ Fields(m) = FieldsOf(t, m.kind) /\ m.kind # "absent"
           /\ \A f \in Fields(m) \cap IdFields : m[f] \in WireId
<1>1. CASE t = "response"
    <2>1. m \in Response
        BY <1>1 DEF Messages
    <2>2. ASSUME m \in [kind : {"Status", "Subscribed"}, snapshot : Snapshot]
          PROVE  \A f \in Fields(m) \cap IdFields : m[f] \in WireId
        BY <2>2 DEF Fields, IdFields
    <2>3. ASSUME m \in [kind : {"PinVerified"}, expires_in_seconds : {0, 300}]
          PROVE  \A f \in Fields(m) \cap IdFields : m[f] \in WireId
        BY <2>3 DEF Fields, IdFields
    <2>4. ASSUME m \in [kind : {"AcceptedByService"}, message_id : WireId]
          PROVE  \A f \in Fields(m) \cap IdFields : m[f] \in WireId
        BY <2>4 DEF Fields, IdFields
    <2>5. ASSUME m \in [kind : {"TimerScheduled"}, timer_id : WireId]
          PROVE  \A f \in Fields(m) \cap IdFields : m[f] \in WireId
        BY <2>5 DEF Fields, IdFields
    <2>6. ASSUME m \in [kind : {"Acknowledged"}]
          PROVE  \A f \in Fields(m) \cap IdFields : m[f] \in WireId
        BY <2>6 DEF Fields, IdFields
    <2>7. ASSUME m \in [kind : {"TimerCancellation"}, result : {"Cancelled", "AlreadyAbsent", "TimerKindMismatch"}]
          PROVE  \A f \in Fields(m) \cap IdFields : m[f] \in WireId
        BY <2>7 DEF Fields, IdFields
    <2>8. \A f \in Fields(m) \cap IdFields : m[f] \in WireId
        BY <2>1, <2>2, <2>3, <2>4, <2>5, <2>6, <2>7 DEF Response
    <2> QED BY <1>1, <2>1, <2>8, ResponseFields
<1>2. CASE t = "error"
    <2>1. m \in ErrorPayload
        BY <1>2 DEF Messages
    <2>2. Fields(m) = FieldsOf("error", m.kind) /\ m.kind # "absent"
        BY <2>1, ErrorFields
    <2>3. Fields(m) = {"code", "message", "retry_after_seconds"}
        BY <2>2 DEF FieldsOf
    <2> QED BY <1>2, <2>2, <2>3 DEF IdFields
<1>3. CASE t = "event"
    <2>1. m \in CoreEvent
        BY <1>3 DEF Messages
    <2>2. EventIs(m)
        BY <2>1, EventShapes
    <2>3. Fields(m) = FieldsOf("event", m.kind) /\ m.kind # "absent"
        BY <2>2 DEF EventIs
    <2>4. ASSUME NEW f \in Fields(m) \cap IdFields PROVE m[f] \in WireId
        <3>1. f \in {"id", "timer_id", "message_id"} /\ f \in FieldsOf("event", m.kind)
            BY <2>3, <2>4 DEF IdFields
        <3>2. \/ m.kind \in {"TimerCancelled", "TimerExpired", "ChatMessageReceived"} /\ f = "id"
              \/ m.kind = "WarningThresholdReached" /\ f = "timer_id"
            BY <3>1 DEF FieldsOf
        <3> QED BY <2>2, <3>2 DEF EventIs
    <2> QED BY <1>3, <2>3, <2>4
<1> QED BY <1>1, <1>2, <1>3

LEMMA WantedFields ==
    ASSUME NEW t \in {"response", "error", "event"}, NEW m \in Messages(t)
    PROVE  m.kind \in Kinds(t) /\ Fields(Sample(t, m.kind)) = Fields(m)
<1>1. m.kind \in Kinds(t)
    BY DEF Kinds
<1>2. PICK n : n = Sample(t, m.kind)
    OBVIOUS
<1>3. PICK M : M = Messages(t)
    OBVIOUS
<1>4. n = CHOOSE x \in M : x.kind = m.kind
    BY <1>2, <1>3 DEF Sample
<1>5. n \in M /\ n.kind = m.kind
    BY <1>3, <1>4
<1>6. Fields(n) = FieldsOf(t, n.kind) /\ Fields(m) = FieldsOf(t, m.kind)
    BY <1>3, <1>5, MessageFields
<1> QED BY <1>1, <1>2, <1>5, <1>6

\* Records that are told apart by their fields.
LEMMA Shapes ==
    ASSUME NEW k, NEW a
    PROVE  /\ ~IsErr([kind |-> k, args |-> a]) /\ [kind |-> k, args |-> a] # NotObject
           /\ [kind |-> k, args |-> a] # NoBody
<1>1. DOMAIN [kind |-> k, args |-> a] = {"kind", "args"}
    OBVIOUS
<1>2. DOMAIN NotObject = {"class"} /\ DOMAIN NoBody = {"class"}
    BY DEF NotObject, NoBody
<1>3. "kind" \notin {"class"} /\ "kind" \in {"kind", "args"} /\ "err" \notin {"kind", "args"}
    OBVIOUS
<1> QED BY <1>1, <1>2, <1>3, Zenon DEF IsErr

LEMMA Errors1 == \A c : IsErr(Err(c)) /\ Err(c).err = c
BY DEF IsErr, Err

\* serde and decode_*_frame read what the encoder wrote.
LEMMA TypedReads ==
    ASSUME NEW t \in {"response", "error", "event"}, NEW m \in Messages(t)
    PROVE  typed(t, Dto(m)) = Dto(m)
<1> DEFINE b == Dto(m)
<1>1. PICK a : a = [f \in Fields(m) |-> field_dto(f, m[f])]
    OBVIOUS
<1>2. b = [kind |-> m.kind, args |-> a]
    BY <1>1, Zenon DEF Dto
<1> HIDE DEF b
<1>3. b.kind = m.kind /\ b.args = a /\ DOMAIN a = Fields(m) /\ b # NotObject
    BY <1>1, <1>2, Shapes
<1>4. Fields(Sample(t, b.kind)) = Fields(m) /\ b.kind \in Kinds(t) /\ b.kind # "absent"
    BY <1>3, WantedFields, MessageFields
<1>5. \A f \in Fields(m) : a[f] \notin {Wrong, OverU32}
    BY <1>1, MarksDistinct
<1>6. ASSUME NEW f \in Fields(m) \cap IdFields PROVE ~IsErr(decode_hex_16(a[f]))
    <2>1. m[f] \in WireId
        BY MessageFields
    <2>2. a[f] = encode_hex_16(m[f])
        BY <1>1, IdField DEF IdFields
    <2>3. decode_hex_16(a[f]) = [id |-> m[f]]
        BY <2>1, <2>2, IdDigits
    <2>4. DOMAIN [id |-> m[f]] = {"id"}
        OBVIOUS
    <2> QED BY <2>3, <2>4 DEF IsErr
<1>7. [f \in Fields(m) |-> a[f]] = a
    BY <1>1
<1>8. typed(t, b) = [kind |-> b.kind, args |-> [f \in Fields(m) |-> a[f]]]
    <2>1. PICK w : w = Fields(Sample(t, b.kind))
        OBVIOUS
    <2>2. /\ w = Fields(m) /\ DOMAIN b.args \subseteq w /\ w \subseteq DOMAIN b.args
          /\ ~\E f \in w : b.args[f] \in {Wrong, OverU32}
          /\ ~\E f \in w \cap IdFields : IsErr(decode_hex_16(b.args[f]))
        BY <1>3, <1>4, <1>5, <1>6, <2>1
    <2>3. typed(t, b) = [kind |-> b.kind, args |-> [f \in w |-> b.args[f]]]
        BY <1>3, <1>4, <2>1, <2>2 DEF typed
    <2> QED BY <1>3, <2>2, <2>3
<1> QED BY <1>2, <1>3, <1>7, <1>8 DEF b

-----------------------------------------------------------------------------
\* A document field by field, and the checks of its envelope.
Full(l, u, s, dp, x, v, ty, b) ==
    [len |-> l, utf8 |-> u, shape |-> s, dup |-> dp, extra |-> x, version |-> v, type |-> ty, body |-> b]

LEMMA FullFields ==
    ASSUME NEW d, NEW l, NEW u, NEW s, NEW dp, NEW x, NEW v, NEW ty, NEW b,
           d = Full(l, u, s, dp, x, v, ty, b)
    PROVE  /\ d.len = l /\ d.utf8 = u /\ d.shape = s /\ d.dup = dp /\ d.extra = x /\ d.version = v
           /\ d.type = ty /\ d.body = b
BY DEF Full

\* What the checks ask of a document as it was sent.
Sent(t, d) ==
    /\ d.len \in 1..Limit(t) /\ d.utf8 = TRUE /\ d.shape = "object" /\ d.dup = "none"
    /\ d.extra = FALSE /\ d.version = "one" /\ d.type = t /\ d.body # NoBody
    /\ d = Full(d.len, d.utf8, d.shape, d.dup, d.extra, d.version, d.type, d.body)

LEMMA DocumentSent ==
    ASSUME NEW t, NEW l \in 1..Limit(t), NEW b, b # NoBody
    PROVE  Sent(t, Document(t, l, b)) /\ Document(t, l, b).body = b
<1>1. PICK d : d = Document(t, l, b)
    OBVIOUS
<1>2. /\ d.len = l /\ d.utf8 = TRUE /\ d.shape = "object" /\ d.dup = "none" /\ d.extra = FALSE
      /\ d.version = "one" /\ d.type = t /\ d.body = b
    BY <1>1 DEF Document
<1>3. d = Full(d.len, d.utf8, d.shape, d.dup, d.extra, d.version, d.type, d.body)
    BY <1>1 DEF Document, Full
<1>4. Sent(t, d)
    BY <1>2, <1>3, Zenon DEF Sent
<1> QED BY <1>1, <1>2, <1>4, Zenon

LEMMA Lengths ==
    ASSUME NEW t \in {"request", "response", "error", "event"}, NEW l \in 1..Limit(t)
    PROVE  validate_frame_length(t, l) = "Ok" /\ l # 0
<1>1. Limit(t) \in Nat
    BY DEF Limit, MAX_REQUEST_BYTES, MAX_RESPONSE_BYTES
<1> QED BY <1>1 DEF validate_frame_length

LEMMA SentIsOk ==
    ASSUME NEW t \in {"request", "response", "error", "event"}, NEW d, Sent(t, d)
    PROVE  envelope(d, t) = "Ok"
<1>1. validate_raw_version_field("one") = "Ok"
    BY DEF validate_raw_version_field, Unreadable
<1>2. validate_frame_length(t, d.len) = "Ok" /\ d.len # 0
    BY Lengths, Zenon DEF Sent
<1> QED BY <1>1, <1>2, Zenon DEF envelope, Sent, check_no_duplicate_keys

-----------------------------------------------------------------------------
\* One field of a document changed.
LEMMA FullWith ==
    ASSUME NEW d, NEW l, NEW u, NEW s, NEW dp, NEW x, NEW v, NEW ty, NEW b, NEW w,
           d = Full(l, u, s, dp, x, v, ty, b)
    PROVE  /\ [d EXCEPT !.len = w] = Full(w, u, s, dp, x, v, ty, b)
           /\ [d EXCEPT !.utf8 = w] = Full(l, w, s, dp, x, v, ty, b)
           /\ [d EXCEPT !.shape = w] = Full(l, u, w, dp, x, v, ty, b)
           /\ [d EXCEPT !.dup = w] = Full(l, u, s, w, x, v, ty, b)
           /\ [d EXCEPT !.extra = w] = Full(l, u, s, dp, w, v, ty, b)
           /\ [d EXCEPT !.version = w] = Full(l, u, s, dp, x, w, ty, b)
           /\ [d EXCEPT !.type = w] = Full(l, u, s, dp, x, v, w, b)
           /\ [d EXCEPT !.body = w] = Full(l, u, s, dp, x, v, ty, w)
           /\ d.body = b
<1>1. [d EXCEPT !.len = w] = Full(w, u, s, dp, x, v, ty, b)
    BY DEF Full
<1>2. [d EXCEPT !.utf8 = w] = Full(l, w, s, dp, x, v, ty, b)
    BY DEF Full
<1>3. [d EXCEPT !.shape = w] = Full(l, u, w, dp, x, v, ty, b)
    BY DEF Full
<1>4. [d EXCEPT !.dup = w] = Full(l, u, s, w, x, v, ty, b)
    BY DEF Full
<1>5. [d EXCEPT !.extra = w] = Full(l, u, s, dp, w, v, ty, b)
    BY DEF Full
<1>6. [d EXCEPT !.version = w] = Full(l, u, s, dp, x, w, ty, b)
    BY DEF Full
<1>7. [d EXCEPT !.type = w] = Full(l, u, s, dp, x, v, w, b)
    BY DEF Full
<1>8. [d EXCEPT !.body = w] = Full(l, u, s, dp, x, v, ty, w)
    BY DEF Full
<1>9. d.body = b
    BY DEF Full
<1> QED BY <1>1, <1>2, <1>3, <1>4, <1>5, <1>6, <1>7, <1>8, <1>9, Zenon

\* The faults of the envelope, each with the document it makes.
EnvelopeFault(y, q, l, u, s, dp, x, v, ty, b) ==
    \/ y = "empty" /\ q = Full(0, u, s, dp, x, v, ty, b)
    \/ y = "oversize" /\ q = Full(Limit(type) + 1, u, s, dp, x, v, ty, b)
    \/ y = "bad_utf8" /\ q = Full(l, FALSE, s, dp, x, v, ty, b)
    \/ y = "broken" /\ q = Full(l, u, "broken", dp, x, v, ty, b)
    \/ y = "not_object" /\ q = Full(l, u, "scalar", dp, x, v, ty, b)
    \/ y = "duplicate" /\ q = Full(l, u, s, "top", x, v, ty, b)
    \/ y = "duplicate" /\ q = Full(l, u, s, "nested", x, v, ty, b)
    \/ y = "unknown_top" /\ q = Full(l, u, s, dp, TRUE, v, ty, b)
    \/ y = "no_version" /\ q = Full(l, u, s, dp, x, "absent", ty, b)
    \/ y = "no_type" /\ q = Full(l, u, s, dp, x, v, "absent", b)
    \/ y = "other_type" /\ q = Full(l, u, s, dp, x, v, "wrong", b)
    \/ y = "no_body" /\ q = Full(l, u, s, dp, x, v, ty, NoBody)
    \/ y = "version_no_integer" /\ \E w \in VersionFaults \cap {"float", "string"} :
          q = Full(l, u, s, dp, x, w, ty, b)
    \/ y = "version_too_wide" /\ q = Full(l, u, s, dp, x, "beyond_64_bits", ty, b)
    \/ y = "other_version" /\ \E w \in VersionFaults \ Unreadable : q = Full(l, u, s, dp, x, w, ty, b)

LEMMA EnvelopeFaultsAre ==
    ASSUME NEW d, NEW l, NEW u, NEW s, NEW dp, NEW x, NEW v, NEW ty, NEW b,
           d = Full(l, u, s, dp, x, v, ty, b), NEW e \in EnvelopeFaults(d)
    PROVE  EnvelopeFault(e[1], e[2], l, u, s, dp, x, v, ty, b)
<1> DEFINE P(y, q) == EnvelopeFault(y, q, l, u, s, dp, x, v, ty, b)
<1>1. ASSUME NEW y, NEW q, e = <<y, q>>, P(y, q) PROVE P(e[1], e[2])
    <2>1. e[1] = y /\ e[2] = q
        BY <1>1
    <2> QED BY <1>1, <2>1, Zenon
<1>10. ASSUME e = <<"empty", [d EXCEPT !.len = 0]>> PROVE P(e[1], e[2])
    <2>1. PICK w : w = (0)
        OBVIOUS
    <2>2. [d EXCEPT !.len = w] = Full(w, u, s, dp, x, v, ty, b)
        BY DEF Full
    <2>3. PICK q : q = [d EXCEPT !.len = w]
        OBVIOUS
    <2>4. P("empty", q)
        BY <2>1, <2>2, <2>3, Zenon DEF EnvelopeFault
    <2>5. e = <<"empty", q>>
        BY <1>10, <2>1, <2>3, Zenon
    <2> QED BY <1>1, <2>4, <2>5
<1>11. ASSUME e = <<"oversize", [d EXCEPT !.len = Limit(type) + 1]>> PROVE P(e[1], e[2])
    <2>1. PICK w : w = (Limit(type) + 1)
        OBVIOUS
    <2>2. [d EXCEPT !.len = w] = Full(w, u, s, dp, x, v, ty, b)
        BY DEF Full
    <2>3. PICK q : q = [d EXCEPT !.len = w]
        OBVIOUS
    <2>4. P("oversize", q)
        BY <2>1, <2>2, <2>3, Zenon DEF EnvelopeFault
    <2>5. e = <<"oversize", q>>
        BY <1>11, <2>1, <2>3, Zenon
    <2> QED BY <1>1, <2>4, <2>5
<1>12. ASSUME e = <<"bad_utf8", [d EXCEPT !.utf8 = FALSE]>> PROVE P(e[1], e[2])
    <2>1. PICK w : w = (FALSE)
        OBVIOUS
    <2>2. [d EXCEPT !.utf8 = w] = Full(l, w, s, dp, x, v, ty, b)
        BY DEF Full
    <2>3. PICK q : q = [d EXCEPT !.utf8 = w]
        OBVIOUS
    <2>4. P("bad_utf8", q)
        BY <2>1, <2>2, <2>3, Zenon DEF EnvelopeFault
    <2>5. e = <<"bad_utf8", q>>
        BY <1>12, <2>1, <2>3, Zenon
    <2> QED BY <1>1, <2>4, <2>5
<1>13. ASSUME e = <<"broken", [d EXCEPT !.shape = "broken"]>> PROVE P(e[1], e[2])
    <2>1. PICK w : w = ("broken")
        OBVIOUS
    <2>2. [d EXCEPT !.shape = w] = Full(l, u, w, dp, x, v, ty, b)
        BY DEF Full
    <2>3. PICK q : q = [d EXCEPT !.shape = w]
        OBVIOUS
    <2>4. P("broken", q)
        BY <2>1, <2>2, <2>3, Zenon DEF EnvelopeFault
    <2>5. e = <<"broken", q>>
        BY <1>13, <2>1, <2>3, Zenon
    <2> QED BY <1>1, <2>4, <2>5
<1>14. ASSUME e = <<"not_object", [d EXCEPT !.shape = "scalar"]>> PROVE P(e[1], e[2])
    <2>1. PICK w : w = ("scalar")
        OBVIOUS
    <2>2. [d EXCEPT !.shape = w] = Full(l, u, w, dp, x, v, ty, b)
        BY DEF Full
    <2>3. PICK q : q = [d EXCEPT !.shape = w]
        OBVIOUS
    <2>4. P("not_object", q)
        BY <2>1, <2>2, <2>3, Zenon DEF EnvelopeFault
    <2>5. e = <<"not_object", q>>
        BY <1>14, <2>1, <2>3, Zenon
    <2> QED BY <1>1, <2>4, <2>5
<1>15. ASSUME e = <<"duplicate", [d EXCEPT !.dup = "top"]>> PROVE P(e[1], e[2])
    <2>1. PICK w : w = ("top")
        OBVIOUS
    <2>2. [d EXCEPT !.dup = w] = Full(l, u, s, w, x, v, ty, b)
        BY DEF Full
    <2>3. PICK q : q = [d EXCEPT !.dup = w]
        OBVIOUS
    <2>4. P("duplicate", q)
        BY <2>1, <2>2, <2>3, Zenon DEF EnvelopeFault
    <2>5. e = <<"duplicate", q>>
        BY <1>15, <2>1, <2>3, Zenon
    <2> QED BY <1>1, <2>4, <2>5
<1>16. ASSUME e = <<"duplicate", [d EXCEPT !.dup = "nested"]>> PROVE P(e[1], e[2])
    <2>1. PICK w : w = ("nested")
        OBVIOUS
    <2>2. [d EXCEPT !.dup = w] = Full(l, u, s, w, x, v, ty, b)
        BY DEF Full
    <2>3. PICK q : q = [d EXCEPT !.dup = w]
        OBVIOUS
    <2>4. P("duplicate", q)
        BY <2>1, <2>2, <2>3, Zenon DEF EnvelopeFault
    <2>5. e = <<"duplicate", q>>
        BY <1>16, <2>1, <2>3, Zenon
    <2> QED BY <1>1, <2>4, <2>5
<1>17. ASSUME e = <<"unknown_top", [d EXCEPT !.extra = TRUE]>> PROVE P(e[1], e[2])
    <2>1. PICK w : w = (TRUE)
        OBVIOUS
    <2>2. [d EXCEPT !.extra = w] = Full(l, u, s, dp, w, v, ty, b)
        BY DEF Full
    <2>3. PICK q : q = [d EXCEPT !.extra = w]
        OBVIOUS
    <2>4. P("unknown_top", q)
        BY <2>1, <2>2, <2>3, Zenon DEF EnvelopeFault
    <2>5. e = <<"unknown_top", q>>
        BY <1>17, <2>1, <2>3, Zenon
    <2> QED BY <1>1, <2>4, <2>5
<1>18. ASSUME e = <<"no_version", [d EXCEPT !.version = "absent"]>> PROVE P(e[1], e[2])
    <2>1. PICK w : w = ("absent")
        OBVIOUS
    <2>2. [d EXCEPT !.version = w] = Full(l, u, s, dp, x, w, ty, b)
        BY DEF Full
    <2>3. PICK q : q = [d EXCEPT !.version = w]
        OBVIOUS
    <2>4. P("no_version", q)
        BY <2>1, <2>2, <2>3, Zenon DEF EnvelopeFault
    <2>5. e = <<"no_version", q>>
        BY <1>18, <2>1, <2>3, Zenon
    <2> QED BY <1>1, <2>4, <2>5
<1>19. ASSUME e = <<"no_type", [d EXCEPT !.type = "absent"]>> PROVE P(e[1], e[2])
    <2>1. PICK w : w = ("absent")
        OBVIOUS
    <2>2. [d EXCEPT !.type = w] = Full(l, u, s, dp, x, v, w, b)
        BY DEF Full
    <2>3. PICK q : q = [d EXCEPT !.type = w]
        OBVIOUS
    <2>4. P("no_type", q)
        BY <2>1, <2>2, <2>3, Zenon DEF EnvelopeFault
    <2>5. e = <<"no_type", q>>
        BY <1>19, <2>1, <2>3, Zenon
    <2> QED BY <1>1, <2>4, <2>5
<1>20. ASSUME e = <<"other_type", [d EXCEPT !.type = "wrong"]>> PROVE P(e[1], e[2])
    <2>1. PICK w : w = ("wrong")
        OBVIOUS
    <2>2. [d EXCEPT !.type = w] = Full(l, u, s, dp, x, v, w, b)
        BY DEF Full
    <2>3. PICK q : q = [d EXCEPT !.type = w]
        OBVIOUS
    <2>4. P("other_type", q)
        BY <2>1, <2>2, <2>3, Zenon DEF EnvelopeFault
    <2>5. e = <<"other_type", q>>
        BY <1>20, <2>1, <2>3, Zenon
    <2> QED BY <1>1, <2>4, <2>5
<1>21. ASSUME e = <<"no_body", [d EXCEPT !.body = NoBody]>> PROVE P(e[1], e[2])
    <2>1. PICK w : w = (NoBody)
        OBVIOUS
    <2>2. [d EXCEPT !.body = w] = Full(l, u, s, dp, x, v, ty, w)
        BY DEF Full
    <2>3. PICK q : q = [d EXCEPT !.body = w]
        OBVIOUS
    <2>4. P("no_body", q)
        BY <2>1, <2>2, <2>3, Zenon DEF EnvelopeFault
    <2>5. e = <<"no_body", q>>
        BY <1>21, <2>1, <2>3, Zenon
    <2> QED BY <1>1, <2>4, <2>5
<1>3. ASSUME NEW w \in VersionFaults PROVE P(version_fault(w), [d EXCEPT !.version = w])
    <2>1. [d EXCEPT !.version = w] = Full(l, u, s, dp, x, w, ty, b)
        BY DEF Full
    <2>2. CASE w \in {"float", "string"}
        <3>1. version_fault(w) = "version_no_integer"
            BY <2>2 DEF version_fault
        <3> QED BY <2>1, <2>2, <3>1, Zenon DEF EnvelopeFault
    <2>3. CASE w = "beyond_64_bits"
        <3>1. version_fault(w) = "version_too_wide"
            BY <2>3 DEF version_fault
        <3> QED BY <2>1, <2>3, <3>1, Zenon DEF EnvelopeFault
    <2>4. CASE w \notin Unreadable
        <3>1. version_fault(w) = "other_version"
            BY <2>4 DEF version_fault, Unreadable
        <3> QED BY <2>1, <2>4, <3>1, Zenon DEF EnvelopeFault
    <2> QED BY <2>2, <2>3, <2>4 DEF Unreadable
<1> HIDE DEF P
<1>4. ASSUME NEW w \in VersionFaults, e = <<version_fault(w), [d EXCEPT !.version = w]>> PROVE P(e[1], e[2])
    <2>1. PICK q : q = [d EXCEPT !.version = w]
        OBVIOUS
    <2>2. P(version_fault(w), q) /\ e = <<version_fault(w), q>>
        BY <1>3, <1>4, <2>1, Zenon
    <2> QED BY <1>1, <2>2
<1>5. \/ e = <<"empty", [d EXCEPT !.len = 0]>> \/ e = <<"oversize", [d EXCEPT !.len = Limit(type) + 1]>>
      \/ e = <<"bad_utf8", [d EXCEPT !.utf8 = FALSE]>> \/ e = <<"broken", [d EXCEPT !.shape = "broken"]>>
      \/ e = <<"not_object", [d EXCEPT !.shape = "scalar"]>>
      \/ e = <<"duplicate", [d EXCEPT !.dup = "top"]>> \/ e = <<"duplicate", [d EXCEPT !.dup = "nested"]>>
      \/ e = <<"unknown_top", [d EXCEPT !.extra = TRUE]>> \/ e = <<"no_version", [d EXCEPT !.version = "absent"]>>
      \/ e = <<"no_type", [d EXCEPT !.type = "absent"]>> \/ e = <<"other_type", [d EXCEPT !.type = "wrong"]>>
      \/ e = <<"no_body", [d EXCEPT !.body = NoBody]>>
      \/ \E w \in VersionFaults : e = <<version_fault(w), [d EXCEPT !.version = w]>>
    BY DEF EnvelopeFaults
<1>6. P(e[1], e[2])
    BY <1>10, <1>11, <1>12, <1>13, <1>14, <1>15, <1>16, <1>17, <1>18, <1>19, <1>20, <1>21, <1>4, <1>5, Zenon
<1> QED BY <1>6 DEF P

\* A document whose envelope has one thing wrong is refused for it: a request
\* always, a message of the service for the faults the documents name.
LEMMA EnvelopeRefuses ==
    ASSUME NEW d, type \in {"request", "response", "error", "event"}, Sent(type, d),
           NEW e \in EnvelopeFaults(d),
           type = "request" \/ e[1] \in {"no_version", "other_version", "version_too_wide", "duplicate", "unknown_top"}
    PROVE  envelope(e[2], type) = Refusal(e[1]) /\ envelope(e[2], type) # "Ok"
<1> DEFINE l == d.len  u == d.utf8  s == d.shape  dp == d.dup  x == d.extra  v == d.version  ty == d.type  b == d.body
<1>1. EnvelopeFault(e[1], e[2], l, u, s, dp, x, v, ty, b)
    BY EnvelopeFaultsAre, Zenon DEF Sent
<1>2. /\ l \in 1..Limit(type) /\ u = TRUE /\ s = "object" /\ dp = "none" /\ x = FALSE /\ v = "one" /\ ty = type
      /\ b # NoBody
    BY Zenon DEF Sent
<1>3. validate_frame_length(type, l) = "Ok" /\ l # 0
    BY <1>2, Lengths, Zenon
<1>4. validate_raw_version_field("one") = "Ok"
    BY DEF validate_raw_version_field, Unreadable
<1> HIDE DEF l, u, s, dp, x, v, ty, b
<1> DEFINE G == envelope(e[2], type) = Refusal(e[1]) /\ envelope(e[2], type) # "Ok"
<1>10. ASSUME e[1] = "empty", e[2] = Full(0, u, s, dp, x, v, ty, b) PROVE G
    <2>1. PICK q : q = e[2]
        OBVIOUS
    <2>2. q.len = 0 /\ q.utf8 = u /\ q.shape = s /\ q.dup = dp /\ q.extra = x /\ q.version = v /\ q.type = ty /\ q.body = b
        BY <1>10, <2>1 DEF Full
    <2>3. Refusal("empty") = "ProtocolError"
        BY DEF Refusal, Documented
    <2>4. validate_frame_length("request", 0) = "ProtocolError"
        BY DEF validate_frame_length, Limit, MAX_REQUEST_BYTES
    <2>5. type = "request"
        BY <1>10
    <2>6. envelope(q, type) = "ProtocolError"
        BY <2>2, <2>4, <2>5, Zenon DEF envelope
    <2> QED BY <1>10, <2>1, <2>3, <2>6, Zenon
<1>11. ASSUME e[1] = "oversize", e[2] = Full(Limit(type) + 1, u, s, dp, x, v, ty, b) PROVE G
    <2>1. PICK q : q = e[2]
        OBVIOUS
    <2>2. q.len = Limit(type) + 1 /\ q.utf8 = u /\ q.shape = s /\ q.dup = dp /\ q.extra = x /\ q.version = v /\ q.type = ty /\ q.body = b
        BY <1>11, <2>1 DEF Full
    <2>3. Refusal("oversize") = "FrameTooLarge"
        BY DEF Refusal, Documented
    <2>4. validate_frame_length("request", Limit("request") + 1) = "FrameTooLarge"
        BY DEF validate_frame_length, Limit, MAX_REQUEST_BYTES
    <2>5. type = "request"
        BY <1>11
    <2>6. envelope(q, type) = "FrameTooLarge"
        BY <2>2, <2>4, <2>5, Zenon DEF envelope
    <2> QED BY <1>11, <2>1, <2>3, <2>6, Zenon
<1>12. ASSUME e[1] = "bad_utf8", e[2] = Full(l, FALSE, s, dp, x, v, ty, b) PROVE G
    <2>1. PICK q : q = e[2]
        OBVIOUS
    <2>2. q.len = l /\ q.utf8 = FALSE /\ q.shape = s /\ q.dup = dp /\ q.extra = x /\ q.version = v /\ q.type = ty /\ q.body = b
        BY <1>12, <2>1 DEF Full
    <2>3. Refusal("bad_utf8") = "MalformedFrame"
        BY DEF Refusal, Documented
    <2>6. envelope(q, type) = "MalformedFrame"
        BY <1>2, <1>3, <1>4, <2>2, Zenon DEF envelope, check_no_duplicate_keys
    <2> QED BY <1>12, <2>1, <2>3, <2>6, Zenon
<1>13. ASSUME e[1] = "broken", e[2] = Full(l, u, "broken", dp, x, v, ty, b) PROVE G
    <2>1. PICK q : q = e[2]
        OBVIOUS
    <2>2. q.len = l /\ q.utf8 = u /\ q.shape = "broken" /\ q.dup = dp /\ q.extra = x /\ q.version = v /\ q.type = ty /\ q.body = b
        BY <1>13, <2>1 DEF Full
    <2>3. Refusal("broken") = "MalformedFrame"
        BY DEF Refusal, Documented
    <2>6. envelope(q, type) = "MalformedFrame"
        BY <1>2, <1>3, <1>4, <2>2, Zenon DEF envelope, check_no_duplicate_keys
    <2> QED BY <1>13, <2>1, <2>3, <2>6, Zenon
<1>14. ASSUME e[1] = "not_object", e[2] = Full(l, u, "scalar", dp, x, v, ty, b) PROVE G
    <2>1. PICK q : q = e[2]
        OBVIOUS
    <2>2. q.len = l /\ q.utf8 = u /\ q.shape = "scalar" /\ q.dup = dp /\ q.extra = x /\ q.version = v /\ q.type = ty /\ q.body = b
        BY <1>14, <2>1 DEF Full
    <2>3. Refusal("not_object") = "ProtocolError"
        BY DEF Refusal, Documented
    <2>6. envelope(q, type) = "ProtocolError"
        BY <1>2, <1>3, <1>4, <2>2, Zenon DEF envelope, check_no_duplicate_keys
    <2> QED BY <1>14, <2>1, <2>3, <2>6, Zenon
<1>15. ASSUME e[1] = "duplicate", e[2] = Full(l, u, s, "top", x, v, ty, b) PROVE G
    <2>1. PICK q : q = e[2]
        OBVIOUS
    <2>2. q.len = l /\ q.utf8 = u /\ q.shape = s /\ q.dup = "top" /\ q.extra = x /\ q.version = v /\ q.type = ty /\ q.body = b
        BY <1>15, <2>1 DEF Full
    <2>3. Refusal("duplicate") = "ProtocolError"
        BY DEF Refusal, Documented
    <2>6. envelope(q, type) = "ProtocolError"
        BY <1>2, <1>3, <1>4, <2>2, Zenon DEF envelope, check_no_duplicate_keys
    <2> QED BY <1>15, <2>1, <2>3, <2>6, Zenon
<1>16. ASSUME e[1] = "duplicate", e[2] = Full(l, u, s, "nested", x, v, ty, b) PROVE G
    <2>1. PICK q : q = e[2]
        OBVIOUS
    <2>2. q.len = l /\ q.utf8 = u /\ q.shape = s /\ q.dup = "nested" /\ q.extra = x /\ q.version = v /\ q.type = ty /\ q.body = b
        BY <1>16, <2>1 DEF Full
    <2>3. Refusal("duplicate") = "ProtocolError"
        BY DEF Refusal, Documented
    <2>6. envelope(q, type) = "ProtocolError"
        BY <1>2, <1>3, <1>4, <2>2, Zenon DEF envelope, check_no_duplicate_keys
    <2> QED BY <1>16, <2>1, <2>3, <2>6, Zenon
<1>17. ASSUME e[1] = "unknown_top", e[2] = Full(l, u, s, dp, TRUE, v, ty, b) PROVE G
    <2>1. PICK q : q = e[2]
        OBVIOUS
    <2>2. q.len = l /\ q.utf8 = u /\ q.shape = s /\ q.dup = dp /\ q.extra = TRUE /\ q.version = v /\ q.type = ty /\ q.body = b
        BY <1>17, <2>1 DEF Full
    <2>3. Refusal("unknown_top") = "ProtocolError"
        BY DEF Refusal, Documented
    <2>6. envelope(q, type) = "ProtocolError"
        BY <1>2, <1>3, <1>4, <2>2, Zenon DEF envelope, check_no_duplicate_keys
    <2> QED BY <1>17, <2>1, <2>3, <2>6, Zenon
<1>18. ASSUME e[1] = "no_version", e[2] = Full(l, u, s, dp, x, "absent", ty, b) PROVE G
    <2>1. PICK q : q = e[2]
        OBVIOUS
    <2>2. q.len = l /\ q.utf8 = u /\ q.shape = s /\ q.dup = dp /\ q.extra = x /\ q.version = "absent" /\ q.type = ty /\ q.body = b
        BY <1>18, <2>1 DEF Full
    <2>3. Refusal("no_version") = "ProtocolError"
        BY DEF Refusal, Documented
    <2>4. validate_raw_version_field("absent") = "ProtocolError"
        BY DEF validate_raw_version_field, Unreadable
    <2>6. envelope(q, type) = "ProtocolError"
        BY <1>2, <1>3, <1>4, <2>2, <2>4, Zenon DEF envelope, check_no_duplicate_keys
    <2> QED BY <1>18, <2>1, <2>3, <2>6, Zenon
<1>19. ASSUME e[1] = "no_type", e[2] = Full(l, u, s, dp, x, v, "absent", b) PROVE G
    <2>1. PICK q : q = e[2]
        OBVIOUS
    <2>2. q.len = l /\ q.utf8 = u /\ q.shape = s /\ q.dup = dp /\ q.extra = x /\ q.version = v /\ q.type = "absent" /\ q.body = b
        BY <1>19, <2>1 DEF Full
    <2>3. Refusal("no_type") = "ProtocolError"
        BY DEF Refusal, Documented
    <2>4. type # "absent"
        OBVIOUS
    <2>6. envelope(q, type) = "ProtocolError"
        BY <1>2, <1>3, <1>4, <2>2, <2>4, Zenon DEF envelope, check_no_duplicate_keys
    <2> QED BY <1>19, <2>1, <2>3, <2>6, Zenon
<1>20. ASSUME e[1] = "other_type", e[2] = Full(l, u, s, dp, x, v, "wrong", b) PROVE G
    <2>1. PICK q : q = e[2]
        OBVIOUS
    <2>2. q.len = l /\ q.utf8 = u /\ q.shape = s /\ q.dup = dp /\ q.extra = x /\ q.version = v /\ q.type = "wrong" /\ q.body = b
        BY <1>20, <2>1 DEF Full
    <2>3. Refusal("other_type") = "ProtocolError"
        BY DEF Refusal, Documented
    <2>4. type # "wrong"
        OBVIOUS
    <2>6. envelope(q, type) = "ProtocolError"
        BY <1>2, <1>3, <1>4, <2>2, <2>4, Zenon DEF envelope, check_no_duplicate_keys
    <2> QED BY <1>20, <2>1, <2>3, <2>6, Zenon
<1>21. ASSUME e[1] = "no_body", e[2] = Full(l, u, s, dp, x, v, ty, NoBody) PROVE G
    <2>1. PICK q : q = e[2]
        OBVIOUS
    <2>2. q.len = l /\ q.utf8 = u /\ q.shape = s /\ q.dup = dp /\ q.extra = x /\ q.version = v /\ q.type = ty /\ q.body = NoBody
        BY <1>21, <2>1 DEF Full
    <2>3. Refusal("no_body") = "ProtocolError"
        BY DEF Refusal, Documented
    <2>6. envelope(q, type) = "ProtocolError"
        BY <1>2, <1>3, <1>4, <2>2, Zenon DEF envelope, check_no_duplicate_keys
    <2> QED BY <1>21, <2>1, <2>3, <2>6, Zenon
<1>30. ASSUME e[1] = "version_no_integer", NEW w \in VersionFaults \cap {"float", "string"}, e[2] = Full(l, u, s, dp, x, w, ty, b) PROVE G
    <2>1. PICK q : q = e[2]
        OBVIOUS
    <2>2. q.len = l /\ q.utf8 = u /\ q.shape = s /\ q.dup = dp /\ q.extra = x /\ q.version = w /\ q.type = ty /\ q.body = b
        BY <1>30, <2>1 DEF Full
    <2>3. Refusal("version_no_integer") = "ProtocolError"
        BY DEF Refusal, Documented
    <2>4. validate_raw_version_field(w) = "ProtocolError"
        BY <1>30 DEF validate_raw_version_field, Unreadable
    <2>6. envelope(q, type) = "ProtocolError"
        BY <1>2, <1>3, <2>2, <2>4, Zenon DEF envelope, check_no_duplicate_keys
    <2> QED BY <1>30, <2>1, <2>3, <2>6, Zenon
<1>32. ASSUME e[1] = "version_too_wide", e[2] = Full(l, u, s, dp, x, "beyond_64_bits", ty, b) PROVE G
    <2>1. PICK q : q = e[2]
        OBVIOUS
    <2>2. /\ q.len = l /\ q.utf8 = u /\ q.shape = s /\ q.dup = dp /\ q.extra = x
          /\ q.version = "beyond_64_bits" /\ q.type = ty /\ q.body = b
        BY <1>32, <2>1 DEF Full
    <2>3. Refusal("version_too_wide") = "ProtocolError"
        BY DEF Refusal
    <2>4. validate_raw_version_field("beyond_64_bits") = "ProtocolError"
        BY DEF validate_raw_version_field, Unreadable
    <2>6. envelope(q, type) = "ProtocolError"
        BY <1>2, <1>3, <2>2, <2>4, Zenon DEF envelope, check_no_duplicate_keys
    <2> QED BY <1>32, <2>1, <2>3, <2>6, Zenon
<1>31. ASSUME e[1] = "other_version", NEW w \in VersionFaults \ Unreadable, e[2] = Full(l, u, s, dp, x, w, ty, b) PROVE G
    <2>1. PICK q : q = e[2]
        OBVIOUS
    <2>2. q.len = l /\ q.utf8 = u /\ q.shape = s /\ q.dup = dp /\ q.extra = x /\ q.version = w /\ q.type = ty /\ q.body = b
        BY <1>31, <2>1 DEF Full
    <2>3. Refusal("other_version") = "UnsupportedProtocolVersion"
        BY DEF Refusal, Documented
    <2>4. validate_raw_version_field(w) = "UnsupportedProtocolVersion"
        BY IpcBounds, <1>31 DEF validate_raw_version_field, Unreadable
    <2>6. envelope(q, type) = "UnsupportedProtocolVersion"
        BY <1>2, <1>3, <2>2, <2>4, Zenon DEF envelope, check_no_duplicate_keys
    <2> QED BY <1>31, <2>1, <2>3, <2>6, Zenon
<1> HIDE DEF G
<1>5. G
    BY <1>1, <1>10, <1>11, <1>12, <1>13, <1>14, <1>15, <1>16, <1>17, <1>18, <1>19, <1>20, <1>21, <1>30, <1>31, <1>32, Zenon DEF EnvelopeFault
<1> QED BY <1>5 DEF G

-----------------------------------------------------------------------------
\* The faults of a body, each with the body it makes.
BadBody(y, n, k, a) ==
    \/ y = "body_no_object" /\ n = NotObject
    \/ y = "unknown_field" /\ n = body(k, put(a, "extra", Wrong))
    \/ y = "no_kind" /\ n = body("absent", a)
    \/ y = "unknown_kind" /\ n = body("number", a)
    \/ y = "no_field" /\ \E f \in DOMAIN a : n = body(k, drop(a, f))
    \/ \E f \in DOMAIN a : y = wrong_value(f) /\ n = body(k, put(a, f, Wrong))
    \/ y = "bad_value" /\ \E f \in DOMAIN a \cap {"duration_minutes"} : n = body(k, put(a, f, OverU32))
    \/ y = "bad_value" /\ \E f \in DOMAIN a \cap IdFields : n = body(k, put(a, f, no_hex_16))
    \/ y = "bad_string" /\ "pin" \in DOMAIN a /\ \E s \in BadSpellings : n = body(k, put(a, "pin", s))
    \/ y = "respelt" /\ "pin" \in DOMAIN a /\ \E s \in Respellings : n = body(k, put(a, "pin", s))

LEMMA BadBodiesAre ==
    ASSUME NEW k, NEW a, NEW e \in BadBodies(k, a)
    PROVE  e = <<e[1], e[2]>> /\ BadBody(e[1], e[2], k, a)
<1> DEFINE P(y, n) == BadBody(y, n, k, a)
<1>1. ASSUME NEW y, NEW n, e = <<y, n>>, P(y, n) PROVE e = <<e[1], e[2]>> /\ P(e[1], e[2])
    <2>1. e[1] = y /\ e[2] = n
        BY <1>1
    <2> QED BY <1>1, <2>1, Zenon
<1>2. ASSUME NEW y, NEW n, e = <<y, n>>,
             \/ y = "body_no_object" /\ n = NotObject
             \/ y = "unknown_field" /\ n = body(k, put(a, "extra", Wrong))
             \/ y = "no_kind" /\ n = body("absent", a)
             \/ y = "unknown_kind" /\ n = body("number", a)
      PROVE  P(y, n)
    BY <1>2, Zenon DEF BadBody
<1>3. ASSUME NEW f \in DOMAIN a PROVE P("no_field", body(k, drop(a, f))) /\ P(wrong_value(f), body(k, put(a, f, Wrong)))
    BY Zenon DEF BadBody
<1>4. ASSUME NEW f \in DOMAIN a \cap {"duration_minutes"} PROVE P("bad_value", body(k, put(a, f, OverU32)))
    BY Zenon DEF BadBody
<1>5. ASSUME NEW f \in DOMAIN a \cap IdFields PROVE P("bad_value", body(k, put(a, f, no_hex_16)))
    BY Zenon DEF BadBody
<1>6. ASSUME "pin" \in DOMAIN a, NEW s \in BadSpellings PROVE P("bad_string", body(k, put(a, "pin", s)))
    BY <1>6, Zenon DEF BadBody
<1>7. ASSUME "pin" \in DOMAIN a, NEW s \in Respellings PROVE P("respelt", body(k, put(a, "pin", s)))
    BY <1>7, Zenon DEF BadBody
<1>8. \E y, n : e = <<y, n>> /\ P(y, n)
    <2> HIDE DEF P
    <2>1. CASE e \in {<<"body_no_object", NotObject>>, <<"unknown_field", body(k, put(a, "extra", Wrong))>>}
        BY <1>2, <2>1, Zenon
    <2>2. CASE e \in {<<"no_kind", body("absent", a)>>, <<"unknown_kind", body("number", a)>>}
        BY <1>2, <2>2, Zenon
    <2>3. CASE e \in {<<"no_field", body(k, drop(a, f))>> : f \in DOMAIN a}
        BY <1>3, <2>3, Zenon
    <2>4. CASE e \in {<<wrong_value(f), body(k, put(a, f, Wrong))>> : f \in DOMAIN a}
        BY <1>3, <2>4, Zenon
    <2>5. CASE e \in {<<"bad_value", body(k, put(a, f, OverU32))>> : f \in DOMAIN a \cap {"duration_minutes"}}
        BY <1>4, <2>5, Zenon
    <2>6. CASE e \in {<<"bad_value", body(k, put(a, f, no_hex_16))>> : f \in DOMAIN a \cap IdFields}
        BY <1>5, <2>6, Zenon
    <2>7. CASE "pin" \in DOMAIN a /\ e \in {<<"bad_string", body(k, put(a, "pin", s))>> : s \in BadSpellings}
        BY <1>6, <2>7, Zenon
    <2>8. CASE "pin" \in DOMAIN a /\ e \in {<<"respelt", body(k, put(a, "pin", s))>> : s \in Respellings}
        BY <1>7, <2>8, Zenon
    <2>9. \/ e \in {<<"body_no_object", NotObject>>, <<"unknown_field", body(k, put(a, "extra", Wrong))>>}
          \/ e \in {<<"no_kind", body("absent", a)>>, <<"unknown_kind", body("number", a)>>}
          \/ e \in {<<"no_field", body(k, drop(a, f))>> : f \in DOMAIN a}
          \/ e \in {<<wrong_value(f), body(k, put(a, f, Wrong))>> : f \in DOMAIN a}
          \/ e \in {<<"bad_value", body(k, put(a, f, OverU32))>> : f \in DOMAIN a \cap {"duration_minutes"}}
          \/ e \in {<<"bad_value", body(k, put(a, f, no_hex_16))>> : f \in DOMAIN a \cap IdFields}
          \/ "pin" \in DOMAIN a /\ e \in {<<"bad_string", body(k, put(a, "pin", s))>> : s \in BadSpellings}
          \/ "pin" \in DOMAIN a /\ e \in {<<"respelt", body(k, put(a, "pin", s))>> : s \in Respellings}
        BY DEF BadBodies
    <2> QED BY <2>1, <2>2, <2>3, <2>4, <2>5, <2>6, <2>7, <2>8, <2>9
<1> QED BY <1>1, <1>8 DEF P

\* Every fault of a body leaves the envelope as it was.
LEMMA BodyFaultsAre ==
    ASSUME NEW d, NEW l, NEW u, NEW s, NEW dp, NEW x, NEW v, NEW ty, NEW k, NEW a,
           d = Full(l, u, s, dp, x, v, ty, body(k, a)), NEW e \in BodyFaults(d)
    PROVE  \E n : e[2] = Full(l, u, s, dp, x, v, ty, n) /\ BadBody(e[1], n, k, a)
<1>1. d.body = body(k, a)
    BY DEF Full
<1>2. d.body.kind = k /\ d.body.args = a
    BY <1>1 DEF body
<1>3. PICK z \in BadBodies(k, a) : e = <<z[1], [d EXCEPT !.body = z[2]]>>
    BY <1>2, Zenon DEF BodyFaults
<1>4. BadBody(z[1], z[2], k, a)
    BY BadBodiesAre, Zenon
<1>5. PICK y, n : y = z[1] /\ n = z[2]
    OBVIOUS
<1>6. [d EXCEPT !.body = n] = Full(l, u, s, dp, x, v, ty, n)
    BY DEF Full
<1>7. e = <<y, Full(l, u, s, dp, x, v, ty, n)>>
    BY <1>3, <1>5, <1>6, Zenon
<1>8. e[1] = y /\ e[2] = Full(l, u, s, dp, x, v, ty, n)
    BY <1>7
<1> QED BY <1>4, <1>5, <1>8, Zenon

-----------------------------------------------------------------------------
\* Spellings of one token and of two.
LEMMA OneToken ==
    ASSUME NEW t \in Token1
    PROVE  unescape_tokens(<<t>>) = unescape_token(NoTokens, t)
<1>1. PICK s : s = <<t>>
    OBVIOUS
<1>2. s \in Seq(Token1) /\ Len(s) = 1 /\ s[1] = t
    BY <1>1
<1>3. PICK f \in [0..Len(s) -> TokenAcc] :
          /\ f[0] = NoTokens /\ unescape_tokens(s) = f[Len(s)]
          /\ \A n \in 1..Len(s) : f[n] = unescape_token(f[n - 1], s[n])
    BY <1>2, TokenSteps
<1>4. 1 \in 1..Len(s) /\ 1 - 1 = 0
    BY <1>2
<1>5. f[1] = unescape_token(f[1 - 1], s[1])
    BY <1>3, <1>4, Zenon
<1>6. f[1] = unescape_token(NoTokens, t)
    BY <1>2, <1>3, <1>4, <1>5, Zenon
<1> QED BY <1>1, <1>2, <1>3, <1>6, Zenon

LEMMA TwoTokens ==
    ASSUME NEW t \in Token1, NEW w \in Token1
    PROVE  unescape_tokens(<<t, w>>) = unescape_token(unescape_token(NoTokens, t), w)
<1>1. PICK s : s = <<t, w>>
    OBVIOUS
<1>2. s \in Seq(Token1) /\ Len(s) = 2 /\ s[1] = t /\ s[2] = w
    BY <1>1
<1>3. PICK f \in [0..Len(s) -> TokenAcc] :
          /\ f[0] = NoTokens /\ unescape_tokens(s) = f[Len(s)]
          /\ \A n \in 1..Len(s) : f[n] = unescape_token(f[n - 1], s[n])
    BY <1>2, TokenSteps
<1>4. 1 \in 1..Len(s) /\ 2 \in 1..Len(s) /\ 1 - 1 = 0 /\ 2 - 1 = 1
    BY <1>2
<1>5. f[1] = unescape_token(f[1 - 1], s[1]) /\ f[2] = unescape_token(f[2 - 1], s[2])
    BY <1>3, <1>4, Zenon
<1>6. f[2] = unescape_token(unescape_token(NoTokens, t), w)
    BY <1>2, <1>3, <1>4, <1>5, Zenon
<1> QED BY <1>1, <1>2, <1>3, <1>6, Zenon

LEMMA Tokens == \A c \in Nat : {Raw(c), Short(c), U(c)} \subseteq Token1
BY DEF Raw, Short, U, Token1

LEMMA Halves ==
    /\ HighHalf \in High /\ HighHalf \notin Low /\ LowHalf \in Low /\ LowHalf \notin High
    /\ HighHalf \in Nat /\ LowHalf \in Nat /\ HighHalf # 0
BY SMT DEF HighHalf, LowHalf, High, Low

\* Tokens after which a PIN is refused, and the first half of a pair.
LEMMA TokenFails ==
    /\ unescape_token(NoTokens, Raw(1)).ok = FALSE
    /\ unescape_token(NoTokens, Short(97)).ok = FALSE
    /\ unescape_token(NoTokens, U(LowHalf)).ok = FALSE
    /\ unescape_token(NoTokens, U(HighHalf)).ok = TRUE /\ unescape_token(NoTokens, U(HighHalf)).hi = HighHalf
<1>1. NoTokens = [ok |-> TRUE, hi |-> 0, out |-> <<>>] /\ NoTokens.ok = TRUE /\ NoTokens.hi = 0
    BY DEF NoTokens
<1>2. [NoTokens EXCEPT !.ok = FALSE].ok = FALSE
    BY <1>1
<1>3. /\ [NoTokens EXCEPT !.hi = HighHalf].ok = TRUE /\ [NoTokens EXCEPT !.hi = HighHalf].hi = HighHalf
    BY <1>1
<1>4. unescape_token(NoTokens, Raw(1)).ok = FALSE
    <2>1. Raw(1).form = "raw" /\ Raw(1).code = 1
        BY DEF Raw
    <2>2. unescape_token(NoTokens, Raw(1)) = [NoTokens EXCEPT !.ok = FALSE]
        BY <1>1, <2>1 DEF unescape_token
    <2> QED BY <1>2, <2>2
<1>5. unescape_token(NoTokens, Short(97)).ok = FALSE
    <2>1. Short(97).form = "short" /\ Short(97).code = 97
        BY DEF Short
    <2>2. unescape_token(NoTokens, Short(97)) = [NoTokens EXCEPT !.ok = FALSE]
        BY <1>1, <2>1 DEF unescape_token, ShortEscapes
    <2> QED BY <1>2, <2>2
<1>6. unescape_token(NoTokens, U(LowHalf)).ok = FALSE
    <2>1. U(LowHalf).form = "u" /\ U(LowHalf).code = LowHalf
        BY DEF U
    <2>2. unescape_token(NoTokens, U(LowHalf)) = [NoTokens EXCEPT !.ok = FALSE]
        BY <1>1, <2>1, Halves, SMT DEF unescape_token
    <2> QED BY <1>2, <2>2
<1>7. unescape_token(NoTokens, U(HighHalf)) = [NoTokens EXCEPT !.hi = HighHalf]
    <2>1. U(HighHalf).form = "u" /\ U(HighHalf).code = HighHalf
        BY DEF U
    <2> QED BY <1>1, <2>1, Halves, SMT DEF unescape_token
<1> QED BY <1>3, <1>4, <1>5, <1>6, <1>7

LEMMA PairFails ==
    ASSUME NEW a \in TokenAcc, a.ok = TRUE, a.hi # 0, NEW t, ~pairs(t)
    PROVE  unescape_token(a, t).ok = FALSE
<1>1. [a EXCEPT !.ok = FALSE].ok = FALSE
    BY DEF TokenAcc
<1>2. unescape_token(a, t) = [a EXCEPT !.ok = FALSE]
    BY SMT DEF unescape_token
<1> QED BY <1>1, <1>2

\* None of the bad spellings is a PIN.
LEMMA BadSpellingsFail == \A s \in BadSpellings : unescape_pin_json_string(s) = Err("MalformedFrame")
<1>1. ASSUME NEW s, unescape_tokens(s).ok = FALSE \/ unescape_tokens(s).hi # 0
      PROVE  unescape_pin_json_string(s) = Err("MalformedFrame")
    BY <1>1, Zenon DEF unescape_pin_json_string
<1>2. Raw(1) \in Token1 /\ Short(97) \in Token1 /\ U(LowHalf) \in Token1 /\ U(HighHalf) \in Token1
      /\ Raw(65) \in Token1 /\ U(65) \in Token1
    BY Tokens, Halves
<1>3. PICK h \in TokenAcc : h = unescape_token(NoTokens, U(HighHalf))
    <2>1. NoTokens \in TokenAcc
        BY EmptySeq DEF NoTokens, TokenAcc
    <2> QED BY <1>2, <2>1, TokenTyped
<1>4. h.ok = TRUE /\ h.hi # 0
    BY <1>3, TokenFails, Halves
<1>5. unescape_tokens(<<Raw(1)>>).ok = FALSE
    BY <1>2, OneToken, TokenFails, Zenon
<1>6. unescape_tokens(<<Short(97)>>).ok = FALSE
    BY <1>2, OneToken, TokenFails, Zenon
<1>7. unescape_tokens(<<U(LowHalf)>>).ok = FALSE
    BY <1>2, OneToken, TokenFails, Zenon
<1>8. unescape_tokens(<<U(HighHalf)>>).hi # 0
    BY <1>2, <1>3, <1>4, OneToken, Zenon
<1>9. ~pairs(Raw(65)) /\ ~pairs(U(65))
    BY DEF pairs, Raw, U, Low
<1>10. unescape_tokens(<<U(HighHalf), Raw(65)>>).ok = FALSE
    <2>1. unescape_tokens(<<U(HighHalf), Raw(65)>>) = unescape_token(h, Raw(65))
        BY <1>2, <1>3, TwoTokens, Zenon
    <2> QED BY <1>4, <1>9, <2>1, PairFails, Zenon
<1>11. unescape_tokens(<<U(HighHalf), U(65)>>).ok = FALSE
    <2>1. unescape_tokens(<<U(HighHalf), U(65)>>) = unescape_token(h, U(65))
        BY <1>2, <1>3, TwoTokens, Zenon
    <2> QED BY <1>4, <1>9, <2>1, PairFails, Zenon
<1> QED BY <1>1, <1>5, <1>6, <1>7, <1>8, <1>10, <1>11, Zenon DEF BadSpellings

\* All of them are sequences of one token or two, what a PIN's spelling may be.
Spelling == {s \in Seq(Token1) : EnvelopeBytes + 6 * Len(s) <= MAX_REQUEST_BYTES}
LEMMA SpellingsAre == BadSpellings \cup Respellings \subseteq Spelling
<1>1. \A t \in Token1 : <<t>> \in Seq(Token1) /\ Len(<<t>>) = 1
    OBVIOUS
<1>2. \A t, w \in Token1 : <<t, w>> \in Seq(Token1) /\ Len(<<t, w>>) = 2
    OBVIOUS
<1>3. ASSUME NEW s \in Seq(Token1), Len(s) = 1 \/ Len(s) = 2 PROVE s \in Spelling
    <2>1. EnvelopeBytes + 6 * 1 <= MAX_REQUEST_BYTES /\ EnvelopeBytes + 6 * 2 <= MAX_REQUEST_BYTES
        BY SMT DEF EnvelopeBytes, MAX_REQUEST_BYTES
    <2> QED BY <1>3, <2>1, Zenon DEF Spelling
<1>4. Raw(1) \in Token1 /\ Short(97) \in Token1 /\ U(LowHalf) \in Token1 /\ U(HighHalf) \in Token1
      /\ Raw(65) \in Token1 /\ U(65) \in Token1 /\ Short(47) \in Token1
    BY Tokens, Halves
<1>5. \A s \in BadSpellings : s \in Spelling
    BY <1>1, <1>2, <1>3, <1>4, Zenon DEF BadSpellings
<1>6. \A s \in Respellings : s \in Spelling
    BY <1>1, <1>2, <1>3, <1>4, Zenon DEF Respellings
<1> QED BY <1>5, <1>6

-----------------------------------------------------------------------------
ArgName == {"pin", "text", "duration_minutes", "timer_id"}
LEMMA OneField == \A k \in RequestKind : allowed_fields(k) = {} \/ \E f \in ArgName : allowed_fields(k) = {f}
BY DEF RequestKind, allowed_fields, ArgName

LEMMA BodyIs ==
    ASSUME NEW k, NEW a
    PROVE  /\ body(k, a).kind = k /\ body(k, a).args = a /\ ~IsErr(body(k, a))
           /\ body(k, a) # NotObject /\ body(k, a) # NoBody
<1>1. body(k, a) = [kind |-> k, args |-> a]
    BY DEF body
<1>2. /\ ~IsErr([kind |-> k, args |-> a]) /\ [kind |-> k, args |-> a] # NotObject
      /\ [kind |-> k, args |-> a] # NoBody
    BY Shapes
<1> QED BY <1>1, <1>2

\* The exits of parse_request_payload_raw, in their order.
LEMMA Parse1 == parse_request_payload_raw(NotObject) = Err("ProtocolError")
BY Zenon DEF parse_request_payload_raw
LEMMA Parse2 ==
    ASSUME NEW k, NEW a, k \notin RequestKind
    PROVE  parse_request_payload_raw(body(k, a)) = Err("InvalidRequest")
<1>1. PICK b : b = body(k, a)
    OBVIOUS
<1>2. b.kind \notin RequestKind /\ b # NotObject
    BY <1>1, BodyIs
<1> QED BY <1>1, <1>2, Zenon DEF parse_request_payload_raw
LEMMA Parse3 ==
    ASSUME NEW k \in RequestKind, NEW a, ~(DOMAIN a \subseteq allowed_fields(k))
    PROVE  parse_request_payload_raw(body(k, a)) = Err("ProtocolError")
BY BodyIs, Zenon DEF parse_request_payload_raw, unknown_field
LEMMA Parse4 ==
    ASSUME NEW k \in RequestKind, NEW a, DOMAIN a \subseteq allowed_fields(k), ~(allowed_fields(k) \subseteq DOMAIN a)
    PROVE  parse_request_payload_raw(body(k, a)) = Err("InvalidRequest")
BY BodyIs, Zenon DEF parse_request_payload_raw, unknown_field, has_fields

\* What is left when the fields are the allowed ones.
Fetched(S, a) == [f \in S |-> from_json(f, a[f])]
Parsed(k, taken) ==
    IF \E f \in DOMAIN taken : IsErr(taken[f])
      THEN taken[CHOOSE f \in DOMAIN taken : IsErr(taken[f])]
      ELSE body(k, [f \in DOMAIN taken |-> value(taken[f])])
LEMMA Parse5 ==
    ASSUME NEW k \in RequestKind, NEW a, DOMAIN a = allowed_fields(k)
    PROVE  parse_request_payload_raw(body(k, a)) = Parsed(k, Fetched(allowed_fields(k), a))
<1>1. PICK b : b = body(k, a)
    OBVIOUS
<1>2. b.kind = k /\ b.args = a /\ b # NotObject
    BY <1>1, BodyIs
<1>3. ~unknown_field(b) /\ has_fields(b)
    BY <1>2 DEF unknown_field, has_fields
<1>4. parse_request_payload_raw(b) =
          LET taken == [f \in allowed_fields(b.kind) |-> from_json(f, b.args[f])]
          IN  IF \E f \in DOMAIN taken : IsErr(taken[f])
                THEN taken[CHOOSE f \in DOMAIN taken : IsErr(taken[f])]
                ELSE [kind |-> b.kind, args |-> [f \in DOMAIN taken |-> value(taken[f])]]
    BY <1>2, <1>3, Zenon DEF parse_request_payload_raw
<1> QED BY <1>1, <1>2, <1>4, Zenon DEF Parsed, Fetched, body

LEMMA Parse6 ==
    ASSUME NEW k \in RequestKind, NEW a, NEW f, allowed_fields(k) = {f}, DOMAIN a = {f}, IsErr(from_json(f, a[f]))
    PROVE  parse_request_payload_raw(body(k, a)) = from_json(f, a[f])
<1>1. PICK taken : taken = Fetched({f}, a)
    OBVIOUS
<1>2. DOMAIN taken = {f} /\ taken[f] = from_json(f, a[f])
    BY <1>1 DEF Fetched
<1>3. PICK h : h = CHOOSE g \in DOMAIN taken : IsErr(taken[g])
    OBVIOUS
<1>4. h = f
    BY <1>2, <1>3
<1>5. Parsed(k, taken) = taken[h]
    BY <1>2, <1>3, Zenon DEF Parsed
<1>6. parse_request_payload_raw(body(k, a)) = Parsed(k, taken)
    BY <1>1, Parse5, Zenon
<1> QED BY <1>2, <1>4, <1>5, <1>6, Zenon

LEMMA Parse7 ==
    ASSUME NEW k \in RequestKind, NEW a, DOMAIN a = allowed_fields(k),
           \A f \in allowed_fields(k) : ~IsErr(from_json(f, a[f]))
    PROVE  parse_request_payload_raw(body(k, a)) = body(k, [f \in allowed_fields(k) |-> value(from_json(f, a[f]))])
<1>1. PICK S : S = allowed_fields(k)
    OBVIOUS
<1>2. PICK taken : taken = Fetched(S, a)
    OBVIOUS
<1>3. DOMAIN taken = S /\ \A f \in S : taken[f] = from_json(f, a[f])
    BY <1>2 DEF Fetched
<1>4. ~\E f \in DOMAIN taken : IsErr(taken[f])
    BY <1>1, <1>3
<1>5. Parsed(k, taken) = body(k, [f \in DOMAIN taken |-> value(taken[f])])
    BY <1>4, Zenon DEF Parsed
<1>6. [f \in DOMAIN taken |-> value(taken[f])] = [f \in S |-> value(from_json(f, a[f]))]
    BY <1>3
<1>7. parse_request_payload_raw(body(k, a)) = Parsed(k, taken)
    BY <1>1, <1>2, Parse5, Zenon
<1> QED BY <1>1, <1>5, <1>6, <1>7, Zenon

LEMMA Value ==
    /\ \A w : value([pin |-> w]) = w /\ ~IsErr([pin |-> w])
    /\ \A w : value([id |-> w]) = w /\ ~IsErr([id |-> w])
    /\ \A w : value([plain |-> w]) = w /\ ~IsErr([plain |-> w])
<1>1. ASSUME NEW w PROVE value([pin |-> w]) = w /\ ~IsErr([pin |-> w])
    <2>1. PICK x : x = [pin |-> w]
        OBVIOUS
    <2>2. DOMAIN x = {"pin"} /\ x["pin"] = w
        BY <2>1
    <2>3. (CHOOSE k \in DOMAIN x : TRUE) = "pin"
        BY <2>2
    <2> QED BY <2>1, <2>2, <2>3 DEF value, IsErr
<1>2. ASSUME NEW w PROVE value([id |-> w]) = w /\ ~IsErr([id |-> w])
    <2>1. PICK x : x = [id |-> w]
        OBVIOUS
    <2>2. DOMAIN x = {"id"} /\ x["id"] = w
        BY <2>1
    <2>3. (CHOOSE k \in DOMAIN x : TRUE) = "id"
        BY <2>2
    <2> QED BY <2>1, <2>2, <2>3 DEF value, IsErr
<1>3. ASSUME NEW w PROVE value([plain |-> w]) = w /\ ~IsErr([plain |-> w])
    <2>1. PICK x : x = [plain |-> w]
        OBVIOUS
    <2>2. DOMAIN x = {"plain"} /\ x["plain"] = w
        BY <2>1
    <2>3. (CHOOSE k \in DOMAIN x : TRUE) = "plain"
        BY <2>2
    <2> QED BY <2>1, <2>2, <2>3 DEF value, IsErr
<1> QED BY <1>1, <1>2, <1>3

-----------------------------------------------------------------------------
\* A request is its kind and the one argument of the kind, if it has one.
RequestIs(r) ==
    /\ r.kind \in RequestKind /\ r = body(r.kind, r.args) /\ DOMAIN r.args = allowed_fields(r.kind)
    /\ r.args = [f \in DOMAIN r.args |-> r.args[f]]
    /\ \A f \in DOMAIN r.args : f \in ArgName /\ r.args[f] \in Argument(f)
LEMMA Requests == \A r \in Request : RequestIs(r)
<1>1. ASSUME NEW f \in ArgName, NEW r \in RequestsWith(f) PROVE RequestIs(r)
    <2>1. /\ r.kind \in RequestKind /\ allowed_fields(r.kind) = {f} /\ r.args \in [{f} -> Argument(f)]
          /\ r = [kind |-> r.kind, args |-> r.args]
        BY DEF RequestsWith
    <2>2. DOMAIN r.args = {f} /\ r.args = [g \in {f} |-> r.args[g]] /\ r.args[f] \in Argument(f)
        BY <2>1
    <2> QED BY <2>1, <2>2 DEF RequestIs, body
<1>2. ASSUME NEW r \in PlainRequests
      PROVE  RequestIs(r)
    <2>1. /\ r.kind \in RequestKind /\ allowed_fields(r.kind) = {} /\ r.args = NoFields
          /\ r = [kind |-> r.kind, args |-> r.args]
        BY DEF PlainRequests
    <2>2. DOMAIN r.args = {} /\ r.args = [g \in {} |-> r.args[g]]
        BY <2>1 DEF NoFields
    <2> QED BY <2>1, <2>2 DEF RequestIs, body
<1> SUFFICES ASSUME NEW r \in Request PROVE RequestIs(r)
    OBVIOUS
<1>3. CASE r \in PlainRequests
    BY <1>2, <1>3
<1>4. CASE r \notin PlainRequests
    <2>1. PICK M \in {RequestsWith(f) : f \in ArgName} : r \in M
        <3>1. PICK S : S = {RequestsWith(f) : f \in ArgName}
            OBVIOUS
        <3>2. Request = (UNION S) \cup PlainRequests
            BY <3>1, Zenon DEF Request, ArgName
        <3>3. r \in UNION S
            BY <1>4, <3>2
        <3> QED BY <3>1, <3>3
    <2>2. PICK f \in ArgName : M = RequestsWith(f)
        OBVIOUS
    <2> QED BY <1>1, <2>1, <2>2
<1> QED BY <1>3, <1>4

\* What a JSON writer makes of a request.
OnWire(r) == body(r.kind, [f \in DOMAIN r.args |-> to_json(f, r.args[f])])
Fitting(r) ==
    /\ \A f, g \in DOMAIN r.args : f = g
    /\ "pin" \in DOMAIN r.args => Len(r.args.pin) \in Nat /\ EnvelopeBytes + 6 * Len(r.args.pin) <= MAX_REQUEST_BYTES
    /\ "text" \in DOMAIN r.args => r.args.text.bytes \in Nat

LEMMA FieldLengths ==
    ASSUME NEW n \in Nat, EnvelopeBytes + 6 * n <= MAX_REQUEST_BYTES
    PROVE  EnvelopeBytes + 6 * n \in 1..MAX_REQUEST_BYTES
<1>1. EnvelopeBytes + 6 * n \in Int /\ EnvelopeBytes + 6 * n >= 1
    BY DEF EnvelopeBytes
<1>2. MAX_REQUEST_BYTES \in Int
    BY DEF MAX_REQUEST_BYTES
<1> QED BY <1>1, <1>2

LEMMA TextLengths ==
    ASSUME NEW n \in 1..MAX_CHAT_TEXT_UTF8_BYTES
    PROVE  EnvelopeBytes + 6 * n \in 1..MAX_REQUEST_BYTES
<1>1. n \in Nat /\ n <= 4096
    BY DEF MAX_CHAT_TEXT_UTF8_BYTES
<1>2. EnvelopeBytes + 6 * n \in Int /\ EnvelopeBytes + 6 * n <= 24704
    BY <1>1 DEF EnvelopeBytes
<1>3. \A x \in Int : x <= 24704 => x <= MAX_REQUEST_BYTES
    BY DEF MAX_REQUEST_BYTES
<1> QED BY <1>1, <1>2, <1>3, FieldLengths

LEMMA Fits ==
    ASSUME NEW r, Fitting(r), validate_message(r)
    PROVE  json_len(r) \in 1..Limit("request") /\ encode_request_frame(r) = Document("request", json_len(r), OnWire(r))
<1>1. Limit("request") = MAX_REQUEST_BYTES
    BY DEF Limit
<1>2. json_len(r) \in 1..MAX_REQUEST_BYTES
    <2>1. CASE "text" \in DOMAIN r.args
        <3>1. r.args.text.bytes \in 1..MAX_CHAT_TEXT_UTF8_BYTES
            <4>1. "duration_minutes" \notin DOMAIN r.args
                BY <2>1 DEF Fitting
            <4> QED BY <2>1, <4>1 DEF validate_message
        <3>2. json_len(r) = EnvelopeBytes + 6 * r.args.text.bytes
            <4>1. "pin" \notin DOMAIN r.args
                BY <2>1 DEF Fitting
            <4> QED BY <2>1, <4>1 DEF json_len
        <3> QED BY <3>1, <3>2, TextLengths, Zenon
    <2>2. CASE "pin" \in DOMAIN r.args
        <3>1. json_len(r) = EnvelopeBytes + 6 * Len(r.args.pin)
            <4>1. "text" \notin DOMAIN r.args
                BY <2>2 DEF Fitting
            <4> QED BY <2>2, <4>1 DEF json_len
        <3>2. PICK n : n = Len(r.args.pin)
            OBVIOUS
        <3>3. n \in Nat /\ EnvelopeBytes + 6 * n <= MAX_REQUEST_BYTES
            BY <2>2, <3>2, Zenon DEF Fitting
        <3>4. EnvelopeBytes + 6 * n \in 1..MAX_REQUEST_BYTES
            BY <3>3, FieldLengths, Zenon
        <3> QED BY <3>1, <3>2, <3>4, Zenon
    <2>3. CASE "text" \notin DOMAIN r.args /\ "pin" \notin DOMAIN r.args
        <3>1. json_len(r) = EnvelopeBytes + 0
            BY <2>3, Zenon DEF json_len
        <3> QED BY <3>1, SMT DEF EnvelopeBytes, MAX_REQUEST_BYTES
    <2> QED BY <2>1, <2>2, <2>3
<1>3. validate_frame_length("request", json_len(r)) = "Ok"
    BY <1>1, <1>2, Lengths, Zenon
<1>4. encode_request_frame(r) =
          Document("request", json_len(r),
                   [kind |-> r.kind, args |-> [f \in DOMAIN r.args |-> to_json(f, r.args[f])]])
    BY <1>3, Zenon DEF encode_request_frame
<1> QED BY <1>1, <1>2, <1>4, Zenon DEF OnWire, body

LEMMA WirePins == \A p \in WirePin : p \in Seq(Nat) /\ Len(p) \in 0..MaxPin
<1> SUFFICES ASSUME NEW p \in WirePin PROVE p \in Seq(Nat) /\ Len(p) \in 0..MaxPin
    OBVIOUS
<1>1. PICK n \in 0..MaxPin : p \in [1..n -> CodePoint]
    BY Zenon DEF WirePin
<1>2. MaxPin \in Nat /\ CodePoint \subseteq Nat
    BY IpcBounds
<1>3. n \in Nat /\ n \in 0..MaxPin
    BY <1>2
<1>4. \A i \in 1..n : p[i] \in Nat
    BY <1>1, <1>2
<1>5. p \in [1..n -> Nat]
    BY <1>1, <1>4
<1> QED BY <1>3, <1>5, FunctionIsSeq

LEMMA PinLengths == \A n \in 0..MaxPin : EnvelopeBytes + 6 * n <= MAX_REQUEST_BYTES
<1>1. MaxPin \in Nat
    BY IpcBounds
<1> QED BY <1>1, PinFits, SMT DEF EnvelopeBytes, MAX_REQUEST_BYTES

LEMMA RequestFits == \A r \in Request : Fitting(r)
<1> SUFFICES ASSUME NEW r \in Request PROVE Fitting(r)
    OBVIOUS
<1>1. RequestIs(r)
    BY Requests
<1>2. \A f, g \in DOMAIN r.args : f = g
    <2>1. DOMAIN r.args = {} \/ \E f \in ArgName : DOMAIN r.args = {f}
        BY <1>1, OneField DEF RequestIs
    <2> QED BY <2>1
<1>3. ASSUME "pin" \in DOMAIN r.args
      PROVE  Len(r.args.pin) \in Nat /\ EnvelopeBytes + 6 * Len(r.args.pin) <= MAX_REQUEST_BYTES
    <2>1. r.args["pin"] \in WirePin
        BY <1>1, <1>3 DEF RequestIs, Argument
    <2>2. Len(r.args["pin"]) \in 0..MaxPin
        BY <2>1, WirePins
    <2>3. MaxPin \in Nat
        BY IpcBounds
    <2> QED BY <2>2, <2>3, PinLengths
<1>4. ASSUME "text" \in DOMAIN r.args PROVE r.args.text.bytes \in Nat
    <2>1. r.args["text"] \in WireText
        BY <1>1, <1>4 DEF RequestIs, Argument
    <2> QED BY <2>1, SMT DEF WireText, MAX_CHAT_TEXT_UTF8_BYTES
<1> QED BY <1>2, <1>3, <1>4 DEF Fitting

\* An argument is read as it was.
LEMMA FieldRoundTrip ==
    ASSUME NEW f \in ArgName, NEW v \in Argument(f)
    PROVE  ~IsErr(from_json(f, to_json(f, v))) /\ value(from_json(f, to_json(f, v))) = v
<1>1. to_json(f, v) # Wrong /\ to_json(f, v) # OverU32
    BY MarksDistinct DEF ArgName
<1>2. CASE f = "pin"
    <2>1. v \in Seq(Nat)
        BY <1>2, WirePins DEF Argument
    <2>2. to_json(f, v) = escape(v)
        BY <1>2 DEF to_json
    <2>3. from_json(f, to_json(f, v)) = unescape_pin_json_string(to_json(f, v))
        BY <1>1, <1>2 DEF from_json
    <2>4. from_json(f, to_json(f, v)) = [pin |-> v]
        BY <2>1, <2>2, <2>3, PinRoundTrip, Zenon
    <2> QED BY <2>4, Value, Zenon
<1>3. CASE f = "timer_id"
    <2>1. v \in WireId
        BY <1>3 DEF Argument
    <2>2. to_json(f, v) = encode_hex_16(v)
        BY <1>3 DEF to_json
    <2>3. from_json(f, to_json(f, v)) = decode_hex_16(to_json(f, v))
        BY <1>1, <1>3 DEF from_json
    <2>4. from_json(f, to_json(f, v)) = [id |-> v]
        BY <2>1, <2>2, <2>3, IdDigits, Zenon
    <2> QED BY <2>4, Value, Zenon
<1>4. CASE f # "pin" /\ f # "timer_id"
    <2>1. to_json(f, v) = v
        BY <1>4 DEF to_json
    <2>2. from_json(f, to_json(f, v)) = [plain |-> v]
        BY <1>1, <1>4, <2>1 DEF from_json
    <2> QED BY <2>2, Value, Zenon
<1> QED BY <1>2, <1>3, <1>4

\* A request the sender lets pass is read as it was.
LEMMA RequestRoundTrip ==
    ASSUME NEW r \in Request, validate_message(r)
    PROVE  decode_request_frame(encode_request_frame(r)) = r
<1>1. RequestIs(r)
    BY Requests
<1>2. PICK k : k = r.kind
    OBVIOUS
<1>3. PICK S : S = DOMAIN r.args
    OBVIOUS
<1>4. PICK a : a = [f \in S |-> to_json(f, r.args[f])]
    OBVIOUS
<1>5. k \in RequestKind /\ S = allowed_fields(k) /\ DOMAIN a = S /\ OnWire(r) = body(k, a)
    BY <1>1, <1>2, <1>3, <1>4 DEF RequestIs, OnWire
<1>6. PICK d : d = Document("request", json_len(r), body(k, a))
    OBVIOUS
<1>7. d = encode_request_frame(r) /\ json_len(r) \in 1..Limit("request")
    BY <1>5, <1>6, RequestFits, Fits
<1>8. Sent("request", d) /\ d.body = body(k, a)
    BY <1>6, <1>7, BodyIs, DocumentSent
<1>9. envelope(d, "request") = "Ok"
    BY <1>8, SentIsOk, Zenon
<1>10. ASSUME NEW f \in S PROVE ~IsErr(from_json(f, a[f])) /\ value(from_json(f, a[f])) = r.args[f]
    <2>1. f \in ArgName /\ r.args[f] \in Argument(f) /\ a[f] = to_json(f, r.args[f])
        BY <1>1, <1>3, <1>4 DEF RequestIs
    <2> QED BY <2>1, FieldRoundTrip
<1>11. [f \in S |-> value(from_json(f, a[f]))] = r.args
    <2>1. [f \in S |-> value(from_json(f, a[f]))] = [f \in S |-> r.args[f]]
        BY <1>10
    <2> QED BY <1>1, <1>3, <2>1 DEF RequestIs
<1>12. parse_request_payload_raw(body(k, a)) = body(k, r.args)
    BY <1>5, <1>10, <1>11, Parse7
<1>13. parse_request_payload_raw(d.body) = r
    BY <1>1, <1>2, <1>8, <1>12 DEF RequestIs
<1>14. ~IsErr(r)
    BY <1>1, BodyIs DEF RequestIs
<1>15. decode_request_frame(d) = r
    BY <1>9, <1>13, <1>14, Zenon DEF decode_request_frame
<1> QED BY <1>7, <1>15

-----------------------------------------------------------------------------
\* The arguments of a kind, with one of them put in or taken out.
LEMMA PutIs ==
    ASSUME NEW a, NEW f, NEW w
    PROVE  DOMAIN put(a, f, w) = DOMAIN a \cup {f} /\ put(a, f, w)[f] = w
           /\ \A g \in DOMAIN a \ {f} : put(a, f, w)[g] = a[g]
BY DEF put
LEMMA DropIs == ASSUME NEW a, NEW f PROVE DOMAIN drop(a, f) = DOMAIN a \ {f} /\ \A g \in DOMAIN a \ {f} : drop(a, f)[g] = a[g]
BY DEF drop

\* What is read of a value of the wrong kind.
LEMMA BadValues ==
    /\ \A f : f = "pin" => from_json(f, Wrong) = Err("MalformedFrame")
    /\ \A f : f # "pin" => from_json(f, Wrong) = Err("InvalidRequest") /\ from_json(f, OverU32) = Err("InvalidRequest")
    /\ from_json("timer_id", no_hex_16) = Err("InvalidRequest")
    /\ \A s \in BadSpellings : from_json("pin", s) = Err("MalformedFrame")
<1>1. \A f : f = "pin" => from_json(f, Wrong) = Err("MalformedFrame")
    BY Zenon DEF from_json
<1>2. \A f : f # "pin" => from_json(f, Wrong) = Err("InvalidRequest") /\ from_json(f, OverU32) = Err("InvalidRequest")
    BY Zenon DEF from_json
<1>3. from_json("timer_id", no_hex_16) = Err("InvalidRequest")
    <2>1. PICK w : w = no_hex_16
        OBVIOUS
    <2>2. IdBytes \in Nat /\ IdBytes > 0
        BY IpcBounds
    <2>3. w \in [1..(2 * IdBytes) -> {16}] /\ 2 * IdBytes \in Nat
        BY <2>1, <2>2 DEF no_hex_16
    <2>4. Len(w) = 2 * IdBytes
        BY <2>3, FunctionIsSeq
    <2>5. 1 \in 1..Len(w) /\ w[1] = 16
        BY <2>2, <2>3, <2>4
    <2>6. ~(\A k \in 1..Len(w) : w[k] < 16)
        BY <2>5
    <2>7. decode_hex_16(w) = Err("InvalidRequest")
        BY <2>6, Zenon DEF decode_hex_16
    <2>8. CASE w = Wrong \/ w = OverU32
        BY <2>1, <2>8, <1>2
    <2>9. CASE w # Wrong /\ w # OverU32
        <3>1. from_json("timer_id", w) = decode_hex_16(w)
            BY <2>9 DEF from_json
        <3> QED BY <2>1, <2>7, <3>1
    <2> QED BY <2>8, <2>9
<1>4. ASSUME NEW s \in BadSpellings PROVE from_json("pin", s) = Err("MalformedFrame")
    <2>1. s # Wrong /\ s # OverU32
        BY MarksDistinct
    <2>2. from_json("pin", s) = unescape_pin_json_string(s)
        BY <2>1 DEF from_json
    <2> QED BY <2>2, BadSpellingsFail
<1> QED BY <1>1, <1>2, <1>3, <1>4

\* A request whose body has one thing wrong is refused for it.
LEMMA BodyRefuses ==
    ASSUME NEW k \in RequestKind, NEW a, DOMAIN a = allowed_fields(k), NEW y, NEW n, BadBody(y, n, k, a), y # "respelt"
    PROVE  parse_request_payload_raw(n) = Err(Refusal(y)) /\ n # NoBody
<1> DEFINE G == parse_request_payload_raw(n) = Err(Refusal(y)) /\ n # NoBody
<1> HIDE DEF G
<1>0. ASSUME NEW f \in DOMAIN a PROVE allowed_fields(k) = {f} /\ DOMAIN a = {f} /\ f \in ArgName
    BY OneField
<1>1. ASSUME y = "body_no_object", n = NotObject PROVE G
    <2>1. NotObject # NoBody
        BY DEF NotObject, NoBody
    <2> QED BY <1>1, <2>1, Parse1 DEF G, Refusal, Documented
<1>2. ASSUME y = "unknown_field", n = body(k, put(a, "extra", Wrong)) PROVE G
    <2>1. "extra" \notin allowed_fields(k)
        BY OneField DEF ArgName
    <2>4. DOMAIN put(a, "extra", Wrong) = DOMAIN a \cup {"extra"}
        BY PutIs, Zenon
    <2>2. ~(DOMAIN put(a, "extra", Wrong) \subseteq allowed_fields(k))
        BY <2>1, <2>4
    <2>3. parse_request_payload_raw(n) = Err("ProtocolError")
        BY <1>2, <2>2, Parse3, Zenon
    <2> QED BY <1>2, <2>3, BodyIs DEF G, Refusal, Documented
<1>3. ASSUME y \in {"no_kind", "unknown_kind"}, NEW h \in {"absent", "number"}, n = body(h, a) PROVE G
    <2>1. h \notin RequestKind
        BY DEF RequestKind
    <2>2. parse_request_payload_raw(n) = Err("InvalidRequest")
        BY <1>3, <2>1, Parse2, Zenon
    <2> QED BY <1>3, <2>2, BodyIs DEF G, Refusal, Documented
<1>4. ASSUME y = "no_field", NEW f \in DOMAIN a, n = body(k, drop(a, f)) PROVE G
    <2>4. DOMAIN drop(a, f) = DOMAIN a \ {f}
        BY DropIs, Zenon
    <2>1. DOMAIN drop(a, f) = {} /\ allowed_fields(k) = {f}
        BY <1>0, <2>4
    <2>2. DOMAIN drop(a, f) \subseteq allowed_fields(k) /\ ~(allowed_fields(k) \subseteq DOMAIN drop(a, f))
        BY <2>1
    <2>3. parse_request_payload_raw(n) = Err("InvalidRequest")
        BY <1>4, <2>2, Parse4, Zenon
    <2> QED BY <1>4, <2>3, BodyIs DEF G, Refusal, Documented
<1>5. ASSUME NEW f \in DOMAIN a, NEW w, n = body(k, put(a, f, w)), NEW c, from_json(f, w) = Err(c), c = Refusal(y) PROVE G
    <2>1. PICK b : b = put(a, f, w)
        OBVIOUS
    <2>5. DOMAIN b = DOMAIN a \cup {f} /\ b[f] = w
        BY <2>1 DEF put
    <2>2. DOMAIN b = {f} /\ b[f] = w /\ allowed_fields(k) = {f}
        BY <1>0, <2>5
    <2>3. IsErr(from_json(f, b[f]))
        BY <1>5, <2>2, Errors1
    <2>4. parse_request_payload_raw(body(k, b)) = from_json(f, b[f])
        BY <2>2, <2>3, Parse6
    <2> QED BY <1>5, <2>1, <2>2, <2>4, BodyIs DEF G
<1>6. ASSUME NEW f \in DOMAIN a, y = wrong_value(f), n = body(k, put(a, f, Wrong)) PROVE G
    <2>1. CASE f = "pin"
        <3>1. Refusal(y) = "MalformedFrame" /\ from_json(f, Wrong) = Err("MalformedFrame")
            BY <1>6, <2>1, BadValues DEF wrong_value, Refusal, Documented
        <3> QED BY <1>5, <1>6, <3>1
    <2>2. CASE f # "pin"
        <3>1. Refusal(y) = "InvalidRequest" /\ from_json(f, Wrong) = Err("InvalidRequest")
            BY <1>6, <2>2, BadValues DEF wrong_value, Refusal, Documented
        <3> QED BY <1>5, <1>6, <3>1
    <2> QED BY <2>1, <2>2
<1>7. Refusal("bad_value") = "InvalidRequest" /\ Refusal("bad_string") = "MalformedFrame"
    BY DEF Refusal, Documented
<1>8. ASSUME y = "bad_value", NEW f \in DOMAIN a \cap {"duration_minutes"}, n = body(k, put(a, f, OverU32)) PROVE G
    <2>1. f # "pin" /\ f \in DOMAIN a
        OBVIOUS
    <2>2. from_json(f, OverU32) = Err("InvalidRequest")
        BY <2>1, BadValues
    <2> QED BY <1>5, <1>7, <1>8, <2>1, <2>2
<1>9. ASSUME y = "bad_value", NEW f \in DOMAIN a \cap IdFields, n = body(k, put(a, f, no_hex_16)) PROVE G
    <2>1. f = "timer_id" /\ f \in DOMAIN a
        BY <1>0 DEF IdFields, ArgName
    <2>2. from_json(f, no_hex_16) = Err("InvalidRequest")
        BY <2>1, BadValues
    <2> QED BY <1>5, <1>7, <1>9, <2>1, <2>2
<1>10. ASSUME y = "bad_string", "pin" \in DOMAIN a, NEW s \in BadSpellings, n = body(k, put(a, "pin", s)) PROVE G
    <2>1. from_json("pin", s) = Err("MalformedFrame")
        BY BadValues
    <2> QED BY <1>5, <1>7, <1>10, <2>1
<1>11. G
    BY <1>1, <1>2, <1>3, <1>4, <1>6, <1>8, <1>9, <1>10, Zenon DEF BadBody
<1> QED BY <1>11 DEF G

LEMMA RequestRefuses ==
    ASSUME NEW r \in Request, validate_message(r), NEW e \in BodyFaults(encode_request_frame(r)), e[1] # "respelt"
    PROVE  decode_request_frame(e[2]) = Err(Refusal(e[1]))
<1>1. RequestIs(r)
    BY Requests
<1>2. PICK k : k = r.kind
    OBVIOUS
<1>3. PICK a : a = [f \in DOMAIN r.args |-> to_json(f, r.args[f])]
    OBVIOUS
<1>4. k \in RequestKind /\ DOMAIN a = allowed_fields(k) /\ OnWire(r) = body(k, a)
    BY <1>1, <1>2, <1>3 DEF RequestIs, OnWire
<1>5. PICK d : d = encode_request_frame(r)
    OBVIOUS
<1>6. Sent("request", d) /\ d.body = body(k, a)
    <2>1. d = Document("request", json_len(r), body(k, a)) /\ json_len(r) \in 1..Limit("request")
        BY <1>4, <1>5, RequestFits, Fits
    <2> QED BY <2>1, BodyIs, DocumentSent
<1>7. PICK l, u, s, dp, x, v, ty :
          /\ l = d.len /\ u = d.utf8 /\ s = d.shape /\ dp = d.dup /\ x = d.extra /\ v = d.version /\ ty = d.type
    OBVIOUS
<1>15. d = Full(l, u, s, dp, x, v, ty, body(k, a))
    BY <1>6, <1>7, Zenon DEF Sent
<1>16. e \in BodyFaults(d)
    BY <1>5
<1>8. PICK n : e[2] = Full(l, u, s, dp, x, v, ty, n) /\ BadBody(e[1], n, k, a)
    BY <1>15, <1>16, BodyFaultsAre
<1>9. parse_request_payload_raw(n) = Err(Refusal(e[1])) /\ n # NoBody
    BY <1>4, <1>8, BodyRefuses, Zenon
<1>10. PICK q : q = e[2]
    OBVIOUS
<1>11. /\ q.len = l /\ q.utf8 = u /\ q.shape = s /\ q.dup = dp /\ q.extra = x
       /\ q.version = v /\ q.type = ty /\ q.body = n
    BY <1>8, <1>10, FullFields
<1>12. Sent("request", q)
    <2>1. q = Full(q.len, q.utf8, q.shape, q.dup, q.extra, q.version, q.type, q.body)
        BY <1>8, <1>10, <1>11, Zenon
    <2> QED BY <1>6, <1>7, <1>9, <1>11, <2>1, Zenon DEF Sent
<1>13. envelope(q, "request") = "Ok"
    BY <1>12, SentIsOk, Zenon
<1>14. decode_request_frame(q) = Err(Refusal(e[1]))
    BY <1>9, <1>11, <1>13, Errors1, Zenon DEF decode_request_frame
<1> QED BY <1>10, <1>14

-----------------------------------------------------------------------------
\* A request's document, whatever has been done to it.
TypedArgs(a) ==
    /\ "pin" \in DOMAIN a => a["pin"] \in Spelling \cup {Wrong, OverU32}
    /\ "text" \in DOMAIN a => a["text"] \in WireText \cup {Wrong, OverU32}
Bodied(b) == b = NoBody \/ b = NotObject \/ \E k, a : b = body(k, a) /\ TypedArgs(a)
Framed(d) ==
    /\ d = Full(d.len, d.utf8, d.shape, d.dup, d.extra, d.version, d.type, d.body)
    /\ d.utf8 \in BOOLEAN /\ d.extra \in BOOLEAN /\ Bodied(d.body)

LEMMA SentFramed ==
    ASSUME NEW r \in Request, validate_message(r)
    PROVE  Framed(encode_request_frame(r)) /\ Sent("request", encode_request_frame(r)) /\ encode_request_frame(r).body = OnWire(r)
<1>1. RequestIs(r)
    BY Requests
<1>2. PICK a : a = [f \in DOMAIN r.args |-> to_json(f, r.args[f])]
    OBVIOUS
<1>3. DOMAIN a = DOMAIN r.args /\ OnWire(r) = body(r.kind, a) /\ \A f \in DOMAIN a : a[f] = to_json(f, r.args[f])
    BY <1>2 DEF OnWire
<1>4. PICK d : d = encode_request_frame(r)
    OBVIOUS
<1>5. Sent("request", d) /\ d.body = body(r.kind, a)
    <2>1. d = Document("request", json_len(r), body(r.kind, a)) /\ json_len(r) \in 1..Limit("request")
        BY <1>3, <1>4, RequestFits, Fits
    <2> QED BY <2>1, BodyIs, DocumentSent
<1>6. ASSUME "pin" \in DOMAIN a PROVE a["pin"] \in Spelling
    <2>1. r.args["pin"] \in WirePin
        BY <1>1, <1>3, <1>6 DEF RequestIs, Argument
    <2>2. r.args["pin"] \in Seq(Nat) /\ Len(r.args["pin"]) \in 0..MaxPin
        BY <2>1, WirePins
    <2>3. a["pin"] = escape(r.args["pin"])
        BY <1>3, <1>6 DEF to_json
    <2>4. a["pin"] \in Seq(Token1) /\ Len(a["pin"]) = Len(r.args["pin"])
        BY <2>2, <2>3, Escaped
    <2>5. EnvelopeBytes + 6 * Len(a["pin"]) <= MAX_REQUEST_BYTES
        BY <2>2, <2>4, PinLengths, Zenon
    <2> QED BY <2>4, <2>5 DEF Spelling
<1>7. ASSUME "text" \in DOMAIN a PROVE a["text"] \in WireText
    <2>1. r.args["text"] \in WireText
        BY <1>1, <1>3, <1>7 DEF RequestIs, Argument
    <2> QED BY <1>3, <1>7, <2>1 DEF to_json
<1>8. Bodied(d.body)
    BY <1>5, <1>6, <1>7 DEF Bodied, TypedArgs
<1>9. d.utf8 \in BOOLEAN /\ d.extra \in BOOLEAN
    BY <1>5, Zenon DEF Sent
<1>10. Framed(d)
    BY <1>5, <1>8, <1>9, Zenon DEF Framed, Sent
<1> QED BY <1>3, <1>4, <1>5, <1>10

\* Tampering changes one field, and an argument to a value of its kind, to a
\* wrong value or to another spelling.
LEMMA BadBodied ==
    ASSUME NEW k, NEW a, TypedArgs(a), NEW y, NEW n, BadBody(y, n, k, a)
    PROVE  Bodied(n)
<1>1. ASSUME NEW h, NEW g, n = body(h, g), TypedArgs(g) PROVE Bodied(n)
    BY <1>1, Zenon DEF Bodied
<1>2. ASSUME NEW f, NEW w, f = "pin" => w \in Spelling \cup {Wrong, OverU32}, f = "text" => w \in WireText \cup {Wrong, OverU32},
             n = body(k, put(a, f, w))
      PROVE  Bodied(n)
    <2>1. PICK g : g = put(a, f, w)
        OBVIOUS
    <2>2. DOMAIN g = DOMAIN a \cup {f} /\ g[f] = w /\ \A h \in DOMAIN a \ {f} : g[h] = a[h]
        BY <2>1 DEF put
    <2>3. TypedArgs(g)
        BY <1>2, <2>2 DEF TypedArgs
    <2> QED BY <1>1, <1>2, <2>1, <2>3
<1>3. ASSUME NEW f, n = body(k, drop(a, f)) PROVE Bodied(n)
    <2>1. PICK g : g = drop(a, f)
        OBVIOUS
    <2>2. DOMAIN g = DOMAIN a \ {f} /\ \A h \in DOMAIN a \ {f} : g[h] = a[h]
        BY <2>1 DEF drop
    <2>3. TypedArgs(g)
        BY <2>2 DEF TypedArgs
    <2> QED BY <1>1, <1>3, <2>1, <2>3
<1>4. ASSUME n = NotObject PROVE Bodied(n)
    BY <1>4 DEF Bodied
<1>5. ASSUME NEW f, n = body(k, put(a, f, Wrong)) PROVE Bodied(n)
    BY <1>2, <1>5
<1>6. ASSUME NEW f \in DOMAIN a \cap {"duration_minutes"}, n = body(k, put(a, f, OverU32)) PROVE Bodied(n)
    BY <1>2, <1>6
<1>7. ASSUME NEW f \in DOMAIN a \cap IdFields, n = body(k, put(a, f, no_hex_16)) PROVE Bodied(n)
    <2>1. f # "pin" /\ f # "text"
        BY DEF IdFields
    <2> QED BY <1>2, <1>7, <2>1
<1>8. ASSUME NEW s \in BadSpellings \cup Respellings, n = body(k, put(a, "pin", s)) PROVE Bodied(n)
    <2>1. s \in Spelling
        BY SpellingsAre
    <2> QED BY <1>2, <1>8, <2>1
<1>9. \A s : s \in BadSpellings \/ s \in Respellings => s \in BadSpellings \cup Respellings
    OBVIOUS
<1>10. n = body("absent", a) \/ n = body("number", a) => Bodied(n)
    BY <1>1
<1> QED BY <1>3, <1>4, <1>5, <1>6, <1>7, <1>8, <1>9, <1>10, Zenon DEF BadBody

LEMMA TamperFramed ==
    ASSUME NEW d, Framed(d),
           NEW e \in EnvelopeFaults(d) \cup (IF d.body \in {NoBody, NotObject} THEN {} ELSE BodyFaults(d))
    PROVE  Framed(e[2])
<1>1. PICK l, u, s, dp, x, v, ty, b :
          /\ l = d.len /\ u = d.utf8 /\ s = d.shape /\ dp = d.dup /\ x = d.extra /\ v = d.version /\ ty = d.type
          /\ b = d.body
    OBVIOUS
<1>2. d = Full(l, u, s, dp, x, v, ty, b) /\ u \in BOOLEAN /\ x \in BOOLEAN /\ Bodied(b)
    BY <1>1, Zenon DEF Framed
<1>3. ASSUME NEW q, NEW l1, NEW u1 \in BOOLEAN, NEW s1, NEW dp1, NEW x1 \in BOOLEAN, NEW v1, NEW ty1, NEW b1, Bodied(b1),
             q = Full(l1, u1, s1, dp1, x1, v1, ty1, b1)
      PROVE  Framed(q)
    <2>1. /\ q.len = l1 /\ q.utf8 = u1 /\ q.shape = s1 /\ q.dup = dp1 /\ q.extra = x1 /\ q.version = v1
          /\ q.type = ty1 /\ q.body = b1
        BY <1>3, FullFields
    <2> QED BY <1>3, <2>1, Zenon DEF Framed
<1>4. Bodied(NoBody)
    BY DEF Bodied
<1>5. PICK q : q = e[2]
    OBVIOUS
<1>6. CASE e \in EnvelopeFaults(d)
    <2>1. EnvelopeFault(e[1], q, l, u, s, dp, x, v, ty, b)
        BY <1>2, <1>5, <1>6, EnvelopeFaultsAre
    <2>2. \E l1, s1, dp1, v1, ty1, b1 : \E u1, x1 \in BOOLEAN : Bodied(b1) /\ q = Full(l1, u1, s1, dp1, x1, v1, ty1, b1)
        BY <1>2, <1>4, <2>1, Zenon DEF EnvelopeFault
    <2> QED BY <1>3, <1>5, <2>2, Zenon
<1>7. CASE e \notin EnvelopeFaults(d)
    <2>1. e \in BodyFaults(d) /\ b \notin {NoBody, NotObject}
        BY <1>1, <1>7
    <2>2. PICK k, a : b = body(k, a) /\ TypedArgs(a)
        BY <1>2, <2>1, Zenon DEF Bodied
    <2>3. d = Full(l, u, s, dp, x, v, ty, body(k, a))
        BY <1>2, <2>2
    <2>4. PICK n : e[2] = Full(l, u, s, dp, x, v, ty, n) /\ BadBody(e[1], n, k, a)
        BY <2>1, <2>3, BodyFaultsAre
    <2>5. Bodied(n)
        BY <2>2, <2>4, BadBodied, Zenon
    <2> QED BY <1>2, <1>3, <2>4, <2>5, Zenon
<1> QED BY <1>6, <1>7

-----------------------------------------------------------------------------
\* A document whose envelope passes is one nothing was done to.
LEMMA OnlyOk ==
    ASSUME NEW d, NEW t, Framed(d), envelope(d, t) = "Ok"
    PROVE  /\ d.utf8 = TRUE /\ d.shape = "object" /\ d.dup = "none" /\ d.extra = FALSE /\ d.version = "one"
           /\ d.type = t /\ d.body # NoBody
<1>1. d.utf8 \in BOOLEAN /\ d.extra \in BOOLEAN
    BY Zenon DEF Framed
<1>2. validate_raw_version_field(d.version) = "Ok" => d.version = "one"
    BY DEF validate_raw_version_field
<1>3. validate_frame_length(t, d.len) = "Ok"
    BY Zenon DEF envelope
<1>4. ~(d.len = 0 \/ ~d.utf8 \/ d.shape = "broken")
    BY <1>3 DEF envelope
<1>5. ~(check_no_duplicate_keys(d) \/ d.shape # "object" \/ d.extra)
    BY <1>3, <1>4 DEF envelope
<1>6. validate_raw_version_field(d.version) = "Ok"
    BY <1>3, <1>4, <1>5 DEF envelope
<1>7. ~(d.type # t \/ d.body = NoBody)
    BY <1>3, <1>4, <1>5, <1>6 DEF envelope
<1> QED BY <1>1, <1>2, <1>4, <1>5, <1>6, <1>7, Zenon DEF check_no_duplicate_keys

\* What parse_request_payload_raw accepts.
LEMMA OnlyParsed ==
    ASSUME NEW k, NEW a, ~IsErr(parse_request_payload_raw(body(k, a)))
    PROVE  /\ k \in RequestKind /\ DOMAIN a = allowed_fields(k)
           /\ \A f \in DOMAIN a : ~IsErr(from_json(f, a[f]))
           /\ parse_request_payload_raw(body(k, a)) = body(k, [f \in DOMAIN a |-> value(from_json(f, a[f]))])
<1>1. k \in RequestKind
    BY Parse2, Errors1, Zenon
<1>2. DOMAIN a \subseteq allowed_fields(k)
    BY <1>1, Parse3, Errors1, Zenon
<1>3. allowed_fields(k) \subseteq DOMAIN a
    BY <1>1, <1>2, Parse4, Errors1, Zenon
<1>4. DOMAIN a = allowed_fields(k)
    BY <1>2, <1>3
<1>5. ASSUME NEW f \in DOMAIN a, IsErr(from_json(f, a[f])) PROVE FALSE
    <2>1. allowed_fields(k) = {f} /\ DOMAIN a = {f}
        BY <1>1, <1>4, OneField
    <2> QED BY <1>1, <1>5, <2>1, Parse6, Zenon
<1> QED BY <1>1, <1>4, <1>5, Parse7

LEMMA Accepted ==
    ASSUME NEW d, Framed(d), NEW r, r = decode_request_frame(d), ~IsErr(r)
    PROVE  /\ ~IsErr(encode_request_frame(r)) /\ Outline(encode_request_frame(r)) = Outline(d)
           /\ validate_message(r) /\ \E f \in ArgName : DOMAIN r.args \subseteq {f}
<1>1. envelope(d, "request") = "Ok"
    BY Errors1, Zenon DEF decode_request_frame
<1>2. /\ d.utf8 = TRUE /\ d.shape = "object" /\ d.dup = "none" /\ d.extra = FALSE /\ d.version = "one"
      /\ d.type = "request" /\ d.body # NoBody
    BY <1>1, OnlyOk, Zenon
<1>3. PICK p : p = parse_request_payload_raw(d.body)
    OBVIOUS
<1>4. r = IF IsErr(p) THEN p ELSE IF validate_message(p) THEN p ELSE Err("InvalidRequest")
    BY <1>1, <1>3, Zenon DEF decode_request_frame
<1>5. r = p /\ validate_message(r)
    BY <1>4, Errors1
<1>6. PICK k, a : d.body = body(k, a) /\ TypedArgs(a)
    <2>1. d.body # NotObject
        BY <1>3, <1>5, Parse1, Errors1
    <2> QED BY <1>2, <2>1, Zenon DEF Framed, Bodied
<1>7. /\ k \in RequestKind /\ DOMAIN a = allowed_fields(k)
      /\ \A f \in DOMAIN a : ~IsErr(from_json(f, a[f]))
      /\ r = body(k, [f \in DOMAIN a |-> value(from_json(f, a[f]))])
    <2>1. ~IsErr(parse_request_payload_raw(body(k, a)))
        BY <1>3, <1>5, <1>6, Zenon
    <2>2. r = parse_request_payload_raw(body(k, a))
        BY <1>3, <1>5, <1>6, Zenon
    <2> QED BY <2>1, <2>2, OnlyParsed, Zenon
<1>8. r.kind = k /\ DOMAIN r.args = DOMAIN a /\ \A f \in DOMAIN a : r.args[f] = value(from_json(f, a[f]))
    <2>1. PICK w : w = [f \in DOMAIN a |-> value(from_json(f, a[f]))]
        OBVIOUS
    <2>2. r.kind = k /\ r.args = w
        BY <1>7, <2>1, BodyIs
    <2> QED BY <2>1, <2>2
<1>9. \E f \in ArgName : DOMAIN a \subseteq {f}
    <2>1. ArgName # {}
        BY DEF ArgName
    <2> QED BY <1>7, <2>1, OneField
<1>10. ASSUME NEW f \in DOMAIN a, f \in {"pin", "text"} PROVE a[f] # Wrong /\ a[f] # OverU32
    <2>1. IsErr(from_json(f, Wrong)) /\ IsErr(from_json(f, OverU32))
        BY Errors1, Zenon DEF from_json
    <2> QED BY <1>7, <2>1
<1>11. ASSUME "pin" \in DOMAIN a
       PROVE  Len(r.args.pin) \in Nat /\ EnvelopeBytes + 6 * Len(r.args.pin) <= MAX_REQUEST_BYTES
    <2>1. PICK s : s = a["pin"]
        OBVIOUS
    <2>2. s \in Spelling /\ s # Wrong /\ s # OverU32
        BY <1>6, <1>10, <1>11, <2>1 DEF TypedArgs
    <2>3. from_json("pin", s) = unescape_pin_json_string(s)
        BY <2>2 DEF from_json
    <2>4. s \in Seq(Token1) /\ EnvelopeBytes + 6 * Len(s) <= MAX_REQUEST_BYTES
        BY <2>2, Zenon DEF Spelling
    <2>5. PICK z \in TokenAcc : z = unescape_tokens(s) /\ Len(z.out) <= Len(s)
        BY <2>4, NoLonger
    <2>6. unescape_pin_json_string(s) = [pin |-> z.out]
        <3>1. ~IsErr(unescape_pin_json_string(s))
            BY <1>7, <1>11, <2>1, <2>3
        <3> QED BY <2>5, <3>1, Errors1, Zenon DEF unescape_pin_json_string
    <2>7. r.args.pin = z.out
        BY <1>8, <1>11, <2>1, <2>3, <2>6, Value
    <2>8. Len(z.out) \in Nat /\ Len(s) \in Nat
        BY <2>4, <2>5, LenProperties DEF TokenAcc
    <2>9. \A m, n \in Nat : m <= n /\ EnvelopeBytes + 6 * n <= MAX_REQUEST_BYTES => EnvelopeBytes + 6 * m <= MAX_REQUEST_BYTES
        BY SMT DEF EnvelopeBytes, MAX_REQUEST_BYTES
    <2> QED BY <2>4, <2>5, <2>7, <2>8, <2>9, Zenon
<1>12. ASSUME "text" \in DOMAIN a PROVE r.args.text.bytes \in Nat
    <2>1. PICK w : w = a["text"]
        OBVIOUS
    <2>2. w \in WireText /\ w # Wrong /\ w # OverU32
        BY <1>6, <1>10, <1>12, <2>1 DEF TypedArgs
    <2>3. from_json("text", w) = [plain |-> w]
        BY <2>2 DEF from_json
    <2>4. r.args.text = w
        BY <1>8, <1>12, <2>1, <2>3, Value
    <2>5. w.bytes \in Nat
        BY <2>2, SMT DEF WireText, MAX_CHAT_TEXT_UTF8_BYTES
    <2> QED BY <2>4, <2>5
<1>13. Fitting(r)
    <2>1. \A f, g \in DOMAIN r.args : f = g
        BY <1>8, <1>9
    <2> QED BY <1>8, <1>11, <1>12, <2>1, Zenon DEF Fitting
<1>14. PICK w : w = encode_request_frame(r)
    OBVIOUS
<1>15. Sent("request", w) /\ w.body = OnWire(r)
    <2>1. json_len(r) \in 1..Limit("request") /\ w = Document("request", json_len(r), OnWire(r))
        BY <1>5, <1>13, <1>14, Fits
    <2>2. OnWire(r) # NoBody
        BY BodyIs DEF OnWire
    <2> QED BY <2>1, <2>2, DocumentSent
<1>16. w.body.kind = k /\ DOMAIN w.body.args = DOMAIN a
    <2>1. PICK g : g = [f \in DOMAIN r.args |-> to_json(f, r.args[f])]
        OBVIOUS
    <2>2. w.body = body(k, g) /\ DOMAIN g = DOMAIN a
        BY <1>8, <1>15, <2>1 DEF OnWire
    <2> QED BY <2>2, BodyIs
<1>17. d.body.kind = k /\ d.body.args = a
    BY <1>6, BodyIs
<1>18. Outline(w) = Outline(d)
    BY <1>2, <1>15, <1>16, <1>17, Zenon DEF Outline, Sent
<1>19. ~IsErr(w)
    <2>1. w = Full(w.len, w.utf8, w.shape, w.dup, w.extra, w.version, w.type, w.body)
        BY <1>15, Zenon DEF Sent
    <2>2. DOMAIN w = {"len", "utf8", "shape", "dup", "extra", "version", "type", "body"}
        BY <2>1 DEF Full
    <2> QED BY <2>2 DEF IsErr
<1> QED BY <1>5, <1>8, <1>9, <1>14, <1>18, <1>19

-----------------------------------------------------------------------------
FaultName == {"empty", "oversize", "bad_utf8", "broken", "not_object", "duplicate", "unknown_top", "no_version",
              "no_type", "other_type", "no_body", "version_no_integer", "version_too_wide", "other_version",
              "body_no_object", "unknown_field", "no_kind", "unknown_kind", "no_field", "bad_value", "bad_string", "respelt"}
Faults(d) == EnvelopeFaults(d) \cup (IF d.body \in {NoBody, NotObject} THEN {} ELSE BodyFaults(d))

LEMMA BodyNames ==
    ASSUME NEW d, NEW e \in BodyFaults(d)
    PROVE  e[1] \in FaultName /\ e[1] \notin {"no_version", "other_version", "version_too_wide", "duplicate", "unknown_top"}
<1>1. PICK k, a : k = d.body.kind /\ a = d.body.args
    OBVIOUS
<1>2. PICK z \in BadBodies(k, a) : e = <<z[1], [d EXCEPT !.body = z[2]]>>
    BY <1>1, Zenon DEF BodyFaults
<1>3. PICK y, n : y = z[1] /\ n = z[2] /\ BadBody(y, n, k, a)
    BY BadBodiesAre, Zenon
<1>4. e[1] = y
    BY <1>2, <1>3
<1>5. y \in {"body_no_object", "unknown_field", "no_kind", "unknown_kind", "no_field", "bad_value", "bad_string", "respelt"}
    BY <1>3, Zenon DEF BadBody, wrong_value
<1> QED BY <1>4, <1>5 DEF FaultName

LEMMA EnvelopeNames == \A d : \A e \in EnvelopeFaults(d) : e[1] \in FaultName
<1> SUFFICES ASSUME NEW d, NEW e \in EnvelopeFaults(d) PROVE e[1] \in FaultName
    OBVIOUS
<1>1. ASSUME NEW y \in FaultName, NEW q, e = <<y, q>> PROVE e[1] \in FaultName
    BY <1>1
<1>2. \A w : version_fault(w) \in FaultName
    BY DEF version_fault, FaultName
<1>3. \/ e = <<"empty", [d EXCEPT !.len = 0]>> \/ e = <<"oversize", [d EXCEPT !.len = Limit(type) + 1]>>
      \/ e = <<"bad_utf8", [d EXCEPT !.utf8 = FALSE]>> \/ e = <<"broken", [d EXCEPT !.shape = "broken"]>>
      \/ e = <<"not_object", [d EXCEPT !.shape = "scalar"]>>
      \/ e = <<"duplicate", [d EXCEPT !.dup = "top"]>> \/ e = <<"duplicate", [d EXCEPT !.dup = "nested"]>>
      \/ e = <<"unknown_top", [d EXCEPT !.extra = TRUE]>> \/ e = <<"no_version", [d EXCEPT !.version = "absent"]>>
      \/ e = <<"no_type", [d EXCEPT !.type = "absent"]>> \/ e = <<"other_type", [d EXCEPT !.type = "wrong"]>>
      \/ e = <<"no_body", [d EXCEPT !.body = NoBody]>>
      \/ \E w \in VersionFaults : e = <<version_fault(w), [d EXCEPT !.version = w]>>
    BY DEF EnvelopeFaults
<1>4. {"empty", "oversize", "bad_utf8", "broken", "not_object", "duplicate", "unknown_top", "no_version",
       "no_type", "other_type", "no_body"} \subseteq FaultName
    BY DEF FaultName
<1>5. \E y \in FaultName : \E q : e = <<y, q>>
    BY <1>2, <1>3, <1>4
<1> QED BY <1>1, <1>5

\* What the sender made, and what has become of it.
Untampered(t, m, d) ==
    IF t = "request" THEN validate_message(m) /\ d = encode_request_frame(m)
    ELSE m \in Messages(t) /\ \E l \in 1..Limit(t) : d = Document(t, l, Dto(m))
Brought(t, m) ==
    /\ t \in {"request", "response", "error", "event"}
    /\ t = "request" => m \in Request
    /\ t \in {"response", "error"} => m \in Messages(t)
    /\ t = "event" => m \in CoreEvent
Tampered == \E d, e : Untampered(type, message, d) /\ e \in Faults(d) /\ tampering[1] = e[1] /\ frame = e[2]
IpcInv ==
    /\ Brought(type, message)
    /\ ipc_pc \in {"encode", "sent", "refused", "decoded"} /\ tampering \in Seq(FaultName)
    /\ ipc_pc = "encode" => tampering = <<>>
    /\ ipc_pc = "refused" /\ type = "request" => frame = Err("InvalidRequest") /\ ~validate_message(message)
    /\ ipc_pc \in {"sent", "decoded"} =>
          /\ tampering = <<>> => Untampered(type, message, frame)
          /\ Len(tampering) = 1 => Tampered
          /\ type = "request" => Framed(frame)
    /\ ipc_pc = "decoded" => decoded = decode_frame(type, frame)

LEMMA IpcInitInv == IpcInit => IpcInv
<1> SUFFICES ASSUME IpcInit PROVE IpcInv
    OBVIOUS
<1>1. Brought(type, message)
    BY DEF IpcInit, Brought
<1>2. ipc_pc = "encode" /\ tampering = <<>> /\ tampering \in Seq(FaultName)
    BY EmptySeq DEF IpcInit
<1> QED BY <1>1, <1>2 DEF IpcInv

LEMMA EncodeInv == IpcInv /\ encode => IpcInv'
<1> SUFFICES ASSUME IpcInv, encode PROVE IpcInv'
    OBVIOUS
<1>1. /\ type' = type /\ message' = message /\ tampering' = <<>> /\ tampering = <<>> /\ Brought(type, message)
      /\ <<>> \in Seq(FaultName) /\ Len(<<>>) = 0
    BY EmptySeq DEF IpcInv, encode
<1>2. Brought(type', message') /\ tampering' \in Seq(FaultName) /\ Len(tampering') # 1
    BY <1>1
<1>3. ipc_pc' = IF IsErr(frame') THEN "refused" ELSE "sent"
    BY DEF encode
<1>4. ASSUME type = "request"
      PROVE  /\ ipc_pc' = "refused" => frame' = Err("InvalidRequest") /\ ~validate_message(message')
             /\ ipc_pc' = "sent" => Untampered(type', message', frame') /\ Framed(frame')
    <2>1. frame' = encode_request_frame(message) /\ message \in Request
        BY <1>1, <1>4 DEF encode, Brought
    <2>2. CASE validate_message(message)
        <3>1. Framed(frame') /\ Sent("request", frame')
            BY <2>1, <2>2, SentFramed
        <3>2. PICK w : w = frame'
            OBVIOUS
        <3>3. w = Full(w.len, w.utf8, w.shape, w.dup, w.extra, w.version, w.type, w.body)
            BY <3>1, <3>2, Zenon DEF Sent
        <3>4. DOMAIN w = {"len", "utf8", "shape", "dup", "extra", "version", "type", "body"}
            BY <3>3 DEF Full
        <3>5. ipc_pc' = "sent"
            BY <1>3, <3>2, <3>4 DEF IsErr
        <3> QED BY <1>1, <1>4, <2>1, <2>2, <3>1, <3>5 DEF Untampered
    <2>3. CASE ~validate_message(message)
        <3>1. frame' = Err("InvalidRequest")
            BY <2>1, <2>3, Zenon DEF encode_request_frame
        <3> QED BY <1>1, <1>3, <2>3, <3>1, Errors1
    <2> QED BY <2>2, <2>3
<1>5. ASSUME type # "request" PROVE ipc_pc' = "sent" => Untampered(type', message', frame')
    <2> SUFFICES ASSUME ipc_pc' = "sent" PROVE Untampered(type', message', frame')
        OBVIOUS
    <2>1. ~IsErr(frame')
        BY <1>3
    <2>2. ~(type = "event" /\ ~allowlisted(message))
        BY <1>5, <2>1, Errors1, Zenon DEF encode
    <2>3. PICK len \in {1, Limit(type), Limit(type) + 1} : frame' = encode_frame(type, message, len)
        BY <1>5, <2>2, Zenon DEF encode
    <2>4. validate_frame_length(type, len) = "Ok" /\ frame' = Document(type, len, Dto(message))
        BY <2>1, <2>3, Errors1, Zenon DEF encode_frame
    <2>5. Limit(type) \in Nat /\ Limit(type) > 0
        BY SMT DEF Limit, MAX_REQUEST_BYTES, MAX_RESPONSE_BYTES
    <2>6. len \in 1..Limit(type)
        BY <1>5, <2>4, <2>5 DEF validate_frame_length
    <2>7. message \in Messages(type)
        BY <1>1, <1>5, <2>2 DEF Brought, Messages
    <2> QED BY <1>1, <1>5, <2>4, <2>6, <2>7 DEF Untampered
<1> QED BY <1>1, <1>2, <1>3, <1>4, <1>5 DEF IpcInv

LEMMA TamperInv == IpcInv /\ tamper => IpcInv'
<1> SUFFICES ASSUME IpcInv, tamper PROVE IpcInv'
    OBVIOUS
<1>1. /\ type' = type /\ message' = message /\ ipc_pc = "sent" /\ ipc_pc' = "sent"
      /\ Brought(type, message) /\ tampering \in Seq(FaultName) /\ (tampering = <<>> \/ type = "request")
    BY DEF IpcInv, tamper
<1>2. PICK e \in Faults(frame) : tampering' = Append(tampering, e[1]) /\ frame' = e[2]
    BY Zenon DEF tamper, Faults
<1>3. e[1] \in FaultName
    BY BodyNames, EnvelopeNames DEF Faults
<1>4. PICK y : y = e[1]
    OBVIOUS
<1>5. /\ tampering' \in Seq(FaultName) /\ Len(tampering') = Len(tampering) + 1 /\ Len(tampering) \in Nat
      /\ tampering'[Len(tampering) + 1] = y
    BY <1>1, <1>2, <1>3, <1>4, AppendProperties, LenProperties
<1>6. tampering' # <<>>
    BY <1>5, EmptySeq
<1>7. \A d : Faults(d)' = Faults(d)
    BY <1>1 DEF Faults, EnvelopeFaults, BodyFaults, BadBodies
<1>8. ASSUME Len(tampering') = 1 PROVE Tampered'
    <2>1. tampering = <<>> /\ tampering'[1] = y
        BY <1>1, <1>5, <1>8, EmptySeq
    <2>2. Untampered(type', message', frame)
        BY <1>1, <2>1 DEF IpcInv
    <2> QED BY <1>2, <1>4, <1>7, <2>1, <2>2 DEF Tampered
<1>9. ASSUME type = "request" PROVE Framed(frame')
    <2>1. Framed(frame)
        BY <1>1, <1>9 DEF IpcInv
    <2> QED BY <1>2, <2>1, TamperFramed DEF Faults
<1> QED BY <1>1, <1>5, <1>6, <1>8, <1>9 DEF IpcInv

LEMMA IpcStep == IpcInv /\ [IpcNext]_ipc_vars => IpcInv'
<1>1. ASSUME IpcInv, decode PROVE IpcInv'
    <2>1. /\ type' = type /\ message' = message /\ frame' = frame /\ tampering' = tampering
          /\ ipc_pc = "sent" /\ ipc_pc' = "decoded" /\ decoded' = decode_frame(type, frame)
        BY <1>1 DEF decode
    <2>2. \A d : Faults(d)' = Faults(d)
        BY <2>1 DEF Faults, EnvelopeFaults, BodyFaults, BadBodies
    <2>3. Tampered' <=> Tampered
        BY <2>1, <2>2 DEF Tampered
    <2> QED BY <1>1, <2>1, <2>3 DEF IpcInv
<1>2. ASSUME IpcInv, UNCHANGED ipc_vars PROVE IpcInv'
    <2>1. /\ type' = type /\ message' = message /\ frame' = frame /\ tampering' = tampering
          /\ ipc_pc' = ipc_pc /\ decoded' = decoded
        BY <1>2 DEF ipc_vars
    <2>2. \A d : Faults(d)' = Faults(d)
        BY <2>1 DEF Faults, EnvelopeFaults, BodyFaults, BadBodies
    <2>3. Tampered' <=> Tampered
        BY <2>1, <2>2 DEF Tampered
    <2> QED BY <1>2, <2>1, <2>3 DEF IpcInv
<1> QED BY <1>1, <1>2, EncodeInv, TamperInv DEF IpcNext

\* What the service sent is read as it was.
LEMMA OtherRoundTrip ==
    ASSUME NEW t \in {"response", "error", "event"}, NEW m \in Messages(t), NEW l \in 1..Limit(t)
    PROVE  /\ decode_frame(t, Document(t, l, Dto(m))) = Dto(m)
           /\ Sent(t, Document(t, l, Dto(m))) /\ Document(t, l, Dto(m)).body = Dto(m)
<1>1. PICK d : d = Document(t, l, Dto(m))
    OBVIOUS
<1>2. Dto(m) # NoBody
    <2>1. PICK a : a = [f \in Fields(m) |-> field_dto(f, m[f])]
        OBVIOUS
    <2>2. Dto(m) = [kind |-> m.kind, args |-> a]
        BY <2>1, Zenon DEF Dto
    <2> QED BY <2>2, Shapes
<1>3. Sent(t, d) /\ d.body = Dto(m)
    BY <1>1, <1>2, DocumentSent
<1>4. envelope(d, t) = "Ok"
    BY <1>3, SentIsOk
<1>5. typed(t, d.body) = Dto(m)
    BY <1>3, TypedReads
<1>6. t # "request"
    OBVIOUS
<1>7. decode_frame(t, d) = Dto(m)
    BY <1>4, <1>5, <1>6, Zenon DEF decode_frame
<1> QED BY <1>1, <1>3, <1>7

LEMMA RoundTripHolds == IpcInv => IpcRoundTrip
<1> SUFFICES ASSUME IpcInv PROVE IpcRoundTrip
    OBVIOUS
<1>1. ASSUME ipc_pc = "decoded", tampering = <<>> PROVE decoded = IF type = "request" THEN message ELSE Dto(message)
    <2>1. Untampered(type, message, frame) /\ decoded = decode_frame(type, frame) /\ Brought(type, message)
        BY <1>1 DEF IpcInv
    <2>2. CASE type = "request"
        <3>1. message \in Request /\ validate_message(message) /\ frame = encode_request_frame(message)
            BY <2>1, <2>2, Zenon DEF Untampered, Brought
        <3>2. decoded = decode_request_frame(frame)
            BY <2>1, <2>2 DEF decode_frame
        <3> QED BY <2>2, <3>1, <3>2, RequestRoundTrip
    <2>3. CASE type # "request"
        <3>1. type \in {"response", "error", "event"} /\ message \in Messages(type)
            BY <2>1, <2>3, Zenon DEF Untampered, Brought
        <3>2. PICK l \in 1..Limit(type) : frame = Document(type, l, Dto(message))
            BY <2>1, <2>3, Zenon DEF Untampered
        <3>3. decode_frame(type, frame) = Dto(message)
            BY <3>1, <3>2, OtherRoundTrip
        <3> QED BY <2>1, <2>3, <3>3
    <2> QED BY <2>2, <2>3
<1>2. ASSUME ipc_pc = "refused", type = "request" PROVE frame.err = "InvalidRequest" /\ ~validate_message(message)
    <2>1. frame = Err("InvalidRequest") /\ ~validate_message(message)
        BY <1>2 DEF IpcInv
    <2> QED BY <2>1, Errors1
<1> QED BY <1>1, <1>2 DEF IpcRoundTrip

LEMMA EventsHold == IpcInv => EventsFaithful
<1> SUFFICES ASSUME IpcInv, type = "event", ipc_pc = "sent", tampering = <<>>
             PROVE  /\ {e \in CoreEvent : allowlisted(e) /\ e.kind = message.kind /\ Dto(e) = frame.body} = {message}
                    /\ message.kind # "PinAuthenticationResult"
    BY Zenon DEF EventsFaithful
<1>1. Untampered("event", message, frame)
    BY DEF IpcInv
<1>2. message \in Messages("event") /\ \E l \in 1..Limit("event") : frame = Document("event", l, Dto(message))
    <2>1. "event" # "request"
        OBVIOUS
    <2> QED BY <1>1, <2>1, Zenon DEF Untampered
<1>3. message \in CoreEvent /\ allowlisted(message)
    BY <1>2 DEF Messages
<1>4. frame.body = Dto(message)
    BY <1>2, OtherRoundTrip
<1>5. \A e \in CoreEvent : Dto(e) = frame.body => e = message
    BY <1>3, <1>4, EventsDiffer
<1>6. message.kind # "PinAuthenticationResult"
    BY <1>3 DEF allowlisted
<1> QED BY <1>3, <1>4, <1>5, <1>6

LEMMA RefusalsHold == IpcInv => RefusedAsDocumented
<1> SUFFICES ASSUME IpcInv, OneFault
             PROVE  IF type = "request" THEN decoded = Err(Refusal(tampering[1]))
                    ELSE tampering[1] \in {"no_version", "other_version", "version_too_wide", "duplicate", "unknown_top"} =>
                            decoded = Err(Refusal(tampering[1]))
    BY Zenon DEF RefusedAsDocumented
<1>1. /\ ipc_pc = "decoded" /\ Len(tampering) = 1 /\ tampering # <<"respelt">> /\ tampering \in Seq(FaultName)
      /\ decoded = decode_frame(type, frame) /\ Brought(type, message) /\ Tampered
    BY DEF IpcInv, OneFault
<1>2. PICK d, e : Untampered(type, message, d) /\ e \in Faults(d) /\ tampering[1] = e[1] /\ frame = e[2]
    BY <1>1 DEF Tampered
<1>3. e[1] # "respelt"
    <2>1. ASSUME tampering[1] = "respelt" PROVE FALSE
        <3>1. tampering = <<"respelt">>
            BY <1>1, <2>1
        <3> QED BY <1>1, <3>1
    <2> QED BY <1>2, <2>1
<1>4. type \in {"request", "response", "error", "event"}
    BY <1>1 DEF Brought
<1>5. CASE type = "request"
    <2>1. message \in Request /\ validate_message(message) /\ d = encode_request_frame(message)
        BY <1>1, <1>2, <1>5, Zenon DEF Untampered, Brought
    <2>2. decoded = decode_request_frame(e[2])
        BY <1>1, <1>2, <1>5 DEF decode_frame
    <2>3. Sent(type, d)
        BY <1>5, <2>1, SentFramed
    <2>4. CASE e \in EnvelopeFaults(d)
        <3>1. envelope(e[2], type) = Refusal(e[1]) /\ envelope(e[2], type) # "Ok"
            BY <1>4, <1>5, <2>3, <2>4, EnvelopeRefuses
        <3>2. decoded = Err(Refusal(e[1]))
            BY <1>5, <2>2, <3>1, Zenon DEF decode_request_frame
        <3> QED BY <1>2, <1>5, <3>2
    <2>5. CASE e \notin EnvelopeFaults(d)
        <3>1. e \in BodyFaults(d)
            BY <1>2, <2>5 DEF Faults
        <3>2. decoded = Err(Refusal(e[1]))
            BY <1>3, <2>1, <2>2, <3>1, RequestRefuses
        <3> QED BY <1>2, <1>5, <3>2
    <2> QED BY <2>4, <2>5
<1>6. CASE type # "request"
    <2> SUFFICES ASSUME tampering[1] \in {"no_version", "other_version", "version_too_wide", "duplicate", "unknown_top"}
                 PROVE  decoded = Err(Refusal(tampering[1]))
        BY <1>6
    <2>1. type \in {"response", "error", "event"} /\ message \in Messages(type)
        BY <1>2, <1>4, <1>6, Zenon DEF Untampered
    <2>2. PICK l \in 1..Limit(type) : d = Document(type, l, Dto(message))
        BY <1>2, <1>6, Zenon DEF Untampered
    <2>3. Sent(type, d)
        BY <2>1, <2>2, OtherRoundTrip
    <2>4. e \in EnvelopeFaults(d)
        BY <1>2, BodyNames DEF Faults
    <2>5. envelope(e[2], type) = Refusal(e[1]) /\ envelope(e[2], type) # "Ok"
        BY <1>2, <1>4, <2>3, <2>4, EnvelopeRefuses
    <2>6. decoded = Err(Refusal(e[1]))
        BY <1>1, <1>2, <1>6, <2>5, Zenon DEF decode_frame
    <2> QED BY <1>2, <2>6
<1> QED BY <1>5, <1>6

LEMMA AcceptanceHolds == IpcInv => AcceptedIsWhole
<1> SUFFICES ASSUME IpcInv, ipc_pc = "decoded", type = "request", ~IsErr(decoded) PROVE AcceptedIsWhole
    BY DEF AcceptedIsWhole
<1>1. Framed(frame) /\ decoded = decode_request_frame(frame)
    BY DEF IpcInv, decode_frame
<1>2. /\ ~IsErr(encode_request_frame(decoded)) /\ Outline(encode_request_frame(decoded)) = Outline(frame)
      /\ validate_message(decoded) /\ \E f \in ArgName : DOMAIN decoded.args \subseteq {f}
    BY <1>1, Accepted
<1>3. ASSUME "duration_minutes" \in DOMAIN decoded.args
      PROVE  decoded.args.duration_minutes > 0 /\ 15 * decoded.args.duration_minutes <= QuarterU32Max
    <2>1. "text" \notin DOMAIN decoded.args
        BY <1>2, <1>3
    <2>2. validate_duration_minutes(decoded.args.duration_minutes)
        BY <1>2, <1>3, <2>1 DEF validate_message
    <2> QED BY <2>2 DEF validate_duration_minutes
<1> QED BY <1>2, <1>3, Zenon DEF AcceptedIsWhole

\* A message arrives as it was sent, or is refused with the code of what is
\* wrong in it: whatever the identifiers, the alphabet and the longest PIN,
\* and however often a request was tampered with.
THEOREM IpcFaithful == IpcSpec => []IpcExact
<1>1. IpcInv => IpcExact
    BY RoundTripHolds, EventsHold, RefusalsHold, AcceptanceHolds DEF IpcExact
<1> QED BY <1>1, IpcInitInv, IpcStep, PTL DEF IpcSpec
=============================================================================
