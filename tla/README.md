# Palka: a TLA+ model of the service

Palka is a parental-control service for Windows.  A parent schedules a block of
the Internet or a shutdown of the computer, blocks at once, restores, cancels;
a service process carries that out through the Windows Filtering Platform and
the power API, survives crashes and restarts, and reports to a tray program and
to Telegram.  This directory holds the specifications of the service and of its
adapters to Windows, their model-checking configurations, and proofs.

## 1. Inventory

| Component | State | Operations | Interacts with |
|---|---|---|---|
| core rules (`crates/core/src/lib.rs`) | none | warning thresholds, execution-state transitions, recovery rules | called by the coordinator |
| runtime coordinator (`crates/service/src/runtime.rs`) | persistent state, kept candidate, observed Internet state, shutdown state, health, monotonic anchors, retry instant, subscribers | startup recovery, commands, clock processing, deadline execution, retry, stop | single worker thread fed by an mpsc queue; calls store, gate, power, clock, id source, retry policy |
| stop protocol (same file, `ServiceRuntime::stop`, `RuntimeHandle`) | ingress flag, effect gate, stop flag, queue | send, stop, join | caller threads and the worker |
| event bus (same file) | bounded queue per subscriber, registry, health signature | subscribe, unsubscribe, emit, prune, reconcile | called by every handler |
| state, config and credentials files (`*_store.rs`, `*persistence.rs`, `atomic_file.rs`, `dpapi.rs`) | three files and their temp files | load, save, encode, decode, validate | set-up, bootstrap, coordinator |
| internet gate, WFP (`internet_gate.rs`, `wfp*.rs`) | filters, sublayer, provider in the Base Filtering Engine | block, unblock, current_state, each in a transaction or a series of reads | called under the effect gate; other users of the engine |
| power controller (`power*.rs`) | a process privilege | probe, enable, request, restore | called under the effect gate |
| service integration, bootstrap (`service_integration.rs`, `bootstrap.rs`, `main.rs`) | phase of the service | start, run, stop, with a report to the SCM at each phase | SCM runtime, runtime |
| SCM runtime (`scm_runtime.rs`) | service status, control channel, fallback, result cell | report, control handler, dispatcher | the SCM's threads |
| SCM provisioning (`scm.rs`, `scm_provisioning.rs`) | the service's entry | query, validate, create, converge, query back | the SCM, other administrators |
| PIN authentication (`pin_auth.rs`) | failures, level, end of lockout | hash, verify, check, failure, success | IPC (not connected yet) |
| named pipe (`named_pipe*.rs`) | instances, overlapped operations, cancel event | accept, read, write, cancel, reset | clients; not connected to the runtime yet |
| IPC protocol (`ipc-protocol`) | none | framing, encoding and decoding of four envelopes | whoever writes to the pipe |
| id source (`id_source*.rs`, `windows_id_source.rs`) | counter, reservations | next identifier | state.json at start |
| protected directory (`protected_directory.rs`, `persistent_root.rs`) | a directory and its DACL | ensure | other processes |
| tray, governance scripts | | | a stub; development tooling |

What is hard in it: one worker interleaves commands, deadlines and retries with
saves and platform calls that can each fail; the process can die between any
two of them; `stop()` races all of them; two clocks disagree after a restart;
subscribers only see events; Windows objects are changed by others between two
calls; and every adapter is a series of system calls of which any may fail.
What must be true in spite of that:

* *coordinator*: an intent is durable before its side effect; what was confirmed
  stays confirmed; one timer shuts the computer down at most once; a warning is
  raised once and in time; what is reported is what the platform does; a reached
  deadline is acted upon; the worker does not spin; stop returns;
* *stop protocol*: no deadlock between the locks and the join, no platform call
  once the stop flag is up, no command accepted and left without an answer;
* *event bus*: a subscriber is current or gone, never served a gap silently;
* *files*: a crash leaves the old or the new value, a power failure one that was
  saved; what is written is read back, and what is read can be written again;
* *gate*: a call is all or nothing, and Blocked is never claimed wrongly;
  *power*: the privilege is restored or the failure to do so reported;
* *SCM*: every path ends in one STOPPED over a stopped runtime, an accepted stop
  control is carried out; *provisioning*: success means canonical;
* *PIN*: only the right PIN, never under weaker parameters, and guessing costs
  the scheduled time;
* *pipe and protocol*: no I/O outlives its buffer, no thread keeps a client's
  identity, a frame is delivered whole, a document is taken whole or refused.

Each hazard is listed in PROJECT.json at the line where it bites, with the
properties that would catch it.

## 2. Modules

| Module | Models | State and actions |
|---|---|---|
| `PalkaCore` | the pure functions of `palka-core` | operators, named as in the crate |
| `Runtime` | `ServiceRuntimeCoordinator` | see below |
| `ActionLifecycle` | the abstract promise about one scheduled action | its durable stage and whether the platform was called |
| `StopProtocol` | `RuntimeHandle`, the worker loop, `ServiceRuntime::stop` and its Drop | both mutexes, the queue, one reply channel per caller; a step is a lock, an unlock with what it guards, a send or a receive; the worker may panic and poison the gate |
| `EventBus` | subscriptions and health events | flags, registry, channels; `emit_event` and the reconciliation after it are separate steps because receivers read, or vanish, in between |
| `FileStore` | the three stores, `atomic_publish_file`, `bootstrap_service` | each file as it is read and as the disk has it (`stable`), temp files; create, write, flush, publish and clean up are steps that fail, and may be followed by a crash or a power failure; a replacement reaches the disk some time after it is made |
| `AtomicFiles` | the abstract promise of the stores | a file changes from one whole value to another; the first is on the disk at once, a later one some time after, and until then a power failure takes it back |
| `StateCodec` | `state.json`: the conversion both ways and both validators | a document is saved, edited up to twice, loaded |
| `Credentials` | `hash_pin`, `verify_pin`, credentials and config files, DPAPI wrapper | both files, what the service loaded, the last login; any number of set-ups, edits, loads and logins; PHC strings field by field, Base64 texts by form |
| `PinLockout` | `PinLockoutState` | the three fields and the caller's clock; time passes between check and record |
| `InternetGate` | `WindowsInternetGate` over an engine session | committed objects and the session's view; one step per engine call, any of which fails, then abort |
| `WfpEngine` | paged enumeration, security descriptors read back | page and handle guards; every small DACL |
| `PowerController` | probe, `initiate_shutdown`, restore, both buffer parsers | privilege, captured previous state, open handles, bytes read |
| `ScmRuntime` | dispatcher, `ServiceMain`, control handler, `run_service_with_ports` | the SCM's view and the local one, control channel, fallback, result cell |
| `ScmProvisioning` | `provision_palka_service`, its query and validator | the entry by groups of fields, one per system call; another administrator acts between any two |
| `ScmQuery` | decoding of strings and string lists in a query buffer | every small buffer and pointer |
| `NamedPipe` | accept, handshake, overlapped I/O, cancel | per thread: program point, OVERLAPPED, instance, client, impersonation |
| `IpcFraming` | length prefix and `extract_frame_payload` | bytes under way, the reader's buffer, end of stream |
| `IpcCodec` | requests, responses, errors, events | a document as fields and classes of values, tampered with between encoder and decoder |
| `IdSource` | the sequence and its reservations | counter, reservations, callers, what in state.json carries an identifier |
| `ProtectedDirectory` | `ensure_protected_directory` | what is at the path and its parent's, its DACL and that of what a link leads to, while others change them |
| `MCRuntime` | constants of `Runtime` for TLC | |
| `MCThreads`, `MCAdapters`, `MCInputs` | groups of the components above for TLC | see section 3 |
| `RuntimeProofs`, `TimerProofs`, `ReportProofs` | theorems about `Runtime` | section 4 |
| `StopProofs`, `ChannelProofs`, `AdapterProofs`, `InputProofs` | theorems about the other components | section 4 |
| `DataInduction` | theorems about numbers, recursion and sequences that these need | section 4 |

Definitions keep the names of the code.  A definition called `Mut...` is a
deliberately wrong variant of the one after it: with it, the property that
PROJECT.json names must fail.

### From code to `Runtime`

A handler is one step, cut only where the world can intervene:

    off --perform_startup_recovery--> effect --call--> save --save_after_effect--> idle
    idle --command with a call------> effect --call--> save ---------------------> idle
    idle --process_clock_and_events-> tick --deadline--> effect --call--> save --> tick
                                      tick --tick_retry--> effect, or idle

`pc = "effect"` is the point before `platform_effect_gate` is locked, where the
code re-reads `stop_requested`; `pc = "save"` is the point before
`commit_post_side_effect_candidate`.  A crash, a stop request or the passing of
time can happen at each.  The save that precedes a call is part of the step that
reaches `effect`.  `request_stop` raises the flag and queues Stop in one step:
the code does both under the effect gate, and a wake between the two is the
same as a wake just before.

`disk` is state.json, `mem` is `self.state`, `pending` is
`pending_durable_candidate`.  An action is a slot of `actions` indexed by its
timer (ids are never reused), `Absent` when it is not in `active_actions`.
`internet_retry` is its attempt count.  An outbox entry is what it reports and
about whom; its text, initiators, creation times and error messages are left
out, as are commands that are refused or only read.  `view` is what one
subscriber knows from its snapshot and the two policy events.  `fate`, `calls`,
`warned` and `acked` are history for the properties: confirmations sent, power
calls made, warnings raised, acknowledgements confirmed.

External: `gate_call` (a failing call may have applied the policy and may
report anything consistent with that), `initiate_shutdown`, the clocks, the crash.

### How the modules fit together

`Runtime` uses the other components through what they promise.  Its atomic
`save` is a `Replace` of `AtomicFiles`, which `FileStore` implements, and its crash the
death of the process, which no published save is lost in; its `gate_call`, which may
apply the policy and still fail, is what `InternetGate` can do; its
`request_stop` and `handle_stop` are the first and the last step of
`StopProtocol`; its `view` is one subscriber of `EventBus` that is never full;
its timers keep their identity because of `IdSource`.  `ScmRuntime` contains the
runtime as one value, running, poisoned or stopped, and `stop()` as one step.
`StopProtocol` knows a command only as one that calls the platform or not.

Losing power is a step of `FileStore` and not of `Runtime`.  Everything `Runtime`
says of a crash is about a process that dies under a running Windows; when the
machine loses power, state.json may go back by the replacements that Windows had
not yet written, and what was confirmed in between with it (section 3,
observations).

External to the code: the kernel, the SCM, the filter engine, clients, other
administrators, serde, Argon2 (an injective function), DPAPI (a sealed value).
They are modelled as the code uses them.

## 3. Runs

Every bound is a constant.  Deadlock is checked in every run.

| Run | Instance | Result |
|---|---|---|
| `durability` | `Runtime`: 2 timers, 3 commands, 1 fault of each kind, 1 crash, 1 command queued ahead of Stop | holds, 544 086 states |
| `platform` | `Runtime`: 1 timer, 3 commands, 2 gate faults, zero retry delays, 1 crash | holds, 4 160 473 states |
| `restarts` | `Runtime`: thresholds 1 s and 2 s, 2 ticks a second, 2 crashes, failing save and power call, clock set either way | holds, 929 456 states |
| `liveness` | `Runtime`, fair: 2 commands, failing save and gate call | holds, 65 101 states |
| `threads` | `StopProtocol`, `ScmRuntime`, `NamedPipe`, `IpcFraming`, fair | holds, 57 109 states |
| `adapters` | `FileStore`, `InternetGate`, `EventBus`, `NamedPipe`, `PowerController`, `ProtectedDirectory` | holds, 1 732 039 states |
| `inputs` | `StateCodec`, `IpcCodec`, `Credentials`, `ScmQuery`, `IdSource`, `PinLockout`, `WfpEngine`, `ScmProvisioning`; `FileStore` and `InternetGate` with their worst fault | holds, 2 931 166 states |
| `busy_loop` | `Runtime`: crash, clock set back | `WakeHasWork` violated |
| `reblock` | `Runtime`: no fault and no crash, a restore queued ahead of Stop | `ReblockHasCause` violated |
| `store_failure` | `Runtime`, fair: one failing save | `DeadlineHandled` violated |
| `gate_orphan` | `InternetGate`: an abort that fails | `ReportIsTrue` violated |
| `early_return` | `ScmRuntime`: no fault at all | `GracefulIsOk` violated |

### What the passing runs check

A property of a run is often a conjunction of named parts; each part is stated
and commented in the component's module.

| Run | Property | Parts |
|---|---|---|
| `durability` | `StateConsistent` | `TypeOK`, `DurabilityGap` |
| | `EffectIsDurable`, `CleanStopDurable` | |
| | `ConfirmedStays` | `CancelledStaysCancelled`, `AcceptedNotLost` |
| | `OutboxExact` | `OutboxLossless`, `AckedStaysGone` |
| | `ImplementsLifecycle` | refinement of `ActionLifecycle` |
| `platform` | `ReportTruthful` | `EnforcementTruthful`, `RetryArmed`, `ShutdownStateTruthful` |
| | `ViewCurrent` | `InternetViewCurrent`, `ShutdownViewCurrent` |
| | `TimersArmed` | `PendingAnchored`, `WakeHasWork` |
| | `ReblockHasTimer` | |
| `restarts` | `ShutdownAtMostOnce` | |
| | `WarningsExact` | `WarningTimely`, `WarnAtMostOnce` |
| `liveness` | `DeadlineHandledOrCritical`, `RetryTaken`, `StopTerminates` | |
| `threads` | `StopSafe` | `StopTypeOK`, `StopFencesEffects`, `AcceptedAnswered`, `JoinBeforeReturn` |
| | `EveryoneServed` | `ClientReturns`, `StopReturns`, `ClockServed` |
| | `ServiceStatusTrue` | `ScmTypeOK`, `StoppedOnce`, `StoppedMeansQuiet`, `CleanExitEarned`, `LocalViewCurrent`, `OkIsConfirmed` |
| | `StopCarriedOut`, `CancelEndsWait`, `DisconnectDecided` | |
| | `ReaderExact` | `FramesIntact`, `VerdictTrue` |
| `adapters` | `StoresKeepTheirWord` | `StoresAreAtomic` (refinement of `AtomicFiles`), `ReportedIsStored` |
| | `GateSafe` | `GateTypeOK`, `ReportIsTrue`, `NoOrphanTransaction` |
| | `RegistryExact`, `HealthViewCurrent` | the first: `BusTypeOK`, `CountIsRegistry`, `NoGap`, `IdsNeverReused`, `DroppedForCause` |
| | `ConnectionsSafe` | `PipeTypeOK`, `NoDanglingIo`, `NeverLeavesImpersonating`, `StreamAligned`, `AdminIsActive` |
| | `PrivilegeSafe` | `PowerTypeOK`, `InBounds`, `FailureLeavesToken`, `OkIsAccepted` |
| | `DirectorySafe` | `OkIsProtected`, `LinksNotFollowed`, `RefusalsChangeNothing` |
| `inputs` | `StateExact` | `StateRoundTrip`, `LoadedIsSavable`, `SameRules` |
| | `IpcExact` | `IpcRoundTrip`, `EventsFaithful`, `RefusedAsDocumented`, `AcceptedIsWhole` |
| | `PinHonoured` | `OnlyThePin`, `NoDowngrade`, `LoadedIsCanonical` |
| | `LockoutExact` | `LockoutTypeOK`, `GuessingIsPaidFor`, `NeverLongerThanPromised`, `LockoutIsFixed` |
| | `QueryExact` | `ReadAsWritten`, `NothingRefused` |
| | `NoSharedId` | |
| | `EngineReadExact` | `AcceptedMatchesChildOnly`, `EnumerationComplete`, `NothingLeaked` |
| | `ProvisioningConverges` | `ProvisioningTypeOK`, `OkIsCanonical`, `WritesAreWarranted`, `RepairAlwaysPossible`, `RestartAdvised` |
| | `StoreRecovers` | `StoreTypeOK`, `NoTempLeak`, `StartsFromSaved` |
| | `GateWhole` | `GateStepIsWhole`, `OkMeansDone` |

### Grouped components

`MCThreads`, `MCAdapters` and `MCInputs` extend several components and add one
variable, `focus`.  Init chooses the component a behaviour is about; only that
one takes steps, and the others stay in one of their initial states.  The state
space is therefore the sum of the components' state spaces and not their
product, and a behaviour of a component in the group is a behaviour of the
component alone: the components of a group share no variable, and in the
program they share no memory.  An invariant of a component is checked in all of
its states; its liveness properties assume the fairness the component states,
which the group repeats for the component in focus.  `BoundReached` in
`MCInputs` is the end of the bounded clock of `PinLockout` and of the bounded
attempts of `ScmProvisioning`, the two places where a behaviour stops because
of a bound.

### Bounds

`Runtime`: timers interact only through `desired`, the shutdown state and the
order in which one tick executes them, so two show every interaction; a kept
candidate needs one failed save and is confused by one later commit and a crash;
a retry chain repeats itself after the second failure; one tick of the clock
separates "before" from "at" a deadline, and with two ticks a second a restart
falls between two seconds.  Timers are symmetric in `durability`, which has no
temporal property with fairness.

`StopProtocol`: two clients that call for ever (`Endless`), one panic; a third
client adds another waiter at the same lock.  `ScmRuntime` is finite as it is.
`NamedPipe`: one thread for liveness, two over one instance for safety, a prefix
of two bytes, so that a read can be complete, partial or empty.  `IpcFraming`:
two frames with a length prefix of two digits, so that a frame can end inside
the next one's prefix, and lengths of one less than, exactly and one more than
the limit.  `FileStore`: two faults, each at any step of a save: one to lose or tear
something and one more after that; two names so that one can be taken; two values
for state.json, which is replaced over and over, and one good and one bad value
for the two files that only the set-up writes (`SetUpValue`).  `InternetGate`: two filter keys, two SIDs, objects of others, two
changes by others.  `EventBus`: three identifiers (the last one is the end of the
range), room for two events, two events to fill it.  `PowerController`: buffer
lengths around the header, one entry and the largest number.
`ProtectedDirectory`: three changes by others, one for each of its calls.
`StateCodec` and `IpcCodec`: two actions and one entry, one byte per identifier
with digits on both sides of ten, two faults at once.  `Credentials`: two PINs,
two salts, every parameter from zero to more than the canonical value, any number
of set-ups and starts, three edits from one set-up to the next (`MaxCredEdits`):
one to spoil a field, one to put it back and one to put in another digest.
`ScmQuery`: five units hold two strings with their terminators.  `IdSource`: a
two-bit space wraps within one run.  `PinLockout`: 780 s in steps of 30 s and
270 s reach every entry of the schedule and the instant a lockout ends.
`WfpEngine`: five filters in pages of two: full, partly filled and empty pages.
`ScmProvisioning`: every drift as the initial entry, two attempts, one step of
another administrator.

### Remarks on single properties

What a property says is in the comment above its definition.  Some deserve a
remark:

* `ImplementsLifecycle` is a refinement: `ActionLifecycle` with `life` mapped to
  the stage stored in state.json.  Its abstract power call requires a durable
  Executing and no earlier call, so it contains "never twice" and "durable
  first" in one statement about the whole behaviour.
* `StoresAreAtomic` is a refinement too, of `AtomicFiles`; it holds as long as
  ReplaceFileW does not lose the file it replaces (`ReplaceMayLose`).
* `ReportedIsStored` and `StartsFromSaved` do not say that a save that reported
  success outlives a power failure: one that replaced a file may not.  They say
  that a file then is what the disk had of it (`restored`), and that only a power
  failure does this.  Which value that is, `StoresAreAtomic` says: one the file
  had, no older than its first.  A temp file that was removed may come back as
  well; that is left out, as it would be one more among those a power failure
  excuses anyway.
* `OnlyThePin`: the file is protected by its DACL and not by a secret, so whoever
  can write it can put in the digest of a PIN of their own, and the code accepts
  that PIN (`plant`).  `pin` is whose digest was put in last.
* `LinksNotFollowed` is about links that were there when the call looked.  One
  put there between the last look and SetNamedSecurityInfoW is followed, since
  that call takes a path; `swapped` marks it.
* `RefusedAsDocumented` has one exception, `Refusal`: a version beyond 64 bits is
  refused with another code than docs/021 has for it.
* `OkIsCanonical` and `RestartAdvised` are about calls that nobody else's write
  falls into.  After one that was disturbed only this is certain, that a call
  nothing disturbs repairs the entry (`RepairAlwaysPossible`).
* `ShutdownViewCurrent` excepts a reported power failure: the event of a failed
  shutdown is only sent if its save succeeds, and nothing sends it later.
* `WakeHasWork` holds as long as the wall clock is not set back across a restart
  (`platform`), and fails when it is (`busy_loop`).
* `ReblockHasTimer` is what is left of `ReblockHasCause`, which fails
  (`reblock`): the stored policy goes back to Blocked only for a command or for a
  block timer that is Pending or Executing, but an Executing one may be old.
* `ReportIsTrue` holds when aborts succeed (`adapters`); `OkMeansDone` and
  `GateStepIsWhole` hold even when they fail (`inputs`).
* `NoDanglingIo` is checked for waits that do not fail, with cancellations that
  may (`adapters`); `CancelEndsWait` for waits that may fail and cancellations
  that do not (`threads`): each is false in the other's instance.
* `ClockServed` says that a due clock is served unless the queue is non-empty
  over and over again: `recv_timeout` prefers a queued command to a timeout.
* `SameRules` and `LoadedIsSavable` compare two validators that the code writes
  twice, one for each direction.

### What the violations show

* **busy_loop.** A crash leaves an action Executing on disk.  If the wall clock
  is set back before the next start its deadline is in the future again:
  recovery arms an anchor for it although it is not Pending.  When the anchor
  expires, the deadline handler returns early and leaves it, and
  `next_wake_timeout` answers zero for good.  docs/016 rules out a busy loop.
* **reblock.** Stop interrupts a block deadline between the save of Executing
  and the firewall call.  A restore was queued ahead of Stop and is saved.  The
  block is still Executing on disk, and once it is overdue the next start sets
  the saved policy to Blocked.  docs/009 has start-up reconcile unconditionally
  with the saved policy.  (A crash with the clock set back does the same.)
* **store_failure.** After one failed save the worker waits without a timeout.
  A deadline that comes is not handled until some command saves successfully.
  docs/016 lists the deadline among the events that end the wait.  What does
  hold is `DeadlineHandledOrCritical`: the service then reports itself unhealthy.
* **gate_orphan.** `commit` fails, and so does the abort that follows.  The
  guard has already marked itself inactive, so nothing aborts again, and the
  session keeps its transaction.  The next `current_state` reads through that
  session, finds the uncommitted filters and answers Blocked while the child's
  traffic passes.  docs/018 (WIG-37) rules out a false Blocked.
* **early_return.** STOPPED lets StartServiceCtrlDispatcherW return.  The
  dispatcher's thread then takes the result cell, which `ServiceMain` fills only
  after its entry has returned.  A graceful stop can end as InternalBridgeError.
  The doc comment says the call blocks until the service has completed.

### Observations without a run of their own

Seen while modelling; each is a constant or a proviso of a passing property.

* Clients that keep the queue full starve the clock (`ClockServed` excepts it).
* ReplaceFileW is called without a backup name; one of its documented failures
  leaves neither file (`ReplaceMayLose`; docs/009 calls the updates atomic).
* After WAIT_FAILED a pipe call returns with its operation pending
  (`WaitMayFail`).
* The comment on `MAX_DURATION_MINUTES` computes floor((u32::MAX - 60) / 60) and
  writes 71582788; that floor is 71582787.  The product still fits in 32 bits.
* A version number beyond 64 bits parses as a float and is refused as
  ProtocolError, where docs/021 (IPC-05) has UnsupportedProtocolVersion
  (`Refusal`).
* docs/016 (section 10) has a command confirmed only when state.json is "on the
  stable medium".  The temp file is flushed and a first publication written
  through, but ReplaceFileW is called with no flags and nothing is flushed after
  it (`atomic_file.rs:99`), so that a power failure soon after can bring back the
  state before the confirmed command.  docs/009 (section 12) prescribes just these
  two calls, and that the temp file be flushed.
* Provisioning advises an OS restart from the snapshot the attempt began with:
  after an attempt that cleared the flag and then failed, the next finds nothing
  to change and advises nothing.  `RestartAdvised` is about single attempts.
* Failed blocks stay in `active_actions` and every failed retry adds an outbox
  entry; nothing bounds state.json, and a status response above 1 MiB is refused.
* Once RUNNING is reported nothing watches the worker; a panic is noticed at the
  next control.
* `reset_cancel` before a waiting thread has seen the cancel leaves it waiting;
  `CancelEndsWait` is about a cancel that is not reset.

### Fairness

* `Runtime`.  `WF(Worker)`: the worker is an ordinary thread in a loop that never
  exits before Stop, so an enabled step of it is taken.  `WF(Command /\ stop =
  "requested")`: commands queued ahead of Stop are received in order.
  `WF(Advance)`: the monotonic clock does not stand still.  Nothing is assumed of
  clients: no command has to come, which is what `store_failure` rests on.  Weak
  fairness of `Worker` as a whole does exclude a client that keeps the queue full
  for ever; that case is `StopProtocol`'s.
* `StopProtocol`.  Weak fairness of every thread inside a call: threads are
  scheduled.  Strong fairness of taking a mutex: it is released again and again,
  and the std mutex does not pass a waiter over for ever (SRW locks do not
  promise an order, so this is an assumption about the platform).  Strong
  fairness of `timeout`: a queue that is found empty again and again is found
  empty by `recv_timeout`.  No client has to call, and stop() need not be called.
* `ScmRuntime`.  Weak fairness of `ServiceMain` and of the control handler:
  both are threads.  Nothing is assumed of the SCM; no control has to come.
* `NamedPipe`.  Weak fairness of the server's threads; none of clients.
* `IpcFraming`.  Weak fairness of the transport and of the reader; none of the
  writer, who may stop in the middle of a frame without hanging up.

## 4. Proofs

Every theorem holds for every value of the constants that satisfies the ASSUMEs
of its component.  Most of these say only what kind of value a constant is and
that values meant to differ do.  Six say more: `IdAssumption` (no run makes
more calls than there are identifiers: 2^128 in the code), `PowerAssumption`
(usize holds a number above 3, as the header is four bytes), `NoEntryAssumption`
(the value for "no entry" is no entry), `LengthFits` (nothing is left of the
longest payload's length after `PrefixBytes` divisions by `Radix`: no payload of
4 GiB, so the casts to u32 are exact), `IpcBounds` (the wrong versions
put into a document are not the right one, nor none at all: there is no further
restriction on them), and `PinFits` (a request with the longest
PIN fits a frame of 64 KiB even if every character of it needs six bytes;
`validate` puts no bound on a PIN, so a sender's longer one is refused with
FrameTooLarge, which `IpcRoundTrip` does not allow for).  A theorem with a
further hypothesis says so in its statement: `JumpsForward`, `~AbortMayFail`,
`~ReplaceMayLose`, `~WaitMayFail`.  For each a run shows the property to fail
without it, or an observation of section 3 says what happens.

| Run | Property | Theorem | Hypothesis |
|---|---|---|---|
| `durability` | `StateConsistent`, `EffectIsDurable` | `RuntimeProofs!Consistent`, `DurableBeforeSideEffect` | |
| | `ConfirmedStays`, `CleanStopDurable`, `ImplementsLifecycle` | `TimerProofs!Confirmed`, `StopIsDurable`, `LifecycleImplemented` | |
| | `OutboxExact` | `ReportProofs!EntriesExactlyOnce` | |
| `platform` | `ReportTruthful`, `ViewCurrent` | `ReportProofs!TruthfulReports`, `CurrentViews` | |
| | `TimersArmed` | `ReportProofs!WakesExactly` | `JumpsForward` |
| | `ReblockHasTimer` | `TimerProofs!RestoreRespected` | |
| `restarts` | `ShutdownAtMostOnce` | `TimerProofs!AtMostOneShutdown` | |
| | `WarningsExact` | `ReportProofs!WarningsOnceInWindow` | |
| `threads` | `StopSafe`, `ServiceStatusTrue` | `StopProofs!SafeStop`, `StatusTrue` | |
| | `ReaderExact` | `ChannelProofs!FramesExact` | |
| `adapters` | `GateSafe` | `AdapterProofs!GateReportsTruth` | `~AbortMayFail` |
| | `StoresKeepTheirWord` | `AdapterProofs!KeptWord` | `~ReplaceMayLose` |
| | `PrivilegeSafe`, `DirectorySafe` | `AdapterProofs!PrivilegeKept`, `DirectoryProtected` | |
| | `RegistryExact`, `HealthViewCurrent` | `ChannelProofs!ExactRegistry`, `HealthCurrent` | |
| | `ConnectionsSafe` | `ChannelProofs!SafeConnections` | `~WaitMayFail` |
| `inputs` | `GateWhole`, `StoreRecovers` | `AdapterProofs!GateAllOrNothing`, `Recovers` | |
| | `NoSharedId`, `EngineReadExact`, `ProvisioningConverges`, `LockoutExact` | `InputProofs!IdsUnique`, `EngineRead`, `ProvisioningHolds`, `ExactLockout` | |
| | `PinHonoured`, `StateExact`, `QueryExact` | `InputProofs!OnlyThisPin`, `SavesLoad`, `QueryReadsExactly` | |
| | `IpcExact` | `InputProofs!IpcFaithful` | |

What follows is the argument behind each.  TLC checked every invariant on a
small instance before it was proved.

### The coordinator

`RuntimeProofs` proves `IInv == TypeOK /\ DurabilityGap /\ JobOK` inductive.
`DurabilityGap` alone is not: a platform call is made from memory and saved
later, so `JobOK` records what a handler in progress relies on, namely that no
candidate is kept while it is between its first save and its call or its second
save (a successful first save cleared it), that the disk already holds the
intent, and that the candidate about to be saved is well formed.
`EffectIsDurable` is then a consequence.  There is one lemma per action, each
resting on lemmas about the candidate the action saves and on `CommitGap`, which
says what an authoritative commit does to the gap.

`TimerProofs` relates, timer by timer, the history (confirmed, cancelled,
called) to the action in memory, on disk and in the candidate about to be saved
(`TimerInv`): a timer that was called is not Pending in any of them, a cancelled
one is in none, an accepted one is in all, and a worker about to call the power
controller does so for a timer never called.  The disk may still say Executing
after a call; that is harmless because a deadline executes only Pending actions
and recovery makes nothing Pending.  `LagInv` adds in what way disk, memory and
candidate differ: each is ahead of the one before it by the outcome of a platform
call and its outbox entries, by nothing else, and they agree on the policy.  With
it every step of the coordinator becomes one of a few steps of state.json
(`DiskStep`), whatever crash, recovery or kept candidate made it.  The refinement
of `ActionLifecycle` (initial states to initial states, every step to an abstract
step or a stutter), `OutboxLossless` and `ReblockHasTimer` are read off that list.

`ReportProofs`: `ReportInv` says at each point of a handler which state the
snapshot speaks of (memory, or the candidate once the firewall was called), when
a healthy gate enforces that state's policy and when a retry is armed.
`ViewInv` says the same of a subscriber: it lags behind exactly between a
handler's first save and the event it emits after the call.

By the clocks (the second half of that module): `AnchorInv` gives every pending action an anchor that ends no
later than its whole duration after its start and whose cursor has passed no
threshold still to be announced; a failed save takes an action and its anchor
along or neither.  `WarnInv` has every warning raised recorded with the action,
on disk as in memory, so that a restart does not raise it again.  `NoteInv` keeps
what is offered and what was acknowledged apart; it needs to know that an entry
is never made twice, hence what trace each made one has left (`Known`).
`ForwardInv` has the deadline of an Executing or Failed action behind the clock,
so that recovery arms nothing for it, and the wall clock no further from a
deadline than the anchor is: this is where `JumpsForward` enters, and `busy_loop`
shows that it has to.

### Threads and channels

`StopProofs` proves which thread holds which mutex at which point (`Mutexes`),
that `closed` and `stop_requested` follow the owner's progress (`Closing`), that
Stop, once queued, is the last message (`StopIsLast`, `NothingAfterStop`) and
that a caller waits only on a channel that something still holds (`Channels`).
`StopFencesEffects` and `JoinBeforeReturn` are inductive with these;
`AcceptedAnswered` is not inductive, because a worker that leaves drops what is
queued: it follows from Stop being last, and that from both senders holding the
ingress mutex.

For `ScmRuntime` the program point of `ServiceMain` determines what has been
reported and what the runtime does (`Where`); the remembered status is the SCM's
but for a STOPPED published as a last resort (`Told`); nothing runs after STOPPED
(`Quiet`); an Ok travels to the dispatcher's caller only over a result that was
earned (`OkEarned`).

Event bus: `NoGap` says nothing of the subscription a handler is just making;
`BusPhase` adds that its channel is empty until the reply, and that the count is
the registry's size except during a reconciliation.  `Fresh` puts every
identifier given out below the next one.  `HealthViewCurrent` holds between
handlers; in the middle of one it holds for everybody except the subscription
being made (`ViewsCurrent`), because each event is sent before the reconciliation
that may change the health once more.

Pipe: at every point of the I/O loop, whichever of completion and cancellation
came first, the bytes ReadFile took are those counted plus those about to be
counted (`Bytes`); the verdict on a client is that of its token (`Verdict`).

Framing: `Stream` says that the reader's buffer, the bytes under way and the
bytes not yet written are, together, the frames begun and not yet read, one
behind the other.  Where each ends is given by a function of offsets
(`FramedAt`), which turns statements about a concatenation of frames into
arithmetic.  Moving bytes along leaves `Stream` as it is; only a new frame
(`FramedAppend`) and a frame that is read (`FramedDrop`) change it.  That the
prefix read is the length written is a theorem (`PrefixExact`): the value of the
last k bytes is what was left of the length before them, by induction on k.

### Data

`DataInduction` has what the other proofs need about data of any size.  The
library states induction over an operator `P(_)`, which the provers cannot
instantiate; `Induction` states it over a set of numbers instead, from the least
element of a set (`WFMin` with `NatLessThanWellFounded`).  From it follow that a
function defined by recursion on its argument exists and satisfies its
recurrence (`Recursion`, over `Runs`) with values of the type each step keeps
(`RunsTyped`), and what FlattenSeq does to a list that grows at its end
(`FlattenAppend`), with the place of every piece (`Pieces`, `PiecesStay`).

### Adapters and inputs

File stores: a temp file is published only when written and flushed
(`Prepared`), so a canonical file is always flushed (`Flushed`) and a power
failure finds nothing in it to tear.  What it finds on the disk is a whole value
too, and there is one for every file that exists (`Stable`), because a first
publication is written through and Windows only ever writes a whole file after
it.  So initial states and steps of `FileStore` map to those of `AtomicFiles`,
with `stable` as it is and the contents for `content`: a publication is
`Replace`, a write to the disk `Settle`, and everything else a stutter or a
`PowerFailure`.  What bootstrap has read so far is what was last reported as
saved or went back to (`Loading`).  A file that ReplaceFileW loses is gone, never
something else (`StoredOrLost`), so a start takes all of what was saved or fails.
The save at work owns one temp file (`Own`) and names differ (`Named`), so its
removal takes one away and the count stays within the faults (`Counted`).

Internet gate: `Mutation` says how far the open transaction's copy has come from
the committed objects, and that it differs from them only in PALKA's own
(`Keeps`); a commit then publishes all or nothing.  For the truth of a report
`ReadSoFar` relates the series of reads to the committed objects, and
`TransactionsEnd` keeps the series outside any transaction; that one is false when
an abort may fail (`gate_orphan`).

Power controller: a parser reads no more than the buffer holds, whatever length
and count it claims; the privilege is as it was found until it is enabled, and
from then on `previous` is what a restore needs.

Protected directory: nothing is set before the call returns, and when it is about
to set the DACL of what exists, that is a directory, unless somebody has changed
it since the last look (`DirectoryInv`).

Identifiers: one in use is reserved from an earlier run or was given out in this
one fewer calls ago than the sequence is long (`Age`, `Given`), so the next is
neither.  Filter engine: pages are as long as they can be and never longer than
what is left (`PagesAddUp`).  Provisioning: what the call has read of the entry
is what the entry is for as long as nobody else wrote to it (`Undisturbed`).  PIN
lockout: the level is the number of lockouts capped at two, the guesses are three
per lockout plus the current failures, and the sum of all promised lockouts never
exceeds the time until the running one ends.

Credentials: until somebody edits it, the file is the hash of the PIN of the last
set-up and the sealed token (`Untouched`); afterwards it still is a document whose
digest, if it has one, is that of the PIN put in last (`Digest`): no edit of a text
or a parameter makes a digest of another PIN.  What the service holds is that
document, of which Base64 has one canonical text (`Loaded`), and a tried PIN is
accepted on its digest and salt, so on that PIN alone.

State codec: each conversion is inverse to the other part by part: digits of
bytes (`BytesAsDigits`, `DigitsAsBytes`), thresholds as a sorted list
(`SetAsList`), actions, entries, the document (`DocumentIsRead`).  What a load
accepts a save would (`ReadIsStorable`), and an edited document is still a
document.

Query buffers: `ReadSo` is the invariant of the loop over a string list: the
strings read so far with their terminators, followed by the one being read, are
the units seen so far.  For the other direction `Inside` places the n-th string
of a well-formed list, and the loop has read exactly n strings when it gets there.

IPC documents: `PinRoundTrip` and `IdDigits` undo the escapes and the digits, the
first by recursion over the tokens (`TokenSteps`); `EventsDiffer` shows that the
conversion to the wire is injective, field by field.  `IpcInv` speaks of the
document under way by the number of faults in it.  Without one it is what the
sender made (`Untampered`), so that it is read back; with one it is such a document
after that fault (`Tampered`), so that its code follows fault by fault
(`EnvelopeRefuses`, `RequestRefuses`), each fault failing the first check that sees
it.  That says nothing of a second fault, which may undo the first; what survives
any number is only that a request still has the shape of a document (`Framed`).
It is enough: the decoder takes a document apart so far that one it accepts has no
fault left to show (`Accepted`), whichever way it came about.

### Model-checked only

* Liveness: `DeadlineHandledOrCritical`, `RetryTaken`, `StopTerminates`,
  `EveryoneServed`, `StopCarriedOut`, `CancelEndsWait`, `DisconnectDecided`.  The
  prover handles neither fairness nor ENABLED.

Every safety property of a passing run is a theorem.

## 5. Not modelled

The tray (a stub that prints a line) and the governance scripts (development
tooling).  Of the modelled components: the marshalling of arguments to Windows
calls, including the SDDL text and multi-string layouts written (the ones read
are in `ScmQuery` and `WfpEngine`); Argon2 and DPAPI themselves; JSON syntax
below the level of fields; the wording of messages and logs; the retry delay's
formula (`Runtime` allows any delay of `RetryDelays`).  Commands that are refused
before they change anything, and queries, are not steps of `Runtime`; that they
are answered is `StopProtocol`'s.  The correspondence of `Runtime`'s external
actions with `InternetGate`, `PowerController` and `StopProtocol` is by reading,
not by a checked refinement.

## 6. Plan

Left: the stop protocol and the internet gate shown to implement what `Runtime`
uses of them (`request_stop`, `handle_stop`, `gate_call`).
