----------------------------- MODULE StopProofs -----------------------------
(***************************************************************************)
(* StopProtocol for any number of clients and calls: who holds which mutex *)
(* where, and from it that stop() fences the platform calls, that every    *)
(* accepted command is answered and that stop() joins the worker.          *)
(*                                                                         *)
(* AcceptedAnswered is not inductive: a reply channel is dropped with what *)
(* is still queued when the worker leaves.  It holds because Stop is the   *)
(* last thing ever queued (StopIsLast), which in turn holds because        *)
(* clients and stop() send under the ingress mutex that guards the flag.   *)
(*                                                                         *)
(* ScmRuntime for any number of failed reports and of controls: what the   *)
(* entry remembers to have reported is what the SCM was told, but for a    *)
(* last resort that nobody remembers (Told); the step says what has been   *)
(* reported and what runs (Where); nothing runs once STOPPED was said, and *)
(* its exit code 0 was asked for (Quiet); and an Ok on its way to the      *)
(* caller has STOPPED behind it and no panic (OkEarned).                   *)
(***************************************************************************)
EXTENDS StopProtocol, ScmRuntime, SequenceTheorems, TLAPS

(* StopTypeOK in parts that a step can disturb separately. *)
Flags == closed \in BOOLEAN /\ poisoned \in BOOLEAN /\ stop_requested \in BOOLEAN /\ due \in BOOLEAN
Messages == queue \in Seq(Command) /\ job \in Job
Replies == reply \in [Client \cup {Owner} -> {"none", "open", "answered", "dropped"}]
Clients ==
    /\ cpc \in [Client -> {"idle", "want_lock", "locked", "waiting"}]
    /\ outcome \in [Client -> {"none", "answered", "Stopping", "Channel"}]
    /\ calls \in [Client -> 0..MaxCalls]
Points ==
    /\ ingress \in Client \cup {Owner, NoOne} /\ gate \in {Owner, Worker, NoOne}
    /\ panics \in 0..MaxPanics
    /\ opc \in {"running", "want_gate", "gated", "wait_reply", "join", "returned", "dropped", "aborted"}
    /\ wpc \in {"poll", "handle", "want_gate", "gated", "in_call", "after_call", "exiting", "exited", "panicked"}
Mutexes ==
    /\ ingress = Owner <=> opc \in {"want_gate", "gated", "aborted"}
    /\ \A c \in Client : ingress = c <=> cpc[c] = "locked"
    /\ gate = Owner <=> opc = "gated"
    /\ gate = Worker <=> wpc \in {"gated", "in_call"}

(* What the safety properties need beyond it. *)
Sent == opc \notin {"running", "want_gate", "gated"}
Closing == closed <=> opc # "running"
StopIsLast == \A i \in 1..Len(queue) : queue[i].kind = "stop" => Sent /\ i = Len(queue)
NothingAfterStop == job.kind = "stop" \/ wpc \in {"exiting", "exited"} => queue = <<>> /\ Sent
Channels ==
    \A c \in Client : /\ reply[c] = "dropped" => wpc = "panicked"
                      /\ cpc[c] = "waiting" => reply[c] # "none"
                      /\ outcome[c] = "Channel" => wpc = "panicked"

IInv == /\ Flags /\ Messages /\ Replies /\ Clients /\ Points /\ Mutexes
        /\ Closing /\ StopIsLast /\ NothingAfterStop /\ Channels
        /\ StopFencesEffects /\ JoinBeforeReturn

\* A client begins a call: one more of its calls, no mutex yet.
LEMMA begin_call_Inv ==
    ASSUME IInv, NEW c \in Client, begin_call(c)
    PROVE  IInv'
<1>1. Flags' /\ Messages' /\ Replies' /\ Points' /\ Closing' /\ StopIsLast' /\ NothingAfterStop'
     /\ StopFencesEffects' /\ JoinBeforeReturn'
    BY DEF IInv, Flags, Messages, Replies, Points, Closing, StopIsLast, NothingAfterStop,
           StopFencesEffects, JoinBeforeReturn, begin_call, Sent, locks, work
<1>2. Clients'
    BY BoundsAreNat DEF IInv, Clients, begin_call
<1>3. Mutexes'
    BY DEF IInv, Mutexes, begin_call, locks, work
<1>4. Channels'
    BY DEF IInv, Channels, begin_call, work
<1> QED BY <1>1, <1>2, <1>3, <1>4 DEF IInv

\* A client takes the ingress mutex only when it is free.
LEMMA lock_ingress_Inv ==
    ASSUME IInv, NEW c \in Client, lock_ingress(c)
    PROVE  IInv'
<1>1. Flags' /\ Messages' /\ Replies' /\ Closing' /\ StopIsLast' /\ NothingAfterStop'
      /\ StopFencesEffects' /\ JoinBeforeReturn'
    BY DEF IInv, Flags, Messages, Replies, Closing, StopIsLast, NothingAfterStop,
           StopFencesEffects, JoinBeforeReturn, lock_ingress, Sent, work
<1>2. Clients'
    BY DEF IInv, Clients, lock_ingress
<1>3. Points'
    BY DEF IInv, Points, lock_ingress, work
<1>4. Mutexes'
    BY ThreadsDistinct DEF IInv, Mutexes, lock_ingress, work, Points, Clients
<1>5. Channels'
    BY DEF IInv, Channels, lock_ingress, work
<1> QED BY <1>1, <1>2, <1>3, <1>4, <1>5 DEF IInv

\* A call that finds the queue closed gives the mutex back and returns Stopping.
LEMMA reject_Inv ==
    ASSUME IInv, NEW c \in Client, reject(c)
    PROVE  IInv'
<1>1. Flags' /\ Messages' /\ Replies' /\ Closing' /\ StopIsLast' /\ NothingAfterStop'
      /\ StopFencesEffects' /\ JoinBeforeReturn'
    BY DEF IInv, Flags, Messages, Replies, Closing, StopIsLast, NothingAfterStop,
           StopFencesEffects, JoinBeforeReturn, reject, Sent, work
<1>2. Clients'
    BY DEF IInv, Clients, reject, return_call, admits
<1>3. Points'
    BY DEF IInv, Points, reject, return_call, admits, work
<1>4. Mutexes'
    BY ThreadsDistinct DEF IInv, Mutexes, reject, return_call, admits, work, Points, Clients
<1>5. Channels'
    BY DEF IInv, Channels, reject, return_call, admits, work
<1> QED BY <1>1, <1>2, <1>3, <1>4, <1>5 DEF IInv

\* A command is queued only while the flag is clear: no Stop can be queued before
\* it, and send() can fail only because the worker panicked.
LEMMA send_Inv ==
    ASSUME IInv, NEW c \in Client, NEW kind \in Kind, send(c, kind)
    PROVE  IInv'
<1>1. Flags' /\ Closing' /\ StopFencesEffects' /\ JoinBeforeReturn'
    BY DEF IInv, Flags, Closing, StopFencesEffects, JoinBeforeReturn, send, work
<1>2. Messages'
    BY DEF IInv, Messages, send, return_call, admits, work, Job, Command, Kind, Idle, ClockWork
<1>3. Replies'
    BY DEF IInv, Replies, send, return_call, admits
<1>4. Clients'
    BY DEF IInv, Clients, send, return_call, admits
<1>5. Points'
    BY DEF IInv, Points, send, return_call, admits, work
<1>6. Mutexes'
    BY ThreadsDistinct DEF IInv, Mutexes, send, return_call, admits, work, Points, Clients
<1>7. StopIsLast'
    <2>1. \A i \in 1..Len(queue) : queue[i].kind # "stop"
        BY DEF IInv, StopIsLast, Closing, Sent, send, admits
    <2>2. CASE wpc \in Gone
        BY <2>1, <2>2 DEF StopIsLast, send
    <2>3. CASE wpc \notin Gone
        <3>1. queue \in Seq(Command) /\ queue' = Append(queue, [from |-> c, kind |-> kind])
            BY <2>3 DEF IInv, Messages, send
        <3>2. kind # "stop"
            BY DEF Kind
        <3>3. \A i \in 1..Len(queue') : queue'[i].kind # "stop"
            BY <2>1, <3>1, <3>2
        <3> QED BY <3>3 DEF StopIsLast
    <2> QED BY <2>2, <2>3
<1>8. NothingAfterStop'
    BY DEF IInv, NothingAfterStop, Sent, send, return_call, admits, work, Closing, Idle,
           ClockWork
<1>9. Channels'
    BY DEF IInv, Channels, send, return_call, admits, Gone, Points, Closing, NothingAfterStop,
           Sent, Replies, Clients, work
<1> QED BY <1>1, <1>2, <1>3, <1>4, <1>5, <1>6, <1>7, <1>8, <1>9 DEF IInv

\* A client reads the reply of its call: dropped only by a panic.
LEMMA recv_Inv ==
    ASSUME IInv, NEW c \in Client, recv(c)
    PROVE  IInv'
<1>1. Flags' /\ Messages' /\ Points' /\ Closing' /\ StopIsLast' /\ NothingAfterStop'
      /\ StopFencesEffects' /\ JoinBeforeReturn'
    BY DEF IInv, Flags, Messages, Points, Closing, StopIsLast, NothingAfterStop,
           StopFencesEffects, JoinBeforeReturn, recv, Sent, locks, work
<1>2. Replies'
    BY DEF IInv, Replies, recv, return_call
<1>3. Clients'
    BY DEF IInv, Clients, recv, return_call
<1>4. Mutexes'
    BY DEF IInv, Mutexes, recv, return_call, locks, work
<1>5. Channels'
    BY DEF IInv, Channels, recv, return_call, work, Replies, Clients, Points
<1> QED BY <1>1, <1>2, <1>3, <1>4, <1>5 DEF IInv

\* The worker takes the head of the queue; after Stop nothing is left in it.
LEMMA next_command_Inv ==
    ASSUME IInv, next_command
    PROVE  IInv'
<1>1. Flags' /\ Replies' /\ Clients' /\ Closing'
    BY DEF IInv, Flags, Replies, Clients, Closing, next_command, locks, threads
<1>2. Messages'
    BY DEF IInv, Messages, next_command, Job, Command, Kind, Idle, ClockWork
<1>3. Points'
    BY DEF IInv, Points, next_command, locks, threads
<1>4. Mutexes'
    BY DEF IInv, Mutexes, next_command, locks, threads
<1>5. StopIsLast'
    BY DEF IInv, StopIsLast, Sent, next_command, threads
<1>6. NothingAfterStop'
    BY DEF IInv, NothingAfterStop, StopIsLast, Messages, Sent, next_command, threads
<1>7. Channels'
    BY DEF IInv, Channels, next_command, threads
<1>8. StopFencesEffects'
    BY DEF IInv, StopFencesEffects, next_command, locks
<1>9. JoinBeforeReturn'
    BY DEF IInv, JoinBeforeReturn, next_command, threads, Gone, Points
<1> QED BY <1>1, <1>2, <1>3, <1>4, <1>5, <1>6, <1>7, <1>8, <1>9 DEF IInv

\* The worker takes its timeout instead of a command.
LEMMA timeout_Inv ==
    ASSUME IInv, timeout
    PROVE  IInv'
<1>1. Flags' /\ Replies' /\ Clients' /\ Closing' /\ StopIsLast'
    BY DEF IInv, Flags, Replies, Clients, Closing, StopIsLast, timeout, Sent, locks, threads
<1>2. Messages'
    BY DEF IInv, Messages, timeout, clock_is_served, Job, Command, Kind, Idle, ClockWork
<1>3. Points'
    BY DEF IInv, Points, timeout, clock_is_served, locks, threads
<1>4. Mutexes'
    BY DEF IInv, Mutexes, timeout, clock_is_served, locks, threads
<1>5. NothingAfterStop'
    BY DEF IInv, NothingAfterStop, Sent, timeout, clock_is_served, threads, Closing, Idle,
           ClockWork
<1>6. Channels'
    BY DEF IInv, Channels, timeout, clock_is_served, threads
<1>7. StopFencesEffects'
    BY DEF IInv, StopFencesEffects, timeout, clock_is_served, locks
<1>8. JoinBeforeReturn'
    BY DEF IInv, JoinBeforeReturn, timeout, clock_is_served, threads, Gone, Points
<1> QED BY <1>1, <1>2, <1>3, <1>4, <1>5, <1>6, <1>7, <1>8 DEF IInv

\* A handler without a platform call answers.
LEMMA handle_plain_Inv ==
    ASSUME IInv, handle_plain
    PROVE  IInv'
<1>1. Clients' /\ Closing' /\ StopIsLast'
    BY DEF IInv, Clients, Closing, StopIsLast, handle_plain, Sent, locks, threads
<1>2. Flags'
    BY DEF IInv, Flags, handle_plain, finish, locks
<1>3. Messages'
    BY DEF IInv, Messages, handle_plain, finish, Job, Command, Kind, Idle, ClockWork
<1>4. Replies'
    BY DEF IInv, Replies, handle_plain, finish, answer
<1>5. Points'
    BY DEF IInv, Points, handle_plain, finish, locks, threads
<1>6. Mutexes'
    BY DEF IInv, Mutexes, handle_plain, finish, locks, threads
<1>7. NothingAfterStop'
    BY DEF IInv, NothingAfterStop, Sent, handle_plain, finish, threads, Closing, Idle, ClockWork
<1>8. Channels'
    BY DEF IInv, Channels, handle_plain, finish, threads, answer
<1>9. StopFencesEffects'
    BY DEF IInv, StopFencesEffects, handle_plain, finish, locks
<1>10. JoinBeforeReturn'
    BY DEF IInv, JoinBeforeReturn, handle_plain, finish, threads, Gone, Points
<1> QED BY <1>1, <1>2, <1>3, <1>4, <1>5, <1>6, <1>7, <1>8, <1>9, <1>10 DEF IInv

\* The clock's round gives up at once while a stop is requested.
LEMMA clock_stopped_Inv ==
    ASSUME IInv, clock_stopped
    PROVE  IInv'
<1>1. Flags' /\ Replies' /\ Clients' /\ Closing' /\ StopIsLast'
    BY DEF IInv, Flags, Replies, Clients, Closing, StopIsLast, clock_stopped, Sent, locks,
           threads
<1>2. Messages'
    BY DEF IInv, Messages, clock_stopped, Job, Command, Kind, Idle, ClockWork
<1>3. Points'
    BY DEF IInv, Points, clock_stopped, locks, threads
<1>4. Mutexes'
    BY DEF IInv, Mutexes, clock_stopped, locks, threads
<1>5. NothingAfterStop'
    BY DEF IInv, NothingAfterStop, Sent, clock_stopped, threads, Closing, Idle, ClockWork
<1>6. Channels'
    BY DEF IInv, Channels, clock_stopped, threads
<1>7. StopFencesEffects'
    BY DEF IInv, StopFencesEffects, clock_stopped, locks
<1>8. JoinBeforeReturn'
    BY DEF IInv, JoinBeforeReturn, clock_stopped, threads, Gone, Points
<1> QED BY <1>1, <1>2, <1>3, <1>4, <1>5, <1>6, <1>7, <1>8 DEF IInv

\* A handler goes for the platform gate.
LEMMA handle_effect_Inv ==
    ASSUME IInv, handle_effect
    PROVE  IInv'
<1>1. Flags' /\ Messages' /\ Replies' /\ Clients' /\ Closing' /\ StopIsLast'
    BY DEF IInv, Flags, Messages, Replies, Clients, Closing, StopIsLast, handle_effect, Sent,
           locks, threads
<1>2. Points'
    BY DEF IInv, Points, handle_effect, locks, threads
<1>3. Mutexes'
    BY DEF IInv, Mutexes, handle_effect, locks, threads
<1>4. NothingAfterStop'
    BY DEF IInv, NothingAfterStop, Sent, handle_effect, threads
<1>5. Channels'
    BY DEF IInv, Channels, handle_effect, threads
<1>6. StopFencesEffects'
    BY DEF IInv, StopFencesEffects, handle_effect, locks
<1>7. JoinBeforeReturn'
    BY DEF IInv, JoinBeforeReturn, handle_effect, threads, Gone, Points
<1> QED BY <1>1, <1>2, <1>3, <1>4, <1>5, <1>6, <1>7 DEF IInv

\* The worker takes the gate only when it is free.
LEMMA lock_gate_Inv ==
    ASSUME IInv, lock_gate
    PROVE  IInv'
<1>1. Flags' /\ Messages' /\ Replies' /\ Clients' /\ Closing' /\ StopIsLast'
    BY DEF IInv, Flags, Messages, Replies, Clients, Closing, StopIsLast, lock_gate, Sent,
           threads
<1>2. Points'
    BY DEF IInv, Points, lock_gate, threads
<1>3. Mutexes'
    BY ThreadsDistinct DEF IInv, Mutexes, lock_gate, threads, Points, Clients
<1>4. NothingAfterStop'
    BY DEF IInv, NothingAfterStop, Sent, lock_gate, threads
<1>5. Channels'
    BY DEF IInv, Channels, lock_gate, threads
<1>6. StopFencesEffects'
    BY DEF IInv, StopFencesEffects, lock_gate
<1>7. JoinBeforeReturn'
    BY DEF IInv, JoinBeforeReturn, lock_gate, threads, Gone, Points
<1> QED BY <1>1, <1>2, <1>3, <1>4, <1>5, <1>6, <1>7 DEF IInv

\* A platform call begins only while no stop is requested.
LEMMA call_platform_Inv ==
    ASSUME IInv, call_platform
    PROVE  IInv'
<1>1. Flags' /\ Messages' /\ Replies' /\ Clients' /\ Closing' /\ StopIsLast'
    BY DEF IInv, Flags, Messages, Replies, Clients, Closing, StopIsLast, call_platform, Sent,
           locks, threads
<1>2. Points'
    BY DEF IInv, Points, call_platform, may_call, locks, threads
<1>3. Mutexes'
    BY DEF IInv, Mutexes, call_platform, may_call, locks, threads
<1>4. NothingAfterStop'
    BY DEF IInv, NothingAfterStop, Sent, call_platform, may_call, threads
<1>5. Channels'
    BY DEF IInv, Channels, call_platform, may_call, threads
<1>6. StopFencesEffects'
    BY DEF IInv, StopFencesEffects, call_platform, may_call, locks
<1>7. JoinBeforeReturn'
    BY DEF IInv, JoinBeforeReturn, call_platform, may_call, threads, Gone, Points
<1> QED BY <1>1, <1>2, <1>3, <1>4, <1>5, <1>6, <1>7 DEF IInv

\* A worker that finds the stop requested releases the gate and answers.
LEMMA give_up_Inv ==
    ASSUME IInv, give_up
    PROVE  IInv'
<1>1. Clients' /\ Closing' /\ StopIsLast'
    BY DEF IInv, Clients, Closing, StopIsLast, give_up, Sent, threads
<1>2. Flags'
    BY DEF IInv, Flags, give_up, may_call, finish
<1>3. Messages'
    BY DEF IInv, Messages, give_up, may_call, finish, Job, Command, Kind, Idle, ClockWork
<1>4. Replies'
    BY DEF IInv, Replies, give_up, may_call, finish, answer
<1>5. Points'
    BY DEF IInv, Points, give_up, may_call, finish, threads
<1>6. Mutexes'
    BY ThreadsDistinct DEF IInv, Mutexes, give_up, may_call, finish, threads, Points, Clients
<1>7. NothingAfterStop'
    BY DEF IInv, NothingAfterStop, Sent, give_up, may_call, finish, threads, Closing, Idle,
           ClockWork
<1>8. Channels'
    BY DEF IInv, Channels, give_up, may_call, finish, threads, answer
<1>9. StopFencesEffects'
    BY DEF IInv, StopFencesEffects, give_up, may_call, finish
<1>10. JoinBeforeReturn'
    BY DEF IInv, JoinBeforeReturn, give_up, may_call, finish, threads, Gone, Points
<1> QED BY <1>1, <1>2, <1>3, <1>4, <1>5, <1>6, <1>7, <1>8, <1>9, <1>10 DEF IInv

\* A platform call that returns releases the gate.
LEMMA platform_returns_Inv ==
    ASSUME IInv, platform_returns
    PROVE  IInv'
<1>1. Flags' /\ Messages' /\ Replies' /\ Clients' /\ Closing' /\ StopIsLast'
    BY DEF IInv, Flags, Messages, Replies, Clients, Closing, StopIsLast, platform_returns, Sent,
           threads
<1>2. Points'
    BY DEF IInv, Points, platform_returns, threads
<1>3. Mutexes'
    BY ThreadsDistinct DEF IInv, Mutexes, platform_returns, threads, Points, Clients
<1>4. NothingAfterStop'
    BY DEF IInv, NothingAfterStop, Sent, platform_returns, threads
<1>5. Channels'
    BY DEF IInv, Channels, platform_returns, threads
<1>6. StopFencesEffects'
    BY DEF IInv, StopFencesEffects, platform_returns
<1>7. JoinBeforeReturn'
    BY DEF IInv, JoinBeforeReturn, platform_returns, threads, Gone, Points
<1> QED BY <1>1, <1>2, <1>3, <1>4, <1>5, <1>6, <1>7 DEF IInv

\* The result is saved and answered without the gate.
LEMMA after_call_Inv ==
    ASSUME IInv, after_call
    PROVE  IInv'
<1>1. Clients' /\ Closing' /\ StopIsLast'
    BY DEF IInv, Clients, Closing, StopIsLast, after_call, Sent, locks, threads
<1>2. Flags'
    BY DEF IInv, Flags, after_call, finish, locks
<1>3. Messages'
    BY DEF IInv, Messages, after_call, finish, Job, Command, Kind, Idle, ClockWork
<1>4. Replies'
    BY DEF IInv, Replies, after_call, finish, answer
<1>5. Points'
    BY DEF IInv, Points, after_call, finish, locks, threads
<1>6. Mutexes'
    BY DEF IInv, Mutexes, after_call, finish, locks, threads
<1>7. NothingAfterStop'
    BY DEF IInv, NothingAfterStop, Sent, after_call, finish, threads, Closing, Idle, ClockWork
<1>8. Channels'
    BY DEF IInv, Channels, after_call, finish, threads, answer
<1>9. StopFencesEffects'
    BY DEF IInv, StopFencesEffects, after_call, finish, locks
<1>10. JoinBeforeReturn'
    BY DEF IInv, JoinBeforeReturn, after_call, finish, threads, Gone, Points
<1> QED BY <1>1, <1>2, <1>3, <1>4, <1>5, <1>6, <1>7, <1>8, <1>9, <1>10 DEF IInv

\* Stop is answered, and the worker is about to leave with an empty queue.
LEMMA handle_stop_Inv ==
    ASSUME IInv, handle_stop
    PROVE  IInv'
<1>1. Flags' /\ Clients' /\ Closing' /\ StopIsLast'
    BY DEF IInv, Flags, Clients, Closing, StopIsLast, handle_stop, Sent, locks, threads
<1>2. Messages'
    BY DEF IInv, Messages, handle_stop, Job, Command, Kind, Idle, ClockWork
<1>3. Replies'
    BY DEF IInv, Replies, handle_stop
<1>4. Points'
    BY DEF IInv, Points, handle_stop, locks, threads
<1>5. Mutexes'
    BY DEF IInv, Mutexes, handle_stop, locks, threads
<1>6. NothingAfterStop'
    BY DEF IInv, NothingAfterStop, Sent, handle_stop, threads
<1>7. Channels'
    BY DEF IInv, Channels, handle_stop, threads
<1>8. StopFencesEffects'
    BY DEF IInv, StopFencesEffects, handle_stop, locks
<1>9. JoinBeforeReturn'
    BY DEF IInv, JoinBeforeReturn, handle_stop, threads, Gone, Points
<1> QED BY <1>1, <1>2, <1>3, <1>4, <1>5, <1>6, <1>7, <1>8, <1>9 DEF IInv

\* The receiver is dropped with nothing in it: no reply is lost.
LEMMA worker_exits_Inv ==
    ASSUME IInv, worker_exits
    PROVE  IInv'
<1>1. Flags' /\ Clients' /\ Closing'
    BY DEF IInv, Flags, Clients, Closing, worker_exits, locks, threads
<1>2. Messages'
    BY DEF IInv, Messages, worker_exits, dropped, queued
<1>3. Replies'
    BY DEF IInv, Replies, worker_exits, dropped, queued
<1>4. Points'
    BY DEF IInv, Points, worker_exits, dropped, queued, locks, threads
<1>5. Mutexes'
    BY DEF IInv, Mutexes, worker_exits, dropped, queued, locks, threads
<1>6. StopIsLast'
    BY DEF IInv, StopIsLast, Sent, worker_exits, dropped, queued, threads
<1>7. NothingAfterStop'
    BY DEF IInv, NothingAfterStop, Sent, worker_exits, dropped, queued, threads
<1>8. Channels'
    BY DEF IInv, Channels, NothingAfterStop, Replies, worker_exits, dropped, queued, threads
<1>9. StopFencesEffects'
    BY DEF IInv, StopFencesEffects, worker_exits, dropped, queued, locks
<1>10. JoinBeforeReturn'
    BY DEF IInv, JoinBeforeReturn, worker_exits, dropped, queued, threads, Gone, Points
<1> QED BY <1>1, <1>2, <1>3, <1>4, <1>5, <1>6, <1>7, <1>8, <1>9, <1>10 DEF IInv

\* A panic drops the replies and releases, poisoned, the gate it held.
LEMMA panic_Inv ==
    ASSUME IInv, panic
    PROVE  IInv'
<1>1. Clients' /\ Closing'
    BY DEF IInv, Clients, Closing, panic, threads
<1>2. Flags'
    BY DEF IInv, Flags, panic, dropped, queued
<1>3. Messages'
    BY DEF IInv, Messages, panic, dropped, queued, Job, Command, Kind, Idle, ClockWork
<1>4. Replies'
    BY DEF IInv, Replies, panic, dropped, queued
<1>5. Points'
    BY BoundsAreNat DEF IInv, Points, panic, dropped, queued, threads, Gone
<1>6. Mutexes'
    BY ThreadsDistinct DEF IInv, Mutexes, panic, dropped, queued, threads, Points, Clients
<1>7. StopIsLast'
    BY DEF IInv, StopIsLast, Sent, panic, dropped, queued, threads
<1>8. NothingAfterStop'
    BY DEF IInv, NothingAfterStop, Sent, panic, dropped, queued, threads, Closing, Idle,
           ClockWork
<1>9. Channels'
    BY DEF IInv, Channels, panic, dropped, queued, threads, Replies, Clients, Points
<1>10. StopFencesEffects'
    BY DEF IInv, StopFencesEffects, panic, dropped, queued
<1>11. JoinBeforeReturn'
    BY DEF IInv, JoinBeforeReturn, panic, dropped, queued, threads, Gone, Points
<1> QED BY <1>1, <1>2, <1>3, <1>4, <1>5, <1>6, <1>7, <1>8, <1>9, <1>10, <1>11 DEF IInv

\* A timer comes due.
LEMMA come_due_Inv ==
    ASSUME IInv, come_due
    PROVE  IInv'
<1>1. Messages' /\ Replies' /\ Clients' /\ Points' /\ Mutexes' /\ Closing' /\ StopIsLast'
      /\ NothingAfterStop' /\ Channels' /\ StopFencesEffects' /\ JoinBeforeReturn'
    BY DEF IInv, Messages, Replies, Clients, Points, Mutexes, Closing, StopIsLast,
           NothingAfterStop, Channels, StopFencesEffects, JoinBeforeReturn, come_due, Sent,
           locks, threads
<1>2. Flags'
    BY DEF IInv, Flags, come_due, locks
<1> QED BY <1>1, <1>2 DEF IInv

\* stop() closes the queue under the ingress mutex.
LEMMA stop_closes_Inv ==
    ASSUME IInv, stop_closes
    PROVE  IInv'
<1>1. Messages' /\ Replies' /\ Clients' /\ Channels' /\ StopFencesEffects'
    BY DEF IInv, Messages, Replies, Clients, Channels, StopFencesEffects, stop_closes, work
<1>2. Flags'
    BY DEF IInv, Flags, stop_closes, work
<1>3. Points'
    BY DEF IInv, Points, stop_closes, work
<1>4. Mutexes'
    BY ThreadsDistinct DEF IInv, Mutexes, stop_closes, work, Points, Clients
<1>5. Closing'
    BY DEF IInv, Closing, stop_closes
<1>6. StopIsLast'
    BY DEF IInv, StopIsLast, Sent, stop_closes
<1>7. NothingAfterStop'
    BY DEF IInv, NothingAfterStop, Sent, stop_closes, work
<1>8. JoinBeforeReturn'
    BY DEF IInv, JoinBeforeReturn, stop_closes, work
<1> QED BY <1>1, <1>2, <1>3, <1>4, <1>5, <1>6, <1>7, <1>8 DEF IInv

\* stop() takes the gate, unless a panic has poisoned it.
LEMMA stop_locks_gate_Inv ==
    ASSUME IInv, stop_locks_gate
    PROVE  IInv'
<1>1. Flags' /\ Messages' /\ Replies' /\ Clients' /\ Channels' /\ StopFencesEffects'
    BY DEF IInv, Flags, Messages, Replies, Clients, Channels, StopFencesEffects,
           stop_locks_gate, work
<1>2. Points'
    BY DEF IInv, Points, stop_locks_gate, work
<1>3. Mutexes'
    BY ThreadsDistinct DEF IInv, Mutexes, stop_locks_gate, work, Points, Clients
<1>4. Closing'
    BY DEF IInv, Closing, stop_locks_gate
<1>5. StopIsLast'
    BY DEF IInv, StopIsLast, Sent, stop_locks_gate
<1>6. NothingAfterStop'
    BY DEF IInv, NothingAfterStop, Sent, stop_locks_gate, work
<1>7. JoinBeforeReturn'
    BY DEF IInv, JoinBeforeReturn, stop_locks_gate, work
<1> QED BY <1>1, <1>2, <1>3, <1>4, <1>5, <1>6, <1>7 DEF IInv

\* stop() raises the flag with the gate in its hands: no call is in flight.
LEMMA stop_raises_flag_Inv ==
    ASSUME IInv, stop_raises_flag
    PROVE  IInv'
<1>1. Messages' /\ Replies' /\ Clients' /\ Points' /\ Mutexes' /\ Closing' /\ StopIsLast'
      /\ NothingAfterStop' /\ Channels' /\ JoinBeforeReturn'
    BY DEF IInv, Messages, Replies, Clients, Points, Mutexes, Closing, StopIsLast,
           NothingAfterStop, Channels, JoinBeforeReturn, stop_raises_flag, Sent, threads, work
<1>2. Flags'
    BY DEF IInv, Flags, stop_raises_flag, work
<1>3. StopFencesEffects'
    BY ThreadsDistinct DEF IInv, Mutexes, stop_raises_flag, StopFencesEffects, work
<1> QED BY <1>1, <1>2, <1>3 DEF IInv

\* stop() queues Stop after everything else and releases both mutexes.
LEMMA stop_sends_Inv ==
    ASSUME IInv, stop_sends
    PROVE  IInv'
<1>1. Flags' /\ Clients' /\ StopFencesEffects'
    BY DEF IInv, Flags, Clients, StopFencesEffects, stop_sends, work
<1>2. Messages'
    BY DEF IInv, Messages, stop_sends, work, Job, Command, Kind, Idle, ClockWork
<1>3. Replies'
    BY DEF IInv, Replies, stop_sends
<1>4. Points'
    BY DEF IInv, Points, stop_sends, work
<1>5. Mutexes'
    BY ThreadsDistinct DEF IInv, Mutexes, stop_sends, work, Points, Clients
<1>6. Closing'
    BY DEF IInv, Closing, stop_sends
<1>7. StopIsLast'
    BY DEF IInv, StopIsLast, Sent, stop_sends
<1>8. NothingAfterStop'
    BY DEF IInv, NothingAfterStop, Sent, stop_sends, work
<1>9. Channels'
    BY ThreadsDistinct DEF IInv, Channels, Replies, stop_sends, work
<1>10. JoinBeforeReturn'
    BY DEF IInv, JoinBeforeReturn, stop_sends, work
<1> QED BY <1>1, <1>2, <1>3, <1>4, <1>5, <1>6, <1>7, <1>8, <1>9, <1>10 DEF IInv

\* stop() has an answer, or an error, and goes on to join.
LEMMA stop_replied_Inv ==
    ASSUME IInv, stop_replied
    PROVE  IInv'
<1>1. Flags' /\ Messages' /\ Replies' /\ Clients' /\ Channels' /\ StopFencesEffects'
    BY DEF IInv, Flags, Messages, Replies, Clients, Channels, StopFencesEffects, stop_replied,
           locks, work
<1>2. Points'
    BY DEF IInv, Points, stop_replied, after_reply, locks, work
<1>3. Mutexes'
    BY DEF IInv, Mutexes, stop_replied, after_reply, locks, work
<1>4. Closing'
    BY DEF IInv, Closing, stop_replied, after_reply, locks
<1>5. StopIsLast'
    BY DEF IInv, StopIsLast, Sent, stop_replied, after_reply
<1>6. NothingAfterStop'
    BY DEF IInv, NothingAfterStop, Sent, stop_replied, after_reply, work
<1>7. JoinBeforeReturn'
    BY DEF IInv, JoinBeforeReturn, stop_replied, after_reply, work
<1> QED BY <1>1, <1>2, <1>3, <1>4, <1>5, <1>6, <1>7 DEF IInv

\* stop() returns when the worker is gone.
LEMMA stop_joined_Inv ==
    ASSUME IInv, stop_joined
    PROVE  IInv'
<1>1. Flags' /\ Messages' /\ Replies' /\ Clients' /\ Channels' /\ StopFencesEffects'
    BY DEF IInv, Flags, Messages, Replies, Clients, Channels, StopFencesEffects, stop_joined,
           locks, work
<1>2. Points'
    BY DEF IInv, Points, stop_joined, locks, work
<1>3. Mutexes'
    BY DEF IInv, Mutexes, stop_joined, locks, work
<1>4. Closing'
    BY DEF IInv, Closing, stop_joined, locks
<1>5. StopIsLast'
    BY DEF IInv, StopIsLast, Sent, stop_joined
<1>6. NothingAfterStop'
    BY DEF IInv, NothingAfterStop, Sent, stop_joined, work
<1>7. JoinBeforeReturn'
    BY DEF IInv, JoinBeforeReturn, stop_joined, work
<1> QED BY <1>1, <1>2, <1>3, <1>4, <1>5, <1>6, <1>7 DEF IInv

\* A second stop() finds the flag raised.
LEMMA stop_again_Inv ==
    ASSUME IInv, stop_again
    PROVE  IInv'
<1>1. Flags' /\ Messages' /\ Replies' /\ Clients' /\ Channels' /\ StopFencesEffects'
    BY DEF IInv, Flags, Messages, Replies, Clients, Channels, StopFencesEffects, stop_again,
           locks, work
<1>2. Points'
    BY DEF IInv, Points, stop_again, locks, work
<1>3. Mutexes'
    BY DEF IInv, Mutexes, stop_again, locks, work
<1>4. Closing'
    BY DEF IInv, Closing, stop_again, locks
<1>5. StopIsLast'
    BY DEF IInv, StopIsLast, Sent, stop_again
<1>6. NothingAfterStop'
    BY DEF IInv, NothingAfterStop, Sent, stop_again, work
<1>7. JoinBeforeReturn'
    BY DEF IInv, JoinBeforeReturn, stop_again, work
<1> QED BY <1>1, <1>2, <1>3, <1>4, <1>5, <1>6, <1>7 DEF IInv

\* Every step preserves the inductive invariant.
LEMMA StepInv ==
    ASSUME IInv, [StopNext]_stop_vars
    PROVE  IInv'
<1>1. ASSUME NEW c \in Client, ClientStep(c)
      PROVE  IInv'
    <2>1. CASE begin_call(c) \/ lock_ingress(c) \/ reject(c) \/ recv(c)
        BY <2>1, begin_call_Inv, lock_ingress_Inv, reject_Inv, recv_Inv
    <2>2. CASE submit(c)
        <3>1. send(c, "plain") \/ send(c, "effect")
            BY <2>2 DEF submit, schedule_internet_block, schedule_shutdown,
                        cancel_internet_block_timer, cancel_shutdown_timer, immediate_internet_block,
                        restore_internet, ack_telegram, query_status, subscribe_events,
                        unsubscribe_events, send_child_message, publish_parent_message
        <3> QED BY <3>1, send_Inv DEF Kind
    <2> QED BY <1>1, <2>1, <2>2 DEF ClientStep, Serve
<1>2. CASE WorkerStep
    BY <1>2, next_command_Inv, timeout_Inv, handle_plain_Inv, clock_stopped_Inv, handle_effect_Inv,
       lock_gate_Inv, call_platform_Inv, give_up_Inv, platform_returns_Inv, after_call_Inv,
       handle_stop_Inv, worker_exits_Inv DEF WorkerStep
<1>3. CASE OwnerStep
    BY <1>3, stop_locks_gate_Inv, stop_raises_flag_Inv, stop_sends_Inv, stop_replied_Inv,
       stop_joined_Inv, stop_again_Inv DEF OwnerStep
<1>4. CASE panic \/ come_due \/ stop_closes
    BY <1>4, panic_Inv, come_due_Inv, stop_closes_Inv
<1>5. CASE UNCHANGED stop_vars
    BY <1>5 DEF IInv, Flags, Messages, Replies, Clients, Points, Mutexes, Closing, StopIsLast, Sent,
                NothingAfterStop, Channels, StopFencesEffects, JoinBeforeReturn, stop_vars
<1> QED BY <1>1, <1>2, <1>3, <1>4, <1>5 DEF StopNext, StopStep, all_done

\* The inductive invariant holds in every state the three kinds of threads reach.
THEOREM Invariance == StopSpec => []IInv
<1>1. StopInit => IInv
    <2> SUFFICES ASSUME StopInit PROVE IInv
        OBVIOUS
    <2>1. Flags
        BY DEF StopInit, Flags
    <2>2. Messages /\ StopIsLast /\ NothingAfterStop
        BY DEF StopInit, Messages, StopIsLast, NothingAfterStop, Job, Idle
    <2>3. Replies /\ Clients /\ Points
        BY BoundsAreNat DEF StopInit, Replies, Clients, Points
    <2>4. Mutexes
        BY ThreadsDistinct DEF StopInit, Mutexes
    <2>5. Closing /\ Channels /\ StopFencesEffects /\ JoinBeforeReturn
        BY DEF StopInit, Closing, Channels, StopFencesEffects, JoinBeforeReturn
    <2> QED BY <2>1, <2>2, <2>3, <2>4, <2>5 DEF IInv
<1> QED BY <1>1, StepInv, PTL DEF StopSpec

\* The lock discipline of stop(): types, and which thread holds which mutex where.
THEOREM LockDiscipline == StopSpec => []StopTypeOK
<1>1. IInv => StopTypeOK
    <2> SUFFICES ASSUME IInv PROVE StopTypeOK
        OBVIOUS
    <2>1. {closed, poisoned, stop_requested, due} \subseteq BOOLEAN
        BY DEF IInv, Flags
    <2>2. wpc \in {"poll", "handle", "want_gate", "gated", "in_call", "after_call", "exiting"} \cup Gone
        BY DEF IInv, Points, Gone
    <2> QED BY <2>1, <2>2 DEF IInv, StopTypeOK, Messages, Replies, Clients, Points, Mutexes
<1> QED BY <1>1, Invariance, PTL

\* Once stop() has raised its flag no platform call is in flight, and none begins.
THEOREM StopFences == StopSpec => []StopFencesEffects
<1>1. IInv => StopFencesEffects
    BY DEF IInv
<1> QED BY <1>1, Invariance, PTL

\* No client of any number loses the reply to an accepted command to a stop.
THEOREM Answered == StopSpec => []AcceptedAnswered
<1>1. IInv => AcceptedAnswered
    BY DEF IInv, Channels, AcceptedAnswered
<1> QED BY <1>1, Invariance, PTL

\* stop() never returns before the worker thread is gone.
THEOREM JoinedFirst == StopSpec => []JoinBeforeReturn
<1>1. IInv => JoinBeforeReturn
    BY DEF IInv
<1> QED BY <1>1, Invariance, PTL

\* All that stop() promises of safety, for any number of clients and calls.
THEOREM SafeStop == StopSpec => []StopSafe
<1>1. StopTypeOK /\ StopFencesEffects /\ AcceptedAnswered /\ JoinBeforeReturn => StopSafe
    BY DEF StopSafe
<1> QED BY <1>1, LockDiscipline, StopFences, Answered, JoinedFirst, PTL

-----------------------------------------------------------------------------
(* ScmRuntime *)
BeforeReports == {"idle", "register", "install", "start_pending_1"}
Starting == {"bootstrap", "start_pending_2", "start_runtime", "startup_failed", "running"}
Serving == {"call_recv", "wait", "stop_pending", "control_lost", "stopping_unreported"}
Stopping == {"stopping", "report_stopped"}
MainPc == BeforeReports \cup Starting \cup Serving \cup Stopping \cup {"leave"} \cup EntryGone

ScmTypes ==
    /\ dispatcher \in {"outside", "dispatching", "returned", "exited", "aborted"} /\ main_pc \in MainPc
    /\ lifecycle \in [state : ScmServiceState, checkpoint : 0..2]
    /\ scm \in [state : ScmServiceState, checkpoint : 0..2, exit : {0, ERROR_EXCEPTION_IN_SERVICE}]
    /\ delivering \in Control \cup {"none"}
    /\ control_queue \in {<<>>} \cup {<<c>> : c \in Control} /\ stops \in Nat
    /\ runtime \in {"none", "running", "poisoned", "stopped", "failed"}
ScmFlags ==
    /\ fallback \in BOOLEAN /\ stopped_reported \in BOOLEAN /\ panicked \in BOOLEAN
    /\ failed \in BOOLEAN /\ accepted \in BOOLEAN

(* STOPPED is remembered when it is said; until the entry has returned     *)
(* nobody but its state machine has spoken.                                *)
Told ==
    /\ stopped_reported = TRUE <=> scm.state = "Stopped"
    /\ stops = IF scm.state = "Stopped" THEN 1 ELSE 0
    /\ main_pc \notin EntryGone \ {"log", "guard"} => lifecycle.state = scm.state
    /\ lifecycle.state # scm.state => scm = stopped(ERROR_EXCEPTION_IN_SERVICE)

(* Where ServiceMain is determines what it has said and what it runs.      *)
Where ==
    /\ dispatcher = "outside" => main_pc = "idle"
    /\ main_pc \in BeforeReports => lifecycle.state = "Unreported"
    /\ main_pc \in Starting => lifecycle.state = "StartPending"
    /\ main_pc \in Serving => lifecycle.state = "Running"
    /\ main_pc \in Stopping => lifecycle.state = "StopPending"
    /\ main_pc \in BeforeReports \cup (Starting \ {"running"}) => runtime = "none"
    /\ main_pc \in Serving \cup {"running", "stopping"} => runtime \in {"running", "poisoned"}
    /\ main_pc = "report_stopped" => runtime \in {"stopped", "failed"}
    /\ main_pc \in EntryGone => runtime \notin {"running", "poisoned"}
    /\ main_pc \in {"control_lost", "stopping_unreported"} => failed = TRUE
    /\ main_pc \in {"stop_pending", "stopping", "report_stopped"} => accepted = TRUE \/ failed = TRUE
    /\ control_queue # <<>> => accepted = TRUE
Quiet ==
    /\ scm.state = "Stopped" => runtime \notin {"running", "poisoned"}
    /\ scm.state = "Stopped" /\ scm.exit = 0 => accepted = TRUE /\ runtime = "stopped"

(* The way of an Ok to the caller of the dispatcher.                       *)
Earned == lifecycle.state = "Stopped" /\ panicked = FALSE
OkEarned ==
    /\ main_pc = "Ok" => Earned
    /\ service_result = "Ok" \/ returned = "Ok" => main_pc = "done" /\ Earned
ScmInv == ScmTypes /\ ScmFlags /\ Told /\ Where /\ Quiet /\ OkEarned

LEMMA ScmInvImplies == ScmInv => ServiceStatusTrue
<1> SUFFICES ASSUME ScmInv PROVE ServiceStatusTrue
    OBVIOUS
<1>1. ScmTypes /\ ScmFlags /\ Told /\ Where /\ Quiet /\ OkEarned
    BY DEF ScmInv
<1>2. Len(control_queue) <= 1
    <2>1. CASE control_queue = <<>>
        BY <2>1
    <2>2. CASE \E c \in Control : control_queue = <<c>>
        BY <2>2
    <2> QED BY <1>1, <2>1, <2>2 DEF ScmTypes
<1>3. ScmTypeOK
    BY <1>1, <1>2 DEF ScmTypes, ScmFlags, ScmTypeOK
<1>4. StoppedOnce /\ StoppedMeansQuiet
    BY <1>1 DEF Told, Quiet, StoppedOnce, StoppedMeansQuiet
<1>5. CleanExitEarned
    BY <1>1 DEF Quiet, CleanExitEarned, NO_ERROR
<1>6. LocalViewCurrent
    BY <1>1 DEF Told, LocalViewCurrent
<1>7. OkIsConfirmed
    BY <1>1 DEF OkEarned, Earned, OkIsConfirmed
<1> QED BY <1>3, <1>4, <1>5, <1>6, <1>7 DEF ServiceStatusTrue

LEMMA ScmStart == ScmInit => ScmInv
<1> SUFFICES ASSUME ScmInit PROVE ScmInv
    OBVIOUS
<1>1. ScmTypes
    BY DEF ScmInit, ScmTypes, MainPc, BeforeReports, ScmServiceState
<1>2. ScmFlags /\ Told /\ Quiet /\ OkEarned
    BY DEF ScmInit, ScmFlags, Told, Quiet, OkEarned, EntryGone, Verdict
<1>3. Where
    BY DEF ScmInit, Where, BeforeReports, Starting, Serving, Stopping, EntryGone, Verdict
<1> QED BY <1>1, <1>2, <1>3 DEF ScmInv

\* A report of the entry: published and believed, or neither.
LEMMA Reports ==
    ASSUME ScmInv, NEW plan, NEW s \in {start_pending(1), start_pending(2), running, stop_pending(1)},
           NEW ok, NEW err, report(plan, s, ok, err),
           main_pc \notin EntryGone \cup {"leave"},
           UNCHANGED <<runtime, accepted>>
    PROVE  /\ lifecycle' \in [state : ScmServiceState, checkpoint : 0..2]
           /\ scm' \in [state : ScmServiceState, checkpoint : 0..2, exit : {0, ERROR_EXCEPTION_IN_SERVICE}]
           /\ stops' \in Nat /\ failed' \in BOOLEAN /\ stopped_reported' \in BOOLEAN
           /\ lifecycle'.state = scm'.state /\ Quiet'
           /\ stopped_reported' = TRUE <=> scm'.state = "Stopped"
           /\ stops' = IF scm'.state = "Stopped" THEN 1 ELSE 0
           /\ \/ main_pc' = ok /\ plan /\ lifecycle'.state = s.state /\ failed' = failed
              \/ main_pc' = err /\ failed' = TRUE /\ UNCHANGED status
<1>1. ScmTypes /\ ScmFlags /\ Told /\ Where /\ Quiet
    BY DEF ScmInv
<1>2. lifecycle.state = scm.state /\ scm.state # "Stopped" /\ stopped_reported = FALSE /\ stops = 0
    BY <1>1 DEF Told, Where, ScmTypes, ScmFlags, MainPc, BeforeReports, Starting, Serving, Stopping
<1>3. s.state \in {"StartPending", "Running", "StopPending"} /\ s.checkpoint \in 0..2
      /\ s \in [state : ScmServiceState, checkpoint : 0..2, exit : {0, ERROR_EXCEPTION_IN_SERVICE}]
    BY DEF start_pending, running, stop_pending, ScmServiceState
<1>4. CASE /\ plan /\ publish(s) /\ lifecycle' = [state |-> s.state, checkpoint |-> s.checkpoint]
           /\ main_pc' = ok /\ UNCHANGED failed
    <2>1. scm' = s /\ stopped_reported' = FALSE /\ stops' = 0
        BY <1>2, <1>3, <1>4 DEF publish
    <2>2. lifecycle'.state = s.state /\ lifecycle' \in [state : ScmServiceState, checkpoint : 0..2]
        BY <1>3, <1>4 DEF ScmServiceState
    <2>3. Quiet'
        BY <1>3, <2>1 DEF Quiet
    <2> QED BY <1>1, <1>3, <1>4, <2>1, <2>2, <2>3 DEF ScmFlags
<1>5. CASE main_pc' = err /\ failed' = TRUE /\ UNCHANGED status
    <2>1. Quiet'
        BY <1>1, <1>5 DEF Quiet, status
    <2> QED BY <1>1, <1>2, <1>5, <2>1 DEF status, ScmTypes, ScmFlags, Told
<1> QED BY <1>4, <1>5 DEF report

\* The phases that report: where the entry goes on fits what it has said.
LEMMA ReportGoesOn ==
    ASSUME ScmInv, NEW plan, NEW s \in {start_pending(1), start_pending(2), running, stop_pending(1)},
           NEW ok, NEW err, report(plan, s, ok, err),
           main_pc \notin EntryGone \cup {"leave"}, main_pc' \in MainPc \ EntryGone,
           UNCHANGED <<host, control, fallback, runtime, panicked, service_result>>,
           main_pc' = ok => Where',
           main_pc' = err => Where'
    PROVE  ScmInv'
<1>0. /\ lifecycle' \in [state : ScmServiceState, checkpoint : 0..2]
      /\ scm' \in [state : ScmServiceState, checkpoint : 0..2, exit : {0, ERROR_EXCEPTION_IN_SERVICE}]
      /\ stops' \in Nat /\ failed' \in BOOLEAN /\ stopped_reported' \in BOOLEAN
      /\ lifecycle'.state = scm'.state /\ Quiet'
      /\ stopped_reported' = TRUE <=> scm'.state = "Stopped"
      /\ stops' = IF scm'.state = "Stopped" THEN 1 ELSE 0
      /\ main_pc' \in {ok, err}
    <2>1. UNCHANGED <<runtime, accepted>>
        BY DEF control
    <2> QED BY <2>1, Reports
<1>1. ScmTypes'
    BY <1>0 DEF ScmInv, ScmTypes, host, control
<1>2. ScmFlags'
    BY <1>0 DEF ScmInv, ScmFlags, control
<1>3. Told'
    BY <1>0 DEF Told
<1>4. OkEarned'
    <2>1. main_pc # "done" /\ main_pc' # "Ok"
        BY DEF EntryGone, Verdict
    <2>2. service_result # "Ok" /\ returned # "Ok"
        BY <2>1 DEF ScmInv, OkEarned
    <2> QED BY <2>1, <2>2 DEF OkEarned, host
<1> QED BY <1>0, <1>1, <1>2, <1>3, <1>4 DEF ScmInv
\* The phases of run_service_with_ports that report, one by one.
LEMMA PhasesInv ==
    ASSUME ScmInv, phase_1 \/ phase_3 \/ phase_6 \/ phase_8 \/ control_lost
    PROVE  ScmInv'
<1> USE DEF BeforeReports, Starting, Serving, Stopping, EntryGone, Verdict, MainPc
<1>2. ASSUME phase_1 PROVE ScmInv'
    <2>1. /\ report(plan_start_pending(1), start_pending(1), "bootstrap", "leave") /\ main_pc = "start_pending_1"
          /\ UNCHANGED <<host, control, fallback, runtime, panicked, service_result>>
        BY <1>2 DEF phase_1, main_at
    <2>2. UNCHANGED <<runtime, accepted, control_queue>>
        BY <2>1 DEF control
    <2>3. \/ main_pc' = "bootstrap" /\ lifecycle'.state = "StartPending" /\ failed' = failed
          \/ main_pc' = "leave" /\ failed' = TRUE /\ UNCHANGED status
        BY <2>1, <2>2, Reports DEF start_pending
    <2>4. Where'
        BY <2>1, <2>2, <2>3 DEF ScmInv, Where, host
    <2> QED BY <2>1, <2>3, <2>4, ReportGoesOn
<1>3. ASSUME phase_3 PROVE ScmInv'
    <2>1. /\ report(plan_start_pending(2), start_pending(2), "start_runtime", "leave") /\ main_pc = "start_pending_2"
          /\ UNCHANGED <<host, control, fallback, runtime, panicked, service_result>>
        BY <1>3 DEF phase_3, main_at
    <2>2. UNCHANGED <<runtime, accepted, control_queue>>
        BY <2>1 DEF control
    <2>3. \/ main_pc' = "start_runtime" /\ lifecycle'.state = "StartPending" /\ failed' = failed
          \/ main_pc' = "leave" /\ failed' = TRUE /\ UNCHANGED status
        BY <2>1, <2>2, Reports DEF start_pending
    <2>4. Where'
        BY <2>1, <2>2, <2>3 DEF ScmInv, Where, host
    <2> QED BY <2>1, <2>3, <2>4, ReportGoesOn
<1>4. ASSUME phase_6 PROVE ScmInv'
    <2>1. /\ report(plan_running, running, "call_recv", "leave") /\ main_pc = "running"
          /\ UNCHANGED <<host, control, fallback, runtime, panicked, service_result>>
        BY <1>4 DEF phase_6, main_at
    <2>2. UNCHANGED <<runtime, accepted, control_queue>>
        BY <2>1 DEF control
    <2>3. \/ main_pc' = "call_recv" /\ lifecycle'.state = "Running" /\ failed' = failed
          \/ main_pc' = "leave" /\ failed' = TRUE /\ UNCHANGED status
        BY <2>1, <2>2, Reports DEF running
    <2>4. Where'
        BY <2>1, <2>2, <2>3 DEF ScmInv, Where, host
    <2> QED BY <2>1, <2>3, <2>4, ReportGoesOn
<1>5. ASSUME phase_8 PROVE ScmInv'
    <2>1. /\ report(plan_stop_pending(1), stop_pending(1), "stopping", "leave") /\ main_pc = "stop_pending"
          /\ UNCHANGED <<host, control, fallback, runtime, panicked, service_result>>
        BY <1>5 DEF phase_8, main_at
    <2>2. UNCHANGED <<runtime, accepted, control_queue>>
        BY <2>1 DEF control
    <2>3. \/ main_pc' = "stopping" /\ lifecycle'.state = "StopPending" /\ failed' = failed
          \/ main_pc' = "leave" /\ failed' = TRUE /\ UNCHANGED status
        BY <2>1, <2>2, Reports DEF stop_pending
    <2>4. Where'
        BY <2>1, <2>2, <2>3 DEF ScmInv, Where, host
    <2> QED BY <2>1, <2>3, <2>4, ReportGoesOn
<1>6. ASSUME control_lost PROVE ScmInv'
    <2>1. /\ report(plan_stop_pending(1), stop_pending(1), "stopping", "stopping_unreported")
          /\ main_pc = "control_lost"
          /\ UNCHANGED <<host, control, fallback, runtime, panicked, service_result>>
        BY <1>6 DEF control_lost, main_at
    <2>2. UNCHANGED <<runtime, accepted, control_queue>>
        BY <2>1 DEF control
    <2>3. \/ main_pc' = "stopping" /\ lifecycle'.state = "StopPending" /\ failed' = failed
          \/ main_pc' = "stopping_unreported" /\ failed' = TRUE /\ UNCHANGED status
        BY <2>1, <2>2, Reports DEF stop_pending
    <2>4. Where'
        BY <2>1, <2>2, <2>3 DEF ScmInv, Where, host, status
    <2> QED BY <2>1, <2>3, <2>4, ReportGoesOn
<1> QED BY <1>2, <1>3, <1>4, <1>5, <1>6

\* The steps that tell the SCM nothing.
LEMMA QuietSteps ==
    ASSUME ScmInv, run_palka_service_dispatcher \/ dispatcher_returns \/ main_exits \/ service_control_handler \/ service_main_registers \/ service_main_installs \/ service_main_panics \/ phase_2 \/ phase_4 \/ phase_7 \/ wait_for_control \/ control_channel_closes \/ runtime_stop \/ leave \/ palka_service_entry_logs \/ entry_panics \/ worker_panics \/ record_result
    PROVE  ScmInv'
<1> USE DEF ScmInv, BeforeReports, Starting, Serving, Stopping, EntryGone, Verdict, MainPc, host, control, status, Earned
<1>1. ASSUME run_palka_service_dispatcher PROVE ScmInv'
    <2>1. ScmTypes'
        BY <1>1 DEF ScmTypes, run_palka_service_dispatcher
    <2>2. ScmFlags'
        BY <1>1 DEF ScmTypes, ScmFlags, run_palka_service_dispatcher
    <2>3. Told'
        BY <1>1 DEF ScmTypes, ScmFlags, Where, Told, run_palka_service_dispatcher
    <2>4. Where'
        BY <1>1 DEF ScmTypes, ScmFlags, Where, run_palka_service_dispatcher
    <2>5. Quiet'
        BY <1>1 DEF ScmTypes, ScmFlags, Told, Where, Quiet, run_palka_service_dispatcher
    <2>6. OkEarned'
        BY <1>1 DEF ScmTypes, ScmFlags, Told, Where, OkEarned, run_palka_service_dispatcher
    <2> QED BY <2>1, <2>2, <2>3, <2>4, <2>5, <2>6
<1>2. ASSUME dispatcher_returns PROVE ScmInv'
    <2>1. ScmTypes'
        BY <1>2 DEF ScmTypes, dispatcher_returns
    <2>2. ScmFlags'
        BY <1>2 DEF ScmTypes, ScmFlags, dispatcher_returns
    <2>3. Told'
        BY <1>2 DEF ScmTypes, ScmFlags, Where, Told, dispatcher_returns
    <2>4. Where'
        BY <1>2 DEF ScmTypes, ScmFlags, Where, dispatcher_returns
    <2>5. Quiet'
        BY <1>2 DEF ScmTypes, ScmFlags, Told, Where, Quiet, dispatcher_returns
    <2>6. OkEarned'
        BY <1>2 DEF ScmTypes, ScmFlags, Told, Where, OkEarned, dispatcher_returns
    <2> QED BY <2>1, <2>2, <2>3, <2>4, <2>5, <2>6
<1>3. ASSUME main_exits PROVE ScmInv'
    <2>1. ScmTypes'
        BY <1>3 DEF ScmTypes, main_exits
    <2>2. ScmFlags'
        BY <1>3 DEF ScmTypes, ScmFlags, main_exits
    <2>3. Told'
        BY <1>3 DEF ScmTypes, ScmFlags, Where, Told, main_exits
    <2>4. Where'
        BY <1>3 DEF ScmTypes, ScmFlags, Where, main_exits
    <2>5. Quiet'
        BY <1>3 DEF ScmTypes, ScmFlags, Told, Where, Quiet, main_exits
    <2>6. OkEarned'
        BY <1>3 DEF ScmTypes, ScmFlags, Told, Where, OkEarned, main_exits
    <2> QED BY <2>1, <2>2, <2>3, <2>4, <2>5, <2>6
<1>4. ASSUME service_control_handler PROVE ScmInv'
    <2>1. ScmTypes'
        BY <1>4 DEF ScmTypes, service_control_handler, try_send, Delivered, Control
    <2>2. ScmFlags'
        BY <1>4 DEF ScmTypes, ScmFlags, service_control_handler, try_send, Delivered, Control
    <2>3. Told'
        BY <1>4 DEF ScmTypes, ScmFlags, Where, Told, service_control_handler, try_send, Delivered, Control
    <2>4. Where'
        BY <1>4 DEF ScmTypes, ScmFlags, Where, service_control_handler, try_send, Delivered, Control
    <2>5. Quiet'
        BY <1>4 DEF ScmTypes, ScmFlags, Told, Where, Quiet, service_control_handler, try_send, Delivered, Control
    <2>6. OkEarned'
        BY <1>4 DEF ScmTypes, ScmFlags, Told, Where, OkEarned, service_control_handler, try_send, Delivered, Control
    <2> QED BY <2>1, <2>2, <2>3, <2>4, <2>5, <2>6
<1>5. ASSUME service_main_registers PROVE ScmInv'
    <2>1. ScmTypes'
        BY <1>5 DEF ScmTypes, service_main_registers, main_at
    <2>2. ScmFlags'
        BY <1>5 DEF ScmTypes, ScmFlags, service_main_registers, main_at
    <2>3. Told'
        BY <1>5 DEF ScmTypes, ScmFlags, Where, Told, service_main_registers, main_at
    <2>4. Where'
        BY <1>5 DEF ScmTypes, ScmFlags, Where, service_main_registers, main_at
    <2>5. Quiet'
        BY <1>5 DEF ScmTypes, ScmFlags, Told, Where, Quiet, service_main_registers, main_at
    <2>6. OkEarned'
        BY <1>5 DEF ScmTypes, ScmFlags, Told, Where, OkEarned, service_main_registers, main_at
    <2> QED BY <2>1, <2>2, <2>3, <2>4, <2>5, <2>6
<1>6. ASSUME service_main_installs PROVE ScmInv'
    <2>1. ScmTypes'
        BY <1>6 DEF ScmTypes, service_main_installs, main_at
    <2>2. ScmFlags'
        BY <1>6 DEF ScmTypes, ScmFlags, service_main_installs, main_at
    <2>3. Told'
        BY <1>6 DEF ScmTypes, ScmFlags, Where, Told, service_main_installs, main_at
    <2>4. Where'
        BY <1>6 DEF ScmTypes, ScmFlags, Where, service_main_installs, main_at
    <2>5. Quiet'
        BY <1>6 DEF ScmTypes, ScmFlags, Told, Where, Quiet, service_main_installs, main_at
    <2>6. OkEarned'
        BY <1>6 DEF ScmTypes, ScmFlags, Told, Where, OkEarned, service_main_installs, main_at
    <2> QED BY <2>1, <2>2, <2>3, <2>4, <2>5, <2>6
<1>7. ASSUME service_main_panics PROVE ScmInv'
    <2>1. ScmTypes'
        BY <1>7 DEF ScmTypes, service_main_panics
    <2>2. ScmFlags'
        BY <1>7 DEF ScmTypes, ScmFlags, service_main_panics
    <2>3. Told'
        BY <1>7 DEF ScmTypes, ScmFlags, Where, Told, service_main_panics
    <2>4. Where'
        BY <1>7 DEF ScmTypes, ScmFlags, Where, service_main_panics
    <2>5. Quiet'
        BY <1>7 DEF ScmTypes, ScmFlags, Told, Where, Quiet, service_main_panics
    <2>6. OkEarned'
        BY <1>7 DEF ScmTypes, ScmFlags, Told, Where, OkEarned, service_main_panics
    <2> QED BY <2>1, <2>2, <2>3, <2>4, <2>5, <2>6
<1>8. ASSUME phase_2 PROVE ScmInv'
    <2>1. ScmTypes'
        BY <1>8 DEF ScmTypes, phase_2, main_at
    <2>2. ScmFlags'
        BY <1>8 DEF ScmTypes, ScmFlags, phase_2, main_at
    <2>3. Told'
        BY <1>8 DEF ScmTypes, ScmFlags, Where, Told, phase_2, main_at
    <2>4. Where'
        BY <1>8 DEF ScmTypes, ScmFlags, Where, phase_2, main_at
    <2>5. Quiet'
        BY <1>8 DEF ScmTypes, ScmFlags, Told, Where, Quiet, phase_2, main_at
    <2>6. OkEarned'
        BY <1>8 DEF ScmTypes, ScmFlags, Told, Where, OkEarned, phase_2, main_at
    <2> QED BY <2>1, <2>2, <2>3, <2>4, <2>5, <2>6
<1>9. ASSUME phase_4 PROVE ScmInv'
    <2>1. ScmTypes'
        BY <1>9 DEF ScmTypes, phase_4, main_at
    <2>2. ScmFlags'
        BY <1>9 DEF ScmTypes, ScmFlags, phase_4, main_at
    <2>3. Told'
        BY <1>9 DEF ScmTypes, ScmFlags, Where, Told, phase_4, main_at
    <2>4. Where'
        <3>1. CASE main_pc' = "running" /\ runtime' = "running"
            BY <1>9, <3>1 DEF ScmTypes, Where, phase_4, main_at
        <3>2. CASE main_pc' = "startup_failed" /\ UNCHANGED runtime
            BY <1>9, <3>2 DEF ScmTypes, Where, phase_4, main_at
        <3> QED BY <1>9, <3>1, <3>2 DEF phase_4
    <2>5. Quiet'
        BY <1>9 DEF ScmTypes, ScmFlags, Told, Where, Quiet, phase_4, main_at
    <2>6. OkEarned'
        BY <1>9 DEF ScmTypes, ScmFlags, Told, Where, OkEarned, phase_4, main_at
    <2> QED BY <2>1, <2>2, <2>3, <2>4, <2>5, <2>6
<1>10. ASSUME phase_7 PROVE ScmInv'
    <2>1. ScmTypes'
        BY <1>10 DEF ScmTypes, phase_7, main_at
    <2>2. ScmFlags'
        BY <1>10 DEF ScmTypes, ScmFlags, phase_7, main_at
    <2>3. Told'
        BY <1>10 DEF ScmTypes, ScmFlags, Where, Told, phase_7, main_at
    <2>4. Where'
        BY <1>10 DEF ScmTypes, ScmFlags, Where, phase_7, main_at
    <2>5. Quiet'
        BY <1>10 DEF ScmTypes, ScmFlags, Told, Where, Quiet, phase_7, main_at
    <2>6. OkEarned'
        BY <1>10 DEF ScmTypes, ScmFlags, Told, Where, OkEarned, phase_7, main_at
    <2> QED BY <2>1, <2>2, <2>3, <2>4, <2>5, <2>6
<1>11. ASSUME wait_for_control PROVE ScmInv'
    <2>1. ScmTypes'
        BY <1>11 DEF ScmTypes, wait_for_control, main_at
    <2>2. ScmFlags'
        BY <1>11 DEF ScmTypes, ScmFlags, wait_for_control, main_at
    <2>3. Told'
        BY <1>11 DEF ScmTypes, ScmFlags, Where, Told, wait_for_control, main_at
    <2>4. Where'
        BY <1>11 DEF ScmTypes, ScmFlags, Where, wait_for_control, main_at
    <2>5. Quiet'
        BY <1>11 DEF ScmTypes, ScmFlags, Told, Where, Quiet, wait_for_control, main_at
    <2>6. OkEarned'
        BY <1>11 DEF ScmTypes, ScmFlags, Told, Where, OkEarned, wait_for_control, main_at
    <2> QED BY <2>1, <2>2, <2>3, <2>4, <2>5, <2>6
<1>12. ASSUME control_channel_closes PROVE ScmInv'
    <2>1. ScmTypes'
        BY <1>12 DEF ScmTypes, control_channel_closes, main_at
    <2>2. ScmFlags'
        BY <1>12 DEF ScmTypes, ScmFlags, control_channel_closes, main_at
    <2>3. Told'
        BY <1>12 DEF ScmTypes, ScmFlags, Where, Told, control_channel_closes, main_at
    <2>4. Where'
        BY <1>12 DEF ScmTypes, ScmFlags, Where, control_channel_closes, main_at
    <2>5. Quiet'
        BY <1>12 DEF ScmTypes, ScmFlags, Told, Where, Quiet, control_channel_closes, main_at
    <2>6. OkEarned'
        BY <1>12 DEF ScmTypes, ScmFlags, Told, Where, OkEarned, control_channel_closes, main_at
    <2> QED BY <2>1, <2>2, <2>3, <2>4, <2>5, <2>6
<1>13. ASSUME runtime_stop PROVE ScmInv'
    <2>1. ScmTypes'
        BY <1>13 DEF ScmTypes, runtime_stop
    <2>2. ScmFlags'
        BY <1>13 DEF ScmTypes, ScmFlags, runtime_stop
    <2>3. Told'
        BY <1>13 DEF ScmTypes, ScmFlags, Where, Told, runtime_stop
    <2>4. Where'
        BY <1>13 DEF ScmTypes, ScmFlags, Where, runtime_stop
    <2>5. Quiet'
        BY <1>13 DEF ScmTypes, ScmFlags, Told, Where, Quiet, runtime_stop
    <2>6. OkEarned'
        BY <1>13 DEF ScmTypes, ScmFlags, Told, Where, OkEarned, runtime_stop
    <2> QED BY <2>1, <2>2, <2>3, <2>4, <2>5, <2>6
<1>14. ASSUME leave PROVE ScmInv'
    <2>1. ScmTypes'
        BY <1>14 DEF ScmTypes, leave, main_at, dropped_runtime
    <2>2. ScmFlags'
        BY <1>14 DEF ScmTypes, ScmFlags, leave, main_at, dropped_runtime
    <2>3. Told'
        BY <1>14 DEF ScmTypes, ScmFlags, Where, Told, leave, main_at, dropped_runtime
    <2>4. Where'
        BY <1>14 DEF ScmTypes, ScmFlags, Where, leave, main_at, dropped_runtime
    <2>5. Quiet'
        BY <1>14 DEF ScmTypes, ScmFlags, Told, Where, Quiet, leave, main_at, dropped_runtime
    <2>6. OkEarned'
        BY <1>14 DEF ScmTypes, ScmFlags, Told, Where, OkEarned, leave, main_at, dropped_runtime
    <2> QED BY <2>1, <2>2, <2>3, <2>4, <2>5, <2>6
<1>15. ASSUME palka_service_entry_logs PROVE ScmInv'
    <2>1. ScmTypes'
        BY <1>15 DEF ScmTypes, palka_service_entry_logs, main_at
    <2>2. ScmFlags'
        BY <1>15 DEF ScmTypes, ScmFlags, palka_service_entry_logs, main_at
    <2>3. Told'
        BY <1>15 DEF ScmTypes, ScmFlags, Where, Told, palka_service_entry_logs, main_at
    <2>4. Where'
        BY <1>15 DEF ScmTypes, ScmFlags, Where, palka_service_entry_logs, main_at
    <2>5. Quiet'
        BY <1>15 DEF ScmTypes, ScmFlags, Told, Where, Quiet, palka_service_entry_logs, main_at
    <2>6. OkEarned'
        BY <1>15 DEF ScmTypes, ScmFlags, Told, Where, OkEarned, palka_service_entry_logs, main_at
    <2> QED BY <2>1, <2>2, <2>3, <2>4, <2>5, <2>6
<1>16. ASSUME entry_panics PROVE ScmInv'
    <2>1. ScmTypes'
        BY <1>16 DEF ScmTypes, entry_panics
    <2>2. ScmFlags'
        BY <1>16 DEF ScmTypes, ScmFlags, entry_panics
    <2>3. Told'
        BY <1>16 DEF ScmTypes, ScmFlags, Where, Told, entry_panics
    <2>4. Where'
        BY <1>16 DEF ScmTypes, ScmFlags, Where, entry_panics
    <2>5. Quiet'
        BY <1>16 DEF ScmTypes, ScmFlags, Told, Where, Quiet, entry_panics
    <2>6. OkEarned'
        BY <1>16 DEF ScmTypes, ScmFlags, Told, Where, OkEarned, entry_panics
    <2> QED BY <2>1, <2>2, <2>3, <2>4, <2>5, <2>6
<1>17. ASSUME worker_panics PROVE ScmInv'
    <2>1. ScmTypes'
        BY <1>17 DEF ScmTypes, worker_panics
    <2>2. ScmFlags'
        BY <1>17 DEF ScmTypes, ScmFlags, worker_panics
    <2>3. Told'
        BY <1>17 DEF ScmTypes, ScmFlags, Where, Told, worker_panics
    <2>4. Where'
        BY <1>17 DEF ScmTypes, ScmFlags, Where, worker_panics
    <2>5. Quiet'
        BY <1>17 DEF ScmTypes, ScmFlags, Told, Where, Quiet, worker_panics
    <2>6. OkEarned'
        BY <1>17 DEF ScmTypes, ScmFlags, Told, Where, OkEarned, worker_panics
    <2> QED BY <2>1, <2>2, <2>3, <2>4, <2>5, <2>6
<1>18. ASSUME record_result PROVE ScmInv'
    <2>1. ScmTypes'
        BY <1>18 DEF ScmTypes, record_result, main_at
    <2>2. ScmFlags'
        BY <1>18 DEF ScmTypes, ScmFlags, record_result, main_at
    <2>3. Told'
        BY <1>18 DEF ScmTypes, ScmFlags, Where, Told, record_result, main_at
    <2>4. Where'
        BY <1>18 DEF ScmTypes, ScmFlags, Where, record_result, main_at
    <2>5. Quiet'
        BY <1>18 DEF ScmTypes, ScmFlags, Told, Where, Quiet, record_result, main_at
    <2>6. OkEarned'
        BY <1>18 DEF ScmTypes, ScmFlags, Told, Where, OkEarned, record_result, main_at
    <2> QED BY <2>1, <2>2, <2>3, <2>4, <2>5, <2>6
<1> QED BY <1>1, <1>2, <1>3, <1>4, <1>5, <1>6, <1>7, <1>8, <1>9, <1>10, <1>11, <1>12, <1>13, <1>14, <1>15, <1>16, <1>17, <1>18

\* The SCM sends a control: nothing is said, nothing moves.
LEMMA SendsInv ==
    ASSUME ScmInv, NEW c \in Control, scm_sends(c)
    PROVE  ScmInv'
<1> USE DEF ScmInv, host, status, scm_sends
<1>1. ScmTypes' /\ ScmFlags'
    BY DEF ScmTypes, ScmFlags
<1>2. Told' /\ OkEarned'
    BY DEF Told, OkEarned, Earned
<1>3. Where' /\ Quiet'
    BY DEF Where, Quiet
<1> QED BY <1>1, <1>2, <1>3

\* STOPPED is published by somebody who has not said it: it is said once.
LEMMA SaysStopped ==
    ASSUME ScmInv, NEW code \in {0, ERROR_EXCEPTION_IN_SERVICE}, publish(stopped(code)),
           stopped_reported = FALSE
    PROVE  /\ scm' = stopped(code) /\ stopped_reported' = TRUE /\ stops' = 1
           /\ scm' \in [state : ScmServiceState, checkpoint : 0..2, exit : {0, ERROR_EXCEPTION_IN_SERVICE}]
           /\ scm'.state = "Stopped" /\ scm'.exit = code
<1>1. stops = 0
    BY DEF ScmInv, Told
<1>2. scm' = stopped(code) /\ stopped_reported' = TRUE /\ stops' = 1
    <2>1. stopped(code).state = "Stopped"
        BY DEF stopped
    <2>2. scm' = stopped(code)
        BY DEF publish
    <2>3. stopped_reported' = TRUE
        BY <2>1 DEF publish
    <2>4. stops' = stops + 1
        BY <2>1 DEF publish
    <2> QED BY <1>1, <2>2, <2>3, <2>4
<1>3. stopped(code) \in [state : ScmServiceState, checkpoint : 0..2, exit : {0, ERROR_EXCEPTION_IN_SERVICE}]
      /\ stopped(code).state = "Stopped" /\ stopped(code).exit = code
    BY DEF stopped, ScmServiceState
<1> QED BY <1>2, <1>3

\* The entry's own STOPPED: after a startup that failed, and at the end.
LEMMA FinalReports ==
    ASSUME ScmInv, startup_failed \/ phase_10
    PROVE  ScmInv'
<1> USE DEF BeforeReports, Starting, Serving, Stopping, EntryGone, Verdict, MainPc
<1>1. /\ main_pc \in {"startup_failed", "report_stopped"} /\ main_pc' = "leave" /\ failed' \in BOOLEAN
      /\ UNCHANGED <<host, control, fallback, runtime, panicked, service_result>>
    BY DEF startup_failed, phase_10, main_at, ScmInv, ScmFlags, exit_code, NO_ERROR, ERROR_EXCEPTION_IN_SERVICE
<1>2. /\ lifecycle.state \in {"StartPending", "StopPending"} /\ scm.state = lifecycle.state
      /\ stopped_reported = FALSE /\ runtime \notin {"running", "poisoned"}
    BY <1>1 DEF ScmInv, Told, Where, ScmFlags
<1>3. PICK code \in {0, ERROR_EXCEPTION_IN_SERVICE} :
         /\ code = 0 => accepted = TRUE /\ runtime = "stopped"
         /\ \/ publish(stopped(code)) /\ lifecycle' = [state |-> "Stopped", checkpoint |-> 0]
            \/ UNCHANGED status
    <2>1. CASE startup_failed
        BY <2>1 DEF startup_failed, ERROR_EXCEPTION_IN_SERVICE
    <2>2. CASE phase_10
        <3>1. exit_code \in {0, ERROR_EXCEPTION_IN_SERVICE}
            BY DEF exit_code, NO_ERROR
        <3>2. exit_code = 0 => accepted = TRUE /\ runtime = "stopped"
            BY <2>2 DEF exit_code, NO_ERROR, ERROR_EXCEPTION_IN_SERVICE, phase_10, main_at, ScmInv, Where, ScmFlags
        <3> QED BY <2>2, <3>1, <3>2 DEF phase_10
    <2> QED BY <2>1, <2>2
<1>4. OkEarned'
    BY <1>1 DEF ScmInv, OkEarned, host
<1>5. CASE publish(stopped(code)) /\ lifecycle' = [state |-> "Stopped", checkpoint |-> 0]
    <2>1. /\ scm' = stopped(code) /\ stopped_reported' = TRUE /\ stops' = 1
          /\ scm' \in [state : ScmServiceState, checkpoint : 0..2, exit : {0, ERROR_EXCEPTION_IN_SERVICE}]
          /\ scm'.state = "Stopped" /\ scm'.exit = code
        BY <1>2, <1>5, SaysStopped
    <2>2. lifecycle' \in [state : ScmServiceState, checkpoint : 0..2] /\ lifecycle'.state = "Stopped"
        BY <1>5 DEF ScmServiceState
    <2>3. ScmTypes' /\ ScmFlags'
        BY <1>1, <2>1, <2>2 DEF ScmInv, ScmTypes, ScmFlags, host, control
    <2>4. Told'
        BY <2>1, <2>2 DEF Told
    <2>5. Where'
        BY <1>1 DEF ScmInv, Where, host, control
    <2>6. Quiet'
        BY <1>1, <1>2, <1>3, <2>1 DEF Quiet, control
    <2> QED BY <1>4, <2>3, <2>4, <2>5, <2>6 DEF ScmInv
<1>6. CASE UNCHANGED status
    <2>1. ScmTypes' /\ ScmFlags'
        BY <1>1, <1>6 DEF ScmInv, ScmTypes, ScmFlags, host, control, status
    <2>2. Told'
        BY <1>1, <1>6 DEF ScmInv, Told, status
    <2>3. Where'
        BY <1>1, <1>6 DEF ScmInv, Where, host, control, status
    <2>4. Quiet'
        BY <1>1, <1>6 DEF ScmInv, Quiet, control, status
    <2> QED BY <1>4, <2>1, <2>2, <2>3, <2>4 DEF ScmInv
<1> QED BY <1>3, <1>5, <1>6

\* The fallbacks speak for an entry that is gone: they say STOPPED only if
\* nobody has, and nobody runs any more.
LEMMA Fallbacks ==
    ASSUME ScmInv, entry_return_guard \/ service_main_trampoline
    PROVE  ScmInv'
<1> USE DEF BeforeReports, Starting, Serving, Stopping, EntryGone, Verdict, MainPc
<1>1. /\ main_pc \in {"guard", "trampoline"} /\ main_pc' \in Verdict \cup {"done"}
      /\ main_pc' = "Ok" => main_pc = "guard" /\ stopped_reported = TRUE /\ panicked = FALSE
      /\ service_result' # "Ok" \/ service_result' = service_result
      /\ UNCHANGED <<host, control, fallback, runtime, panicked, failed, lifecycle>>
      /\ execute_panic_fallback \/ UNCHANGED status
    <2>1. CASE entry_return_guard
        BY <2>1 DEF entry_return_guard, main_at, entry_result, ScmInv, ScmFlags, execute_panic_fallback, status
    <2>2. CASE service_main_trampoline
        BY <2>2 DEF service_main_trampoline, main_at, execute_panic_fallback, status
    <2> QED BY <2>1, <2>2
<1>2. runtime \notin {"running", "poisoned"}
    BY <1>1 DEF ScmInv, Where
<1>3. service_result # "Ok" /\ returned # "Ok"
    BY <1>1 DEF ScmInv, OkEarned
<1>4. OkEarned'
    <2>1. main_pc' = "Ok" => Earned'
        BY <1>1 DEF ScmInv, Told, Earned
    <2> QED BY <1>1, <1>3, <2>1 DEF OkEarned, host
<1>5. Where'
    BY <1>1, <1>2 DEF ScmInv, Where, host, control
<1>6. CASE publish(stopped(ERROR_EXCEPTION_IN_SERVICE)) /\ stopped_reported = FALSE
    <2>0. ERROR_EXCEPTION_IN_SERVICE # 0
        BY DEF ERROR_EXCEPTION_IN_SERVICE
    <2>1. /\ scm' = stopped(ERROR_EXCEPTION_IN_SERVICE) /\ stopped_reported' = TRUE /\ stops' = 1
          /\ scm' \in [state : ScmServiceState, checkpoint : 0..2, exit : {0, ERROR_EXCEPTION_IN_SERVICE}]
          /\ scm'.state = "Stopped" /\ scm'.exit # 0
        BY <1>6, <2>0, SaysStopped
    <2>2. ScmTypes' /\ ScmFlags'
        BY <1>1, <2>1 DEF ScmInv, ScmTypes, ScmFlags, host, control
    <2>3. Told'
        BY <1>1, <2>1 DEF Told
    <2>4. Quiet'
        BY <1>1, <1>2, <2>1 DEF Quiet
    <2> QED BY <1>4, <1>5, <2>2, <2>3, <2>4 DEF ScmInv
<1>7. CASE UNCHANGED status
    <2>1. ScmTypes' /\ ScmFlags'
        BY <1>1, <1>7 DEF ScmInv, ScmTypes, ScmFlags, host, control, status
    <2>2. Told'
        BY <1>1, <1>7 DEF ScmInv, Told, status
    <2>3. Quiet'
        BY <1>1, <1>7 DEF ScmInv, Quiet, control, status
    <2> QED BY <1>4, <1>5, <2>1, <2>2, <2>3 DEF ScmInv
<1>8. stopped_reported \in BOOLEAN
    BY DEF ScmInv, ScmFlags
<1> QED BY <1>1, <1>6, <1>7, <1>8 DEF execute_panic_fallback

LEMMA ScmStep == ScmInv /\ [ScmNext]_scm_vars => ScmInv'
<1> SUFFICES ASSUME ScmInv, [ScmNext]_scm_vars PROVE ScmInv'
    OBVIOUS
<1>1. ASSUME NEW c \in Control, scm_sends(c) PROVE ScmInv'
    BY <1>1, SendsInv
<1>2. CASE UNCHANGED scm_vars
    BY <1>2 DEF scm_vars, ScmInv, ScmTypes, ScmFlags, Told, Where, Quiet, OkEarned, Earned
<1> QED BY <1>1, <1>2, PhasesInv, QuietSteps, FinalReports, Fallbacks
        DEF ScmNext, Dispatcher, ServiceMain, Ended

(* What the SCM and the caller of the dispatcher are told is what happened,*)
(* for every combination of failed reports, panics and early returns       *)
(* (run_service_with_ports, entry_return_guard, the panic fallbacks).      *)
THEOREM StatusTrue == ScmSpec => []ServiceStatusTrue
<1>1. ScmInit => ScmInv
    BY ScmStart
<1>2. ScmInv /\ [ScmNext]_scm_vars => ScmInv'
    BY ScmStep
<1>3. ScmInv => ServiceStatusTrue
    BY ScmInvImplies
<1> HIDE DEF ScmInv
<1> QED BY <1>1, <1>2, <1>3, PTL DEF ScmSpec
=============================================================================
