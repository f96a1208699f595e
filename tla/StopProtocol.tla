---------------------------- MODULE StopProtocol ----------------------------
(***************************************************************************)
(* The threads around the coordinator: clients that submit commands        *)
(* through a RuntimeHandle, the worker that owns the coordinator, and the  *)
(* owner of the ServiceRuntime that stops it.  They share a queue and two  *)
(* mutexes: ingress, which guards the flag that closes the queue, and      *)
(* platform_effect_gate, which guards stop_requested and is held by the    *)
(* worker during a platform call.                                          *)
(*                                                                         *)
(* What a command does to the service is the subject of Runtime; here a    *)
(* command either calls the platform ("effect") or not ("plain").          *)
(***************************************************************************)
EXTENDS Integers, Sequences, FiniteSets

CONSTANTS Client,    \* threads with a clone of RuntimeHandle
          Owner,     \* the thread that owns ServiceRuntime
          Worker,    \* the spawned coordinator thread
          NoOne,     \* holder of a free mutex
          MaxCalls,  \* calls a client makes
          Endless,   \* TRUE: clients never stop calling
          MaxPanics  \* panics of the worker

ASSUME ThreadsDistinct == Owner \notin Client /\ Worker \notin Client /\ NoOne \notin Client
                          /\ Owner # Worker /\ Owner # NoOne /\ Worker # NoOne
ASSUME BoundsAreNat == MaxCalls \in Nat /\ MaxPanics \in Nat /\ Endless \in BOOLEAN

Kind == {"plain", "effect"}
Command == [from : Client, kind : Kind] \cup [from : {Owner}, kind : {"stop"}]
ClockWork == [from |-> Worker, kind |-> "clock"]
Idle == [from |-> Worker, kind |-> "none"]
Job == Command \cup {ClockWork, Idle}

VARIABLES
    ingress,              \* holder of the ingress mutex
    closed,               \* the flag the ingress mutex guards
    gate,                 \* holder of platform_effect_gate
    poisoned,             \* the worker panicked while it held platform_effect_gate
    stop_requested,       \* the atomic flag
    queue,                \* the unbounded mpsc channel
    reply,                \* state of each caller's reply channel
    cpc, outcome, calls,  \* clients: where they are, what the last call returned
    opc,                  \* where the owner is in stop()
    wpc, job,             \* worker: where it is, what it is handling
    due,                  \* next_wake_timeout has expired
    panics

threads == <<cpc, outcome, calls, opc>>
work == <<wpc, job, due, panics>>
locks == <<ingress, closed, gate, poisoned, stop_requested>>
stop_vars == <<ingress, closed, gate, poisoned, stop_requested, queue, reply,
               cpc, outcome, calls, opc, wpc, job, due, panics>>

Gone == {"exited", "panicked"}

StopInit ==
    /\ ingress = NoOne /\ closed = FALSE /\ gate = NoOne /\ poisoned = FALSE
    /\ stop_requested = FALSE
    /\ queue = <<>>
    /\ reply = [t \in Client \cup {Owner} |-> "none"]
    /\ cpc = [c \in Client |-> "idle"]
    /\ outcome = [c \in Client |-> "none"]
    /\ calls = [c \in Client |-> 0]
    /\ opc = "running"
    /\ wpc = "poll" /\ job = Idle /\ due = FALSE /\ panics = 0

-----------------------------------------------------------------------------
(* Clients: every method of RuntimeHandle has this shape. *)

begin_call(c) ==
    /\ cpc[c] = "idle"
    /\ Endless \/ calls[c] < MaxCalls
    /\ calls' = [calls EXCEPT ![c] = IF Endless THEN @ ELSE @ + 1]
    /\ cpc' = [cpc EXCEPT ![c] = "want_lock"]
    /\ UNCHANGED <<locks, queue, reply, outcome, opc, work>>

lock_ingress(c) ==
    /\ cpc[c] = "want_lock"
    /\ ingress = NoOne
    /\ ingress' = c
    /\ cpc' = [cpc EXCEPT ![c] = "locked"]
    /\ UNCHANGED <<closed, gate, poisoned, stop_requested, queue, reply, outcome, calls, opc, work>>

return_call(c, res) ==
    /\ cpc' = [cpc EXCEPT ![c] = "idle"]
    /\ outcome' = [outcome EXCEPT ![c] = res]

admits == ~closed

reject(c) ==
    /\ cpc[c] = "locked"
    /\ ~admits
    /\ ingress' = NoOne
    /\ return_call(c, "Stopping")
    /\ UNCHANGED <<closed, gate, poisoned, stop_requested, queue, reply, calls, opc, work>>

(* send() fails only when the worker is gone and has dropped the receiver. *)
send(c, kind) ==
    /\ cpc[c] = "locked"
    /\ admits
    /\ ingress' = NoOne
    /\ IF wpc \in Gone
         THEN /\ return_call(c, "Channel")
              /\ UNCHANGED <<queue, reply>>
         ELSE /\ queue' = Append(queue, [from |-> c, kind |-> kind])
              /\ reply' = [reply EXCEPT ![c] = "open"]
              /\ cpc' = [cpc EXCEPT ![c] = "waiting"]
              /\ UNCHANGED outcome
    /\ UNCHANGED <<closed, gate, poisoned, stop_requested, calls, opc, work>>

(* Only an immediate block and a restore go on to call the platform.       *)
schedule_internet_block(c) == send(c, "plain")
schedule_shutdown(c) == send(c, "plain")
cancel_internet_block_timer(c) == send(c, "plain")
cancel_shutdown_timer(c) == send(c, "plain")
immediate_internet_block(c) == send(c, "effect")
restore_internet(c) == send(c, "effect")
ack_telegram(c) == send(c, "plain")
query_status(c) == send(c, "plain")
subscribe_events(c) == send(c, "plain")
unsubscribe_events(c) == send(c, "plain")
send_child_message(c) == send(c, "plain")
publish_parent_message(c) == send(c, "plain")
submit(c) ==
    \/ schedule_internet_block(c) \/ schedule_shutdown(c)
    \/ cancel_internet_block_timer(c) \/ cancel_shutdown_timer(c)
    \/ immediate_internet_block(c) \/ restore_internet(c)
    \/ ack_telegram(c) \/ query_status(c) \/ subscribe_events(c) \/ unsubscribe_events(c)
    \/ send_child_message(c) \/ publish_parent_message(c)

recv(c) ==
    /\ cpc[c] = "waiting"
    /\ reply[c] # "open"
    /\ return_call(c, IF reply[c] = "answered" THEN "answered" ELSE "Channel")
    /\ reply' = [reply EXCEPT ![c] = "none"]
    /\ UNCHANGED <<locks, queue, calls, opc, work>>

-----------------------------------------------------------------------------
(* The worker: next_wake_timeout, recv / recv_timeout, one command or one  *)
(* round of the clock.  recv_timeout takes a queued command even when the  *)
(* timeout is zero.                                                        *)

next_command ==
    /\ wpc = "poll"
    /\ queue # <<>>
    /\ job' = Head(queue)
    /\ queue' = Tail(queue)
    /\ wpc' = "handle"
    /\ UNCHANGED <<locks, reply, threads, due, panics>>

clock_is_served == queue = <<>>

timeout ==
    /\ wpc = "poll"
    /\ due
    /\ clock_is_served
    /\ job' = ClockWork
    /\ wpc' = "handle"
    /\ UNCHANGED <<locks, queue, reply, threads, due, panics>>

answer(j) == IF j.from \in Client THEN [reply EXCEPT ![j.from] = "answered"] ELSE reply

finish ==
    /\ wpc' = "poll"
    /\ job' = Idle
    /\ reply' = answer(job)
    /\ due' = (due /\ job # ClockWork)

(* A handler without a platform call; also one that gives up early. *)
handle_plain ==
    /\ wpc = "handle"
    /\ job.kind \in {"plain", "effect"} \/ (job = ClockWork /\ ~stop_requested)
    /\ finish
    /\ UNCHANGED <<locks, queue, threads, panics>>

(* process_clock_and_events returns at once while a stop is requested; the *)
(* timers stay due.                                                        *)
clock_stopped ==
    /\ wpc = "handle"
    /\ job = ClockWork
    /\ stop_requested
    /\ wpc' = "poll"
    /\ job' = Idle
    /\ UNCHANGED <<locks, queue, reply, threads, due, panics>>

(* The intent is saved; the handler goes on to the platform call. *)
handle_effect ==
    /\ wpc = "handle"
    /\ job.kind = "effect" \/ (job = ClockWork /\ ~stop_requested)
    /\ wpc' = "want_gate"
    /\ UNCHANGED <<locks, queue, reply, threads, job, due, panics>>

lock_gate ==
    /\ wpc = "want_gate"
    /\ gate = NoOne
    /\ gate' = Worker
    /\ wpc' = "gated"
    /\ UNCHANGED <<ingress, closed, poisoned, stop_requested, queue, reply, threads, job, due, panics>>

may_call == ~stop_requested

call_platform ==
    /\ wpc = "gated"
    /\ may_call
    /\ wpc' = "in_call"
    /\ UNCHANGED <<locks, queue, reply, threads, job, due, panics>>

give_up ==
    /\ wpc = "gated"
    /\ ~may_call
    /\ gate' = NoOne
    /\ finish
    /\ UNCHANGED <<ingress, closed, poisoned, stop_requested, queue, threads, panics>>

platform_returns ==
    /\ wpc = "in_call"
    /\ gate' = NoOne
    /\ wpc' = "after_call"
    /\ UNCHANGED <<ingress, closed, poisoned, stop_requested, queue, reply, threads, job, due, panics>>

after_call ==
    /\ wpc = "after_call"
    /\ finish
    /\ UNCHANGED <<locks, queue, threads, panics>>

(* The receiver is dropped with the thread, and with it the reply channels *)
(* of what was still queued.                                               *)
queued == {queue[i].from : i \in 1..Len(queue)}
dropped(r) == [t \in DOMAIN r |-> IF t \in queued THEN "dropped" ELSE r[t]]

handle_stop ==
    /\ wpc = "handle"
    /\ job.kind = "stop"
    /\ reply' = [reply EXCEPT ![Owner] = "answered"]
    /\ wpc' = "exiting"
    /\ job' = Idle
    /\ UNCHANGED <<locks, queue, threads, due, panics>>

worker_exits ==
    /\ wpc = "exiting"
    /\ wpc' = "exited"
    /\ reply' = dropped(reply)
    /\ queue' = <<>>
    /\ UNCHANGED <<locks, threads, job, due, panics>>

(* A panic in a handler or inside a platform call; a mutex held then is    *)
(* poisoned.                                                               *)
panic ==
    /\ wpc \in {"handle", "in_call", "after_call"}
    /\ panics < MaxPanics
    /\ panics' = panics + 1
    /\ wpc' = "panicked"
    /\ reply' = LET r == dropped(reply)
                IN  [t \in DOMAIN r |-> IF t = job.from THEN "dropped" ELSE r[t]]
    /\ job' = Idle
    /\ queue' = <<>>
    /\ poisoned' = (poisoned \/ gate = Worker)
    /\ gate' = IF gate = Worker THEN NoOne ELSE gate
    /\ UNCHANGED <<ingress, closed, stop_requested, threads, due>>

(* A deadline, a threshold or a retry comes due. *)
come_due ==
    /\ ~due
    /\ wpc \notin Gone
    /\ due' = TRUE
    /\ UNCHANGED <<locks, queue, reply, threads, wpc, job, panics>>

-----------------------------------------------------------------------------
(* The owner: stop(), and Drop, which calls it again. *)

stop_closes ==
    /\ opc = "running"
    /\ ingress = NoOne
    /\ ~closed
    /\ ingress' = Owner
    /\ closed' = TRUE
    /\ opc' = "want_gate"
    /\ UNCHANGED <<gate, poisoned, stop_requested, queue, reply, cpc, outcome, calls, work>>

(* lock().unwrap() of a poisoned gate panics, and Drop panics again while  *)
(* that unwinds (ingress is poisoned by then): the process aborts.         *)
stop_locks_gate ==
    /\ opc = "want_gate"
    /\ gate = NoOne
    /\ opc' = IF poisoned THEN "aborted" ELSE "gated"
    /\ gate' = IF poisoned THEN NoOne ELSE Owner
    /\ UNCHANGED <<ingress, closed, poisoned, stop_requested, queue, reply, cpc, outcome, calls, work>>

stop_raises_flag ==
    /\ opc = "gated"
    /\ ~stop_requested
    /\ stop_requested' = TRUE
    /\ UNCHANGED <<ingress, closed, gate, poisoned, queue, reply, threads, work>>

MutGateKeptForReply ==
    /\ opc = "gated"
    /\ stop_requested
    /\ wpc \notin Gone
    /\ ingress' = NoOne
    /\ opc' = "wait_reply"
    /\ queue' = Append(queue, [from |-> Owner, kind |-> "stop"])
    /\ reply' = [reply EXCEPT ![Owner] = "open"]
    /\ UNCHANGED <<closed, gate, poisoned, stop_requested, cpc, outcome, calls, work>>
stop_sends ==
    /\ opc = "gated"
    /\ stop_requested
    /\ gate' = NoOne
    /\ ingress' = NoOne
    /\ opc' = "wait_reply"
    /\ IF wpc \in Gone
         THEN /\ reply' = [reply EXCEPT ![Owner] = "dropped"]
              /\ UNCHANGED queue
         ELSE /\ queue' = Append(queue, [from |-> Owner, kind |-> "stop"])
              /\ reply' = [reply EXCEPT ![Owner] = "open"]
    /\ UNCHANGED <<closed, poisoned, stop_requested, cpc, outcome, calls, work>>

(* An error of the reply is kept: the worker is joined first. *)
MutReturnOnReply == "returned"
after_reply == "join"

stop_replied ==
    /\ opc = "wait_reply"
    /\ reply[Owner] # "open"
    /\ opc' = after_reply
    /\ UNCHANGED <<locks, queue, reply, cpc, outcome, calls, work>>

stop_joined ==
    /\ opc = "join"
    /\ wpc \in Gone
    /\ opc' = "returned"
    /\ UNCHANGED <<locks, queue, reply, cpc, outcome, calls, work>>

(* A second stop(), or Drop, finds the flag raised and returns Ok. *)
stop_again ==
    /\ opc = "returned"
    /\ ingress = NoOne
    /\ closed
    /\ opc' = "dropped"
    /\ UNCHANGED <<locks, queue, reply, cpc, outcome, calls, work>>

(* Everyone has finished, or the process is gone. *)
all_done ==
    /\ opc = "aborted" \/ (opc = "dropped" /\ \A c \in Client : cpc[c] = "idle" /\ calls[c] = MaxCalls)
    /\ UNCHANGED stop_vars

-----------------------------------------------------------------------------
Serve(c) == reject(c) \/ submit(c) \/ recv(c)
ClientStep(c) == begin_call(c) \/ lock_ingress(c) \/ Serve(c)
WorkerStep == \/ next_command \/ timeout \/ handle_plain \/ clock_stopped \/ handle_effect
              \/ lock_gate \/ call_platform \/ give_up \/ platform_returns \/ after_call
              \/ handle_stop \/ worker_exits
OwnerStep == \/ stop_locks_gate \/ stop_raises_flag \/ stop_sends \/ stop_replied
             \/ stop_joined \/ stop_again
Alive == opc # "aborted"

StopStep == \/ \E c \in Client : ClientStep(c)
            \/ WorkerStep \/ panic \/ come_due
            \/ stop_closes \/ OwnerStep

StopNext == \/ Alive /\ StopStep
            \/ all_done

(* A client inside a call, the worker and an owner inside stop() run on,   *)
(* and platform calls return; nobody is obliged to begin a call or a stop. *)
(* A mutex does not pass one waiter over for ever, and a worker that finds *)
(* the queue empty again and again takes its timeout (strong fairness).    *)
StopFairness ==
    /\ \A c \in Client : WF_stop_vars(Alive /\ Serve(c)) /\ SF_stop_vars(Alive /\ lock_ingress(c))
    /\ WF_stop_vars(Alive /\ WorkerStep) /\ SF_stop_vars(Alive /\ lock_gate) /\ SF_stop_vars(Alive /\ timeout)
    /\ WF_stop_vars(OwnerStep) /\ SF_stop_vars(stop_locks_gate)

StopSpec == StopInit /\ [][StopNext]_stop_vars /\ StopFairness

-----------------------------------------------------------------------------
(* Types, and which thread holds which mutex at which point: the worker    *)
(* never holds ingress, the owner holds both only between closing the      *)
(* queue and sending Stop, and nobody holds one while it waits for a reply *)
(* or for the join (the lock order documented at stop()).                  *)
StopTypeOK ==
    /\ ingress \in Client \cup {Owner, NoOne} /\ gate \in {Owner, Worker, NoOne}
    /\ {closed, poisoned, stop_requested, due} \subseteq BOOLEAN
    /\ queue \in Seq(Command) /\ job \in Job
    /\ reply \in [Client \cup {Owner} -> {"none", "open", "answered", "dropped"}]
    /\ cpc \in [Client -> {"idle", "want_lock", "locked", "waiting"}]
    /\ outcome \in [Client -> {"none", "answered", "Stopping", "Channel"}]
    /\ calls \in [Client -> 0..MaxCalls] /\ panics \in 0..MaxPanics
    /\ opc \in {"running", "want_gate", "gated", "wait_reply", "join", "returned", "dropped", "aborted"}
    /\ wpc \in {"poll", "handle", "want_gate", "gated", "in_call", "after_call", "exiting"} \cup Gone
    /\ ingress = Owner <=> opc \in {"want_gate", "gated", "aborted"}
    /\ \A c \in Client : ingress = c <=> cpc[c] = "locked"
    /\ gate = Owner <=> opc = "gated"
    /\ gate = Worker <=> wpc \in {"gated", "in_call"}

(* Once stop() has raised stop_requested no platform call is in flight and *)
(* none begins: the flag is raised and read under platform_effect_gate.    *)
StopFencesEffects == stop_requested => wpc # "in_call"

(* A command that was accepted is answered: no client finds its reply      *)
(* channel dropped unless the worker panicked, however sends race the stop. *)
AcceptedAnswered == \A c \in Client : outcome[c] = "Channel" => wpc = "panicked"

(* stop() returns, with or without an error, only when the worker thread   *)
(* is gone ("Worker must ALWAYS be joined before error is returned!").     *)
JoinBeforeReturn == opc \in {"returned", "dropped"} => wpc \in Gone

(* What stop() promises whatever it races with: the lock discipline, no    *)
(* platform call behind its back, an answer for every accepted command and *)
(* no worker left when it returns.                                         *)
StopSafe == StopTypeOK /\ StopFencesEffects /\ AcceptedAnswered /\ JoinBeforeReturn

(* Every call of a handle returns, whatever stop() and a panic do.         *)
ClientReturns == \A c \in Client : cpc[c] = "want_lock" ~> cpc[c] = "idle" \/ ~Alive

(* stop() returns: its two locks, the reply and the join cannot deadlock   *)
(* with the worker.  Only a panic inside a platform call makes it abort.   *)
StopReturns == opc = "want_gate" ~> opc \in {"returned", "dropped"} \/ (~Alive /\ poisoned)

(* Expired timers are acted upon unless the service stops, as long as     *)
(* clients do not keep the queue occupied for ever: recv_timeout hands out *)
(* a queued command before it times out, with a timeout of zero too.       *)
ClockServed == []<>(queue # <<>>) \/ (due ~> (~due \/ closed \/ wpc \in Gone))

(* Nobody waits in vain: no client, not the owner, not an expired timer.   *)
EveryoneServed == ClientReturns /\ StopReturns /\ ClockServed
=============================================================================
