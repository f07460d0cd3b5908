------------------------- MODULE CancellableClient -------------------------
(***************************************************************************)
(* The HTTP client of the remote and grid backends                         *)
(* (src/crates/infer-client/src/transport.rs): callers hand requests and   *)
(* batches over a bounded channel to one runtime thread, wait for the      *)
(* reply in slices of 50 ms, and between two slices run a tick that looks  *)
(* at PostgreSQL's InterruptPending (src/src/interrupt.rs).                *)
(*                                                                         *)
(* What a request asks and what the server answers is abstracted: a slot   *)
(* of a job is pending, ended (an answer, an error, the client's timeout)  *)
(* or cancelled.  A single request is a batch of one.                      *)
(***************************************************************************)
EXTENDS Integers, Sequences, SequencesExt

CONSTANTS
    Callers,   \* threads that share the client
    Cap,       \* capacity of the command channel, 8 in the code
    MaxCalls,  \* bound: calls one caller makes
    MaxItems   \* bound: items of one batch

\* A job is the number of a call of one caller; two pairs that are no jobs.
Jobs == Callers \X (1 .. MaxCalls)
Shutdown == <<"shutdown", 0>>
NoRun == <<"nothing", 0>>

ASSUME ClientAssumption ==
    /\ Cap \in Nat \ {0}
    /\ MaxCalls \in Nat
    /\ MaxItems \in Nat \ {0}
    /\ "shutdown" \notin Callers /\ "nothing" \notin Callers

VARIABLES
    pc,        \* per caller: where it is in run or batch_with_tick
    call,      \* per caller: number of its current call
    ticks,     \* per caller: the call has a tick (not no_tick)
    interrupt, \* per caller: InterruptPending of its PostgreSQL backend
    items,     \* per caller: items of the current call
    reply,     \* per caller: its end of the current call's reply channel
    cancelled, \* jobs whose CancelToken is set
    chan,      \* the command channel
    rt,        \* the runtime thread
    running,   \* the job it executes, or NoRun
    slots,     \* the results of that job's items
    dropped    \* the client has been dropped

callerVars == <<call, ticks, items>>
runtimeVars == <<rt, running, slots>>
vars == <<pc, callerVars, interrupt, reply, cancelled, chan, runtimeVars, dropped>>

Slots == {"pending", "ended", "cancelled"}

TypeOK ==
    /\ pc \in [Callers -> {"idle", "sending", "waiting", "ticking", "draining"}]
    /\ call \in [Callers -> 0 .. MaxCalls]
    /\ \A c \in Callers : pc[c] # "idle" => call[c] > 0
    /\ ticks \in [Callers -> BOOLEAN]
    /\ interrupt \in [Callers -> BOOLEAN]
    /\ items \in [Callers -> 0 .. MaxItems]
    /\ reply \in [Callers -> {"none", "answer", "cancelled", "gone"}]
    /\ cancelled \in SUBSET Jobs
    /\ chan \in Seq(Jobs \cup {Shutdown}) /\ Len(chan) <= Cap
    /\ rt \in {"starting", "idle", "busy", "exited"}
    /\ running \in Jobs \cup {NoRun} /\ (running # NoRun <=> rt = "busy")
    /\ slots \in Seq(Slots)
    /\ dropped \in BOOLEAN

Init ==
    /\ pc = [c \in Callers |-> "idle"]
    /\ call = [c \in Callers |-> 0]
    /\ ticks = [c \in Callers |-> FALSE]
    /\ interrupt = [c \in Callers |-> FALSE]
    /\ items = [c \in Callers |-> 0]
    /\ reply = [c \in Callers |-> "none"]
    /\ cancelled = {}
    /\ chan = <<>>
    /\ rt = "starting"
    /\ running = NoRun
    /\ slots = <<>>
    /\ dropped = FALSE

\* The job of the current call of c.
Current(c) == <<c, call[c]>>

----------------------------------------------------------------------------
(* The caller: run and batch_with_tick *)

\* A fresh CancelToken for every call: cancel_for_current_call.
StartCall(c) ==
    /\ pc[c] = "idle"
    /\ ~dropped
    /\ call[c] < MaxCalls
    /\ pc' = [pc EXCEPT ![c] = "sending"]
    /\ call' = [call EXCEPT ![c] = @ + 1]
    /\ ticks' \in {[ticks EXCEPT ![c] = b] : b \in BOOLEAN}
    /\ items' \in {[items EXCEPT ![c] = n] : n \in 0 .. MaxItems}
    /\ reply' = [reply EXCEPT ![c] = "none"]
    /\ UNCHANGED <<interrupt, cancelled, chan, runtimeVars, dropped>>

\* tx.send: blocks while the channel is full.
Send(c) ==
    /\ pc[c] = "sending"
    /\ rt # "exited"
    /\ Len(chan) < Cap
    /\ chan' = Append(chan, Current(c))
    /\ pc' = [pc EXCEPT ![c] = "waiting"]
    /\ UNCHANGED <<callerVars, interrupt, reply, cancelled, runtimeVars, dropped>>

\* "runtime thread gone"
SendFails(c) ==
    /\ pc[c] = "sending"
    /\ rt = "exited"
    /\ pc' = [pc EXCEPT ![c] = "idle"]
    /\ UNCHANGED <<callerVars, interrupt, reply, cancelled, chan, runtimeVars, dropped>>

\* recv_timeout: the reply, or a disconnected channel.
Receive(c) ==
    /\ pc[c] = "waiting"
    /\ reply[c] # "none"
    /\ pc' = [pc EXCEPT ![c] = "idle"]
    /\ UNCHANGED <<callerVars, interrupt, reply, cancelled, chan, runtimeVars, dropped>>

\* 50 ms without a reply.
ReceiveTimesOut(c) ==
    /\ pc[c] = "waiting"
    /\ reply[c] = "none"
    /\ pc' = [pc EXCEPT ![c] = "ticking"]
    /\ UNCHANGED <<callerVars, interrupt, reply, cancelled, chan, runtimeVars, dropped>>

\* no_tick, or pg_interrupt_tick with no interrupt pending: keep waiting.
TickGoesOn(c) ==
    /\ pc[c] = "ticking"
    /\ ~(ticks[c] /\ interrupt[c])
    /\ pc' = [pc EXCEPT ![c] = "waiting"]
    /\ UNCHANGED <<callerVars, interrupt, reply, cancelled, chan, runtimeVars, dropped>>

\* Mutant of TickCancels: the caller leaves without the recv that drains the
\* reply of the job it has just cancelled.
TickAbandons(c) ==
    /\ pc[c] = "ticking"
    /\ ticks[c] /\ interrupt[c]
    /\ cancelled' = cancelled \cup {Current(c)}
    /\ interrupt' = [interrupt EXCEPT ![c] = FALSE]
    /\ pc' = [pc EXCEPT ![c] = "idle"]
    /\ UNCHANGED <<callerVars, reply, chan, runtimeVars, dropped>>

\* Mutant of TickCancels: the token is not set, the caller only waits on.
TickForgetsToken(c) ==
    /\ pc[c] = "ticking"
    /\ ticks[c] /\ interrupt[c]
    /\ pc' = [pc EXCEPT ![c] = "draining"]
    /\ UNCHANGED <<callerVars, interrupt, reply, cancelled, chan, runtimeVars, dropped>>

\* The tick fails: set the token, then wait for the reply without a limit.
TickCancels(c) ==
    /\ pc[c] = "ticking"
    /\ ticks[c] /\ interrupt[c]
    /\ cancelled' = cancelled \cup {Current(c)}
    /\ pc' = [pc EXCEPT ![c] = "draining"]
    /\ UNCHANGED <<callerVars, interrupt, reply, chan, runtimeVars, dropped>>

\* Whatever the reply says, the call ends in Cancelled; map_err then lets
\* PostgreSQL process the interrupt.
Drain(c) ==
    /\ pc[c] = "draining"
    /\ reply[c] # "none"
    /\ pc' = [pc EXCEPT ![c] = "idle"]
    /\ interrupt' = [interrupt EXCEPT ![c] = FALSE]
    /\ UNCHANGED <<callerVars, reply, cancelled, chan, runtimeVars, dropped>>

Interrupt(c) ==
    /\ ~interrupt[c]
    /\ interrupt' = [interrupt EXCEPT ![c] = TRUE]
    /\ UNCHANGED <<pc, callerVars, reply, cancelled, chan, runtimeVars, dropped>>

\* PostgreSQL's own CHECK_FOR_INTERRUPTS, outside a call.
ProcessInterrupts(c) ==
    /\ pc[c] = "idle"
    /\ interrupt[c]
    /\ interrupt' = [interrupt EXCEPT ![c] = FALSE]
    /\ UNCHANGED <<pc, callerVars, reply, cancelled, chan, runtimeVars, dropped>>

\* Drop: nobody borrows the client any more.
DropClient ==
    /\ ~dropped
    /\ \A c \in Callers : pc[c] = "idle"
    /\ \/ rt = "exited" /\ UNCHANGED chan
       \/ rt # "exited" /\ Len(chan) < Cap /\ chan' = Append(chan, Shutdown)
    /\ dropped' = TRUE
    /\ UNCHANGED <<pc, callerVars, interrupt, reply, cancelled, runtimeVars>>

----------------------------------------------------------------------------
(* runtime_thread *)

BuildRuntime ==
    /\ rt = "starting"
    /\ rt' = "idle"
    /\ UNCHANGED <<pc, callerVars, interrupt, reply, cancelled, chan, running, slots, dropped>>

\* The calls whose commands are still in the channel.
Queued(c) == \E i \in 1 .. Len(chan) : chan[i] = Current(c)

\* Mutant of HangUp: the queued callers are not told.
HangUpSilently == rt' = "exited" /\ chan' = <<>> /\ UNCHANGED reply

\* The thread returns: the channel goes, and with each command in it the
\* sender of its caller's reply channel.
HangUp ==
    /\ rt' = "exited"
    /\ chan' = <<>>
    /\ reply' = [c \in Callers |-> IF Queued(c) THEN "gone" ELSE reply[c]]

\* Building the tokio runtime or the transport fails.
BuildFails ==
    /\ rt = "starting"
    /\ HangUp
    /\ UNCHANGED <<pc, callerVars, interrupt, cancelled, running, slots, dropped>>

\* Mutant of TakeShutdown: the thread's loop goes on.
TakeShutdownAsJob ==
    /\ rt = "idle"
    /\ chan # <<>> /\ Head(chan) = Shutdown
    /\ chan' = Tail(chan)
    /\ UNCHANGED <<pc, callerVars, interrupt, reply, cancelled, runtimeVars, dropped>>

TakeShutdown ==
    /\ rt = "idle"
    /\ chan # <<>> /\ Head(chan) = Shutdown
    /\ HangUp
    /\ UNCHANGED <<pc, callerVars, interrupt, cancelled, running, slots, dropped>>

TakeJob ==
    /\ rt = "idle"
    /\ chan # <<>> /\ Head(chan) # Shutdown
    /\ LET job == Head(chan) IN
         /\ running' = job
         /\ slots' = [i \in 1 .. items[job[1]] |-> "pending"]
    /\ rt' = "busy"
    /\ chan' = Tail(chan)
    /\ UNCHANGED <<pc, callerVars, interrupt, reply, cancelled, dropped>>

\* The server answers, the connection fails, or the client's timeout expires.
ItemEnds(i) ==
    /\ rt = "busy"
    /\ slots[i] = "pending"
    /\ slots' = [slots EXCEPT ![i] = "ended"]
    /\ UNCHANGED <<pc, callerVars, interrupt, reply, cancelled, chan, rt, running, dropped>>

\* Mutant of ItemCancelled: one token for the client, not one for each call.
ItemCancelledByAny(i) ==
    /\ rt = "busy"
    /\ slots[i] = "pending"
    /\ \E job \in cancelled : job[1] = running[1]
    /\ slots' = [slots EXCEPT ![i] = "cancelled"]
    /\ UNCHANGED <<pc, callerVars, interrupt, reply, cancelled, chan, rt, running, dropped>>

\* The token's 20 ms poll wins the select.
ItemCancelled(i) ==
    /\ rt = "busy"
    /\ slots[i] = "pending"
    /\ running \in cancelled
    /\ slots' = [slots EXCEPT ![i] = "cancelled"]
    /\ UNCHANGED <<pc, callerVars, interrupt, reply, cancelled, chan, rt, running, dropped>>

\* reply.send; nobody listens any more if that call is over.
Reply ==
    /\ rt = "busy"
    /\ \A i \in 1 .. Len(slots) : slots[i] # "pending"
    /\ LET c == running[1]
           result == IF \E i \in 1 .. Len(slots) : slots[i] = "cancelled"
                     THEN "cancelled" ELSE "answer"
       IN  reply' = IF running = Current(c) THEN [reply EXCEPT ![c] = result] ELSE reply
    /\ rt' = "idle"
    /\ running' = NoRun
    /\ slots' = <<>>
    /\ UNCHANGED <<pc, callerVars, interrupt, cancelled, chan, dropped>>

----------------------------------------------------------------------------

Caller(c) ==
    \/ Send(c) \/ SendFails(c)
    \/ Receive(c) \/ ReceiveTimesOut(c)
    \/ TickGoesOn(c) \/ TickCancels(c)
    \/ Drain(c)

\* The steps of the runtime thread that depend on nobody.
Runtime ==
    \/ BuildRuntime \/ BuildFails
    \/ TakeShutdown \/ TakeJob
    \/ \E i \in 1 .. MaxItems : i <= Len(slots) /\ ItemCancelled(i)
    \/ Reply

SomeItemEnds == \E i \in 1 .. MaxItems : i <= Len(slots) /\ ItemEnds(i)

Next ==
    \/ \E c \in Callers : StartCall(c) \/ Caller(c) \/ Interrupt(c) \/ ProcessInterrupts(c)
    \/ DropClient
    \/ Runtime
    \/ SomeItemEnds

\* Threads run; blocked senders are served in turn.
LocalFairness ==
    /\ \A c \in Callers : WF_vars(Caller(c)) /\ SF_vars(Send(c))
    /\ WF_vars(Runtime)

\* The server may stay silent for ever and the timeout never expire.
SilentSpec == Init /\ [][Next]_vars /\ LocalFairness

\* Every request has the client's timeout, so every item ends.
Spec == SilentSpec /\ WF_vars(SomeItemEnds)

----------------------------------------------------------------------------
(* Properties *)

Waiting == {"waiting", "ticking", "draining"}

\* Every command in the channel and the one the thread executes is the current
\* call of a caller that waits for it and has no reply yet, and is there once:
\* a call that has returned, cancelled or not, leaves nothing behind that would
\* hold up the next call or the shutdown.
JobsHaveWaiters ==
    /\ \A i \in 1 .. Len(chan) : chan[i] # Shutdown =>
         /\ chan[i] = Current(chan[i][1])
         /\ pc[chan[i][1]] \in Waiting /\ reply[chan[i][1]] = "none"
         /\ chan[i] # running
         /\ \A j \in 1 .. Len(chan) : chan[j] = chan[i] => i = j
    /\ running # NoRun =>
         /\ running = Current(running[1])
         /\ pc[running[1]] \in Waiting /\ reply[running[1]] = "none"

\* A caller without a reply has its command in the channel or under execution:
\* its recv, which has no limit once the call is cancelled, ends.
WaitersHaveJobs ==
    \A c \in Callers :
        pc[c] \in Waiting /\ reply[c] = "none" => Queued(c) \/ running = Current(c)

\* A call that was not cancelled by its own tick never meets a cancelled reply:
\* the tokens of earlier calls and of other callers do not reach it.
CancelOnlyWhenAsked ==
    /\ \A c \in Callers : reply[c] = "cancelled" => pc[c] \in {"draining", "idle"}
    /\ \A i \in 1 .. Len(slots) :
         slots[i] = "cancelled" => running # NoRun /\ pc[running[1]] = "draining"

\* Every call returns, whatever fails: the thread's start, the server, the tick.
\* That each slot of a batch is filled before the reply, which unwraps them, is the
\* guard of Reply and not shown here.
CallReturns == \A c \in Callers : pc[c] # "idle" ~> pc[c] = "idle"

\* Dropping the client ends its thread, even when the server is silent.
RuntimeExits == dropped ~> rt = "exited"

\* An interrupt ends a call that has a tick without the help of the server.
InterruptEndsCall ==
    \A c \in Callers : pc[c] # "idle" /\ ticks[c] /\ interrupt[c] ~> pc[c] = "idle"

\* The callers that the service has accepted and not answered: the one whose
\* job runs, then those in the channel (a Shutdown is there only when no call is).
Queue == [i \in 1 .. Len(chan) |-> chan[i][1]]

Line ==
    IF dropped THEN <<>> ELSE IF running = NoRun THEN Queue ELSE <<running[1]>> \o Queue

Stage(c) ==
    IF pc[c] \in Waiting THEN "waiting" ELSE IF pc[c] = "sending" THEN "asking" ELSE "idle"

Service == INSTANCE CallService WITH
    stage <- [c \in Callers |-> Stage(c)],
    wishes <- {c \in Callers : Current(c) \in cancelled},
    outcome <- reply,
    line <- Line,
    open <- (rt # "exited")

\* The client with its channel, its thread, its tokens and its slices of 50 ms
\* serves calls as the service does: one at a time, in the order of acceptance,
\* one answer each, "cancelled" only on the wish of the call itself, and "gone"
\* for all that are in the line when the thread ends.
ServesCalls == Service!Spec

\* What interrupt.rs promises: an interrupt ends a call in bounded time.  The
\* calls of connect have no tick, and a query that misses the cache connects.
InterruptEndsAnyCall == \A c \in Callers : pc[c] # "idle" /\ interrupt[c] ~> pc[c] = "idle"
=============================================================================
