---------------------- MODULE CancellableClientProofs ----------------------
(***************************************************************************)
(* Proofs about CancellableClient, for every set of callers, every channel *)
(* capacity and every number of calls and items.                           *)
(***************************************************************************)
EXTENDS CancellableClient, DataLemmas

LEMMA CurrentIsJob ==
    ASSUME TypeOK, NEW c \in Callers, pc[c] # "idle"
    PROVE  Current(c) \in Jobs
<1>1. call[c] \in 1 .. MaxCalls
  BY ClientAssumption DEF TypeOK
<1>2. QED
  BY <1>1 DEF Current, Jobs

LEMMA NoJobs == Shutdown \notin Jobs /\ NoRun \notin Jobs /\ Shutdown # NoRun
BY DEF Shutdown, NoRun, Jobs

LEMMA JobParts ==
    ASSUME NEW job \in Jobs
    PROVE  job[1] \in Callers /\ job[2] \in 1 .. MaxCalls /\ job = <<job[1], job[2]>>
BY DEF Jobs

LEMMA HangUpType ==
    ASSUME TypeOK, HangUp, UNCHANGED <<pc, callerVars, interrupt, cancelled, running, slots, dropped>>,
           rt # "busy"
    PROVE  TypeOK'
<1>1. chan' = <<>> /\ chan' \in Seq(Jobs \cup {Shutdown}) /\ Len(chan') <= Cap
  BY ClientAssumption DEF HangUp
<1>2. reply' \in [Callers -> {"none", "answer", "cancelled", "gone"}]
  BY DEF HangUp, TypeOK
<1>3. rt' = "exited"
  BY DEF HangUp
<1>4. QED
  BY <1>1, <1>2, <1>3 DEF TypeOK, callerVars

LEMMA TypeStep == TypeOK /\ [Next]_vars => TypeOK'
<1> SUFFICES ASSUME TypeOK, [Next]_vars PROVE TypeOK'
  OBVIOUS
<1>1. ASSUME NEW c \in Callers, StartCall(c) PROVE TypeOK'
  <2>1. call' \in [Callers -> 0 .. MaxCalls] /\ call'[c] > 0
    BY <1>1, ClientAssumption DEF StartCall, TypeOK
  <2>2. items' \in [Callers -> 0 .. MaxItems] /\ ticks' \in [Callers -> BOOLEAN]
    <3>1. PICK n \in 0 .. MaxItems : items' = [items EXCEPT ![c] = n]
      BY <1>1 DEF StartCall
    <3>2. PICK b \in BOOLEAN : ticks' = [ticks EXCEPT ![c] = b]
      BY <1>1 DEF StartCall
    <3>3. items' \in [Callers -> 0 .. MaxItems]
      BY <3>1 DEF TypeOK
    <3>4. ticks' \in [Callers -> BOOLEAN]
      BY <3>2, Zenon DEF TypeOK
    <3>5. QED
      BY <3>3, <3>4
  <2>3. \A d \in Callers : pc'[d] # "idle" => call'[d] > 0
    BY <1>1, <2>1 DEF StartCall, TypeOK
  <2>4. QED
    BY <1>1, <2>1, <2>2, <2>3 DEF StartCall, TypeOK, runtimeVars
<1>2. ASSUME NEW c \in Callers, Send(c) PROVE TypeOK'
  <2>1. Current(c) \in Jobs
    BY <1>2, CurrentIsJob DEF Send
  <2>2. chan' \in Seq(Jobs \cup {Shutdown}) /\ Len(chan') <= Cap
    <3>1. chan' = Append(chan, Current(c)) /\ Len(chan) < Cap
      BY <1>2 DEF Send
    <3>2. chan \in Seq(Jobs \cup {Shutdown})
      BY DEF TypeOK
    <3>3. Len(chan') = Len(chan) + 1 /\ chan' \in Seq(Jobs \cup {Shutdown})
      BY <2>1, <3>1, <3>2, AppendType
    <3>4. QED
      BY <3>1, <3>2, <3>3, ClientAssumption
  <2>3. QED
    BY <1>2, <2>2 DEF Send, TypeOK, callerVars, runtimeVars
<1>3. ASSUME NEW c \in Callers, SendFails(c) PROVE TypeOK'
  BY <1>3 DEF SendFails, TypeOK, callerVars, runtimeVars
<1>4. ASSUME NEW c \in Callers, Receive(c) PROVE TypeOK'
  BY <1>4 DEF Receive, TypeOK, callerVars, runtimeVars
<1>5. ASSUME NEW c \in Callers, ReceiveTimesOut(c) PROVE TypeOK'
  BY <1>5 DEF ReceiveTimesOut, TypeOK, callerVars, runtimeVars
<1>6. ASSUME NEW c \in Callers, TickGoesOn(c) PROVE TypeOK'
  BY <1>6 DEF TickGoesOn, TypeOK, callerVars, runtimeVars
<1>7. ASSUME NEW c \in Callers, TickCancels(c) PROVE TypeOK'
  <2>1. Current(c) \in Jobs
    BY <1>7, CurrentIsJob DEF TickCancels
  <2>2. cancelled' \in SUBSET Jobs
    BY <1>7, <2>1 DEF TickCancels, TypeOK
  <2>3. QED
    BY <1>7, <2>2 DEF TickCancels, TypeOK, callerVars, runtimeVars
<1>8. ASSUME NEW c \in Callers, Drain(c) PROVE TypeOK'
  BY <1>8 DEF Drain, TypeOK, callerVars, runtimeVars
<1>9. ASSUME NEW c \in Callers, Interrupt(c) PROVE TypeOK'
  BY <1>9 DEF Interrupt, TypeOK, callerVars, runtimeVars
<1>10. ASSUME NEW c \in Callers, ProcessInterrupts(c) PROVE TypeOK'
  BY <1>10 DEF ProcessInterrupts, TypeOK, callerVars, runtimeVars
<1>11. CASE DropClient
  <2>1. chan' = chan \/ (chan' = Append(chan, Shutdown) /\ Len(chan) < Cap)
    BY <1>11 DEF DropClient
  <2>2. chan' \in Seq(Jobs \cup {Shutdown}) /\ Len(chan') <= Cap
    <3>1. chan \in Seq(Jobs \cup {Shutdown}) /\ Len(chan) <= Cap
      BY DEF TypeOK
    <3>2. CASE chan' = Append(chan, Shutdown) /\ Len(chan) < Cap
      <4>1. Len(chan') = Len(chan) + 1 /\ chan' \in Seq(Jobs \cup {Shutdown})
        BY <3>1, <3>2, AppendType
      <4>2. QED
        BY <3>1, <3>2, <4>1, ClientAssumption
    <3>3. QED
      BY <2>1, <3>1, <3>2
  <2>3. QED
    BY <1>11, <2>2 DEF DropClient, TypeOK, callerVars, runtimeVars
<1>12. CASE BuildRuntime
  BY <1>12 DEF BuildRuntime, TypeOK, callerVars, runtimeVars
<1>13. CASE BuildFails
  BY <1>13, HangUpType DEF BuildFails
<1>14. CASE TakeShutdown
  BY <1>14, HangUpType DEF TakeShutdown
<1>15. CASE TakeJob
  <2> DEFINE job == Head(chan)
  <2>1. chan \in Seq(Jobs \cup {Shutdown}) /\ Len(chan) <= Cap /\ chan # <<>> /\ job # Shutdown
    BY <1>15 DEF TakeJob, TypeOK
  <2>2. /\ job \in Jobs /\ Tail(chan) \in Seq(Jobs \cup {Shutdown})
        /\ Len(Tail(chan)) <= Cap
    BY <2>1, TailType, ClientAssumption
  <2>3. items[job[1]] \in 0 .. MaxItems
    BY <2>2, JobParts DEF TypeOK
  <2>4. slots' = [i \in 1 .. items[job[1]] |-> "pending"]
    BY <1>15 DEF TakeJob
  <2>5. slots' \in Seq(Slots)
    BY <2>3, <2>4, ClientAssumption DEF Slots
  <2>6. running' = job /\ running' # NoRun
    BY <1>15, <2>2, NoJobs DEF TakeJob
  <2>7. QED
    BY <1>15, <2>2, <2>5, <2>6 DEF TakeJob, TypeOK, callerVars
<1>16. CASE Reply
  <2>1. reply' \in [Callers -> {"none", "answer", "cancelled", "gone"}]
    BY <1>16 DEF Reply, TypeOK
  <2>2. QED
    BY <1>16, <2>1 DEF Reply, TypeOK, callerVars
<1>17. ASSUME NEW i \in 1 .. MaxItems, i <= Len(slots), ItemEnds(i) PROVE TypeOK'
  <2>1. slots' = [slots EXCEPT ![i] = "ended"] /\ slots \in Seq(Slots) /\ i \in 1 .. Len(slots)
    BY <1>17 DEF ItemEnds, TypeOK
  <2>2. slots' \in Seq(Slots)
    BY <2>1, ExceptSeq DEF Slots
  <2>3. QED
    BY <1>17, <2>2 DEF ItemEnds, TypeOK, callerVars
<1>18. ASSUME NEW i \in 1 .. MaxItems, i <= Len(slots), ItemCancelled(i) PROVE TypeOK'
  <2>1. slots' = [slots EXCEPT ![i] = "cancelled"] /\ slots \in Seq(Slots) /\ i \in 1 .. Len(slots)
    BY <1>18 DEF ItemCancelled, TypeOK
  <2>2. slots' \in Seq(Slots)
    BY <2>1, ExceptSeq DEF Slots
  <2>3. QED
    BY <1>18, <2>2 DEF ItemCancelled, TypeOK, callerVars
<1>19. CASE UNCHANGED vars
  BY <1>19 DEF vars, TypeOK, callerVars, runtimeVars
<1>20. QED
  BY <1>1, <1>2, <1>3, <1>4, <1>5, <1>6, <1>7, <1>8, <1>9, <1>10, <1>11, <1>12, <1>13, <1>14, <1>15, <1>16, <1>17, <1>18, <1>19
  DEF Next, Caller, Runtime, SomeItemEnds

\* Every variable of the client keeps its type, the channel its bound, and the
\* runtime thread is busy exactly while it has a job.
THEOREM TypeCorrect == Spec => []TypeOK
<1>1. ASSUME Init PROVE TypeOK
  <2>1. <<>> \in Seq(Jobs \cup {Shutdown}) /\ <<>> \in Seq(Slots) /\ Len(<<>>) = 0
    OBVIOUS
  <2>2. chan \in Seq(Jobs \cup {Shutdown}) /\ Len(chan) <= Cap /\ slots \in Seq(Slots)
    BY <1>1, <2>1, ClientAssumption DEF Init
  <2>3. /\ ticks \in [Callers -> BOOLEAN] /\ interrupt \in [Callers -> BOOLEAN]
        /\ cancelled \in SUBSET Jobs
    BY <1>1 DEF Init
  <2>4. running = NoRun /\ rt = "starting" /\ \A c \in Callers : pc[c] = "idle"
    BY <1>1 DEF Init
  <2>5. /\ call \in [Callers -> 0 .. MaxCalls] /\ items \in [Callers -> 0 .. MaxItems]
        /\ pc \in [Callers -> {"idle", "sending", "waiting", "ticking", "draining"}]
        /\ reply \in [Callers -> {"none", "answer", "cancelled", "gone"}]
    BY <1>1, ClientAssumption DEF Init
  <2>6. QED
    BY <1>1, <2>2, <2>3, <2>4, <2>5 DEF Init, TypeOK
<1>2. QED
  BY <1>1, TypeStep, PTL DEF Spec, SilentSpec

----------------------------------------------------------------------------

\* JobsHaveWaiters, for one job.
Served(job) ==
    job = Current(job[1]) /\ pc[job[1]] \in Waiting /\ reply[job[1]] = "none"

\* The same after a step.
ServedLater(job) ==
    job = <<job[1], call'[job[1]]>> /\ pc'[job[1]] \in Waiting /\ reply'[job[1]] = "none"

LEMMA BusyRuns ==
    ASSUME TypeOK
    PROVE  (rt = "busy" => running \in Jobs /\ running # NoRun) /\ (rt # "busy" => running = NoRun)
<1>1. running \in Jobs \cup {NoRun}
  BY DEF TypeOK
<1>2. running # NoRun <=> rt = "busy"
  BY Zenon DEF TypeOK
<1>3. QED
  BY <1>1, <1>2, NoJobs

LEMMA JobsServed ==
    JobsHaveWaiters <=>
        /\ \A i \in 1 .. Len(chan) : chan[i] # Shutdown =>
             /\ Served(chan[i]) /\ chan[i] # running
             /\ \A j \in 1 .. Len(chan) : chan[j] = chan[i] => i = j
        /\ running # NoRun => Served(running)
BY DEF JobsHaveWaiters, Served

LEMMA ChanJobs ==
    ASSUME TypeOK, NEW i \in 1 .. Len(chan), chan[i] # Shutdown
    PROVE  chan[i] \in Jobs
BY DEF TypeOK

LEMMA ServedKept ==
    ASSUME TypeOK, JobsHaveWaiters, chan' = chan, running' = running,
           \A job \in Jobs : Served(job) => ServedLater(job)
    PROVE  JobsHaveWaiters'
<1>1. ASSUME NEW i \in 1 .. Len(chan), chan[i] # Shutdown
      PROVE  /\ ServedLater(chan[i]) /\ chan[i] # running
             /\ \A j \in 1 .. Len(chan) : chan[j] = chan[i] => i = j
  BY <1>1, JobsServed, ChanJobs
<1>2. running # NoRun => ServedLater(running')
  BY JobsServed DEF TypeOK
<1>3. QED
  BY <1>1, <1>2 DEF JobsHaveWaiters, ServedLater, Current

\* A step of one caller that has no command under way, or stays waiting for it.
LEMMA CallerServed ==
    ASSUME TypeOK, NEW c \in Callers,
           \A d \in Callers : d # c => pc'[d] = pc[d] /\ call'[d] = call[d] /\ reply'[d] = reply[d],
           \/ pc[c] \notin Waiting \/ reply[c] # "none"
           \/ pc'[c] \in Waiting /\ call'[c] = call[c] /\ reply'[c] = reply[c]
    PROVE  \A job \in Jobs : Served(job) => ServedLater(job)
<1> SUFFICES ASSUME NEW job \in Jobs, Served(job) PROVE ServedLater(job)
  OBVIOUS
<1>1. job[1] \in Callers
  BY JobParts
<1>2. QED
  BY <1>1 DEF Served, ServedLater, Current


\* A caller that is about to send has an empty reply channel.
FreshReply == \A c \in Callers : pc[c] = "sending" => reply[c] = "none"

LEMMA SenderUnserved ==
    ASSUME TypeOK, JobsHaveWaiters, NEW c \in Callers, pc[c] = "sending"
    PROVE  (running # NoRun => running[1] # c) /\ ~Queued(c)
<1>1. pc[c] \notin Waiting
  BY DEF Waiting
<1>2. running # NoRun => running[1] # c
  BY <1>1 DEF JobsHaveWaiters
<1>3. ASSUME NEW i \in 1 .. Len(chan), chan[i] = Current(c) PROVE FALSE
  <2>1. Current(c) \in Jobs /\ Current(c)[1] = c
    BY CurrentIsJob DEF Current
  <2>2. chan[i] # Shutdown
    BY <1>3, <2>1, NoJobs
  <2>3. QED
    BY <1>1, <1>3, <2>1, <2>2 DEF JobsHaveWaiters
<1>4. QED
  BY <1>2, <1>3 DEF Queued

LEMMA JobsStep == TypeOK /\ FreshReply /\ JobsHaveWaiters /\ [Next]_vars => JobsHaveWaiters'
<1> SUFFICES ASSUME TypeOK, FreshReply, JobsHaveWaiters, [Next]_vars PROVE JobsHaveWaiters'
  OBVIOUS
<1>1. ASSUME NEW c \in Callers, StartCall(c) PROVE JobsHaveWaiters'
  <2>1. /\ \A d \in Callers : d # c =>
             pc'[d] = pc[d] /\ call'[d] = call[d] /\ reply'[d] = reply[d]
        /\ chan' = chan /\ running' = running
    BY <1>1 DEF StartCall, TypeOK, callerVars, runtimeVars
  <2>2. \/ pc[c] \notin Waiting \/ reply[c] # "none"
        \/ pc'[c] \in Waiting /\ call'[c] = call[c] /\ reply'[c] = reply[c]
    BY <1>1 DEF StartCall, TypeOK, callerVars, Waiting
  <2>3. QED
    BY <2>1, <2>2, CallerServed, ServedKept
<1>2. ASSUME NEW c \in Callers, Send(c) PROVE JobsHaveWaiters'
  <2> DEFINE new == Current(c)
             n == Len(chan)
  <2>1. /\ chan' = Append(chan, new) /\ pc[c] = "sending"
        /\ UNCHANGED <<call, reply, running>>
    BY <1>2 DEF Send, callerVars, runtimeVars
  <2>2. chan \in Seq(Jobs \cup {Shutdown}) /\ new \in Jobs /\ new[1] = c
    BY <2>1, CurrentIsJob DEF TypeOK, Current
  <2>3. /\ Len(chan') = n + 1 /\ n \in Nat /\ chan'[n + 1] = new
        /\ \A i \in 1 .. n : chan'[i] = chan[i]
    BY <2>1, <2>2, AppendType
  <2>4. \A job \in Jobs : Served(job) => ServedLater(job) /\ job[1] # c
    <3>1. /\ pc[c] \notin Waiting
          /\ \A d \in Callers : d # c =>
               pc'[d] = pc[d] /\ call'[d] = call[d] /\ reply'[d] = reply[d]
      BY <1>2, <2>1 DEF Send, TypeOK, Waiting
    <3>2. \A job \in Jobs : Served(job) => ServedLater(job)
      BY <3>1, CallerServed
    <3>3. QED
      BY <3>1, <3>2 DEF Served, ServedLater
  <2>5. ServedLater(new)
    <3>1. reply[c] = "none"
      BY <2>1 DEF FreshReply
    <3>2. pc'[c] = "waiting"
      BY <1>2 DEF Send, TypeOK
    <3>3. QED
      BY <2>1, <2>2, <3>1, <3>2 DEF Served, ServedLater, Current, Waiting
  <2> HIDE DEF new, n
  <2>6. ASSUME NEW i \in 1 .. n, chan[i] # Shutdown
        PROVE  ServedLater(chan[i]) /\ chan[i] # running /\ chan[i] # new
               /\ \A j \in 1 .. n : chan[j] = chan[i] => i = j
    BY <2>2, <2>4, <2>6, JobsServed, ChanJobs DEF n
  <2>7. running # NoRun => ServedLater(running') /\ running # new
    <3>1. running \in Jobs \cup {NoRun}
      BY DEF TypeOK
    <3>2. running' = running
      BY <2>1
    <3>3. QED
      BY <2>2, <2>4, <3>1, <3>2, JobsServed
  <2>8. running # new
    BY <2>2, <2>7, NoJobs
  <2>9. ASSUME NEW i \in 1 .. n + 1, chan'[i] # Shutdown
        PROVE  /\ ServedLater(chan'[i]) /\ chan'[i] # running
               /\ \A j \in 1 .. n + 1 : chan'[j] = chan'[i] => i = j
    <3>1. CASE i = n + 1
      <4>1. \A j \in 1 .. n : chan[j] # new
        BY <2>2, <2>6, NoJobs
      <4>2. QED
        BY <2>3, <2>5, <2>8, <3>1, <4>1
    <3>2. CASE i # n + 1
      BY <2>3, <2>6, <2>9, <3>2
    <3>3. QED
      BY <3>1, <3>2
  <2>10. QED
    BY <2>1, <2>3, <2>7, <2>9 DEF JobsHaveWaiters, ServedLater, Current
<1>3. ASSUME NEW c \in Callers, SendFails(c) PROVE JobsHaveWaiters'
  <2>1. /\ \A d \in Callers : d # c =>
             pc'[d] = pc[d] /\ call'[d] = call[d] /\ reply'[d] = reply[d]
        /\ chan' = chan /\ running' = running
    BY <1>3 DEF SendFails, TypeOK, callerVars, runtimeVars
  <2>2. \/ pc[c] \notin Waiting \/ reply[c] # "none"
        \/ pc'[c] \in Waiting /\ call'[c] = call[c] /\ reply'[c] = reply[c]
    BY <1>3 DEF SendFails, TypeOK, callerVars, Waiting
  <2>3. QED
    BY <2>1, <2>2, CallerServed, ServedKept
<1>4. ASSUME NEW c \in Callers, Receive(c) PROVE JobsHaveWaiters'
  <2>1. /\ \A d \in Callers : d # c =>
             pc'[d] = pc[d] /\ call'[d] = call[d] /\ reply'[d] = reply[d]
        /\ chan' = chan /\ running' = running
    BY <1>4 DEF Receive, TypeOK, callerVars, runtimeVars
  <2>2. \/ pc[c] \notin Waiting \/ reply[c] # "none"
        \/ pc'[c] \in Waiting /\ call'[c] = call[c] /\ reply'[c] = reply[c]
    BY <1>4 DEF Receive, TypeOK, callerVars, Waiting
  <2>3. QED
    BY <2>1, <2>2, CallerServed, ServedKept
<1>5. ASSUME NEW c \in Callers, ReceiveTimesOut(c) PROVE JobsHaveWaiters'
  <2>1. /\ \A d \in Callers : d # c =>
             pc'[d] = pc[d] /\ call'[d] = call[d] /\ reply'[d] = reply[d]
        /\ chan' = chan /\ running' = running
    BY <1>5 DEF ReceiveTimesOut, TypeOK, callerVars, runtimeVars
  <2>2. \/ pc[c] \notin Waiting \/ reply[c] # "none"
        \/ pc'[c] \in Waiting /\ call'[c] = call[c] /\ reply'[c] = reply[c]
    BY <1>5 DEF ReceiveTimesOut, TypeOK, callerVars, Waiting
  <2>3. QED
    BY <2>1, <2>2, CallerServed, ServedKept
<1>6. ASSUME NEW c \in Callers, TickGoesOn(c) PROVE JobsHaveWaiters'
  <2>1. /\ \A d \in Callers : d # c =>
             pc'[d] = pc[d] /\ call'[d] = call[d] /\ reply'[d] = reply[d]
        /\ chan' = chan /\ running' = running
    BY <1>6 DEF TickGoesOn, TypeOK, callerVars, runtimeVars
  <2>2. \/ pc[c] \notin Waiting \/ reply[c] # "none"
        \/ pc'[c] \in Waiting /\ call'[c] = call[c] /\ reply'[c] = reply[c]
    BY <1>6 DEF TickGoesOn, TypeOK, callerVars, Waiting
  <2>3. QED
    BY <2>1, <2>2, CallerServed, ServedKept
<1>7. ASSUME NEW c \in Callers, TickCancels(c) PROVE JobsHaveWaiters'
  <2>1. /\ \A d \in Callers : d # c =>
             pc'[d] = pc[d] /\ call'[d] = call[d] /\ reply'[d] = reply[d]
        /\ chan' = chan /\ running' = running
    BY <1>7 DEF TickCancels, TypeOK, callerVars, runtimeVars
  <2>2. \/ pc[c] \notin Waiting \/ reply[c] # "none"
        \/ pc'[c] \in Waiting /\ call'[c] = call[c] /\ reply'[c] = reply[c]
    BY <1>7 DEF TickCancels, TypeOK, callerVars, Waiting
  <2>3. QED
    BY <2>1, <2>2, CallerServed, ServedKept
<1>8. ASSUME NEW c \in Callers, Drain(c) PROVE JobsHaveWaiters'
  <2>1. /\ \A d \in Callers : d # c =>
             pc'[d] = pc[d] /\ call'[d] = call[d] /\ reply'[d] = reply[d]
        /\ chan' = chan /\ running' = running
    BY <1>8 DEF Drain, TypeOK, callerVars, runtimeVars
  <2>2. \/ pc[c] \notin Waiting \/ reply[c] # "none"
        \/ pc'[c] \in Waiting /\ call'[c] = call[c] /\ reply'[c] = reply[c]
    BY <1>8 DEF Drain, TypeOK, callerVars, Waiting
  <2>3. QED
    BY <2>1, <2>2, CallerServed, ServedKept
<1>9. ASSUME NEW c \in Callers, Interrupt(c) PROVE JobsHaveWaiters'
  <2>1. /\ \A d \in Callers : d # c =>
             pc'[d] = pc[d] /\ call'[d] = call[d] /\ reply'[d] = reply[d]
        /\ chan' = chan /\ running' = running
    BY <1>9 DEF Interrupt, TypeOK, callerVars, runtimeVars
  <2>2. \/ pc[c] \notin Waiting \/ reply[c] # "none"
        \/ pc'[c] \in Waiting /\ call'[c] = call[c] /\ reply'[c] = reply[c]
    BY <1>9 DEF Interrupt, TypeOK, callerVars, Waiting
  <2>3. QED
    BY <2>1, <2>2, CallerServed, ServedKept
<1>10. ASSUME NEW c \in Callers, ProcessInterrupts(c) PROVE JobsHaveWaiters'
  <2>1. /\ \A d \in Callers : d # c =>
             pc'[d] = pc[d] /\ call'[d] = call[d] /\ reply'[d] = reply[d]
        /\ chan' = chan /\ running' = running
    BY <1>10 DEF ProcessInterrupts, TypeOK, callerVars, runtimeVars
  <2>2. \/ pc[c] \notin Waiting \/ reply[c] # "none"
        \/ pc'[c] \in Waiting /\ call'[c] = call[c] /\ reply'[c] = reply[c]
    BY <1>10 DEF ProcessInterrupts, TypeOK, callerVars, Waiting
  <2>3. QED
    BY <2>1, <2>2, CallerServed, ServedKept
<1>11. CASE DropClient
  <2>1. UNCHANGED <<pc, call, reply, running>>
    BY <1>11 DEF DropClient, callerVars, runtimeVars
  <2>2. chan' = chan \/ chan' = Append(chan, Shutdown)
    BY <1>11 DEF DropClient
  <2>3. CASE chan' = chan
    BY <2>1, <2>3, ServedKept DEF Served, ServedLater, Current
  <2>4. CASE chan' = Append(chan, Shutdown)
    <3>1. chan \in Seq(Jobs \cup {Shutdown}) /\ Shutdown \in Jobs \cup {Shutdown}
      BY DEF TypeOK
    <3>2. /\ Len(chan') = Len(chan) + 1 /\ chan'[Len(chan) + 1] = Shutdown
          /\ \A i \in 1 .. Len(chan) : chan'[i] = chan[i]
      BY <2>4, <3>1, AppendType
    <3>3. Len(chan) \in Nat
      BY <3>1
    <3>4. \A i \in 1 .. Len(chan') : chan'[i] # Shutdown => i \in 1 .. Len(chan) /\ chan'[i] = chan[i]
      BY <3>2, <3>3
    <3>5. QED
      BY <2>1, <3>4 DEF JobsHaveWaiters, Current
  <2>5. QED
    BY <2>2, <2>3, <2>4
<1>12. CASE BuildRuntime
  BY <1>12, ServedKept DEF BuildRuntime, Served, ServedLater, Current, callerVars, runtimeVars
<1>13. CASE BuildFails
  <2>1. chan' = <<>> /\ running' = running /\ rt # "busy"
    BY <1>13 DEF BuildFails, HangUp
  <2>2. running' = NoRun
    BY <2>1, BusyRuns
  <2>3. Len(chan') = 0
    BY <2>1
  <2>4. QED
    BY <2>2, <2>3 DEF JobsHaveWaiters
<1>14. CASE TakeShutdown
  <2>1. chan' = <<>> /\ running' = running /\ rt # "busy"
    BY <1>14 DEF TakeShutdown, HangUp
  <2>2. running' = NoRun
    BY <2>1, BusyRuns
  <2>3. Len(chan') = 0
    BY <2>1
  <2>4. QED
    BY <2>2, <2>3 DEF JobsHaveWaiters
<1>15. CASE TakeJob
  <2>1. /\ running' = Head(chan) /\ chan' = Tail(chan) /\ chan # <<>> /\ Head(chan) # Shutdown
        /\ UNCHANGED <<pc, call, reply>>
    BY <1>15 DEF TakeJob, callerVars
  <2>2. chan \in Seq(Jobs \cup {Shutdown})
    BY DEF TypeOK
  <2>3. /\ Head(chan) = chan[1] /\ Len(Tail(chan)) = Len(chan) - 1 /\ Len(chan) > 0
        /\ \A i \in 1 .. Len(chan) - 1 : Tail(chan)[i] = chan[i + 1]
    BY <2>1, <2>2, TailType
  <2>4. Len(chan) \in Nat
    BY <2>2
  <2>5. Served(chan[1])
    BY <2>1, <2>3, <2>4, JobsServed
  <2>6. ServedLater(running')
    BY <2>1, <2>3, <2>5 DEF Served, ServedLater, Current
  <2>7. ASSUME NEW i \in 1 .. Len(chan'), chan'[i] # Shutdown
        PROVE  /\ ServedLater(chan'[i]) /\ chan'[i] # running'
               /\ \A j \in 1 .. Len(chan') : chan'[j] = chan'[i] => i = j
    <3>1. i + 1 \in 1 .. Len(chan) /\ chan'[i] = chan[i + 1]
      BY <2>1, <2>3, <2>4
    <3>2. /\ Served(chan[i + 1])
          /\ \A j \in 1 .. Len(chan) : chan[j] = chan[i + 1] => i + 1 = j
      BY <2>7, <3>1, JobsServed
    <3>3. \A j \in 1 .. Len(chan') : j + 1 \in 1 .. Len(chan) /\ chan'[j] = chan[j + 1]
      BY <2>1, <2>3, <2>4
    <3>4. 1 \in 1 .. Len(chan) /\ i + 1 # 1
      BY <2>3, <2>4
    <3>5. chan'[i] # running'
      BY <2>1, <2>3, <3>1, <3>2, <3>4
    <3>6. \A j \in 1 .. Len(chan') : chan'[j] = chan'[i] => i = j
      <4> SUFFICES ASSUME NEW j \in 1 .. Len(chan'), chan'[j] = chan'[i] PROVE i = j
        OBVIOUS
      <4>1. j + 1 \in 1 .. Len(chan) /\ chan[j + 1] = chan[i + 1]
        BY <3>1, <3>3
      <4>2. i + 1 = j + 1
        BY <3>2, <4>1
      <4>3. QED
        BY <4>2
    <3>7. ServedLater(chan'[i])
      BY <2>1, <3>1, <3>2 DEF Served, ServedLater, Current
    <3>8. QED
      BY <3>5, <3>6, <3>7
  <2>8. QED
    BY <2>6, <2>7 DEF JobsHaveWaiters, ServedLater, Current
<1>16. CASE Reply
  <2>1. chan' = chan /\ running' = NoRun /\ UNCHANGED <<pc, call>>
    BY <1>16 DEF Reply, callerVars
  <2>2. running # NoRun /\ running \in Jobs
    BY <1>16, BusyRuns DEF Reply
  <2>3. \A c \in Callers : c # running[1] => reply'[c] = reply[c]
    BY <1>16 DEF Reply, TypeOK
  <2>4. Served(running)
    BY <2>2, JobsServed
  <2>5. ASSUME NEW i \in 1 .. Len(chan), chan[i] # Shutdown
        PROVE  ServedLater(chan[i]) /\ chan[i] # NoRun
               /\ \A j \in 1 .. Len(chan) : chan[j] = chan[i] => i = j
    <3>1. /\ chan[i] \in Jobs /\ Served(chan[i]) /\ chan[i] # running
          /\ \A j \in 1 .. Len(chan) : chan[j] = chan[i] => i = j
      BY <2>5, JobsServed, ChanJobs
    <3>2. chan[i][1] # running[1] /\ chan[i][1] \in Callers
      BY <2>4, <3>1, JobParts DEF Served, ServedLater
    <3>3. QED
      BY <2>1, <2>3, <3>1, <3>2, NoJobs DEF Served, ServedLater, Current
  <2>6. QED
    BY <2>1, <2>5 DEF JobsHaveWaiters, ServedLater, Current
<1>17. ASSUME NEW i \in 1 .. MaxItems, i <= Len(slots), ItemEnds(i) PROVE JobsHaveWaiters'
  BY <1>17, ServedKept DEF ItemEnds, Served, ServedLater, Current, callerVars, runtimeVars
<1>18. ASSUME NEW i \in 1 .. MaxItems, i <= Len(slots), ItemCancelled(i) PROVE JobsHaveWaiters'
  BY <1>18, ServedKept DEF ItemCancelled, Served, ServedLater, Current, callerVars, runtimeVars
<1>19. CASE UNCHANGED vars
  BY <1>19, ServedKept DEF vars, callerVars, runtimeVars, Served, ServedLater, Current
<1>20. QED
  BY <1>1, <1>2, <1>3, <1>4, <1>5, <1>6, <1>7, <1>8, <1>9, <1>10, <1>11, <1>12, <1>13, <1>14, <1>15, <1>16, <1>17, <1>18, <1>19
  DEF Next, Caller, Runtime, SomeItemEnds

LEMMA FreshStep == TypeOK /\ JobsHaveWaiters /\ FreshReply /\ [Next]_vars => FreshReply'
<1> SUFFICES ASSUME TypeOK, JobsHaveWaiters, FreshReply, [Next]_vars PROVE FreshReply'
  OBVIOUS
<1>1. ASSUME NEW c \in Callers, StartCall(c) PROVE FreshReply'
  BY <1>1 DEF StartCall, FreshReply, TypeOK, callerVars, runtimeVars
<1>2. ASSUME NEW c \in Callers, Send(c) PROVE FreshReply'
  BY <1>2 DEF Send, FreshReply, TypeOK, callerVars, runtimeVars
<1>3. ASSUME NEW c \in Callers, SendFails(c) PROVE FreshReply'
  BY <1>3 DEF SendFails, FreshReply, TypeOK, callerVars, runtimeVars
<1>4. ASSUME NEW c \in Callers, Receive(c) PROVE FreshReply'
  BY <1>4 DEF Receive, FreshReply, TypeOK, callerVars, runtimeVars
<1>5. ASSUME NEW c \in Callers, ReceiveTimesOut(c) PROVE FreshReply'
  BY <1>5 DEF ReceiveTimesOut, FreshReply, TypeOK, callerVars, runtimeVars
<1>6. ASSUME NEW c \in Callers, TickGoesOn(c) PROVE FreshReply'
  BY <1>6 DEF TickGoesOn, FreshReply, TypeOK, callerVars, runtimeVars
<1>7. ASSUME NEW c \in Callers, TickCancels(c) PROVE FreshReply'
  BY <1>7 DEF TickCancels, FreshReply, TypeOK, callerVars, runtimeVars
<1>8. ASSUME NEW c \in Callers, Drain(c) PROVE FreshReply'
  BY <1>8 DEF Drain, FreshReply, TypeOK, callerVars, runtimeVars
<1>9. ASSUME NEW c \in Callers, Interrupt(c) PROVE FreshReply'
  BY <1>9 DEF Interrupt, FreshReply, TypeOK, callerVars, runtimeVars
<1>10. ASSUME NEW c \in Callers, ProcessInterrupts(c) PROVE FreshReply'
  BY <1>10 DEF ProcessInterrupts, FreshReply, TypeOK, callerVars, runtimeVars
<1>11. CASE DropClient
  BY <1>11 DEF DropClient, FreshReply, callerVars, runtimeVars
<1>12. CASE BuildRuntime
  BY <1>12 DEF BuildRuntime, FreshReply, callerVars, runtimeVars
<1>13. CASE BuildFails
  BY <1>13, SenderUnserved DEF BuildFails, HangUp, FreshReply, TypeOK
<1>14. CASE TakeShutdown
  BY <1>14, SenderUnserved DEF TakeShutdown, HangUp, FreshReply, TypeOK
<1>15. CASE TakeJob
  BY <1>15 DEF TakeJob, FreshReply, callerVars, runtimeVars
<1>16. CASE Reply
  <2>1. running # NoRun /\ pc' = pc
    BY <1>16, BusyRuns DEF Reply
  <2>2. \A c \in Callers : c # running[1] => reply'[c] = reply[c]
    BY <1>16 DEF Reply, TypeOK
  <2>3. QED
    BY <2>1, <2>2, SenderUnserved DEF FreshReply
<1>17. ASSUME NEW i \in 1 .. MaxItems, i <= Len(slots), ItemEnds(i) PROVE FreshReply'
  BY <1>17 DEF ItemEnds, FreshReply, callerVars, runtimeVars
<1>18. ASSUME NEW i \in 1 .. MaxItems, i <= Len(slots), ItemCancelled(i) PROVE FreshReply'
  BY <1>18 DEF ItemCancelled, FreshReply, callerVars, runtimeVars
<1>19. CASE UNCHANGED vars
  BY <1>19 DEF vars, FreshReply, callerVars, runtimeVars
<1>20. QED
  BY <1>1, <1>2, <1>3, <1>4, <1>5, <1>6, <1>7, <1>8, <1>9, <1>10, <1>11, <1>12, <1>13, <1>14, <1>15, <1>16, <1>17, <1>18, <1>19
  DEF Next, Caller, Runtime, SomeItemEnds

LEMMA JobsCorrect == Spec => [](JobsHaveWaiters /\ FreshReply)
<1>1. Init => JobsHaveWaiters /\ FreshReply
  <2>1. Len(<<>>) = 0
    OBVIOUS
  <2>2. QED
    BY <2>1 DEF Init, JobsHaveWaiters, FreshReply
<1>2. QED
  BY <1>1, JobsStep, FreshStep, TypeCorrect, PTL DEF Spec, SilentSpec

\* What is queued or executed is always the current call of a caller that still
\* waits for it: a call that has returned leaves nothing behind in the client.
THEOREM JobsHaveWaitersAlways == Spec => []JobsHaveWaiters
BY JobsCorrect, PTL

----------------------------------------------------------------------------

\* WaitersHaveJobs, for one caller.
Expects(c) == pc[c] \in Waiting /\ reply[c] = "none"

\* A command that stays in the channel, at whatever place.
ChanKept == \A job \in Jobs :
    (\E i \in 1 .. Len(chan) : chan[i] = job) => \E i \in 1 .. Len(chan') : chan'[i] = job

LEMMA AppendKeeps ==
    ASSUME TypeOK, NEW x \in Jobs \cup {Shutdown}, chan' = Append(chan, x)
    PROVE  ChanKept /\ \E i \in 1 .. Len(chan') : chan'[i] = x
<1>1. chan \in Seq(Jobs \cup {Shutdown}) /\ Len(chan) \in Nat
  BY DEF TypeOK
<1>2. /\ Len(chan') = Len(chan) + 1 /\ chan'[Len(chan) + 1] = x
      /\ \A i \in 1 .. Len(chan) : chan'[i] = chan[i]
  BY <1>1, AppendType
<1>3. Len(chan) + 1 \in 1 .. Len(chan') /\ 1 .. Len(chan) \subseteq 1 .. Len(chan')
  BY <1>1, <1>2
<1>4. QED
  BY <1>2, <1>3 DEF ChanKept

\* A step that loses no command keeps the invariant if no caller begins to wait.
LEMMA WaitersKept ==
    ASSUME TypeOK, WaitersHaveJobs, ChanKept, running' = running,
           \A c \in Callers : Expects(c)' => Expects(c) /\ call'[c] = call[c]
    PROVE  WaitersHaveJobs'
<1> SUFFICES ASSUME NEW c \in Callers, Expects(c)' PROVE Queued(c)' \/ running' = Current(c)'
  BY DEF WaitersHaveJobs, Expects
<1>1. Expects(c) /\ Current(c)' = Current(c)
  BY DEF Current
<1>2. pc[c] # "idle"
  BY <1>1 DEF Expects, Waiting
<1>3. Current(c) \in Jobs
  BY <1>2, CurrentIsJob
<1>4. Queued(c) \/ running = Current(c)
  BY <1>1 DEF WaitersHaveJobs, Expects
<1>5. QED
  BY <1>1, <1>3, <1>4 DEF ChanKept, Queued

\* The thread returns, and tells every caller that waits.
LEMMA HangUpAnswers ==
    ASSUME TypeOK, WaitersHaveJobs, HangUp, rt # "busy", UNCHANGED <<pc, callerVars>>
    PROVE  WaitersHaveJobs'
<1> SUFFICES ASSUME NEW c \in Callers, Expects(c)' PROVE FALSE
  BY DEF WaitersHaveJobs, Expects
<1>1. ~Queued(c) /\ reply'[c] = reply[c]
  BY DEF HangUp, Expects
<1>2. Expects(c)
  BY <1>1 DEF Expects
<1>3. Current(c) \in Jobs
  BY <1>2, CurrentIsJob DEF Expects, Waiting
<1>4. running = Current(c)
  BY <1>1, <1>2 DEF WaitersHaveJobs, Expects
<1>5. QED
  BY <1>3, <1>4, BusyRuns, NoJobs

LEMMA WaitersStep ==
    TypeOK /\ JobsHaveWaiters /\ WaitersHaveJobs /\ [Next]_vars => WaitersHaveJobs'
<1> SUFFICES ASSUME TypeOK, JobsHaveWaiters, WaitersHaveJobs, [Next]_vars
             PROVE  WaitersHaveJobs'
  OBVIOUS
<1>0. chan' = chan => ChanKept
  BY DEF ChanKept
<1>1. ASSUME NEW c \in Callers, StartCall(c) PROVE WaitersHaveJobs'
  <2>1. \A d \in Callers : Expects(d)' => Expects(d) /\ call'[d] = call[d]
    BY <1>1 DEF StartCall, Expects, Waiting, TypeOK
  <2>2. QED
    BY <1>0, <1>1, <2>1, WaitersKept DEF StartCall, runtimeVars
<1>2. ASSUME NEW c \in Callers, Send(c) PROVE WaitersHaveJobs'
  <2>1. Current(c) \in Jobs
    BY <1>2, CurrentIsJob DEF Send
  <2>2. ChanKept /\ Queued(c)'
    <3>1. chan' = Append(chan, Current(c)) /\ Current(c)' = Current(c)
      BY <1>2 DEF Send, callerVars, Current
    <3>2. QED
      BY <2>1, <3>1, AppendKeeps DEF Queued
  <2>3. ASSUME NEW d \in Callers, d # c, Expects(d)'
        PROVE  Queued(d)' \/ running' = Current(d)'
    <3>1. Expects(d) /\ Current(d)' = Current(d) /\ running' = running
      BY <1>2, <2>3 DEF Send, Expects, TypeOK, callerVars, runtimeVars, Current
    <3>2. Current(d) \in Jobs
      BY <3>1, CurrentIsJob DEF Expects, Waiting
    <3>3. Queued(d) \/ running = Current(d)
      BY <3>1 DEF WaitersHaveJobs, Expects
    <3>4. QED
      BY <2>2, <3>1, <3>2, <3>3 DEF ChanKept, Queued
  <2>4. QED
    BY <2>2, <2>3 DEF WaitersHaveJobs, Expects
<1>3. ASSUME NEW c \in Callers, SendFails(c) \/ Receive(c) \/ Drain(c) PROVE WaitersHaveJobs'
  <2>1. \A d \in Callers : Expects(d)' => Expects(d) /\ call'[d] = call[d]
    BY <1>3 DEF SendFails, Receive, Drain, Expects, Waiting, TypeOK, callerVars
  <2>2. QED
    BY <1>0, <1>3, <2>1, WaitersKept DEF SendFails, Receive, Drain, runtimeVars
<1>4. ASSUME NEW c \in Callers, ReceiveTimesOut(c) \/ TickGoesOn(c) \/ TickCancels(c)
      PROVE  WaitersHaveJobs'
  <2>1. \A d \in Callers : Expects(d)' => Expects(d) /\ call'[d] = call[d]
    BY <1>4 DEF ReceiveTimesOut, TickGoesOn, TickCancels, Expects, Waiting, TypeOK, callerVars
  <2>2. QED
    BY <1>0, <1>4, <2>1, WaitersKept DEF ReceiveTimesOut, TickGoesOn, TickCancels, runtimeVars
<1>5. ASSUME NEW c \in Callers, Interrupt(c) \/ ProcessInterrupts(c) PROVE WaitersHaveJobs'
  BY <1>0, <1>5, WaitersKept DEF Interrupt, ProcessInterrupts, Expects, callerVars, runtimeVars
<1>6. CASE DropClient
  <2>1. ChanKept
    BY <1>0, <1>6, AppendKeeps DEF DropClient
  <2>2. QED
    BY <1>6, <2>1, WaitersKept DEF DropClient, Expects, callerVars, runtimeVars
<1>7. CASE BuildRuntime
  BY <1>0, <1>7, WaitersKept DEF BuildRuntime, Expects, callerVars
<1>8. CASE BuildFails \/ TakeShutdown
  BY <1>8, HangUpAnswers DEF BuildFails, TakeShutdown
<1>9. CASE TakeJob
  <2>1. /\ chan \in Seq(Jobs \cup {Shutdown}) /\ chan # <<>> /\ chan' = Tail(chan)
        /\ running' = Head(chan) /\ rt # "busy"
        /\ UNCHANGED <<pc, call, reply>>
    BY <1>9 DEF TakeJob, TypeOK, callerVars
  <2>2. /\ running' = chan[1] /\ Len(chan') = Len(chan) - 1 /\ Len(chan) \in Nat
        /\ \A i \in 1 .. Len(chan) - 1 : chan'[i] = chan[i + 1]
    BY <2>1, TailType
  <2>3. ASSUME NEW c \in Callers, Expects(c)' PROVE Queued(c)' \/ running' = Current(c)'
    <3>1. Expects(c) /\ Current(c)' = Current(c)
      BY <2>1, <2>3 DEF Expects, Current
    <3>2. Current(c) \in Jobs
      BY <3>1, CurrentIsJob DEF Expects, Waiting
    <3>3. Queued(c)
      BY <2>1, <3>1, <3>2, BusyRuns, NoJobs DEF WaitersHaveJobs, Expects
    <3>4. PICK i \in 1 .. Len(chan) : chan[i] = Current(c)
      BY <3>3 DEF Queued
    <3>5. CASE i = 1
      BY <2>2, <3>1, <3>4, <3>5
    <3>6. CASE i # 1
      <4>1. i - 1 \in 1 .. Len(chan') /\ chan'[i - 1] = chan[i]
        BY <2>2, <3>6
      <4>2. QED
        BY <3>1, <3>4, <4>1 DEF Queued
    <3>7. QED
      BY <3>5, <3>6
  <2>4. QED
    BY <2>3 DEF WaitersHaveJobs, Expects
<1>10. CASE Reply
  <2>1. /\ running # NoRun /\ running = Current(running[1]) /\ running \in Jobs
        /\ UNCHANGED <<pc, call, chan>>
    BY <1>10, BusyRuns DEF Reply, JobsHaveWaiters, callerVars
  <2>2. running[1] \in Callers /\ reply'[running[1]] # "none"
    BY <1>10, <2>1, JobParts DEF Reply, TypeOK
  <2>3. \A c \in Callers : c # running[1] => reply'[c] = reply[c]
    BY <1>10 DEF Reply, TypeOK
  <2>4. ASSUME NEW c \in Callers, Expects(c)' PROVE Queued(c)'
    <3>1. c # running[1] /\ Expects(c)
      BY <2>1, <2>2, <2>3, <2>4 DEF Expects
    <3>2. running # Current(c)
      BY <2>1, <3>1 DEF Current
    <3>3. QED
      BY <2>1, <3>1, <3>2 DEF WaitersHaveJobs, Expects, Queued, Current
  <2>5. QED
    BY <2>4 DEF WaitersHaveJobs, Expects
<1>11. ASSUME NEW i \in 1 .. MaxItems, ItemEnds(i) \/ ItemCancelled(i) PROVE WaitersHaveJobs'
  BY <1>0, <1>11, WaitersKept DEF ItemEnds, ItemCancelled, Expects, callerVars
<1>12. CASE UNCHANGED vars
  BY <1>0, <1>12, WaitersKept DEF vars, Expects, callerVars, runtimeVars
<1>13. QED
  BY <1>1, <1>2, <1>3, <1>4, <1>5, <1>6, <1>7, <1>8, <1>9, <1>10, <1>11, <1>12
  DEF Next, Caller, Runtime, SomeItemEnds

\* A caller that waits without a reply has its command in the channel or under
\* execution, also after the runtime thread failed to start: its recv ends.
THEOREM WaitersHaveJobsAlways == Spec => []WaitersHaveJobs
<1>1. Init => WaitersHaveJobs
  BY DEF Init, WaitersHaveJobs, Waiting
<1>2. QED
  BY <1>1, WaitersStep, TypeCorrect, JobsHaveWaitersAlways, PTL DEF Spec, SilentSpec

----------------------------------------------------------------------------

\* Why a cancellation meets its own call only: a token belongs to a call made
\* before or now, the current one is set only by the tick that then drains, and
\* a cancelled slot is one of a job whose token is set.
TokensMatch ==
    /\ \A job \in cancelled : job[2] <= call[job[1]]
    /\ \A c \in Callers : Current(c) \in cancelled => pc[c] \in {"draining", "idle"}
    /\ \A c \in Callers : reply[c] = "cancelled" => pc[c] \in {"draining", "idle"}
    /\ \A i \in 1 .. Len(slots) : slots[i] = "cancelled" => running \in cancelled

LEMMA TokensEnough ==
    ASSUME TypeOK, JobsHaveWaiters, TokensMatch
    PROVE  CancelOnlyWhenAsked
<1>1. ASSUME NEW i \in 1 .. Len(slots), slots[i] = "cancelled"
      PROVE  running # NoRun /\ pc[running[1]] = "draining"
  <2>1. running \in cancelled /\ running \in Jobs
    BY <1>1 DEF TokensMatch, TypeOK
  <2>2. running # NoRun
    BY <2>1, NoJobs
  <2>3. running = Current(running[1]) /\ pc[running[1]] \in Waiting /\ running[1] \in Callers
    BY <2>1, <2>2, JobParts DEF JobsHaveWaiters
  <2>4. QED
    BY <2>1, <2>2, <2>3 DEF TokensMatch, Waiting
<1>2. QED
  BY <1>1 DEF CancelOnlyWhenAsked, TokensMatch

\* A step that touches no token, no slot and no reply, and begins no call.
LEMMA TokensKept ==
    ASSUME TypeOK, TokensMatch, UNCHANGED <<call, cancelled, slots, running>>,
           \A c \in Callers : pc[c] \in {"draining", "idle"} => pc'[c] \in {"draining", "idle"},
           \A c \in Callers : reply'[c] = "cancelled" => reply[c] = "cancelled"
    PROVE  TokensMatch'
BY DEF TokensMatch, Current

LEMMA TokensStep == TypeOK /\ JobsHaveWaiters /\ TokensMatch /\ [Next]_vars => TokensMatch'
<1> SUFFICES ASSUME TypeOK, JobsHaveWaiters, TokensMatch, [Next]_vars PROVE TokensMatch'
  OBVIOUS
<1>1. ASSUME NEW c \in Callers, StartCall(c) PROVE TokensMatch'
  <2>1. /\ cancelled' = cancelled /\ slots' = slots /\ running' = running
        /\ call' = [call EXCEPT ![c] = @ + 1] /\ reply' = [reply EXCEPT ![c] = "none"]
        /\ pc' = [pc EXCEPT ![c] = "sending"]
    BY <1>1 DEF StartCall, runtimeVars
  <2>2. /\ call \in [Callers -> 0 .. MaxCalls] /\ reply'[c] = "none"
        /\ \A d \in Callers : d # c => /\ call'[d] = call[d] /\ pc'[d] = pc[d]
                                      /\ reply'[d] = reply[d]
    BY <2>1 DEF TypeOK
  <2>3. call[c] \in Nat /\ call'[c] = call[c] + 1
    BY <2>1, <2>2, ClientAssumption
  <2>4. ASSUME NEW job \in cancelled PROVE job[2] <= call'[job[1]] /\ job # <<c, call'[c]>>
    <3>1. job \in Jobs /\ job[2] <= call[job[1]]
      BY DEF TypeOK, TokensMatch
    <3>2. job[1] \in Callers /\ job[2] \in Nat
      BY <3>1, JobParts, ClientAssumption
    <3>3. CASE job[1] = c
      <4>1. job[2] <= call[c]
        BY <3>1, <3>3
      <4>2. job[2] <= call'[c] /\ job[2] # call'[c]
        BY <2>3, <3>2, <4>1
      <4>3. QED
        BY <3>3, <4>2
    <3>4. CASE job[1] # c
      BY <2>2, <3>1, <3>2, <3>4
    <3>5. QED
      BY <3>3, <3>4
  <2>5. ASSUME NEW d \in Callers, <<d, call'[d]>> \in cancelled PROVE pc'[d] \in {"draining", "idle"}
    BY <2>2, <2>4, <2>5 DEF TokensMatch, Current
  <2>6. ASSUME NEW d \in Callers, reply'[d] = "cancelled" PROVE pc'[d] \in {"draining", "idle"}
    BY <2>2, <2>6 DEF TokensMatch
  <2>7. QED
    BY <2>1, <2>4, <2>5, <2>6 DEF TokensMatch, Current
<1>2. ASSUME NEW c \in Callers,
             \/ Send(c) \/ SendFails(c) \/ Receive(c) \/ ReceiveTimesOut(c)
             \/ TickGoesOn(c) \/ Drain(c)
      PROVE  TokensMatch'
  <2>1. /\ UNCHANGED <<call, cancelled, slots, running, reply>>
        /\ \A d \in Callers : pc[d] \in {"draining", "idle"} => pc'[d] \in {"draining", "idle"}
    BY <1>2 DEF Send, SendFails, Receive, ReceiveTimesOut, TickGoesOn, Drain, TypeOK,
                callerVars, runtimeVars
  <2>2. QED
    BY <2>1, TokensKept
<1>3. ASSUME NEW c \in Callers, TickCancels(c) PROVE TokensMatch'
  <2>1. /\ cancelled' = cancelled \cup {Current(c)} /\ pc' = [pc EXCEPT ![c] = "draining"]
        /\ pc[c] = "ticking" /\ UNCHANGED <<call, reply, slots, running>>
    BY <1>3 DEF TickCancels, callerVars, runtimeVars
  <2>2. call[c] \in Nat /\ Current(c)[1] = c /\ Current(c)[2] = call[c]
    BY ClientAssumption DEF TypeOK, Current
  <2>3. \A d \in Callers : IF d = c THEN pc'[d] = "draining" ELSE pc'[d] = pc[d]
    BY <2>1 DEF TypeOK
  <2>4. \A job \in cancelled' : job[2] <= call'[job[1]]
    BY <2>1, <2>2 DEF TokensMatch
  <2>5. ASSUME NEW d \in Callers, <<d, call'[d]>> \in cancelled'
        PROVE  pc'[d] \in {"draining", "idle"}
    BY <2>1, <2>3, <2>5 DEF TokensMatch, Current
  <2>6. QED
    BY <2>1, <2>3, <2>4, <2>5 DEF TokensMatch, Current
<1>4. ASSUME NEW c \in Callers, Interrupt(c) \/ ProcessInterrupts(c) PROVE TokensMatch'
  BY <1>4, TokensKept DEF Interrupt, ProcessInterrupts, callerVars, runtimeVars
<1>5. CASE DropClient \/ BuildRuntime
  BY <1>5, TokensKept DEF DropClient, BuildRuntime, callerVars, runtimeVars
<1>6. CASE BuildFails \/ TakeShutdown
  BY <1>6, TokensKept DEF BuildFails, TakeShutdown, HangUp, callerVars
<1>7. CASE TakeJob
  <2>1. /\ UNCHANGED <<pc, call, reply, cancelled>>
        /\ \A i \in 1 .. Len(slots') : slots'[i] = "pending"
    <3>1. PICK n \in Nat : slots' = [i \in 1 .. n |-> "pending"]
      <4>1. chan \in Seq(Jobs \cup {Shutdown}) /\ chan # <<>> /\ Head(chan) # Shutdown
        BY <1>7 DEF TakeJob, TypeOK
      <4>2. Head(chan) \in Jobs
        BY <4>1, TailType
      <4>3. items[Head(chan)[1]] \in Nat
        BY <4>2, JobParts, ClientAssumption DEF TypeOK
      <4>4. QED
        BY <1>7, <4>3 DEF TakeJob
    <3>2. Len(slots') = n
      BY <3>1
    <3>3. QED
      BY <1>7, <3>1, <3>2 DEF TakeJob, callerVars
  <2>2. QED
    BY <2>1 DEF TokensMatch, Current
<1>8. CASE Reply
  <2>1. /\ UNCHANGED <<pc, call, cancelled>> /\ slots' = <<>>
        /\ running # NoRun /\ running \in Jobs
    BY <1>8, BusyRuns DEF Reply, callerVars
  <2>2. ASSUME NEW d \in Callers, reply'[d] = "cancelled" PROVE pc[d] \in {"draining", "idle"}
    <3>1. CASE reply'[d] = reply[d]
      BY <2>2, <3>1 DEF TokensMatch
    <3>2. CASE reply'[d] # reply[d]
      <4>1. d = running[1] /\ \E i \in 1 .. Len(slots) : slots[i] = "cancelled"
        BY <1>8, <2>2, <3>2 DEF Reply, TypeOK
      <4>2. pc[running[1]] = "draining"
        BY <4>1, TokensEnough DEF CancelOnlyWhenAsked
      <4>3. QED
        BY <4>1, <4>2
    <3>3. QED
      BY <3>1, <3>2
  <2>3. Len(slots') = 0
    BY <2>1
  <2>4. QED
    BY <2>1, <2>2, <2>3 DEF TokensMatch, Current
<1>9. ASSUME NEW i \in 1 .. MaxItems, i <= Len(slots), ItemEnds(i) PROVE TokensMatch'
  <2>1. /\ UNCHANGED <<pc, call, reply, cancelled, running>>
        /\ slots' = [slots EXCEPT ![i] = "ended"] /\ slots \in Seq(Slots)
    BY <1>9 DEF ItemEnds, TypeOK, callerVars
  <2>2. /\ Len(slots') = Len(slots)
        /\ \A j \in 1 .. Len(slots) : slots'[j] = slots[j] \/ slots'[j] = "ended"
    BY <2>1
  <2>3. QED
    BY <2>1, <2>2 DEF TokensMatch, Current
<1>10. ASSUME NEW i \in 1 .. MaxItems, i <= Len(slots), ItemCancelled(i) PROVE TokensMatch'
  <2>1. /\ UNCHANGED <<pc, call, reply, cancelled, running>> /\ running \in cancelled
    BY <1>10 DEF ItemCancelled, callerVars
  <2>2. QED
    BY <2>1 DEF TokensMatch, Current
<1>11. CASE UNCHANGED vars
  BY <1>11, TokensKept DEF vars, callerVars, runtimeVars
<1>12. QED
  BY <1>1, <1>2, <1>3, <1>4, <1>5, <1>6, <1>7, <1>8, <1>9, <1>10, <1>11
  DEF Next, Caller, Runtime, SomeItemEnds

\* No call sees a cancellation that its own tick has not asked for, however the
\* tokens of earlier calls and of other callers overlap with it.
THEOREM CancelOnlyWhenAskedAlways == Spec => []CancelOnlyWhenAsked
<1>1. Init => TokensMatch
  <2>1. Len(<<>>) = 0
    OBVIOUS
  <2>2. QED
    BY <2>1 DEF Init, TokensMatch
<1>2. QED
  BY <1>1, TokensStep, TokensEnough, TypeCorrect, JobsHaveWaitersAlways, PTL DEF Spec, SilentSpec

----------------------------------------------------------------------------

\* A dropped client has no call under way, and only a dropped one a Shutdown.
DroppedIsIdle ==
    /\ dropped => \A c \in Callers : pc[c] = "idle"
    /\ \A i \in 1 .. Len(chan) : chan[i] = Shutdown => dropped

LEMMA DroppedStep == TypeOK /\ DroppedIsIdle /\ [Next]_vars => DroppedIsIdle'
<1> SUFFICES ASSUME TypeOK, DroppedIsIdle, [Next]_vars PROVE DroppedIsIdle'
  OBVIOUS
<1>1. ASSUME NEW c \in Callers, StartCall(c) PROVE DroppedIsIdle'
  BY <1>1 DEF StartCall, DroppedIsIdle
<1>2. ASSUME NEW c \in Callers, Send(c) PROVE DroppedIsIdle'
  <2>1. Current(c) \in Jobs /\ chan \in Seq(Jobs \cup {Shutdown})
    BY <1>2, CurrentIsJob DEF Send, TypeOK
  <2>2. chan' = Append(chan, Current(c)) /\ pc[c] = "sending" /\ dropped' = dropped
    BY <1>2 DEF Send
  <2>3. ~dropped
    BY <2>2 DEF DroppedIsIdle
  <2>4. /\ Len(chan') = Len(chan) + 1 /\ chan'[Len(chan) + 1] = Current(c)
        /\ \A i \in 1 .. Len(chan) : chan'[i] = chan[i]
    BY <2>1, <2>2, AppendType
  <2>5. \A i \in 1 .. Len(chan') : chan'[i] # Shutdown
    BY <2>1, <2>3, <2>4, NoJobs DEF DroppedIsIdle
  <2>6. QED
    BY <2>2, <2>3, <2>5 DEF DroppedIsIdle
<1>3. ASSUME NEW c \in Callers,
             \/ SendFails(c) \/ Receive(c) \/ ReceiveTimesOut(c)
             \/ TickGoesOn(c) \/ TickCancels(c) \/ Drain(c)
             \/ Interrupt(c) \/ ProcessInterrupts(c)
      PROVE  DroppedIsIdle'
  <2>1. /\ chan' = chan /\ dropped' = dropped
        /\ \A d \in Callers : pc[d] = "idle" => pc'[d] = "idle"
    BY <1>3 DEF SendFails, Receive, ReceiveTimesOut, TickGoesOn, TickCancels, Drain,
                Interrupt, ProcessInterrupts, TypeOK
  <2>2. QED
    BY <2>1 DEF DroppedIsIdle
<1>4. CASE DropClient
  BY <1>4 DEF DropClient, DroppedIsIdle
<1>5. CASE BuildFails \/ TakeShutdown
  <2>1. chan' = <<>> /\ Len(chan') = 0 /\ UNCHANGED <<pc, dropped>>
    BY <1>5 DEF BuildFails, TakeShutdown, HangUp
  <2>2. QED
    BY <2>1 DEF DroppedIsIdle
<1>6. CASE TakeJob
  <2>1. chan' = Tail(chan) /\ chan # <<>> /\ UNCHANGED <<pc, dropped>>
    BY <1>6 DEF TakeJob
  <2>2. chan \in Seq(Jobs \cup {Shutdown})
    BY DEF TypeOK
  <2>3. /\ Len(chan') = Len(chan) - 1 /\ Len(chan) \in Nat
        /\ \A i \in 1 .. Len(chan) - 1 : chan'[i] = chan[i + 1]
    BY <2>1, <2>2, TailType
  <2>4. QED
    BY <2>1, <2>3 DEF DroppedIsIdle
<1>7. CASE BuildRuntime \/ Reply
  BY <1>7 DEF BuildRuntime, Reply, DroppedIsIdle
<1>8. ASSUME NEW i \in 1 .. MaxItems, ItemEnds(i) \/ ItemCancelled(i) PROVE DroppedIsIdle'
  BY <1>8 DEF ItemEnds, ItemCancelled, DroppedIsIdle
<1>9. CASE UNCHANGED vars
  BY <1>9 DEF vars, DroppedIsIdle
<1>10. QED
  BY <1>1, <1>2, <1>3, <1>4, <1>5, <1>6, <1>7, <1>8, <1>9
  DEF Next, Caller, Runtime, SomeItemEnds

LEMMA DroppedCorrect == Spec => []DroppedIsIdle
<1>1. Init => DroppedIsIdle
  <2>1. Len(<<>>) = 0
    OBVIOUS
  <2>2. QED
    BY <2>1 DEF Init, DroppedIsIdle
<1>2. QED
  BY <1>1, DroppedStep, TypeCorrect, PTL DEF Spec, SilentSpec

\* What the refinement rests on.
ServiceInv == TypeOK /\ JobsHaveWaiters /\ FreshReply /\ TokensMatch /\ DroppedIsIdle

\* A dropped client runs nothing and has no job in its channel.
LEMMA DroppedRunsNothing ==
    ASSUME ServiceInv, \A c \in Callers : pc[c] = "idle"
    PROVE  running = NoRun /\ \A i \in 1 .. Len(chan) : chan[i] = Shutdown
<1>1. ASSUME NEW job \in Jobs PROVE ~Served(job)
  BY JobParts DEF Served, Waiting
<1>2. running = NoRun
  BY <1>1, JobsServed DEF ServiceInv, TypeOK
<1>3. QED
  BY <1>1, <1>2, JobsServed, ChanJobs DEF ServiceInv

\* The line of a client that is not dropped.
LEMMA LineOfOpen ==
    ASSUME ServiceInv, ~dropped
    PROVE  /\ Queue \in Seq(Callers) /\ Len(Queue) = Len(chan)
           /\ \A i \in 1 .. Len(chan) : Queue[i] = chan[i][1] /\ chan[i] = Current(chan[i][1])
           /\ running # NoRun => running[1] \in Callers
<1>1. chan \in Seq(Jobs \cup {Shutdown}) /\ Len(chan) \in Nat
  BY DEF ServiceInv, TypeOK
<1>2. \A i \in 1 .. Len(chan) : chan[i] \in Jobs /\ chan[i][1] \in Callers
  BY ChanJobs, JobParts DEF ServiceInv, DroppedIsIdle
<1>3. \A i \in 1 .. Len(chan) : chan[i] = Current(chan[i][1])
  BY <1>2, NoJobs DEF ServiceInv, JobsHaveWaiters
<1>4. running # NoRun => running[1] \in Callers
  BY JobParts DEF ServiceInv, TypeOK
<1>5. QED
  BY <1>1, <1>2, <1>3, <1>4 DEF Queue

\* The steps that the service does not see.
LEMMA UnseenStep ==
    ASSUME \A c \in Callers : Stage(c)' = Stage(c),
           UNCHANGED <<call, cancelled, reply, chan, running, dropped>>,
           (rt = "exited") = (rt' = "exited")
    PROVE  UNCHANGED Service!vars
<1>1. Line' = Line
  BY DEF Line, Queue
<1>2. [c \in Callers |-> Stage(c)]' = [c \in Callers |-> Stage(c)]
  OBVIOUS
<1>3. {c \in Callers : Current(c) \in cancelled}' = {c \in Callers : Current(c) \in cancelled}
  BY DEF Current
<1>4. QED
  BY <1>1, <1>2, <1>3 DEF Service!vars

\* The stages, when one caller moves.
LEMMA StageMoves ==
    ASSUME TypeOK, NEW c \in Callers, NEW p, pc' = [pc EXCEPT ![c] = p], NEW q,
           q = IF p \in Waiting THEN "waiting" ELSE IF p = "sending" THEN "asking" ELSE "idle"
    PROVE  [d \in Callers |-> Stage(d)]' = [[d \in Callers |-> Stage(d)] EXCEPT ![c] = q]
BY DEF TypeOK, Stage

LEMMA AskRefines == ASSUME ServiceInv, NEW c \in Callers, StartCall(c) PROVE Service!Ask(c)
<1>1. /\ pc[c] = "idle" /\ pc' = [pc EXCEPT ![c] = "sending"]
      /\ call' = [call EXCEPT ![c] = @ + 1] /\ reply' = [reply EXCEPT ![c] = "none"]
      /\ UNCHANGED <<cancelled, chan, rt, running, dropped>>
  BY DEF StartCall, runtimeVars
<1>2. call[c] \in Nat /\ call'[c] = call[c] + 1 /\ \A d \in Callers \ {c} : call'[d] = call[d]
  BY <1>1, ClientAssumption DEF ServiceInv, TypeOK
<1>3. <<c, call'[c]>> \notin cancelled
  <2> SUFFICES ASSUME <<c, call'[c]>> \in cancelled PROVE FALSE
    OBVIOUS
  <2>1. call'[c] <= call[c]
    BY DEF ServiceInv, TokensMatch
  <2>2. QED
    BY <1>2, <2>1
<1>4. {d \in Callers : Current(d) \in cancelled}' =
      {d \in Callers : Current(d) \in cancelled} \ {c}
  <2>1. ASSUME NEW d \in Callers, d # c
        PROVE  <<d, call'[d]>> \in cancelled' <=> <<d, call[d]>> \in cancelled
    BY <1>1, <1>2, <2>1
  <2>2. QED
    BY <1>1, <1>3, <2>1 DEF Current
<1>5. [d \in Callers |-> Stage(d)]' = [[d \in Callers |-> Stage(d)] EXCEPT ![c] = "asking"]
  BY <1>1, StageMoves DEF ServiceInv, Waiting
<1>6. Stage(c) = "idle"
  BY <1>1 DEF Stage, Waiting
<1>7. Line' = Line
  BY <1>1 DEF Line, Queue
<1>8. QED
  BY <1>1, <1>4, <1>5, <1>6, <1>7 DEF Service!Ask

LEMMA AcceptRefines == ASSUME ServiceInv, NEW c \in Callers, Send(c) PROVE Service!Accept(c)
<1>1. /\ pc[c] = "sending" /\ pc' = [pc EXCEPT ![c] = "waiting"] /\ rt # "exited"
      /\ chan' = Append(chan, Current(c))
      /\ UNCHANGED <<call, cancelled, rt, reply, running, dropped>>
  BY DEF Send, callerVars, runtimeVars
<1>2. ~dropped
  BY <1>1 DEF ServiceInv, DroppedIsIdle
<1>3. chan \in Seq(Jobs \cup {Shutdown}) /\ Current(c) \in Jobs /\ Current(c)[1] = c
  BY <1>1, CurrentIsJob DEF ServiceInv, TypeOK, Current
<1>4. /\ Len(chan') = Len(chan) + 1 /\ Len(chan) \in Nat /\ chan'[Len(chan) + 1] = Current(c)
      /\ \A i \in 1 .. Len(chan) : chan'[i] = chan[i]
  BY <1>1, <1>3, AppendType
<1>5. Queue \in Seq(Callers) /\ Len(Queue) = Len(chan)
      /\ \A i \in 1 .. Len(chan) : Queue[i] = chan[i][1]
  BY <1>2, LineOfOpen
<1>6. Queue' = Append(Queue, c)
  <2> DEFINE later == [i \in 1 .. Len(chan) + 1 |-> chan'[i][1]]
  <2>1. Queue' = later
    BY <1>4 DEF Queue
  <2>2. \A i \in 1 .. Len(chan) + 1 : chan'[i][1] \in Callers /\ chan'[i][1] = Append(Queue, c)[i]
    BY <1>3, <1>4, <1>5
  <2>3. Append(Queue, c) \in Seq(Callers) /\ Len(Append(Queue, c)) = Len(chan) + 1
    BY <1>5, AppendProperties
  <2>4. later \in Seq(Callers) /\ Len(later) = Len(chan) + 1
    BY <1>4, <2>2
  <2>5. \A i \in 1 .. Len(later) : later[i] = Append(Queue, c)[i]
    BY <2>2, <2>4
  <2> HIDE DEF later
  <2>6. QED
    BY <2>1, <2>3, <2>4, <2>5, SeqEqual
<1>7. Line' = Append(Line, c)
  <2>1. CASE running = NoRun
    BY <1>1, <1>2, <1>6, <2>1 DEF Line
  <2>2. CASE running # NoRun
    <3>1. running[1] \in Callers
      BY <1>2, <2>2, LineOfOpen
    <3>2. <<running[1]>> \o Append(Queue, c) = Append(<<running[1]>> \o Queue, c)
      BY <1>5, <3>1
    <3>3. QED
      BY <1>1, <1>2, <1>6, <2>2, <3>2 DEF Line
  <2>3. QED
    BY <2>1, <2>2
<1>8. [d \in Callers |-> Stage(d)]' = [[d \in Callers |-> Stage(d)] EXCEPT ![c] = "waiting"]
  BY <1>1, StageMoves DEF ServiceInv, Waiting
<1>9. {d \in Callers : Current(d) \in cancelled}' = {d \in Callers : Current(d) \in cancelled}
  BY <1>1 DEF Current
<1>10. Stage(c) = "asking"
  BY <1>1 DEF Stage, Waiting
<1>11. QED
  BY <1>1, <1>7, <1>8, <1>9, <1>10 DEF Service!Accept

LEMMA RefuseRefines == ASSUME ServiceInv, NEW c \in Callers, SendFails(c) PROVE Service!Refuse(c)
<1>1. /\ pc[c] = "sending" /\ pc' = [pc EXCEPT ![c] = "idle"] /\ rt = "exited"
      /\ UNCHANGED <<call, cancelled, chan, rt, reply, running, dropped>>
  BY DEF SendFails, callerVars, runtimeVars
<1>2. [d \in Callers |-> Stage(d)]' = [[d \in Callers |-> Stage(d)] EXCEPT ![c] = "idle"]
  <2>1. "idle" = IF "idle" \in Waiting THEN "waiting"
                 ELSE IF "idle" = "sending" THEN "asking" ELSE "idle"
    BY DEF Waiting
  <2>2. QED
    BY <1>1, <2>1, StageMoves DEF ServiceInv
<1>3. {d \in Callers : Current(d) \in cancelled}' = {d \in Callers : Current(d) \in cancelled}
  BY <1>1 DEF Current
<1>4. Stage(c) = "asking" /\ Line' = Line
  BY <1>1 DEF Stage, Waiting, Line, Queue
<1>5. QED
  BY <1>1, <1>2, <1>3, <1>4 DEF Service!Refuse

LEMMA WishRefines == ASSUME ServiceInv, NEW c \in Callers, TickCancels(c) PROVE Service!Wish(c)
<1>1. /\ pc[c] = "ticking" /\ pc' = [pc EXCEPT ![c] = "draining"]
      /\ cancelled' = cancelled \cup {Current(c)}
      /\ UNCHANGED <<call, chan, rt, reply, running, dropped>>
  BY DEF TickCancels, callerVars, runtimeVars
<1>2. \A d \in Callers : Stage(d)' = Stage(d)
  BY <1>1 DEF Stage, Waiting, ServiceInv, TypeOK
<1>3. {d \in Callers : Current(d) \in cancelled}' =
      {d \in Callers : Current(d) \in cancelled} \cup {c}
  <2>1. ASSUME NEW d \in Callers, d # c
        PROVE  <<d, call'[d]>> \in cancelled' <=> <<d, call[d]>> \in cancelled
    BY <1>1, <2>1 DEF Current
  <2>2. <<c, call'[c]>> \in cancelled'
    BY <1>1 DEF Current
  <2>3. QED
    BY <2>1, <2>2 DEF Current
<1>4. Stage(c) = "waiting" /\ Line' = Line
  BY <1>1 DEF Stage, Waiting, Line, Queue
<1>5. QED
  BY <1>1, <1>2, <1>3, <1>4 DEF Service!Wish

LEMMA ReturnRefines ==
    ASSUME ServiceInv, NEW c \in Callers, Receive(c) \/ Drain(c)
    PROVE  Service!Return(c)
<1>1. /\ pc[c] \in {"waiting", "draining"} /\ pc' = [pc EXCEPT ![c] = "idle"]
      /\ reply[c] # "none" /\ c \in Callers
      /\ UNCHANGED <<call, cancelled, chan, rt, reply, running, dropped>>
  BY DEF Receive, Drain, callerVars, runtimeVars
<1>2. [d \in Callers |-> Stage(d)]' = [[d \in Callers |-> Stage(d)] EXCEPT ![c] = "idle"]
  <2>1. "idle" = IF "idle" \in Waiting THEN "waiting"
                 ELSE IF "idle" = "sending" THEN "asking" ELSE "idle"
    BY DEF Waiting
  <2>2. QED
    BY <1>1, <2>1, StageMoves DEF ServiceInv
<1>3. {d \in Callers : Current(d) \in cancelled}' = {d \in Callers : Current(d) \in cancelled}
  BY <1>1 DEF Current
<1>4. Stage(c) = "waiting" /\ Line' = Line
  BY <1>1 DEF Stage, Waiting, Line, Queue
<1>5. QED
  BY <1>1, <1>2, <1>3, <1>4 DEF Service!Return

\* The thread ends: the callers in the line are those with a command queued.
LEMMA CloseRefines ==
    ASSUME ServiceInv, BuildFails \/ TakeShutdown
    PROVE  Service!Close
<1>1. /\ rt # "exited" /\ rt # "busy" /\ rt' = "exited" /\ chan' = <<>>
      /\ reply' = [c \in Callers |-> IF Queued(c) THEN "gone" ELSE reply[c]]
      /\ UNCHANGED <<pc, call, cancelled, running, dropped>>
  BY DEF BuildFails, TakeShutdown, HangUp, callerVars
<1>2. running = NoRun
  BY <1>1, BusyRuns DEF ServiceInv
<1>3. Line' = <<>>
  <2>1. Queue' = <<>>
    <3>1. Len(chan') = 0
      BY <1>1
    <3>2. QED
      BY <3>1 DEF Queue
  <2>2. QED
    BY <1>1, <1>2, <2>1 DEF Line
<1>4. ASSUME NEW c \in Callers PROVE Queued(c) <=> \E i \in 1 .. Len(Line) : Line[i] = c
  <2>1. CASE dropped
    <3>1. \A i \in 1 .. Len(chan) : chan[i] = Shutdown
      BY <2>1, DroppedRunsNothing DEF ServiceInv, DroppedIsIdle
    <3>2. Current(c) # Shutdown
      BY ClientAssumption DEF Current, Shutdown
    <3>3. Line = <<>> /\ Len(<<>>) = 0
      BY <2>1 DEF Line
    <3>4. QED
      BY <3>1, <3>2, <3>3 DEF Queued
  <2>2. CASE ~dropped
    <3>1. Line = Queue
      BY <1>2, <2>2 DEF Line
    <3>2. /\ Len(Queue) = Len(chan)
          /\ \A i \in 1 .. Len(chan) : Queue[i] = chan[i][1] /\ chan[i] = Current(chan[i][1])
      BY <2>2, LineOfOpen
    <3>3. Current(c)[1] = c
      BY DEF Current
    <3>4. QED
      BY <3>1, <3>2, <3>3 DEF Queued
  <2>3. QED
    BY <2>1, <2>2
<1>5. reply' = [c \in Callers |-> IF \E i \in 1 .. Len(Line) : Line[i] = c THEN "gone" ELSE reply[c]]
  BY <1>1, <1>4
<1>6. {d \in Callers : Current(d) \in cancelled}' = {d \in Callers : Current(d) \in cancelled}
  BY <1>1 DEF Current
<1>7. [d \in Callers |-> Stage(d)]' = [d \in Callers |-> Stage(d)]
  BY <1>1 DEF Stage
<1>8. (rt # "exited") = TRUE /\ (rt' # "exited") = FALSE
  BY <1>1
<1>9. QED
  BY <1>3, <1>5, <1>6, <1>7, <1>8 DEF Service!Close, Service!InLine

\* The command at the head of the channel becomes the one that runs.
LEMMA TakeJobUnseen == ASSUME ServiceInv, TakeJob PROVE UNCHANGED Service!vars
<1>1. /\ rt = "idle" /\ rt' = "busy" /\ chan # <<>> /\ Head(chan) # Shutdown
      /\ running' = Head(chan) /\ chan' = Tail(chan)
      /\ UNCHANGED <<pc, call, cancelled, reply, dropped>>
  BY DEF TakeJob, callerVars
<1>2. chan \in Seq(Jobs \cup {Shutdown})
  BY DEF ServiceInv, TypeOK
<1>3. /\ Head(chan) = chan[1] /\ Len(chan) > 0 /\ Len(chan) \in Nat
      /\ chan' \in Seq(Jobs \cup {Shutdown}) /\ Len(chan') = Len(chan) - 1
      /\ \A i \in 1 .. Len(chan) - 1 : chan'[i] = chan[i + 1]
  BY <1>1, <1>2, TailType
<1>4. running = NoRun
  BY <1>1, BusyRuns DEF ServiceInv
<1>5. running' \in Jobs /\ running' # NoRun
  BY <1>1, <1>2, <1>3, NoJobs
<1>6. ~dropped
  BY <1>1, <1>3, DroppedRunsNothing DEF ServiceInv, DroppedIsIdle
<1>7. /\ Queue \in Seq(Callers) /\ Len(Queue) = Len(chan)
      /\ \A i \in 1 .. Len(chan) : Queue[i] = chan[i][1]
  BY <1>6, LineOfOpen
<1>8. Queue = <<running'[1]>> \o Queue'
  <2>1. Queue' = [i \in 1 .. Len(chan) - 1 |-> Queue[i + 1]]
    <3>1. Queue' = [i \in 1 .. Len(chan) - 1 |-> chan'[i][1]]
      BY <1>3 DEF Queue
    <3>2. \A i \in 1 .. Len(chan) - 1 : chan'[i][1] = Queue[i + 1]
      BY <1>3, <1>7
    <3>3. QED
      BY <3>1, <3>2
  <2>2. Queue # <<>> /\ Head(Queue) = Queue[1] /\ Queue[1] = running'[1]
    BY <1>1, <1>3, <1>7
  <2>3. Queue' = Tail(Queue)
    <3> DEFINE later == [i \in 1 .. Len(chan) - 1 |-> Queue[i + 1]]
    <3>1. /\ Tail(Queue) \in Seq(Callers) /\ Len(Tail(Queue)) = Len(chan) - 1
          /\ \A i \in 1 .. Len(chan) - 1 : Tail(Queue)[i] = Queue[i + 1]
      BY <1>7, <2>2, TailType
    <3>2. \A i \in 1 .. Len(chan) - 1 : Queue[i + 1] \in Callers
      BY <1>3, <1>7
    <3>3. later \in Seq(Callers) /\ Len(later) = Len(chan) - 1
      <4>1. Len(chan) - 1 \in Nat
        BY <1>3
      <4>2. \A m \in Nat : (\A i \in 1 .. m : Queue[i + 1] \in Callers) =>
              /\ [i \in 1 .. m |-> Queue[i + 1]] \in Seq(Callers)
              /\ Len([i \in 1 .. m |-> Queue[i + 1]]) = m
        OBVIOUS
      <4>3. QED
        BY <3>2, <4>1, <4>2
    <3>4. \A i \in 1 .. Len(later) : later[i] = Tail(Queue)[i]
      BY <3>1, <3>3
    <3> HIDE DEF later
    <3>5. later = Tail(Queue)
      BY <3>1, <3>3, <3>4, SeqEqual
    <3>6. QED
      BY <2>1, <3>5 DEF later
  <2>4. QED
    BY <1>7, <2>2, <2>3
<1>9. Line' = Line
  BY <1>1, <1>4, <1>5, <1>6, <1>8 DEF Line
<1>10. {d \in Callers : Current(d) \in cancelled}' = {d \in Callers : Current(d) \in cancelled}
  BY <1>1 DEF Current
<1>11. [d \in Callers |-> Stage(d)]' = [d \in Callers |-> Stage(d)]
  BY <1>1 DEF Stage
<1>12. (rt # "exited") = (rt' # "exited")
  BY <1>1
<1>13. QED
  BY <1>1, <1>9, <1>10, <1>11, <1>12 DEF Service!vars

LEMMA AnswerRefines ==
    ASSUME ServiceInv, Reply
    PROVE  \E a \in {"answer", "cancelled"} : Service!Answer(a)
<1> DEFINE c == running[1]
           a == IF \E i \in 1 .. Len(slots) : slots[i] = "cancelled" THEN "cancelled" ELSE "answer"
<1>1. /\ rt = "busy" /\ rt' = "idle" /\ running' = NoRun
      /\ UNCHANGED <<pc, call, cancelled, chan, dropped>>
  BY DEF Reply, callerVars
<1>2. running \in Jobs /\ running # NoRun /\ c \in Callers
  BY <1>1, BusyRuns, JobParts DEF ServiceInv
<1>3. running = Current(c) /\ pc[c] \in Waiting
  BY <1>2 DEF ServiceInv, JobsHaveWaiters
<1>4. reply' = [reply EXCEPT ![c] = a]
  BY <1>3 DEF Reply
<1>5. a = "cancelled" => Current(c) \in cancelled
  BY <1>3 DEF ServiceInv, TokensMatch
<1>6. ~dropped
  BY <1>2, <1>3 DEF ServiceInv, DroppedIsIdle, Waiting
<1>7. Line = <<c>> \o Queue /\ Line' = Queue
  BY <1>1, <1>2, <1>6 DEF Line, Queue
<1>8. Queue \in Seq(Callers)
  BY <1>6, LineOfOpen
<1> HIDE DEF c, a
<1>9. Line # <<>> /\ Head(Line) = c /\ Tail(Line) = Queue
  <2>1. c \in Callers
    BY <1>2
  <2>2. <<c>> \o Queue # <<>> /\ Head(<<c>> \o Queue) = c /\ Tail(<<c>> \o Queue) = Queue
    BY <1>8, <2>1
  <2>3. QED
    BY <1>7, <2>2
<1>10. {d \in Callers : Current(d) \in cancelled}' = {d \in Callers : Current(d) \in cancelled}
  BY <1>1 DEF Current
<1>11. [d \in Callers |-> Stage(d)]' = [d \in Callers |-> Stage(d)]
  BY <1>1 DEF Stage
<1>12. (rt # "exited") = TRUE /\ (rt' # "exited") = TRUE
  BY <1>1
<1>13. a = "cancelled" => Head(Line) \in {d \in Callers : Current(d) \in cancelled}
  BY <1>2, <1>5, <1>9
<1>14. Service!Answer(a)
  BY <1>4, <1>7, <1>9, <1>10, <1>11, <1>12, <1>13 DEF Service!Answer
<1>15. a \in {"answer", "cancelled"}
  BY DEF a
<1>16. QED
  BY <1>14, <1>15

LEMMA StepRefines == ServiceInv /\ [Next]_vars => [Service!Next]_(Service!vars)
<1> SUFFICES ASSUME ServiceInv, [Next]_vars PROVE Service!Next \/ UNCHANGED Service!vars
  OBVIOUS
<1>1. ASSUME NEW c \in Callers, StartCall(c) PROVE Service!Next
  BY <1>1, AskRefines DEF Service!Next
<1>2. ASSUME NEW c \in Callers, Send(c) PROVE Service!Next
  BY <1>2, AcceptRefines DEF Service!Next
<1>3. ASSUME NEW c \in Callers, SendFails(c) PROVE Service!Next
  BY <1>3, RefuseRefines DEF Service!Next
<1>4. ASSUME NEW c \in Callers, Receive(c) \/ Drain(c) PROVE Service!Next
  BY <1>4, ReturnRefines DEF Service!Next
<1>5. ASSUME NEW c \in Callers, TickCancels(c) PROVE Service!Next
  BY <1>5, WishRefines DEF Service!Next
<1>6. ASSUME NEW c \in Callers,
             ReceiveTimesOut(c) \/ TickGoesOn(c) \/ Interrupt(c) \/ ProcessInterrupts(c)
      PROVE  UNCHANGED Service!vars
  <2>1. /\ \A d \in Callers : Stage(d)' = Stage(d)
        /\ UNCHANGED <<call, cancelled, reply, chan, running, dropped, rt>>
    BY <1>6 DEF ReceiveTimesOut, TickGoesOn, Interrupt, ProcessInterrupts, Stage, Waiting,
                ServiceInv, TypeOK, callerVars, runtimeVars
  <2>2. QED
    BY <2>1, UnseenStep
<1>7. CASE DropClient
  <2>1. /\ UNCHANGED <<pc, call, cancelled, reply, running, rt>> /\ dropped' = TRUE
        /\ ~dropped /\ \A c \in Callers : pc[c] = "idle"
    BY <1>7 DEF DropClient, callerVars, runtimeVars
  <2>2. running = NoRun /\ \A i \in 1 .. Len(chan) : chan[i] = Shutdown
    BY <2>1, DroppedRunsNothing
  <2>3. Len(chan) = 0
    BY <2>1, <2>2 DEF ServiceInv, DroppedIsIdle, TypeOK
  <2>4. Queue = <<>>
    BY <2>3 DEF Queue
  <2>5. Line = <<>> /\ Line' = <<>>
    BY <2>1, <2>2, <2>4 DEF Line
  <2>6. {d \in Callers : Current(d) \in cancelled}' = {d \in Callers : Current(d) \in cancelled}
    BY <2>1 DEF Current
  <2>7. [d \in Callers |-> Stage(d)]' = [d \in Callers |-> Stage(d)]
    BY <2>1 DEF Stage
  <2>8. QED
    BY <2>1, <2>5, <2>6, <2>7 DEF Service!vars
<1>8. CASE BuildRuntime
  BY <1>8, UnseenStep DEF BuildRuntime, Stage, callerVars
<1>9. CASE BuildFails \/ TakeShutdown
  BY <1>9, CloseRefines DEF Service!Next
<1>10. CASE TakeJob
  BY <1>10, TakeJobUnseen
<1>11. CASE Reply
  BY <1>11, AnswerRefines DEF Service!Next
<1>12. ASSUME NEW i \in 1 .. MaxItems, ItemEnds(i) \/ ItemCancelled(i)
       PROVE  UNCHANGED Service!vars
  BY <1>12, UnseenStep DEF ItemEnds, ItemCancelled, Stage, callerVars
<1>13. CASE UNCHANGED vars
  BY <1>13, UnseenStep DEF vars, Stage, callerVars, runtimeVars
<1>14. QED
  BY <1>1, <1>2, <1>3, <1>4, <1>5, <1>6, <1>7, <1>8, <1>9, <1>10, <1>11, <1>12, <1>13
  DEF Next, Caller, Runtime, SomeItemEnds

\* The client, with its channel, thread, tokens and timed waits, implements the
\* service: one call at a time, in order, one answer each, "cancelled" on its own
\* wish only, and "gone" to the whole line when the thread ends.
THEOREM ClientServesCalls == Spec => ServesCalls
<1>1. Init => Service!Init
  <2> SUFFICES ASSUME Init PROVE Service!Init
    OBVIOUS
  <2>1. [c \in Callers |-> Stage(c)] = [c \in Callers |-> "idle"]
    <3>1. \A c \in Callers : pc[c] = "idle"
      BY DEF Init
    <3>2. \A c \in Callers : Stage(c) = "idle"
      BY <3>1 DEF Stage, Waiting
    <3>3. QED
      BY <3>2
  <2>2. {c \in Callers : Current(c) \in cancelled} = {}
    BY DEF Init
  <2>3. Line = <<>>
    <3>1. Len(<<>>) = 0
      OBVIOUS
    <3>2. QED
      BY <3>1 DEF Init, Line, Queue
  <2>4. reply = [c \in Callers |-> "none"] /\ (rt # "exited") = TRUE
    BY DEF Init
  <2>5. QED
    BY <2>1, <2>2, <2>3, <2>4 DEF Service!Init
<1>2. Spec => []ServiceInv
  <2>1. Init => TokensMatch
    <3>1. Len(<<>>) = 0
      OBVIOUS
    <3>2. QED
      BY <3>1 DEF Init, TokensMatch
  <2>2. QED
    BY <2>1, TokensStep, TypeCorrect, JobsCorrect, DroppedCorrect, PTL
    DEF Spec, SilentSpec, ServiceInv
<1>3. QED
  BY <1>1, <1>2, StepRefines, PTL DEF Spec, SilentSpec, ServesCalls, Service!Spec
=============================================================================
