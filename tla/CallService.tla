----------------------------- MODULE CallService -----------------------------
(***************************************************************************)
(* What the HTTP client promises the threads that share it                 *)
(* (src/crates/infer-client/src/transport.rs, the doc of CancellableClient *)
(* and the signatures of run and batch_with_tick): calls are served one at *)
(* a time in the order in which they were accepted, each is answered once, *)
(* and only a call whose own tick asked for it is answered "cancelled".    *)
(* There is no channel, no thread, no token and no slice of 50 ms here.    *)
(***************************************************************************)
EXTENDS Integers, Sequences

CONSTANT Callers

VARIABLES
    stage,   \* per caller: idle, asking (not accepted yet) or waiting
    wishes,  \* the callers whose current call asked to be cancelled
    outcome, \* per caller: the answer to its current call
    line,    \* the callers accepted and not answered, in order
    open     \* the service accepts calls

vars == <<stage, wishes, outcome, line, open>>

Init ==
    /\ stage = [c \in Callers |-> "idle"]
    /\ wishes = {}
    /\ outcome = [c \in Callers |-> "none"]
    /\ line = <<>>
    /\ open = TRUE

Ask(c) ==
    /\ stage[c] = "idle"
    /\ stage' = [stage EXCEPT ![c] = "asking"]
    /\ wishes' = wishes \ {c}
    /\ outcome' = [outcome EXCEPT ![c] = "none"]
    /\ UNCHANGED <<line, open>>

Accept(c) ==
    /\ stage[c] = "asking"
    /\ open
    /\ stage' = [stage EXCEPT ![c] = "waiting"]
    /\ line' = Append(line, c)
    /\ UNCHANGED <<wishes, outcome, open>>

Refuse(c) ==
    /\ stage[c] = "asking"
    /\ ~open
    /\ stage' = [stage EXCEPT ![c] = "idle"]
    /\ UNCHANGED <<wishes, outcome, line, open>>

Wish(c) ==
    /\ stage[c] = "waiting"
    /\ wishes' = wishes \cup {c}
    /\ UNCHANGED <<stage, outcome, line, open>>

Answer(a) ==
    /\ open
    /\ line # <<>>
    /\ a = "cancelled" => Head(line) \in wishes
    /\ outcome' = [outcome EXCEPT ![Head(line)] = a]
    /\ line' = Tail(line)
    /\ UNCHANGED <<stage, wishes, open>>

InLine(c) == \E i \in 1 .. Len(line) : line[i] = c

\* Every call in the line learns that the service is gone.
Close ==
    /\ open
    /\ open' = FALSE
    /\ line' = <<>>
    /\ outcome' = [c \in Callers |-> IF InLine(c) THEN "gone" ELSE outcome[c]]
    /\ UNCHANGED <<stage, wishes>>

Return(c) ==
    /\ stage[c] = "waiting"
    /\ outcome[c] # "none"
    /\ stage' = [stage EXCEPT ![c] = "idle"]
    /\ UNCHANGED <<wishes, outcome, line, open>>

Next ==
    \/ \E c \in Callers : Ask(c) \/ Accept(c) \/ Refuse(c) \/ Wish(c) \/ Return(c)
    \/ \E a \in {"answer", "cancelled"} : Answer(a)
    \/ Close

Spec == Init /\ [][Next]_vars
=============================================================================
