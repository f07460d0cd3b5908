---------------------------- MODULE ExpertDispatch ----------------------------
(***************************************************************************)
(* The experts of a mixture model on shards (RemoteMoeBackend,             *)
(* src/crates/infer-inference/src/ffn/moe_remote.rs): each layer of a      *)
(* token that is decoded (generate_with_remote_moe, layer_graph/grid.rs)   *)
(* sends the experts that its router chose to the shards that own them, in *)
(* one batch for each shard, all at once, and adds up what they answer.    *)
(* Threads share the shard map, which reshard replaces while they decode.  *)
(* The shards are external: a batch may fail, but one that is answered is  *)
(* assumed to hold each expert that was asked for once, and no other:      *)
(* forward_moe adds up what came without comparing (moe_remote.rs:470-487).*)
(***************************************************************************)
EXTENDS Naturals, Sequences, FiniteSets, FiniteSetsExt

CONSTANTS
    Threads,    \* each decodes one token after the other
    Experts, TopK,
    NumLayers,     \* number of layers
    Maps,       \* shard maps: sequences of shards, each with its URL and its experts
    MaxReshards, MaxDecoded \* bounds: shard maps that are tried, tokens of a thread

DispatchAssumption ==
    /\ \A m \in Maps : DOMAIN m \subseteq Nat /\ \A i \in DOMAIN m : m[i].owns \subseteq Experts
    /\ TopK \in Nat /\ NumLayers \in Nat /\ MaxReshards \in Nat /\ MaxDecoded \in Nat

VARIABLES
    shards,    \* the map, behind a lock
    reshard,   \* what reshard is doing: "none", "connect" or "swap"
    new_shards, \* the map it was given
    reshards,
    progress,     \* of a thread: "idle", "layer", "call", or how its last token ended
    layer,     \* the layer it is at
    batches,   \* for each shard its experts of this layer
    answers,   \* the shards that answered, and how
    step_error, \* a layer of this token failed
    outputs,   \* what was added up: layer, expert, and the URL that answered
    due,       \* the same as the router and the map of its layer ask for (history)
    decoded    \* number of tokens of a thread

mapVars == <<shards, reshard, new_shards, reshards>>
tokenVars == <<progress, layer, batches, answers, step_error, outputs, due, decoded>>
vars == <<mapVars, tokenVars>>

Urls == UNION {{m[i].url : i \in DOMAIN m} : m \in Maps}
Outputs == (1 .. NumLayers) \X Experts \X Urls

TypeOK ==
    /\ shards \in Maps /\ new_shards \in Maps
    /\ reshard \in {"none", "connect", "swap"} /\ reshards \in 0 .. MaxReshards
    /\ progress \in [Threads -> {"idle", "layer", "call", "ok", "error"}]
    /\ layer \in [Threads -> 1 .. NumLayers + 1]
    /\ outputs \in [Threads -> SUBSET Outputs] /\ due \in [Threads -> SUBSET Outputs]
    /\ \A t \in Threads :
          /\ progress[t] = "call" => DOMAIN batches[t] = DOMAIN shards
          /\ DOMAIN answers[t] \subseteq DOMAIN batches[t]
          /\ progress[t] = "idle" => layer[t] = 1
    /\ step_error \in [Threads -> BOOLEAN]
    /\ decoded \in [Threads -> 0 .. MaxDecoded]

Init ==
    /\ shards \in Maps /\ new_shards = shards
    /\ reshard = "none" /\ reshards = 0
    /\ progress = [t \in Threads |-> "idle"] /\ layer = [t \in Threads |-> 1]
    /\ batches = [t \in Threads |-> <<>>] /\ answers = [t \in Threads |-> <<>>]
    /\ step_error = [t \in Threads |-> FALSE]
    /\ outputs = [t \in Threads |-> {}] /\ due = [t \in Threads |-> {}]
    /\ decoded = [t \in Threads |-> 0]

----------------------------------------------------------------------------
(* reshard *)

Reshard(m) ==
    /\ reshard = "none" /\ reshards < MaxReshards
    /\ reshard' = "connect" /\ new_shards' = m /\ reshards' = reshards + 1
    /\ UNCHANGED <<shards, tokenVars>>

\* Every shard of the new map is asked for its health, without the lock: one that
\* fails leaves the old map.
Connect ==
    /\ reshard = "connect"
    /\ reshard' \in {"none", "swap"}
    /\ UNCHANGED <<shards, new_shards, reshards, tokenVars>>

\* The map is read from the routing of a layer to the end of its calls.
Readers == {t \in Threads : progress[t] = "call"}

\* Mutant of Swap: the lock is not held during the calls.
SwapAnyTime ==
    /\ reshard = "swap"
    /\ shards' = new_shards /\ reshard' = "none"
    /\ UNCHANGED <<new_shards, reshards, tokenVars>>

Swap ==
    /\ reshard = "swap" /\ Readers = {}
    /\ shards' = new_shards /\ reshard' = "none"
    /\ UNCHANGED <<new_shards, reshards, tokenVars>>

----------------------------------------------------------------------------
(* A token *)

Begin(t) ==
    /\ progress[t] \in {"idle", "ok", "error"} /\ decoded[t] < MaxDecoded
    /\ progress' = [progress EXCEPT ![t] = "layer"] /\ layer' = [layer EXCEPT ![t] = 1]
    /\ step_error' = [step_error EXCEPT ![t] = FALSE]
    /\ outputs' = [outputs EXCEPT ![t] = {}] /\ due' = [due EXCEPT ![t] = {}]
    /\ decoded' = [decoded EXCEPT ![t] = @ + 1]
    /\ UNCHANGED <<mapVars, batches, answers>>

\* The first shard that owns an expert, if there is one.
Owners(e) == {i \in DOMAIN shards : e \in shards[i].owns}
Owner(e) == Min(Owners(e))

NextLayer(t) == layer' = [layer EXCEPT ![t] = @ + 1]

\* route, and the batches of forward_moe.
Route(t, chosen) ==
    /\ progress[t] = "layer" /\ layer[t] <= NumLayers /\ ~step_error[t]
    /\ \A e \in chosen : Owners(e) # {}
    /\ progress' = [progress EXCEPT ![t] = "call"]
    /\ batches' = [batches EXCEPT ![t] =
                     [i \in DOMAIN shards |-> {e \in chosen : Owner(e) = i}]]
    /\ answers' = [answers EXCEPT ![t] = <<>>]
    /\ due' = [due EXCEPT ![t] =
                 @ \cup {<<layer[t], e, shards[Owner(e)].url>> : e \in chosen}]
    /\ UNCHANGED <<mapVars, layer, step_error, outputs, decoded>>

\* NoShard: nothing is called.
NoShard(t, chosen) ==
    /\ progress[t] = "layer" /\ layer[t] <= NumLayers /\ ~step_error[t]
    /\ \E e \in chosen : Owners(e) = {}
    /\ step_error' = [step_error EXCEPT ![t] = TRUE]
    /\ NextLayer(t)
    /\ UNCHANGED <<mapVars, progress, batches, answers, outputs, due, decoded>>

\* call_batch: the shard at this place of the map answers, for each expert of the
\* batch once (assumed: the code does not check it), or does not.
Call(t, i) ==
    /\ progress[t] = "call"
    /\ i \in DOMAIN batches[t] \ DOMAIN answers[t] /\ batches[t][i] # {}
    /\ \E a \in {"error", shards[i].url} :
          answers' = [answers EXCEPT ![t] =
                        [j \in DOMAIN @ \cup {i} |-> IF j = i THEN a ELSE @[j]]]
    /\ UNCHANGED <<mapVars, progress, layer, batches, step_error, outputs, due, decoded>>

AllAnswered(t) == \A i \in DOMAIN batches[t] : batches[t][i] # {} => i \in DOMAIN answers[t]
AnyFailed(t) == \E i \in DOMAIN answers[t] : answers[t][i] = "error"

\* All batches are over: one that failed fails the layer.
Sum(t) ==
    /\ progress[t] = "call" /\ AllAnswered(t)
    /\ progress' = [progress EXCEPT ![t] = "layer"]
    /\ NextLayer(t)
    /\ IF AnyFailed(t)
       THEN step_error' = [step_error EXCEPT ![t] = TRUE] /\ UNCHANGED outputs
       ELSE /\ outputs' = [outputs EXCEPT ![t] = @ \cup
                  UNION {{<<layer[t], e, answers[t][i]>> : e \in batches[t][i]} :
                            i \in DOMAIN answers[t]}]
            /\ UNCHANGED step_error
    /\ batches' = [batches EXCEPT ![t] = <<>>] /\ answers' = [answers EXCEPT ![t] = <<>>]
    /\ UNCHANGED <<mapVars, due, decoded>>

\* The layers after a failing one add nothing.
Skip(t) ==
    /\ progress[t] = "layer" /\ layer[t] <= NumLayers /\ step_error[t]
    /\ NextLayer(t)
    /\ UNCHANGED <<mapVars, progress, batches, answers, step_error, outputs, due, decoded>>

End(t) ==
    /\ progress[t] = "layer" /\ layer[t] > NumLayers
    /\ progress' = [progress EXCEPT ![t] = IF step_error[t] THEN "error" ELSE "ok"]
    /\ UNCHANGED <<mapVars, layer, batches, answers, step_error, outputs, due, decoded>>

Next ==
    \/ \E m \in Maps : Reshard(m)
    \/ Connect \/ Swap
    \/ \E t \in Threads :
          \/ Begin(t) \/ Sum(t) \/ Skip(t) \/ End(t)
          \/ \E i \in DOMAIN batches[t] : Call(t, i)
          \/ \E chosen \in kSubset(TopK, Experts) : Route(t, chosen) \/ NoShard(t, chosen)

Spec == Init /\ [][Next]_vars

----------------------------------------------------------------------------

\* If a shard that answers does so for each expert of its batch once, which the code
\* does not check (Call): a token that is decoded has of each layer the outputs of
\* the experts its router chose, each once and from the shard that the map of the
\* layer's beginning names, however often the map is replaced meanwhile; one of which
\* a layer failed is not returned (forward_moe, reshard, generate_with_remote_moe).
TokensAreWhole ==
    \A t \in Threads : progress[t] = "ok" =>
        /\ outputs[t] = due[t]
        /\ \A l \in 1 .. NumLayers :
              {o[2] : o \in {p \in outputs[t] : p[1] = l}} \in kSubset(TopK, Experts)
        /\ \A o, p \in outputs[t] : o[1] = p[1] /\ o[2] = p[2] => o = p
=============================================================================
