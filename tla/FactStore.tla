------------------------------ MODULE FactStore ------------------------------
(***************************************************************************)
(* What the retrieval-override store promises its callers                  *)
(* (the docs of src/crates/infer-vindex/src/patch/knn_store.rs): entries   *)
(* per layer, and a query answered at once from the entries that are       *)
(* there, each with its own score.  There is no matrix and no dirty mark.  *)
(* A store that never held a key of a wrong width never fails.             *)
(***************************************************************************)
EXTENDS Integers, Sequences, FiniteSets, Lists

CONSTANTS
    Layers, Readers, Entities, Relations,
    Entry,   \* records with an entity, a relation and the width of their key
    Hidden,  \* the width of a residual
    TopK     \* the values of k

VARIABLES
    entries, \* per layer: its entries, in the order they were added
    answer,  \* per reader: what its last query returned
    spoiled  \* the store has held a key whose width is not Hidden

vars == <<entries, answer, spoiled>>

\* A hit is the entry that is returned with the entry whose key was scored.
NoAnswer == [kind |-> "none", hits |-> {}]
Failure == [kind |-> "panic", hits |-> {}]
Hits(h) == [kind |-> "hits", hits |-> h]

\* The k nearest of n rows: which ones they are is up to the residual.
Nearest(n, k) == {s \in SUBSET (1 .. n) : Cardinality(s) = IF n < k THEN n ELSE k}

\* Both ways to remove entries by their entity.
Matching(entity, relations) ==
    {e \in Entry : e.entity = entity /\ e.relation \in relations}

Init ==
    /\ entries = [l \in Layers |-> <<>>]
    /\ answer = [r \in Readers |-> NoAnswer]
    /\ spoiled = FALSE

Add(l, e) ==
    /\ entries' = [entries EXCEPT ![l] = Append(@, e)]
    /\ spoiled' = (spoiled \/ e.width # Hidden)
    /\ UNCHANGED answer

Withdraw(gone) ==
    /\ entries' = [l \in Layers |-> Retained(entries[l], gone)]
    /\ UNCHANGED <<answer, spoiled>>

Forget ==
    /\ entries' = [l \in Layers |-> <<>>]
    /\ spoiled' = FALSE
    /\ UNCHANGED answer

Query(r, l, k) ==
    /\ \E s \in Nearest(Len(entries[l]), k) :
         answer' = [answer EXCEPT ![r] = Hits({<<entries[l][i], entries[l][i]>> : i \in s})]
    /\ UNCHANGED <<entries, spoiled>>

Fail(r) ==
    /\ spoiled
    /\ answer' = [answer EXCEPT ![r] = Failure]
    /\ UNCHANGED <<entries, spoiled>>

Ask(r) ==
    /\ answer' = [answer EXCEPT ![r] = NoAnswer]
    /\ UNCHANGED <<entries, spoiled>>

Next ==
    \/ \E l \in Layers, e \in Entry : Add(l, e)
    \/ \E n \in Entities, s \in SUBSET Relations : Withdraw(Matching(n, s))
    \/ Forget
    \/ \E r \in Readers : Ask(r) \/ Fail(r) \/ \E l \in Layers, k \in TopK : Query(r, l, k)

Spec == Init /\ [][Next]_vars
=============================================================================
