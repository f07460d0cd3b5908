-------------------------------- MODULE Lists --------------------------------
(***************************************************************************)
(* Steps that lists of several components share.  Both LRU lists           *)
(* (src/src/registry.rs and the gate.rs of infer-vindex) take one element  *)
(* out of a list, whatever its place; the retrieval-override store         *)
(* (knn_store.rs) retains some elements in their order.                    *)
(***************************************************************************)
EXTENDS Integers, Sequences, SequencesExt, FiniteSets

\* The list l without m.  The code drops the first occurrence in some places
\* (position and remove) and every one in others (retain), which is the same for
\* lists that hold an element at most once.
Without(l, m) ==
    IF \E i \in 1 .. Len(l) : l[i] = m
    THEN RemoveAt(l, CHOOSE i \in 1 .. Len(l) : l[i] = m)
    ELSE l

\* The element of a finite set of numbers that n of its elements are less than.
Nth(I, n) == CHOOSE i \in I : Cardinality({j \in I : j < i}) = n

\* Vec::retain: the list without the elements of a set.  (SelectSeq, said with
\* what the provers know of finite sets.)
Retained(l, gone) ==
    LET kept == {i \in 1 .. Len(l) : l[i] \notin gone} IN
    [n \in 1 .. Cardinality(kept) |-> l[Nth(kept, n - 1)]]
=============================================================================
