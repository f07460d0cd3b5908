------------------------------ MODULE KnnStore ------------------------------
(***************************************************************************)
(* The per-layer retrieval-override store of a patched vindex              *)
(* (src/crates/infer-vindex/src/patch/knn_store.rs): entries per layer,    *)
(* and for each layer a matrix of their keys that a query builds when the  *)
(* layer is marked dirty.  add and remove need the store for themselves    *)
(* (&mut self); queries share it, and reach the matrices and the marks     *)
(* through two mutexes, one lock at a time.                                *)
(*                                                                         *)
(* A key is known by its entry and its width: a matrix is the sequence of  *)
(* the entries whose keys are its rows.  Scores are not modelled: a query  *)
(* returns k rows, any k.                                                  *)
(***************************************************************************)
EXTENDS Integers, Sequences, FiniteSets, Lists

CONSTANTS
    Layers, Readers,
    Entities, Relations,
    Facts,   \* what tells two entries of one entity and relation apart
    Widths,  \* the widths of the keys, Hidden among them
    Hidden,  \* the width of a residual, hidden_size
    TopK     \* the values of k

KnnAssumption ==
    /\ Widths \subseteq Nat \ {0} /\ Hidden \in Widths
    /\ TopK \subseteq Nat \ {0} /\ TopK # {}

Entry == [fact : Facts, entity : Entities, relation : Relations, width : Widths]

VARIABLES
    entries,      \* per layer: its entries, <<>> if the map has no such layer
    key_matrices, \* per layer: the rows of its matrix, <<>> if it has none
    dirty,        \* the layers whose matrix must be rebuilt
    poisoned,     \* the mutex of key_matrices: a holder has panicked
    query,        \* per reader: the query it is in
    answer,       \* per reader: what its last query returned
    spoiled       \* history: an entry of another width than Hidden was added

vars == <<entries, key_matrices, dirty, poisoned, query, answer, spoiled>>

NoQuery == [step |-> "none"]
Queries == [step : {"rebuild", "clear", "score"}, layer : Layers, k : TopK]

NoAnswer == [kind |-> "none", hits |-> {}]
Failure == [kind |-> "panic", hits |-> {}]
Hits(h) == [kind |-> "hits", hits |-> h]

TypeOK ==
    /\ entries \in [Layers -> Seq(Entry)]
    /\ key_matrices \in [Layers -> Seq(Entry)]
    /\ dirty \subseteq Layers
    /\ poisoned \in BOOLEAN
    /\ query \in [Readers -> Queries \cup {NoQuery}]
    /\ answer \in [Readers -> [kind : {"none", "panic", "hits"}, hits : SUBSET (Entry \X Entry)]]
    /\ spoiled \in BOOLEAN

Init ==
    /\ entries = [l \in Layers |-> <<>>]
    /\ key_matrices = [l \in Layers |-> <<>>]
    /\ dirty = {}
    /\ poisoned = FALSE
    /\ query = [r \in Readers |-> NoQuery]
    /\ answer = [r \in Readers |-> NoAnswer]
    /\ spoiled = FALSE

----------------------------------------------------------------------------
(* &mut self *)

\* Nobody borrows the store.
Owned == \A r \in Readers : query[r] = NoQuery

add(l, e) ==
    /\ Owned
    /\ entries' = [entries EXCEPT ![l] = Append(@, e)]
    /\ dirty' = dirty \cup {l}
    /\ spoiled' = (spoiled \/ e.width # Hidden)
    /\ UNCHANGED <<key_matrices, poisoned, query, answer>>

\* remove_by_entity (all relations) and remove_by_entity_relation (one).
Matching(entity, relations) ==
    {e \in Entry : e.entity = entity /\ e.relation \in relations}

Shrunk(gone) == {l \in Layers : Len(Retained(entries[l], gone)) # Len(entries[l])}

\* Mutant of remove_by: the matrix of a layer is only rebuilt after an insertion.
RemoveUnmarked(gone) ==
    /\ Owned
    /\ entries' = [l \in Layers |-> Retained(entries[l], gone)]
    /\ UNCHANGED <<key_matrices, dirty, poisoned, query, answer, spoiled>>

\* A layer that loses its last entry keeps its matrix and its mark.
remove_by(gone) ==
    /\ Owned
    /\ entries' = [l \in Layers |-> Retained(entries[l], gone)]
    /\ dirty' = dirty \cup Shrunk(gone)
    /\ UNCHANGED <<key_matrices, poisoned, query, answer, spoiled>>

\* The store is replaced by default(): PatchedVindex::rebuild_overrides.
Replace ==
    /\ Owned
    /\ entries' = [l \in Layers |-> <<>>]
    /\ key_matrices' = [l \in Layers |-> <<>>]
    /\ dirty' = {}
    /\ poisoned' = FALSE
    /\ spoiled' = FALSE
    /\ UNCHANGED <<query, answer>>

\* The store goes on as its clone, or is saved and loaded: no matrix, all layers
\* dirty, fresh mutexes.
Renew ==
    /\ Owned
    /\ key_matrices' = [l \in Layers |-> <<>>]
    /\ dirty' = {l \in Layers : entries[l] # <<>>}
    /\ poisoned' = FALSE
    /\ UNCHANGED <<entries, query, answer, spoiled>>

----------------------------------------------------------------------------
(* query_knn, by readers that share the store *)

\* The mark is read under its mutex and the mutex is released.
StartQuery(r, l, k) ==
    /\ query[r] = NoQuery
    /\ entries[l] # <<>>
    /\ query' = [query EXCEPT ![r] =
                    [step |-> IF l \in dirty THEN "rebuild" ELSE "score", layer |-> l, k |-> k]]
    /\ answer' = [answer EXCEPT ![r] = NoAnswer]
    /\ UNCHANGED <<entries, key_matrices, dirty, poisoned, spoiled>>

\* No entries: nothing is locked.
QueryEmpty(r, l) ==
    /\ query[r] = NoQuery
    /\ entries[l] = <<>>
    /\ answer' = [answer EXCEPT ![r] = Hits({})]
    /\ UNCHANGED <<entries, key_matrices, dirty, poisoned, query, spoiled>>

Ends(r, a) ==
    /\ query' = [query EXCEPT ![r] = NoQuery]
    /\ answer' = [answer EXCEPT ![r] = a]

\* A row is as wide as the first entry's key; a longer key is out of its bounds.
Fits(list) == \A i \in 1 .. Len(list) : list[i].width <= list[1].width

\* The panic happens before the lock is taken; the mark stays.
BuildPanics(r) ==
    /\ query[r] # NoQuery /\ query[r].step = "rebuild"
    /\ ~Fits(entries[query[r].layer])
    /\ Ends(r, Failure)
    /\ UNCHANGED <<entries, key_matrices, dirty, poisoned, spoiled>>

InsertPanics(r) ==
    /\ query[r] # NoQuery /\ query[r].step = "rebuild"
    /\ poisoned
    /\ Ends(r, Failure)
    /\ UNCHANGED <<entries, key_matrices, dirty, poisoned, spoiled>>

\* rebuild_layer, the first lock.
InsertMatrix(r) ==
    /\ query[r] # NoQuery /\ query[r].step = "rebuild"
    /\ Fits(entries[query[r].layer])
    /\ ~poisoned
    /\ key_matrices' = [key_matrices EXCEPT ![query[r].layer] = entries[query[r].layer]]
    /\ query' = [query EXCEPT ![r].step = "clear"]
    /\ UNCHANGED <<entries, dirty, poisoned, answer, spoiled>>

\* rebuild_layer, the second lock.
ClearMark(r) ==
    /\ query[r] # NoQuery /\ query[r].step = "clear"
    /\ dirty' = dirty \ {query[r].layer}
    /\ query' = [query EXCEPT ![r].step = "score"]
    /\ UNCHANGED <<entries, key_matrices, poisoned, answer, spoiled>>

\* The k nearest of n rows: which ones they are is up to the residual.
Nearest(n, k) == {s \in SUBSET (1 .. n) : Cardinality(s) = IF n < k THEN n ELSE k}

\* The rows can be multiplied with a residual.
Scorable(rows) == rows # <<>> => rows[1].width = Hidden

Scoring(r) == query[r] # NoQuery /\ query[r].step = "score"

\* The lock is poisoned, or the product panics under it and poisons it.
ScorePanics(r) ==
    /\ Scoring(r)
    /\ poisoned \/ ~Scorable(key_matrices[query[r].layer])
    /\ poisoned' = TRUE
    /\ Ends(r, Failure)
    /\ UNCHANGED <<entries, key_matrices, dirty, spoiled>>

\* The rows are scored and their numbers looked up among the entries; a number
\* beyond them is a panic under the lock.
Score(r) ==
    /\ Scoring(r)
    /\ ~poisoned
    /\ LET list == entries[query[r].layer]
           rows == key_matrices[query[r].layer]
           found(s) == s \subseteq 1 .. Len(list)
       IN  /\ Scorable(rows)
           /\ \E s \in Nearest(Len(rows), query[r].k) :
                /\ Ends(r, IF found(s) THEN Hits({<<list[i], rows[i]>> : i \in s}) ELSE Failure)
                /\ poisoned' = ~found(s)
    /\ UNCHANGED <<entries, key_matrices, dirty, spoiled>>

----------------------------------------------------------------------------

Writer ==
    \/ \E l \in Layers, e \in Entry : add(l, e)
    \/ \E n \in Entities, s \in SUBSET Relations : remove_by(Matching(n, s))
    \/ Replace \/ Renew

Reader(r) ==
    \/ \E l \in Layers : QueryEmpty(r, l) \/ \E k \in TopK : StartQuery(r, l, k)
    \/ BuildPanics(r) \/ InsertPanics(r) \/ InsertMatrix(r) \/ ClearMark(r)
    \/ ScorePanics(r) \/ Score(r)

Next == Writer \/ \E r \in Readers : Reader(r)

Spec == Init /\ [][Next]_vars

----------------------------------------------------------------------------
(* Properties *)

\* The matrix of a layer that is not marked is the matrix of its entries, also
\* while other readers are between the two locks of a rebuild; and a reader that
\* is past the mark scores such a matrix.
CleanIsCurrent ==
    /\ \A l \in Layers : entries[l] # <<>> /\ l \notin dirty => key_matrices[l] = entries[l]
    /\ \A r \in Readers :
         query[r] # NoQuery /\ query[r].step # "rebuild" =>
             key_matrices[query[r].layer] = entries[query[r].layer]

Facade == INSTANCE FactStore

\* With the lazy matrices, the marks, the two mutexes and any overlap of the
\* readers, the store is one that answers at once from its entries: every score
\* belongs to the entry that is returned with it, and a query fails only in a
\* store that has held a key of a wrong width.
AnswersFromEntries == Facade!Spec
=============================================================================
