----------------------------- MODULE VindexEdit -----------------------------
(***************************************************************************)
(* The edits of an index and their way back to disk: VectorIndex's mutators*)
(* and save_vindex (src/crates/infer-vindex/src/index/mutate.rs), the gate *)
(* searches that must see the edits (index/gate.rs), PatchedVindex's       *)
(* bake_down, and load_vindex.  A vindex that was loaded reads the mapped  *)
(* files; what is edited goes to the heap beside them.  Each edit needs the*)
(* index for itself (&mut self).                                           *)
(*                                                                         *)
(* One layer.  An index is saved to the directory that it was loaded from, *)
(* and dropped then: down_meta.bin is rewritten in place, under the mapping*)
(* of the old one.  The graph of the HNSW search is here the vectors that  *)
(* it was built from; GateGraph models how it is built and searched.       *)
(***************************************************************************)
EXTENDS Naturals, FiniteSets

CONSTANTS
    Slots,      \* the features of the layer
    Vectors,    \* gate vectors
    Garbled,    \* one read with another width than it was written with
    Tokens,     \* metadata whose token has an id in the vocabulary
    FirstToken, \* that of id 0
    Facts,      \* metadata of a Vindexfile INSERT: a text, and the id 0
    Empty,      \* no metadata
    Missing,    \* a part that the index does not have
    FirstGates, FirstMetas, \* the gate vectors and metadata as they were extracted
    MaxEdits    \* bound: edits

Dtypes == {"f32", "f16"}
Gates == [Slots -> Vectors \cup {Garbled}]
StoredMetas == [Slots -> Tokens \cup {Empty}]
Metas == [Slots -> Tokens \cup Facts \cup {Empty}]

EditAssumption ==
    /\ Slots = 0 .. Cardinality(Slots) - 1 /\ Slots # {}
    /\ FirstToken \in Tokens
    /\ FirstGates \in [Slots -> Vectors] /\ FirstMetas \in StoredMetas
    /\ Garbled \notin Vectors /\ Empty \notin Tokens \cup Facts
    /\ Missing \notin Vectors /\ Missing \notin Gates /\ Missing \notin Metas
    /\ MaxEdits \in Nat

VARIABLES
    \* the directory
    dtype,          \* that of index.json, and of the configuration of the caller
    readable,       \* index.json is whole
    gate_file,      \* the vectors in gate_vectors.bin, and their width
    meta_file,      \* the records of down_meta.bin
    \* the index
    stage,          \* "closed", "open", or the file that save_vindex writes next
    gate_vectors,   \* those on the heap, or Missing
    gate_mmap,      \* those of the file that is mapped, or Missing
    warmed,         \* warmed_gates, or Missing
    hnsw_cache,     \* those that the HNSW graph was built from, or Missing
    down_meta,      \* metadata on the heap, or Missing
    down_meta_mmap, \* that of the file that is mapped, or Missing
    \* history
    meant,          \* the vectors and metadata as they were loaded and then edited
    edited,         \* the slots whose vector was set since the index was loaded
    carried,        \* the slots whose metadata is on the heap
    before, goal,   \* what a load showed before the last save, and shall show after
    saved,          \* that save came to its end
    edits           \* number of edits

disk == <<dtype, readable, gate_file, meta_file>>
memory == <<gate_vectors, gate_mmap, warmed, hnsw_cache, down_meta, down_meta_mmap>>
saves == <<before, goal, saved>>
vars == <<disk, stage, memory, meant, edited, carried, saves, edits>>

Contents == [gate : Gates, meta : Metas]

TypeOK ==
    /\ dtype \in Dtypes
    /\ readable \in BOOLEAN
    /\ gate_file \in [vectors : Gates, width : Dtypes]
    /\ meta_file \in StoredMetas
    /\ stage \in {"closed", "open", "down_meta", "index"}
    /\ gate_vectors \in Gates \cup {Missing}
    /\ gate_mmap \in Gates \cup {Missing}
    /\ warmed \in {Missing, gate_mmap}
    /\ hnsw_cache \in Gates \cup {Missing}
    /\ down_meta \in Metas \cup {Missing}
    /\ down_meta_mmap \in StoredMetas \cup {Missing}
    /\ meant \in Contents
    /\ edited \subseteq Slots
    /\ carried \subseteq Slots
    /\ before \in Contents /\ goal \in Contents
    /\ saved \in BOOLEAN
    /\ edits \in 0 .. MaxEdits
    /\ stage # "closed" =>
         /\ gate_vectors # Missing \/ gate_mmap # Missing
         /\ down_meta # Missing \/ down_meta_mmap # Missing

First == [gate |-> FirstGates, meta |-> FirstMetas]

Init ==
    /\ dtype \in Dtypes
    /\ readable = TRUE
    /\ gate_file = [vectors |-> FirstGates, width |-> dtype]
    /\ meta_file = FirstMetas
    /\ stage = "closed"
    /\ gate_vectors = Missing /\ gate_mmap = Missing /\ warmed = Missing /\ hnsw_cache = Missing
    /\ down_meta = Missing /\ down_meta_mmap = Missing
    /\ meant = First
    /\ edited = {} /\ carried = {}
    /\ before = First /\ goal = First /\ saved = TRUE
    /\ edits = 0

----------------------------------------------------------------------------
(* The readers *)

\* What the mapped file is read as.
LoadedGates ==
    IF gate_file.width = dtype THEN gate_file.vectors ELSE [f \in Slots |-> Garbled]

\* gate_vector, gate_knn_expert, save_gate_vectors, bake_down: the heap first.
GateMatrix == IF gate_vectors # Missing THEN gate_vectors ELSE gate_mmap

\* Mutant of Resolved: the mapped file before the heap.
ResolvedFromFile ==
    IF warmed # Missing THEN warmed ELSE IF gate_mmap # Missing THEN gate_mmap ELSE gate_vectors

\* resolve_gate.
Resolved == IF warmed # Missing THEN warmed ELSE GateMatrix

\* The vectors that gate_knn scores: gate_knn_mmap_fast reads a mapped f32 file
\* whatever is on the heap.
Searched ==
    IF warmed = Missing /\ gate_mmap # Missing /\ dtype = "f32" THEN gate_mmap ELSE Resolved

\* Those that gate_knn_batch and gate_scores_batch score: gate_scores_2d_fast
\* decodes a mapped f16 file too.
BatchSearched == IF gate_mmap # Missing THEN gate_mmap ELSE Resolved

\* feature_meta.
FeatureMeta(f) ==
    IF down_meta # Missing /\ down_meta[f] # Empty THEN down_meta[f]
    ELSE IF down_meta_mmap # Missing THEN down_meta_mmap[f] ELSE Empty

----------------------------------------------------------------------------

\* load_vindex.
Load ==
    /\ stage = "closed" /\ readable
    /\ stage' = "open"
    /\ gate_mmap' = LoadedGates
    /\ down_meta_mmap' = meta_file
    /\ gate_vectors' = Missing /\ warmed' = Missing /\ down_meta' = Missing
    /\ hnsw_cache' = Missing
    /\ meant' = [gate |-> LoadedGates, meta |-> meta_file]
    /\ edited' = {} /\ carried' = {}
    /\ UNCHANGED <<disk, saves, edits>>

Edit ==
    /\ stage = "open"
    /\ edits < MaxEdits
    /\ edits' = edits + 1
    /\ UNCHANGED <<disk, stage, saves>>

\* set_gate_vector, with promote_layer_to_heap.
SetGate(f, v) ==
    /\ Edit
    /\ gate_vectors' = [GateMatrix EXCEPT ![f] = v]
    /\ meant' = [meant EXCEPT !.gate[f] = v]
    /\ edited' = edited \cup {f}
    /\ UNCHANGED <<gate_mmap, warmed, hnsw_cache, down_meta, down_meta_mmap, carried>>

HeapMetas == IF down_meta # Missing THEN down_meta ELSE [f \in Slots |-> Empty]

\* set_feature_meta.
SetMeta(f, t) ==
    /\ Edit
    /\ down_meta' = [HeapMetas EXCEPT ![f] = t]
    /\ meant' = [meant EXCEPT !.meta[f] = t]
    /\ carried' = carried \cup {f}
    /\ UNCHANGED <<gate_vectors, gate_mmap, warmed, hnsw_cache, down_meta_mmap, edited>>

\* delete_feature_meta, which does nothing to a layer that has no metadata on the
\* heap.
DeleteMeta(f) ==
    /\ Edit
    /\ down_meta # Missing
    /\ down_meta' = [down_meta EXCEPT ![f] = Empty]
    /\ meant' = [meant EXCEPT !.meta[f] = Empty]
    /\ carried' = carried \cup {f}
    /\ UNCHANGED <<gate_vectors, gate_mmap, warmed, hnsw_cache, down_meta_mmap, edited>>

\* warmup: nothing to do for a mapped f32 file, or none.
Warmup ==
    /\ stage = "open"
    /\ dtype = "f16" /\ gate_mmap # Missing
    /\ warmed' = gate_mmap
    /\ UNCHANGED <<disk, stage, gate_vectors, gate_mmap, hnsw_cache, down_meta,
                   down_meta_mmap, meant, edited, carried, saves, edits>>

\* get_or_build_hnsw, at the first search of the layer if HNSW is enabled.
BuildGraph ==
    /\ stage = "open"
    /\ hnsw_cache = Missing
    /\ hnsw_cache' = Resolved
    /\ UNCHANGED <<disk, stage, gate_vectors, gate_mmap, warmed, down_meta,
                   down_meta_mmap, meant, edited, carried, saves, edits>>

\* VectorIndex::clone, as for a Vindexfile without overrides: no cache is copied.
Clone ==
    /\ stage = "open"
    /\ warmed' = Missing /\ hnsw_cache' = Missing
    /\ UNCHANGED <<disk, stage, gate_vectors, gate_mmap, down_meta, down_meta_mmap,
                   meant, edited, carried, saves, edits>>

\* bake_down of an overlay that sets the metadata of a slot (or deletes it), and
\* its gate vector (or has none of the layer's width for it).  Metadata comes from
\* the heap alone as soon as the layer has some there.
BakeDown(f, v, m) ==
    /\ Edit
    /\ gate_vectors' = IF v = Missing THEN GateMatrix ELSE [GateMatrix EXCEPT ![f] = v]
    /\ down_meta' = LET base == IF down_meta # Missing THEN down_meta
                                ELSE [g \in Slots |-> FeatureMeta(g)]
                    IN  [base EXCEPT ![f] = m]
    /\ gate_mmap' = Missing /\ warmed' = Missing /\ down_meta_mmap' = Missing
    /\ hnsw_cache' = Missing
    /\ meant' = [gate |-> IF v = Missing THEN meant.gate ELSE [meant.gate EXCEPT ![f] = v],
                 meta |-> [meant.meta EXCEPT ![f] = m]]
    /\ carried' = IF carried = {} THEN Slots ELSE carried \cup {f}
    /\ UNCHANGED edited

----------------------------------------------------------------------------
(* save_vindex: one file after the other *)

\* A record keeps the id of its token.
Stored(m) == IF m \in Facts THEN FirstToken ELSE m

\* save_down_meta: the metadata on the heap.
StoredMeta == [f \in Slots |-> Stored(HeapMetas[f])]

\* What a load shall show: the vectors, if they are to be read in the width of
\* save_gate_vectors, and the metadata on the heap.
Meant ==
    [gate |-> IF dtype = "f32" THEN meant.gate ELSE [f \in Slots |-> Garbled],
     meta |-> [f \in Slots |-> IF f \in carried THEN Stored(meant.meta[f]) ELSE Empty]]

Loaded == [gate |-> LoadedGates, meta |-> meta_file]

\* save_gate_vectors: f32 in a temporary file, and a rename.
SaveGates ==
    /\ stage = "open"
    /\ gate_file' = [vectors |-> GateMatrix, width |-> "f32"]
    /\ stage' = "down_meta"
    /\ before' = Loaded /\ goal' = Meant /\ saved' = FALSE
    /\ UNCHANGED <<dtype, readable, meta_file, memory, meant, edited, carried, edits>>

\* Mutant of SaveMeta: without metadata on the heap, the file is left as it is.
SaveMetaIfAny ==
    /\ stage = "down_meta"
    /\ meta_file' = IF down_meta = Missing THEN meta_file ELSE StoredMeta
    /\ stage' = "index"
    /\ UNCHANGED <<dtype, readable, gate_file, memory, meant, edited, carried, saves, edits>>

SaveMeta ==
    /\ stage = "down_meta"
    /\ meta_file' = StoredMeta
    /\ stage' = "index"
    /\ UNCHANGED <<dtype, readable, gate_file, memory, meant, edited, carried, saves, edits>>

Close ==
    /\ stage' = "closed"
    /\ gate_vectors' = Missing /\ gate_mmap' = Missing
    /\ warmed' = Missing /\ hnsw_cache' = Missing
    /\ down_meta' = Missing /\ down_meta_mmap' = Missing
    /\ UNCHANGED <<dtype, gate_file, meant, edited, carried, before, goal, edits>>

\* save_config, with the dtype as it was, and the end of the index.
SaveConfig ==
    /\ stage = "index"
    /\ saved' = TRUE
    /\ Close
    /\ UNCHANGED <<readable, meta_file>>

\* The program ends or dies, in the middle of a file perhaps, or a write fails.
Stop ==
    /\ stage # "closed"
    /\ Close
    /\ \/ stage = "down_meta" /\ \E n \in Slots :
            meta_file' = [f \in Slots |-> IF f < n THEN StoredMeta[f] ELSE Empty]
       \/ UNCHANGED meta_file
    /\ readable' \in {TRUE, stage # "index"}
    /\ UNCHANGED saved

Next ==
    \/ Load
    \/ \E f \in Slots :
         \/ \E v \in Vectors : SetGate(f, v)
         \/ \E t \in Tokens : SetMeta(f, t)
         \/ DeleteMeta(f)
         \/ \E v \in Vectors \cup {Missing}, m \in Tokens \cup Facts \cup {Empty} :
              BakeDown(f, v, m)
    \/ Warmup \/ BuildGraph \/ Clone
    \/ SaveGates \/ SaveMeta \/ SaveConfig \/ Stop

Spec == Init /\ [][Next]_vars

----------------------------------------------------------------------------
(* Properties *)

\* A search scores the vectors that gate_vector returns, those of the edits
\* included, but for the slots that were edited since their file was mapped: a
\* search of many residuals misses these edits, one of a single residual does if
\* the file is f32 or was warmed, and an HNSW search looks for them where the graph
\* had them when it was built.  Nothing older is ever missed, and after a bake_down
\* nothing is, until the next edit.
SearchSeesEdits ==
    stage # "closed" =>
        /\ GateMatrix = meant.gate
        /\ \A f \in Slots :
             /\ Searched[f] # GateMatrix[f] =>
                  f \in edited /\ gate_mmap # Missing /\ (dtype = "f32" \/ warmed # Missing)
             /\ BatchSearched[f] # GateMatrix[f] => f \in edited /\ gate_mmap # Missing
             /\ hnsw_cache # Missing /\ hnsw_cache[f] # GateMatrix[f] => f \in edited

\* A save that ends leaves every edit on disk: the gate vectors, if the vindex is
\* f32, and of the metadata what is on the heap, facts without an id excepted.  One
\* that stops leaves the gate vectors of before or of after it, never a mixture,
\* and of each record that of before, that of after, or none.
SaveKeepsEdits ==
    /\ LoadedGates \in {before.gate, goal.gate}
    /\ \A f \in Slots : meta_file[f] \in {before.meta[f], goal.meta[f], Empty}
    /\ saved => Loaded = goal
=============================================================================
