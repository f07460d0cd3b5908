------------------------------ MODULE GateCache ------------------------------
(***************************************************************************)
(* The cache of decoded f16 gate layers of one vindex                      *)
(* (src/crates/infer-vindex/src/index/gate.rs): a slot per layer behind a  *)
(* mutex, an LRU queue, and a cap on the live slots.  The cap is an        *)
(* atomic: it is set while other threads (the workers of a parallel        *)
(* similarity search, for instance) resolve layers.  A thread that         *)
(* resolves holds the mutex from the lookup of the slot to the use of its  *)
(* data, so one thread at most is between these two.                       *)
(***************************************************************************)
EXTENDS Integers, Sequences, SequencesExt, FiniteSets, Lists

CONSTANTS
    Layers,
    Setters,      \* threads that set the cap
    Caps,         \* the caps that they set; 0 is unlimited
    InitialCaps,  \* the caps that a vindex may have from the start
    NoLayer       \* the mutex is free

ASSUME GateAssumption ==
    /\ Caps \subseteq Nat /\ InitialCaps \subseteq Nat
    /\ NoLayer \notin Layers

VARIABLES
    cache,    \* the layers whose slot in f16_decode_cache is filled
    lru,      \* gate_cache_lru, newest first
    max,      \* gate_cache_max_layers
    resolved, \* the layer that the holder of the mutex resolves
    miss,     \* its slot was empty
    loaded,   \* the cap that the holder has read, -1 before it reads it
    shrink,   \* per setter: the cap it has stored and must still enforce, or 0
    recent,   \* history: the layers by their last use, newest first
    uncapped  \* history: a layer was resolved while the cap was 0

vars == <<cache, lru, max, resolved, miss, loaded, shrink, recent, uncapped>>

AllCaps == Caps \cup InitialCaps

TypeOK ==
    /\ cache \in SUBSET Layers
    /\ lru \in Seq(Layers)
    /\ max \in AllCaps
    /\ resolved \in Layers \cup {NoLayer}
    /\ miss \in BOOLEAN
    /\ loaded \in AllCaps \cup {-1}
    /\ shrink \in [Setters -> Caps \cup {0}]
    /\ recent \in Seq(Layers)
    /\ uncapped \in BOOLEAN
    /\ resolved = NoLayer => loaded = -1

Init ==
    /\ cache = {}
    /\ lru = <<>>
    /\ max \in InitialCaps
    /\ resolved = NoLayer
    /\ miss = FALSE
    /\ loaded = -1
    /\ shrink = [s \in Setters |-> 0]
    /\ recent = <<>>
    /\ uncapped = FALSE

----------------------------------------------------------------------------
(* resolve_gate and gate_scores_2d_fast, the f16 path *)

\* Lock, look the slot up, decode the layer into it on a miss.
Lookup(l) ==
    /\ resolved = NoLayer
    /\ resolved' = l
    /\ miss' = (l \notin cache)
    /\ cache' = cache \cup {l}
    /\ recent' = <<l>> \o Without(recent, l)
    /\ UNCHANGED <<lru, max, loaded, shrink, uncapped>>

\* The atomic load of touch_gate_cache_lru.
LoadCap ==
    /\ resolved # NoLayer /\ loaded = -1
    /\ loaded' = max
    /\ UNCHANGED <<cache, lru, max, resolved, miss, shrink, recent, uncapped>>

Unlock ==
    /\ resolved' = NoLayer
    /\ loaded' = -1
    /\ UNCHANGED <<max, miss, shrink, recent>>

\* Without a cap the queue is left alone.
UseUncapped ==
    /\ loaded = 0
    /\ uncapped' = TRUE
    /\ UNCHANGED <<cache, lru>>
    /\ Unlock

\* What pop_back takes from a queue until its length is within the cap.
Oldest(queue, cap) == {queue[i] : i \in (cap + 1) .. Len(queue)}

Kept(queue, cap) == IF Len(queue) > cap THEN SubSeq(queue, 1, cap) ELSE queue

\* Mutant of Renewed: a layer that is in the queue stays where it is.
RenewedOnMiss == IF Contains(lru, resolved) THEN lru ELSE <<resolved>> \o lru

\* The layer becomes the newest of the queue.
Renewed == <<resolved>> \o Without(lru, resolved)

\* The rest of touch_gate_cache_lru (a hit evicts nothing), the use of the
\* layer's data, and the unlock.
UseCapped ==
    /\ loaded > 0
    /\ \/ /\ miss
          /\ lru' = Kept(Renewed, loaded)
          /\ cache' = cache \ (Oldest(Renewed, loaded) \ {resolved})
       \/ /\ ~miss
          /\ lru' = Renewed
          /\ UNCHANGED cache
    /\ UNCHANGED uncapped
    /\ Unlock

----------------------------------------------------------------------------
(* set_gate_cache_max_layers *)

\* Mutant of StoreCap: a lower cap is left to the next insertion.
StoreCapOnly(s, cap) ==
    /\ shrink[s] = 0
    /\ max' = cap
    /\ UNCHANGED <<cache, lru, resolved, miss, loaded, shrink, recent, uncapped>>

StoreCap(s, cap) ==
    /\ shrink[s] = 0
    /\ max' = cap
    /\ shrink' = [shrink EXCEPT ![s] = cap]
    /\ UNCHANGED <<cache, lru, resolved, miss, loaded, recent, uncapped>>

\* Under both mutexes.
Shrink(s) ==
    /\ shrink[s] > 0
    /\ resolved = NoLayer
    /\ lru' = Kept(lru, shrink[s])
    /\ cache' = cache \ Oldest(lru, shrink[s])
    /\ shrink' = [shrink EXCEPT ![s] = 0]
    /\ UNCHANGED <<max, resolved, miss, loaded, recent, uncapped>>

----------------------------------------------------------------------------

Next ==
    \/ \E l \in Layers : Lookup(l)
    \/ LoadCap \/ UseUncapped \/ UseCapped
    \/ \E s \in Setters : Shrink(s) \/ \E cap \in Caps : StoreCap(s, cap)

Spec == Init /\ [][Next]_vars

----------------------------------------------------------------------------
(* Properties *)

\* The queue names each layer once, and only layers whose slot is filled: else
\* an eviction frees nothing and the cap is exceeded.
TrackedAreLive ==
    /\ ToSet(lru) \subseteq cache
    /\ \A i, j \in 1 .. Len(lru) : lru[i] = lru[j] => i = j

\* The layer just resolved survives its own touch, whatever the cap has become
\* meanwhile: its slot is unwrapped after it.
ResolvedIsLive == [][resolved' # resolved => resolved \in cache' \cup {NoLayer}]_vars

\* No thread is within a call that enforces a cap.
Quiet == resolved = NoLayer /\ \A s \in Setters : shrink[s] = 0

\* If no layer was ever resolved without a cap, the live layers are within the
\* cap whenever no call is running, however the calls that changed the cap and
\* those that resolved layers overlapped.
CapHolds == Quiet /\ ~uncapped => max = 0 \/ Cardinality(cache) <= max

\* Then too, the queue is the order of the last uses of the live layers, so that
\* an eviction takes the least recently used.
QueueIsRecency ==
    resolved = NoLayer /\ ~uncapped =>
        lru = Retained(recent, Layers \ cache)

\* What the field's comment says, of all live layers: the cap bounds them.
LiveWithinCap == Quiet => max = 0 \/ Cardinality(cache) <= max
=============================================================================
