----------------------------- MODULE TokenDecode -----------------------------
(***************************************************************************)
(* Token by token decoding, with one of two memories of the context.  The  *)
(* residual engine (src/crates/infer-inference/src/engines/markov_residual) *)
(* keeps the residuals of all tokens, the last ones in a hot window and    *)
(* the others in a cold tier, and computes keys and values from them at    *)
(* each step; those of the cold tier are kept as long as it does not grow. *)
(* The K/V cache (attention/decode.rs, forward/kv_generate.rs) keeps keys  *)
(* and values, those of the last tokens if it has a window.                *)
(*                                                                         *)
(* All layers of a model hold rows of the same tokens, so one stands for   *)
(* all.  A row is the position of its token; keys are rotated by the       *)
(* position they are computed for, which must be the same.                 *)
(***************************************************************************)
EXTENDS Naturals, Sequences

CONSTANTS
    Windows,   \* the windows that are tried
    NoWindow,  \* none
    MaxTokens  \* bound: tokens of one generation

DecodeAssumption ==
    /\ NoWindow \notin Nat
    /\ Windows \subseteq Nat \cup {NoWindow}
    /\ MaxTokens \in Nat

VARIABLES
    engine,   \* "residual" or "cache"
    window,   \* max_window
    ready,    \* there is a store, or a cache
    stored,   \* RsStore: the hot residuals
    cold_residuals, cold_kv, \* empty for None: a tier of no rows is not made
    cold_abs_start,
    next_position,
    kv_rows,  \* KvCache: keys and values
    tokens,   \* number of tokens of the generation (history)
    attended, \* what the last token attended to, itself included (history)
    shared    \* the same in a layer that shares the cache of another (history)

store == <<stored, cold_residuals, cold_kv, cold_abs_start>>
vars == <<engine, window, ready, store, next_position, kv_rows, tokens, attended, shared>>

Rows == Seq(Nat)
KeyValues == Seq([row : Nat, at : Nat])

\* RsStore::clip_layer and KvCache::clip_layer: the last rows, and those before.
Fits(rows, w) == w = NoWindow \/ Len(rows) <= w
Clipped(rows, w) == IF Fits(rows, w) THEN rows ELSE SubSeq(rows, Len(rows) - w + 1, Len(rows))
Overflow(rows, w) == IF Fits(rows, w) THEN <<>> ELSE SubSeq(rows, 1, Len(rows) - w)

\* recompute_kv: the rows are taken for those of consecutive positions.
Recomputed(rows, start) == [i \in 1 .. Len(rows) |-> [row |-> rows[i], at |-> start + i - 1]]

\* KvCache::with_window: a window of 0 is none.
CacheWindow == IF window = 0 THEN NoWindow ELSE window

TypeOK ==
    /\ engine \in {"residual", "cache"} /\ window \in Windows
    /\ ready \in BOOLEAN
    /\ stored \in Rows /\ Fits(stored, window)
    /\ cold_residuals \in Rows /\ cold_kv \in KeyValues
    /\ cold_abs_start \in Nat /\ next_position \in Nat
    /\ kv_rows \in KeyValues /\ Fits(kv_rows, CacheWindow)
    /\ tokens \in 0 .. MaxTokens
    /\ attended \in KeyValues /\ shared \in KeyValues

NoStore ==
    /\ ready' = FALSE
    /\ stored' = <<>> /\ cold_residuals' = <<>> /\ cold_kv' = <<>> /\ cold_abs_start' = 0

Init ==
    /\ engine \in {"residual", "cache"} /\ window \in Windows
    /\ ready = FALSE
    /\ stored = <<>> /\ cold_residuals = <<>> /\ cold_kv = <<>> /\ cold_abs_start = 0
    /\ next_position = 0
    /\ kv_rows = <<>>
    /\ tokens = 0 /\ attended = <<>> /\ shared = <<>>

\* The positions from first to last - 1.
Span(first, last) == [i \in 1 .. last - first |-> first + i - 1]

\* A prompt begins a generation: nothing was decoded yet.
Begins(n) ==
    /\ n <= MaxTokens
    /\ ready' = TRUE
    /\ tokens' = n /\ next_position' = n
    /\ attended' = <<>> /\ shared' = <<>>
    /\ UNCHANGED <<engine, window>>

----------------------------------------------------------------------------
(* The residual engine *)

\* rs_prefill: the cold tier, if there is one, has its keys and values computed.
Prefill(n) ==
    /\ engine = "residual"
    /\ Begins(n)
    /\ stored' = Clipped(Span(0, n), window)
    /\ cold_residuals' = Overflow(Span(0, n), window)
    /\ cold_kv' = Recomputed(Overflow(Span(0, n), window), 0)
    /\ cold_abs_start' = 0
    /\ UNCHANGED kv_rows

HotStart == IF next_position >= Len(stored) THEN next_position - Len(stored) ELSE 0

\* The keys and values of a step of rs_decode_step.
Context ==
    IF cold_kv # <<>> THEN cold_kv \o Recomputed(stored, HotStart)
    ELSE IF cold_residuals # <<>> THEN Recomputed(cold_residuals \o stored, cold_abs_start)
    ELSE Recomputed(stored, HotStart)

New == [row |-> tokens, at |-> next_position]

\* Mutant of DecodeStep: the keys and values of the cold tier are kept when it grows.
DecodeStepKeepingKv ==
    /\ engine = "residual" /\ ready /\ tokens < MaxTokens
    /\ attended' = Append(Context, New)
    /\ LET grown == Append(stored, tokens)
       IN  /\ stored' = Clipped(grown, window)
           /\ cold_residuals' = cold_residuals \o Overflow(grown, window)
    /\ next_position' = next_position + 1 /\ tokens' = tokens + 1
    /\ UNCHANGED <<engine, window, ready, cold_kv, cold_abs_start, kv_rows, shared>>

\* rs_decode_step: what leaves the window goes to the end of the cold tier, and its
\* keys and values are no longer those of the whole tier.
DecodeStep ==
    /\ engine = "residual" /\ ready /\ tokens < MaxTokens
    /\ attended' = Append(Context, New)
    /\ LET grown == Append(stored, tokens)
       IN  /\ stored' = Clipped(grown, window)
           /\ cold_residuals' = cold_residuals \o Overflow(grown, window)
           /\ cold_kv' = IF Fits(grown, window) THEN cold_kv ELSE <<>>
    /\ next_position' = next_position + 1 /\ tokens' = tokens + 1
    /\ UNCHANGED <<engine, window, ready, cold_abs_start, kv_rows, shared>>

\* A step without a result loses the store that was taken for it.
DecodeFails ==
    /\ engine = "residual" /\ ready
    /\ NoStore
    /\ UNCHANGED <<engine, window, next_position, kv_rows, tokens, attended, shared>>

----------------------------------------------------------------------------
(* The K/V cache *)

\* The prefill of generate_cached_bounded, with a cache of its own.
CachePrefill(n) ==
    /\ engine = "cache"
    /\ Begins(n)
    /\ kv_rows' = Clipped(Recomputed(Span(0, n), 0), CacheWindow)
    /\ UNCHANGED store

\* A step of its loop: a layer attends to its cache and the new token, then the
\* cache is clipped, and a layer that shares it attends to what is left.
CacheStep ==
    /\ engine = "cache" /\ ready /\ tokens < MaxTokens
    /\ attended' = Append(kv_rows, New)
    /\ kv_rows' = Clipped(attended', CacheWindow)
    /\ shared' = kv_rows'
    /\ next_position' = next_position + 1 /\ tokens' = tokens + 1
    /\ UNCHANGED <<engine, window, ready, store>>

\* The generation ends at a stop token, the length asked for, or a failing layer.
CacheEnds ==
    /\ engine = "cache" /\ ready
    /\ ready' = FALSE
    /\ UNCHANGED <<engine, window, store, next_position, kv_rows, tokens, attended, shared>>

Next ==
    \/ \E n \in 1 .. MaxTokens : Prefill(n) \/ CachePrefill(n)
    \/ DecodeStep \/ DecodeFails \/ CacheStep \/ CacheEnds

Spec == Init /\ [][Next]_vars

----------------------------------------------------------------------------

\* The last n tokens, or all, each with the keys of its own position.
LastTokens(n) ==
    LET first == IF n < tokens THEN tokens - n ELSE 0
    IN  [i \in 1 .. tokens - first |-> [row |-> first + i - 1, at |-> first + i - 1]]

\* A token that the residual engine decodes attends to every token before it, once
\* and in order, each at its own position, whatever its window and however often
\* the window overflowed; with the cache it attends to those in the window, and in
\* a layer that shares a cache, itself included, to as many as the window holds
\* (rs_decode_step, recompute_kv, generate_cached_bounded, KvCache::clip_layer).
SeesContext ==
    attended # <<>> =>
        IF engine = "residual" THEN attended = LastTokens(tokens)
        ELSE /\ attended = LastTokens(IF CacheWindow = NoWindow THEN tokens ELSE CacheWindow + 1)
             /\ shared = LastTokens(IF CacheWindow = NoWindow THEN tokens ELSE CacheWindow)
=============================================================================
