------------------------------ MODULE TraceFiles ------------------------------
(***************************************************************************)
(* The append-only stores of residuals in                                  *)
(* src/crates/infer-inference/src/trace: store.rs finds chain i behind the *)
(* i - 1 chains before it, boundary.rs and context.rs through an index.    *)
(* An append writes its data at the end of the file, its index entry, and  *)
(* the count in the header, and an error or the death of the process may   *)
(* come between any two writes.                                            *)
(*                                                                         *)
(* The data of one append are Pieces pieces: the places where an append    *)
(* may stop.  The header and the index are written in place, at the full   *)
(* size from the beginning, and these writes are taken not to fail.        *)
(***************************************************************************)
EXTENDS Naturals, Sequences

CONSTANTS
    Pieces,      \* the pieces of the data of one append
    MaxEntries,  \* max_boundaries of create
    OffsetLimit, \* offsets of BoundaryEntry are taken modulo this: 2^32 in the code
    MaxAppends   \* bound: appends

TraceAssumption ==
    /\ Pieces \in Nat \ {0} /\ OffsetLimit \in Nat \ {0}
    /\ MaxEntries \in Nat /\ MaxAppends \in Nat

VARIABLES
    layout,  \* "trace", "boundary" or "context"
    data,    \* the pieces behind the header and the index: the append, and its piece
    entries, \* the offsets in the index, one for each append that came so far
    count,   \* in the header of the file
    writer,  \* "none", "open", or what an append writes next: "data", "entry", "header"
    held,    \* the count in the header of the writer
    start,   \* data_pos of the append
    appends, \* number of appends; the last is the one under way (history)
    cut,     \* the file holds data of an append that was not counted (history)
    kept     \* the appends that were counted: which, where their data begin, and
             \* whether an append was cut before (history)

vars == <<layout, data, entries, count, writer, held, start, appends, cut, kept>>

Indexed == layout \in {"boundary", "context"}

Kept == [id : 1 .. MaxAppends, at : Nat, whole : BOOLEAN]

TypeOK ==
    /\ layout \in {"trace", "boundary", "context"}
    /\ data \in Seq((1 .. MaxAppends) \X (1 .. Pieces))
    /\ entries \in Seq(Nat) /\ Len(entries) <= MaxEntries
    /\ count \in 0 .. MaxAppends /\ held \in 0 .. MaxAppends
    /\ writer \in {"none", "open", "data", "entry", "header"}
    /\ start \in 0 .. Len(data)
    /\ writer = "data" => Len(data) < start + Pieces
    /\ appends \in 0 .. MaxAppends
    /\ cut \in BOOLEAN
    /\ kept \in Seq(Kept) /\ Len(kept) = count

Emptied ==
    /\ data' = <<>> /\ entries' = <<>> /\ count' = 0 /\ held' = 0 /\ start' = 0
    /\ kept' = <<>> /\ cut' = FALSE

Init ==
    /\ layout \in {"trace", "boundary", "context"}
    /\ data = <<>> /\ entries = <<>> /\ count = 0 /\ held = 0 /\ start = 0
    /\ writer = "none"
    /\ appends = 0 /\ kept = <<>> /\ cut = FALSE

----------------------------------------------------------------------------

\* create of the three writers: what was in the file is cut off.
Create ==
    /\ writer = "none"
    /\ writer' = "open"
    /\ Emptied
    /\ UNCHANGED <<layout, appends>>

\* TraceWriter::open; the other writers cannot go on with a file.
Open ==
    /\ writer = "none" /\ layout = "trace"
    /\ writer' = "open"
    /\ held' = count
    /\ UNCHANGED <<layout, data, entries, count, start, appends, cut, kept>>

\* append_chain or append; an index that is full is an error.
Begin ==
    /\ writer = "open" /\ appends < MaxAppends
    /\ Indexed => held < MaxEntries
    /\ writer' = "data"
    /\ start' = Len(data)
    /\ appends' = appends + 1
    /\ UNCHANGED <<layout, data, entries, count, held, cut, kept>>

\* A piece of the data.
Write ==
    /\ writer = "data"
    /\ data' = Append(data, <<appends, Len(data) - start + 1>>)
    /\ writer' = IF Len(data') < start + Pieces THEN "data"
                 ELSE IF Indexed THEN "entry" ELSE "header"
    /\ UNCHANGED <<layout, entries, count, held, start, appends, cut, kept>>

\* The append ends with an error: a vector of a wrong size, which store.rs and
\* context.rs find between two writes, or a write that fails.
Fail ==
    /\ writer = "data"
    /\ writer' = "open"
    /\ cut' = (cut \/ Len(data) > start)
    /\ UNCHANGED <<layout, data, entries, count, held, start, appends, kept>>

\* Mutant of WriteEntry: the offset of the n-th entry is computed, not taken.
WriteNthEntry ==
    /\ writer = "entry"
    /\ entries' = Append(SubSeq(entries, 1, held), held * Pieces)
    /\ writer' = "header"
    /\ UNCHANGED <<layout, data, count, held, start, appends, cut, kept>>

\* The entry; a boundary's offset has 32 bits.
WriteEntry ==
    /\ writer = "entry"
    /\ entries' = Append(SubSeq(entries, 1, held),
                         IF layout = "boundary" THEN start % OffsetLimit ELSE start)
    /\ writer' = "header"
    /\ UNCHANGED <<layout, data, count, held, start, appends, cut, kept>>

\* The header, from the writer's own.
WriteHeader ==
    /\ writer = "header"
    /\ held' = held + 1 /\ count' = held + 1
    /\ writer' = "open"
    /\ kept' = Append(kept, [id |-> appends, at |-> start, whole |-> ~cut])
    /\ UNCHANGED <<layout, data, entries, start, appends, cut>>

\* finish, or the death of the process.
Close ==
    /\ writer # "none"
    /\ writer' = "none"
    /\ cut' = (cut \/ (writer # "open" /\ Len(data) > start))
    /\ UNCHANGED <<layout, data, entries, count, held, start, appends, kept>>

Next == Create \/ Open \/ Begin \/ Write \/ Fail \/ WriteEntry \/ WriteHeader \/ Close

Spec == Init /\ [][Next]_vars

----------------------------------------------------------------------------

\* What is read for the i-th of a file that is opened now: read_vector, and
\* residual, ffn_delta and attn_delta of the indexed stores.
Offset(i) == IF Indexed THEN entries[i] ELSE (i - 1) * Pieces
ReadBack(i) == SubSeq(data, Offset(i) + 1, Offset(i) + Pieces)

\* What was appended as the i-th.
Appended(i) == [k \in 1 .. Pieces |-> <<kept[i].id, k>>]

\* Whatever appends failed and wherever the process died, each that the header
\* counts is read back as it was appended: from an indexed store always, but for a
\* boundary whose offset does not fit; from a store without an index as long as no
\* append before it was cut, and none after one was.
ReadsAppended ==
    \A i \in 1 .. count :
        ReadBack(i) = Appended(i) <=>
            CASE layout = "context" -> TRUE
              [] layout = "boundary" -> kept[i].at < OffsetLimit
              [] layout = "trace" -> kept[i].whole
=============================================================================
