---------------------------- MODULE PatchOverlay ----------------------------
(***************************************************************************)
(* PatchedVindex (src/crates/infer-vindex/src/patch/overlay.rs,            *)
(* overlay_apply.rs): patches and direct edits over one layer of a base    *)
(* index, resolved into override maps, beside the retrieval-override store *)
(* (KnnStore), and the build of a Vindexfile (vindexfile/mod.rs), which    *)
(* inserts facts into free slots.  Every edit needs the overlay for itself *)
(* (&mut self); a patch is applied one operation at a time.                *)
(*                                                                         *)
(* The features of a patch are those of the base.  A gate vector is known  *)
(* by its score for one residual; scores are absolute values.              *)
(***************************************************************************)
EXTENDS Integers, Sequences, SequencesExt, FiniteSets, Lists

CONSTANTS
    Slots,      \* the features of the layer
    Tokens, None, Absent,
    Gates,      \* gate vectors, the empty one of a Vindexfile INSERT among them
    EmptyGate,
    GateScore,  \* the score of each
    BaseMeta, BaseScore, CScore,  \* per slot of the base: token, score, c_score
    PatchFiles, \* the patches that are applied
    K,          \* top_k of a gate search
    MaxOps      \* bound: operations since the overlay was empty

\* Those of KnnStore.
CONSTANTS Layers, Readers, Entities, Relations, Facts, Widths, Hidden, TopK

SlotOp ==
    [kind : {"insert"}, slot : Slots, meta : Tokens, gate : Gates \cup {Absent}]
    \cup [kind : {"update"}, slot : Slots, meta : Tokens \cup {Absent}, gate : Gates \cup {Absent}]
    \cup [kind : {"delete"}, slot : Slots, meta : {None}, gate : {Absent}]

ASSUME OverlayAssumption ==
    /\ Slots \subseteq Nat /\ Slots # {} /\ IsFiniteSet(Slots)
    /\ Absent \notin Tokens \cup Gates \cup {None} /\ None \notin Tokens
    /\ EmptyGate \in Gates /\ GateScore \in [Gates -> Nat]
    /\ BaseMeta \in [Slots -> Tokens \cup {None}]
    /\ BaseScore \in [Slots -> Nat] /\ CScore \in [Slots -> Nat]
    /\ K \in Nat \ {0}

VARIABLES
    meta,    \* overrides_meta: a token, None, or Absent
    gate,    \* overrides_gate: a gate vector or Absent
    deleted, \* the tombstones
    patches, \* the patches applied, in order
    todo,    \* the patches that apply_patch or rebuild_overrides still applies
    done,    \* how many operations of the first of them are applied
    log,     \* history: the operations since the overlay was last empty
    direct,  \* history: one of them came from no patch
    facts    \* history: the slot and token of each fact inserted and not touched since

\* Those of KnnStore.
VARIABLES entries, key_matrices, dirty, poisoned, query, answer, spoiled

Knn == INSTANCE KnnStore

overlayVars == <<meta, gate, deleted>>
knnVars == <<entries, key_matrices, dirty, poisoned, query, answer, spoiled>>
historyVars == <<log, direct, facts>>
vars == <<overlayVars, patches, todo, done, historyVars, knnVars>>

KnnOp ==
    [kind : {"insertknn"}, layer : Layers, entry : Knn!Entry]
    \cup [kind : {"deleteknn"}, entity : Entities]

Op == SlotOp \cup KnnOp

ASSUME PatchAssumption == PatchFiles \subseteq Seq(Op) /\ Knn!KnnAssumption

TypeOK ==
    /\ meta \in [Slots -> Tokens \cup {None, Absent}]
    /\ gate \in [Slots -> Gates \cup {Absent}]
    /\ deleted \subseteq Slots
    /\ patches \in Seq(PatchFiles)
    /\ todo \in Seq(PatchFiles)
    /\ done \in Nat
    /\ done <= IF todo = <<>> THEN 0 ELSE Len(todo[1])
    /\ log \in Seq(Op)
    /\ direct \in BOOLEAN
    /\ facts \subseteq Slots \X Tokens

Init ==
    /\ meta = [f \in Slots |-> Absent]
    /\ gate = [f \in Slots |-> Absent]
    /\ deleted = {}
    /\ patches = <<>> /\ todo = <<>> /\ done = 0
    /\ log = <<>> /\ direct = FALSE /\ facts = {}
    /\ Knn!Init

----------------------------------------------------------------------------
(* One operation on one slot *)

Overridden(o) == IF o.gate = Absent THEN gate ELSE [gate EXCEPT ![o.slot] = o.gate]

\* Mutant of Insert: the tombstone stays.
InsertOnTombstone(o) ==
    /\ o.kind = "insert"
    /\ meta' = [meta EXCEPT ![o.slot] = o.meta]
    /\ gate' = Overridden(o)
    /\ UNCHANGED deleted

\* Without a gate vector an older override of the slot stays.
Insert(o) ==
    /\ o.kind = "insert"
    /\ meta' = [meta EXCEPT ![o.slot] = o.meta]
    /\ gate' = Overridden(o)
    /\ deleted' = deleted \ {o.slot}

\* An update does not revive a deleted slot.
Update(o) ==
    /\ o.kind = "update"
    /\ meta' = IF o.meta = Absent THEN meta ELSE [meta EXCEPT ![o.slot] = o.meta]
    /\ gate' = Overridden(o)
    /\ UNCHANGED deleted

Delete(o) ==
    /\ o.kind = "delete"
    /\ meta' = [meta EXCEPT ![o.slot] = None]
    /\ gate' = [gate EXCEPT ![o.slot] = Absent]
    /\ deleted' = deleted \cup {o.slot}

\* The facts that an operation leaves alone.
Untouched(o) == IF o.meta = Absent THEN facts ELSE {x \in facts : x[1] # o.slot}

OnSlot(o) ==
    /\ Insert(o) \/ Update(o) \/ Delete(o)
    /\ facts' = Untouched(o)
    /\ UNCHANGED knnVars

OnKnn(o) ==
    /\ \/ o.kind = "insertknn" /\ Knn!add(o.layer, o.entry)
       \/ o.kind = "deleteknn" /\ Knn!remove_by(Knn!Matching(o.entity, Relations))
    /\ UNCHANGED <<overlayVars, facts>>

----------------------------------------------------------------------------
(* apply_patch, remove_patch, rebuild_overrides *)

\* Nothing borrows the overlay: no patch is being applied, no query runs.
Idle == todo = <<>> /\ Knn!Owned

\* The bound MaxOps is on the whole patch.
StartPatch(p) ==
    /\ Idle
    /\ Len(log) + Len(p) <= MaxOps /\ Len(patches) < MaxOps
    /\ todo' = <<p>>
    /\ UNCHANGED <<overlayVars, patches, done, historyVars, knnVars>>

ApplyOp ==
    /\ todo # <<>> /\ done < Len(Head(todo))
    /\ LET o == Head(todo)[done + 1] IN
         /\ OnSlot(o) \/ OnKnn(o)
         /\ log' = Append(log, o)
    /\ done' = done + 1
    /\ UNCHANGED <<patches, todo, direct>>

PushPatch ==
    /\ todo # <<>> /\ done = Len(Head(todo))
    /\ patches' = Append(patches, Head(todo))
    /\ todo' = Tail(todo)
    /\ done' = 0
    /\ UNCHANGED <<overlayVars, historyVars, knnVars>>

\* Mutant of ClearOverrides: the tombstones stay.
ClearButTombstones ==
    /\ meta' = [f \in Slots |-> Absent]
    /\ gate' = [f \in Slots |-> Absent]
    /\ UNCHANGED deleted

ClearOverrides ==
    /\ meta' = [f \in Slots |-> Absent]
    /\ gate' = [f \in Slots |-> Absent]
    /\ deleted' = {}

\* What was edited directly is lost; the patches that remain are applied again.
RemovePatch(i) ==
    /\ Idle
    /\ i \in 1 .. Len(patches)
    /\ todo' = RemoveAt(patches, i)
    /\ patches' = <<>>
    /\ ClearOverrides
    /\ Knn!Replace
    /\ log' = <<>> /\ direct' = FALSE /\ facts' = {}
    /\ UNCHANGED done

----------------------------------------------------------------------------
(* Direct edits *)

Directly(o) ==
    /\ Idle
    /\ Len(log) < MaxOps
    /\ log' = Append(log, o)
    /\ direct' = TRUE
    /\ UNCHANGED <<patches, todo, done>>

InsertOp(f, g, t) == [kind |-> "insert", slot |-> f, meta |-> t, gate |-> g]
UpdateOp(f, g, t) == [kind |-> "update", slot |-> f, meta |-> t, gate |-> g]
DeleteOp(f) == [kind |-> "delete", slot |-> f, meta |-> None, gate |-> Absent]

insert_feature(f, g, t) ==
    LET o == InsertOp(f, g, t) IN Directly(o) /\ OnSlot(o)

\* A DELETE of a Vindexfile is this for every slot whose base token matches.
delete_feature(f) ==
    LET o == DeleteOp(f) IN Directly(o) /\ OnSlot(o)

update_feature_meta(f, t) ==
    LET o == UpdateOp(f, Absent, t) IN Directly(o) /\ OnSlot(o)

\* Only where there is an override already.
set_gate_override(f, g) ==
    /\ gate[f] # Absent
    /\ LET o == UpdateOp(f, g, Absent) IN Directly(o) /\ OnSlot(o)

\* What the overlay's owner does with the store between two edits.
RenewKnn ==
    /\ Idle
    /\ Knn!Renew
    /\ UNCHANGED <<overlayVars, patches, todo, done, historyVars>>

Claimed(f) == gate[f] # Absent

\* The weakest fact, the first of equals.
NotStronger(f, g) == CScore[f] < CScore[g] \/ (CScore[f] = CScore[g] /\ f <= g)

\* Mutant of FreeSlots: the base's own find_free_feature, blind to the overlay.
FreeSlotsOfBase ==
    LET empty == {f \in Slots : BaseMeta[f] = None} IN
    IF empty # {} THEN {f \in empty : \A g \in empty : f <= g}
    ELSE {f \in Slots : \A g \in Slots : NotStronger(f, g)}

\* find_free_feature: the first slot that is empty in the base and not claimed,
\* else the unclaimed slot of the weakest fact; no element if all are claimed.
\* A slot with overridden metadata and no gate override
\* counts as unclaimed.
FreeSlots ==
    LET open == {f \in Slots : ~Claimed(f)}
        empty == {f \in open : BaseMeta[f] = None}
    IN  IF empty # {} THEN {f \in empty : \A g \in empty : f <= g}
        ELSE {f \in open : \A g \in open : NotStronger(f, g)}

\* INSERT of a Vindexfile: find_free_feature, or else slot 0, and no gate vector.
InsertFact(t) ==
    \E f \in Slots :
        /\ f \in FreeSlots \/ (FreeSlots = {} /\ \A g \in Slots : f <= g)
        /\ LET o == InsertOp(f, EmptyGate, t) IN
             /\ Directly(o)
             /\ Insert(o)
        /\ facts' = {<<f, t>>} \cup
                    IF \A g \in Slots : Claimed(g) THEN {x \in facts : x[1] # f} ELSE facts
        /\ UNCHANGED knnVars

----------------------------------------------------------------------------

\* Queries share the overlay: no edit is under way.
Reader(r) ==
    /\ todo = <<>>
    /\ Knn!Reader(r)
    /\ UNCHANGED <<overlayVars, patches, todo, done, historyVars>>

DirectEdit ==
    \/ \E f \in Slots, g \in Gates \ {EmptyGate}, t \in Tokens : insert_feature(f, g, t)
    \/ \E f \in Slots : delete_feature(f)
    \/ \E f \in Slots, t \in Tokens : update_feature_meta(f, t)
    \/ \E f \in Slots, g \in Gates \ {EmptyGate} : set_gate_override(f, g)
    \/ \E t \in Tokens : InsertFact(t)
    \/ RenewKnn

Next ==
    \/ \E p \in PatchFiles : StartPatch(p)
    \/ ApplyOp \/ PushPatch
    \/ \E i \in 1 .. MaxOps : RemovePatch(i)
    \/ DirectEdit
    \/ \E r \in Readers : Reader(r)

Spec == Init /\ [][Next]_vars

----------------------------------------------------------------------------
(* The readers: feature_meta, gate_knn, bake_down *)

FeatureMeta(f) ==
    IF meta[f] # Absent THEN meta[f] ELSE IF f \in deleted THEN None ELSE BaseMeta[f]

\* The tombstones are applied after the overrides.
BakedMeta(f) ==
    IF f \in deleted THEN None ELSE IF meta[f] # Absent THEN meta[f] ELSE BaseMeta[f]

\* The results of a search for k among the slots of a set: the k best.
Best(S, k, score) ==
    {R \in SUBSET S :
        /\ Cardinality(R) = IF Cardinality(S) < k THEN Cardinality(S) ELSE k
        /\ \A a \in R, b \in S \ R : score[a] >= score[b]}

\* Mutant of BaseHits: no more than k are asked of the base.
BaseHitsOnly == Best(Slots, K, BaseScore)

\* What the base may answer: it is asked for twice as many.
BaseHits == Best(Slots, 2 * K, BaseScore)

Score == [f \in Slots |-> IF Claimed(f) THEN GateScore[gate[f]] ELSE BaseScore[f]]

\* The hits of the base with the overridden slots and without the deleted ones.
Merged(hits) == (hits \cup {f \in Slots : Claimed(f)}) \ deleted

\* The possible results of gate_knn.
Found == UNION {Best(Merged(hits), K, Score) : hits \in BaseHits}

----------------------------------------------------------------------------
(* Properties *)

\* The last operation of the log for which P holds.
LastWhere(P(_)) ==
    {i \in 1 .. Len(log) : P(log[i]) /\ \A j \in i + 1 .. Len(log) : ~P(log[j])}

On(o, f) == o.kind \in {"insert", "update", "delete"} /\ o.slot = f

SetsMeta(o, f) == On(o, f) /\ o.meta # Absent
SetsGate(o, f) == On(o, f) /\ (o.gate # Absent \/ o.kind = "delete")
SetsLife(o, f) == On(o, f) /\ o.kind # "update"

\* In every slot, metadata, gate vector and tombstone are those of the last
\* operation that decides them, each of the three on its own.
LastOpDecides ==
    \A f \in Slots :
        LET metas == LastWhere(LAMBDA o : SetsMeta(o, f))
            gates == LastWhere(LAMBDA o : SetsGate(o, f))
            lives == LastWhere(LAMBDA o : SetsLife(o, f))
        IN  /\ meta[f] = IF metas = {} THEN Absent ELSE log[CHOOSE i \in metas : TRUE].meta
            /\ gate[f] = IF gates = {} THEN Absent ELSE log[CHOOSE i \in gates : TRUE].gate
            /\ f \in deleted <=> \E i \in lives : log[i].kind = "delete"

\* The entries of a layer of the store are those of the log that no later
\* operation has removed, in their order.
Surviving(l) ==
    {i \in 1 .. Len(log) :
        /\ log[i].kind = "insertknn" /\ log[i].layer = l
        /\ \A j \in i + 1 .. Len(log) :
             log[j].kind = "deleteknn" =>
                 log[i].entry \notin Knn!Matching(log[j].entity, Relations)}

EntriesOfLog ==
    \A l \in Layers :
        entries[l] = [n \in 1 .. Cardinality(Surviving(l)) |-> log[Nth(Surviving(l), n - 1)].entry]

\* Whatever was applied, removed and applied again, the overlay and the store
\* are what the operations of the patches in the list yield in their order, if
\* no direct edit was made since the last removal; with direct edits, these in
\* their place.
Replay ==
    todo = <<>> =>
        /\ LastOpDecides /\ EntriesOfLog
        /\ ~direct => log = FlattenSeq(patches)

\* The slot was given new metadata after it was deleted, by an update.
UpdatedAfterDelete(f) ==
    \E i \in LastWhere(LAMBDA o : SetsLife(o, f)) :
        /\ log[i].kind = "delete"
        /\ \E j \in i + 1 .. Len(log) : SetsMeta(log[j], f)

\* What bake_down writes for a slot is what the overlay showed for it, but for
\* the slots that were updated after they were deleted: these are baked empty.
BakeAgrees ==
    \A f \in Slots : BakedMeta(f) = IF UpdatedAfterDelete(f) THEN None ELSE FeatureMeta(f)

\* While at most K slots are deleted or have their gate overridden, a search
\* finds exactly the best K of the slots that are not deleted, overridden scores
\* included: asking the base for 2 K is enough.
SearchExact ==
    Cardinality(deleted \cup {f \in Slots : Claimed(f)}) <= K =>
        Found \subseteq Best(Slots \ deleted, K, Score)

\* The fact of an INSERT is what its slot shows until an operation names that
\* slot or an INSERT finds every slot claimed: the INSERTs of one Vindexfile do
\* not take each other's slots.
FactsKept == \A x \in facts : FeatureMeta(x[1]) = x[2]

StoreAnswers == Knn!AnswersFromEntries
=============================================================================
