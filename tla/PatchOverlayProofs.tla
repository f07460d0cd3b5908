------------------------- MODULE PatchOverlayProofs -------------------------
(***************************************************************************)
(* Proofs about PatchOverlay, for any layer, patches, base and K: the      *)
(* overlay is what its operations decide one by one, an INSERT keeps its   *)
(* slot, the baked index agrees with the readers, and a search that asks   *)
(* the base for 2 K is exact.  And about KnnStore, for any layers, readers *)
(* and widths: the store beside the overlay.  Last, the overlay and the    *)
(* store are the operations replayed in their order.                       *)
(***************************************************************************)
EXTENDS PatchOverlay, DataLemmas, FiniteSetTheorems, TLAPS

----------------------------------------------------------------------------
(* Searches *)

\* The k best of H and C without D are those of the whole set without D, if H are
\* 2 k best by a score that only the elements of C do not have, and C and D have
\* no more than k elements.
LEMMA TwiceIsEnough ==
    ASSUME NEW S, IsFiniteSet(S), NEW base \in [S -> Nat], NEW score \in [S -> Nat],
           NEW k \in Nat, NEW C \in SUBSET S, NEW D \in SUBSET S,
           Cardinality(D \cup C) <= k,
           \A x \in S \ C : score[x] = base[x],
           NEW H \in Best(S, 2 * k, base), NEW R \in Best((H \cup C) \ D, k, score)
    PROVE  R \in Best(S \ D, k, score)
<1> DEFINE M == (H \cup C) \ D
           G == H \ (D \cup C)
<1>1. /\ H \in SUBSET S /\ Cardinality(H) = IF Cardinality(S) < 2 * k THEN Cardinality(S) ELSE 2 * k
      /\ \A a \in H, b \in S \ H : base[a] >= base[b]
  BY DEF Best
<1>2. /\ R \in SUBSET M /\ Cardinality(R) = IF Cardinality(M) < k THEN Cardinality(M) ELSE k
      /\ \A a \in R, b \in M \ R : score[a] >= score[b]
  BY DEF Best
<1>3. M \in SUBSET (S \ D) /\ G \in SUBSET M /\ G \in SUBSET H
  BY <1>1
<1>4. /\ IsFiniteSet(S \ D) /\ IsFiniteSet(H) /\ IsFiniteSet(M) /\ IsFiniteSet(R) /\ IsFiniteSet(G)
      /\ IsFiniteSet(D \cup C)
  <2>1. IsFiniteSet(S \ D) /\ IsFiniteSet(H) /\ IsFiniteSet(D \cup C)
    BY <1>1, FS_Subset, FS_Difference
  <2>2. IsFiniteSet(M) /\ IsFiniteSet(G)
    BY <1>3, <2>1, FS_Subset
  <2>3. QED
    BY <1>2, <2>1, <2>2, FS_Subset
<1>5. /\ Cardinality(S) \in Nat /\ Cardinality(S \ D) \in Nat /\ Cardinality(H) \in Nat
      /\ Cardinality(M) \in Nat /\ Cardinality(R) \in Nat /\ Cardinality(G) \in Nat
      /\ Cardinality(D \cup C) \in Nat
  BY <1>4, FS_CardinalityType
<1>6. CASE Cardinality(S) < 2 * k
  <2>1. H = S
    BY <1>1, <1>6, FS_Subset
  <2>2. M = S \ D
    BY <2>1
  <2>3. QED
    BY <2>2
<1>7. CASE ~(Cardinality(S) < 2 * k)
  <2>1. Cardinality(H) = 2 * k
    BY <1>1, <1>7
  <2>2. Cardinality(G) >= k
    <3>1. Cardinality(G) = Cardinality(H) - Cardinality(H \cap (D \cup C))
      BY <1>4, FS_Difference
    <3>2. Cardinality(H \cap (D \cup C)) <= Cardinality(D \cup C)
          /\ Cardinality(H \cap (D \cup C)) \in Nat
      BY <1>4, FS_Intersection, FS_CardinalityType
    <3>3. QED
      BY <1>5, <2>1, <3>1, <3>2
  <2>3. Cardinality(G) <= Cardinality(M) /\ Cardinality(M) <= Cardinality(S \ D)
    BY <1>3, <1>4, FS_Subset
  <2>4. Cardinality(R) = k /\ ~(Cardinality(S \ D) < k)
    BY <1>2, <1>5, <2>2, <2>3
  <2>5. ASSUME NEW a \in R, NEW b \in (S \ D) \ R PROVE score[a] >= score[b]
    <3>1. CASE b \in M
      BY <1>2, <3>1
    <3>2. CASE b \notin M
      <4>1. b \in S \ H /\ b \notin C
        BY <3>2
      <4>2. \A g \in G : score[g] >= score[b]
        BY <1>1, <4>1
      <4>3. a \in S /\ b \in S
        BY <1>2, <1>3
      <4>4. score[a] \in Nat /\ score[b] \in Nat /\ \A g \in G : score[g] \in Nat
        BY <1>1, <4>3
      <4>5. SUFFICES ASSUME score[a] < score[b] PROVE FALSE
        BY <4>4
      <4>6. a \notin G
        BY <4>2, <4>4, <4>5
      <4>7. \A g \in G : g \in R
        <5> SUFFICES ASSUME NEW g \in G, g \notin R PROVE FALSE
          OBVIOUS
        <5>1. score[a] >= score[g]
          BY <1>2, <1>3
        <5>2. QED
          BY <4>2, <4>4, <4>5, <5>1
      <4>8. G \in SUBSET (R \ {a})
        BY <4>6, <4>7
      <4>9. IsFiniteSet(R \ {a}) /\ Cardinality(R \ {a}) = Cardinality(R) - 1
        BY <1>4, FS_RemoveElement
      <4>10. Cardinality(G) <= Cardinality(R \ {a})
        BY <4>8, <4>9, FS_Subset
      <4>11. QED
        BY <1>5, <2>2, <2>4, <4>9, <4>10
    <3>3. QED
      BY <3>1, <3>2
  <2>6. QED
    BY <1>2, <1>3, <2>4, <2>5 DEF Best
<1>8. QED
  BY <1>6, <1>7

LEMMA TypeSearches ==
    ASSUME TypeOK
    PROVE  SearchExact
<1> DEFINE C == {f \in Slots : Claimed(f)}
<1> SUFFICES ASSUME Cardinality(deleted \cup C) <= K, NEW R \in Found
             PROVE  R \in Best(Slots \ deleted, K, Score)
  BY DEF SearchExact
<1>1. PICK H \in BaseHits : R \in Best(Merged(H), K, Score)
  BY DEF Found
<1>2. K \in Nat /\ IsFiniteSet(Slots) /\ BaseScore \in [Slots -> Nat] /\ GateScore \in [Gates -> Nat]
  BY OverlayAssumption
<1>3. Score \in [Slots -> Nat] /\ \A f \in Slots \ C : Score[f] = BaseScore[f]
  BY <1>2 DEF Score, Claimed, TypeOK
<1>4. H \in Best(Slots, 2 * K, BaseScore) /\ R \in Best((H \cup C) \ deleted, K, Score)
  BY <1>1 DEF BaseHits, Merged
<1>5. C \in SUBSET Slots /\ deleted \in SUBSET Slots
  BY DEF TypeOK
<1> HIDE DEF C
<1>6. QED
  BY <1>2, <1>3, <1>4, <1>5, TwiceIsEnough

----------------------------------------------------------------------------
(* What a step does to the overlay *)

\* INSERT of a Vindexfile, seen as the operation it records.
FactInserted(o) ==
    /\ o.kind = "insert" /\ o.gate = EmptyGate
    /\ Insert(o)
    /\ o.slot \in FreeSlots \/ FreeSlots = {}
    /\ facts' = {<<o.slot, o.meta>>} \cup
                IF \A g \in Slots : Claimed(g) THEN {x \in facts : x[1] # o.slot} ELSE facts
    /\ UNCHANGED knnVars

Edited(o) ==
    /\ log' = Append(log, o)
    /\ OnSlot(o) \/ OnKnn(o) \/ FactInserted(o)

Cleared == ClearOverrides /\ Knn!Replace /\ log' = <<>> /\ facts' = {}

LEMMA OpFacts ==
    ASSUME NEW o \in Op
    PROVE  /\ o.kind \in {"insert", "update", "delete"} => o \in SlotOp /\ o.slot \in Slots
           /\ o.kind = "insert" => o.meta \in Tokens /\ o.gate \in Gates \cup {Absent}
           /\ o.kind = "update" => /\ o.meta \in Tokens \cup {Absent}
                                   /\ o.gate \in Gates \cup {Absent}
           /\ o.kind = "delete" => o.meta = None /\ o.gate = Absent
<1>1. CASE o \in SlotOp
  BY <1>1 DEF SlotOp
<1>2. CASE o \in KnnOp
  BY <1>2 DEF KnnOp
<1>3. QED
  BY <1>1, <1>2 DEF Op

LEMMA DirectOps ==
    /\ \A f \in Slots, g \in Gates, t \in Tokens : InsertOp(f, g, t) \in Op
    /\ \A f \in Slots, t \in Tokens : UpdateOp(f, Absent, t) \in Op
    /\ \A f \in Slots, g \in Gates : UpdateOp(f, g, Absent) \in Op
    /\ \A f \in Slots : DeleteOp(f) \in Op
<1>1. ASSUME NEW f \in Slots, NEW g \in Gates, NEW t \in Tokens PROVE InsertOp(f, g, t) \in Op
  BY DEF InsertOp, Op, SlotOp
<1>2. ASSUME NEW f \in Slots, NEW t \in Tokens PROVE UpdateOp(f, Absent, t) \in Op
  BY DEF UpdateOp, Op, SlotOp
<1>3. ASSUME NEW f \in Slots, NEW g \in Gates PROVE UpdateOp(f, g, Absent) \in Op
  BY DEF UpdateOp, Op, SlotOp
<1>4. ASSUME NEW f \in Slots PROVE DeleteOp(f) \in Op
  BY DEF DeleteOp, Op, SlotOp
<1>5. QED
  BY <1>1, <1>2, <1>3, <1>4

\* The operation that is applied next.
LEMMA NextOp ==
    ASSUME TypeOK, todo # <<>>, done < Len(Head(todo))
    PROVE  Head(todo)[done + 1] \in Op
<1>1. Head(todo) \in PatchFiles /\ done \in Nat
  BY TailType DEF TypeOK
<1>2. Head(todo) \in Seq(Op)
  BY <1>1, PatchAssumption
<1>3. QED
  BY <1>1, <1>2

LEMMA StepKinds ==
    ASSUME TypeOK, [Next]_vars
    PROVE  (\E o \in Op : Edited(o)) \/ Cleared \/ UNCHANGED <<overlayVars, log, facts, entries>>
<1>1. ASSUME NEW p \in PatchFiles, StartPatch(p) PROVE UNCHANGED <<overlayVars, log, facts, entries>>
  BY <1>1 DEF StartPatch, historyVars, knnVars
<1>2. CASE ApplyOp
  <2>1. Head(todo)[done + 1] \in Op
    BY <1>2, NextOp DEF ApplyOp
  <2>2. QED
    BY <1>2, <2>1 DEF ApplyOp, Edited
<1>3. CASE PushPatch
  BY <1>3 DEF PushPatch, historyVars, knnVars
<1>4. ASSUME NEW i \in 1 .. MaxOps, RemovePatch(i) PROVE Cleared
  BY <1>4 DEF RemovePatch, Cleared
<1>5. CASE DirectEdit
  <2>1. ASSUME NEW f \in Slots, NEW g \in Gates \ {EmptyGate}, NEW t \in Tokens,
               insert_feature(f, g, t)
        PROVE  \E o \in Op : Edited(o)
    BY <2>1, DirectOps DEF insert_feature, Directly, Edited
  <2>2. ASSUME NEW f \in Slots, delete_feature(f) PROVE \E o \in Op : Edited(o)
    BY <2>2, DirectOps DEF delete_feature, Directly, Edited
  <2>3. ASSUME NEW f \in Slots, NEW t \in Tokens, update_feature_meta(f, t)
        PROVE  \E o \in Op : Edited(o)
    BY <2>3, DirectOps DEF update_feature_meta, Directly, Edited
  <2>4. ASSUME NEW f \in Slots, NEW g \in Gates \ {EmptyGate}, set_gate_override(f, g)
        PROVE  \E o \in Op : Edited(o)
    BY <2>4, DirectOps DEF set_gate_override, Directly, Edited
  <2>5. ASSUME NEW t \in Tokens, InsertFact(t) PROVE \E o \in Op : Edited(o)
    <3>1. PICK f \in Slots :
            /\ f \in FreeSlots \/ FreeSlots = {}
            /\ Directly(InsertOp(f, EmptyGate, t)) /\ Insert(InsertOp(f, EmptyGate, t))
            /\ facts' = {<<f, t>>} \cup
                        IF \A g \in Slots : Claimed(g) THEN {x \in facts : x[1] # f} ELSE facts
            /\ UNCHANGED knnVars
      BY <2>5 DEF InsertFact
    <3> DEFINE o == InsertOp(f, EmptyGate, t)
    <3>2. o.kind = "insert" /\ o.gate = EmptyGate /\ o.slot = f /\ o.meta = t
      BY DEF InsertOp
    <3>3. o \in Op
      BY DirectOps, OverlayAssumption
    <3> HIDE DEF o
    <3>4. FactInserted(o)
      BY <3>1, <3>2 DEF FactInserted, o
    <3>5. log' = Append(log, o)
      BY <3>1 DEF Directly, o
    <3>6. QED
      BY <3>3, <3>4, <3>5 DEF Edited
  <2>6. CASE RenewKnn
    BY <2>6 DEF RenewKnn, historyVars, Knn!Renew
  <2>7. QED
    BY <1>5, <2>1, <2>2, <2>3, <2>4, <2>5, <2>6 DEF DirectEdit
<1>6. ASSUME NEW r \in Readers, Reader(r) PROVE UNCHANGED <<overlayVars, log, facts, entries>>
  <2>1. entries' = entries
    BY <1>6 DEF Reader, Knn!Reader, Knn!QueryEmpty, Knn!StartQuery, Knn!BuildPanics,
                Knn!InsertPanics, Knn!InsertMatrix, Knn!ClearMark, Knn!ScorePanics, Knn!Score
  <2>2. QED
    BY <1>6, <2>1 DEF Reader, historyVars
<1>7. CASE UNCHANGED vars
  BY <1>7 DEF vars, historyVars, knnVars
<1>8. QED
  BY <1>1, <1>2, <1>3, <1>4, <1>5, <1>6, <1>7 DEF Next

----------------------------------------------------------------------------
(* Types *)

\* What an operation makes of the overlay.
LEMMA EditType ==
    ASSUME TypeOK, NEW o \in Op, Edited(o)
    PROVE  /\ meta' \in [Slots -> Tokens \cup {None, Absent}]
           /\ gate' \in [Slots -> Gates \cup {Absent}]
           /\ deleted' \subseteq Slots
           /\ log' \in Seq(Op)
           /\ facts' \subseteq Slots \X Tokens
<1>1. log' \in Seq(Op)
  BY AppendType DEF Edited, TypeOK
<1>2. CASE OnKnn(o)
  BY <1>1, <1>2 DEF OnKnn, overlayVars, TypeOK
<1>3. CASE OnSlot(o) \/ FactInserted(o)
  <2>1. Insert(o) \/ Update(o) \/ Delete(o)
    BY <1>3 DEF OnSlot, FactInserted
  <2>2. o.slot \in Slots /\ o.meta \in Tokens \cup {None, Absent} /\ o.gate \in Gates \cup {Absent}
    BY <2>1, OpFacts DEF Insert, Update, Delete
  <2>3. Overridden(o) \in [Slots -> Gates \cup {Absent}]
    BY <2>2 DEF Overridden, TypeOK
  <2>4. meta' \in [Slots -> Tokens \cup {None, Absent}]
    BY <2>1, <2>2 DEF Insert, Update, Delete, TypeOK
  <2>5. gate' \in [Slots -> Gates \cup {Absent}]
    BY <2>1, <2>2, <2>3 DEF Insert, Update, Delete, TypeOK
  <2>6. deleted' \subseteq Slots
    BY <2>1, <2>2 DEF Insert, Update, Delete, TypeOK
  <2>7. facts' \subseteq Slots \X Tokens
    <3>1. CASE OnSlot(o)
      BY <3>1 DEF OnSlot, Untouched, TypeOK
    <3>2. CASE FactInserted(o)
      <4>1. o.meta \in Tokens
        BY <3>2, OpFacts DEF FactInserted
      <4>2. QED
        BY <2>2, <3>2, <4>1 DEF FactInserted, TypeOK
    <3>3. QED
      BY <1>3, <3>1, <3>2
  <2>8. QED
    BY <1>1, <2>4, <2>5, <2>6, <2>7
<1>4. QED
  BY <1>2, <1>3 DEF Edited

\* What a step makes of the patches.
LEMMA PatchesType ==
    ASSUME TypeOK, [Next]_vars
    PROVE  /\ patches' \in Seq(PatchFiles)
           /\ todo' \in Seq(PatchFiles)
           /\ done' \in Nat /\ done' <= IF todo' = <<>> THEN 0 ELSE Len(todo'[1])
           /\ direct' \in BOOLEAN
<1>1. CASE UNCHANGED <<patches, todo, done, direct>>
  BY <1>1 DEF TypeOK
<1>2. ASSUME NEW p \in PatchFiles, StartPatch(p)
      PROVE  /\ UNCHANGED <<patches, direct>> /\ todo' \in Seq(PatchFiles)
             /\ done' \in Nat /\ done' <= IF todo' = <<>> THEN 0 ELSE Len(todo'[1])
  <2>1. todo = <<>> /\ todo' = <<p>> /\ UNCHANGED <<patches, direct>> /\ done' = done
    BY <1>2 DEF StartPatch, Idle, historyVars
  <2>2. done = 0
    BY <2>1 DEF TypeOK
  <2>3. p \in Seq(Op)
    BY PatchAssumption
  <2>4. Len(p) \in Nat
    BY <2>3
  <2>5. QED
    BY <2>1, <2>2, <2>4
<1>3. CASE ApplyOp
  <2>1. done + 1 \in Nat /\ done + 1 <= Len(todo[1])
    <3>1. Head(todo) = todo[1] /\ todo[1] \in PatchFiles
      BY <1>3, TailType DEF ApplyOp, TypeOK
    <3>2. Len(todo[1]) \in Nat
      <4>1. todo[1] \in Seq(Op)
        BY <3>1, PatchAssumption
      <4>2. QED
        BY <4>1
    <3>3. QED
      BY <1>3, <3>1, <3>2 DEF ApplyOp, TypeOK
  <2>2. QED
    BY <1>3, <2>1 DEF ApplyOp, TypeOK
<1>4. CASE PushPatch
  <2>1. patches' \in Seq(PatchFiles) /\ todo' \in Seq(PatchFiles) /\ done' = 0 /\ direct' = direct
    BY <1>4, TailType, AppendType DEF PushPatch, TypeOK, historyVars
  <2>2. ASSUME todo' # <<>> PROVE Len(todo'[1]) \in Nat
    <3>1. todo'[1] \in PatchFiles
      BY <2>1, <2>2, TailType
    <3>2. todo'[1] \in Seq(Op)
      BY <3>1, PatchAssumption
    <3>3. QED
      BY <3>2
  <2>3. QED
    BY <2>1, <2>2 DEF TypeOK
<1>5. ASSUME NEW i \in 1 .. MaxOps, RemovePatch(i)
      PROVE  /\ patches' = <<>> /\ todo' \in Seq(PatchFiles) /\ direct' = FALSE
             /\ done' \in Nat /\ done' <= IF todo' = <<>> THEN 0 ELSE Len(todo'[1])
  <2>1. /\ patches' = <<>> /\ direct' = FALSE /\ done' = done /\ todo = <<>>
        /\ i \in 1 .. Len(patches) /\ todo' = RemoveAt(patches, i)
    BY <1>5 DEF RemovePatch, Idle
  <2>2. todo' \in Seq(PatchFiles)
    BY <2>1, RemoveAtElements DEF TypeOK
  <2>3. done = 0
    BY <2>1 DEF TypeOK
  <2>4. ASSUME todo' # <<>> PROVE Len(todo'[1]) \in Nat
    <3>1. todo'[1] \in PatchFiles
      BY <2>2, <2>4, TailType
    <3>2. todo'[1] \in Seq(Op)
      BY <3>1, PatchAssumption
    <3>3. QED
      BY <3>2
  <2>5. QED
    BY <2>1, <2>2, <2>3, <2>4
<1>6. CASE DirectEdit
  <2>1. UNCHANGED <<patches, todo, done>> /\ direct' \in BOOLEAN
    BY <1>6 DEF DirectEdit, insert_feature, delete_feature, update_feature_meta,
                set_gate_override, InsertFact, RenewKnn, Directly, historyVars, TypeOK
  <2>2. QED
    BY <2>1 DEF TypeOK
<1>7. ASSUME NEW r \in Readers, Reader(r) PROVE UNCHANGED <<patches, todo, done, direct>>
  BY <1>7 DEF Reader, historyVars
<1>8. CASE UNCHANGED vars
  BY <1>8, <1>1 DEF vars, historyVars
<1>9. <<>> \in Seq(PatchFiles)
  OBVIOUS
<1>10. QED
  BY <1>1, <1>2, <1>3, <1>4, <1>5, <1>6, <1>7, <1>8, <1>9 DEF Next, TypeOK

LEMMA TypeStep ==
    ASSUME TypeOK, [Next]_vars
    PROVE  TypeOK'
<1>1. /\ meta' \in [Slots -> Tokens \cup {None, Absent}]
      /\ gate' \in [Slots -> Gates \cup {Absent}]
      /\ deleted' \subseteq Slots
      /\ log' \in Seq(Op)
      /\ facts' \subseteq Slots \X Tokens
  <2>1. ASSUME NEW o \in Op, Edited(o) PROVE <1>1!:
    BY <2>1, EditType
  <2>2. CASE Cleared
    <3>1. <<>> \in Seq(Op)
      OBVIOUS
    <3>2. QED
      BY <2>2, <3>1 DEF Cleared, ClearOverrides
  <2>3. CASE UNCHANGED <<overlayVars, log, facts, entries>>
    BY <2>3 DEF overlayVars, TypeOK
  <2>4. QED
    BY <2>1, <2>2, <2>3, StepKinds
<1>2. QED
  BY <1>1, PatchesType DEF TypeOK

\* Every state that the overlay reaches has the types of TypeOK.
THEOREM TypeCorrect == Spec => []TypeOK
<1>1. Init => TypeOK
  <2>1. <<>> \in Seq(PatchFiles) /\ <<>> \in Seq(Op)
    OBVIOUS
  <2>2. ASSUME Init
        PROVE  /\ meta = [f \in Slots |-> Absent] /\ gate = [f \in Slots |-> Absent]
               /\ deleted = {} /\ patches = <<>> /\ todo = <<>> /\ done = 0
               /\ log = <<>> /\ direct = FALSE /\ facts = {}
    BY <2>2 DEF Init
  <2>3. QED
    BY <2>1, <2>2 DEF TypeOK
<1>2. TypeOK /\ [Next]_vars => TypeOK'
  BY TypeStep
<1>3. QED
  BY <1>1, <1>2, PTL DEF Spec

\* PatchedVindex::gate_knn: a search that asks the base for 2 K finds exactly the
\* best K of what is not deleted, while at most K slots are deleted or overridden.
THEOREM SearchExactAlways == Spec => []SearchExact
<1>1. TypeOK => SearchExact
  BY TypeSearches
<1>2. QED
  BY <1>1, TypeCorrect, PTL

----------------------------------------------------------------------------
(* INSERTs of a Vindexfile *)

\* The slot of a fact that nobody has touched shows it and is claimed.
FactInv == \A x \in facts : meta[x[1]] = x[2] /\ gate[x[1]] # Absent

\* A slot that is free is not claimed; if none is free, all are claimed.
LEMMA FreeFacts ==
    /\ \A f \in FreeSlots : ~Claimed(f)
    /\ FreeSlots = {} => \A f \in Slots : Claimed(f)
<1> DEFINE open == {f \in Slots : ~Claimed(f)}
           empty == {f \in open : BaseMeta[f] = None}
<1>1. FreeSlots = IF empty # {} THEN {f \in empty : \A g \in empty : f <= g}
                  ELSE {f \in open : \A g \in open : NotStronger(f, g)}
  BY DEF FreeSlots
<1>2. Slots \subseteq Nat /\ CScore \in [Slots -> Nat]
  BY OverlayAssumption
<1>3. CASE empty # {}
  <2>1. empty \in SUBSET Nat
    BY <1>2
  <2>2. \E f \in empty : \A g \in empty : f <= g
    BY <1>3, <2>1, NatMin
  <2>3. QED
    BY <1>1, <1>3, <2>2
<1>4. CASE empty = {} /\ open # {}
  <2> DEFINE scores == {CScore[f] : f \in open}
  <2>1. scores \in SUBSET Nat /\ scores # {}
    BY <1>2, <1>4
  <2>2. PICK c \in scores : \A d \in scores : c <= d
    BY <2>1, NatMin
  <2> DEFINE weakest == {f \in open : CScore[f] = c}
  <2>3. weakest \in SUBSET Nat /\ weakest # {}
    BY <1>2
  <2>4. PICK f \in weakest : \A g \in weakest : f <= g
    BY <2>3, NatMin
  <2>5. ASSUME NEW g \in open PROVE NotStronger(f, g)
    <3>1. CScore[f] \in Nat /\ CScore[g] \in Nat /\ CScore[f] = c /\ c <= CScore[g]
      BY <1>2, <2>2
    <3>2. CASE CScore[g] = c
      BY <2>4, <3>1, <3>2 DEF NotStronger
    <3>3. CASE CScore[g] # c
      BY <3>1, <3>3 DEF NotStronger
    <3>4. QED
      BY <3>2, <3>3
  <2>6. f \in FreeSlots
    BY <1>1, <1>4, <2>5
  <2>7. QED
    BY <1>1, <1>4, <2>6
<1>5. CASE open = {}
  BY <1>1, <1>5
<1>6. QED
  BY <1>3, <1>4, <1>5

LEMMA FactStep ==
    ASSUME TypeOK, FactInv, [Next]_vars
    PROVE  FactInv'
<1>1. ASSUME NEW o \in Op, Edited(o) PROVE FactInv'
  <2>1. CASE OnKnn(o)
    BY <2>1 DEF OnKnn, overlayVars, FactInv
  <2>2. CASE OnSlot(o)
    <3>1. /\ o.slot \in Slots
          /\ o.gate # Absent => o.gate \in Gates
          /\ o.kind # "update" => o.meta # Absent
      BY <2>2, OpFacts, OverlayAssumption DEF OnSlot, Insert, Update, Delete
    <3>2. SUFFICES ASSUME NEW x \in facts' PROVE meta'[x[1]] = x[2] /\ gate'[x[1]] # Absent
      BY DEF FactInv
    <3>3. x \in facts /\ (o.meta # Absent => x[1] # o.slot)
      BY <2>2 DEF OnSlot, Untouched
    <3>4. x[1] \in Slots /\ meta[x[1]] = x[2] /\ gate[x[1]] # Absent
      BY <3>3 DEF TypeOK, FactInv
    <3>5. CASE x[1] # o.slot
      BY <2>2, <3>1, <3>4, <3>5 DEF OnSlot, Insert, Update, Delete, Overridden, TypeOK
    <3>6. CASE x[1] = o.slot
      <4>1. o.meta = Absent /\ Update(o)
        BY <2>2, <3>1, <3>3, <3>6 DEF OnSlot, Insert, Delete
      <4>2. QED
        BY <3>1, <3>4, <4>1 DEF Update, Overridden, TypeOK
    <3>7. QED
      BY <3>5, <3>6
  <2>3. CASE FactInserted(o)
    <3>1. o.slot \in Slots /\ o.gate \in Gates /\ o.gate # Absent
      BY <2>3, OpFacts, OverlayAssumption DEF FactInserted
    <3>2. meta' = [meta EXCEPT ![o.slot] = o.meta] /\ gate' = [gate EXCEPT ![o.slot] = o.gate]
      BY <2>3, <3>1 DEF FactInserted, Insert, Overridden
    <3>3. SUFFICES ASSUME NEW x \in facts' PROVE meta'[x[1]] = x[2] /\ gate'[x[1]] # Absent
      BY DEF FactInv
    <3>4. CASE x = <<o.slot, o.meta>>
      BY <3>1, <3>2, <3>4 DEF TypeOK
    <3>5. CASE x # <<o.slot, o.meta>>
      <4>1. x \in facts /\ ((\A g \in Slots : Claimed(g)) => x[1] # o.slot)
        BY <2>3, <3>5 DEF FactInserted
      <4>2. x[1] \in Slots /\ meta[x[1]] = x[2] /\ gate[x[1]] # Absent
        BY <4>1 DEF TypeOK, FactInv
      <4>3. x[1] # o.slot
        BY <2>3, <4>1, <4>2, FreeFacts DEF FactInserted, Claimed
      <4>4. QED
        BY <3>1, <3>2, <4>2, <4>3 DEF TypeOK
    <3>6. QED
      BY <3>4, <3>5
  <2>4. QED
    BY <1>1, <2>1, <2>2, <2>3 DEF Edited
<1>2. CASE Cleared
  BY <1>2 DEF Cleared, FactInv
<1>3. CASE UNCHANGED <<overlayVars, log, facts, entries>>
  BY <1>3 DEF overlayVars, FactInv
<1>4. QED
  BY <1>1, <1>2, <1>3, StepKinds

\* build_from_vindexfile: the fact of an INSERT is what its slot shows until an
\* operation names the slot or an INSERT finds every slot claimed.
THEOREM FactsKeptAlways == Spec => []FactsKept
<1>1. Init => FactInv
  BY DEF Init, FactInv
<1>2. TypeOK /\ FactInv /\ [Next]_vars => FactInv'
  BY FactStep
<1>3. TypeOK /\ FactInv => FactsKept
  <2> SUFFICES ASSUME TypeOK, FactInv, NEW x \in facts PROVE FeatureMeta(x[1]) = x[2]
    BY DEF FactsKept
  <2>1. x[2] \in Tokens /\ meta[x[1]] = x[2]
    BY DEF TypeOK, FactInv
  <2>2. QED
    BY <2>1, OverlayAssumption DEF FeatureMeta
<1>4. QED
  BY <1>1, <1>2, <1>3, TypeCorrect, PTL DEF Spec

----------------------------------------------------------------------------
(* The last operation decides *)

\* What an operation decides of a slot.
Sets(k, o, f) ==
    \/ k = "meta" /\ SetsMeta(o, f)
    \/ k = "gate" /\ SetsGate(o, f)
    \/ k = "life" /\ SetsLife(o, f)

LastAt(k, l, f) ==
    {i \in 1 .. Len(l) : Sets(k, l[i], f) /\ \A j \in i + 1 .. Len(l) : ~Sets(k, l[j], f)}

LEMMA LastWheres ==
    ASSUME NEW f
    PROVE  /\ LastWhere(LAMBDA o : SetsMeta(o, f)) = LastAt("meta", log, f)
           /\ LastWhere(LAMBDA o : SetsGate(o, f)) = LastAt("gate", log, f)
           /\ LastWhere(LAMBDA o : SetsLife(o, f)) = LastAt("life", log, f)
<1>1. \A o : /\ Sets("meta", o, f) <=> SetsMeta(o, f)
             /\ Sets("gate", o, f) <=> SetsGate(o, f)
             /\ Sets("life", o, f) <=> SetsLife(o, f)
  BY DEF Sets
<1>2. LastWhere(LAMBDA o : SetsMeta(o, f)) = LastAt("meta", log, f)
  BY <1>1 DEF LastWhere, LastAt
<1>3. LastWhere(LAMBDA o : SetsGate(o, f)) = LastAt("gate", log, f)
  BY <1>1 DEF LastWhere, LastAt
<1>4. LastWhere(LAMBDA o : SetsLife(o, f)) = LastAt("life", log, f)
  BY <1>1 DEF LastWhere, LastAt
<1>5. QED
  BY <1>2, <1>3, <1>4

\* The last operation that decides something, once one more is made.
LEMMA LastOfAppend ==
    ASSUME NEW k, NEW l \in Seq(Op), NEW o \in Op, NEW f
    PROVE  LastAt(k, Append(l, o), f) =
               IF Sets(k, o, f) THEN {Len(l) + 1} ELSE LastAt(k, l, f)
<1> DEFINE m == Append(l, o)
           n == Len(l)
           S(i) == Sets(k, m[i], f)
<1>1. n \in Nat /\ Len(m) = n + 1 /\ m[n + 1] = o /\ \A i \in 1 .. n : m[i] = l[i]
  BY AppendType
<1>2. LastAt(k, m, f) = {i \in 1 .. n + 1 : S(i) /\ \A j \in i + 1 .. n + 1 : ~S(j)}
  BY <1>1 DEF LastAt
<1>3. LastAt(k, l, f) = {i \in 1 .. n : S(i) /\ \A j \in i + 1 .. n : ~S(j)}
  BY <1>1 DEF LastAt
<1>4. S(n + 1) <=> Sets(k, o, f)
  BY <1>1
<1> HIDE DEF m, n, S
<1>5. CASE Sets(k, o, f)
  <2>1. ASSUME NEW i PROVE i \in LastAt(k, m, f) <=> i = n + 1
    BY <1>1, <1>2, <1>4, <1>5
  <2>2. QED
    BY <1>5, <2>1 DEF m, n
<1>6. CASE ~Sets(k, o, f)
  <2>1. ASSUME NEW i PROVE i \in LastAt(k, m, f) <=> i \in LastAt(k, l, f)
    BY <1>1, <1>2, <1>3, <1>4, <1>6
  <2>2. QED
    BY <1>6, <2>1 DEF m
<1>7. QED
  BY <1>5, <1>6

\* LastOpDecides for one slot, with all it depends on as parameters.
Decided(l, f, m, g, d) ==
    /\ m = IF LastAt("meta", l, f) = {} THEN Absent
           ELSE l[CHOOSE i \in LastAt("meta", l, f) : TRUE].meta
    /\ g = IF LastAt("gate", l, f) = {} THEN Absent
           ELSE l[CHOOSE i \in LastAt("gate", l, f) : TRUE].gate
    /\ d <=> \E i \in LastAt("life", l, f) : l[i].kind = "delete"

LEMMA DecidedIsLast ==
    LastOpDecides <=> \A f \in Slots : Decided(log, f, meta[f], gate[f], f \in deleted)
<1>1. ASSUME NEW f \in Slots
      PROVE  Decided(log, f, meta[f], gate[f], f \in deleted) <=>
                 LET metas == LastWhere(LAMBDA o : SetsMeta(o, f))
                     gates == LastWhere(LAMBDA o : SetsGate(o, f))
                     lives == LastWhere(LAMBDA o : SetsLife(o, f))
                 IN  /\ meta[f] = IF metas = {} THEN Absent ELSE log[CHOOSE i \in metas : TRUE].meta
                     /\ gate[f] = IF gates = {} THEN Absent ELSE log[CHOOSE i \in gates : TRUE].gate
                     /\ f \in deleted <=> \E i \in lives : log[i].kind = "delete"
  BY LastWheres DEF Decided
<1>2. QED
  BY <1>1 DEF LastOpDecides

\* One more operation: what it sets is decided by it, the rest as before.
LEMMA DecidedAppend ==
    ASSUME NEW l \in Seq(Op), NEW o \in Op, NEW f, NEW m, NEW g, NEW d \in BOOLEAN,
           NEW m2, NEW g2, NEW d2 \in BOOLEAN,
           Decided(l, f, m, g, d),
           m2 = IF SetsMeta(o, f) THEN o.meta ELSE m,
           g2 = IF SetsGate(o, f) THEN o.gate ELSE g,
           d2 <=> IF SetsLife(o, f) THEN o.kind = "delete" ELSE d
    PROVE  Decided(Append(l, o), f, m2, g2, d2)
<1> DEFINE a == Append(l, o)
           n == Len(l) + 1
<1>1. \A k : LastAt(k, a, f) = IF Sets(k, o, f) THEN {n} ELSE LastAt(k, l, f)
  BY LastOfAppend
<1>2. a[n] = o /\ \A i \in 1 .. Len(l) : a[i] = l[i]
  BY AppendType
<1>3. \A k : LastAt(k, l, f) \subseteq 1 .. Len(l)
  BY DEF LastAt
<1>4. (Sets("meta", o, f) <=> SetsMeta(o, f)) /\ (Sets("gate", o, f) <=> SetsGate(o, f))
      /\ (Sets("life", o, f) <=> SetsLife(o, f))
  BY DEF Sets
<1>5. (CHOOSE i \in {n} : TRUE) = n
  OBVIOUS
<1> HIDE DEF a, n
<1>6. m2 = IF LastAt("meta", a, f) = {} THEN Absent
           ELSE a[CHOOSE i \in LastAt("meta", a, f) : TRUE].meta
  <2>1. CASE SetsMeta(o, f)
    BY <1>1, <1>2, <1>4, <1>5, <2>1
  <2>2. CASE ~SetsMeta(o, f)
    <3> DEFINE L == LastAt("meta", l, f)
               c == CHOOSE i \in L : TRUE
    <3>1. LastAt("meta", a, f) = L /\ m2 = m
      BY <1>1, <1>4, <2>2
    <3>2. L # {} => c \in 1 .. Len(l)
      BY <1>3
    <3>3. m = IF L = {} THEN Absent ELSE l[c].meta
      BY DEF Decided
    <3>4. L # {} => a[c] = l[c]
      BY <1>2, <3>2
    <3> HIDE DEF c
    <3>5. m2 = IF L = {} THEN Absent ELSE a[c].meta
      BY <3>1, <3>3, <3>4
    <3>6. QED
      BY <3>1, <3>5 DEF c
  <2>3. QED
    BY <2>1, <2>2
<1>7. g2 = IF LastAt("gate", a, f) = {} THEN Absent
           ELSE a[CHOOSE i \in LastAt("gate", a, f) : TRUE].gate
  <2>1. CASE SetsGate(o, f)
    BY <1>1, <1>2, <1>4, <1>5, <2>1
  <2>2. CASE ~SetsGate(o, f)
    <3> DEFINE L == LastAt("gate", l, f)
               c == CHOOSE i \in L : TRUE
    <3>1. LastAt("gate", a, f) = L /\ g2 = g
      BY <1>1, <1>4, <2>2
    <3>2. L # {} => c \in 1 .. Len(l)
      BY <1>3
    <3>3. g = IF L = {} THEN Absent ELSE l[c].gate
      BY DEF Decided
    <3>4. L # {} => a[c] = l[c]
      BY <1>2, <3>2
    <3> HIDE DEF c
    <3>5. g2 = IF L = {} THEN Absent ELSE a[c].gate
      BY <3>1, <3>3, <3>4
    <3>6. QED
      BY <3>1, <3>5 DEF c
  <2>3. QED
    BY <2>1, <2>2
<1>8. d2 <=> \E i \in LastAt("life", a, f) : a[i].kind = "delete"
  <2>1. CASE SetsLife(o, f)
    BY <1>1, <1>2, <1>4, <2>1
  <2>2. CASE ~SetsLife(o, f)
    BY <1>1, <1>2, <1>3, <1>4, <2>2 DEF Decided
  <2>3. QED
    BY <2>1, <2>2
<1>9. QED
  BY <1>6, <1>7, <1>8 DEF Decided, a

\* An operation does to its slot what it says, and nothing to the others.
LEMMA EditDecides ==
    ASSUME TypeOK, NEW o \in Op, Edited(o), NEW f \in Slots
    PROVE  /\ meta'[f] = IF SetsMeta(o, f) THEN o.meta ELSE meta[f]
           /\ gate'[f] = IF SetsGate(o, f) THEN o.gate ELSE gate[f]
           /\ f \in deleted' <=> IF SetsLife(o, f) THEN o.kind = "delete" ELSE f \in deleted
<1>1. CASE OnKnn(o)
  <2>1. o.kind \in {"insertknn", "deleteknn"} /\ UNCHANGED overlayVars
    BY <1>1 DEF OnKnn
  <2>2. QED
    BY <2>1 DEF overlayVars, SetsMeta, SetsGate, SetsLife, On
<1>2. CASE OnSlot(o) \/ FactInserted(o)
  <2>1. Insert(o) \/ Update(o) \/ Delete(o)
    BY <1>2 DEF OnSlot, FactInserted
  <2>2. CASE Insert(o)
    <3>1. o.kind = "insert" /\ o.slot \in Slots /\ o.meta # Absent
      BY <2>2, OpFacts, OverlayAssumption DEF Insert
    <3>2. QED
      BY <2>2, <3>1 DEF Insert, Overridden, SetsMeta, SetsGate, SetsLife, On, TypeOK
  <2>3. CASE Update(o)
    <3>1. o.kind = "update" /\ o.slot \in Slots
      BY <2>3, OpFacts DEF Update
    <3>2. QED
      BY <2>3, <3>1 DEF Update, Overridden, SetsMeta, SetsGate, SetsLife, On, TypeOK
  <2>4. CASE Delete(o)
    <3>1. o.kind = "delete" /\ o.slot \in Slots /\ o.meta = None /\ o.meta # Absent
          /\ o.gate = Absent
      BY <2>4, OpFacts, OverlayAssumption DEF Delete
    <3>2. QED
      BY <2>4, <3>1 DEF Delete, SetsMeta, SetsGate, SetsLife, On, TypeOK
  <2>5. QED
    BY <2>1, <2>2, <2>3, <2>4
<1>3. QED
  BY <1>1, <1>2 DEF Edited

DecidedInv == \A f \in Slots : Decided(log, f, meta[f], gate[f], f \in deleted)

LEMMA NothingDecided ==
    ASSUME NEW f
    PROVE  Decided(<<>>, f, Absent, Absent, FALSE)
<1>1. \A k : LastAt(k, <<>>, f) = {}
  BY DEF LastAt
<1>2. QED
  BY <1>1 DEF Decided

LEMMA DecidedStep ==
    ASSUME TypeOK, DecidedInv, [Next]_vars
    PROVE  DecidedInv'
<1>1. ASSUME NEW o \in Op, Edited(o), NEW f \in Slots
      PROVE  Decided(log', f, meta'[f], gate'[f], f \in deleted')
  <2>1. log \in Seq(Op) /\ log' = Append(log, o)
    BY <1>1 DEF TypeOK, Edited
  <2>2. Decided(log, f, meta[f], gate[f], f \in deleted)
    BY DEF DecidedInv
  <2>3. /\ meta'[f] = IF SetsMeta(o, f) THEN o.meta ELSE meta[f]
        /\ gate'[f] = IF SetsGate(o, f) THEN o.gate ELSE gate[f]
        /\ f \in deleted' <=> IF SetsLife(o, f) THEN o.kind = "delete" ELSE f \in deleted
    BY <1>1, EditDecides
  <2>4. (f \in deleted) \in BOOLEAN /\ (f \in deleted') \in BOOLEAN
    OBVIOUS
  <2>5. Decided(Append(log, o), f, meta'[f], gate'[f], f \in deleted')
    BY <2>1, <2>2, <2>3, <2>4, DecidedAppend
  <2>6. QED
    BY <2>1, <2>5
<1>2. CASE Cleared
  <2>1. log' = <<>> /\ deleted' = {} /\ meta' = [f \in Slots |-> Absent]
        /\ gate' = [f \in Slots |-> Absent]
    BY <1>2 DEF Cleared, ClearOverrides
  <2>2. ASSUME NEW f \in Slots PROVE Decided(log', f, meta'[f], gate'[f], f \in deleted')
    <3>1. meta'[f] = Absent /\ gate'[f] = Absent /\ (f \in deleted') = FALSE
      BY <2>1
    <3>2. QED
      BY <2>1, <3>1, NothingDecided
  <2>3. QED
    BY <2>2 DEF DecidedInv
<1>3. CASE UNCHANGED <<overlayVars, log, facts, entries>>
  BY <1>3 DEF overlayVars, DecidedInv
<1>4. QED
  BY <1>1, <1>2, <1>3, StepKinds DEF DecidedInv

LEMMA DecidedAlways == Spec => []DecidedInv
<1>1. Init => DecidedInv
  <2> SUFFICES ASSUME Init, NEW f \in Slots
               PROVE  Decided(log, f, meta[f], gate[f], f \in deleted)
    BY DEF DecidedInv
  <2>1. log = <<>> /\ meta[f] = Absent /\ gate[f] = Absent /\ (f \in deleted) = FALSE
    BY DEF Init
  <2>2. QED
    BY <2>1, NothingDecided
<1>2. TypeOK /\ DecidedInv /\ [Next]_vars => DecidedInv'
  BY DecidedStep
<1>3. QED
  BY <1>1, <1>2, TypeCorrect, PTL DEF Spec

\* apply_patch, remove_patch and the direct edits: in every slot, also in the middle
\* of a patch, each of metadata, gate vector and tombstone is that of the last
\* operation that decides it.
THEOREM LastOpDecidesAlways == Spec => []LastOpDecides
<1>1. DecidedInv => LastOpDecides
  BY DecidedIsLast DEF DecidedInv
<1>2. QED
  BY <1>1, DecidedAlways, PTL

----------------------------------------------------------------------------
(* The baked index *)

LEMMA DecidedBakes ==
    ASSUME TypeOK, DecidedInv
    PROVE  BakeAgrees
<1> SUFFICES ASSUME NEW f \in Slots
             PROVE  BakedMeta(f) = IF UpdatedAfterDelete(f) THEN None ELSE FeatureMeta(f)
  BY DEF BakeAgrees
<1>1. Decided(log, f, meta[f], gate[f], f \in deleted)
  BY DEF DecidedInv
<1>2. UpdatedAfterDelete(f) <=>
          \E i \in LastAt("life", log, f) :
              /\ log[i].kind = "delete"
              /\ \E j \in i + 1 .. Len(log) : SetsMeta(log[j], f)
  BY LastWheres DEF UpdatedAfterDelete
<1>3. CASE f \notin deleted
  <2>1. ~UpdatedAfterDelete(f)
    BY <1>1, <1>2, <1>3 DEF Decided
  <2>2. QED
    BY <1>3, <2>1 DEF BakedMeta, FeatureMeta
<1>4. CASE f \in deleted
  <2>1. CASE UpdatedAfterDelete(f)
    BY <1>4, <2>1 DEF BakedMeta
  <2>2. CASE ~UpdatedAfterDelete(f)
    <3>1. PICK i \in LastAt("life", log, f) : log[i].kind = "delete"
      BY <1>1, <1>4 DEF Decided
    <3>2. i \in 1 .. Len(log) /\ On(log[i], f)
      BY <3>1 DEF LastAt, Sets, SetsLife
    <3>3. log[i] \in Op
      BY <3>2 DEF TypeOK
    <3>4. log[i].meta = None /\ SetsMeta(log[i], f)
      BY <3>1, <3>2, <3>3, OpFacts, OverlayAssumption DEF SetsMeta
    <3>5. \A j \in i + 1 .. Len(log) : ~SetsMeta(log[j], f)
      BY <1>2, <2>2, <3>1
    <3>6. ASSUME NEW j PROVE j \in LastAt("meta", log, f) <=> j = i
      BY <3>2, <3>4, <3>5 DEF LastAt, Sets
    <3>7. LastAt("meta", log, f) = {i}
      BY <3>6
    <3>8. meta[f] = None
      BY <1>1, <3>4, <3>7 DEF Decided
    <3>9. QED
      BY <1>4, <2>2, <3>8, OverlayAssumption DEF BakedMeta, FeatureMeta
  <2>3. QED
    BY <2>1, <2>2
<1>5. QED
  BY <1>3, <1>4

\* bake_down: what it writes for a slot is what feature_meta showed, but for the
\* slots that were updated after they were deleted, which are baked empty.
THEOREM BakeAgreesAlways == Spec => []BakeAgrees
<1>1. TypeOK /\ DecidedInv => BakeAgrees
  BY DecidedBakes
<1>2. QED
  BY <1>1, TypeCorrect, DecidedAlways, PTL

----------------------------------------------------------------------------
(* The store beside the overlay: KnnStore, by itself *)

\* The operators that the instance brings are those of the lemmas.
LEMMA StoreOperators ==
    /\ \A S : Knn!Cardinality(S) = Cardinality(S)
    /\ \A l, gone : Knn!Retained(l, gone) = Retained(l, gone)
<1>1. \A S : Knn!Cardinality(S) = Cardinality(S)
  BY Zenon DEF Cardinality, Knn!Cardinality
<1>2. \A l, gone : Knn!Retained(l, gone) = Retained(l, gone)
  BY Zenon DEF Retained, Nth, Cardinality, Knn!Retained, Knn!Nth, Knn!Cardinality
<1>3. QED
  BY <1>1, <1>2

LEMMA EmptyLists == [l \in Layers |-> <<>>] \in [Layers -> Seq(Knn!Entry)]
<1>1. <<>> \in Seq(Knn!Entry)
  OBVIOUS
<1>2. QED
  BY <1>1

LEMMA QueryType ==
    ASSUME Knn!TypeOK, NEW r \in Readers, query[r] # Knn!NoQuery
    PROVE  /\ query[r] \in Knn!Queries
           /\ query[r].layer \in Layers /\ query[r].k \in TopK
           /\ entries[query[r].layer] \in Seq(Knn!Entry)
           /\ key_matrices[query[r].layer] \in Seq(Knn!Entry)
<1>1. query[r] \in Knn!Queries
  BY DEF Knn!TypeOK
<1>2. query[r].layer \in Layers /\ query[r].k \in TopK
  BY <1>1 DEF Knn!Queries
<1>3. QED
  BY <1>1, <1>2 DEF Knn!TypeOK

LEMMA AnswerTypes ==
    /\ Knn!NoAnswer \in [kind : {"none", "panic", "hits"}, hits : SUBSET (Knn!Entry \X Knn!Entry)]
    /\ Knn!Failure \in [kind : {"none", "panic", "hits"}, hits : SUBSET (Knn!Entry \X Knn!Entry)]
    /\ \A h \in SUBSET (Knn!Entry \X Knn!Entry) :
         Knn!Hits(h) \in [kind : {"none", "panic", "hits"}, hits : SUBSET (Knn!Entry \X Knn!Entry)]
BY DEF Knn!NoAnswer, Knn!Failure, Knn!Hits

\* Ending a query keeps the types, whatever the answer.
LEMMA EndsType ==
    ASSUME Knn!TypeOK, NEW r \in Readers,
           NEW a \in [kind : {"none", "panic", "hits"}, hits : SUBSET (Knn!Entry \X Knn!Entry)],
           Knn!Ends(r, a)
    PROVE  /\ query' \in [Readers -> Knn!Queries \cup {Knn!NoQuery}]
           /\ answer' \in [Readers -> [kind : {"none", "panic", "hits"},
                                       hits : SUBSET (Knn!Entry \X Knn!Entry)]]
BY DEF Knn!TypeOK, Knn!Ends

\* The next step of a query.
LEMMA StepType ==
    ASSUME Knn!TypeOK, NEW r \in Readers, query[r] # Knn!NoQuery,
           NEW s \in {"rebuild", "clear", "score"}, query' = [query EXCEPT ![r].step = s]
    PROVE  /\ query' \in [Readers -> Knn!Queries \cup {Knn!NoQuery}]
           /\ query'[r] # Knn!NoQuery
           /\ query'[r].step = s /\ query'[r].layer = query[r].layer
           /\ \A q \in Readers \ {r} : query'[q] = query[q]
<1>1. query[r] \in Knn!Queries
  BY DEF Knn!TypeOK
<1>2. [query[r] EXCEPT !.step = s] \in Knn!Queries
  BY <1>1 DEF Knn!Queries
<1>3. query'[r] = [query[r] EXCEPT !.step = s]
  BY DEF Knn!TypeOK
<1>4. query'[r].step = s /\ query'[r].layer = query[r].layer
  BY <1>1, <1>3 DEF Knn!Queries
<1>5. [query[r] EXCEPT !.step = s] # Knn!NoQuery
  <2>1. DOMAIN [query[r] EXCEPT !.step = s] # DOMAIN Knn!NoQuery
    BY <1>1 DEF Knn!Queries, Knn!NoQuery
  <2>2. QED
    BY <2>1
<1>6. QED
  BY <1>2, <1>3, <1>4, <1>5 DEF Knn!TypeOK

----------------------------------------------------------------------------
(* Types *)

\* The type invariant of the store, for any number of readers and layers.
THEOREM StoreTypeCorrect == Knn!Spec => []Knn!TypeOK
<1>1. Knn!Init => Knn!TypeOK
  BY AnswerTypes, EmptyLists DEF Knn!Init, Knn!TypeOK
<1>2. Knn!TypeOK /\ [Knn!Next]_(Knn!vars) => Knn!TypeOK'
  <2> SUFFICES ASSUME Knn!TypeOK, [Knn!Next]_(Knn!vars) PROVE Knn!TypeOK'
    OBVIOUS
  <2>1. ASSUME NEW l \in Layers, NEW e \in Knn!Entry, Knn!add(l, e) PROVE Knn!TypeOK'
    <3>1. entries' = [entries EXCEPT ![l] = Append(@, e)]
      BY <2>1 DEF Knn!add
    <3>2. Append(entries[l], e) \in Seq(Knn!Entry)
      BY AppendType DEF Knn!TypeOK
    <3>3. entries' \in [Layers -> Seq(Knn!Entry)]
      BY <3>1, <3>2 DEF Knn!TypeOK
    <3>4. QED
      BY <2>1, <3>3 DEF Knn!add, Knn!TypeOK
  <2>2. ASSUME NEW gone, Knn!remove_by(gone) PROVE Knn!TypeOK'
    <3>1. \A l \in Layers : Retained(entries[l], gone) \in Seq(Knn!Entry)
      BY RetainedFacts DEF Knn!TypeOK
    <3>2. entries' \in [Layers -> Seq(Knn!Entry)]
      BY <2>2, <3>1, StoreOperators DEF Knn!remove_by
    <3>3. QED
      BY <2>2, <3>2 DEF Knn!remove_by, Knn!Shrunk, Knn!TypeOK
  <2>3. CASE Knn!Replace
    BY <2>3, EmptyLists DEF Knn!Replace, Knn!TypeOK
  <2>4. CASE Knn!Renew
    BY <2>4, EmptyLists DEF Knn!Renew, Knn!TypeOK
  <2>5. ASSUME NEW r \in Readers, Knn!Reader(r) PROVE Knn!TypeOK'
    <3>1. ASSUME NEW l \in Layers, Knn!QueryEmpty(r, l) PROVE Knn!TypeOK'
      <4>1. Knn!Hits({}) \in [kind : {"none", "panic", "hits"}, hits : SUBSET (Knn!Entry \X Knn!Entry)]
        BY AnswerTypes
      <4>2. QED
        BY <3>1, <4>1 DEF Knn!QueryEmpty, Knn!TypeOK
    <3>2. ASSUME NEW l \in Layers, NEW k \in TopK, Knn!StartQuery(r, l, k) PROVE Knn!TypeOK'
      <4>1. [step |-> IF l \in dirty THEN "rebuild" ELSE "score", layer |-> l, k |-> k] \in Knn!Queries
        BY DEF Knn!Queries
      <4>2. QED
        BY <3>2, <4>1, AnswerTypes DEF Knn!StartQuery, Knn!TypeOK
    <3>3. CASE Knn!BuildPanics(r)
      BY <3>3, AnswerTypes, EndsType DEF Knn!BuildPanics, Knn!TypeOK
    <3>4. CASE Knn!InsertPanics(r)
      BY <3>4, AnswerTypes, EndsType DEF Knn!InsertPanics, Knn!TypeOK
    <3>5. CASE Knn!InsertMatrix(r)
      <4>1. query[r] # Knn!NoQuery
        BY <3>5 DEF Knn!InsertMatrix
      <4>2. query' \in [Readers -> Knn!Queries \cup {Knn!NoQuery}]
        BY <3>5, <4>1, StepType DEF Knn!InsertMatrix
      <4>3. key_matrices' \in [Layers -> Seq(Knn!Entry)]
        BY <3>5, <4>1, QueryType DEF Knn!InsertMatrix, Knn!TypeOK
      <4>4. QED
        BY <3>5, <4>2, <4>3 DEF Knn!InsertMatrix, Knn!TypeOK
    <3>6. CASE Knn!ClearMark(r)
      <4>1. query[r] # Knn!NoQuery
        BY <3>6 DEF Knn!ClearMark
      <4>2. query' \in [Readers -> Knn!Queries \cup {Knn!NoQuery}]
        BY <3>6, <4>1, StepType DEF Knn!ClearMark
      <4>3. QED
        BY <3>6, <4>2 DEF Knn!ClearMark, Knn!TypeOK
    <3>7. CASE Knn!ScorePanics(r)
      BY <3>7, AnswerTypes, EndsType DEF Knn!ScorePanics, Knn!TypeOK
    <3>8. CASE Knn!Score(r)
      <4> DEFINE list == entries[query[r].layer]
                 rows == key_matrices[query[r].layer]
      <4>1. query[r] # Knn!NoQuery
        BY <3>8 DEF Knn!Score, Knn!Scoring
      <4>2. list \in Seq(Knn!Entry) /\ rows \in Seq(Knn!Entry)
        BY <4>1, QueryType
      <4>3. PICK s \in Knn!Nearest(Len(rows), query[r].k) :
              /\ Knn!Ends(r, IF s \subseteq 1 .. Len(list)
                         THEN Knn!Hits({<<list[i], rows[i]>> : i \in s}) ELSE Knn!Failure)
              /\ poisoned' = ~(s \subseteq 1 .. Len(list))
        BY <3>8 DEF Knn!Score
      <4>4. s \subseteq 1 .. Len(rows)
        BY DEF Knn!Nearest
      <4> HIDE DEF list, rows
      <4>5. CASE s \subseteq 1 .. Len(list)
        <5>1. {<<list[i], rows[i]>> : i \in s} \in SUBSET (Knn!Entry \X Knn!Entry)
          BY <4>2, <4>4, <4>5
        <5>2. Knn!Ends(r, Knn!Hits({<<list[i], rows[i]>> : i \in s}))
          BY <4>3, <4>5
        <5>3. Knn!Hits({<<list[i], rows[i]>> : i \in s})
                \in [kind : {"none", "panic", "hits"}, hits : SUBSET (Knn!Entry \X Knn!Entry)]
          BY <5>1, AnswerTypes
        <5>4. QED
          BY <3>8, <4>3, <5>2, <5>3, EndsType DEF Knn!Score, Knn!TypeOK
      <4>6. CASE ~(s \subseteq 1 .. Len(list))
        BY <3>8, <4>3, <4>6, AnswerTypes, EndsType DEF Knn!Score, Knn!TypeOK
      <4>7. QED
        BY <4>5, <4>6
    <3>9. QED
      BY <2>5, <3>1, <3>2, <3>3, <3>4, <3>5, <3>6, <3>7, <3>8 DEF Knn!Reader
  <2>6. CASE UNCHANGED Knn!vars
    BY <2>6 DEF Knn!vars, Knn!TypeOK
  <2>7. QED
    BY <2>1, <2>2, <2>3, <2>4, <2>5, <2>6 DEF Knn!Next, Knn!Writer
<1>3. QED
  BY <1>1, <1>2, PTL DEF Knn!Spec
----------------------------------------------------------------------------
(* Matrices and marks *)

\* The reader is past the mark: the matrix of its layer is current.
PastMark(r) == query[r] # Knn!NoQuery /\ query[r].step # "rebuild"

\* CleanIsCurrent is inductive, given the types.
LEMMA CleanStep ==
    ASSUME Knn!TypeOK, Knn!TypeOK', Knn!CleanIsCurrent, [Knn!Next]_(Knn!vars)
    PROVE  Knn!CleanIsCurrent'
<1>1. ASSUME NEW l \in Layers, NEW e \in Knn!Entry, Knn!add(l, e) PROVE Knn!CleanIsCurrent'
  <2>1. \A m \in Layers \ {l} : entries'[m] = entries[m]
    BY <1>1 DEF Knn!add, Knn!TypeOK
  <2>2. \A r \in Readers : query'[r] = Knn!NoQuery
    BY <1>1 DEF Knn!add, Knn!Owned
  <2>3. QED
    BY <1>1, <2>1, <2>2 DEF Knn!add, Knn!CleanIsCurrent
<1>2. ASSUME NEW gone, Knn!remove_by(gone) PROVE Knn!CleanIsCurrent'
  <2>1. ASSUME NEW l \in Layers, entries'[l] # <<>>, l \notin dirty'
        PROVE  key_matrices'[l] = entries'[l]
    <3>1. entries'[l] = Retained(entries[l], gone)
      BY <1>2, StoreOperators DEF Knn!remove_by
    <3>2. l \notin dirty /\ Len(Retained(entries[l], gone)) = Len(entries[l])
      BY <1>2, <2>1, StoreOperators DEF Knn!remove_by, Knn!Shrunk
    <3>3. entries[l] \in Seq(Knn!Entry)
      BY DEF Knn!TypeOK
    <3>4. entries'[l] = entries[l]
      BY <3>1, <3>2, <3>3, RetainedFacts
    <3>5. QED
      BY <1>2, <2>1, <3>2, <3>4 DEF Knn!remove_by, Knn!CleanIsCurrent
  <2>2. \A r \in Readers : query'[r] = Knn!NoQuery
    BY <1>2 DEF Knn!remove_by, Knn!Owned
  <2>3. QED
    BY <2>1, <2>2 DEF Knn!CleanIsCurrent
<1>3. CASE Knn!Replace
  BY <1>3 DEF Knn!Replace, Knn!Owned, Knn!CleanIsCurrent
<1>4. CASE Knn!Renew
  BY <1>4 DEF Knn!Renew, Knn!Owned, Knn!CleanIsCurrent
<1>5. ASSUME NEW r \in Readers, Knn!Reader(r) PROVE Knn!CleanIsCurrent'
  <2>1. ASSUME UNCHANGED <<entries, key_matrices, dirty>>,
               \A q \in Readers \ {r} : query'[q] = query[q],
               PastMark(r)' => key_matrices'[query'[r].layer] = entries'[query'[r].layer]
        PROVE  Knn!CleanIsCurrent'
    BY <2>1 DEF Knn!CleanIsCurrent, PastMark
  <2>2. ASSUME UNCHANGED <<entries, key_matrices, dirty>>, NEW a, Knn!Ends(r, a)
        PROVE  Knn!CleanIsCurrent'
    <3>1. query'[r] = Knn!NoQuery /\ \A q \in Readers \ {r} : query'[q] = query[q]
      BY <2>2 DEF Knn!Ends, Knn!TypeOK
    <3>2. QED
      BY <2>1, <2>2, <3>1 DEF PastMark
  <2>3. ASSUME NEW l \in Layers, Knn!QueryEmpty(r, l) PROVE Knn!CleanIsCurrent'
    BY <2>3 DEF Knn!QueryEmpty, Knn!CleanIsCurrent
  <2>4. ASSUME NEW l \in Layers, NEW k \in TopK, Knn!StartQuery(r, l, k) PROVE Knn!CleanIsCurrent'
    <3>1. /\ query'[r] = [step |-> IF l \in dirty THEN "rebuild" ELSE "score",
                          layer |-> l, k |-> k]
          /\ \A q \in Readers \ {r} : query'[q] = query[q]
          /\ entries[l] # <<>>
          /\ UNCHANGED <<entries, key_matrices, dirty>>
      BY <2>4 DEF Knn!StartQuery, Knn!TypeOK
    <3>2. l \notin dirty => key_matrices[l] = entries[l]
      BY <3>1 DEF Knn!CleanIsCurrent
    <3>3. QED
      BY <2>1, <3>1, <3>2 DEF PastMark
  <2>5. CASE Knn!InsertMatrix(r)
    <3> DEFINE l == query[r].layer
    <3>1. query[r] # Knn!NoQuery /\ l \in Layers
      BY <2>5, QueryType DEF Knn!InsertMatrix
    <3>2. /\ query'[r].layer = l
          /\ \A q \in Readers \ {r} : query'[q] = query[q]
      BY <2>5, <3>1, StepType DEF Knn!InsertMatrix
    <3>3. /\ key_matrices'[l] = entries'[l]
          /\ \A m \in Layers \ {l} : key_matrices'[m] = key_matrices[m]
          /\ entries' = entries /\ dirty' = dirty
      BY <2>5, <3>1 DEF Knn!InsertMatrix, Knn!TypeOK
    <3>4. \A q \in Readers : query[q] # Knn!NoQuery => query[q].layer \in Layers
      BY QueryType
    <3> HIDE DEF l
    <3>5. \A m \in Layers : key_matrices[m] = entries[m] => key_matrices'[m] = entries'[m]
      BY <3>3
    <3>6. ASSUME NEW q \in Readers, query'[q] # Knn!NoQuery, query'[q].step # "rebuild"
          PROVE  key_matrices'[query'[q].layer] = entries'[query'[q].layer]
      <4>1. CASE q = r
        BY <3>2, <3>3, <4>1
      <4>2. CASE q # r
        BY <3>2, <3>4, <3>5, <3>6, <4>2 DEF Knn!CleanIsCurrent
      <4>3. QED
        BY <4>1, <4>2
    <3>7. QED
      BY <3>3, <3>5, <3>6 DEF Knn!CleanIsCurrent
  <2>6. CASE Knn!ClearMark(r)
    <3> DEFINE l == query[r].layer
    <3>1. query[r] # Knn!NoQuery /\ query[r].step = "clear" /\ l \in Layers
      BY <2>6, QueryType DEF Knn!ClearMark
    <3>2. key_matrices[l] = entries[l]
      BY <3>1 DEF Knn!CleanIsCurrent
    <3>3. /\ query'[r].layer = l
          /\ \A q \in Readers \ {r} : query'[q] = query[q]
      BY <2>6, <3>1, StepType DEF Knn!ClearMark
    <3>4. dirty' = dirty \ {l} /\ UNCHANGED <<entries, key_matrices>>
      BY <2>6 DEF Knn!ClearMark
    <3> HIDE DEF l
    <3>5. QED
      BY <3>2, <3>3, <3>4 DEF Knn!CleanIsCurrent
  <2>7. CASE Knn!BuildPanics(r)
    BY <2>2, <2>7 DEF Knn!BuildPanics
  <2>8. CASE Knn!InsertPanics(r)
    BY <2>2, <2>8 DEF Knn!InsertPanics
  <2>9. CASE Knn!ScorePanics(r)
    BY <2>2, <2>9 DEF Knn!ScorePanics
  <2>10. CASE Knn!Score(r)
    <3>1. \E a : Knn!Ends(r, a)
      BY <2>10 DEF Knn!Score
    <3>2. QED
      BY <2>2, <2>10, <3>1 DEF Knn!Score
  <2>11. QED
    BY <1>5, <2>3, <2>4, <2>5, <2>6, <2>7, <2>8, <2>9, <2>10 DEF Knn!Reader
<1>6. CASE UNCHANGED Knn!vars
  BY <1>6 DEF Knn!vars, Knn!CleanIsCurrent
<1>7. QED
  BY <1>1, <1>2, <1>3, <1>4, <1>5, <1>6 DEF Knn!Next, Knn!Writer

\* The matrix of a layer that is not marked dirty is current, however readers
\* overlap in the two locks of a rebuild.
THEOREM CleanIsCurrentAlways == Knn!Spec => []Knn!CleanIsCurrent
<1>1. Knn!Init => Knn!CleanIsCurrent
  BY DEF Knn!Init, Knn!CleanIsCurrent
<1>2. Knn!TypeOK /\ Knn!TypeOK' /\ Knn!CleanIsCurrent /\ [Knn!Next]_(Knn!vars) => Knn!CleanIsCurrent'
  BY CleanStep
<1>3. QED
  BY <1>1, <1>2, StoreTypeCorrect, PTL DEF Knn!Spec
----------------------------------------------------------------------------
(* The store answers from its entries *)

\* A store that is not spoiled holds keys of one width.
WidthsFit ==
    ~spoiled => \A l \in Layers : \A i \in 1 .. Len(entries[l]) : entries[l][i].width = Hidden

\* The mutex of the matrices is poisoned in a spoiled store only.
PoisonTells == poisoned => spoiled

Sound == WidthsFit /\ PoisonTells

LEMMA FailureIsSpoiled ==
    ASSUME Knn!KnnAssumption, Knn!TypeOK, Knn!CleanIsCurrent, Sound, NEW r \in Readers,
           Knn!BuildPanics(r) \/ Knn!InsertPanics(r) \/ Knn!ScorePanics(r)
    PROVE  spoiled
<1> SUFFICES ASSUME ~spoiled PROVE FALSE
  OBVIOUS
<1> DEFINE l == query[r].layer
<1>1. query[r] # Knn!NoQuery
  BY DEF Knn!BuildPanics, Knn!InsertPanics, Knn!ScorePanics, Knn!Scoring
<1>2. l \in Layers /\ entries[l] \in Seq(Knn!Entry)
  BY <1>1, QueryType
<1> HIDE DEF l
<1>3. \A i \in 1 .. Len(entries[l]) : entries[l][i].width = Hidden
  BY <1>2 DEF Sound, WidthsFit
<1>4. ~poisoned
  BY DEF Sound, PoisonTells
<1>5. Len(entries[l]) \in Nat /\ Hidden \in Nat
  BY <1>2 DEF Knn!KnnAssumption
<1>6. Knn!Fits(entries[l])
  <2>1. ASSUME NEW i \in 1 .. Len(entries[l])
        PROVE  entries[l][i].width <= entries[l][1].width
    <3>1. 1 \in 1 .. Len(entries[l])
      BY <1>5
    <3>2. entries[l][i].width = Hidden /\ entries[l][1].width = Hidden
      BY <1>3, <3>1
    <3>3. QED
      BY <1>5, <3>2
  <2>2. QED
    BY <2>1 DEF Knn!Fits
<1>7. CASE Knn!BuildPanics(r)
  BY <1>6, <1>7 DEF Knn!BuildPanics, l
<1>8. CASE Knn!InsertPanics(r)
  BY <1>4, <1>8 DEF Knn!InsertPanics
<1>9. CASE Knn!ScorePanics(r)
  <2>1. key_matrices[l] = entries[l]
    BY <1>9 DEF Knn!ScorePanics, Knn!Scoring, Knn!CleanIsCurrent, l
  <2>2. ~Knn!Scorable(key_matrices[l])
    BY <1>4, <1>9 DEF Knn!ScorePanics, l
  <2>3. entries[l] # <<>> /\ entries[l][1].width # Hidden
    BY <2>1, <2>2 DEF Knn!Scorable
  <2>4. 1 \in 1 .. Len(entries[l])
    BY <1>2, <2>3
  <2>5. QED
    BY <1>3, <2>3, <2>4
<1>10. QED
  BY <1>7, <1>8, <1>9

LEMMA ScoreFinds ==
    ASSUME Knn!TypeOK, Knn!CleanIsCurrent, NEW r \in Readers, Knn!Score(r)
    PROVE  /\ query[r].layer \in Layers /\ query[r].k \in TopK
           /\ ~poisoned'
           /\ \E s \in Knn!Nearest(Len(entries[query[r].layer]), query[r].k) :
                Knn!Ends(r, Knn!Hits({<<entries[query[r].layer][i], entries[query[r].layer][i]>> : i \in s}))
<1> DEFINE list == entries[query[r].layer]
           rows == key_matrices[query[r].layer]
<1>1. query[r] # Knn!NoQuery /\ query[r].step = "score"
  BY DEF Knn!Score, Knn!Scoring
<1>2. query[r].layer \in Layers /\ query[r].k \in TopK
  BY <1>1, QueryType
<1>3. rows = list
  BY <1>1 DEF Knn!CleanIsCurrent
<1>4. PICK s \in Knn!Nearest(Len(rows), query[r].k) :
        /\ Knn!Ends(r, IF s \subseteq 1 .. Len(list)
                   THEN Knn!Hits({<<list[i], rows[i]>> : i \in s}) ELSE Knn!Failure)
        /\ poisoned' = ~(s \subseteq 1 .. Len(list))
  BY DEF Knn!Score
<1> HIDE DEF list, rows
<1>5. s \subseteq 1 .. Len(list)
  BY <1>3 DEF Knn!Nearest
<1>6. Knn!Ends(r, Knn!Hits({<<list[i], list[i]>> : i \in s}))
  BY <1>3, <1>4, <1>5
<1>7. s \in Knn!Nearest(Len(list), query[r].k)
  BY <1>3
<1>8. QED
  BY <1>2, <1>4, <1>5, <1>6, <1>7 DEF list

LEMMA SoundStep ==
    ASSUME Knn!KnnAssumption, Knn!TypeOK, Knn!CleanIsCurrent, Sound, [Knn!Next]_(Knn!vars)
    PROVE  Sound'
<1>1. ASSUME NEW l \in Layers, NEW e \in Knn!Entry, Knn!add(l, e) PROVE Sound'
  <2> SUFFICES ASSUME ~spoiled' PROVE WidthsFit'
    BY <1>1 DEF Knn!add, Sound, PoisonTells, WidthsFit
  <2>1. ~spoiled /\ e.width = Hidden
    BY <1>1 DEF Knn!add
  <2>2. entries[l] \in Seq(Knn!Entry)
    BY DEF Knn!TypeOK
  <2>3. entries'[l] = Append(entries[l], e) /\ \A m \in Layers \ {l} : entries'[m] = entries[m]
    BY <1>1 DEF Knn!add, Knn!TypeOK
  <2>4. ASSUME NEW i \in 1 .. Len(entries'[l]) PROVE entries'[l][i].width = Hidden
    <3>1. /\ Len(entries'[l]) = Len(entries[l]) + 1
          /\ \A j \in 1 .. Len(entries[l]) : entries'[l][j] = entries[l][j]
          /\ entries'[l][Len(entries[l]) + 1] = e
      BY <2>2, <2>3, AppendType
    <3>2. i \in 1 .. Len(entries[l]) \/ i = Len(entries[l]) + 1
      BY <2>2, <3>1
    <3>3. QED
      BY <2>1, <3>1, <3>2 DEF Sound, WidthsFit
  <2>5. QED
    BY <2>1, <2>3, <2>4 DEF Sound, WidthsFit
<1>2. ASSUME NEW gone, Knn!remove_by(gone) PROVE Sound'
  <2> SUFFICES ASSUME ~spoiled PROVE WidthsFit'
    BY <1>2 DEF Knn!remove_by, Sound, PoisonTells, WidthsFit
  <2>1. ASSUME NEW l \in Layers, NEW i \in 1 .. Len(entries'[l]) PROVE entries'[l][i].width = Hidden
    <3>1. entries'[l] = Retained(entries[l], gone)
      BY <1>2, StoreOperators DEF Knn!remove_by
    <3>2. entries[l] \in Seq(Knn!Entry)
      BY DEF Knn!TypeOK
    <3>3. PICK j \in 1 .. Len(entries[l]) : entries'[l][i] = entries[l][j]
      BY <2>1, <3>1, <3>2, RetainedFacts
    <3>4. QED
      BY <3>3 DEF Sound, WidthsFit
  <2>2. QED
    BY <2>1 DEF WidthsFit
<1>3. CASE Knn!Replace
  <2>1. \A l \in Layers : entries'[l] = <<>>
    BY <1>3 DEF Knn!Replace
  <2>2. \A l \in Layers : Len(entries'[l]) = 0
    BY <2>1
  <2>3. QED
    BY <1>3, <2>2 DEF Knn!Replace, Sound, WidthsFit, PoisonTells
<1>4. CASE Knn!Renew
  BY <1>4 DEF Knn!Renew, Sound, WidthsFit, PoisonTells
<1>5. ASSUME NEW r \in Readers, Knn!Reader(r) PROVE Sound'
  <2>1. ASSUME UNCHANGED <<entries, spoiled>>, poisoned' => poisoned \/ spoiled PROVE Sound'
    BY <2>1 DEF Sound, WidthsFit, PoisonTells
  <2>2. ASSUME NEW l \in Layers, Knn!QueryEmpty(r, l) PROVE Sound'
    BY <2>1, <2>2 DEF Knn!QueryEmpty
  <2>3. ASSUME NEW l \in Layers, NEW k \in TopK, Knn!StartQuery(r, l, k) PROVE Sound'
    BY <2>1, <2>3 DEF Knn!StartQuery
  <2>4. CASE Knn!BuildPanics(r)
    BY <2>1, <2>4 DEF Knn!BuildPanics
  <2>5. CASE Knn!InsertPanics(r)
    BY <2>1, <2>5 DEF Knn!InsertPanics
  <2>6. CASE Knn!InsertMatrix(r)
    BY <2>1, <2>6 DEF Knn!InsertMatrix
  <2>7. CASE Knn!ClearMark(r)
    BY <2>1, <2>7 DEF Knn!ClearMark
  <2>8. CASE Knn!ScorePanics(r)
    <3>1. spoiled
      BY <2>8, FailureIsSpoiled
    <3>2. QED
      BY <2>1, <2>8, <3>1 DEF Knn!ScorePanics
  <2>9. CASE Knn!Score(r)
    <3>1. ~poisoned'
      BY <2>9, ScoreFinds
    <3>2. QED
      BY <2>1, <2>9, <3>1 DEF Knn!Score
  <2>10. QED
    BY <1>5, <2>2, <2>3, <2>4, <2>5, <2>6, <2>7, <2>8, <2>9 DEF Knn!Reader
<1>6. CASE UNCHANGED Knn!vars
  BY <1>6 DEF Knn!vars, Sound, WidthsFit, PoisonTells
<1>7. QED
  BY <1>1, <1>2, <1>3, <1>4, <1>5, <1>6 DEF Knn!Next, Knn!Writer

\* The operators of the abstract store are those of the store.
LEMMA SameCardinality == \A S : Knn!Facade!Cardinality(S) = Cardinality(S)
BY Zenon DEF Cardinality, Knn!Facade!Cardinality

LEMMA SameNearest ==
    ASSUME NEW n, NEW k
    PROVE  Knn!Facade!Nearest(n, k) = Knn!Nearest(n, k)
BY SameCardinality, StoreOperators DEF Knn!Nearest, Knn!Facade!Nearest

LEMMA SameRetained ==
    ASSUME NEW l, NEW gone
    PROVE  Knn!Facade!Retained(l, gone) = Retained(l, gone)
BY Zenon DEF Retained, Nth, Cardinality,
             Knn!Facade!Retained, Knn!Facade!Nth, Knn!Facade!Cardinality

\* Every step of the store is one of the abstract store, or changes nothing of it.
LEMMA StepAnswers ==
    ASSUME Knn!KnnAssumption, Knn!TypeOK, Knn!CleanIsCurrent, Sound, [Knn!Next]_(Knn!vars)
    PROVE  [Knn!Facade!Next]_(Knn!Facade!vars)
<1>1. ASSUME NEW l \in Layers, NEW e \in Knn!Entry, Knn!add(l, e) PROVE Knn!Facade!Next
  <2>1. Knn!Facade!Add(l, e)
    BY <1>1 DEF Knn!add, Knn!Facade!Add
  <2>2. QED
    BY <2>1 DEF Knn!Facade!Next
<1>2. ASSUME NEW n \in Entities, NEW s \in SUBSET Relations, Knn!remove_by(Knn!Matching(n, s))
      PROVE  Knn!Facade!Next
  <2>1. Knn!Matching(n, s) = Knn!Facade!Matching(n, s)
    BY DEF Knn!Matching, Knn!Facade!Matching
  <2>2. Knn!Facade!Withdraw(Knn!Matching(n, s))
    BY <1>2, SameRetained, StoreOperators DEF Knn!remove_by, Knn!Facade!Withdraw
  <2>3. Knn!Facade!Withdraw(Knn!Facade!Matching(n, s))
    BY <2>1, <2>2, Zenon
  <2>4. QED
    BY <2>3 DEF Knn!Facade!Next
<1>3. CASE Knn!Replace
  <2>1. Knn!Facade!Forget
    BY <1>3 DEF Knn!Replace, Knn!Facade!Forget
  <2>2. QED
    BY <2>1 DEF Knn!Facade!Next
<1>4. CASE Knn!Renew
  BY <1>4 DEF Knn!Renew, Knn!Facade!vars
<1>5. ASSUME NEW r \in Readers, Knn!Reader(r) PROVE [Knn!Facade!Next]_(Knn!Facade!vars)
  <2>1. ASSUME NEW l \in Layers, Knn!QueryEmpty(r, l) PROVE Knn!Facade!Next
    <3>0. \E k : k \in TopK
      BY DEF Knn!KnnAssumption
    <3>1. PICK k \in TopK : k \in Nat /\ 0 < k
      BY <3>0 DEF Knn!KnnAssumption
    <3>2. Len(entries[l]) = 0
      BY <2>1 DEF Knn!QueryEmpty
    <3>3. {} \in Knn!Facade!Nearest(Len(entries[l]), k)
      <4>1. {} \in SUBSET (1 .. 0) /\ Cardinality({}) = IF 0 < k THEN 0 ELSE k
        BY <3>1, FS_EmptySet
      <4>2. QED
        BY <3>2, <4>1, SameNearest, StoreOperators DEF Knn!Nearest
    <3>4. {<<entries[l][i], entries[l][i]>> : i \in {}} = {}
      OBVIOUS
    <3>5. Knn!Facade!Query(r, l, k)
      BY <2>1, <3>3, <3>4 DEF Knn!QueryEmpty, Knn!Facade!Query, Knn!Hits, Knn!Facade!Hits
    <3>6. QED
      BY <3>5 DEF Knn!Facade!Next
  <2>2. ASSUME NEW l \in Layers, NEW k \in TopK, Knn!StartQuery(r, l, k) PROVE Knn!Facade!Next
    <3>1. Knn!Facade!Ask(r)
      BY <2>2 DEF Knn!StartQuery, Knn!Facade!Ask, Knn!NoAnswer, Knn!Facade!NoAnswer
    <3>2. QED
      BY <3>1 DEF Knn!Facade!Next
  <2>3. CASE Knn!BuildPanics(r) \/ Knn!InsertPanics(r) \/ Knn!ScorePanics(r)
    <3>1. spoiled
      BY <2>3, FailureIsSpoiled
    <3>2. Knn!Facade!Fail(r)
      BY <2>3, <3>1 DEF Knn!BuildPanics, Knn!InsertPanics, Knn!ScorePanics, Knn!Ends, Knn!Failure,
                        Knn!Facade!Fail, Knn!Facade!Failure
    <3>3. QED
      BY <3>2 DEF Knn!Facade!Next
  <2>4. CASE Knn!InsertMatrix(r)
    BY <2>4 DEF Knn!InsertMatrix, Knn!Facade!vars
  <2>5. CASE Knn!ClearMark(r)
    BY <2>5 DEF Knn!ClearMark, Knn!Facade!vars
  <2>6. CASE Knn!Score(r)
    <3> DEFINE l == query[r].layer
               k == query[r].k
    <3>1. l \in Layers /\ k \in TopK
      BY <2>6, ScoreFinds
    <3>2. PICK s \in Knn!Nearest(Len(entries[l]), k) :
            Knn!Ends(r, Knn!Hits({<<entries[l][i], entries[l][i]>> : i \in s}))
      BY <2>6, ScoreFinds
    <3> HIDE DEF l, k
    <3>3. s \in Knn!Facade!Nearest(Len(entries[l]), k)
      BY SameNearest
    <3>4. answer' = [answer EXCEPT ![r] =
                       Knn!Facade!Hits({<<entries[l][i], entries[l][i]>> : i \in s})]
      BY <3>2 DEF Knn!Ends, Knn!Hits, Knn!Facade!Hits
    <3>5. UNCHANGED <<entries, spoiled>>
      BY <2>6 DEF Knn!Score
    <3>6. Knn!Facade!Query(r, l, k)
      BY <3>3, <3>4, <3>5 DEF Knn!Facade!Query
    <3>7. QED
      BY <3>1, <3>6 DEF Knn!Facade!Next
  <2>7. QED
    BY <1>5, <2>1, <2>2, <2>3, <2>4, <2>5, <2>6 DEF Knn!Reader
<1>6. CASE UNCHANGED Knn!vars
  BY <1>6 DEF Knn!vars, Knn!Facade!vars
<1>7. QED
  BY <1>1, <1>2, <1>3, <1>4, <1>5, <1>6 DEF Knn!Next, Knn!Writer

\* With its lazy matrices, marks and mutexes, and any overlap of any number of
\* readers, the store is one that answers at once from its entries.
THEOREM StoreAnswersFromEntries ==
    ASSUME Knn!KnnAssumption
    PROVE  Knn!Spec => Knn!AnswersFromEntries
<1>1. Knn!Init => Knn!Facade!Init
  BY DEF Knn!Init, Knn!Facade!Init, Knn!NoAnswer, Knn!Facade!NoAnswer
<1>2. Knn!Init => Sound
  <2>1. Len(<<>>) = 0
    OBVIOUS
  <2>2. QED
    BY <2>1 DEF Knn!Init, Sound, WidthsFit, PoisonTells
<1>3. Knn!TypeOK /\ Knn!CleanIsCurrent /\ Sound /\ [Knn!Next]_(Knn!vars) => Sound'
  BY SoundStep
<1>4. Knn!TypeOK /\ Knn!CleanIsCurrent /\ Sound /\ [Knn!Next]_(Knn!vars) => [Knn!Facade!Next]_(Knn!Facade!vars)
  BY StepAnswers
<1>5. QED
  BY <1>1, <1>2, <1>3, <1>4, StoreTypeCorrect, CleanIsCurrentAlways, PTL
     DEF Knn!Spec, Knn!AnswersFromEntries, Knn!Facade!Spec

----------------------------------------------------------------------------
(* The store under the steps of the overlay *)

\* Every step of the overlay is one of the store, or leaves the store alone.
LEMMA StoreSteps ==
    ASSUME TypeOK, [Next]_vars
    PROVE  [Knn!Next]_(Knn!vars)
<1>1. knnVars' = knnVars => Knn!vars' = Knn!vars
  BY DEF knnVars, Knn!vars
<1>2. ASSUME NEW o \in Op, OnKnn(o) PROVE Knn!Next
  <2>1. CASE o.kind = "insertknn" /\ Knn!add(o.layer, o.entry)
    <3>1. o \in KnnOp
      BY <2>1 DEF Op, SlotOp
    <3>2. o.layer \in Layers /\ o.entry \in Knn!Entry
      BY <2>1, <3>1 DEF KnnOp
    <3>3. Knn!add(o.layer, o.entry)
      BY <2>1, <3>2
    <3>4. QED
      BY <3>2, <3>3 DEF Knn!Next, Knn!Writer
  <2>2. CASE o.kind = "deleteknn" /\ Knn!remove_by(Knn!Matching(o.entity, Relations))
    <3>1. o \in KnnOp
      BY <2>2 DEF Op, SlotOp
    <3>2. o.entity \in Entities
      BY <2>2, <3>1 DEF KnnOp
    <3>3. Knn!remove_by(Knn!Matching(o.entity, Relations))
      BY <2>2
    <3>4. Relations \in SUBSET Relations
      OBVIOUS
    <3>5. QED
      BY <3>2, <3>3, <3>4 DEF Knn!Next, Knn!Writer
  <2>3. QED
    BY <1>2, <2>1, <2>2 DEF OnKnn
<1>3. ASSUME NEW o, OnSlot(o) PROVE knnVars' = knnVars
  BY <1>3 DEF OnSlot
<1>4. ASSUME NEW p \in PatchFiles, StartPatch(p) PROVE knnVars' = knnVars
  BY <1>4 DEF StartPatch
<1>5. CASE ApplyOp
  <2>1. Head(todo)[done + 1] \in Op
    BY <1>5, NextOp DEF ApplyOp
  <2>2. QED
    BY <1>1, <1>2, <1>3, <1>5, <2>1 DEF ApplyOp
<1>6. CASE PushPatch
  BY <1>1, <1>6 DEF PushPatch
<1>7. ASSUME NEW i \in 1 .. MaxOps, RemovePatch(i) PROVE Knn!Next
  BY <1>7 DEF RemovePatch, Knn!Next, Knn!Writer
<1>8. CASE DirectEdit
  <2>1. CASE RenewKnn
    BY <2>1 DEF RenewKnn, Knn!Next, Knn!Writer
  <2>2. CASE ~RenewKnn
    <3>1. knnVars' = knnVars
      BY <1>3, <1>8, <2>2 DEF DirectEdit, insert_feature, delete_feature, update_feature_meta,
                             set_gate_override, InsertFact
    <3>2. QED
      BY <1>1, <3>1
  <2>3. QED
    BY <2>1, <2>2
<1>9. ASSUME NEW r \in Readers, Reader(r) PROVE Knn!Next
  BY <1>9 DEF Reader, Knn!Next
<1>10. CASE UNCHANGED vars
  BY <1>1, <1>10 DEF vars
<1>11. QED
  BY <1>1, <1>4, <1>5, <1>6, <1>7, <1>8, <1>9, <1>10 DEF Next

\* KnnStore inside the overlay: whatever patches and direct edits do to the store,
\* and however its readers overlap, it answers at once from its entries.
THEOREM StoreAnswersAlways == Spec => StoreAnswers
<1>1. Init => Knn!Init
  BY DEF Init
<1>2. TypeOK /\ [Next]_vars => [Knn!Next]_(Knn!vars)
  BY StoreSteps
<1>3. Spec => Knn!Spec
  BY <1>1, <1>2, TypeCorrect, PTL DEF Spec, Knn!Spec
<1>4. QED
  BY <1>3, PatchAssumption, StoreAnswersFromEntries DEF StoreAnswers

----------------------------------------------------------------------------
(* The log replayed *)

\* Surviving, of any log.
SurvivorsOf(g, l) ==
    {i \in 1 .. Len(g) :
        /\ g[i].kind = "insertknn" /\ g[i].layer = l
        /\ \A j \in i + 1 .. Len(g) :
             g[j].kind = "deleteknn" =>
                 g[i].entry \notin Knn!Matching(g[j].entity, Relations)}

\* What survives when the log goes on.
LEMMA SurvivorsAppend ==
    ASSUME NEW g \in Seq(Op), NEW o \in Op, NEW l
    PROVE  SurvivorsOf(Append(g, o), l) =
               IF o.kind = "insertknn" /\ o.layer = l THEN SurvivorsOf(g, l) \cup {Len(g) + 1}
               ELSE IF o.kind = "deleteknn"
                    THEN {i \in SurvivorsOf(g, l) :
                             g[i].entry \notin Knn!Matching(o.entity, Relations)}
                    ELSE SurvivorsOf(g, l)
<1> DEFINE h == Append(g, o)
           n == Len(g)
           Gone(i, j) == h[j].kind = "deleteknn" /\
                           h[i].entry \in Knn!Matching(h[j].entity, Relations)
           In(i) == h[i].kind = "insertknn" /\ h[i].layer = l
<1>1. n \in Nat /\ Len(h) = n + 1 /\ h[n + 1] = o /\ \A i \in 1 .. n : h[i] = g[i]
  BY AppendType
<1>2. SurvivorsOf(h, l) = {i \in 1 .. n + 1 : In(i) /\ \A j \in i + 1 .. n + 1 : ~Gone(i, j)}
  BY <1>1 DEF SurvivorsOf
<1>3. SurvivorsOf(g, l) = {i \in 1 .. n : In(i) /\ \A j \in i + 1 .. n : ~Gone(i, j)}
  <2>1. ASSUME NEW i \in 1 .. n
        PROVE  /\ In(i) <=> g[i].kind = "insertknn" /\ g[i].layer = l
               /\ \A j \in i + 1 .. n : Gone(i, j) <=>
                     g[j].kind = "deleteknn" /\
                     g[i].entry \in Knn!Matching(g[j].entity, Relations)
    BY <1>1
  <2>2. QED
    BY <2>1 DEF SurvivorsOf
<1>4. In(n + 1) <=> o.kind = "insertknn" /\ o.layer = l
  BY <1>1
<1>5. \A i \in 1 .. n : Gone(i, n + 1) <=>
        o.kind = "deleteknn" /\ g[i].entry \in Knn!Matching(o.entity, Relations)
  BY <1>1
<1>6. PICK S : S = SurvivorsOf(g, l)
  OBVIOUS
<1>7. PICK T : T = SurvivorsOf(h, l)
  OBVIOUS
<1> HIDE DEF h, n, Gone, In
<1>8. \A i \in 1 .. n : i \in T <=> i \in S /\ ~Gone(i, n + 1)
  <2>1. ASSUME NEW i \in 1 .. n PROVE i \in T <=> i \in S /\ ~Gone(i, n + 1)
    <3>1. i \in 1 .. n + 1 /\ n + 1 \in i + 1 .. n + 1
          /\ \A j : j \in i + 1 .. n + 1 <=> j \in i + 1 .. n \/ j = n + 1
      BY <1>1
    <3>2. i \in T <=> In(i) /\ \A j \in i + 1 .. n + 1 : ~Gone(i, j)
      BY <1>2, <1>7, <3>1
    <3>3. i \in S <=> In(i) /\ \A j \in i + 1 .. n : ~Gone(i, j)
      BY <1>3, <1>6
    <3>4. QED
      BY <3>1, <3>2, <3>3
  <2>2. QED
    BY <2>1
<1>9. n + 1 \in T <=> In(n + 1)
  <2>1. n + 1 \in 1 .. n + 1 /\ (n + 1) + 1 .. n + 1 = {}
    BY <1>1
  <2>2. QED
    BY <1>2, <1>7, <2>1
<1>10. T \subseteq 1 .. n + 1 /\ S \subseteq 1 .. n /\ n + 1 \notin 1 .. n
       /\ \A i \in 1 .. n + 1 : i \in 1 .. n \/ i = n + 1
  BY <1>1, <1>2, <1>3, <1>6, <1>7
<1>11. CASE o.kind = "insertknn" /\ o.layer = l
  <2>1. \A i \in 1 .. n : ~Gone(i, n + 1)
    BY <1>5, <1>11
  <2>2. T = S \cup {n + 1}
    BY <1>4, <1>8, <1>9, <1>10, <1>11, <2>1
  <2>3. QED
    BY <1>6, <1>7, <1>11, <2>2 DEF h, n
<1>12. CASE ~(o.kind = "insertknn" /\ o.layer = l)
  <2>1. n + 1 \notin T
    BY <1>4, <1>9, <1>12
  <2>2. T = {i \in S : ~Gone(i, n + 1)}
    BY <1>8, <1>10, <2>1
  <2>3. CASE o.kind = "deleteknn"
    <3>1. T = {i \in S : g[i].entry \notin Knn!Matching(o.entity, Relations)}
      BY <1>5, <1>10, <2>2, <2>3
    <3>2. QED
      BY <1>6, <1>7, <1>12, <2>3, <3>1 DEF h, n
  <2>4. CASE o.kind # "deleteknn"
    <3>1. T = S
      BY <1>5, <1>10, <2>2, <2>4
    <3>2. QED
      BY <1>6, <1>7, <1>12, <2>4, <3>1 DEF h, n
  <2>5. QED
    BY <2>3, <2>4
<1>13. QED
  BY <1>11, <1>12

\* w holds the entries of the operations p of the log g, which are those of layer l
\* that survive, in their order.
Shows(w, g, l, p) ==
    /\ p \in [1 .. Len(w) -> SurvivorsOf(g, l)]
    /\ \A i \in 1 .. Len(w) : w[i] = g[p[i]].entry
    /\ \A i, j \in 1 .. Len(w) : i < j => p[i] < p[j]
    /\ \A x \in SurvivorsOf(g, l) : \E i \in 1 .. Len(w) : p[i] = x

LEMMA ShownIsSurviving ==
    ASSUME NEW S, NEW w \in Seq(S), NEW g \in Seq(Op), NEW l, NEW p, Shows(w, g, l, p)
    PROVE  w = [n \in 1 .. Cardinality(SurvivorsOf(g, l)) |-> g[Nth(SurvivorsOf(g, l), n - 1)].entry]
<1>1. PICK I : I = SurvivorsOf(g, l)
  OBVIOUS
<1>2. Len(g) \in Nat /\ Len(w) \in Nat /\ I \in SUBSET (1 .. Len(g))
  BY <1>1 DEF SurvivorsOf
<1>3. /\ p \in [1 .. Len(w) -> I]
      /\ \A i, j \in 1 .. Len(w) : i < j => p[i] < p[j]
      /\ \A x \in I : \E i \in 1 .. Len(w) : p[i] = x
      /\ \A i \in 1 .. Len(w) : w[i] = g[p[i]].entry
  BY <1>1 DEF Shows
<1>4. Len(w) = Cardinality(I) /\ \A i \in 1 .. Len(w) : p[i] = Nth(I, i - 1)
  BY <1>2, <1>3, OnlyNth
<1>5. w = [i \in 1 .. Len(w) |-> w[i]]
  OBVIOUS
<1>6. w = [n \in 1 .. Cardinality(I) |-> g[Nth(I, n - 1)].entry]
  BY <1>3, <1>4, <1>5
<1>7. QED
  BY <1>1, <1>6

\* An entry is appended,
LEMMA ShowsAdded ==
    ASSUME NEW S, NEW w \in Seq(S), NEW g \in Seq(Op), NEW o \in Op, NEW l, NEW p, Shows(w, g, l, p),
           o.kind = "insertknn", o.layer = l, o.entry \in S
    PROVE  \E q : Shows(Append(w, o.entry), Append(g, o), l, q)
<1> DEFINE n == Len(g)
           m == Len(w)
           v == Append(w, o.entry)
           h == Append(g, o)
           q == [i \in 1 .. m + 1 |-> IF i = m + 1 THEN n + 1 ELSE p[i]]
<1>1. /\ m \in Nat /\ Len(v) = m + 1 /\ v[m + 1] = o.entry /\ \A i \in 1 .. m : v[i] = w[i]
      /\ n \in Nat /\ Len(h) = n + 1 /\ h[n + 1] = o /\ \A i \in 1 .. n : h[i] = g[i]
  BY AppendType
<1>2. PICK I : I = SurvivorsOf(g, l)
  OBVIOUS
<1>3. SurvivorsOf(h, l) = I \cup {n + 1} /\ I \in SUBSET (1 .. n)
  BY <1>2, SurvivorsAppend DEF SurvivorsOf
<1>4. /\ p \in [1 .. m -> I]
      /\ \A i \in 1 .. m : w[i] = g[p[i]].entry
      /\ \A i, j \in 1 .. m : i < j => p[i] < p[j]
      /\ \A x \in I : \E i \in 1 .. m : p[i] = x
  BY <1>2 DEF Shows
<1> HIDE DEF n, m, v, h
<1>5. /\ \A i \in 1 .. m : i \in 1 .. m + 1 /\ i # m + 1 /\ q[i] = p[i] /\ p[i] \in I /\ p[i] \in 1 .. n
      /\ q[m + 1] = n + 1 /\ m + 1 \in 1 .. m + 1
      /\ \A i \in 1 .. m + 1 : i \in 1 .. m \/ i = m + 1
  <2>1. /\ \A i \in 1 .. m : i \in 1 .. m + 1 /\ i # m + 1
        /\ m + 1 \in 1 .. m + 1
        /\ \A i \in 1 .. m + 1 : i \in 1 .. m \/ i = m + 1
    BY <1>1
  <2>2. \A i \in 1 .. m : p[i] \in I
    BY <1>4
  <2>3. QED
    BY <1>3, <2>1, <2>2
<1>6. q \in [1 .. m + 1 -> I \cup {n + 1}]
  BY <1>5
<1>7. ASSUME NEW i \in 1 .. m + 1 PROVE v[i] = h[q[i]].entry
  <2>1. CASE i \in 1 .. m
    <3>1. h[p[i]] = g[p[i]]
      BY <1>1, <1>5, <2>1
    <3>2. QED
      BY <1>1, <1>4, <1>5, <2>1, <3>1
  <2>2. CASE i = m + 1
    BY <1>1, <1>5, <2>2
  <2>3. QED
    BY <1>5, <2>1, <2>2
<1> HIDE DEF q
<1>8. ASSUME NEW i \in 1 .. m + 1, NEW j \in 1 .. m + 1, i < j PROVE q[i] < q[j]
  <2>1. i \in 1 .. m
    BY <1>1, <1>8
  <2>2. CASE j \in 1 .. m
    BY <1>4, <1>5, <1>8, <2>1, <2>2
  <2>3. CASE j = m + 1
    <3>1. q[i] \in 1 .. n /\ q[j] = n + 1
      BY <1>5, <2>1, <2>3
    <3>2. QED
      BY <1>1, <3>1
  <2>4. QED
    BY <1>5, <2>2, <2>3
<1>9. ASSUME NEW x \in I \cup {n + 1} PROVE \E i \in 1 .. m + 1 : q[i] = x
  <2>1. CASE x \in I
    <3>1. PICK i \in 1 .. m : p[i] = x
      BY <1>4, <2>1
    <3>2. QED
      BY <1>5, <3>1
  <2>2. CASE x = n + 1
    BY <1>5, <2>2
  <2>3. QED
    BY <2>1, <2>2
<1>10. Shows(v, h, l, q)
  BY <1>1, <1>3, <1>6, <1>7, <1>8, <1>9 DEF Shows
<1>11. QED
  BY <1>10 DEF v, h

\* or some are removed,
LEMMA ShowsRetained ==
    ASSUME NEW S, NEW w \in Seq(S), NEW g \in Seq(Op), NEW o \in Op, NEW l, NEW p, Shows(w, g, l, p),
           o.kind = "deleteknn"
    PROVE  \E q : Shows(Retained(w, Knn!Matching(o.entity, Relations)), Append(g, o), l, q)
<1>1. PICK gone : gone = Knn!Matching(o.entity, Relations)
  OBVIOUS
<1>2. PICK v : v = Retained(w, gone)
  OBVIOUS
<1>3. PICK r : Picked(v, w, gone, r)
  BY <1>2, RetainedPicks
<1>4. v \in Seq(S)
  BY <1>2, RetainedPicks
<1>5. PICK h : h = Append(g, o)
  OBVIOUS
<1>6. PICK I : I = SurvivorsOf(g, l)
  OBVIOUS
<1>7. PICK J : J = SurvivorsOf(h, l)
  OBVIOUS
<1>8. J = {i \in I : g[i].entry \notin gone} /\ I \in SUBSET (1 .. Len(g))
  <2>1. o.kind # "insertknn"
    OBVIOUS
  <2>2. SurvivorsOf(h, l) = {i \in SurvivorsOf(g, l) :
                                g[i].entry \notin Knn!Matching(o.entity, Relations)}
    BY <1>5, <2>1, SurvivorsAppend
  <2>3. SurvivorsOf(g, l) \in SUBSET (1 .. Len(g))
    BY DEF SurvivorsOf
  <2>4. QED
    BY <1>1, <1>6, <1>7, <2>2, <2>3
<1>9. \A i \in 1 .. Len(g) : h[i] = g[i]
  BY <1>5, AppendType
<1>10. /\ p \in [1 .. Len(w) -> I]
       /\ \A i \in 1 .. Len(w) : w[i] = g[p[i]].entry
       /\ \A i, j \in 1 .. Len(w) : i < j => p[i] < p[j]
       /\ \A x \in I : \E i \in 1 .. Len(w) : p[i] = x
  BY <1>6 DEF Shows
<1>11. /\ r \in [1 .. Len(v) -> 1 .. Len(w)]
       /\ \A i \in 1 .. Len(v) : v[i] = w[r[i]] /\ v[i] \notin gone
       /\ \A i, j \in 1 .. Len(v) : i < j => r[i] < r[j]
       /\ \A x \in 1 .. Len(w) : w[x] \notin gone => \E i \in 1 .. Len(v) : r[i] = x
  BY <1>3 DEF Picked
<1> DEFINE q == [i \in 1 .. Len(v) |-> p[r[i]]]
<1>12. \A i \in 1 .. Len(v) : /\ r[i] \in 1 .. Len(w) /\ q[i] = p[r[i]] /\ q[i] \in I
                              /\ v[i] = g[q[i]].entry /\ q[i] \in J
  BY <1>8, <1>10, <1>11
<1>13. q \in [1 .. Len(v) -> J]
  BY <1>12
<1> HIDE DEF q
<1>14. \A i \in 1 .. Len(v) : v[i] = h[q[i]].entry
  BY <1>8, <1>9, <1>12
<1>15. ASSUME NEW i \in 1 .. Len(v), NEW j \in 1 .. Len(v), i < j PROVE q[i] < q[j]
  BY <1>10, <1>11, <1>12, <1>15
<1>16. ASSUME NEW x \in J PROVE \E i \in 1 .. Len(v) : q[i] = x
  <2>1. x \in I /\ g[x].entry \notin gone
    BY <1>8
  <2>2. PICK k \in 1 .. Len(w) : p[k] = x
    BY <1>10, <2>1
  <2>3. w[k] \notin gone
    BY <1>10, <2>1, <2>2
  <2>4. PICK i \in 1 .. Len(v) : r[i] = k
    BY <1>11, <2>3
  <2>5. QED
    BY <1>12, <2>2, <2>4
<1>17. Shows(v, h, l, q)
  BY <1>7, <1>13, <1>14, <1>15, <1>16 DEF Shows
<1>18. QED
  BY <1>1, <1>2, <1>5, <1>17

\* or neither.
LEMMA ShowsStill ==
    ASSUME NEW S, NEW w \in Seq(S), NEW g \in Seq(Op), NEW o \in Op, NEW l, NEW p, Shows(w, g, l, p),
           o.kind # "deleteknn", ~(o.kind = "insertknn" /\ o.layer = l)
    PROVE  Shows(w, Append(g, o), l, p)
<1>1. SurvivorsOf(Append(g, o), l) = SurvivorsOf(g, l)
  BY SurvivorsAppend
<1>2. \A i \in SurvivorsOf(g, l) : Append(g, o)[i] = g[i]
  BY AppendType DEF SurvivorsOf
<1>3. QED
  BY <1>1, <1>2 DEF Shows

EntriesInv == \A l \in Layers : \E p : Shows(entries[l], log, l, p)

LEMMA NothingShown == ASSUME NEW l PROVE \E p : Shows(<<>>, <<>>, l, p)
<1>1. SurvivorsOf(<<>>, l) = {}
  BY DEF SurvivorsOf
<1>2. Shows(<<>>, <<>>, l, [i \in 1 .. 0 |-> 0])
  BY <1>1 DEF Shows
<1>3. QED
  BY <1>2

LEMMA EntriesStep ==
    ASSUME TypeOK, Knn!TypeOK, EntriesInv, [Next]_vars
    PROVE  EntriesInv'
<1>1. log \in Seq(Op) /\ entries \in [Layers -> Seq(Knn!Entry)]
  BY DEF TypeOK, Knn!TypeOK
<1>2. ASSUME NEW o \in Op, Edited(o), NEW l \in Layers
      PROVE  \E p : Shows(entries'[l], log', l, p)
  <2>1. log' = Append(log, o)
    BY <1>2 DEF Edited
  <2>2. entries[l] \in Seq(Knn!Entry)
    BY <1>1
  <2>3. PICK p : Shows(entries[l], log, l, p)
    BY DEF EntriesInv
  <2>4. CASE OnSlot(o) \/ FactInserted(o)
    <3>1. o.kind \in {"insert", "update", "delete"}
      BY <2>4 DEF OnSlot, FactInserted, Insert, Update, Delete
    <3>2. entries' = entries
      BY <2>4 DEF OnSlot, knnVars, FactInserted
    <3>3. QED
      BY <1>1, <2>1, <2>2, <2>3, <3>1, <3>2, ShowsStill
  <2>5. CASE OnKnn(o)
    <3>1. CASE o.kind = "insertknn" /\ Knn!add(o.layer, o.entry)
      <4>1. o \in KnnOp
        BY <3>1 DEF Op, SlotOp
      <4>2. o.layer \in Layers /\ o.entry \in Knn!Entry
        BY <3>1, <4>1 DEF KnnOp
      <4>3. entries' = [entries EXCEPT ![o.layer] = Append(@, o.entry)]
        BY <3>1 DEF Knn!add
      <4>4. CASE o.layer = l
        <5>1. entries'[l] = Append(entries[l], o.entry)
          BY <1>1, <4>3, <4>4
        <5>2. \E q : Shows(Append(entries[l], o.entry), Append(log, o), l, q)
          BY <1>1, <2>2, <2>3, <3>1, <4>2, <4>4, ShowsAdded
        <5>3. QED
          BY <2>1, <5>1, <5>2
      <4>5. CASE o.layer # l
        <5>1. entries'[l] = entries[l]
          BY <1>1, <4>3, <4>5
        <5>2. QED
          BY <1>1, <2>1, <2>2, <2>3, <3>1, <4>5, <5>1, ShowsStill
      <4>6. QED
        BY <4>4, <4>5
    <3>2. CASE o.kind = "deleteknn" /\ Knn!remove_by(Knn!Matching(o.entity, Relations))
      <4>1. entries' = [k \in Layers |-> Retained(entries[k], Knn!Matching(o.entity, Relations))]
        BY <3>2, StoreOperators DEF Knn!remove_by
      <4>2. entries'[l] = Retained(entries[l], Knn!Matching(o.entity, Relations))
        BY <4>1
      <4>3. QED
        BY <1>1, <2>1, <2>2, <2>3, <3>2, <4>2, ShowsRetained
    <3>3. QED
      BY <2>5, <3>1, <3>2 DEF OnKnn
  <2>6. QED
    BY <1>2, <2>4, <2>5 DEF Edited
<1>3. CASE \E o \in Op : Edited(o)
  BY <1>2, <1>3 DEF EntriesInv
<1>4. CASE Cleared
  <2>1. log' = <<>> /\ entries' = [l \in Layers |-> <<>>]
    BY <1>4 DEF Cleared, Knn!Replace
  <2>2. QED
    BY <2>1, NothingShown DEF EntriesInv
<1>5. CASE UNCHANGED <<entries, log>>
  BY <1>5 DEF EntriesInv
<1>6. QED
  BY <1>3, <1>4, <1>5, StepKinds

LEMMA EntriesInvAlways == Spec => []EntriesInv
<1>1. Init => EntriesInv
  <2> SUFFICES ASSUME Init, NEW l \in Layers PROVE \E p : Shows(entries[l], log, l, p)
    BY DEF EntriesInv
  <2>1. log = <<>> /\ entries[l] = <<>>
    BY DEF Init, Knn!Init
  <2>2. QED
    BY <2>1, NothingShown
<1>2. Init => Knn!Init
  BY DEF Init
<1>3. TypeOK /\ [Next]_vars => [Knn!Next]_(Knn!vars)
  BY StoreSteps
<1>4. Spec => Knn!Spec
  BY <1>2, <1>3, TypeCorrect, PTL DEF Spec, Knn!Spec
<1>5. TypeOK /\ Knn!TypeOK /\ EntriesInv /\ [Next]_vars => EntriesInv'
  BY EntriesStep
<1>6. QED
  BY <1>1, <1>4, <1>5, TypeCorrect, PatchAssumption, StoreTypeCorrect, PTL DEF Spec

LEMMA EntriesFollow == TypeOK /\ Knn!TypeOK /\ EntriesInv => EntriesOfLog
<1> SUFFICES ASSUME TypeOK, Knn!TypeOK, EntriesInv, NEW l \in Layers
             PROVE  entries[l] = [n \in 1 .. Cardinality(Surviving(l)) |->
                                     log[Nth(Surviving(l), n - 1)].entry]
  BY DEF EntriesOfLog
<1>1. log \in Seq(Op) /\ entries[l] \in Seq(Knn!Entry)
  BY DEF TypeOK, Knn!TypeOK
<1>2. PICK p : Shows(entries[l], log, l, p)
  BY DEF EntriesInv
<1>3. Surviving(l) = SurvivorsOf(log, l)
  BY DEF Surviving, SurvivorsOf
<1>4. entries[l] = [n \in 1 .. Cardinality(SurvivorsOf(log, l)) |->
                       log[Nth(SurvivorsOf(log, l), n - 1)].entry]
  BY <1>1, <1>2, ShownIsSurviving
<1>5. QED
  BY <1>3, <1>4

\* The lists of s one behind the other: f has those up to each.
Flat(s, f) == f = [i \in 1 .. Len(s) |-> IF i = 1 THEN s[i] ELSE f[i - 1] \o s[i]]

LEMMA FlatAppend ==
    ASSUME NEW S, NEW s \in Seq(Seq(S)), NEW x \in Seq(S), NEW f, Flat(s, f)
    PROVE  \E h : /\ Flat(Append(s, x), h)
                  /\ h[Len(s) + 1] = IF s = <<>> THEN x ELSE f[Len(s)] \o x
<1> DEFINE n == Len(s)
           t == Append(s, x)
           g(i) == IF i = n + 1 THEN IF s = <<>> THEN x ELSE f[n] \o x ELSE f[i]
           h == [i \in 1 .. n + 1 |-> g(i)]
<1>1. n \in Nat /\ Len(t) = n + 1 /\ t[n + 1] = x /\ (\A i \in 1 .. n : t[i] = s[i])
      /\ (s = <<>> <=> n = 0)
  BY AppendType
<1>2. \A i \in 1 .. n : f[i] = IF i = 1 THEN s[i] ELSE f[i - 1] \o s[i]
  BY DEF Flat
<1> HIDE DEF n, t
<1>3. ASSUME NEW i \in 1 .. n + 1
      PROVE  h[i] = IF i = 1 THEN t[i] ELSE h[i - 1] \o t[i]
  <2>1. CASE i = n + 1 /\ n = 0
    <3>1. h[i] = x /\ t[i] = x /\ i = 1
      BY <1>1, <2>1
    <3>2. QED
      BY <3>1
  <2>2. CASE i = n + 1 /\ n # 0
    <3>1. i # 1 /\ i - 1 \in 1 .. n + 1 /\ i - 1 # n + 1 /\ i - 1 = n
      BY <1>1, <2>2
    <3>2. h[i - 1] = f[n] /\ h[i] = f[n] \o x /\ t[i] = x
      BY <1>1, <2>2, <3>1
    <3>3. QED
      BY <3>1, <3>2
  <2>3. CASE i # n + 1
    <3>1. i \in 1 .. n /\ h[i] = f[i] /\ t[i] = s[i]
      BY <1>1, <2>3
    <3>2. i # 1 => i - 1 \in 1 .. n + 1 /\ i - 1 # n + 1
      BY <1>1, <2>3
    <3>3. i # 1 => h[i - 1] = f[i - 1]
      BY <3>2
    <3>4. QED
      BY <1>2, <3>1, <3>3
  <2>4. QED
    BY <2>1, <2>2, <2>3
<1>4. h = [i \in 1 .. n + 1 |-> IF i = 1 THEN t[i] ELSE h[i - 1] \o t[i]]
  BY <1>3
<1>5. h[n + 1] = IF s = <<>> THEN x ELSE f[n] \o x
  <2>1. n + 1 \in 1 .. n + 1
    BY <1>1
  <2>2. QED
    BY <2>1
<1> HIDE DEF h
<1>6. Flat(t, h)
  BY <1>1, <1>4 DEF Flat
<1>7. QED
  BY <1>5, <1>6 DEF n, t

LEMMA FlatExists ==
    ASSUME NEW S, NEW s \in Seq(Seq(S))
    PROVE  /\ \E f : Flat(s, f)
           /\ \A f : Flat(s, f) => \A i \in 1 .. Len(s) : f[i] \in Seq(S)
<1>1. ASSUME NEW f, Flat(s, f) PROVE \A i \in 1 .. Len(s) : f[i] \in Seq(S)
  <2> DEFINE Good == {n \in Nat : n + 1 <= Len(s) => f[n + 1] \in Seq(S)}
  <2>1. Len(s) \in Nat /\ \A i \in 1 .. Len(s) : s[i] \in Seq(S)
    OBVIOUS
  <2>2. \A i \in 1 .. Len(s) : f[i] = IF i = 1 THEN s[i] ELSE f[i - 1] \o s[i]
    BY <1>1 DEF Flat
  <2>3. 0 \in Good
    <3>1. ASSUME 0 + 1 <= Len(s) PROVE f[0 + 1] \in Seq(S)
      <4>1. 0 + 1 = 1 /\ 1 \in 1 .. Len(s)
        BY <2>1, <3>1
      <4>2. QED
        BY <2>1, <2>2, <4>1
    <3>2. QED
      BY <3>1
  <2>4. ASSUME NEW n \in Nat, n \in Good PROVE n + 1 \in Good
    <3>1. ASSUME (n + 1) + 1 <= Len(s) PROVE f[(n + 1) + 1] \in Seq(S)
      <4>1. /\ (n + 1) + 1 \in 1 .. Len(s) /\ (n + 1) + 1 # 1 /\ ((n + 1) + 1) - 1 = n + 1
            /\ n + 1 <= Len(s)
        BY <2>1, <3>1
      <4>2. f[n + 1] \in Seq(S) /\ s[(n + 1) + 1] \in Seq(S)
        BY <2>1, <2>4, <4>1
      <4>3. f[(n + 1) + 1] = f[n + 1] \o s[(n + 1) + 1]
        BY <2>2, <4>1
      <4>4. QED
        BY <4>2, <4>3
    <3>2. QED
      BY <3>1
  <2>5. \A n \in Nat : n \in Good
    <3> HIDE DEF Good
    <3>1. QED
      BY <2>3, <2>4, Induction
  <2>6. ASSUME NEW i \in 1 .. Len(s) PROVE f[i] \in Seq(S)
    <3>1. i - 1 \in Nat /\ (i - 1) + 1 = i /\ i <= Len(s)
      BY <2>1
    <3>2. QED
      BY <2>5, <3>1
  <2>7. QED
    BY <2>6
<1> DEFINE Up(n) == [i \in 1 .. n |-> s[i]]
           Good == {n \in Nat : n <= Len(s) => \E f : Flat(Up(n), f)}
<1>2. Len(s) \in Nat /\ \A i \in 1 .. Len(s) : s[i] \in Seq(S)
  OBVIOUS
<1>3. \A n \in Nat : n <= Len(s) => Up(n) \in Seq(Seq(S)) /\ Len(Up(n)) = n
  <2>1. ASSUME NEW n \in Nat, n <= Len(s) PROVE Up(n) \in Seq(Seq(S)) /\ Len(Up(n)) = n
    <3>1. \A i \in 1 .. n : s[i] \in Seq(S)
      BY <1>2, <2>1
    <3>2. QED
      BY <3>1
  <2>2. QED
    BY <2>1
<1>4. 0 \in Good
  <2>1. Len(Up(0)) = 0
    BY <1>2, <1>3
  <2> HIDE DEF Up
  <2>2. \A i : i \notin 1 .. 0
    OBVIOUS
  <2>3. Flat(Up(0), [i \in 1 .. 0 |-> 0])
    BY <2>1, <2>2 DEF Flat
  <2>4. QED
    BY <2>3
<1>5. ASSUME NEW n \in Nat, n \in Good PROVE n + 1 \in Good
  <2>1. ASSUME n + 1 <= Len(s) PROVE \E f : Flat(Up(n + 1), f)
    <3>1. n <= Len(s) /\ n + 1 \in 1 .. Len(s)
      BY <1>2, <2>1
    <3>2. PICK f : Flat(Up(n), f)
      BY <1>5, <3>1
    <3>3. Up(n + 1) = Append(Up(n), s[n + 1])
      <4>1. Up(n) \in Seq(Seq(S)) /\ Len(Up(n)) = n /\ s[n + 1] \in Seq(S)
        BY <1>2, <1>3, <3>1
      <4>2. \A i \in 1 .. n : Up(n)[i] = s[i]
        OBVIOUS
      <4> HIDE DEF Up
      <4>3. /\ Append(Up(n), s[n + 1]) = [i \in 1 .. n + 1 |-> IF i = n + 1 THEN s[n + 1] ELSE Up(n)[i]]
        BY <4>1
      <4>4. \A i \in 1 .. n + 1 : i # n + 1 => i \in 1 .. n
        OBVIOUS
      <4>5. \A i \in 1 .. n + 1 : Append(Up(n), s[n + 1])[i] = s[i]
        BY <4>2, <4>3, <4>4
      <4>6. Append(Up(n), s[n + 1]) = [i \in 1 .. n + 1 |-> s[i]]
        BY <4>3, <4>5
      <4>7. QED
        BY <4>6 DEF Up
    <3>4. Up(n) \in Seq(Seq(S)) /\ s[n + 1] \in Seq(S)
      BY <1>2, <1>3, <3>1
    <3>5. PICK u : u = Up(n)
      OBVIOUS
    <3>6. \E h : Flat(Append(u, s[n + 1]), h)
      <4>1. u \in Seq(Seq(S)) /\ Flat(u, f)
        BY <3>2, <3>4, <3>5
      <4>2. QED
        BY <3>4, <4>1, FlatAppend
    <3> HIDE DEF Up
    <3>7. QED
      BY <3>3, <3>5, <3>6
  <2> HIDE DEF Up
  <2>2. QED
    BY <2>1
<1>6. Len(s) \in Good
  <2> HIDE DEF Good
  <2>1. QED
    BY <1>2, <1>4, <1>5, Induction
<1>7. Up(Len(s)) = s
  OBVIOUS
<1>8. QED
  BY <1>1, <1>2, <1>6, <1>7

LEMMA FlattenFacts ==
    ASSUME NEW S, NEW s \in Seq(Seq(S))
    PROVE  /\ FlattenSeq(s) \in Seq(S)
           /\ s = <<>> => FlattenSeq(s) = <<>>
           /\ \A f : Flat(s, f) /\ s # <<>> => FlattenSeq(s) = f[Len(s)]
<1>1. Len(s) \in Nat /\ (Len(s) = 0 <=> s = <<>>)
  OBVIOUS
<1>2. CASE s = <<>>
  <2>1. FlattenSeq(s) = s
    BY <1>1, <1>2 DEF FlattenSeq
  <2>2. <<>> \in Seq(S)
    OBVIOUS
  <2>3. QED
    BY <1>2, <2>1, <2>2
<1>3. CASE s # <<>>
  <2> DEFINE F == CHOOSE f : Flat(s, f)
  <2>1. FlattenSeq(s) = F[Len(s)]
    BY <1>1, <1>3 DEF FlattenSeq, Flat
  <2>2. Flat(s, F)
    BY FlatExists
  <2> HIDE DEF F
  <2>3. Len(s) \in 1 .. Len(s)
    BY <1>1, <1>3
  <2>4. F[Len(s)] \in Seq(S)
    BY <2>2, <2>3, FlatExists
  <2>5. ASSUME NEW f, Flat(s, f) PROVE \A i \in 1 .. Len(s) : f[i] = F[i]
    <3> DEFINE Same == {n \in Nat : n + 1 <= Len(s) => f[n + 1] = F[n + 1]}
    <3>1. \A i \in 1 .. Len(s) : /\ f[i] = IF i = 1 THEN s[i] ELSE f[i - 1] \o s[i]
                                 /\ F[i] = IF i = 1 THEN s[i] ELSE F[i - 1] \o s[i]
      BY <2>2, <2>5 DEF Flat
    <3>2. 0 \in Same
      <4>1. 0 + 1 = 1 /\ (1 <= Len(s) => 1 \in 1 .. Len(s))
        BY <1>1
      <4>2. QED
        BY <3>1, <4>1
    <3>3. ASSUME NEW n \in Nat, n \in Same PROVE n + 1 \in Same
      <4>1. ASSUME (n + 1) + 1 <= Len(s) PROVE f[(n + 1) + 1] = F[(n + 1) + 1]
        <5>1. /\ (n + 1) + 1 \in 1 .. Len(s) /\ (n + 1) + 1 # 1 /\ ((n + 1) + 1) - 1 = n + 1
              /\ n + 1 <= Len(s)
          BY <1>1, <4>1
        <5>2. f[n + 1] = F[n + 1]
          BY <3>3, <5>1
        <5>3. QED
          BY <3>1, <5>1, <5>2
      <4>2. QED
        BY <4>1
    <3>4. \A n \in Nat : n \in Same
      <4> HIDE DEF Same
      <4>1. QED
        BY <3>2, <3>3, Induction
    <3>5. ASSUME NEW i \in 1 .. Len(s) PROVE f[i] = F[i]
      <4>1. i - 1 \in Nat /\ (i - 1) + 1 = i /\ i <= Len(s)
        BY <1>1
      <4>2. QED
        BY <3>4, <4>1
    <3>6. QED
      BY <3>5
  <2>6. QED
    BY <1>3, <2>1, <2>3, <2>4, <2>5
<1>4. QED
  BY <1>2, <1>3

LEMMA FlattenAppend ==
    ASSUME NEW S, NEW s \in Seq(Seq(S)), NEW x \in Seq(S)
    PROVE  FlattenSeq(Append(s, x)) = FlattenSeq(s) \o x
<1>1. Append(s, x) \in Seq(Seq(S)) /\ Len(Append(s, x)) = Len(s) + 1 /\ Append(s, x) # <<>>
  BY AppendType
<1>2. PICK f : Flat(s, f)
  BY FlatExists
<1>3. PICK h : Flat(Append(s, x), h) /\ h[Len(s) + 1] = IF s = <<>> THEN x ELSE f[Len(s)] \o x
  BY <1>2, FlatAppend
<1>4. FlattenSeq(Append(s, x)) = h[Len(s) + 1]
  BY <1>1, <1>3, FlattenFacts
<1>5. CASE s = <<>>
  <2>1. FlattenSeq(s) = <<>>
    BY <1>5, FlattenFacts
  <2>2. <<>> \o x = x
    OBVIOUS
  <2>3. QED
    BY <1>3, <1>4, <1>5, <2>1, <2>2
<1>6. CASE s # <<>>
  BY <1>2, <1>3, <1>4, <1>6, FlattenFacts
<1>7. QED
  BY <1>5, <1>6

\* As long as no edit was made directly, the log is that of the patches in the list and
\* of the one that is being applied, up to where it is.
Begun == IF todo = <<>> THEN <<>> ELSE SubSeq(todo[1], 1, done)
PatchesInv == ~direct => log = FlattenSeq(patches) \o Begun

LEMMA PatchesAreLists ==
    ASSUME TypeOK
    PROVE  /\ patches \in Seq(Seq(Op)) /\ FlattenSeq(patches) \in Seq(Op)
           /\ todo # <<>> => /\ Head(todo) = todo[1] /\ todo[1] \in Seq(Op) /\ todo[1] \in PatchFiles
                             /\ done \in 0 .. Len(todo[1])
           /\ todo = <<>> => done = 0
<1>1. patches \in Seq(Seq(Op))
  <2>1. PatchFiles \in SUBSET Seq(Op) /\ patches \in Seq(PatchFiles)
    BY PatchAssumption DEF TypeOK
  <2>2. Len(patches) \in Nat /\ \A i \in 1 .. Len(patches) : patches[i] \in Seq(Op)
    BY <2>1
  <2>3. patches = [i \in 1 .. Len(patches) |-> patches[i]]
    BY <2>1
  <2>4. QED
    BY <2>2, <2>3
<1>2. ASSUME todo # <<>>
      PROVE  /\ Head(todo) = todo[1] /\ todo[1] \in Seq(Op) /\ todo[1] \in PatchFiles
             /\ done \in 0 .. Len(todo[1])
  <2>1. Head(todo) = todo[1] /\ todo[1] \in PatchFiles
    BY <1>2, TailType DEF TypeOK
  <2>2. todo[1] \in Seq(Op)
    BY <2>1, PatchAssumption
  <2>3. Len(todo[1]) \in Nat
    BY <2>2
  <2>4. QED
    BY <1>2, <2>1, <2>2, <2>3 DEF TypeOK
<1>3. todo = <<>> => done = 0
  BY DEF TypeOK
<1>4. QED
  BY <1>1, <1>2, <1>3, FlattenFacts

LEMMA PatchesStep ==
    ASSUME TypeOK, PatchesInv, [Next]_vars
    PROVE  PatchesInv'
<1>1. FlattenSeq(patches) \in Seq(Op) /\ patches \in Seq(Seq(Op))
  BY PatchesAreLists
<1>2. ASSUME NEW p \in PatchFiles, StartPatch(p) PROVE PatchesInv'
  <2>1. todo = <<>> /\ todo' = <<p>> /\ done' = done /\ UNCHANGED <<patches, log, direct>>
    BY <1>2 DEF StartPatch, Idle, historyVars
  <2>2. done = 0
    BY <2>1, PatchesAreLists
  <2>3. Begun = <<>> /\ Begun' = SubSeq(p, 1, 0)
    BY <2>1, <2>2 DEF Begun
  <2>4. SubSeq(p, 1, 0) = <<>>
    <3>1. p \in Seq(Op)
      BY PatchAssumption
    <3>2. QED
      BY <3>1
  <2>5. QED
    BY <2>1, <2>3, <2>4 DEF PatchesInv
<1>3. CASE ApplyOp
  <2>1. /\ todo # <<>> /\ done < Len(Head(todo)) /\ log' = Append(log, Head(todo)[done + 1])
        /\ done' = done + 1 /\ UNCHANGED <<patches, todo, direct>>
    BY <1>3 DEF ApplyOp
  <2>2. /\ Head(todo) = todo[1] /\ todo[1] \in Seq(Op) /\ done \in 0 .. Len(todo[1])
    BY <2>1, PatchesAreLists
  <2>3. PICK t : t = todo[1]
    OBVIOUS
  <2>4. done \in Nat /\ done + 1 <= Len(t) /\ Len(t) \in Nat /\ t \in Seq(Op)
    BY <2>1, <2>2, <2>3
  <2>5. SubSeq(t, 1, done + 1) = Append(SubSeq(t, 1, done), t[done + 1])
    BY <2>4
  <2>6. SubSeq(t, 1, done) \in Seq(Op) /\ t[done + 1] \in Op
    BY <2>4
  <2>7. Begun' = SubSeq(t, 1, done + 1) /\ Begun = SubSeq(t, 1, done)
    BY <2>1, <2>3 DEF Begun
  <2>8. \A a, b \in Seq(Op), o \in Op : Append(a \o b, o) = a \o Append(b, o)
    OBVIOUS
  <2>9. Append(FlattenSeq(patches) \o Begun, t[done + 1]) = FlattenSeq(patches) \o Begun'
    BY <1>1, <2>5, <2>6, <2>7, <2>8
  <2>10. QED
    BY <2>1, <2>2, <2>3, <2>9 DEF PatchesInv
<1>4. CASE PushPatch
  <2>1. /\ todo # <<>> /\ done = Len(Head(todo)) /\ patches' = Append(patches, Head(todo))
        /\ todo' = Tail(todo) /\ done' = 0 /\ UNCHANGED <<log, direct>>
    BY <1>4 DEF PushPatch, historyVars
  <2>2. Head(todo) = todo[1] /\ todo[1] \in Seq(Op)
    BY <2>1, PatchesAreLists
  <2>3. PICK t : t = todo[1]
    OBVIOUS
  <2>4. t \in Seq(Op) /\ SubSeq(t, 1, Len(t)) = t
    BY <2>2, <2>3
  <2>5. Begun = t
    BY <2>1, <2>2, <2>3, <2>4 DEF Begun
  <2>6. Begun' = <<>>
    <3>1. CASE todo' = <<>>
      BY <3>1 DEF Begun
    <3>2. CASE todo' # <<>>
      <4>1. Begun' = SubSeq(todo'[1], 1, 0)
        BY <2>1, <3>2 DEF Begun
      <4>2. todo'[1] \in PatchFiles
        <5>1. todo' \in Seq(PatchFiles)
          BY PatchesType
        <5>2. QED
          BY <3>2, <5>1, TailType
      <4>3. todo'[1] \in Seq(Op)
        BY <4>2, PatchAssumption
      <4>4. PICK u : u = todo'[1]
        OBVIOUS
      <4>5. SubSeq(u, 1, 0) = <<>>
        BY <4>3, <4>4
      <4>6. QED
        BY <4>1, <4>4, <4>5
    <3>3. QED
      BY <3>1, <3>2
  <2>7. FlattenSeq(patches') = FlattenSeq(patches) \o t
    BY <1>1, <2>1, <2>2, <2>3, FlattenAppend
  <2>8. FlattenSeq(patches) \o t \in Seq(Op)
    BY <1>1, <2>4
  <2>9. \A a \in Seq(Op) : a \o <<>> = a
    OBVIOUS
  <2>10. FlattenSeq(patches') \o Begun' = FlattenSeq(patches) \o Begun
    BY <2>5, <2>6, <2>7, <2>8, <2>9
  <2>11. QED
    BY <2>1, <2>10 DEF PatchesInv
<1>5. ASSUME NEW i \in 1 .. MaxOps, RemovePatch(i) PROVE PatchesInv'
  <2>1. log' = <<>> /\ patches' = <<>> /\ todo = <<>> /\ done' = done
    BY <1>5 DEF RemovePatch, Idle
  <2>2. done' = 0
    BY <2>1, PatchesAreLists
  <2>3. Begun' = <<>>
    <3>1. CASE todo' = <<>>
      BY <3>1 DEF Begun
    <3>2. CASE todo' # <<>>
      <4>1. Begun' = SubSeq(todo'[1], 1, 0)
        BY <2>2, <3>2 DEF Begun
      <4>2. todo'[1] \in PatchFiles
        <5>1. todo' \in Seq(PatchFiles)
          BY PatchesType
        <5>2. QED
          BY <3>2, <5>1, TailType
      <4>3. todo'[1] \in Seq(Op)
        BY <4>2, PatchAssumption
      <4>4. PICK u : u = todo'[1]
        OBVIOUS
      <4>5. SubSeq(u, 1, 0) = <<>>
        BY <4>3, <4>4
      <4>6. QED
        BY <4>1, <4>4, <4>5
    <3>3. QED
      BY <3>1, <3>2
  <2>4. patches' \in Seq(Seq(Op))
    BY <2>1
  <2>5. FlattenSeq(patches') = <<>>
    BY <2>1, <2>4, FlattenFacts
  <2>6. <<>> \o <<>> = <<>>
    OBVIOUS
  <2>7. QED
    BY <2>1, <2>3, <2>5, <2>6 DEF PatchesInv
<1>6. CASE DirectEdit
  <2>1. direct' = TRUE \/ UNCHANGED <<patches, todo, done, log, direct>>
    BY <1>6 DEF DirectEdit, insert_feature, delete_feature, update_feature_meta,
                set_gate_override, InsertFact, RenewKnn, Directly, historyVars
  <2>2. QED
    BY <2>1 DEF PatchesInv, Begun
<1>7. ASSUME NEW r \in Readers, Reader(r) PROVE PatchesInv'
  BY <1>7 DEF Reader, historyVars, PatchesInv, Begun
<1>8. CASE UNCHANGED vars
  BY <1>8 DEF vars, historyVars, PatchesInv, Begun
<1>9. QED
  BY <1>2, <1>3, <1>4, <1>5, <1>6, <1>7, <1>8 DEF Next

\* apply_patch, remove_patch and the direct edits: whatever was applied, removed and
\* applied again, the overlay and the store are what the operations yield in their
\* order, those of the patches in the list if no direct edit was made (Replay).
THEOREM ReplayAlways == Spec => []Replay
<1>1. Init => PatchesInv
  <2> SUFFICES ASSUME Init PROVE PatchesInv
    OBVIOUS
  <2>1. log = <<>> /\ patches = <<>> /\ todo = <<>>
    BY DEF Init
  <2>2. patches \in Seq(Seq(Op))
    BY <2>1
  <2>3. FlattenSeq(patches) = <<>>
    BY <2>1, <2>2, FlattenFacts
  <2>4. <<>> \o <<>> = <<>>
    OBVIOUS
  <2>5. QED
    BY <2>1, <2>3, <2>4 DEF PatchesInv, Begun
<1>2. TypeOK /\ PatchesInv /\ [Next]_vars => PatchesInv'
  BY PatchesStep
<1>3. TypeOK /\ PatchesInv /\ todo = <<>> /\ ~direct => log = FlattenSeq(patches)
  <2>1. ASSUME TypeOK, PatchesInv, todo = <<>>, ~direct PROVE log = FlattenSeq(patches)
    <3>1. log = FlattenSeq(patches) \o <<>> /\ FlattenSeq(patches) \in Seq(Op)
      BY <2>1, PatchesAreLists DEF PatchesInv, Begun
    <3>2. QED
      BY <3>1
  <2>2. QED
    BY <2>1
<1>4. Init => Knn!Init
  BY DEF Init
<1>5. TypeOK /\ [Next]_vars => [Knn!Next]_(Knn!vars)
  BY StoreSteps
<1>6. Spec => Knn!Spec
  BY <1>4, <1>5, TypeCorrect, PTL DEF Spec, Knn!Spec
<1>7. TypeOK /\ Knn!TypeOK /\ EntriesInv /\ LastOpDecides /\ PatchesInv => Replay
  BY <1>3, EntriesFollow DEF Replay
<1>8. QED
  BY <1>1, <1>2, <1>6, <1>7, TypeCorrect, PatchAssumption, StoreTypeCorrect, EntriesInvAlways,
     LastOpDecidesAlways, PTL DEF Spec
=============================================================================
