--------------------------- MODULE MCPatchOverlay ---------------------------
(* Instances of PatchOverlay for TLC. *)
EXTENDS PatchOverlay, TLC

CONSTANTS r1, r2, t1, t2, strong, weak, x

Fact(n, w) == [fact |-> "f", entity |-> n, relation |-> x, width |-> w]
KnnInsert(n, w) == [kind |-> "insertknn", layer |-> 1, entry |-> Fact(n, w)]
KnnDelete(n) == [kind |-> "deleteknn", entity |-> n]

\* With and without a gate vector, several operations on one slot, slots and
\* entries in one patch, keys of two widths.
TestPatches ==
    {<<InsertOp(0, strong, t1)>>,
     <<InsertOp(1, Absent, t2), DeleteOp(2)>>,
     <<DeleteOp(0), UpdateOp(0, weak, t2)>>,
     <<UpdateOp(1, strong, Absent), KnnInsert("m", 1)>>,
     <<KnnInsert("n", 2), KnnInsert("m", 2)>>,
     <<KnnInsert("n", 2)>>,
     <<KnnDelete("n")>>}

TestGateScore == EmptyGate :> 0 @@ weak :> 1 @@ strong :> 9
TestBaseMeta == 0 :> t1 @@ 1 :> None @@ 2 :> t2
TestBaseScore == 0 :> 5 @@ 1 :> 3 @@ 2 :> 7
TestCScore == 0 :> 4 @@ 1 :> 0 @@ 2 :> 4

Symmetry == Permutations(Readers)
=============================================================================
