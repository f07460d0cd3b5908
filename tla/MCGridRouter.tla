---------------------------- MODULE MCGridRouter ----------------------------
(* Instances of GridRouter for TLC. *)
EXTENDS GridRouter, TLC

CONSTANTS u1, u2, u3, b1, b2, b3, b4

\* Every order of every subset of the URLs.
DistinctLists == UNION {{l \in [1 .. n -> Urls] : \A i, j \in 1 .. n : l[i] = l[j] => i = j}
                        : n \in 0 .. Cardinality(Urls)}

\* Two entries without a URL of their own: both stand for the discovery URL.
DuplicateLists == DistinctLists \cup {<<u1, u1>>}
=============================================================================
