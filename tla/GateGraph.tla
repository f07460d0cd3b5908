------------------------------ MODULE GateGraph ------------------------------
(***************************************************************************)
(* The HNSW graph over the gate vectors of a layer (HnswLayer,             *)
(* src/crates/infer-vindex/src/index/hnsw.rs), built when the layer is     *)
(* first searched and searched instead of the vectors.  A feature is       *)
(* connected at its levels, from the highest down, to the nearest features *)
(* that a search from the entry point finds, and they to it while their    *)
(* lists have a place or a worse entry.                                    *)
(*                                                                         *)
(* Similarity is the dot product of projected vectors.  No two features    *)
(* are equally similar to a third: the order of a heap does not matter     *)
(* then.  A list is its slots that are taken, which are the first ones.    *)
(***************************************************************************)
EXTENDS Integers, Sequences, SequencesExt, FiniteSets

CONSTANTS
    M,              \* links of a feature at an upper level; twice as many at level 0
    EfConstruction, \* the width of the search of a build
    Similarities,   \* similarities of the features of a layer, each with each
    Drawn,          \* levels that are drawn for them
    Residuals,      \* queries: the similarity of each feature, and its exact score
    TopK

Size(s) == Cardinality(DOMAIN s)
Magnitude(n) == IF n < 0 THEN -n ELSE n

GraphAssumption ==
    /\ M \in Nat \ {0} /\ TopK \in Nat
    /\ EfConstruction \in Nat /\ EfConstruction > 2 * M
    /\ \A s \in Similarities :
         /\ Size(s) \in Nat \ {0} /\ DOMAIN s = 0 .. Size(s) - 1
         /\ \A a, b \in DOMAIN s : s[a][b] \in Int /\ s[a][b] = s[b][a]
         /\ \A a, b, c \in DOMAIN s : s[a][b] = s[a][c] => b = c
         /\ \A d \in Drawn, f \in DOMAIN s : d[f] \in Nat
         /\ \A r \in Residuals : DOMAIN s \subseteq DOMAIN r.near
         /\ \A r \in Residuals, f \in DOMAIN s : r.near[f] \in Int /\ r.exact[f] \in Int
    /\ \A r \in Residuals : \A a, b \in DOMAIN r.near :
         r.near[a] = r.near[b] \/ Magnitude(r.exact[a]) = Magnitude(r.exact[b]) => a = b

VARIABLES
    similarity,  \* dot products of the projected vectors
    node_levels,
    links,       \* per level and feature its list: level0 and upper
    id,          \* the feature that is inserted
    level,       \* the level at which it is connected next, or -1: it has none yet
    ep,          \* where the search of that level starts
    selected     \* per level and feature: what it was connected to (history)

vars == <<similarity, node_levels, links, id, level, ep, selected>>

Nodes == DOMAIN similarity
Levels == {node_levels[f] : f \in Nodes}
MaxLevel == CHOOSE l \in Levels : \A k \in Levels : k <= l
AllLevels == 0 .. MaxLevel

\* max_by_key takes the last of them.
entry_point ==
    CHOOSE f \in Nodes : node_levels[f] = MaxLevel /\
        \A g \in Nodes : node_levels[g] = MaxLevel => g <= f

Cap(l) == IF l = 0 THEN 2 * M ELSE M

TypeOK ==
    /\ similarity \in Similarities
    /\ \A l \in AllLevels, f \in Nodes :
         links[l][f] \in Seq(Nodes) /\ selected[l][f] \subseteq Nodes
    /\ id \in 0 .. Size(similarity) /\ level \in (-1) .. MaxLevel
    /\ ep \in Nodes

Init ==
    /\ similarity \in Similarities
    /\ node_levels \in {[f \in Nodes |-> d[f]] : d \in Drawn}
    /\ links = [l \in AllLevels |-> [f \in Nodes |-> <<>>]]
    /\ selected = [l \in AllLevels |-> [f \in Nodes |-> {}]]
    /\ id = 0 /\ level = -1 /\ ep = entry_point

----------------------------------------------------------------------------
(* The searches *)

Neighbors(f, l) == Range(links[l][f])

\* The best of S, at most n.
Best(S, n, score) ==
    {f \in S : Cardinality({g \in S : score[g] > score[f]}) < n}

\* One turn of greedy_closest.
Nearer(score, f, l) ==
    LET near == Neighbors(f, l) \cup {f} IN
    CHOOSE g \in near : \A h \in near : score[h] <= score[g]

\* greedy_closest, which takes less turns that lead on than there are features.
Closest(score, from, l) ==
    LET at[n \in 0 .. Size(similarity)] ==
            IF n = 0 THEN from ELSE Nearer(score, at[n - 1], l)
    IN  at[Size(similarity)]

\* The descent from the entry point to the level above l.
Descent(score, l) ==
    LET end[n \in 0 .. MaxLevel - l] ==
            IF n = 0 THEN entry_point ELSE Closest(score, end[n - 1], MaxLevel + 1 - n)
    IN  end[MaxLevel - l]

\* One turn of search_level.  What falls out of the results while one list is read
\* stays a candidate in the code, but ends the search when its turn comes.
Expanded(score, ef, l, b) ==
    LET current == CHOOSE f \in b.candidates : \A g \in b.candidates : score[g] <= score[f]
        new == Neighbors(current, l) \ b.visited
        kept == Best(b.results \cup new, ef, score)
    IN  IF \/ b.candidates = {}
           \/ Cardinality(b.results) >= ef /\ \A f \in b.results : score[current] < score[f]
        THEN b
        ELSE [results |-> kept,
              candidates |-> (b.candidates \ {current}) \cup (new \cap kept),
              visited |-> b.visited \cup new]

\* search_level: results, candidates to be expanded, and what was visited.  Each
\* feature is a candidate once at most.
SearchLevel(score, from, ef, l) ==
    LET beam[n \in 0 .. Size(similarity)] ==
            IF n = 0 THEN [results |-> {from}, candidates |-> {from}, visited |-> {from}]
            ELSE Expanded(score, ef, l, beam[n - 1])
    IN  beam[Size(similarity)].results

\* search: the beam goes by the signed similarity, the result by magnitude.
Search(r, ef) ==
    LET found == SearchLevel(r.near, Descent(r.near, 0),
                             IF ef < TopK THEN TopK ELSE ef, 0)
    IN  Best(found, TopK, [f \in Nodes |-> Magnitude(r.exact[f])])

----------------------------------------------------------------------------
(* build *)

\* Mutant of Connected: a full list lets its first entry go, whoever comes.
ConnectedAnyway(list, f, new, l) ==
    IF new \in Range(list) THEN list
    ELSE IF Len(list) < Cap(l) THEN Append(list, new)
    ELSE [list EXCEPT ![1] = new]

\* add_connection.
Connected(list, f, new, l) ==
    LET worst == CHOOSE i \in DOMAIN list :
                    \A j \in DOMAIN list : similarity[f][list[i]] <= similarity[f][list[j]]
    IN  IF new \in Range(list) THEN list
        ELSE IF Len(list) < Cap(l) THEN Append(list, new)
        ELSE IF similarity[f][new] > similarity[f][list[worst]] THEN [list EXCEPT ![worst] = new]
        ELSE list

\* set_neighbors: the entry point has a list before it is inserted, of which only
\* the first places are overwritten.
Overwritten(list, by) == by \o SubSeq(list, Len(by) + 1, Len(list))

\* The first feature is not inserted if it is the entry point.
Skip ==
    /\ level = -1 /\ id = 0 /\ entry_point = 0
    /\ id' = 1
    /\ UNCHANGED <<similarity, node_levels, links, level, ep, selected>>

StartFeature ==
    /\ level = -1 /\ id \in Nodes
    /\ ~(id = 0 /\ entry_point = 0)
    /\ level' = node_levels[id]
    /\ ep' = Descent(similarity[id], level')
    /\ UNCHANGED <<similarity, node_levels, links, id, selected>>

Connect ==
    /\ level >= 0
    /\ LET score == similarity[id]
           nearest == Best(SearchLevel(score, ep, EfConstruction, level), Cap(level), score)
           order == [k \in 1 .. Cardinality(nearest) |->
                        CHOOSE f \in nearest :
                            Cardinality({g \in nearest : score[g] > score[f]}) = k - 1]
       IN  /\ links' = [links EXCEPT ![level] =
                  [f \in Nodes |->
                      CASE f = id -> Overwritten(@[f], order)
                        [] f # id /\ f \in nearest -> Connected(@[f], f, id, level)
                        [] OTHER -> @[f]]]
           /\ selected' = [selected EXCEPT ![level][id] = nearest]
           /\ ep' = Head(order)
    /\ level' = level - 1
    /\ id' = IF level = 0 THEN id + 1 ELSE id
    /\ UNCHANGED <<similarity, node_levels>>

Next == Skip \/ StartFeature \/ Connect

Spec == Init /\ [][Next]_vars

----------------------------------------------------------------------------
(* Properties *)

\* One of the links of f leads to g, or all its places are taken by nearer ones.
LinkedIfNear(f, g, l) ==
    \/ g \in Neighbors(f, l)
    \/ /\ Len(links[l][f]) = Cap(l)
       /\ \A h \in Neighbors(f, l) : similarity[f][h] > similarity[f][g]

\* When it is inserted, the entry point gives up those that were connected to it and
\* that it does not find, though its list has places for them.
GivenUp(f, g, l) ==
    f = entry_point /\ g < f /\ selected[l][f] # {} /\ g \notin selected[l][f]

\* A list names features of its level, none twice, and not its own but for the
\* entry point, which finds itself.  Two features that were once connected have
\* lost the link in a direction only to nearer ones, or to the insertion of the
\* entry point.
LinksKeepNearest ==
    \A l \in AllLevels, f \in Nodes :
        /\ Len(links[l][f]) <= Cap(l)
        /\ Cardinality(Neighbors(f, l)) = Len(links[l][f])
        /\ \A g \in Neighbors(f, l) : node_levels[g] >= l /\ (g = f => f = entry_point)
        /\ \A g \in selected[l][f] \ {f} :
             /\ LinkedIfNear(f, g, l)
             /\ LinkedIfNear(g, f, l) \/ GivenUp(g, f, l)

\* What can be reached from f at level 0 in n steps.
Reached(f, n) ==
    LET reached[k \in 0 .. n] ==
            IF k = 0 THEN {f}
            ELSE reached[k - 1] \cup UNION {Neighbors(g, 0) : g \in reached[k - 1]}
    IN  reached[n]

\* A search as wide as the layer returns the best by magnitude of all that can be
\* reached from the end of its descent, and of all features if no list can be full.
\* A narrower one may miss a feature of great negative score.
WideSearchFinds ==
    id = Size(similarity) =>
        \A r \in Residuals :
            LET magnitude == [f \in Nodes |-> Magnitude(r.exact[f])]
                from == Descent(r.near, 0)
            IN  /\ Search(r, id) = Best(Reached(from, id), TopK, magnitude)
                /\ id <= Cap(0) => Search(r, id) = Best(Nodes, TopK, magnitude)

\* The graph gives up no link but for nearer ones, the entry point's excepted, and a
\* search as wide as the layer finds what the graph holds.
GraphFindsNearest == LinksKeepNearest /\ WideSearchFinds
=============================================================================
