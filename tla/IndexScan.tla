------------------------------ MODULE IndexScan ------------------------------
(* An index scan of the access method (indexes of version 1, the only ones that *)
(* are written): ORDER BY column <~> text.  The first tuple asked for scans the *)
(* table, has the backend rank every text it found, and keeps the result; the   *)
(* next ones are read from it.  The backend is a remote one (RemoteBackend),    *)
(* the caller PostgreSQL's executor (external), which may rescan with another   *)
(* text or stop at any time, and may run other queries between two tuples.      *)
EXTENDS RemoteBackend, Lists

CONSTANTS
    Tids,       \* in the order of the table scan
    Tables,     \* what the snapshot may see: for each tuple its text, and whether an
                \* index that names the tuple itself leads to it
    Queries,
    Score,      \* the similarity of a text and a query
    NoText,       \* no text: a NULL, or a tuple that the snapshot does not see
    Far         \* the distance of what has no score, f64::MAX

ScanAssumption ==
    /\ RemoteAssumption
    /\ Tids \subseteq Nat /\ IsFiniteSet(Tids)
    /\ NoText \notin Queries /\ "" \notin Queries
    /\ \A b \in Tables, t \in Tids, q \in Queries :
          b[t].text \notin {NoText, ""} => Score[<<b[t].text, q>>] \in Nat
    /\ Far \in Nat /\ Far >= 12

VARIABLES
    scan,       \* closed, open, or in the call that ranks
    table,      \* what its snapshot sees
    query, results, position, computed,     \* InferScanState
    given,      \* the argument of the last rescan (history)
    unscored,   \* tuples whose walk failed (history)
    returned    \* the tuples that the executor has since the last rescan (history)

scanVars == <<scan, table, query, results, position, computed, given, unscored, returned>>
vars == <<remoteVars, scanVars>>

Text(t) == table[t].text

TypeOK ==
    /\ RemoteTypeOK
    /\ scan \in {"closed", "open", "ranking"}
    /\ table \in Tables
    /\ query \in Queries \cup {NoText} /\ given \in Queries \cup {NoText, ""}
    /\ position \in 0 .. Len(results)
    /\ computed \in BOOLEAN
    /\ scan = "ranking" => op \in {"rank", "idle"}

Closed ==
    /\ scan' = "closed" /\ query' = NoText /\ results' = <<>> /\ position' = 0
    /\ computed' = FALSE /\ given' = NoText /\ unscored' = {} /\ returned' = <<>>

Init ==
    /\ RemoteInit
    /\ scan = "closed" /\ query = NoText /\ results = <<>> /\ position = 0
    /\ computed = FALSE /\ given = NoText /\ unscored = {} /\ returned = <<>>
    /\ table \in Tables

\* The session runs the scan or an operation of the backend, one at a time.
Turn == op \in {"idle", "down"}

----------------------------------------------------------------------------

\* infer_ambeginscan.
BeginScan ==
    /\ scan = "closed" /\ Turn
    /\ scan' = "open"
    /\ table' \in Tables
    /\ UNCHANGED <<remoteVars, query, results, position, computed, given, unscored, returned>>

\* Mutant of Rescan: the position of the earlier results is kept.
RescanInPlace(q) ==
    /\ scan = "open" /\ Turn
    /\ query' = IF q = "" THEN NoText ELSE q
    /\ results' = <<>> /\ computed' = FALSE
    /\ given' = q /\ unscored' = {} /\ returned' = <<>>
    /\ UNCHANGED <<remoteVars, scan, table, position>>

\* infer_amrescan; an empty text, like a NULL, is no query.
Rescan(q) ==
    /\ scan = "open" /\ Turn
    /\ query' = IF q = "" THEN NoText ELSE q
    /\ results' = <<>> /\ position' = 0 /\ computed' = FALSE
    /\ given' = q /\ unscored' = {} /\ returned' = <<>>
    /\ UNCHANGED <<remoteVars, scan, table>>

\* The tuples that are ranked, in the order of the table scan: a row without a text
\* is skipped.
Rows == {t \in Tids : Text(t) \notin {NoText, ""}}
Candidates == [n \in 1 .. Cardinality(Rows) |-> Nth(Rows, n - 1)]

\* score_to_distance.
Distance(score) == IF score = 0 THEN Far ELSE 12 \div (1 + score)

\* The next of the ranked tuples, if there is one.  The executor looks it up under
\* its TID: one that is only reached through the tuple it replaced in place (a
\* heap-only tuple) is not found there, and the executor asks for the next.
Give(ranked, i) ==
    IF i < Len(ranked)
    THEN /\ position' = i + 1
         /\ returned' = IF table[ranked[i + 1].tid].root THEN Append(returned, ranked[i + 1])
                        ELSE returned
    ELSE UNCHANGED <<position, returned>>

\* infer_amgettuple, with the results there.
NextTuple ==
    /\ scan = "open" /\ Turn
    /\ computed
    /\ Give(results, position)
    /\ UNCHANGED <<remoteVars, scan, table, query, results, computed, given, unscored>>

\* compute_ranked_results without a query: an error, which ends the statement.
NoQuery ==
    /\ scan = "open" /\ Turn
    /\ ~computed /\ query = NoText
    /\ Closed
    /\ UNCHANGED <<remoteVars, table>>

\* Nothing to rank: the backend is not asked.
NothingToRank ==
    /\ scan = "open" /\ Turn
    /\ ~computed /\ query # NoText /\ Candidates = <<>>
    /\ computed' = TRUE
    /\ UNCHANGED <<remoteVars, scan, table, query, results, position, given, unscored, returned>>

\* The backend cannot be loaded.
LoadFails ==
    /\ scan = "open" /\ op = "down"
    /\ ~computed /\ query # NoText /\ Candidates # <<>>
    /\ Closed
    /\ UNCHANGED <<remoteVars, table>>

\* rank, on the texts found.
Rank ==
    /\ scan = "open"
    /\ ~computed /\ query # NoText /\ Candidates # <<>>
    /\ scan' = "ranking"
    /\ Ask("rank", [i \in DOMAIN Candidates |-> Score[<<Text(Candidates[i]), query>>]])
    /\ UNCHANGED <<table, query, results, position, computed, given, unscored, returned>>

\* A rank is that of a candidate, and a candidate's TID is at its place.
RankedTuples ==
    [k \in DOMAIN result.ranking |->
        [tid |-> Candidates[result.ranking[k].index],
         distance |-> Distance(result.ranking[k].score)]]

\* rank returns to the call that asked for it, which gives the first tuple.
RankEnds ==
    /\ scan = "ranking" /\ op = "idle"
    /\ IF result.kind = "data"
       THEN /\ scan' = "open"
            /\ results' = RankedTuples
            /\ computed' = TRUE
            /\ unscored' = IF "failed" \notin causes THEN {}
                           ELSE {r.tid : r \in {RankedTuples[k] : k \in
                                    {j \in DOMAIN RankedTuples : RankedTuples[j].distance = Far}}}
            /\ Give(RankedTuples, position)
            /\ UNCHANGED <<query, given>>
       ELSE Closed
    /\ UNCHANGED <<remoteVars, table>>

\* infer_amendscan.
EndScan ==
    /\ scan = "open" /\ Turn
    /\ Closed
    /\ UNCHANGED <<remoteVars, table>>

Next ==
    \/ BeginScan \/ NextTuple \/ NoQuery \/ NothingToRank \/ LoadFails
    \/ Rank \/ RankEnds \/ EndScan
    \/ \E q \in Queries \cup {NoText, ""} : Rescan(q)
    \/ ~(scan = "ranking" /\ op = "idle") /\ RemoteNext /\ UNCHANGED scanVars

Spec == Init /\ [][Next]_vars

----------------------------------------------------------------------------

\* What the distance of a tuple must be for the text of the last rescan.
Due(t) == IF t \in unscored THEN Far ELSE Distance(Score[<<Text(t), given>>])

\* Since the last rescan the executor has each tuple at most once, the nearest
\* first, with the distance to that rescan's text, or the greatest distance if its
\* walk failed; no tuple it does not have yet is nearer; and when the results are
\* used up it has every row with a text that its TID leads to (infer_amrescan and
\* infer_amgettuple of am_scan.rs, rank and similar_to_many of remote.rs).
ScanReturnsRanking ==
    scan = "open" =>
        /\ returned # <<>> => given \in Queries
        /\ \A i \in DOMAIN returned :
              /\ Text(returned[i].tid) \notin {NoText, ""}
              /\ returned[i].distance = Due(returned[i].tid)
              /\ \A j \in DOMAIN returned : i < j =>
                    /\ returned[i].tid # returned[j].tid
                    /\ returned[i].distance =< returned[j].distance
        /\ computed =>
              LET due == {t \in Rows : table[t].root}
                  has == {returned[i].tid : i \in DOMAIN returned}
              IN  /\ \A i \in DOMAIN returned, t \in due \ has : returned[i].distance =< Due(t)
                  /\ position = Len(results) => has = due
=============================================================================
