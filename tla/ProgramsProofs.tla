--------------------------- MODULE ProgramsProofs ---------------------------
(***************************************************************************)
(* Proofs about the other programs: an index scan over a remote backend    *)
(* (IndexScan), the decoding of tokens (TokenDecode), the append-only      *)
(* files of residuals (TraceFiles), experts on shards (ExpertDispatch) and *)
(* the extraction of a knowledge graph (KnowledgeWalk).  Last, whichever   *)
(* of the nine programs runs, its state is of its types.                   *)
(***************************************************************************)
EXTENDS VindexProofs

----------------------------------------------------------------------------
(* A server behind the backend, and the index scan that has it rank *)

USE DEF Scan!Optional, Scan!Required, Scan!Ops, Scan!Needs, Scan!Unasked, Scan!Result, Scan!NoResult

\* What is known of the server while there is no connection, and with one: the
\* report is that of the server, but for a replacement since.
ConnectionInv ==
    /\ server \in Servers
    /\ op \in {"down", "connecting"} =>
          capabilities = NoReport /\ result.kind = "none" /\ causes \subseteq {"replaced"}
    /\ op = "down" => causes = {}
    /\ op \notin {"down", "connecting"} =>
          capabilities \in {NoReport, server} \/ "replaced" \in causes

\* An operation under way has no result, and met no missing route; it asks one of its endpoints, embed only
\* if both were not denied, and the statistics instead of the cache's for a cause.
OperationInv ==
    /\ op \in Scan!Ops => result.kind = "none" /\ "missing" \notin causes
    /\ op \in DOMAIN Scan!Required => endpoint = Scan!Required[op]
    /\ op = "embed" =>
          /\ endpoint \in {"encode", "embed"}
          /\ capabilities = NoReport \/ {"encode", "embed"} \subseteq capabilities
    /\ op = "warmup" => endpoint = "warmup"
    /\ op = "show_features" => endpoint = "select"
    /\ op = "rank" => endpoint \in {"rank", "walk"}
    /\ op = "cache_stats" =>
          \/ endpoint = "cache/stats"
          \/ endpoint = "stats" /\ ("cache/stats" \notin server
                                      \/ causes \cap {"replaced", "misread"} # {})

FeaturesInv == ConnectionInv /\ OperationInv /\ Scan!FeaturesKept

LEMMA RemoteStart == Scan!RemoteAssumption /\ Scan!RemoteInit => FeaturesInv
BY DEF Scan!RemoteInit, FeaturesInv, ConnectionInv, OperationInv, Scan!FeaturesKept

\* The steps of the server and of the connection.
LEMMA ConnectionStep ==
    ASSUME Scan!RemoteAssumption, FeaturesInv,
           Scan!Replace \/ Scan!Connect \/ Scan!Connecting \/ Scan!Evict
    PROVE  FeaturesInv'
<1>1. CASE Scan!Replace
  BY <1>1 DEF Scan!Replace, FeaturesInv, ConnectionInv, OperationInv, Scan!FeaturesKept
<1>2. CASE Scan!Connect
  BY <1>2 DEF Scan!Connect, Scan!Call, FeaturesInv, ConnectionInv, OperationInv, Scan!FeaturesKept
<1>3. CASE Scan!Connecting
  BY <1>3 DEF Scan!Connecting, FeaturesInv, ConnectionInv, OperationInv, Scan!FeaturesKept
<1>4. CASE Scan!Evict
  BY <1>4 DEF Scan!Evict, FeaturesInv, ConnectionInv, OperationInv, Scan!FeaturesKept
<1>5. QED
  BY <1>1, <1>2, <1>3, <1>4

\* An endpoint that was denied is not mounted, unless the server was replaced.
LEMMA DeniedIsMissing ==
    ASSUME Scan!RemoteAssumption, ConnectionInv, op = "idle", NEW e, Scan!Denied(e)
    PROVE  e \notin server \/ "replaced" \in causes
BY DEF ConnectionInv, Scan!Denied, Scan!RemoteAssumption

LEMMA BeginStep ==
    ASSUME Scan!RemoteAssumption, FeaturesInv, NEW o \in DOMAIN Scan!Optional, NEW r,
           Scan!Ask(o, r) \/ Scan!Embed \/ \E q \in DOMAIN Scan!Required : Scan!Query(q)
    PROVE  FeaturesInv'
<1> USE DEF FeaturesInv, ConnectionInv, OperationInv, Scan!FeaturesKept
<1>1. CASE Scan!Ask(o, r)
  <2>1. op = "idle" /\ causes' = causes \cap {"replaced"} /\ UNCHANGED <<server, capabilities>>
    BY <1>1 DEF Scan!Ask, Scan!Begins
  <2>2. CASE Scan!Denied(Scan!Optional[o])
    <3>1. Scan!Optional[o] \notin server \/ "replaced" \in causes
      BY <2>1, <2>2, DeniedIsMissing
    <3>2. Scan!GiveUp(o, r)
      BY <1>1, <2>2 DEF Scan!Ask
    <3>3. CASE o = "warmup" \/ o = "show_features"
      <4>1. op' = "idle" /\ result'.of = o /\ result'.kind \in {"nothing", "unsupported"}
        BY <3>2, <3>3 DEF Scan!GiveUp, Scan!Return
      <4>2. QED
        BY <2>1, <3>1, <3>3, <4>1
    <3>4. CASE o = "cache_stats" \/ o = "rank"
      <4>1. /\ op' = o /\ result'.kind = "none"
            /\ endpoint' = IF o = "rank" THEN "walk" ELSE "stats"
        BY <3>2, <3>4 DEF Scan!GiveUp, Scan!Call
      <4>2. QED
        BY <2>1, <3>1, <3>4, <4>1
    <3>5. QED
      BY <3>3, <3>4
  <2>3. CASE ~Scan!Denied(Scan!Optional[o])
    <3>1. Scan!Call(o, Scan!Optional[o], r)
      BY <1>1, <2>3 DEF Scan!Ask
    <3>2. QED
      BY <2>1, <3>1 DEF Scan!Call
  <2>4. QED
    BY <2>2, <2>3
<1>2. CASE Scan!Embed
  <2>1. op = "idle" /\ causes' = causes \cap {"replaced"} /\ UNCHANGED <<server, capabilities>>
    BY <1>2 DEF Scan!Embed, Scan!Begins
  <2>2. CASE Scan!Denied("embed") \/ Scan!Denied("encode")
    <3>1. ~({"encode", "embed"} \subseteq server) \/ "replaced" \in causes
      BY <2>1, <2>2, DeniedIsMissing
    <3>2. QED
      BY <1>2, <2>1, <2>2, <3>1 DEF Scan!Embed, Scan!Return
  <2>3. CASE ~(Scan!Denied("embed") \/ Scan!Denied("encode"))
    BY <1>2, <2>1, <2>3 DEF Scan!Embed, Scan!Call, Scan!Denied
  <2>4. QED
    BY <2>2, <2>3
<1>3. CASE \E q \in DOMAIN Scan!Required : Scan!Query(q)
  <2>1. PICK q \in DOMAIN Scan!Required : Scan!Query(q)
    BY <1>3
  <2>2. /\ causes' = causes \cap {"replaced"} /\ UNCHANGED <<server, capabilities>>
        /\ op' = q /\ endpoint' = Scan!Required[q] /\ result'.kind = "none"
    BY <2>1 DEF Scan!Query, Scan!Begins, Scan!Call
  <2>3. QED
    BY <2>2
<1>4. QED
  BY <1>1, <1>2, <1>3

\* The requests of an operation.
LEMMA AnswerStep ==
    ASSUME Scan!RemoteAssumption, FeaturesInv, Scan!Answered
    PROVE  FeaturesInv'
<1> USE DEF FeaturesInv, ConnectionInv, OperationInv, Scan!FeaturesKept
<1>1. op \in Scan!Ops /\ UNCHANGED <<server, capabilities>>
  BY DEF Scan!Answered, Scan!Ends
<1>2. CASE op' = "idle"
  <2>1. /\ result'.kind \in {"data", "nothing", "error"} /\ result'.of = op
        /\ result'.kind = "nothing" => op = "cache_stats" /\ endpoint = "stats"
        /\ IF result'.kind = "error" THEN causes' = causes \cup {"empty"}
                                     ELSE causes' = causes
    BY <1>1, <1>2 DEF Scan!Answered, Scan!Return, Scan!Call
  <2>2. QED
    BY <1>1, <1>2, <2>1
<1>3. CASE op' # "idle"
  <2>1. endpoint = "encode" /\ Scan!Call(op, "embed", request) /\ causes' = causes
    BY <1>3 DEF Scan!Answered, Scan!Return
  <2>2. QED
    BY <1>1, <2>1 DEF Scan!Call
<1>4. QED
  BY <1>2, <1>3

LEMMA AbsentStep ==
    ASSUME Scan!RemoteAssumption, FeaturesInv, NEW a, Scan!Absent(a)
    PROVE  FeaturesInv'
<1> USE DEF FeaturesInv, ConnectionInv, OperationInv, Scan!FeaturesKept
<1>1. /\ op \in DOMAIN Scan!Optional /\ endpoint = Scan!Optional[op]
      /\ UNCHANGED <<server, capabilities>>
      /\ Scan!GiveUp(op, request)
  BY DEF Scan!Absent, Scan!Ends, Scan!OfOptional
<1>2. /\ causes \subseteq causes' /\ causes' \subseteq causes \cup {"misread"}
      /\ endpoint \notin server \/ causes' \cap {"replaced", "misread"} # {}
  BY DEF Scan!Absent, Scan!Ends, Scan!Answers, Scan!ReadsAsAbsent
<1>3. CASE op = "warmup" \/ op = "show_features"
  <2>1. op' = "idle" /\ result'.of = op /\ result'.kind \in {"nothing", "unsupported"}
    BY <1>1, <1>3 DEF Scan!GiveUp, Scan!Return
  <2>2. QED
    BY <1>1, <1>2, <1>3, <2>1
<1>4. CASE op = "cache_stats" \/ op = "rank"
  <2>1. /\ op' = op /\ result'.kind = "none"
        /\ endpoint' = IF op = "rank" THEN "walk" ELSE "stats"
    BY <1>1, <1>4 DEF Scan!GiveUp, Scan!Call
  <2>2. QED
    BY <1>1, <1>2, <1>4, <2>1
<1>5. QED
  BY <1>1, <1>3, <1>4

LEMMA FailStep ==
    ASSUME Scan!RemoteAssumption, FeaturesInv, NEW a, Scan!Fails(a)
    PROVE  FeaturesInv'
<1> USE DEF FeaturesInv, ConnectionInv, OperationInv, Scan!FeaturesKept
<1>1. /\ op \in Scan!Ops /\ UNCHANGED <<server, capabilities>>
      /\ op' = "idle" /\ result'.kind = "error"
      /\ causes' = causes \cup {IF a = "404" THEN "missing" ELSE "failed"}
  BY DEF Scan!Fails, Scan!Ends, Scan!Return
<1>2. a = "404" => endpoint \notin server
  BY DEF Scan!Fails, Scan!Ends, Scan!Answers
<1>3. CASE a = "404" /\ "replaced" \notin causes
  <2>1. ~Scan!OfOptional /\ endpoint \notin server /\ result'.of = op
    BY <1>2, <1>3 DEF Scan!Fails, Scan!ReadsAsAbsent, Scan!Return
  <2>2. op \notin {"warmup", "show_features", "rank"}
    BY <2>1 DEF Scan!OfOptional, Scan!Fails, Scan!Ends
  <2>3. CASE op = "embed"
    BY <1>1, <1>3, <2>1, <2>3
  <2>4. CASE op \in DOMAIN Scan!Required
    BY <1>1, <1>3, <2>1, <2>4
  <2>5. CASE op = "cache_stats"
    BY <1>1, <1>3, <2>1, <2>5 DEF Scan!OfOptional
  <2>6. QED
    BY <1>1, <2>2, <2>3, <2>4, <2>5
<1>4. CASE ~(a = "404" /\ "replaced" \notin causes)
  BY <1>1, <1>4
<1>5. QED
  BY <1>3, <1>4

LEMMA WalkedStep ==
    ASSUME Scan!RemoteAssumption, FeaturesInv, NEW failed, Scan!Walked(failed)
    PROVE  FeaturesInv'
<1>1. /\ op = "rank" /\ op' = "idle" /\ UNCHANGED <<server, capabilities>>
      /\ result'.kind \in {"error", "data"} /\ result'.of = "rank"
      /\ result'.kind = "error" => failed # {}
      /\ causes' = causes \cup (IF failed = {} THEN {}
                                ELSE IF "walk" \in server THEN {"failed"} ELSE {"missing"})
  BY DEF Scan!Walked, Scan!Return
<1>2. QED
  BY <1>1 DEF FeaturesInv, ConnectionInv, OperationInv, Scan!FeaturesKept

LEMMA RemoteStep ==
    ASSUME Scan!RemoteAssumption, FeaturesInv, Scan!RemoteNext
    PROVE  FeaturesInv'
BY ConnectionStep, BeginStep, AnswerStep, AbsentStep, FailStep, WalkedStep
   DEF Scan!RemoteNext

LEMMA FeaturesInvAlways == ProgramsSpec => []FeaturesInv
<1>1. Scan!Init => FeaturesInv
  BY RemoteStart, ProgramsAssumption DEF Scan!ScanAssumption, Scan!Init
<1>2. FeaturesInv /\ [Scan!Next]_(Scan!vars) => FeaturesInv'
  <2> SUFFICES ASSUME FeaturesInv, [Scan!Next]_(Scan!vars)
               PROVE  FeaturesInv'
    OBVIOUS
  <2>1. CASE UNCHANGED Scan!remoteVars
    BY <2>1 DEF Scan!remoteVars, FeaturesInv, ConnectionInv, OperationInv, Scan!FeaturesKept
  <2>2. CASE Scan!Rank
    BY <2>2, BeginStep, ProgramsAssumption DEF Scan!Rank, Scan!ScanAssumption
  <2>3. CASE Scan!RemoteNext
    BY <2>3, RemoteStep, ProgramsAssumption DEF Scan!ScanAssumption
  <2>4. QED
    BY <2>1, <2>2, <2>3
    DEF Scan!Next, Scan!vars, Scan!BeginScan, Scan!Rescan, Scan!NextTuple, Scan!NoQuery,
        Scan!NothingToRank, Scan!LoadFails, Scan!RankEnds, Scan!EndScan
<1>3. QED
  BY <1>1, <1>2, ScanRuns, PTL DEF Scan!Spec

\* The backend gives up no feature that the server mounts without a cause, and an
\* operation that fails for a missing route is one that does not ask the report for
\* it, or has none to ask, for any versions of the server, those that mount nothing
\* among them, any tables and queries, and whatever the scan and the session ask
\* (FeaturesKept of RemoteBackend).
THEOREM FeaturesKeptAlways == ProgramsSpec => []FeaturesKept
<1>1. FeaturesInv => FeaturesKept
  BY DEF FeaturesInv, FeaturesKept
<1>2. QED
  BY <1>1, FeaturesInvAlways, PTL

----------------------------------------------------------------------------
(* What the scan returns *)

\* The operators of the libraries, as the scan sees them.
LEMMA ScanOperators ==
    /\ \A S : Scan!Cardinality(S) = Cardinality(S)
    /\ \A S : Scan!IsFiniteSet(S) <=> IsFiniteSet(S)
    /\ \A f : Scan!IsInjective(f) <=> IsInjective(f)
<1>1. \A S : Scan!Cardinality(S) = Cardinality(S)
  BY Zenon DEF Cardinality, Scan!Cardinality
<1>2. \A S : Scan!IsFiniteSet(S) <=> IsFiniteSet(S)
  BY Zenon DEF IsFiniteSet, Scan!IsFiniteSet
<1>3. \A f : Scan!IsInjective(f) <=> IsInjective(f)
  BY Zenon DEF IsInjective, Scan!IsInjective
<1>4. QED
  BY <1>1, <1>2, <1>3

\* Ranked tuples and what the executor gets of them.
Hit == [tid : Tids, distance : Nat]

\* r ranks the scores of n candidates: each of them once, the best first.
RanksOf(r, s, n) ==
    /\ r \in [1 .. n -> [index : 1 .. n, score : Nat]]
    /\ \A k, l \in 1 .. n : k < l => r[k].score >= r[l].score /\ r[k].index # r[l].index
    /\ \A i \in 1 .. n : \E k \in 1 .. n : r[k].index = i
    /\ \A k \in 1 .. n : r[k].score = s[r[k].index]

\* The stable sort, for any scores.
LEMMA StableRanks ==
    ASSUME NEW n \in Nat, NEW s \in [1 .. n -> Nat]
    PROVE  RanksOf(Scan!StableOrder(s), s, n)
<1> DEFINE S == 1 .. n
           R == {p \in S \X S : s[p[1]] > s[p[2]] \/ (s[p[1]] = s[p[2]] /\ p[1] < p[2])}
           lead(i) == {j \in DOMAIN s : s[j] > s[i] \/ (s[j] = s[i] /\ j < i)}
           at(k) == CHOOSE i \in DOMAIN s : Scan!Cardinality(lead(i)) = k - 1
           r == Scan!StableOrder(s)
<1>1. IsFiniteSet(S) /\ Cardinality(S) = n
  <2>1. 1 \in Int /\ n \in Int /\ (1 > n => n = 0) /\ n - 1 + 1 = n
    OBVIOUS
  <2>2. QED
    BY <2>1, FS_Interval
<1>2. \A i \in S : i \in Nat /\ s[i] \in Nat
  OBVIOUS
<1>3. StrictOrder(R, S)
  <2>1. ASSUME NEW i \in S, NEW j \in S
        PROVE  <<i, j>> \in R <=> s[i] > s[j] \/ (s[i] = s[j] /\ i < j)
    OBVIOUS
  <2> HIDE DEF R, S
  <2>2. \A i \in S : <<i, i>> \notin R
    BY <1>2, <2>1
  <2>3. ASSUME NEW i \in S, NEW j \in S PROVE i = j \/ <<i, j>> \in R \/ <<j, i>> \in R
    BY <1>2, <2>1
  <2>4. ASSUME NEW i \in S, NEW j \in S, NEW k \in S, <<i, j>> \in R, <<j, k>> \in R
        PROVE  <<i, k>> \in R
    <3>1. /\ s[i] > s[j] \/ (s[i] = s[j] /\ i < j)
          /\ s[j] > s[k] \/ (s[j] = s[k] /\ j < k)
      BY <2>1, <2>4
    <3>2. i \in Nat /\ j \in Nat /\ k \in Nat /\ s[i] \in Nat /\ s[j] \in Nat /\ s[k] \in Nat
      BY <1>2
    <3>3. s[i] > s[k] \/ (s[i] = s[k] /\ i < k)
      BY <3>1, <3>2
    <3>4. QED
      BY <2>1, <3>3
  <2>5. QED
    BY <2>2, <2>3, <2>4 DEF StrictOrder
<1>4. \A i \in S : lead(i) = Ahead(R, S, i)
  BY DEF Ahead
<1>5. DOMAIN s = S
  OBVIOUS
<1>6. r = [k \in DOMAIN s |-> [index |-> at(k), score |-> s[at(k)]]]
  BY DEF Scan!StableOrder
<1> HIDE DEF R, S, lead, r
<1>7. /\ \A i, j \in S : <<i, j>> \in R => Cardinality(lead(i)) < Cardinality(lead(j))
      /\ \A i \in S : Cardinality(lead(i)) \in 0 .. (n - 1)
      /\ \A k \in 0 .. (n - 1) : \E i \in S : Cardinality(lead(i)) = k
  BY <1>1, <1>3, <1>4, PlacesInOrder
<1>8. ASSUME NEW k \in S PROVE at(k) \in S /\ Cardinality(lead(at(k))) = k - 1
  <2>1. k - 1 \in 0 .. (n - 1)
    BY DEF S
  <2>2. \E i \in DOMAIN s : Scan!Cardinality(lead(i)) = k - 1
    BY <1>5, <1>7, <2>1, ScanOperators
  <2>3. at(k) \in DOMAIN s /\ Scan!Cardinality(lead(at(k))) = k - 1
    BY <2>2
  <2>4. QED
    BY <1>5, <2>3, ScanOperators
<1>9. ASSUME NEW k \in S, NEW l \in S, k < l PROVE s[at(k)] >= s[at(l)] /\ at(k) # at(l)
  <2> DEFINE a == at(k)
             b == at(l)
  <2>1. a \in S /\ b \in S /\ Cardinality(lead(a)) = k - 1 /\ Cardinality(lead(b)) = l - 1
    BY <1>8
  <2> HIDE DEF a, b
  <2>2. k - 1 # l - 1 /\ ~(l - 1 < k - 1)
    BY <1>2, <1>9
  <2>3. a # b /\ <<b, a>> \notin R
    BY <1>7, <2>1, <2>2
  <2>4. <<a, b>> \in R
    BY <1>3, <2>1, <2>3 DEF StrictOrder
  <2>5. s[a] > s[b] \/ s[a] = s[b]
    BY <2>4 DEF R
  <2>6. s[a] >= s[b]
    BY <1>2, <2>1, <2>5
  <2>7. QED
    BY <2>3, <2>6 DEF a, b
<1>10. ASSUME NEW i \in S PROVE \E k \in S : at(k) = i
  <2> DEFINE c == Cardinality(lead(i))
  <2>1. c \in 0 .. (n - 1)
    BY <1>7
  <2> HIDE DEF c
  <2>2. c + 1 \in S /\ (c + 1) - 1 = c
    BY <2>1 DEF S
  <2>3. at(c + 1) \in S /\ Cardinality(lead(at(c + 1))) = c
    BY <1>8, <2>2
  <2> DEFINE a == at(c + 1)
  <2>4. a = i
    <3>1. a \in S /\ Cardinality(lead(a)) = Cardinality(lead(i))
      BY <2>3 DEF c
    <3> HIDE DEF a
    <3>2. Cardinality(lead(i)) \in Nat
      BY <1>7
    <3>3. <<a, i>> \notin R /\ <<i, a>> \notin R
      BY <1>7, <3>1, <3>2
    <3>4. QED
      BY <1>3, <3>1, <3>3 DEF StrictOrder
  <2>5. QED
    BY <2>2, <2>4
<1> HIDE DEF at
<1>11. \A k \in S : r[k].index = at(k) /\ r[k].score = s[at(k)]
  BY <1>5, <1>6
<1>12. r \in [S -> [index : S, score : Nat]]
  BY <1>2, <1>5, <1>6, <1>8
<1>13. \A k, l \in S : k < l => r[k].score >= r[l].score /\ r[k].index # r[l].index
  BY <1>9, <1>11
<1>14. \A i \in S : \E k \in S : r[k].index = i
  BY <1>10, <1>11
<1>15. \A k \in S : r[k].score = s[r[k].index]
  BY <1>11
<1>16. QED
  BY <1>12, <1>13, <1>14, <1>15 DEF RanksOf, S, r

\* The order of the server, whatever it does with equal scores.
LEMMA ServerRanks ==
    ASSUME NEW n \in Nat, NEW s \in [1 .. n -> Nat], NEW r \in Scan!ServerRankings(s)
    PROVE  RanksOf(r, s, n)
<1> DEFINE S == 1 .. n
<1>1. DOMAIN s = S /\ \A i \in S : i \in Nat /\ s[i] \in Nat
  OBVIOUS
<1>2. PICK p \in [S -> S] :
          /\ \A i, j \in S : p[i] = p[j] => i = j
          /\ r = [i \in S |-> [index |-> p[i], score |-> s[p[i]]]]
          /\ Scan!Descending(r)
  <2>1. PICK p \in [DOMAIN s -> DOMAIN s] :
          /\ Scan!IsInjective(p)
          /\ r = [i \in DOMAIN s |-> [index |-> p[i], score |-> s[p[i]]]]
          /\ Scan!Descending(r)
    BY DEF Scan!ServerRankings
  <2>2. p \in [S -> S] /\ \A i, j \in S : p[i] = p[j] => i = j
    BY <1>1, <2>1, ScanOperators DEF IsInjective
  <2>3. QED
    BY <1>1, <2>1, <2>2
<1>3. IsFiniteSet(S)
  BY FS_Interval
<1> HIDE DEF S
<1>4. p \in Injection(S, S)
  BY <1>2 DEF Injection, IsInjective
<1>5. p \in Surjection(S, S)
  BY <1>3, <1>4, FS_Injection
<1>6. ASSUME NEW i \in S PROVE \E k \in S : p[k] = i
  BY <1>5 DEF Surjection
<1>7. \A k \in S : r[k].index = p[k] /\ r[k].score = s[p[k]]
  BY <1>2
<1>8. \A k, l \in S : k < l => r[k].score >= r[l].score
  BY <1>2 DEF Scan!Descending
<1>9. ASSUME NEW k \in S, NEW l \in S, k < l PROVE r[k].index # r[l].index
  <2>1. k # l
    BY <1>1, <1>9
  <2>2. QED
    BY <1>2, <1>7, <2>1
<1>10. r \in [S -> [index : S, score : Nat]]
  BY <1>1, <1>2
<1>11. \A i \in S : \E k \in S : r[k].index = i
  BY <1>6, <1>7
<1>12. \A k \in S : r[k].score = s[r[k].index]
  BY <1>7
<1>13. QED
  BY <1>8, <1>9, <1>10, <1>11, <1>12 DEF RanksOf, S

\* The candidates are the rows with a text, each once.
LEMMA CandidateFacts ==
    ASSUME Scan!ScanAssumption
    PROVE  /\ IsFiniteSet(Scan!Rows) /\ Cardinality(Scan!Rows) \in Nat
           /\ Scan!Rows \in SUBSET Tids
           /\ Scan!Candidates \in [1 .. Cardinality(Scan!Rows) -> Scan!Rows]
           /\ \A i, j \in 1 .. Cardinality(Scan!Rows) :
                 Scan!Candidates[i] = Scan!Candidates[j] => i = j
           /\ \A t \in Scan!Rows : \E i \in 1 .. Cardinality(Scan!Rows) : Scan!Candidates[i] = t
<1> DEFINE S == Scan!Rows
           n == Cardinality(S)
           R == {p \in S \X S : p[1] < p[2]}
           lead(t) == {j \in S : j < t}
           c == Scan!Candidates
           at(i) == CHOOSE t \in S : Scan!Cardinality(lead(t)) = i - 1
<1>1. S \in SUBSET Tids /\ IsFiniteSet(S)
  <2>1. S \in SUBSET Tids
    BY DEF Scan!Rows
  <2>2. QED
    BY <2>1, FS_Subset, ScanOperators DEF Scan!ScanAssumption
<1>2. \A t \in S : t \in Nat
  BY <1>1 DEF Scan!ScanAssumption
<1>3. c = [i \in 1 .. n |-> at(i)]
  <2>1. c = [i \in 1 .. Scan!Cardinality(S) |-> at(i)]
    BY DEF Scan!Candidates, Scan!Nth
  <2>2. QED
    BY <2>1, ScanOperators
<1> HIDE DEF S, c
<1>4. StrictOrder(R, S) /\ \A t \in S : lead(t) = Ahead(R, S, t)
  <2>1. \A t \in S : <<t, t>> \notin R
    BY <1>2
  <2>2. ASSUME NEW i \in S, NEW j \in S PROVE i = j \/ <<i, j>> \in R \/ <<j, i>> \in R
    BY <1>2
  <2>3. ASSUME NEW i \in S, NEW j \in S, NEW k \in S, <<i, j>> \in R, <<j, k>> \in R
        PROVE  <<i, k>> \in R
    BY <1>2, <2>3
  <2>4. \A t \in S : lead(t) = Ahead(R, S, t)
    BY DEF Ahead
  <2> HIDE DEF R
  <2>5. QED
    BY <2>1, <2>2, <2>3, <2>4 DEF StrictOrder
<1> HIDE DEF R, lead
<1>5. /\ n \in Nat
      /\ \A t \in S : Cardinality(lead(t)) \in 0 .. (n - 1)
      /\ \A t, u \in S : Cardinality(lead(t)) = Cardinality(lead(u)) => t = u
      /\ \A k \in 0 .. (n - 1) : \E t \in S : Cardinality(lead(t)) = k
  BY <1>1, <1>4, PlacesInOrder
<1> HIDE DEF n
<1>6. ASSUME NEW i \in 1 .. n PROVE at(i) \in S /\ Cardinality(lead(at(i))) = i - 1
  <2>1. i - 1 \in 0 .. (n - 1)
    BY <1>5
  <2>2. \E t \in S : Scan!Cardinality(lead(t)) = i - 1
    BY <1>5, <2>1, ScanOperators
  <2>3. at(i) \in S /\ Scan!Cardinality(lead(at(i))) = i - 1
    BY <2>2
  <2>4. QED
    BY <2>3, ScanOperators
<1>7. ASSUME NEW t \in S PROVE \E i \in 1 .. n : at(i) = t
  <2> DEFINE k == Cardinality(lead(t))
  <2>1. k \in 0 .. (n - 1)
    BY <1>5
  <2> HIDE DEF k
  <2>2. k + 1 \in 1 .. n /\ (k + 1) - 1 = k
    BY <1>5, <2>1
  <2>3. at(k + 1) \in S /\ Cardinality(lead(at(k + 1))) = Cardinality(lead(t))
    BY <1>6, <2>2 DEF k
  <2> HIDE DEF at
  <2>4. at(k + 1) = t
    BY <1>5, <2>3
  <2>5. QED
    BY <2>2, <2>4
<1>8. ASSUME NEW i \in 1 .. n, NEW j \in 1 .. n, at(i) = at(j) PROVE i = j
  <2>1. i - 1 = j - 1
    BY <1>6, <1>8
  <2>2. i \in Int /\ j \in Int
    OBVIOUS
  <2>3. QED
    BY <2>1, <2>2
<1> HIDE DEF at
<1>9. c \in [1 .. n -> S]
  BY <1>3, <1>6
<1>10. \A i, j \in 1 .. n : c[i] = c[j] => i = j
  BY <1>3, <1>8
<1>11. \A t \in S : \E i \in 1 .. n : c[i] = t
  BY <1>3, <1>7
<1>12. QED
  BY <1>1, <1>5, <1>9, <1>10, <1>11 DEF S, n, c

\* The scores that rank is asked to compare.
Asked ==
    [i \in DOMAIN Scan!Candidates |-> Score[<<Scan!Text(Scan!Candidates[i]), query>>]]

LEMMA AskedType ==
    ASSUME Scan!ScanAssumption, table \in Tables, query \in Queries
    PROVE  Asked \in [1 .. Cardinality(Scan!Rows) -> Nat]
<1> DEFINE n == Cardinality(Scan!Rows)
           c == Scan!Candidates
<1>1. c \in [1 .. n -> Scan!Rows]
  BY CandidateFacts
<1>2. ASSUME NEW t \in Scan!Rows PROVE Score[<<Scan!Text(t), query>>] \in Nat
  BY DEF Scan!Rows, Scan!Text, Scan!ScanAssumption
<1> HIDE DEF n, c
<1>3. \A i \in 1 .. n : c[i] \in Scan!Rows
  BY <1>1
<1>4. Asked = [i \in 1 .. n |-> Score[<<Scan!Text(c[i]), query>>]]
  BY <1>1 DEF Asked, c
<1>5. QED
  BY <1>2, <1>3, <1>4 DEF n

\* The greater the score, the less the distance.
LEMMA DistanceFacts ==
    ASSUME Scan!ScanAssumption, NEW a \in Nat, NEW b \in Nat, a >= b
    PROVE  Scan!Distance(a) \in Nat /\ Scan!Distance(a) <= Scan!Distance(b)
<1> DEFINE d(x) == 12 \div (1 + x)
<1>1. Far \in Nat /\ Far >= 12
  BY DEF Scan!ScanAssumption
<1>2. ASSUME NEW x \in Nat
      PROVE  /\ d(x) \in Nat /\ d(x) <= 12
             /\ (1 + x) * d(x) <= 12 /\ 12 < (1 + x) * (d(x) + 1)
  <2> DEFINE y == 1 + x
  <2>1. y \in Nat \ {0}
    OBVIOUS
  <2> HIDE DEF y
  <2>2. PICK q : q = 12 \div y
    OBVIOUS
  <2>3. PICK m : m = 12 % y
    OBVIOUS
  <2>4. q \in Nat /\ m \in 0 .. (y - 1) /\ 12 = y * q + m
    BY <2>1, <2>2, <2>3, DivFacts
  <2>5. y * q <= 12 /\ 12 < y * q + y
    BY <2>1, <2>4
  <2>6. y * (q + 1) = y * q + y
    BY <2>1, <2>4
  <2>7. q <= y * q
    BY <2>1, <2>4
  <2>8. QED
    BY <2>2, <2>4, <2>5, <2>6, <2>7 DEF y
<1> HIDE DEF d
<1>3. CASE a = 0 \/ b = 0
  BY <1>1, <1>2, <1>3 DEF Scan!Distance, d
<1>4. CASE a # 0 /\ b # 0
  <2>1. d(a) \in Nat /\ (1 + a) * d(a) <= 12 /\ d(b) \in Nat /\ 12 < (1 + b) * (d(b) + 1)
    BY <1>2
  <2>2. ASSUME d(b) + 1 <= d(a) PROVE FALSE
    <3> DEFINE e == d(b) + 1
    <3>1. (1 + b) * e <= (1 + a) * e
      BY <2>1
    <3>2. (1 + a) * e <= (1 + a) * d(a)
      BY <2>1, <2>2
    <3>3. QED
      BY <2>1, <3>1, <3>2
  <2>3. d(a) <= d(b)
    BY <2>1, <2>2
  <2>4. QED
    BY <1>4, <2>1, <2>3 DEF Scan!Distance, d
<1>5. QED
  BY <1>3, <1>4

----------------------------------------------------------------------------
(* The invariant of the scan *)

\* Between two calls: what the scan keeps is of the last rescan.
ScanState ==
    /\ scan \in {"closed", "open", "ranking"} /\ table \in Tables /\ computed \in BOOLEAN
    /\ given \in Queries \cup {NoText, ""} /\ query = IF given = "" THEN NoText ELSE given
    /\ ~computed => results = <<>> /\ position = 0 /\ unscored = {} /\ returned = <<>>
    /\ scan = "ranking" => ~computed /\ query \in Queries
    /\ computed => scan = "open" /\ query \in Queries

\* The answer of rank: each candidate once, the best first, with its score unless a
\* walk failed,
Ranking ==
    LET n == Cardinality(Scan!Rows)
        r == result.ranking
    IN  /\ r \in [1 .. n -> [index : 1 .. n, score : Nat]]
        /\ \A k, l \in 1 .. n : k < l => r[k].score >= r[l].score /\ r[k].index # r[l].index
        /\ \A i \in 1 .. n : \E k \in 1 .. n : r[k].index = i
        /\ \A k \in 1 .. n :
              r[k].score = Asked[r[k].index] \/ (r[k].score = 0 /\ "failed" \in causes)

\* and the call before it.
RankState ==
    scan = "ranking" =>
        /\ op \in {"rank", "idle"}
        /\ op = "rank" => request = Asked
        /\ op = "idle" /\ result.kind = "data" => Ranking

\* The results: each row once, the nearest first,
ResultsState ==
    computed =>
        /\ results \in Seq(Hit)
        /\ \A k \in 1 .. Len(results) :
              results[k].tid \in Scan!Rows /\ results[k].distance = Scan!Due(results[k].tid)
        /\ \A k, l \in 1 .. Len(results) : k < l =>
              results[k].tid # results[l].tid /\ results[k].distance <= results[l].distance
        /\ \A t \in Scan!Rows : \E k \in 1 .. Len(results) : results[k].tid = t
        /\ position \in 0 .. Len(results)

\* and what the executor has, w, of the first p results of r: those that are found
\* under their TID, in their order.
Has(w, r, p) ==
    /\ w \in Seq(Hit)
    /\ \A i \in 1 .. Len(w) : \E k \in 1 .. p : w[i] = r[k] /\ table[r[k].tid].root
    /\ \A k \in 1 .. p : table[r[k].tid].root => \E i \in 1 .. Len(w) : w[i] = r[k]
    /\ \A i, j \in 1 .. Len(w) : i < j =>
          \E k, l \in 1 .. p : k < l /\ w[i] = r[k] /\ w[j] = r[l]

ReturnedState == computed => Has(returned, results, position)

ScanInv == ScanState /\ RankState /\ ResultsState /\ ReturnedState

\* The next tuple.
LEMMA GiveKeeps ==
    ASSUME NEW r \in Seq(Hit), position \in 0 .. Len(r), Has(returned, r, position),
           Scan!Give(r, position)
    PROVE  position' \in 0 .. Len(r) /\ Has(returned', r, position')
<1> DEFINE n == position + 1
           x == r[n]
<1>1. Len(r) \in Nat /\ position \in Nat
  OBVIOUS
<1>2. CASE ~(position < Len(r))
  BY <1>2 DEF Scan!Give
<1>3. CASE position < Len(r)
  <2>1. n \in 1 .. Len(r) /\ position' = n /\ x \in Hit /\ n \in Nat
        /\ n \in 1 .. n /\ \A k \in 1 .. position : k \in 1 .. n /\ k < n
    BY <1>1, <1>3 DEF Scan!Give
  <2>2. \A k \in 1 .. n : k = n \/ k \in 1 .. position
    BY <1>1
  <2>3. CASE ~table[x.tid].root
    <3>1. returned' = returned
      BY <1>3, <2>3 DEF Scan!Give
    <3> HIDE DEF n
    <3> DEFINE w == returned
    <3> HIDE DEF w
    <3>2. Has(w, r, position)
      BY DEF w
    <3>3. \A i \in 1 .. Len(w) : \E k \in 1 .. n : w[i] = r[k] /\ table[r[k].tid].root
      BY <2>1, <3>2 DEF Has
    <3>4. \A k \in 1 .. n : table[r[k].tid].root => \E i \in 1 .. Len(w) : w[i] = r[k]
      BY <2>2, <2>3, <3>2 DEF Has
    <3>5. \A i, j \in 1 .. Len(w) : i < j =>
             \E k, l \in 1 .. n : k < l /\ w[i] = r[k] /\ w[j] = r[l]
      <4> HIDE DEF n
      <4>1. ASSUME NEW i \in 1 .. Len(w), NEW j \in 1 .. Len(w), i < j
            PROVE  \E k, l \in 1 .. n : k < l /\ w[i] = r[k] /\ w[j] = r[l]
        <5>1. \E k, l \in 1 .. position : k < l /\ w[i] = r[k] /\ w[j] = r[l]
          BY <3>2, <4>1 DEF Has
        <5>2. QED
          BY <2>1, <5>1
      <4>2. QED
        BY <4>1
    <3>6. Has(w, r, n)
      BY <3>2, <3>3, <3>4, <3>5 DEF Has
    <3>7. QED
      BY <1>1, <2>1, <3>1, <3>6 DEF w
  <2>4. CASE table[x.tid].root
    <3>1. returned' = Append(returned, x)
      BY <1>3, <2>4 DEF Scan!Give
    <3> DEFINE w == returned
               v == returned'
               m == Len(w) + 1
    <3>2. w \in Seq(Hit)
      BY DEF Has
    <3>3. /\ v \in Seq(Hit) /\ Len(v) = m /\ v[m] = x /\ Len(w) \in Nat
          /\ \A i \in 1 .. Len(w) : v[i] = w[i]
      BY <2>1, <3>1, <3>2, AppendType
    <3>4. /\ \A i \in 1 .. m : i = m \/ i \in 1 .. Len(w)
          /\ m \in 1 .. m /\ \A i \in 1 .. Len(w) : i \in 1 .. m /\ ~(m < i)
          /\ ~(m < m)
      BY <3>3
    <3> HIDE DEF n, m, v, w
    <3>5. \A i \in 1 .. m : \E k \in 1 .. n : v[i] = r[k] /\ table[r[k].tid].root
      <4>1. ASSUME NEW i \in 1 .. Len(w)
            PROVE  \E k \in 1 .. n : v[i] = r[k] /\ table[r[k].tid].root
        BY <2>1, <3>3 DEF Has, w
      <4>2. QED
        BY <2>1, <2>4, <3>3, <3>4, <4>1
    <3>6. \A k \in 1 .. n : table[r[k].tid].root => \E i \in 1 .. m : v[i] = r[k]
      <4>1. ASSUME NEW k \in 1 .. position, table[r[k].tid].root
            PROVE  \E i \in 1 .. m : v[i] = r[k]
        <5>1. PICK i \in 1 .. Len(w) : w[i] = r[k]
          BY <4>1 DEF Has, w
        <5>2. QED
          BY <3>3, <3>4, <5>1
      <4>2. QED
        BY <2>2, <3>3, <3>4, <4>1
    <3>7. \A i, j \in 1 .. m : i < j =>
             \E k, l \in 1 .. n : k < l /\ v[i] = r[k] /\ v[j] = r[l]
      <4>1. ASSUME NEW i \in 1 .. Len(w), NEW j \in 1 .. Len(w), i < j
            PROVE  \E k, l \in 1 .. n : k < l /\ v[i] = r[k] /\ v[j] = r[l]
        <5>1. \E k, l \in 1 .. position : k < l /\ w[i] = r[k] /\ w[j] = r[l]
          BY <4>1 DEF Has, w
        <5>2. QED
          BY <2>1, <3>3, <5>1
      <4>2. ASSUME NEW i \in 1 .. Len(w)
            PROVE  \E k, l \in 1 .. n : k < l /\ v[i] = r[k] /\ v[m] = r[l]
        <5>1. PICK k \in 1 .. position : w[i] = r[k]
          BY DEF Has, w
        <5>2. k \in 1 .. n /\ k < n /\ v[i] = r[k] /\ v[m] = r[n]
          BY <2>1, <3>3, <5>1
        <5>3. QED
          BY <2>1, <5>2
      <4>3. QED
        BY <3>4, <4>1, <4>2
    <3>8. Has(v, r, n)
      BY <3>3, <3>5, <3>6, <3>7 DEF Has
    <3>9. QED
      BY <1>1, <2>1, <3>8 DEF v
  <2>5. QED
    BY <2>3, <2>4
<1>4. QED
  BY <1>2, <1>3

\* A call of the scan that forgets the results.
LEMMA ForgetKeeps ==
    ASSUME Scan!ScanAssumption, ScanInv, ~computed', scan' \in {"closed", "open"},
           results' = <<>>, position' = 0, unscored' = {}, returned' = <<>>,
           table' \in Tables, given' \in Queries \cup {NoText, ""},
           query' = IF given' = "" THEN NoText ELSE given',
           computed' \in BOOLEAN
    PROVE  ScanInv'
BY DEF ScanInv, ScanState, RankState, ResultsState, ReturnedState

LEMMA ScanStaysOpen ==
    ASSUME Scan!ScanAssumption, ScanInv,
           Scan!BeginScan \/ (\E q \in Queries \cup {NoText, ""} : Scan!Rescan(q))
             \/ Scan!NoQuery \/ Scan!LoadFails \/ Scan!EndScan
    PROVE  ScanInv'
<1>1. CASE Scan!BeginScan
  <2>1. ~computed /\ scan' = "open" /\ table' \in Tables
        /\ UNCHANGED <<query, results, position, computed, given, unscored, returned>>
    BY <1>1 DEF Scan!BeginScan, ScanInv, ScanState
  <2>2. QED
    BY <2>1, ForgetKeeps DEF ScanInv, ScanState
<1>2. CASE \E q \in Queries \cup {NoText, ""} : Scan!Rescan(q)
  BY <1>2, ForgetKeeps DEF Scan!Rescan, ScanInv, ScanState
<1>3. CASE Scan!NoQuery \/ Scan!LoadFails \/ Scan!EndScan
  <2>1. Scan!Closed /\ table' = table
    BY <1>3 DEF Scan!NoQuery, Scan!LoadFails, Scan!EndScan
  <2>2. QED
    BY <2>1, ForgetKeeps DEF Scan!Closed, ScanInv, ScanState
<1>4. QED
  BY <1>1, <1>2, <1>3

LEMMA NextTupleKeeps ==
    ASSUME Scan!ScanAssumption, ScanInv, Scan!NextTuple
    PROVE  ScanInv'
<1>1. /\ computed /\ Scan!Give(results, position) /\ scan = "open"
      /\ UNCHANGED <<scan, table, query, results, computed, given, unscored>>
  BY DEF Scan!NextTuple
<1>2. results \in Seq(Hit) /\ position \in 0 .. Len(results) /\ Has(returned, results, position)
  BY <1>1 DEF ScanInv, ResultsState, ReturnedState
<1>3. position' \in 0 .. Len(results) /\ Has(returned', results, position')
  BY <1>1, <1>2, GiveKeeps
<1>4. ReturnedState'
  BY <1>1, <1>3 DEF ReturnedState, Has
<1>5. ResultsState'
  BY <1>1, <1>3 DEF ScanInv, ResultsState, Scan!Due, Scan!Text, Scan!Rows
<1>6. ScanState' /\ RankState'
  BY <1>1 DEF ScanInv, ScanState, RankState
<1>7. QED
  BY <1>4, <1>5, <1>6 DEF ScanInv

LEMMA NothingToRankKeeps ==
    ASSUME Scan!ScanAssumption, ScanInv, Scan!NothingToRank
    PROVE  ScanInv'
<1>1. /\ scan = "open" /\ ~computed /\ query # NoText /\ Scan!Candidates = <<>> /\ computed'
      /\ computed' \in BOOLEAN
      /\ UNCHANGED <<scan, table, query, results, position, given, unscored, returned>>
  BY DEF Scan!NothingToRank
<1>2. results = <<>> /\ position = 0 /\ returned = <<>> /\ query \in Queries
  BY <1>1 DEF ScanInv, ScanState
<1>3. Scan!Rows = {}
  BY <1>1, CandidateFacts
<1>4. Scan!Rows' = {}
  BY <1>1, <1>3 DEF Scan!Rows, Scan!Text
<1>5. <<>> \in Seq(Hit) /\ Len(<<>>) = 0 /\ 0 \in 0 .. 0 /\ 1 .. 0 = {}
  OBVIOUS
<1>6. ResultsState'
  BY <1>1, <1>2, <1>4, <1>5 DEF ResultsState
<1>7. ReturnedState'
  BY <1>1, <1>2, <1>5 DEF ReturnedState, Has
<1>8. ScanState' /\ RankState'
  BY <1>1, <1>2 DEF ScanInv, ScanState, RankState
<1>9. QED
  BY <1>6, <1>7, <1>8 DEF ScanInv

LEMMA RankKeeps ==
    ASSUME Scan!ScanAssumption, ScanInv, Scan!Rank
    PROVE  ScanInv'
<1>1. /\ ~computed /\ query # NoText /\ scan' = "ranking" /\ Scan!Ask("rank", Asked)
      /\ UNCHANGED <<table, query, results, position, computed, given, unscored, returned>>
  BY DEF Scan!Rank, Asked
<1>2. op' = "rank" /\ request' = Asked
  BY <1>1 DEF Scan!Ask, Scan!GiveUp, Scan!Call
<1>3. Asked' = Asked
  BY <1>1 DEF Asked, Scan!Candidates, Scan!Rows, Scan!Text
<1>4. query \in Queries
  BY <1>1 DEF ScanInv, ScanState
<1>5. ScanState' /\ RankState' /\ ResultsState' /\ ReturnedState'
  BY <1>1, <1>2, <1>3, <1>4 DEF ScanInv, ScanState, RankState, ResultsState, ReturnedState
<1>6. QED
  BY <1>5 DEF ScanInv

\* rank returns to the scan.
LEMMA RankEndsKeeps ==
    ASSUME Scan!ScanAssumption, ScanInv, Scan!RankEnds
    PROVE  ScanInv'
<1> DEFINE n == Cardinality(Scan!Rows)
           c == Scan!Candidates
           r == Scan!RankedTuples
           rk == result.ranking
<1>1. /\ scan = "ranking" /\ op = "idle" /\ UNCHANGED table
      /\ ~computed /\ query \in Queries /\ Asked \in [1 .. n -> Nat]
      /\ position = 0 /\ returned = <<>>
  BY AskedType DEF Scan!RankEnds, ScanInv, ScanState
<1>2. CASE result.kind # "data"
  <2>1. Scan!Closed
    BY <1>2 DEF Scan!RankEnds
  <2>2. QED
    BY <1>1, <2>1, ForgetKeeps DEF Scan!Closed, ScanInv, ScanState
<1>3. CASE result.kind = "data"
  <2>1. /\ scan' = "open" /\ results' = r /\ computed' /\ computed' = TRUE
        /\ unscored' = IF "failed" \notin causes THEN {}
                       ELSE {h.tid : h \in {r[k] : k \in
                                {j \in DOMAIN r : r[j].distance = Far}}}
        /\ Scan!Give(r, position)
        /\ UNCHANGED <<table, query, given>>
    BY <1>3 DEF Scan!RankEnds
  <2>2. Ranking
    BY <1>1, <1>3 DEF ScanInv, RankState
  <2>3. /\ n \in Nat /\ Scan!Rows \in SUBSET Tids /\ c \in [1 .. n -> Scan!Rows]
        /\ \A i, j \in 1 .. n : c[i] = c[j] => i = j
        /\ \A t \in Scan!Rows : \E i \in 1 .. n : c[i] = t
    BY CandidateFacts
  <2>4. /\ rk \in [1 .. n -> [index : 1 .. n, score : Nat]]
        /\ \A k, l \in 1 .. n : k < l => rk[k].score >= rk[l].score /\ rk[k].index # rk[l].index
        /\ \A i \in 1 .. n : \E k \in 1 .. n : rk[k].index = i
        /\ \A k \in 1 .. n :
              rk[k].score = Asked[rk[k].index] \/ (rk[k].score = 0 /\ "failed" \in causes)
    BY <2>2 DEF Ranking
  <2>5. r = [k \in 1 .. n |-> [tid |-> c[rk[k].index], distance |-> Scan!Distance(rk[k].score)]]
    BY <2>4 DEF Scan!RankedTuples
  <2>6. Asked = [i \in 1 .. n |-> Score[<<Scan!Text(c[i]), query>>]]
    BY <2>3 DEF Asked
  <2>7. given = query
    BY <1>1 DEF ScanInv, ScanState, Scan!ScanAssumption
  <2> HIDE DEF n, c, r, rk
  <2>8. ASSUME NEW k \in 1 .. n
        PROVE  /\ r[k].tid = c[rk[k].index] /\ r[k].distance = Scan!Distance(rk[k].score)
               /\ rk[k].index \in 1 .. n /\ rk[k].score \in Nat
               /\ r[k].tid \in Scan!Rows /\ r[k] \in Hit
    <3>1. rk[k].index \in 1 .. n /\ rk[k].score \in Nat
      BY <2>4
    <3>2. Scan!Distance(rk[k].score) \in Nat
      <4>1. rk[k].score >= rk[k].score
        BY <3>1
      <4>2. QED
        BY <3>1, <4>1, DistanceFacts
    <3>3. r[k] = [tid |-> c[rk[k].index], distance |-> Scan!Distance(rk[k].score)]
      BY <2>5
    <3>4. c[rk[k].index] \in Scan!Rows /\ c[rk[k].index] \in Tids
      BY <2>3, <3>1
    <3>5. QED
      BY <3>1, <3>2, <3>3, <3>4 DEF Hit
  <2>9. r \in Seq(Hit) /\ Len(r) = n
    BY <2>3, <2>5, <2>8
  <2>10. ASSUME NEW k \in 1 .. n, NEW l \in 1 .. n, k < l
         PROVE  r[k].tid # r[l].tid /\ r[k].distance <= r[l].distance
    <3>1. rk[k].index # rk[l].index /\ rk[k].score >= rk[l].score
      BY <2>4, <2>10
    <3>2. r[k].tid # r[l].tid
      BY <2>3, <2>8, <3>1
    <3>3. Scan!Distance(rk[k].score) <= Scan!Distance(rk[l].score)
      BY <2>8, <3>1, DistanceFacts
    <3>4. QED
      BY <2>8, <3>2, <3>3
  <2>11. ASSUME NEW t \in Scan!Rows PROVE \E k \in 1 .. n : r[k].tid = t
    <3>1. PICK i \in 1 .. n : c[i] = t
      BY <2>3
    <3>2. PICK k \in 1 .. n : rk[k].index = i
      BY <2>4
    <3>3. QED
      BY <2>8, <3>1, <3>2
  <2>12. \A k, l \in 1 .. n : r[k].tid = r[l].tid => k = l
    <3>1. ASSUME NEW k \in 1 .. n, NEW l \in 1 .. n, r[k].tid = r[l].tid PROVE k = l
      <4>1. ~(k < l) /\ ~(l < k)
        BY <2>10, <3>1
      <4>2. QED
        BY <4>1
    <3>2. QED
      BY <3>1
  <2>13. ASSUME NEW k \in 1 .. n
         PROVE  r[k].distance = IF r[k].tid \in unscored' THEN Far
                    ELSE Scan!Distance(Score[<<Scan!Text(r[k].tid), given>>])
    <3>1. Asked[rk[k].index] = Score[<<Scan!Text(r[k].tid), given>>]
      BY <2>6, <2>7, <2>8
    <3>2. DOMAIN r = 1 .. n
      BY <2>5
    <3>3. CASE "failed" \notin causes
      BY <2>1, <2>4, <2>8, <3>1, <3>3
    <3>4. CASE "failed" \in causes
      <4>1. r[k].tid \in unscored' <=> r[k].distance = Far
        <5>1. unscored' = {h.tid : h \in {r[j] : j \in {i \in 1 .. n : r[i].distance = Far}}}
          BY <2>1, <3>2, <3>4
        <5>2. r[k].distance = Far => r[k].tid \in unscored'
          BY <5>1
        <5>3. ASSUME r[k].tid \in unscored' PROVE r[k].distance = Far
          <6>1. PICK j \in 1 .. n : r[j].distance = Far /\ r[j].tid = r[k].tid
            BY <5>1, <5>3
          <6>2. QED
            BY <2>12, <6>1
        <5>4. QED
          BY <5>2, <5>3
      <4>2. rk[k].score = 0 => r[k].distance = Far
        BY <2>8 DEF Scan!Distance
      <4>3. r[k].distance # Far => rk[k].score = Asked[rk[k].index]
        BY <2>4, <4>2
      <4>4. QED
        BY <2>8, <3>1, <4>1, <4>3
    <3>5. QED
      BY <3>3, <3>4
  <2>14. Has(returned, r, position) /\ position \in 0 .. Len(r)
    <3>1. <<>> \in Seq(Hit) /\ Len(<<>>) = 0 /\ 0 \in 0 .. n /\ 1 .. 0 = {}
      BY <2>3
    <3>2. QED
      BY <1>1, <2>9, <3>1 DEF Has
  <2>15. position' \in 0 .. Len(r) /\ Has(returned', r, position')
    BY <2>1, <2>9, <2>14, GiveKeeps
  <2>16. ResultsState'
    <3>1. Scan!Rows' = Scan!Rows
      BY <2>1 DEF Scan!Rows, Scan!Text
    <3>2. \A k \in 1 .. n :
             r[k].distance = IF r[k].tid \in unscored' THEN Far
                 ELSE Scan!Distance(Score[<<table'[r[k].tid].text, given'>>])
      BY <2>1, <2>13 DEF Scan!Text
    <3>3. /\ \A k \in 1 .. n : r[k].tid \in Scan!Rows'
          /\ \A k, l \in 1 .. n : k < l => r[k].tid # r[l].tid /\ r[k].distance <= r[l].distance
          /\ \A t \in Scan!Rows' : \E k \in 1 .. n : r[k].tid = t
      BY <2>8, <2>10, <2>11, <3>1
    <3>4. QED
      BY <2>1, <2>9, <2>15, <3>2, <3>3 DEF ResultsState, Scan!Due, Scan!Text
  <2>17. ReturnedState'
    BY <2>1, <2>15 DEF ReturnedState, Has
  <2>18. ScanState' /\ RankState'
    BY <1>1, <2>1 DEF ScanInv, ScanState, RankState
  <2>19. QED
    BY <2>16, <2>17, <2>18 DEF ScanInv
<1>4. QED
  BY <1>2, <1>3

\* The backend answers, or the connection changes, while the scan waits.
LEMMA RemoteRanks ==
    ASSUME Scan!ScanAssumption, FeaturesInv, ScanInv, scan = "ranking", op = "rank",
           Scan!RemoteNext, UNCHANGED Scan!scanVars
    PROVE  RankState'
<1> DEFINE n == Cardinality(Scan!Rows)
<1>1. /\ UNCHANGED <<scan, table, query>>
      /\ request = Asked /\ query \in Queries /\ endpoint \in {"rank", "walk"}
  BY DEF Scan!scanVars, ScanInv, ScanState, RankState, FeaturesInv, OperationInv
<1>2. Asked \in [1 .. n -> Nat] /\ Scan!Rows' = Scan!Rows /\ Asked' = Asked /\ n \in Nat
  <2>1. Asked \in [1 .. n -> Nat] /\ n \in Nat
    BY <1>1, AskedType, CandidateFacts DEF ScanInv, ScanState
  <2>2. Scan!Rows' = Scan!Rows
    BY <1>1 DEF Scan!Rows, Scan!Text
  <2>3. Asked' = Asked
    BY <1>1, <2>2 DEF Asked, Scan!Candidates, Scan!Text
  <2>4. QED
    BY <2>1, <2>2, <2>3
<1>3. CASE op' = "rank" /\ request' = request
  BY <1>1, <1>2, <1>3 DEF RankState
<1>4. CASE op' = "idle" /\ result'.kind = "error"
  BY <1>1, <1>4 DEF RankState
<1>5. ASSUME NEW scores \in [1 .. n -> Nat], RanksOf(result'.ranking, scores, n), op' = "idle",
             \A i \in 1 .. n : scores[i] = Asked[i] \/ (scores[i] = 0 /\ "failed" \in causes')
      PROVE  RankState'
  <2> DEFINE r == result'.ranking
  <2>1. r \in [1 .. n -> [index : 1 .. n, score : Nat]]
    BY <1>5 DEF RanksOf
  <2>2. \A k \in 1 .. n :
           r[k].score = Asked[r[k].index] \/ (r[k].score = 0 /\ "failed" \in causes')
    <3>1. ASSUME NEW k \in 1 .. n
          PROVE  r[k].score = Asked[r[k].index] \/ (r[k].score = 0 /\ "failed" \in causes')
      <4>1. r[k].index \in 1 .. n /\ r[k].score = scores[r[k].index]
        BY <1>5, <2>1 DEF RanksOf
      <4>2. QED
        BY <1>5, <4>1
    <3>2. QED
      BY <3>1
  <2>3. Ranking'
    BY <1>2, <1>5, <2>1, <2>2 DEF Ranking, RanksOf
  <2>4. QED
    BY <1>1, <1>5, <2>3 DEF RankState
<1>6. CASE Scan!Replace
  BY <1>3, <1>6 DEF Scan!Replace
<1>7. CASE Scan!Answered
  <2>1. PICK r \in Scan!ServerRankings(Asked) : Scan!Return("rank", "data", r)
    BY <1>1, <1>7 DEF Scan!Answered
  <2>2. op' = "idle" /\ result'.ranking = r
    BY <2>1 DEF Scan!Return
  <2>3. RanksOf(r, Asked, n)
    BY <1>2, ServerRanks
  <2>4. QED
    BY <1>2, <1>5, <2>2, <2>3
<1>8. ASSUME NEW a, Scan!Absent(a) PROVE RankState'
  BY <1>3, <1>8 DEF Scan!Absent, Scan!GiveUp, Scan!Call
<1>9. ASSUME NEW a, Scan!Fails(a) PROVE RankState'
  BY <1>4, <1>9 DEF Scan!Fails, Scan!Return
<1>10. ASSUME NEW failed, Scan!Walked(failed) PROVE RankState'
  <2> DEFINE scores == [i \in 1 .. n |-> IF i \in failed THEN 0 ELSE Asked[i]]
  <2>1. /\ op' = "idle"
        /\ endpoint \in server => causes' = causes \cup (IF failed = {} THEN {} ELSE {"failed"})
        /\ endpoint \notin server => failed = 0 .. Len(request)
    BY <1>10 DEF Scan!Walked, Scan!Return
  <2>2. CASE 0 \in failed
    BY <1>4, <1>10, <2>2 DEF Scan!Walked, Scan!Return
  <2>3. CASE 0 \notin failed
    <3>1. result'.ranking = Scan!Ranked(Asked, failed)
      BY <1>1, <1>10, <2>3 DEF Scan!Walked, Scan!Return
    <3>2. DOMAIN Asked = 1 .. n
      BY <1>2
    <3>3. result'.ranking = Scan!StableOrder(scores)
      BY <3>1, <3>2 DEF Scan!Ranked
    <3>4. scores \in [1 .. n -> Nat]
      BY <1>2
    <3>5. \A i \in 1 .. n : scores[i] = Asked[i] \/ (scores[i] = 0 /\ "failed" \in causes')
      <4>1. endpoint \in server
        <5>1. Asked \in Seq(Nat) /\ Len(Asked) \in Nat
          BY <1>2
        <5>2. 0 \in 0 .. Len(request)
          BY <1>1, <5>1
        <5>3. QED
          BY <2>1, <2>3, <5>2
      <4>2. failed = {} \/ "failed" \in causes'
        BY <2>1, <4>1
      <4>3. QED
        BY <1>2, <4>2
    <3> HIDE DEF scores
    <3>6. RanksOf(result'.ranking, scores, n)
      BY <1>2, <3>3, <3>4, StableRanks
    <3>7. QED
      BY <1>5, <2>1, <3>4, <3>5, <3>6
  <2>4. QED
    BY <2>2, <2>3
<1>11. QED
  BY <1>6, <1>7, <1>8, <1>9, <1>10
  DEF Scan!RemoteNext, Scan!Connect, Scan!Connecting, Scan!Evict, Scan!Ask, Scan!Embed,
      Scan!Query, Scan!Begins

LEMMA ScanStays ==
    ASSUME UNCHANGED <<scan, table, query, results, position, computed, given, unscored, returned>>
    PROVE  /\ Asked' = Asked /\ Scan!Rows' = Scan!Rows
           /\ ScanState => ScanState'
           /\ ResultsState => ResultsState'
           /\ ReturnedState => ReturnedState'
<1>1. Scan!Rows' = Scan!Rows
  BY DEF Scan!Rows, Scan!Text
<1>2. Asked' = Asked
  BY <1>1 DEF Asked, Scan!Candidates, Scan!Text
<1>3. ScanState => ScanState'
  BY DEF ScanState
<1>4. ResultsState => ResultsState'
  BY <1>1 DEF ResultsState, Scan!Due, Scan!Text
<1>5. ReturnedState => ReturnedState'
  BY DEF ReturnedState, Has
<1>6. QED
  BY <1>1, <1>2, <1>3, <1>4, <1>5

LEMMA ScanStepped ==
    ASSUME Scan!ScanAssumption, FeaturesInv, ScanInv, Scan!Next
    PROVE  ScanInv'
<1>1. CASE ~(scan = "ranking" /\ op = "idle") /\ Scan!RemoteNext /\ UNCHANGED Scan!scanVars
  <2>1. ScanState' /\ ResultsState' /\ ReturnedState'
    <3>1. UNCHANGED <<scan, table, query, results, position, computed, given, unscored, returned>>
      BY <1>1 DEF Scan!scanVars
    <3>2. QED
      BY <3>1, ScanStays DEF ScanInv
  <2>2. RankState'
    <3>1. CASE scan = "ranking"
      BY <1>1, <3>1, RemoteRanks DEF ScanInv, RankState
    <3>2. CASE scan # "ranking"
      BY <1>1, <3>2 DEF RankState, Scan!scanVars
    <3>3. QED
      BY <3>1, <3>2
  <2>3. QED
    BY <2>1, <2>2 DEF ScanInv
<1>2. QED
  BY <1>1, ScanStaysOpen, NextTupleKeeps, NothingToRankKeeps, RankKeeps, RankEndsKeeps
  DEF Scan!Next

LEMMA ScanInvAlways == ProgramsSpec => []ScanInv
<1>1. Scan!Init => ScanInv
  BY DEF Scan!Init, ScanInv, ScanState, RankState, ResultsState, ReturnedState
<1>2. FeaturesInv /\ ScanInv /\ [Scan!Next]_(Scan!vars) => ScanInv'
  <2> SUFFICES ASSUME FeaturesInv, ScanInv, [Scan!Next]_(Scan!vars)
               PROVE  ScanInv'
    OBVIOUS
  <2>1. CASE Scan!Next
    BY <2>1, ScanStepped, ProgramsAssumption
  <2>2. CASE UNCHANGED Scan!vars
    <3>1. /\ UNCHANGED <<scan, table, query, results, position, computed, given, unscored, returned>>
          /\ UNCHANGED <<op, request, result, causes>>
      BY <2>2 DEF Scan!vars, Scan!remoteVars, Scan!scanVars
    <3>2. ScanState' /\ ResultsState' /\ ReturnedState' /\ Asked' = Asked /\ Scan!Rows' = Scan!Rows
      BY <3>1, ScanStays DEF ScanInv
    <3>3. Ranking' <=> Ranking
      BY <3>1, <3>2 DEF Ranking
    <3>4. RankState'
      BY <3>1, <3>2, <3>3 DEF ScanInv, RankState
    <3>5. QED
      BY <3>2, <3>4 DEF ScanInv
  <2>3. QED
    BY <2>1, <2>2
<1>3. QED
  BY <1>1, <1>2, ScanRuns, FeaturesInvAlways, PTL DEF Scan!Spec

\* What the executor has is in the order of the distances, nothing twice, with nothing
\* missing before or after it, for any rows, queries and scores, whatever the server
\* and the caller do (ScanReturnsRanking of IndexScan).
THEOREM ScanReturnsRankingAlways == ProgramsSpec => []ScanReturnsRanking
<1>1. ScanInv => ScanReturnsRanking
  <2> SUFFICES ASSUME ScanInv, scan = "open" PROVE
        /\ returned # <<>> => given \in Queries
        /\ \A i \in DOMAIN returned :
              /\ Scan!Text(returned[i].tid) \notin {NoText, ""}
              /\ returned[i].distance = Scan!Due(returned[i].tid)
              /\ \A j \in DOMAIN returned : i < j =>
                    /\ returned[i].tid # returned[j].tid
                    /\ returned[i].distance =< returned[j].distance
        /\ computed =>
              LET owed == {t \in Scan!Rows : table[t].root}
                  has == {returned[i].tid : i \in DOMAIN returned}
              IN  /\ \A i \in DOMAIN returned, t \in owed \ has :
                        returned[i].distance =< Scan!Due(t)
                  /\ position = Len(results) => has = owed
    BY DEF ScanReturnsRanking, Scan!ScanReturnsRanking
  <2>1. CASE ~computed
    <3>1. returned = <<>>
      BY <2>1 DEF ScanInv, ScanState
    <3>2. QED
      BY <2>1, <3>1
  <2>2. CASE computed
    <3> DEFINE m == Len(returned)
               n == Len(results)
    <3>1. given \in Queries
      BY <2>2, ProgramsAssumption DEF ScanInv, ScanState, Scan!ScanAssumption
    <3>2. /\ results \in Seq(Hit)
          /\ \A k \in 1 .. n :
                results[k].tid \in Scan!Rows /\ results[k].distance = Scan!Due(results[k].tid)
          /\ \A k, l \in 1 .. n : k < l =>
                results[k].tid # results[l].tid /\ results[k].distance <= results[l].distance
          /\ \A t \in Scan!Rows : \E k \in 1 .. n : results[k].tid = t
          /\ position \in 0 .. n
      BY <2>2 DEF ScanInv, ResultsState
    <3>3. /\ returned \in Seq(Hit)
          /\ \A i \in 1 .. m : \E k \in 1 .. position :
                returned[i] = results[k] /\ table[results[k].tid].root
          /\ \A k \in 1 .. position : table[results[k].tid].root =>
                \E i \in 1 .. m : returned[i] = results[k]
          /\ \A i, j \in 1 .. m : i < j => \E k, l \in 1 .. position :
                k < l /\ returned[i] = results[k] /\ returned[j] = results[l]
      BY <2>2 DEF ScanInv, ReturnedState, Has
    <3>4. DOMAIN returned = 1 .. m /\ n \in Nat /\ position \in Nat
      BY <3>2, <3>3
    <3> HIDE DEF m, n
    <3>5. \A k \in 1 .. position : k \in 1 .. n /\ k \in Nat
      BY <3>2, <3>4
    <3>6. \A k \in 1 .. n : k \in 1 .. position \/ position < k
      BY <3>4
    <3>7. ASSUME NEW i \in 1 .. m
          PROVE  /\ returned[i].tid \in Scan!Rows /\ table[returned[i].tid].root
                 /\ returned[i].distance = Scan!Due(returned[i].tid)
      <4>1. PICK k \in 1 .. position : returned[i] = results[k] /\ table[results[k].tid].root
        BY <3>3
      <4>2. QED
        BY <3>2, <3>5, <4>1
    <3>8. ASSUME NEW i \in 1 .. m, NEW j \in 1 .. m, i < j
          PROVE  /\ returned[i].tid # returned[j].tid
                 /\ returned[i].distance <= returned[j].distance
      <4>1. PICK k \in 1 .. position, l \in 1 .. position :
                k < l /\ returned[i] = results[k] /\ returned[j] = results[l]
        BY <3>3, <3>8
      <4>2. QED
        BY <3>2, <3>5, <4>1
    <3>9. ASSUME NEW t \in Scan!Rows, table[t].root, \A i \in 1 .. m : returned[i].tid # t
          PROVE  /\ position < n
                 /\ \A i \in 1 .. m : returned[i].distance <= Scan!Due(t)
      <4>1. PICK l \in 1 .. n : results[l].tid = t
        BY <3>2
      <4>2. l \notin 1 .. position
        BY <3>3, <3>9, <4>1
      <4>3. position < l /\ l <= n /\ l \in Nat
        BY <3>4, <3>6, <4>2
      <4>4. ASSUME NEW i \in 1 .. m PROVE returned[i].distance <= Scan!Due(t)
        <5>1. PICK k \in 1 .. position : returned[i] = results[k]
          BY <3>3
        <5>2. k < l
          BY <3>4, <4>3
        <5>3. QED
          BY <3>2, <3>5, <4>1, <5>1, <5>2
      <4>5. QED
        BY <3>4, <4>3, <4>4
    <3>10. \A i \in 1 .. m : Scan!Text(returned[i].tid) \notin {NoText, ""}
      BY <3>7 DEF Scan!Rows
    <3>11. position = n => {returned[i].tid : i \in 1 .. m} = {t \in Scan!Rows : table[t].root}
      BY <3>4, <3>7, <3>9
    <3>12. QED
      BY <3>1, <3>4, <3>7, <3>8, <3>9, <3>10, <3>11 DEF n
  <2>3. QED
    BY <2>1, <2>2 DEF ScanInv, ScanState
<1>2. QED
  BY <1>1, ScanInvAlways, PTL

\* The types of the backend's state that FeaturesInv does not give.
RemoteTypes ==
    /\ capabilities \in Servers \cup {NoReport}
    /\ op \in Scan!Ops \cup {"down", "connecting", "idle"}
    /\ op = "connecting" => endpoint \in {"stats", "capabilities"}
    /\ op \in {"down", "idle"} => endpoint = "none"
    /\ result.kind \in {"none", "data", "nothing", "unsupported", "error"}
    /\ causes \subseteq {"replaced", "misread", "missing", "failed", "empty"}

LEMMA ReturnTypes ==
    ASSUME RemoteTypes, capabilities' = capabilities,
           causes' \subseteq {"replaced", "misread", "missing", "failed", "empty"},
           NEW o \in Scan!Ops, NEW kind \in {"data", "nothing", "unsupported", "error"},
           NEW r, NEW e,
           Scan!Return(o, kind, r) \/ Scan!Call(o, e, r)
    PROVE  RemoteTypes'
<1>1. CASE Scan!Return(o, kind, r)
  BY <1>1 DEF Scan!Return, RemoteTypes
<1>2. CASE Scan!Call(o, e, r)
  BY <1>2 DEF Scan!Call, RemoteTypes
<1>3. QED
  BY <1>1, <1>2

LEMMA GiveUpTypes ==
    ASSUME RemoteTypes, capabilities' = capabilities,
           causes' \subseteq {"replaced", "misread", "missing", "failed", "empty"},
           NEW o \in DOMAIN Scan!Optional, NEW r, Scan!GiveUp(o, r)
    PROVE  RemoteTypes'
BY ReturnTypes DEF Scan!GiveUp

LEMMA RemoteTypesStep ==
    ASSUME Scan!RemoteAssumption, FeaturesInv, RemoteTypes,
           \/ Scan!RemoteNext
           \/ \E r : Scan!Ask("rank", r)
    PROVE  RemoteTypes'
<1>1. ASSUME NEW o \in DOMAIN Scan!Optional, NEW r, Scan!Ask(o, r) PROVE RemoteTypes'
  <2>1. capabilities' = capabilities /\ causes' \subseteq causes
    BY <1>1 DEF Scan!Ask, Scan!Begins
  <2>2. causes' \subseteq {"replaced", "misread", "missing", "failed", "empty"}
    BY <2>1 DEF RemoteTypes
  <2>3. Scan!GiveUp(o, r) \/ Scan!Call(o, Scan!Optional[o], r)
    BY <1>1 DEF Scan!Ask
  <2>4. QED
    BY <2>1, <2>2, <2>3, GiveUpTypes, ReturnTypes
<1>2. CASE Scan!Embed \/ \E q \in DOMAIN Scan!Required : Scan!Query(q)
  <2>1. capabilities' = capabilities /\ causes' \subseteq causes
    BY <1>2 DEF Scan!Embed, Scan!Query, Scan!Begins
  <2>2. causes' \subseteq {"replaced", "misread", "missing", "failed", "empty"}
    BY <2>1 DEF RemoteTypes
  <2>3. CASE Scan!Embed
    BY <2>1, <2>2, <2>3, ReturnTypes DEF Scan!Embed
  <2>4. ASSUME NEW q \in DOMAIN Scan!Required, Scan!Query(q) PROVE RemoteTypes'
    BY <2>1, <2>2, <2>4, ReturnTypes DEF Scan!Query
  <2>5. QED
    BY <1>2, <2>3, <2>4
<1>3. CASE Scan!Replace
  BY <1>3 DEF Scan!Replace, RemoteTypes
<1>4. CASE Scan!Connect
  BY <1>4 DEF Scan!Connect, Scan!Call, RemoteTypes
<1>5. CASE Scan!Connecting
  BY <1>5 DEF Scan!Connecting, RemoteTypes, FeaturesInv, ConnectionInv
<1>6. CASE Scan!Evict
  BY <1>6 DEF Scan!Evict, RemoteTypes
<1>7. CASE Scan!Answered
  <2>1. op \in Scan!Ops /\ capabilities' = capabilities
    BY <1>7 DEF Scan!Answered, Scan!Ends
  <2>2. causes' \subseteq {"replaced", "misread", "missing", "failed", "empty"}
    BY <1>7 DEF Scan!Answered, RemoteTypes
  <2>3. QED
    BY <1>7, <2>1, <2>2, ReturnTypes DEF Scan!Answered
<1>8. ASSUME NEW a, Scan!Absent(a) PROVE RemoteTypes'
  <2>1. op \in DOMAIN Scan!Optional /\ capabilities' = capabilities /\ Scan!GiveUp(op, request)
    BY <1>8 DEF Scan!Absent, Scan!Ends, Scan!OfOptional
  <2>2. causes' \subseteq {"replaced", "misread", "missing", "failed", "empty"}
    BY <1>8 DEF Scan!Absent, RemoteTypes
  <2>3. QED
    BY <2>1, <2>2, GiveUpTypes
<1>9. ASSUME NEW a, Scan!Fails(a) PROVE RemoteTypes'
  <2>1. op \in Scan!Ops /\ capabilities' = capabilities /\ Scan!Return(op, "error", <<>>)
    BY <1>9 DEF Scan!Fails, Scan!Ends
  <2>2. causes' \subseteq {"replaced", "misread", "missing", "failed", "empty"}
    BY <1>9 DEF Scan!Fails, RemoteTypes
  <2>3. QED
    BY <2>1, <2>2, ReturnTypes
<1>10. ASSUME NEW failed, Scan!Walked(failed) PROVE RemoteTypes'
  <2>1. /\ op \in Scan!Ops /\ capabilities' = capabilities
        /\ Scan!Return(op, "error", <<>>) \/ Scan!Return(op, "data", Scan!Ranked(request, failed))
    BY <1>10 DEF Scan!Walked
  <2>2. causes' \subseteq {"replaced", "misread", "missing", "failed", "empty"}
    BY <1>10 DEF Scan!Walked, RemoteTypes
  <2>3. QED
    BY <2>1, <2>2, ReturnTypes
<1>11. QED
  BY <1>1, <1>2, <1>3, <1>4, <1>5, <1>6, <1>7, <1>8, <1>9, <1>10 DEF Scan!RemoteNext

LEMMA RemoteTypesAlways == ProgramsSpec => []RemoteTypes
<1>1. Scan!Init => RemoteTypes
  BY DEF Scan!Init, Scan!RemoteInit, RemoteTypes
<1>2. FeaturesInv /\ RemoteTypes /\ [Scan!Next]_(Scan!vars) => RemoteTypes'
  <2> SUFFICES ASSUME FeaturesInv, RemoteTypes, [Scan!Next]_(Scan!vars) PROVE RemoteTypes'
    OBVIOUS
  <2>1. CASE UNCHANGED Scan!remoteVars
    BY <2>1 DEF Scan!remoteVars, RemoteTypes
  <2>2. CASE Scan!Rank \/ Scan!RemoteNext
    BY <2>2, RemoteTypesStep, ProgramsAssumption DEF Scan!Rank, Scan!ScanAssumption
  <2>3. QED
    BY <2>1, <2>2
    DEF Scan!Next, Scan!vars, Scan!BeginScan, Scan!Rescan, Scan!NextTuple, Scan!NoQuery,
        Scan!NothingToRank, Scan!LoadFails, Scan!RankEnds, Scan!EndScan
<1>3. QED
  BY <1>1, <1>2, ScanRuns, FeaturesInvAlways, PTL DEF Scan!Spec

LEMMA ScanTypes == ASSUME FeaturesInv, RemoteTypes, ScanInv PROVE Scan!TypeOK
<1>1. Scan!RemoteTypeOK
  BY DEF Scan!RemoteTypeOK, FeaturesInv, ConnectionInv, OperationInv, RemoteTypes
<1>2. position \in 0 .. Len(results)
  <2>1. CASE computed
    BY <2>1 DEF ScanInv, ResultsState
  <2>2. CASE ~computed
    <3>1. Len(<<>>) = 0 /\ 0 \in 0 .. 0
      OBVIOUS
    <3>2. QED
      BY <2>2, <3>1 DEF ScanInv, ScanState
  <2>3. QED
    BY <2>1, <2>2
<1>3. QED
  BY <1>1, <1>2, ProgramsAssumption DEF Scan!TypeOK, ScanInv, ScanState, RankState

----------------------------------------------------------------------------
(* Decoding token by token: TokenDecode *)

\* The list of f[first], f[first + 1] and so on.
Slice(l, f, first) == \A i \in 1 .. Len(l) : l[i] = f[first + i - 1]

RowAt == [p \in Nat |-> p]
KeyAt == [p \in Nat |-> [row |-> p, at |-> p]]
Keys == [row : Nat, at : Nat]

LEMMA RowFacts == \A p \in Nat : RowAt[p] = p
BY DEF RowAt

LEMMA KeyFacts ==
    /\ \A p \in Nat : KeyAt[p] = [row |-> p, at |-> p] /\ KeyAt[p] \in Keys
    /\ Decode!KeyValues = Seq(Keys)
BY DEF KeyAt, Keys, Decode!KeyValues

LEMMA SliceAppend ==
    ASSUME NEW S, NEW l \in Seq(S), NEW f, NEW first \in Nat, Slice(l, f, first),
           f[first + Len(l)] \in S
    PROVE  LET k == Append(l, f[first + Len(l)])
           IN  k \in Seq(S) /\ Len(k) = Len(l) + 1 /\ Slice(k, f, first)
<1> DEFINE x == f[first + Len(l)]
           k == Append(l, x)
<1>1. /\ k \in Seq(S) /\ Len(k) = Len(l) + 1 /\ k[Len(l) + 1] = x
      /\ \A i \in 1 .. Len(l) : k[i] = l[i]
  BY AppendType
<1>2. Len(l) \in Nat
  OBVIOUS
<1> HIDE DEF k
<1>3. Slice(k, f, first)
  <2> SUFFICES ASSUME NEW i \in 1 .. Len(l) + 1 PROVE k[i] = f[first + i - 1]
    BY <1>1 DEF Slice
  <2>1. CASE i \in 1 .. Len(l)
    BY <1>1, <2>1 DEF Slice
  <2>2. CASE i = Len(l) + 1
    <3>1. first + i - 1 = first + Len(l)
      BY <1>2, <2>2
    <3>2. QED
      BY <1>1, <2>2, <3>1
  <2>3. QED
    BY <1>2, <2>1, <2>2
<1>4. QED
  BY <1>1, <1>3 DEF k

LEMMA SliceConcat ==
    ASSUME NEW S, NEW l \in Seq(S), NEW k \in Seq(S), NEW f, NEW first \in Nat,
           Slice(l, f, first), Slice(k, f, first + Len(l))
    PROVE  /\ l \o k \in Seq(S) /\ Len(l \o k) = Len(l) + Len(k)
           /\ Slice(l \o k, f, first)
<1> DEFINE w == l \o k
<1>1. /\ w \in Seq(S) /\ Len(w) = Len(l) + Len(k)
      /\ \A i \in 1 .. Len(l) : w[i] = l[i]
      /\ \A i \in 1 .. Len(k) : w[Len(l) + i] = k[i]
  OBVIOUS
<1>2. Len(l) \in Nat /\ Len(k) \in Nat
  OBVIOUS
<1> HIDE DEF w
<1>3. Slice(w, f, first)
  <2> SUFFICES ASSUME NEW i \in 1 .. Len(l) + Len(k) PROVE w[i] = f[first + i - 1]
    BY <1>1 DEF Slice
  <2>1. CASE i \in 1 .. Len(l)
    BY <1>1, <2>1 DEF Slice
  <2>2. CASE i \notin 1 .. Len(l)
    <3> DEFINE j == i - Len(l)
    <3>1. j \in 1 .. Len(k) /\ Len(l) + j = i /\ first + Len(l) + j - 1 = first + i - 1
      BY <1>2, <2>2
    <3> HIDE DEF j
    <3>2. k[j] = f[first + Len(l) + j - 1] /\ w[Len(l) + j] = k[j]
      BY <1>1, <3>1 DEF Slice
    <3>3. QED
      BY <3>1, <3>2
  <2>3. QED
    BY <2>1, <2>2
<1>4. QED
  BY <1>1, <1>3 DEF w

LEMMA SlicesEqual ==
    ASSUME NEW S, NEW l \in Seq(S), NEW k \in Seq(S), NEW f, NEW first \in Nat,
           Slice(l, f, first), Slice(k, f, first), Len(l) = Len(k)
    PROVE  l = k
<1>1. \A i \in 1 .. Len(l) : l[i] = k[i]
  BY DEF Slice
<1>2. QED
  BY <1>1

LEMMA Windowed == Decode!DecodeAssumption /\ window \in Windows =>
    /\ window = NoWindow \/ window \in Nat
    /\ Decode!CacheWindow = NoWindow \/ Decode!CacheWindow \in Nat \ {0}
    /\ NoWindow \notin Nat
BY DEF Decode!DecodeAssumption, Decode!CacheWindow

\* What stays in a window of the slice l, and what leaves it.
Parts(l, w, S, f, first, hot, cold) ==
    /\ hot \in Seq(S) /\ cold \in Seq(S)
    /\ Decode!Fits(hot, w)
    /\ Len(cold) + Len(hot) = Len(l)
    /\ Slice(cold, f, first) /\ Slice(hot, f, first + Len(cold))
    /\ Decode!Fits(l, w) => cold = <<>>
    /\ ~Decode!Fits(l, w) => w \in Nat /\ Len(hot) = w

LEMMA ClippedFacts ==
    ASSUME NEW S, NEW l \in Seq(S), NEW w, w = NoWindow \/ w \in Nat, NoWindow \notin Nat,
           NEW f, NEW first \in Nat, Slice(l, f, first)
    PROVE  Parts(l, w, S, f, first, Decode!Clipped(l, w), Decode!Overflow(l, w))
<1> USE DEF Parts
<1>0. Len(l) \in Nat
  OBVIOUS
<1>1. CASE Decode!Fits(l, w)
  <2>1. Decode!Clipped(l, w) = l /\ Decode!Overflow(l, w) = <<>>
    BY <1>1 DEF Decode!Clipped, Decode!Overflow
  <2>2. Len(<<>>) = 0 /\ <<>> \in Seq(S) /\ Slice(<<>>, f, first) /\ first + 0 = first
    BY DEF Slice
  <2>3. QED
    BY <1>0, <1>1, <2>1, <2>2
<1>2. CASE ~Decode!Fits(l, w)
  <2>1. w \in Nat /\ Len(l) > w
    BY <1>0, <1>2 DEF Decode!Fits
  <2> DEFINE a == SubSeq(l, Len(l) - w + 1, Len(l))
             b == SubSeq(l, 1, Len(l) - w)
  <2>2. /\ a \in Seq(S) /\ b \in Seq(S) /\ Len(a) = w /\ Len(b) = Len(l) - w
        /\ \A i \in 1 .. w : a[i] = l[Len(l) - w + i]
        /\ \A i \in 1 .. Len(l) - w : b[i] = l[i]
    BY <2>1
  <2>3. Decode!Clipped(l, w) = a /\ Decode!Overflow(l, w) = b
    BY <1>2 DEF Decode!Clipped, Decode!Overflow
  <2> HIDE DEF a, b
  <2>4. Decode!Fits(a, w)
    BY <2>1, <2>2 DEF Decode!Fits
  <2>5. Slice(b, f, first)
    BY <1>0, <2>1, <2>2 DEF Slice
  <2>6. Slice(a, f, first + Len(b))
    <3> SUFFICES ASSUME NEW i \in 1 .. w PROVE a[i] = f[first + Len(b) + i - 1]
      BY <2>2 DEF Slice
    <3>1. Len(l) - w + i \in 1 .. Len(l)
          /\ first + (Len(l) - w + i) - 1 = first + Len(b) + i - 1
      BY <1>0, <2>1, <2>2
    <3>2. l[Len(l) - w + i] = f[first + (Len(l) - w + i) - 1]
      BY <3>1 DEF Slice
    <3>3. QED
      BY <2>2, <3>1, <3>2
  <2>7. Len(b) + Len(a) = Len(l)
    BY <1>0, <2>1, <2>2
  <2>8. QED
    BY <1>2, <2>1, <2>2, <2>3, <2>4, <2>5, <2>6, <2>7
<1>3. QED
  BY <1>1, <1>2

LEMMA SpanFacts ==
    ASSUME NEW n \in Nat
    PROVE  Decode!Span(0, n) \in Seq(Nat) /\ Len(Decode!Span(0, n)) = n
           /\ Slice(Decode!Span(0, n), RowAt, 0)
<1>1. /\ Decode!Span(0, n) \in Seq(Nat) /\ Len(Decode!Span(0, n)) = n
      /\ \A i \in 1 .. n : Decode!Span(0, n)[i] = i - 1
  BY DEF Decode!Span
<1>2. \A i \in 1 .. n : 0 + i - 1 = i - 1 /\ i - 1 \in Nat
  OBVIOUS
<1>3. QED
  BY <1>1, <1>2, RowFacts DEF Slice

LEMMA RecomputedFacts ==
    ASSUME NEW l \in Seq(Nat), NEW first \in Nat, Slice(l, RowAt, first)
    PROVE  /\ Decode!Recomputed(l, first) \in Seq(Keys)
           /\ Len(Decode!Recomputed(l, first)) = Len(l)
           /\ Slice(Decode!Recomputed(l, first), KeyAt, first)
<1> DEFINE k == Decode!Recomputed(l, first)
<1>1. k = [i \in 1 .. Len(l) |-> KeyAt[first + i - 1]]
  <2>1. \A i \in 1 .. Len(l) : first + i - 1 \in Nat /\ l[i] = first + i - 1
    BY RowFacts DEF Slice
  <2>2. \A i \in 1 .. Len(l) : [row |-> l[i], at |-> first + i - 1] = KeyAt[first + i - 1]
    BY <2>1, KeyFacts
  <2>3. QED
    BY <2>2 DEF Decode!Recomputed
<1>2. \A i \in 1 .. Len(l) : KeyAt[first + i - 1] \in Keys
  <2>1. \A i \in 1 .. Len(l) : first + i - 1 \in Nat
    OBVIOUS
  <2>2. QED
    BY <2>1, KeyFacts
<1> HIDE DEF k
<1>3. k \in Seq(Keys) /\ Len(k) = Len(l)
  BY <1>1, <1>2
<1>4. Slice(k, KeyAt, first)
  BY <1>1, <1>3 DEF Slice
<1>5. QED
  BY <1>3, <1>4 DEF k

\* The last tokens of a generation that has t.
LEMMA LastTokensFacts ==
    ASSUME NEW n \in Nat, NEW t \in Nat, tokens' = t
    PROVE  LET first == IF n < t THEN t - n ELSE 0
           IN  /\ Decode!LastTokens(n)' \in Seq(Keys)
               /\ Len(Decode!LastTokens(n)') = t - first
               /\ Slice(Decode!LastTokens(n)', KeyAt, first)
<1> DEFINE first == IF n < t THEN t - n ELSE 0
           k == Decode!LastTokens(n)'
           size == t - first
<1>1. first \in Nat /\ size \in Nat
  OBVIOUS
<1>2. k = [i \in 1 .. size |-> [row |-> first + i - 1, at |-> first + i - 1]]
  BY DEF Decode!LastTokens
<1> HIDE DEF first, size, k
<1>3. \A i \in 1 .. size : first + i - 1 \in Nat
  BY <1>1
<1>4. \A i \in 1 .. size : KeyAt[first + i - 1] = [row |-> first + i - 1, at |-> first + i - 1]
  BY <1>3, KeyFacts
<1>5. k = [i \in 1 .. size |-> KeyAt[first + i - 1]]
  BY <1>2, <1>4
<1>6. k \in Seq(Keys) /\ Len(k) = size
  <2>1. \A i \in 1 .. size : KeyAt[first + i - 1] \in Keys
    BY <1>3, KeyFacts
  <2>2. QED
    BY <1>1, <1>5, <2>1
<1>7. Slice(k, KeyAt, first)
  BY <1>5, <1>6 DEF Slice
<1>8. QED
  BY <1>6, <1>7 DEF k, size, first

----------------------------------------------------------------------------

\* The hot residuals continue the cold ones, and no token is missing; the keys and
\* values of the cold tier are those of all of it, or gone.
ResidualInv ==
    (engine = "residual" /\ ready) =>
        /\ next_position = tokens /\ cold_abs_start = 0
        /\ Len(cold_residuals) + Len(stored) = tokens
        /\ Slice(cold_residuals, RowAt, 0) /\ Slice(stored, RowAt, Len(cold_residuals))
        /\ Slice(cold_kv, KeyAt, 0)
        /\ cold_kv = <<>> \/ Len(cold_kv) = Len(cold_residuals)

Held == IF Decode!CacheWindow = NoWindow \/ tokens <= Decode!CacheWindow
        THEN tokens ELSE Decode!CacheWindow

\* The cache holds the last tokens.
CacheInv ==
    (engine = "cache" /\ ready) =>
        /\ next_position = tokens
        /\ Len(kv_rows) = Held /\ Slice(kv_rows, KeyAt, tokens - Held)

\* The type invariant, its sequences over Keys.
ShapeInv ==
    /\ engine \in {"residual", "cache"} /\ window \in Windows
    /\ ready \in BOOLEAN
    /\ stored \in Seq(Nat) /\ Decode!Fits(stored, window)
    /\ cold_residuals \in Seq(Nat) /\ cold_kv \in Seq(Keys)
    /\ cold_abs_start \in Nat /\ next_position \in Nat
    /\ kv_rows \in Seq(Keys) /\ Decode!Fits(kv_rows, Decode!CacheWindow)
    /\ tokens \in Nat /\ tokens <= MaxTokens
    /\ attended \in Seq(Keys) /\ shared \in Seq(Keys)

DecodeInv == ShapeInv /\ ResidualInv /\ CacheInv /\ Decode!SeesContext

LEMMA ShapeIsType == MaxTokens \in Nat /\ ShapeInv => Decode!TypeOK
BY KeyFacts DEF ShapeInv, Decode!TypeOK, Decode!Rows

LEMMA DecodeStart == Decode!DecodeAssumption /\ Decode!Init => DecodeInv
<1> SUFFICES ASSUME Decode!DecodeAssumption, Decode!Init PROVE DecodeInv
  OBVIOUS
<1>1. \A S : <<>> \in Seq(S)
  OBVIOUS
<1>2. window \in Windows /\ engine \in {"residual", "cache"}
  BY DEF Decode!Init
<1>3. ShapeInv
  <2>1. Decode!Fits(stored, window) /\ Decode!Fits(kv_rows, Decode!CacheWindow)
    BY <1>2, Windowed DEF Decode!Fits, Decode!Init
  <2>2. MaxTokens \in Nat
    BY DEF Decode!DecodeAssumption
  <2>3. /\ stored \in Seq(Nat) /\ cold_residuals \in Seq(Nat) /\ cold_kv \in Seq(Keys)
        /\ kv_rows \in Seq(Keys) /\ attended \in Seq(Keys) /\ shared \in Seq(Keys)
    BY <1>1 DEF Decode!Init
  <2>4. ready \in BOOLEAN /\ cold_abs_start = 0 /\ next_position = 0 /\ tokens = 0
    BY DEF Decode!Init
  <2>5. QED
    BY <1>2, <2>1, <2>2, <2>3, <2>4 DEF ShapeInv
<1>4. QED
  BY <1>3 DEF Decode!Init, DecodeInv, ResidualInv, CacheInv, Decode!SeesContext

\* The keys and values of a step of the residual engine are those of all tokens.
LEMMA ContextFacts ==
    ASSUME DecodeInv, engine = "residual", ready
    PROVE  /\ Decode!Context \in Seq(Keys) /\ Len(Decode!Context) = tokens
           /\ Slice(Decode!Context, KeyAt, 0)
<1> DEFINE c == Len(cold_residuals)
           hot == Decode!Recomputed(stored, c)
<1>1. /\ stored \in Seq(Nat) /\ cold_residuals \in Seq(Nat) /\ cold_kv \in Seq(Keys)
      /\ c \in Nat /\ Len(stored) \in Nat /\ tokens \in Nat
  BY DEF DecodeInv, ShapeInv
<1>2. /\ next_position = tokens /\ cold_abs_start = 0 /\ c + Len(stored) = tokens
      /\ Slice(cold_residuals, RowAt, 0) /\ Slice(stored, RowAt, c)
      /\ Slice(cold_kv, KeyAt, 0) /\ (cold_kv = <<>> \/ Len(cold_kv) = c)
  BY DEF DecodeInv, ResidualInv
<1>3. Decode!HotStart = c
  BY <1>1, <1>2 DEF Decode!HotStart
<1>4. hot \in Seq(Keys) /\ Len(hot) = Len(stored) /\ Slice(hot, KeyAt, c)
  BY <1>1, <1>2, RecomputedFacts
<1>5. CASE cold_kv # <<>>
  <2>1. Decode!Context = cold_kv \o hot
    BY <1>3, <1>5 DEF Decode!Context
  <2> HIDE DEF hot
  <2>2. Len(cold_kv) = c /\ 0 + c = c
    BY <1>1, <1>2, <1>5
  <2>3. cold_kv \o hot \in Seq(Keys) /\ Len(cold_kv \o hot) = Len(cold_kv) + Len(hot)
        /\ Slice(cold_kv \o hot, KeyAt, 0)
    BY <1>1, <1>2, <1>4, <2>2, SliceConcat
  <2>4. QED
    BY <1>2, <1>4, <2>1, <2>2, <2>3
<1>6. CASE cold_kv = <<>> /\ cold_residuals # <<>>
  <2> DEFINE all == cold_residuals \o stored
  <2>1. 0 + c = c
    BY <1>1
  <2>2. all \in Seq(Nat) /\ Len(all) = c + Len(stored) /\ Slice(all, RowAt, 0)
    BY <1>1, <1>2, <2>1, SliceConcat
  <2>3. Decode!Context = Decode!Recomputed(all, 0)
    BY <1>2, <1>6 DEF Decode!Context
  <2> HIDE DEF all
  <2>4. QED
    BY <1>2, <2>2, <2>3, RecomputedFacts
<1>7. CASE cold_kv = <<>> /\ cold_residuals = <<>>
  <2>1. Decode!Context = hot /\ c = 0
    BY <1>3, <1>7 DEF Decode!Context
  <2> HIDE DEF hot
  <2>2. QED
    BY <1>1, <1>2, <1>4, <2>1
<1>8. QED
  BY <1>5, <1>6, <1>7

\* The new token, behind those before it.
LEMMA NewFacts ==
    ASSUME tokens \in Nat, next_position = tokens
    PROVE  Decode!New = KeyAt[tokens] /\ KeyAt[tokens] \in Keys
BY KeyFacts DEF Decode!New

LEMMA PrefillStep ==
    ASSUME Decode!DecodeAssumption, DecodeInv, NEW n \in 1 .. MaxTokens, Decode!Prefill(n)
    PROVE  DecodeInv'
<1> DEFINE all == Decode!Span(0, n)
           hot == Decode!Clipped(all, window)
           cold == Decode!Overflow(all, window)
           keys == Decode!Recomputed(cold, 0)
<1>1. n \in Nat /\ n <= MaxTokens /\ window \in Windows /\ MaxTokens \in Nat
  BY DEF DecodeInv, ShapeInv, Decode!DecodeAssumption
<1>2. /\ window = NoWindow \/ window \in Nat
      /\ NoWindow \notin Nat
  BY <1>1, Windowed
<1>3. /\ stored' = hot /\ cold_residuals' = cold /\ cold_kv' = keys
      /\ cold_abs_start' = 0 /\ kv_rows' = kv_rows
      /\ engine = "residual" /\ engine' = engine /\ window' = window /\ ready' = TRUE
      /\ tokens' = n /\ next_position' = n /\ attended' = <<>> /\ shared' = <<>>
  BY DEF Decode!Prefill, Decode!Begins
<1>4. all \in Seq(Nat) /\ Len(all) = n /\ Slice(all, RowAt, 0)
  BY <1>1, SpanFacts
<1> HIDE DEF all
<1>5. /\ hot \in Seq(Nat) /\ cold \in Seq(Nat) /\ Decode!Fits(hot, window)
      /\ Len(cold) + Len(hot) = n
      /\ Slice(cold, RowAt, 0) /\ Slice(hot, RowAt, 0 + Len(cold))
  <2>1. Parts(all, window, Nat, RowAt, 0, hot, cold)
    BY <1>2, <1>4, ClippedFacts
  <2>2. QED
    BY <1>4, <2>1 DEF Parts
<1> HIDE DEF hot, cold
<1>6. Len(cold) \in Nat /\ 0 + Len(cold) = Len(cold)
  BY <1>5
<1>7. keys \in Seq(Keys) /\ Len(keys) = Len(cold) /\ Slice(keys, KeyAt, 0)
  BY <1>5, RecomputedFacts
<1> HIDE DEF keys
<1>8. ShapeInv'
  <2>1. Decode!CacheWindow' = Decode!CacheWindow
    BY <1>3 DEF Decode!CacheWindow
  <2>2. /\ kv_rows' \in Seq(Keys) /\ Decode!Fits(kv_rows, Decode!CacheWindow)'
    BY <1>3, <2>1 DEF DecodeInv, ShapeInv, Decode!Fits
  <2>3. Decode!Fits(stored, window)'
    BY <1>3, <1>5 DEF Decode!Fits
  <2>4. <<>> \in Seq(Keys)
    OBVIOUS
  <2>5. QED
    BY <1>1, <1>3, <1>5, <1>7, <2>2, <2>3, <2>4 DEF ShapeInv
<1>9. ResidualInv'
  <2>1. Slice(stored, RowAt, Len(cold_residuals))' /\ Slice(cold_residuals, RowAt, 0)'
        /\ Slice(cold_kv, KeyAt, 0)'
    BY <1>3, <1>5, <1>6, <1>7 DEF Slice
  <2>2. QED
    BY <1>3, <1>5, <1>6, <1>7, <2>1 DEF ResidualInv
<1>10. CacheInv' /\ Decode!SeesContext'
  BY <1>3 DEF CacheInv, Decode!SeesContext
<1>11. QED
  BY <1>8, <1>9, <1>10 DEF DecodeInv

LEMMA DecodeStepStep ==
    ASSUME Decode!DecodeAssumption, DecodeInv, Decode!DecodeStep
    PROVE  DecodeInv'
<1> DEFINE c == Len(cold_residuals)
           grown == Append(stored, tokens)
           hot == Decode!Clipped(grown, window)
           more == Decode!Overflow(grown, window)
           cold == cold_residuals \o more
<1>1. /\ window \in Windows /\ MaxTokens \in Nat
      /\ stored \in Seq(Nat) /\ cold_residuals \in Seq(Nat) /\ cold_kv \in Seq(Keys)
      /\ c \in Nat /\ Len(stored) \in Nat /\ tokens \in Nat
  BY DEF DecodeInv, ShapeInv, Decode!DecodeAssumption
<1>2. /\ window = NoWindow \/ window \in Nat
      /\ NoWindow \notin Nat
  BY <1>1, Windowed
<1>3. /\ engine = "residual" /\ ready /\ tokens < MaxTokens
      /\ attended' = Append(Decode!Context, Decode!New)
      /\ stored' = hot /\ cold_residuals' = cold
      /\ cold_kv' = IF Decode!Fits(grown, window) THEN cold_kv ELSE <<>>
      /\ cold_abs_start' = cold_abs_start /\ kv_rows' = kv_rows /\ shared' = shared
      /\ engine' = engine /\ window' = window /\ ready' = ready
      /\ tokens' = tokens + 1 /\ next_position' = next_position + 1
  BY DEF Decode!DecodeStep
<1>4. /\ next_position = tokens /\ cold_abs_start = 0 /\ c + Len(stored) = tokens
      /\ Slice(cold_residuals, RowAt, 0) /\ Slice(stored, RowAt, c)
      /\ Slice(cold_kv, KeyAt, 0) /\ (cold_kv = <<>> \/ Len(cold_kv) = c)
  BY <1>3 DEF DecodeInv, ResidualInv
<1>5. /\ grown \in Seq(Nat) /\ Len(grown) = Len(stored) + 1 /\ Slice(grown, RowAt, c)
  <2>1. RowAt[c + Len(stored)] = tokens
    BY <1>1, <1>4, RowFacts
  <2> HIDE DEF c
  <2>2. grown = Append(stored, RowAt[c + Len(stored)]) /\ RowAt[c + Len(stored)] \in Nat
    BY <1>1, <2>1
  <2> HIDE DEF grown
  <2>3. QED
    BY <1>1, <1>4, <2>2, SliceAppend
<1> HIDE DEF grown
<1>6. /\ hot \in Seq(Nat) /\ more \in Seq(Nat) /\ Decode!Fits(hot, window)
      /\ Len(more) + Len(hot) = Len(grown)
      /\ Slice(more, RowAt, c) /\ Slice(hot, RowAt, c + Len(more))
      /\ Decode!Fits(grown, window) => more = <<>>
  <2>1. Parts(grown, window, Nat, RowAt, c, hot, more)
    BY <1>1, <1>2, <1>5, ClippedFacts
  <2>2. QED
    BY <2>1 DEF Parts
<1> HIDE DEF hot, more
<1>7. cold \in Seq(Nat) /\ Len(cold) = c + Len(more) /\ Slice(cold, RowAt, 0)
  <2>1. 0 + c = c
    BY <1>1
  <2>2. QED
    BY <1>1, <1>4, <1>6, <2>1, SliceConcat
<1>8. /\ Len(cold) + Len(hot) = tokens + 1
      /\ Decode!Fits(grown, window) => Len(cold) = c
  <2>1. Len(more) \in Nat /\ Len(hot) \in Nat /\ Len(<<>>) = 0
    BY <1>6
  <2> HIDE DEF c
  <2>2. Len(cold) + Len(hot) = tokens + 1
    <3>1. /\ Len(cold) = c + Len(more) /\ Len(more) + Len(hot) = Len(stored) + 1
          /\ c + Len(stored) = tokens /\ c \in Nat /\ Len(stored) \in Nat
      BY <1>1, <1>4, <1>5, <1>6, <1>7
    <3>2. QED
      BY <2>1, <3>1
  <2>3. Decode!Fits(grown, window) => Len(cold) = c
    BY <1>1, <1>6, <1>7, <2>1
  <2>4. QED
    BY <2>2, <2>3
<1> HIDE DEF cold
<1>9. cold_kv' \in Seq(Keys) /\ Slice(cold_kv', KeyAt, 0)
      /\ (cold_kv' = <<>> \/ Len(cold_kv') = Len(cold))
  <2>1. <<>> \in Seq(Keys) /\ Slice(<<>>, KeyAt, 0)
    BY DEF Slice
  <2>2. CASE Decode!Fits(grown, window)
    BY <1>1, <1>3, <1>4, <1>8, <2>2
  <2>3. CASE ~Decode!Fits(grown, window)
    BY <1>3, <2>1, <2>3
  <2>4. QED
    BY <2>2, <2>3
<1>10. /\ attended' \in Seq(Keys) /\ Len(attended') = tokens + 1 /\ Slice(attended', KeyAt, 0)
  <2> DEFINE k == Decode!Context
  <2>1. /\ k \in Seq(Keys) /\ Len(k) = tokens /\ Slice(k, KeyAt, 0)
    BY <1>3, ContextFacts
  <2>2. Decode!New = KeyAt[0 + Len(k)] /\ KeyAt[0 + Len(k)] \in Keys
    BY <1>1, <1>4, <2>1, NewFacts
  <2>3. attended' = Append(k, KeyAt[0 + Len(k)])
    BY <1>3, <2>2
  <2> HIDE DEF k
  <2>4. QED
    BY <2>1, <2>2, <2>3, SliceAppend
<1>11. ShapeInv'
  <2>1. Decode!CacheWindow' = Decode!CacheWindow
    BY <1>3 DEF Decode!CacheWindow
  <2>2. /\ kv_rows' \in Seq(Keys) /\ Decode!Fits(kv_rows, Decode!CacheWindow)'
        /\ shared' \in Seq(Keys)
    BY <1>3, <2>1 DEF DecodeInv, ShapeInv, Decode!Fits
  <2>3. Decode!Fits(stored, window)'
    BY <1>3, <1>6 DEF Decode!Fits
  <2>4. engine' \in {"residual", "cache"} /\ ready' \in BOOLEAN
    BY <1>3 DEF DecodeInv, ShapeInv
  <2>5. tokens' \in Nat /\ tokens' <= MaxTokens
    BY <1>1, <1>3
  <2>6. cold_abs_start' \in Nat /\ next_position' \in Nat
    BY <1>1, <1>3, <1>4
  <2>7. QED
    BY <1>1, <1>3, <1>6, <1>7, <1>9, <1>10, <2>2, <2>3, <2>4, <2>5, <2>6 DEF ShapeInv
<1>12. ResidualInv'
  <2>1. Slice(stored, RowAt, Len(cold_residuals))' /\ Slice(cold_residuals, RowAt, 0)'
        /\ Slice(cold_kv, KeyAt, 0)'
    BY <1>3, <1>6, <1>7, <1>9 DEF Slice
  <2>2. next_position' = tokens' /\ cold_abs_start' = 0
    BY <1>3, <1>4
  <2>3. Len(cold_residuals') + Len(stored') = tokens'
    BY <1>3, <1>8
  <2>4. QED
    BY <1>3, <1>9, <2>1, <2>2, <2>3 DEF ResidualInv
<1>13. Decode!SeesContext'
  <2>1. tokens' \in Nat /\ tokens' = tokens + 1
    BY <1>1, <1>3
  <2>2. PICK n \in Nat : n = tokens'
    BY <2>1
  <2>3. /\ Decode!LastTokens(n)' \in Seq(Keys) /\ Len(Decode!LastTokens(n)') = tokens + 1
        /\ Slice(Decode!LastTokens(n)', KeyAt, 0)
    <3>1. (IF n < n THEN n - n ELSE 0) = 0 /\ n - 0 = tokens + 1
      BY <1>1, <2>1, <2>2
    <3>2. QED
      BY <2>2, <3>1, LastTokensFacts
  <2>4. attended' = Decode!LastTokens(n)'
    BY <1>10, <2>3, SlicesEqual
  <2>5. Decode!LastTokens(n)' = Decode!LastTokens(tokens)'
    BY <2>2 DEF Decode!LastTokens
  <2>6. QED
    BY <1>3, <2>4, <2>5 DEF Decode!SeesContext
<1>14. QED
  BY <1>3, <1>11, <1>12, <1>13 DEF DecodeInv, CacheInv

LEMMA CachePrefillStep ==
    ASSUME Decode!DecodeAssumption, DecodeInv, NEW n \in 1 .. MaxTokens, Decode!CachePrefill(n)
    PROVE  DecodeInv'
<1> DEFINE w == Decode!CacheWindow
           rows == Decode!Span(0, n)
           keys == Decode!Recomputed(rows, 0)
           rest == Decode!Clipped(keys, w)
           lost == Decode!Overflow(keys, w)
<1>1. n \in Nat /\ n <= MaxTokens /\ window \in Windows /\ MaxTokens \in Nat
  BY DEF DecodeInv, ShapeInv, Decode!DecodeAssumption
<1>2. /\ w = NoWindow \/ w \in Nat
      /\ NoWindow \notin Nat
  BY <1>1, Windowed
<1>3. /\ kv_rows' = rest /\ engine = "cache" /\ engine' = engine /\ window' = window
      /\ ready' = TRUE /\ tokens' = n /\ next_position' = n /\ attended' = <<>> /\ shared' = <<>>
      /\ stored' = stored /\ cold_residuals' = cold_residuals /\ cold_kv' = cold_kv
      /\ cold_abs_start' = cold_abs_start
  BY DEF Decode!CachePrefill, Decode!Begins, Decode!store
<1>4. Decode!CacheWindow' = w
  BY <1>3 DEF Decode!CacheWindow
<1>5. rows \in Seq(Nat) /\ Len(rows) = n /\ Slice(rows, RowAt, 0)
  BY <1>1, SpanFacts
<1> HIDE DEF rows
<1>6. keys \in Seq(Keys) /\ Len(keys) = n /\ Slice(keys, KeyAt, 0)
  BY <1>5, RecomputedFacts
<1> HIDE DEF w, keys
<1>7. /\ rest \in Seq(Keys) /\ lost \in Seq(Keys) /\ Decode!Fits(rest, w)
      /\ Len(lost) + Len(rest) = n
      /\ Slice(rest, KeyAt, 0 + Len(lost))
      /\ Decode!Fits(keys, w) => lost = <<>>
      /\ ~Decode!Fits(keys, w) => w \in Nat /\ Len(rest) = w
  <2>1. Parts(keys, w, Keys, KeyAt, 0, rest, lost)
    BY <1>2, <1>6, ClippedFacts
  <2>2. QED
    BY <1>6, <2>1 DEF Parts
<1> HIDE DEF rest, lost
<1>8. /\ Len(rest) = IF w = NoWindow \/ n <= w THEN n ELSE w
      /\ 0 + Len(lost) = n - Len(rest)
  <2>1. Len(rest) \in Nat /\ Len(lost) \in Nat /\ Len(<<>>) = 0
    BY <1>7
  <2>2. Decode!Fits(keys, w) <=> w = NoWindow \/ n <= w
    BY <1>6 DEF Decode!Fits
  <2>3. QED
    BY <1>1, <1>7, <2>1, <2>2
<1>9. ShapeInv'
  <2>1. Decode!Fits(kv_rows, Decode!CacheWindow)'
    BY <1>3, <1>4, <1>7 DEF Decode!Fits
  <2>2. /\ stored' \in Seq(Nat) /\ Decode!Fits(stored, window)'
        /\ cold_residuals' \in Seq(Nat) /\ cold_kv' \in Seq(Keys) /\ cold_abs_start' \in Nat
    BY <1>3 DEF DecodeInv, ShapeInv, Decode!Fits
  <2>3. <<>> \in Seq(Keys)
    OBVIOUS
  <2>4. QED
    BY <1>1, <1>3, <1>7, <2>1, <2>2, <2>3 DEF ShapeInv
<1>10. CacheInv'
  <2>1. Held' = Len(rest)
    BY <1>3, <1>4, <1>8 DEF Held
  <2>2. Slice(kv_rows', KeyAt, tokens' - Held')
    BY <1>3, <1>7, <1>8, <2>1
  <2>3. QED
    BY <1>3, <2>1, <2>2 DEF CacheInv, Slice
<1>11. QED
  BY <1>3, <1>9, <1>10 DEF DecodeInv, ResidualInv, Decode!SeesContext

LEMMA CacheStepStep ==
    ASSUME Decode!DecodeAssumption, DecodeInv, Decode!CacheStep
    PROVE  DecodeInv'
<1> DEFINE w == Decode!CacheWindow
           h == Held
           first == tokens - h
           keys == Append(kv_rows, Decode!New)
           rest == Decode!Clipped(keys, w)
           lost == Decode!Overflow(keys, w)
           t == tokens + 1
<1>1. /\ window \in Windows /\ MaxTokens \in Nat /\ kv_rows \in Seq(Keys) /\ tokens \in Nat
  BY DEF DecodeInv, ShapeInv, Decode!DecodeAssumption
<1>2. /\ w = NoWindow \/ w \in Nat \ {0}
      /\ NoWindow \notin Nat
  BY <1>1, Windowed
<1>3. /\ engine = "cache" /\ ready /\ tokens < MaxTokens
      /\ attended' = keys /\ kv_rows' = rest /\ shared' = rest
      /\ engine' = engine /\ window' = window /\ ready' = ready
      /\ tokens' = t /\ next_position' = next_position + 1
      /\ stored' = stored /\ cold_residuals' = cold_residuals /\ cold_kv' = cold_kv
      /\ cold_abs_start' = cold_abs_start
  <2>1. attended' = keys /\ kv_rows' = Decode!Clipped(attended', w) /\ shared' = kv_rows'
    BY DEF Decode!CacheStep
  <2>2. QED
    BY <2>1 DEF Decode!CacheStep, Decode!store
<1>4. Decode!CacheWindow' = w
  BY <1>3 DEF Decode!CacheWindow
<1>5. /\ next_position = tokens /\ Len(kv_rows) = h /\ Slice(kv_rows, KeyAt, first)
  BY <1>3 DEF DecodeInv, CacheInv
<1>6. /\ h \in Nat /\ first \in Nat /\ first + h = tokens
      /\ h = IF w = NoWindow \/ tokens <= w THEN tokens ELSE w
      /\ Held' = IF w = NoWindow \/ t <= w THEN t ELSE w
  BY <1>1, <1>2, <1>3, <1>4 DEF Held
<1>7. keys = Append(kv_rows, KeyAt[first + Len(kv_rows)]) /\ KeyAt[first + Len(kv_rows)] \in Keys
  BY <1>1, <1>5, <1>6, NewFacts
<1> HIDE DEF h, first, w
<1>8. keys \in Seq(Keys) /\ Len(keys) = h + 1 /\ Slice(keys, KeyAt, first)
  BY <1>1, <1>5, <1>6, <1>7, SliceAppend
<1> HIDE DEF keys
<1>9. /\ rest \in Seq(Keys) /\ lost \in Seq(Keys) /\ Decode!Fits(rest, w)
      /\ Len(lost) + Len(rest) = Len(keys)
      /\ Slice(rest, KeyAt, first + Len(lost))
      /\ Decode!Fits(keys, w) => lost = <<>>
      /\ ~Decode!Fits(keys, w) => w \in Nat /\ Len(rest) = w
  <2>1. Parts(keys, w, Keys, KeyAt, first, rest, lost)
    BY <1>2, <1>6, <1>8, ClippedFacts
  <2>2. QED
    BY <2>1 DEF Parts
<1> HIDE DEF rest, lost
<1>10. /\ Len(rest) = Held' /\ Len(rest) \in Nat
       /\ first + Len(lost) = t - Len(rest)
  <2>1. Len(rest) \in Nat /\ Len(lost) \in Nat /\ Len(<<>>) = 0
    BY <1>9
  <2>2. Decode!Fits(keys, w) <=> w = NoWindow \/ h + 1 <= w
    BY <1>8 DEF Decode!Fits
  <2>3. Len(lost) + Len(rest) = h + 1
    BY <1>8, <1>9
  <2>4. CASE Decode!Fits(keys, w)
    <3>1. Len(lost) = 0 /\ Len(rest) = h + 1 /\ (w = NoWindow \/ h + 1 <= w)
      BY <1>6, <1>9, <2>1, <2>2, <2>3, <2>4
    <3>2. h = tokens
      BY <1>1, <1>2, <1>6, <3>1
    <3>3. QED
      BY <1>1, <1>2, <1>6, <2>1, <3>1, <3>2
  <2>5. CASE ~Decode!Fits(keys, w)
    <3>1. w \in Nat /\ w # NoWindow /\ h + 1 > w /\ Len(rest) = w
      BY <1>2, <1>6, <1>9, <2>2, <2>5
    <3>2. h = w /\ tokens >= w
      BY <1>1, <1>6, <3>1
    <3>3. QED
      BY <1>1, <1>6, <2>1, <2>3, <3>1, <3>2
  <2>6. QED
    BY <2>4, <2>5
<1>11. ShapeInv'
  <2>1. Decode!Fits(kv_rows, Decode!CacheWindow)'
    BY <1>3, <1>4, <1>9 DEF Decode!Fits
  <2>2. /\ stored' \in Seq(Nat) /\ Decode!Fits(stored, window)'
        /\ cold_residuals' \in Seq(Nat) /\ cold_kv' \in Seq(Keys) /\ cold_abs_start' \in Nat
    BY <1>3 DEF DecodeInv, ShapeInv, Decode!Fits
  <2>3. tokens' \in Nat /\ tokens' <= MaxTokens /\ next_position' \in Nat
    BY <1>1, <1>3, <1>5
  <2>4. engine' \in {"residual", "cache"} /\ ready' \in BOOLEAN
    BY <1>3 DEF DecodeInv, ShapeInv
  <2>5. QED
    BY <1>1, <1>3, <1>8, <1>9, <2>1, <2>2, <2>3, <2>4 DEF ShapeInv
<1>12. CacheInv'
  <2>1. Slice(kv_rows', KeyAt, tokens' - Held')
    BY <1>3, <1>9, <1>10
  <2>2. QED
    BY <1>3, <1>5, <1>10, <2>1 DEF CacheInv, Slice
<1>13. ASSUME NEW n \in Nat, NEW k \in Seq(Keys), NEW from \in Nat,
              from = IF n < t THEN t - n ELSE 0,
              Slice(k, KeyAt, from), Len(k) = t - from
       PROVE  k = Decode!LastTokens(n)'
  <2>1. PICK m \in Nat : m = t
    BY <1>1
  <2>2. /\ Decode!LastTokens(n)' \in Seq(Keys) /\ Len(Decode!LastTokens(n)') = m - from
        /\ Slice(Decode!LastTokens(n)', KeyAt, from)
    BY <1>3, <1>13, <2>1, LastTokensFacts
  <2>3. QED
    BY <1>13, <2>1, <2>2, SlicesEqual
<1>14. CASE w = NoWindow
  <2>1. PICK n \in Nat : n = t
    BY <1>1
  <2>2. first = 0 /\ h = tokens /\ Len(rest) = t
    BY <1>1, <1>2, <1>6, <1>10, <1>14
  <2>3. t - Len(rest) = 0 /\ (IF n < t THEN t - n ELSE 0) = 0 /\ t - 0 = t
    BY <1>1, <2>1, <2>2
  <2>4. keys = Decode!LastTokens(n)'
    BY <1>8, <1>13, <2>2, <2>3
  <2>5. rest = Decode!LastTokens(n)'
    BY <1>9, <1>10, <1>13, <2>2, <2>3
  <2>6. Decode!LastTokens(n)' = Decode!LastTokens(tokens)'
    BY <1>3, <2>1 DEF Decode!LastTokens
  <2>7. Decode!SeesContext'
    BY <1>3, <1>4, <1>14, <2>4, <2>5, <2>6 DEF Decode!SeesContext
  <2>8. QED
    BY <1>3, <1>11, <1>12, <2>7 DEF DecodeInv, ResidualInv
<1>15. CASE w # NoWindow
  <2>1. w \in Nat /\ w + 1 \in Nat /\ t \in Nat
    BY <1>1, <1>2, <1>15
  <2>2. PICK n \in Nat : n = w
    BY <2>1
  <2>3. PICK m \in Nat : m = w + 1
    BY <2>1
  <2>4. first = (IF m < t THEN t - m ELSE 0) /\ Len(keys) = t - first
    BY <1>1, <1>6, <1>8, <1>15, <2>1, <2>3
  <2>5. /\ first + Len(lost) = (IF n < t THEN t - n ELSE 0)
        /\ first + Len(lost) \in Nat /\ Len(rest) = t - (first + Len(lost))
    BY <1>1, <1>6, <1>10, <1>15, <2>1, <2>2
  <2>6. keys = Decode!LastTokens(m)'
    BY <1>6, <1>8, <1>13, <2>4
  <2>7. rest = Decode!LastTokens(n)'
    BY <1>9, <1>13, <2>5
  <2>8. Decode!SeesContext'
    <3>1. (IF Decode!CacheWindow = NoWindow THEN tokens ELSE Decode!CacheWindow + 1)' = m
          /\ (IF Decode!CacheWindow = NoWindow THEN tokens ELSE Decode!CacheWindow)' = n
      BY <1>4, <1>15, <2>2, <2>3
    <3>2. /\ Decode!LastTokens(IF Decode!CacheWindow = NoWindow THEN tokens ELSE Decode!CacheWindow + 1)'
             = Decode!LastTokens(m)'
          /\ Decode!LastTokens(IF Decode!CacheWindow = NoWindow THEN tokens ELSE Decode!CacheWindow)'
             = Decode!LastTokens(n)'
      BY <3>1 DEF Decode!LastTokens
    <3>3. QED
      BY <1>3, <2>6, <2>7, <3>2 DEF Decode!SeesContext
  <2>9. QED
    BY <1>3, <1>11, <1>12, <2>8 DEF DecodeInv, ResidualInv
<1>16. QED
  BY <1>14, <1>15

LEMMA DecodeStepped ==
    ASSUME Decode!DecodeAssumption, DecodeInv, [Decode!Next]_Decode!vars
    PROVE  DecodeInv'
<1>1. CASE Decode!DecodeFails
  <2>1. <<>> \in Seq(Nat) /\ <<>> \in Seq(Keys) /\ Len(<<>>) = 0
    OBVIOUS
  <2>2. Decode!Fits(<<>>, window)
    BY <2>1, Windowed DEF Decode!Fits, DecodeInv, ShapeInv
  <2>3. QED
    BY <1>1, <2>1, <2>2 DEF Decode!DecodeFails, Decode!NoStore, DecodeInv, ShapeInv, ResidualInv,
       CacheInv, Decode!SeesContext, Decode!LastTokens, Decode!Fits, Decode!CacheWindow
<1>2. CASE Decode!CacheEnds
  BY <1>2 DEF Decode!CacheEnds, Decode!store, DecodeInv, ShapeInv, ResidualInv, CacheInv,
     Decode!SeesContext, Decode!LastTokens, Decode!Fits, Decode!CacheWindow
<1>3. CASE UNCHANGED Decode!vars
  BY <1>3 DEF Decode!vars, Decode!store, DecodeInv, ShapeInv, ResidualInv, CacheInv, Held, Slice,
     Decode!SeesContext, Decode!LastTokens, Decode!Fits, Decode!CacheWindow
<1>4. QED
  BY <1>1, <1>2, <1>3, PrefillStep, DecodeStepStep, CachePrefillStep, CacheStepStep DEF Decode!Next

LEMMA DecodeInvAlways == ProgramsSpec => []DecodeInv
<1>1. Decode!Init => DecodeInv
  BY DecodeStart, ProgramsAssumption
<1>2. DecodeInv /\ [Decode!Next]_Decode!vars => DecodeInv'
  BY DecodeStepped, ProgramsAssumption
<1>3. QED
  BY <1>1, <1>2, DecodeRuns, PTL DEF Decode!Spec

\* SeesContext of TokenDecode: a token sees the context it should, for
\* any windows and lengths (rs_decode_step, generate_cached_bounded).
THEOREM SeesContextAlways == ProgramsSpec => []SeesContext
<1>1. DecodeInv => SeesContext
  BY DEF DecodeInv, SeesContext
<1>2. QED
  BY <1>1, DecodeInvAlways, PTL

----------------------------------------------------------------------------
(* The append-only stores of residuals: TraceFiles *)

Marks == (1 .. MaxAppends) \X (1 .. Pieces)
EntryStart == [n \in Nat |-> n * Pieces]

LEMMA MarkFacts == \A m \in Marks : m[1] \in 1 .. MaxAppends
BY DEF Marks

LEMMA EntryStartFacts ==
    ASSUME Trace!TraceAssumption
    PROVE  /\ EntryStart[0] = 0
           /\ \A n \in Nat : /\ EntryStart[n] \in Nat /\ EntryStart[n] = n * Pieces
                             /\ EntryStart[n + 1] = EntryStart[n] + Pieces
<1>1. Pieces \in Nat
  BY DEF Trace!TraceAssumption
<1>2. \A n \in Nat : EntryStart[n] = n * Pieces
  BY DEF EntryStart
<1>3. ASSUME NEW n \in Nat PROVE (n + 1) * Pieces = n * Pieces + Pieces /\ n * Pieces \in Nat
  BY <1>1
<1>4. 0 * Pieces = 0
  BY <1>1
<1>5. QED
  BY <1>2, <1>3, <1>4

LEMMA StretchFacts ==
    ASSUME NEW S, NEW l \in Seq(S), NEW m \in Nat, NEW n \in Nat, m + n <= Len(l)
    PROVE  SubSeq(l, m + 1, m + n) = [k \in 1 .. n |-> l[m + k]]
<1>1. /\ SubSeq(l, m + 1, m + n) \in Seq(S) /\ Len(SubSeq(l, m + 1, m + n)) = n
      /\ \A k \in 1 .. n : SubSeq(l, m + 1, m + n)[k] = l[m + k]
  OBVIOUS
<1> DEFINE q == SubSeq(l, m + 1, m + n)
<1>2. q \in [1 .. n -> S]
  BY <1>1, LenProperties
<1> HIDE DEF q
<1>3. q = [k \in 1 .. n |-> l[m + k]]
  BY <1>1, <1>2 DEF q
<1>4. QED
  BY <1>3 DEF q

Writing == writer \in {"data", "entry", "header"}

\* The offset that an index holds for a place of the file.
Stored(p) == IF layout = "boundary" THEN p % OffsetLimit ELSE p

\* The types, and that the writer's header is the file's.
FileInv ==
    /\ layout \in {"trace", "boundary", "context"}
    /\ data \in Seq(Marks)
    /\ entries \in Seq(Nat) /\ Len(entries) <= MaxEntries
    /\ count \in Nat /\ held = count /\ count <= appends
    /\ writer \in {"none", "open", "data", "entry", "header"}
    /\ start \in Nat /\ start <= Len(data)
    /\ appends \in 0 .. MaxAppends
    /\ cut \in BOOLEAN
    /\ kept \in Seq(Trace!Kept) /\ Len(kept) = count
    /\ Writing => count < appends /\ (Trace!Indexed => count < MaxEntries)
    /\ writer = "entry" => Trace!Indexed
    /\ layout = "trace" => Len(entries) = 0

\* No piece is in the file twice; those of the append under way are its last.
DataInv ==
    /\ \A p \in 1 .. Len(data) : data[p][1] <= appends
    /\ \A p, q \in 1 .. Len(data) : data[p] = data[q] => p = q
    /\ Writing =>
          /\ \A p \in 1 .. start : data[p][1] < appends
          /\ \A p \in start + 1 .. Len(data) : data[p] = <<appends, p - start>>
          /\ IF writer = "data" THEN Len(data) < start + Pieces ELSE Len(data) = start + Pieces

KeptInv ==
    \A i \in 1 .. count :
        /\ kept[i].at + Pieces <= Len(data)
        /\ \A k \in 1 .. Pieces : data[kept[i].at + k] = <<kept[i].id, k>>

\* The append under way, or the next one, begins here.
End == IF Writing THEN start ELSE Len(data)

PlaceInv ==
    /\ \A i \in 1 .. count :
          IF kept[i].whole THEN kept[i].at = EntryStart[i - 1] ELSE kept[i].at > EntryStart[i - 1]
    /\ IF cut THEN End > EntryStart[count] ELSE End = EntryStart[count]

EntryInv ==
    Trace!Indexed =>
        /\ Len(entries) >= count
        /\ writer \in {"open", "data", "entry"} => Len(entries) = count
        /\ writer = "header" => Len(entries) = count + 1 /\ entries[count + 1] = Stored(start)
        /\ \A i \in 1 .. count : entries[i] = Stored(kept[i].at)

TraceInv == FileInv /\ DataInv /\ KeptInv /\ PlaceInv /\ EntryInv

LEMMA FileTypes == Trace!TraceAssumption /\ TraceInv => Trace!TypeOK
<1> SUFFICES ASSUME Trace!TraceAssumption, TraceInv PROVE Trace!TypeOK
  OBVIOUS
<1>1. count \in 0 .. MaxAppends /\ start \in 0 .. Len(data)
  BY DEF TraceInv, FileInv, Trace!TraceAssumption
<1>2. writer = "data" => Len(data) < start + Pieces
  BY DEF TraceInv, DataInv, Writing
<1>3. QED
  BY <1>1, <1>2 DEF TraceInv, FileInv, Marks, Trace!TypeOK

LEMMA ModFacts ==
    ASSUME NEW a \in Nat, NEW m \in Nat, m > 0
    PROVE  /\ a % m \in Nat /\ a % m < m /\ a % m <= a
           /\ a < m => a % m = a
OBVIOUS

LEMMA FileReads == Trace!TraceAssumption /\ TraceInv => Trace!ReadsAppended
<1> SUFFICES ASSUME Trace!TraceAssumption, TraceInv, NEW i \in 1 .. count
             PROVE  Trace!ReadBack(i) = Trace!Appended(i) <=>
                       CASE layout = "context" -> TRUE
                         [] layout = "boundary" -> kept[i].at < OffsetLimit
                         [] layout = "trace" -> kept[i].whole
  BY DEF Trace!ReadsAppended
<1> DEFINE at == kept[i].at
           which == kept[i].id
           off == Trace!Offset(i)
<1>1. /\ Pieces \in Nat /\ Pieces > 0 /\ OffsetLimit \in Nat /\ OffsetLimit > 0
      /\ count \in Nat /\ i \in Nat /\ i - 1 \in Nat
      /\ layout \in {"trace", "boundary", "context"} /\ data \in Seq(Marks)
      /\ kept[i] \in Trace!Kept
  BY DEF TraceInv, FileInv, Trace!TraceAssumption
<1>2. at \in Nat /\ kept[i].whole \in BOOLEAN
  BY <1>1 DEF Trace!Kept
<1>3. /\ at + Pieces <= Len(data)
      /\ \A k \in 1 .. Pieces : data[at + k] = <<which, k>>
      /\ \A p, q \in 1 .. Len(data) : data[p] = data[q] => p = q
  BY DEF TraceInv, KeptInv, DataInv
<1>4. Trace!Appended(i) = [k \in 1 .. Pieces |-> <<which, k>>]
  BY DEF Trace!Appended
<1>5. Trace!ReadBack(i) = SubSeq(data, off + 1, off + Pieces)
  BY DEF Trace!ReadBack
<1>6. off = IF layout = "trace" THEN EntryStart[i - 1] ELSE Stored(at)
  BY <1>1, EntryStartFacts DEF Trace!Offset, Trace!Indexed, TraceInv, EntryInv
<1> HIDE DEF at, which, off
<1>7. ASSUME off \in Nat, off <= at
      PROVE  Trace!ReadBack(i) = Trace!Appended(i) <=> off = at
  <2>1. Len(data) \in Nat
    BY <1>1
  <2>2. Trace!ReadBack(i) = [k \in 1 .. Pieces |-> data[off + k]]
    <3>1. off + Pieces <= Len(data)
      BY <1>1, <1>2, <1>3, <1>7, <2>1
    <3>2. SubSeq(data, off + 1, off + Pieces) = [k \in 1 .. Pieces |-> data[off + k]]
      BY <1>1, <1>7, <3>1, StretchFacts
    <3>3. QED
      BY <1>5, <3>2
  <2>3. CASE off = at
    BY <1>3, <1>4, <2>2, <2>3
  <2>4. ASSUME Trace!ReadBack(i) = Trace!Appended(i) PROVE off = at
    <3>1. 1 \in 1 .. Pieces /\ off + 1 \in 1 .. Len(data) /\ at + 1 \in 1 .. Len(data)
      BY <1>1, <1>2, <1>3, <1>7, <2>1
    <3>2. [k \in 1 .. Pieces |-> data[off + k]][1] = [k \in 1 .. Pieces |-> <<which, k>>][1]
      BY <1>4, <2>2, <2>4
    <3>3. data[off + 1] = data[at + 1]
      BY <1>3, <3>1, <3>2
    <3>4. off + 1 = at + 1
      BY <1>3, <3>1, <3>3
    <3>5. QED
      BY <1>2, <1>7, <3>4
  <2>5. QED
    BY <2>3, <2>4
<1>8. CASE layout = "trace"
  <2>1. EntryStart[i - 1] \in Nat /\ IF kept[i].whole THEN at = EntryStart[i - 1] ELSE at > EntryStart[i - 1]
    BY <1>1, EntryStartFacts DEF TraceInv, PlaceInv, at
  <2>2. off \in Nat /\ off <= at /\ (off = at <=> kept[i].whole)
    BY <1>2, <1>6, <1>8, <2>1
  <2>3. QED
    BY <1>7, <1>8, <2>2
<1>9. CASE layout = "context"
  BY <1>2, <1>6, <1>7, <1>9 DEF Stored
<1>10. CASE layout = "boundary"
  <2>1. off = at % OffsetLimit
    BY <1>6, <1>10 DEF Stored
  <2>2. off \in Nat /\ off <= at /\ (off = at <=> at < OffsetLimit)
    BY <1>1, <1>2, <2>1, ModFacts
  <2>3. QED
    BY <1>7, <1>10, <2>2 DEF at
<1>11. QED
  BY <1>1, <1>8, <1>9, <1>10

LEMMA TraceStart == Trace!TraceAssumption /\ Trace!Init => TraceInv
<1> SUFFICES ASSUME Trace!TraceAssumption, Trace!Init PROVE TraceInv
  OBVIOUS
<1>1. FileInv
  <2>1. <<>> \in Seq(Marks) /\ <<>> \in Seq(Nat) /\ <<>> \in Seq(Trace!Kept) /\ Len(<<>>) = 0
    OBVIOUS
  <2>2. QED
    <3>1. /\ layout \in {"trace", "boundary", "context"} /\ writer = "none"
          /\ data = <<>> /\ entries = <<>> /\ kept = <<>>
          /\ count = 0 /\ held = 0 /\ start = 0 /\ appends = 0 /\ cut = FALSE
      BY DEF Trace!Init
    <3>2. MaxEntries \in Nat /\ MaxAppends \in Nat
      BY DEF Trace!TraceAssumption
    <3>3. data \in Seq(Marks) /\ entries \in Seq(Nat) /\ kept \in Seq(Trace!Kept)
      BY <2>1, <3>1
    <3>4. cut \in BOOLEAN /\ ~Writing /\ writer # "entry"
      BY <3>1 DEF Writing
    <3>5. Len(data) = 0 /\ Len(entries) = 0 /\ Len(kept) = 0
      BY <2>1, <3>1
    <3>6. QED
      BY <3>1, <3>2, <3>3, <3>4, <3>5 DEF FileInv
<1>2. DataInv /\ KeptInv /\ EntryInv
  BY DEF Trace!Init, DataInv, KeptInv, EntryInv, Writing
<1>3. PlaceInv
  BY EntryStartFacts DEF Trace!Init, PlaceInv, End, Writing
<1>4. QED
  BY <1>1, <1>2, <1>3 DEF TraceInv

LEMMA CreateStep ==
    ASSUME Trace!TraceAssumption, TraceInv, Trace!Create
    PROVE  TraceInv'
<1>1. FileInv'
  <2>1. <<>> \in Seq(Marks) /\ <<>> \in Seq(Nat) /\ <<>> \in Seq(Trace!Kept) /\ Len(<<>>) = 0
    OBVIOUS
  <2>2. /\ writer' = "open" /\ data' = <<>> /\ entries' = <<>> /\ count' = 0 /\ held' = 0
        /\ start' = 0 /\ kept' = <<>> /\ cut' = FALSE /\ UNCHANGED <<layout, appends>>
    BY DEF Trace!Create, Trace!Emptied
  <2>3. /\ layout \in {"trace", "boundary", "context"} /\ appends \in 0 .. MaxAppends
        /\ MaxEntries \in Nat /\ MaxAppends \in Nat
    BY DEF TraceInv, FileInv, Trace!TraceAssumption
  <2>4. Trace!Kept' = Trace!Kept /\ Marks' = Marks
    BY DEF Trace!Kept, Marks
  <2>5. QED
    <3>1. data' \in Seq(Marks') /\ entries' \in Seq(Nat) /\ kept' \in Seq(Trace!Kept')
      BY <2>1, <2>2, <2>4
    <3>2. cut' \in BOOLEAN /\ ~Writing' /\ writer' # "entry"
      BY <2>2 DEF Writing
    <3>3. Len(data') = 0 /\ Len(entries') = 0 /\ Len(kept') = 0
      BY <2>1, <2>2
    <3>4. QED
      BY <2>2, <2>3, <3>1, <3>2, <3>3 DEF FileInv
<1>2. DataInv' /\ KeptInv' /\ EntryInv'
  BY DEF Trace!Create, Trace!Emptied, DataInv, KeptInv, EntryInv, Writing
<1>3. PlaceInv'
  BY EntryStartFacts DEF Trace!Create, Trace!Emptied, PlaceInv, End, Writing
<1>4. QED
  BY <1>1, <1>2, <1>3 DEF TraceInv

LEMMA OpenStep ==
    ASSUME Trace!TraceAssumption, TraceInv, Trace!Open
    PROVE  TraceInv'
<1>1. FileInv'
  BY DEF Trace!Open, TraceInv, FileInv, Writing, Trace!Indexed, Trace!Kept
<1>2. DataInv' /\ KeptInv' /\ EntryInv' /\ PlaceInv'
  BY DEF Trace!Open, TraceInv, DataInv, KeptInv, EntryInv, PlaceInv, End, Writing, Trace!Indexed
<1>3. QED
  BY <1>1, <1>2 DEF TraceInv

LEMMA AppendBegins ==
    ASSUME Trace!TraceAssumption, TraceInv, Trace!Begin
    PROVE  TraceInv'
<1>1. /\ data \in Seq(Marks) /\ Len(data) \in Nat /\ Pieces \in Nat /\ Pieces > 0
      /\ appends \in Nat /\ count \in Nat
      /\ \A p \in 1 .. Len(data) : data[p] \in Marks
  BY DEF TraceInv, FileInv, Trace!TraceAssumption
<1>2. FileInv'
  BY <1>1 DEF Trace!Begin, TraceInv, FileInv, Writing, Trace!Indexed, Trace!Kept,
     Trace!TraceAssumption
<1>3. DataInv'
  <2>1. \A p \in 1 .. Len(data) : data[p][1] <= appends /\ data[p][1] \in Nat
    BY <1>1, MarkFacts DEF TraceInv, DataInv
  <2>2. QED
    BY <1>1, <2>1 DEF Trace!Begin, TraceInv, DataInv
<1>4. KeptInv' /\ EntryInv' /\ PlaceInv'
  BY DEF Trace!Begin, TraceInv, KeptInv, EntryInv, PlaceInv, End, Writing, Trace!Indexed, Stored
<1>5. QED
  BY <1>2, <1>3, <1>4 DEF TraceInv

LEMMA WriteStep ==
    ASSUME Trace!TraceAssumption, TraceInv, Trace!Write
    PROVE  TraceInv'
<1> DEFINE m == <<appends, Len(data) - start + 1>>
<1>1. /\ data \in Seq(Marks) /\ Len(data) \in Nat /\ Pieces \in Nat /\ Pieces > 0
      /\ appends \in 1 .. MaxAppends /\ count \in Nat /\ start \in Nat /\ start <= Len(data)
      /\ Len(data) < start + Pieces /\ MaxAppends \in Nat
      /\ \A p \in 1 .. Len(data) : data[p] \in Marks
  <2>1. /\ data \in Seq(Marks) /\ Len(data) \in Nat /\ Pieces \in Nat /\ Pieces > 0
        /\ count \in Nat /\ start \in Nat /\ start <= Len(data) /\ MaxAppends \in Nat
        /\ appends \in 0 .. MaxAppends
    BY DEF TraceInv, FileInv, Trace!TraceAssumption
  <2>2. count < appends /\ Len(data) < start + Pieces
    BY DEF TraceInv, FileInv, DataInv, Trace!Write, Writing
  <2>3. QED
    BY <2>1, <2>2
<1>2. m \in Marks /\ m[1] = appends /\ m[2] = Len(data) - start + 1
  BY <1>1 DEF Marks
<1>3. /\ data' = Append(data, m)
      /\ writer' = IF Len(data') < start + Pieces THEN "data"
                   ELSE IF Trace!Indexed THEN "entry" ELSE "header"
      /\ writer = "data"
      /\ UNCHANGED <<layout, entries, count, held, start, appends, cut, kept>>
  BY DEF Trace!Write
<1>4. /\ data' \in Seq(Marks) /\ Len(data') = Len(data) + 1 /\ data'[Len(data) + 1] = m
      /\ \A p \in 1 .. Len(data) : data'[p] = data[p]
  BY <1>1, <1>2, <1>3, AppendType
<1> HIDE DEF m
<1>5. FileInv'
  BY <1>1, <1>3, <1>4 DEF TraceInv, FileInv, Writing, Trace!Indexed, Trace!Kept
<1>6. DataInv'
  <2>1. ASSUME NEW p \in 1 .. Len(data) PROVE data[p] # m
    <3>1. CASE p <= start
      <4>1. Writing /\ p \in 1 .. start
        BY <1>1, <1>3, <3>1 DEF Writing
      <4>2. data[p][1] < appends
        BY <4>1 DEF TraceInv, DataInv
      <4>3. data[p][1] \in Nat
        BY <1>1, MarkFacts
      <4>4. QED
        BY <1>1, <1>2, <4>2, <4>3
    <3>2. CASE p > start
      <4>1. data[p] = <<appends, p - start>>
        BY <1>1, <1>3, <2>1, <3>2 DEF TraceInv, DataInv, Writing
      <4>2. QED
        BY <1>1, <1>2, <4>1, <2>1
    <3>3. QED
      BY <1>1, <3>1, <3>2
  <2>2. \A p, q \in 1 .. Len(data') : data'[p] = data'[q] => p = q
    <3> SUFFICES ASSUME NEW p \in 1 .. Len(data'), NEW q \in 1 .. Len(data'), data'[p] = data'[q]
                 PROVE  p = q
      OBVIOUS
    <3>1. \A x \in 1 .. Len(data') : x \in 1 .. Len(data) \/ x = Len(data) + 1
      BY <1>1, <1>4
    <3>2. QED
      BY <1>4, <2>1, <3>1 DEF TraceInv, DataInv
  <2>3. \A p \in 1 .. Len(data') : data'[p][1] <= appends
    BY <1>1, <1>2, <1>4 DEF TraceInv, DataInv
  <2>4. \A p \in 1 .. start : data'[p][1] < appends
    BY <1>1, <1>3, <1>4 DEF TraceInv, DataInv, Writing
  <2>5. \A p \in start + 1 .. Len(data') : data'[p] = <<appends, p - start>>
    <3> SUFFICES ASSUME NEW p \in start + 1 .. Len(data') PROVE data'[p] = <<appends, p - start>>
      OBVIOUS
    <3>1. CASE p \in 1 .. Len(data)
      BY <1>1, <1>3, <1>4, <3>1 DEF TraceInv, DataInv, Writing
    <3>2. CASE p = Len(data) + 1
      <4>1. p - start = Len(data) - start + 1
        BY <1>1, <3>2
      <4>2. QED
        BY <1>4, <3>2, <4>1 DEF m
    <3>3. QED
      BY <1>1, <1>4, <3>1, <3>2
  <2>6. IF writer' = "data" THEN Len(data') < start + Pieces ELSE Len(data') = start + Pieces
    BY <1>1, <1>3, <1>4
  <2>7. QED
    BY <1>3, <2>2, <2>3, <2>4, <2>5, <2>6 DEF DataInv
<1>7. KeptInv'
  <2> SUFFICES ASSUME NEW i \in 1 .. count
               PROVE  /\ kept[i].at + Pieces <= Len(data')
                      /\ \A k \in 1 .. Pieces : data'[kept[i].at + k] = <<kept[i].id, k>>
    BY <1>3 DEF KeptInv
  <2>1. kept[i].at \in Nat /\ kept[i].at + Pieces <= Len(data)
    <3>1. kept[i] \in Trace!Kept
      BY DEF TraceInv, FileInv
    <3>2. QED
      BY <3>1 DEF TraceInv, KeptInv, Trace!Kept
  <2>2. \A k \in 1 .. Pieces : kept[i].at + k \in 1 .. Len(data)
    <3> SUFFICES ASSUME NEW at \in Nat, NEW n \in Nat, at + Pieces <= n
                 PROVE  \A k \in 1 .. Pieces : at + k \in 1 .. n
      BY <1>1, <2>1
    <3>1. Pieces \in Nat
      BY <1>1
    <3>2. QED
      BY <3>1
  <2>3. \A k \in 1 .. Pieces : data[kept[i].at + k] = <<kept[i].id, k>>
    BY DEF TraceInv, KeptInv
  <2>4. QED
    <3>1. \A k \in 1 .. Pieces : data'[kept[i].at + k] = data[kept[i].at + k]
      BY <1>4, <2>2
    <3>2. kept[i].at + Pieces <= Len(data')
      BY <1>1, <1>4, <2>1
    <3>3. QED
      BY <2>3, <3>1, <3>2
<1>8. EntryInv' /\ PlaceInv'
  BY <1>1, <1>3, <1>4 DEF TraceInv, EntryInv, PlaceInv, End, Writing, Trace!Indexed, Stored
<1>9. QED
  BY <1>5, <1>6, <1>7, <1>8 DEF TraceInv

\* An append that ends before it is counted: Fail, and Close.
LEMMA GiveUpStep ==
    ASSUME Trace!TraceAssumption, TraceInv, Trace!Fail \/ Trace!Close
    PROVE  TraceInv'
<1>1. FileInv'
  BY DEF Trace!Fail, Trace!Close, TraceInv, FileInv, Writing, Trace!Indexed, Trace!Kept
<1>2. DataInv' /\ KeptInv'
  BY DEF Trace!Fail, Trace!Close, TraceInv, DataInv, KeptInv, Writing
<1>3. PlaceInv'
  <2>1. /\ Len(data) \in Nat /\ start \in Nat /\ start <= Len(data) /\ cut \in BOOLEAN
        /\ EntryStart[count] \in Nat
    BY EntryStartFacts DEF TraceInv, FileInv
  <2>3. IF cut' THEN End' > EntryStart[count'] ELSE End' = EntryStart[count']
    <3>1. CASE Trace!Fail
      <4>1. /\ End = start /\ End' = Len(data) /\ cut' = (cut \/ Len(data) > start)
            /\ count' = count
        BY <3>1 DEF Trace!Fail, End, Writing
      <4>2. IF cut THEN start > EntryStart[count] ELSE start = EntryStart[count]
        BY <4>1 DEF TraceInv, PlaceInv
      <4>3. CASE cut \/ Len(data) > start
        <5>1. cut'
          BY <4>1, <4>3
        <5>2. Len(data) > EntryStart[count]
          BY <2>1, <4>2, <4>3
        <5>3. QED
          BY <4>1, <5>1, <5>2 DEF EntryStart
      <4>4. CASE ~cut /\ ~(Len(data) > start)
        BY <2>1, <4>1, <4>2, <4>4
      <4>5. QED
        BY <4>3, <4>4
    <3>2. CASE Trace!Close
      <4>1. /\ End' = Len(data) /\ cut' = (cut \/ (writer # "open" /\ Len(data) > start))
            /\ count' = count /\ End = IF writer = "open" THEN Len(data) ELSE start
        BY <3>2 DEF Trace!Close, End, Writing, TraceInv, FileInv
      <4>2. IF cut THEN End > EntryStart[count] ELSE End = EntryStart[count]
        BY DEF TraceInv, PlaceInv
      <4>3. CASE cut
        <5>1. cut'
          BY <4>1, <4>3
        <5>2. Len(data) > EntryStart[count]
          BY <2>1, <4>1, <4>2, <4>3
        <5>3. QED
          BY <4>1, <5>1, <5>2 DEF EntryStart
      <4>4. CASE ~cut /\ writer # "open" /\ Len(data) > start
        BY <2>1, <4>1, <4>2, <4>4
      <4>5. CASE ~cut /\ ~(writer # "open" /\ Len(data) > start)
        BY <2>1, <4>1, <4>2, <4>5
      <4>6. QED
        BY <2>1, <4>3, <4>4, <4>5
    <3>3. QED
      BY <3>1, <3>2
  <2>4. kept' = kept /\ count' = count
    BY DEF Trace!Fail, Trace!Close
  <2>5. QED
    BY <2>3, <2>4 DEF TraceInv, PlaceInv, EntryStart
<1>4. EntryInv'
  BY DEF Trace!Fail, Trace!Close, TraceInv, FileInv, EntryInv, Trace!Indexed, Stored
<1>5. QED
  BY <1>1, <1>2, <1>3, <1>4 DEF TraceInv

LEMMA WriteEntryStep ==
    ASSUME Trace!TraceAssumption, TraceInv, Trace!WriteEntry
    PROVE  TraceInv'
<1>1. /\ entries \in Seq(Nat) /\ Len(entries) = held /\ held = count /\ count \in Nat
      /\ start \in Nat /\ OffsetLimit \in Nat /\ OffsetLimit > 0 /\ Trace!Indexed
      /\ count < MaxEntries /\ MaxEntries \in Nat
  BY DEF Trace!WriteEntry, TraceInv, FileInv, EntryInv, Writing, Trace!TraceAssumption
<1>2. SubSeq(entries, 1, held) = entries
  BY <1>1
<1>3. Stored(start) \in Nat
  BY <1>1, ModFacts DEF Stored
<1>4. entries' = Append(entries, Stored(start))
  BY <1>2 DEF Trace!WriteEntry, Stored
<1>5. /\ entries' \in Seq(Nat) /\ Len(entries') = count + 1 /\ entries'[count + 1] = Stored(start)
      /\ \A i \in 1 .. count : entries'[i] = entries[i]
  BY <1>1, <1>3, <1>4, AppendType
<1>6. FileInv'
  BY <1>1, <1>5 DEF Trace!WriteEntry, TraceInv, FileInv, Writing, Trace!Indexed, Trace!Kept
<1>7. DataInv' /\ KeptInv' /\ PlaceInv'
  BY DEF Trace!WriteEntry, TraceInv, DataInv, KeptInv, PlaceInv, End, Writing
<1>8. EntryInv'
  BY <1>1, <1>5 DEF Trace!WriteEntry, TraceInv, EntryInv, Trace!Indexed, Stored
<1>9. QED
  BY <1>6, <1>7, <1>8 DEF TraceInv

LEMMA WriteHeaderStep ==
    ASSUME Trace!TraceAssumption, TraceInv, Trace!WriteHeader
    PROVE  TraceInv'
<1> DEFINE r == [id |-> appends, at |-> start, whole |-> ~cut]
<1>1. /\ kept \in Seq(Trace!Kept) /\ Len(kept) = count /\ count \in Nat /\ held = count
      /\ count < appends /\ appends \in 1 .. MaxAppends /\ MaxAppends \in Nat
      /\ start \in Nat /\ cut \in BOOLEAN /\ Pieces \in Nat /\ Pieces > 0
      /\ data \in Seq(Marks) /\ Len(data) = start + Pieces /\ Len(data) \in Nat
      /\ \A p \in start + 1 .. Len(data) : data[p] = <<appends, p - start>>
  BY DEF Trace!WriteHeader, TraceInv, FileInv, DataInv, Writing, Trace!TraceAssumption
<1>2. r \in Trace!Kept /\ r.id = appends /\ r.at = start /\ r.whole = ~cut
  BY <1>1 DEF Trace!Kept
<1>3. /\ kept' = Append(kept, r) /\ count' = count + 1 /\ held' = count + 1
      /\ writer = "header" /\ writer' = "open"
      /\ UNCHANGED <<layout, data, entries, start, appends, cut>>
  BY <1>1 DEF Trace!WriteHeader
<1> HIDE DEF r
<1>4. /\ kept' \in Seq(Trace!Kept) /\ Len(kept') = count + 1 /\ kept'[count + 1] = r
      /\ \A i \in 1 .. count : kept'[i] = kept[i]
  BY <1>1, <1>2, <1>3, AppendType
<1>5. \A i \in 1 .. count + 1 : i \in 1 .. count \/ i = count + 1
  BY <1>1
<1>6. FileInv'
  BY <1>1, <1>3, <1>4 DEF TraceInv, FileInv, Writing, Trace!Indexed, Trace!Kept
<1>7. DataInv'
  BY <1>3 DEF TraceInv, DataInv, Writing
<1>8. KeptInv'
  <2> SUFFICES ASSUME NEW i \in 1 .. count + 1
               PROVE  /\ kept'[i].at + Pieces <= Len(data)
                      /\ \A k \in 1 .. Pieces : data[kept'[i].at + k] = <<kept'[i].id, k>>
    BY <1>3 DEF KeptInv
  <2>1. CASE i \in 1 .. count
    BY <1>4, <2>1 DEF TraceInv, KeptInv
  <2>2. CASE i = count + 1
    <3>1. kept'[i].at = start /\ kept'[i].id = appends
      BY <1>2, <1>4, <2>2
    <3>2. \A k \in 1 .. Pieces : start + k \in start + 1 .. Len(data) /\ (start + k) - start = k
      BY <1>1
    <3>3. \A k \in 1 .. Pieces : data[start + k] = <<appends, k>>
      BY <1>1, <3>2
    <3>4. QED
      BY <1>1, <3>1, <3>3
  <2>3. QED
    BY <1>5, <2>1, <2>2
<1>9. PlaceInv'
  <2>1. EntryStart[count] \in Nat /\ EntryStart[count + 1] = EntryStart[count] + Pieces
    BY <1>1, EntryStartFacts
  <2>2. IF cut THEN start > EntryStart[count] ELSE start = EntryStart[count]
    BY <1>3 DEF TraceInv, PlaceInv, End, Writing
  <2>3. IF cut' THEN End' > EntryStart[count'] ELSE End' = EntryStart[count']
    BY <1>1, <1>3, <2>1, <2>2 DEF End, Writing
  <2>4. ASSUME NEW i \in 1 .. count + 1
        PROVE  IF kept'[i].whole THEN kept'[i].at = EntryStart[i - 1] ELSE kept'[i].at > EntryStart[i - 1]
    <3>1. CASE i \in 1 .. count
      BY <1>4, <3>1 DEF TraceInv, PlaceInv
    <3>2. CASE i = count + 1
      <4>1. kept'[i].at = start /\ kept'[i].whole = ~cut /\ i - 1 = count
        BY <1>1, <1>2, <1>4, <3>2
      <4>2. QED
        BY <1>1, <2>2, <4>1
    <3>3. QED
      BY <1>5, <2>4, <3>1, <3>2
  <2>5. QED
    BY <1>3, <2>3, <2>4 DEF PlaceInv, EntryStart
<1>10. EntryInv'
  <2> SUFFICES ASSUME Trace!Indexed PROVE EntryInv'
    BY <1>3 DEF EntryInv, Trace!Indexed
  <2>1. /\ Len(entries) = count + 1 /\ entries[count + 1] = Stored(start)
        /\ \A i \in 1 .. count : entries[i] = Stored(kept[i].at)
    BY <1>3 DEF TraceInv, EntryInv
  <2>2. ASSUME NEW i \in 1 .. count + 1 PROVE entries[i] = Stored(kept'[i].at)
    BY <1>2, <1>4, <1>5, <2>1
  <2>3. \A p : Stored(p)' = Stored(p)
    BY <1>3 DEF Stored
  <2>4. \A i \in 1 .. count + 1 : entries[i] = IF layout = "boundary" THEN kept'[i].at % OffsetLimit
                                              ELSE kept'[i].at
    BY <2>2 DEF Stored
  <2>5. QED
    BY <1>1, <1>3, <2>1, <2>4 DEF EntryInv, Stored
<1>11. QED
  BY <1>6, <1>7, <1>8, <1>9, <1>10 DEF TraceInv

LEMMA TraceStepped ==
    ASSUME Trace!TraceAssumption, TraceInv, [Trace!Next]_Trace!vars
    PROVE  TraceInv'
<1>1. CASE UNCHANGED Trace!vars
  BY <1>1 DEF Trace!vars, TraceInv, FileInv, DataInv, KeptInv, PlaceInv, EntryInv, End, Writing,
     Stored, Trace!Indexed, Trace!Kept, Marks, EntryStart
<1>2. QED
  BY <1>1, CreateStep, OpenStep, AppendBegins, WriteStep, GiveUpStep, WriteEntryStep,
     WriteHeaderStep DEF Trace!Next

LEMMA TraceInvAlways == ProgramsSpec => []TraceInv
<1>1. Trace!Init => TraceInv
  BY TraceStart, ProgramsAssumption
<1>2. TraceInv /\ [Trace!Next]_Trace!vars => TraceInv'
  BY TraceStepped, ProgramsAssumption
<1>3. QED
  BY <1>1, <1>2, TraceRuns, PTL DEF Trace!Spec

\* ReadsAppended of TraceFiles: for any number of pieces and appends,
\* wherever an append is cut, what is read back is what was appended, and is not
\* where the property says so (append_chain, append, read_vector).
THEOREM ReadsAppendedAlways == ProgramsSpec => []ReadsAppended
<1>1. TraceInv => ReadsAppended
  BY FileReads, ProgramsAssumption DEF ReadsAppended
<1>2. QED
  BY <1>1, TraceInvAlways, PTL

----------------------------------------------------------------------------
(* Experts on shards: ExpertDispatch *)

Picks == Dispatch!kSubset(TopK, Experts)

LEMMA PicksFacts == Picks \subseteq SUBSET Experts
BY DEF Picks, Dispatch!kSubset

LEMMA OwnersKept ==
    ASSUME shards' = shards
    PROVE  \A e : Dispatch!Owners(e)' = Dispatch!Owners(e) /\ Dispatch!Owner(e)' = Dispatch!Owner(e)
BY DEF Dispatch!Owners, Dispatch!Owner, Dispatch!Min

LEMMA OwnerFacts ==
    ASSUME Dispatch!DispatchAssumption, shards \in Maps,
           NEW e, Dispatch!Owners(e) # {}
    PROVE  Dispatch!Owner(e) \in DOMAIN shards /\ shards[Dispatch!Owner(e)].url \in Dispatch!Urls
<1>1. Dispatch!Owners(e) \in SUBSET Nat /\ Dispatch!Owners(e) \subseteq DOMAIN shards
  BY DEF Dispatch!DispatchAssumption, Dispatch!Owners
<1>2. \E x \in Dispatch!Owners(e) : \A y \in Dispatch!Owners(e) : x <= y
  BY <1>1, NatMin
<1>3. Dispatch!Owner(e) \in Dispatch!Owners(e)
  BY <1>2 DEF Dispatch!Owner, Dispatch!Min
<1>4. QED
  BY <1>1, <1>3 DEF Dispatch!Urls

\* What the experts that were chosen add to a layer.
Share(l, chosen) == {<<l, e, shards[Dispatch!Owner(e)].url>> : e \in chosen}

\* What a thread waits for was routed with the map that is in force.
Routed(t, chosen) ==
    /\ \A e \in chosen : Dispatch!Owners(e) # {}
    /\ batches[t] = [i \in DOMAIN shards |-> {e \in chosen : Dispatch!Owner(e) = i}]
    /\ due[t] = outputs[t] \cup Share(layer[t], chosen)

\* A sum that has all layers before l.
ExpertsAt(out, k) == {o[2] : o \in {p \in out : p[1] = k}}
Whole(out, l) ==
    /\ \A o \in out : o[1] < l
    /\ \A k \in 1 .. NumLayers : k < l => ExpertsAt(out, k) \in Picks
    /\ \A o, p \in out : o[1] = p[1] /\ o[2] = p[2] => o = p

\* A thread that waits for its calls.
Waiting(t) ==
    progress[t] = "call" =>
        /\ layer[t] \in 1 .. NumLayers
        /\ ~step_error[t]
        /\ \E chosen \in Picks : Routed(t, chosen)
        /\ \A i \in DOMAIN answers[t] :
              /\ i \in DOMAIN shards /\ batches[t][i] # {}
              /\ answers[t][i] \in {"error", shards[i].url}

\* What a thread has summed up.
Summed(t) ==
    /\ progress[t] \in {"layer", "call", "ok"} /\ ~step_error[t] => Whole(outputs[t], layer[t])
    /\ progress[t] \in {"layer", "ok"} /\ ~step_error[t] => outputs[t] = due[t]
    /\ progress[t] = "ok" => ~step_error[t] /\ layer[t] = NumLayers + 1

OverThreads(f) == f = [t \in Threads |-> f[t]]

DispatchInv ==
    /\ Dispatch!TypeOK
    /\ OverThreads(batches) /\ OverThreads(answers)
    /\ \A t \in Threads : Waiting(t) /\ Summed(t)

LEMMA WholeTokens == Dispatch!DispatchAssumption /\ DispatchInv => Dispatch!TokensAreWhole
<1> SUFFICES ASSUME Dispatch!DispatchAssumption, DispatchInv,
                    NEW t \in Threads, progress[t] = "ok"
             PROVE  /\ outputs[t] = due[t]
                    /\ \A l \in 1 .. NumLayers :
                          {o[2] : o \in {p \in outputs[t] : p[1] = l}} \in Picks
                    /\ \A o, p \in outputs[t] : o[1] = p[1] /\ o[2] = p[2] => o = p
  BY DEF Dispatch!TokensAreWhole, Picks
<1>1. Whole(outputs[t], NumLayers + 1) /\ outputs[t] = due[t]
  BY DEF DispatchInv, Summed
<1>2. NumLayers \in Nat
  BY DEF Dispatch!DispatchAssumption
<1>3. QED
  BY <1>1, <1>2 DEF Whole, ExpertsAt

LEMMA DispatchStart == Dispatch!DispatchAssumption /\ Dispatch!Init => DispatchInv
<1> SUFFICES ASSUME Dispatch!DispatchAssumption, Dispatch!Init PROVE DispatchInv
  OBVIOUS
<1>1. OverThreads(batches) /\ OverThreads(answers)
  BY DEF Dispatch!Init, OverThreads
<1>2. \A t \in Threads : Waiting(t) /\ Summed(t)
  BY DEF Dispatch!Init, Waiting, Summed
<1>3. Dispatch!TypeOK
  BY DEF Dispatch!Init, Dispatch!TypeOK, Dispatch!DispatchAssumption
<1>4. QED
  BY <1>1, <1>2, <1>3 DEF DispatchInv

\* The sum of a layer is what was due.
LEMMA SummedFacts ==
    ASSUME Dispatch!DispatchAssumption, DispatchInv, NEW t \in Threads,
           Dispatch!Sum(t), ~Dispatch!AnyFailed(t)
    PROVE  /\ outputs'[t] = due[t]
           /\ Whole(due[t], layer[t] + 1)
           /\ \A s \in Threads : s # t => outputs'[s] = outputs[s]
           /\ outputs' \in [Threads -> SUBSET Dispatch!Outputs]
<1> DEFINE l == layer[t]
           added == UNION {{<<l, e, answers[t][i]>> : e \in batches[t][i]} :
                              i \in DOMAIN answers[t]}
<1>1. PICK chosen \in Picks : Routed(t, chosen)
  BY DEF DispatchInv, Waiting, Dispatch!Sum
<1>2. /\ shards \in Maps /\ l \in 1 .. NumLayers /\ NumLayers \in Nat
      /\ outputs \in [Threads -> SUBSET Dispatch!Outputs]
      /\ due \in [Threads -> SUBSET Dispatch!Outputs]
      /\ Whole(outputs[t], l)
  BY DEF DispatchInv, Waiting, Summed, Dispatch!Sum, Dispatch!TypeOK,
     Dispatch!DispatchAssumption
<1>3. \A i \in DOMAIN answers[t] : i \in DOMAIN shards /\ answers[t][i] = shards[i].url
  BY DEF DispatchInv, Waiting, Dispatch!Sum, Dispatch!AnyFailed
<1>4. \A i \in DOMAIN shards : \A e :
         e \in batches[t][i] <=> e \in chosen /\ Dispatch!Owner(e) = i
  BY <1>1 DEF Routed
<1>5. \A e \in chosen : Dispatch!Owner(e) \in DOMAIN answers[t]
  <2> SUFFICES ASSUME NEW e \in chosen PROVE Dispatch!Owner(e) \in DOMAIN answers[t]
    OBVIOUS
  <2>1. Dispatch!Owner(e) \in DOMAIN shards
    BY <1>1, <1>2, OwnerFacts DEF Routed
  <2>2. e \in batches[t][Dispatch!Owner(e)]
    BY <1>4, <2>1
  <2>3. DOMAIN batches[t] = DOMAIN shards
    BY <1>1 DEF Routed
  <2>4. QED
    BY <2>1, <2>2, <2>3 DEF Dispatch!Sum, Dispatch!AllAnswered
<1>6. added = Share(l, chosen)
  <2>1. ASSUME NEW o \in added PROVE o \in Share(l, chosen)
    <3>1. PICK i \in DOMAIN answers[t] : o \in {<<l, e, answers[t][i]>> : e \in batches[t][i]}
      BY <2>1
    <3>2. PICK e \in batches[t][i] : o = <<l, e, answers[t][i]>>
      BY <3>1
    <3>3. e \in chosen /\ Dispatch!Owner(e) = i /\ answers[t][i] = shards[i].url
      BY <1>3, <1>4, <3>2
    <3>4. QED
      BY <3>2, <3>3 DEF Share
  <2>2. ASSUME NEW o \in Share(l, chosen) PROVE o \in added
    <3>1. PICK e \in chosen : o = <<l, e, shards[Dispatch!Owner(e)].url>>
      BY <2>2 DEF Share
    <3>2. /\ Dispatch!Owner(e) \in DOMAIN answers[t]
          /\ e \in batches[t][Dispatch!Owner(e)]
          /\ answers[t][Dispatch!Owner(e)] = shards[Dispatch!Owner(e)].url
      BY <1>3, <1>4, <1>5
    <3>3. o \in {<<l, x, answers[t][Dispatch!Owner(e)]>> : x \in batches[t][Dispatch!Owner(e)]}
      BY <3>1, <3>2
    <3>4. QED
      BY <3>2, <3>3
  <2>3. QED
    BY <2>1, <2>2
<1>7. /\ outputs'[t] = outputs[t] \cup added
      /\ \A s \in Threads : s # t => outputs'[s] = outputs[s]
      /\ outputs' = [outputs EXCEPT ![t] = outputs[t] \cup added]
  BY <1>2 DEF Dispatch!Sum
<1> HIDE DEF added
<1>8. outputs'[t] = due[t]
  BY <1>1, <1>6, <1>7 DEF Routed
<1>9. outputs' \in [Threads -> SUBSET Dispatch!Outputs]
  <2>1. outputs[t] \cup added \in SUBSET Dispatch!Outputs
    BY <1>2, <1>7, <1>8
  <2>2. QED
    BY <1>2, <1>7, <2>1
<1>10. Whole(due[t], l + 1)
  <2> DEFINE out == outputs[t] \cup Share(l, chosen)
  <2>1. due[t] = out
    BY <1>1 DEF Routed
  <2>2. /\ \A o \in outputs[t] : o[1] \in Nat /\ o[1] < l
        /\ \A o \in Share(l, chosen) : o[1] = l
    BY <1>2 DEF Whole, Dispatch!Outputs, Share
  <2>3. \A o \in out : o[1] < l + 1
    BY <1>2, <2>2
  <2>4. ASSUME NEW k \in 1 .. NumLayers, k < l + 1 PROVE ExpertsAt(out, k) \in Picks
    <3>1. CASE k < l
      <4>1. {p \in out : p[1] = k} = {p \in outputs[t] : p[1] = k}
        BY <1>2, <2>2, <3>1
      <4>2. QED
        BY <1>2, <3>1, <4>1 DEF Whole, ExpertsAt
    <3>2. CASE k = l
      <4>1. {p \in out : p[1] = k} = Share(l, chosen)
        BY <1>2, <2>2, <3>2
      <4>2. {o[2] : o \in Share(l, chosen)} = chosen
        <5>1. \A o \in Share(l, chosen) : o[2] \in chosen
          BY DEF Share
        <5>2. ASSUME NEW e \in chosen PROVE \E o \in Share(l, chosen) : o[2] = e
          <6>1. <<l, e, shards[Dispatch!Owner(e)].url>> \in Share(l, chosen)
            BY DEF Share
          <6>2. QED
            BY <6>1
        <5>3. QED
          BY <5>1, <5>2
      <4>3. QED
        BY <4>1, <4>2 DEF ExpertsAt
    <3>3. QED
      BY <1>2, <2>4, <3>1, <3>2
  <2>5. ASSUME NEW o \in out, NEW p \in out, o[1] = p[1], o[2] = p[2] PROVE o = p
    <3>1. CASE o \in outputs[t] /\ p \in outputs[t]
      BY <1>2, <2>5, <3>1 DEF Whole
    <3>2. CASE o \in Share(l, chosen) /\ p \in Share(l, chosen)
      BY <2>5, <3>2 DEF Share
    <3>3. QED
      BY <1>2, <2>2, <2>5, <3>1, <3>2
  <2>6. QED
    BY <2>1, <2>3, <2>4, <2>5 DEF Whole
<1>11. QED
  BY <1>7, <1>8, <1>9, <1>10

\* What a step of another thread leaves alone.
Same(s) ==
    /\ progress'[s] = progress[s] /\ layer'[s] = layer[s] /\ batches'[s] = batches[s]
    /\ answers'[s] = answers[s] /\ step_error'[s] = step_error[s]
    /\ outputs'[s] = outputs[s] /\ due'[s] = due[s]

LEMMA SameRouted ==
    ASSUME NEW s, NEW chosen, Routed(s, chosen), shards' = shards,
           layer'[s] = layer[s], batches'[s] = batches[s], outputs'[s] = outputs[s],
           due'[s] = due[s]
    PROVE  Routed(s, chosen)'
BY OwnersKept DEF Routed, Share

LEMMA SameKeeps ==
    ASSUME NEW s \in Threads, Waiting(s), Summed(s), Same(s), shards' = shards
    PROVE  Waiting(s)' /\ Summed(s)'
<1>1. Summed(s)'
  BY DEF Same, Summed, Whole, ExpertsAt, Picks
<1>2. ASSUME progress[s] = "call" PROVE \E chosen \in Picks : Routed(s, chosen)'
  <2>1. PICK chosen \in Picks : Routed(s, chosen)
    BY <1>2 DEF Waiting
  <2>2. Routed(s, chosen)'
    BY <2>1, SameRouted DEF Same
  <2>3. QED
    BY <2>2
<1>3. Waiting(s)'
  BY <1>2 DEF Same, Waiting, Picks
<1>4. QED
  BY <1>1, <1>3

\* A step of one thread, t.
LEMMA ThreadStep ==
    ASSUME Dispatch!DispatchAssumption, DispatchInv, shards' = shards, Dispatch!TypeOK',
           OverThreads(batches)', OverThreads(answers)',
           NEW t \in Threads, Waiting(t)', Summed(t)',
           \A s \in Threads : s # t => Same(s)
    PROVE  DispatchInv'
<1>1. \A s \in Threads : (Waiting(s) /\ Summed(s))'
  <2> SUFFICES ASSUME NEW s \in Threads PROVE Waiting(s)' /\ Summed(s)'
    OBVIOUS
  <2>1. CASE s = t
    BY <2>1
  <2>2. CASE s # t
    BY <2>2, SameKeeps DEF DispatchInv
  <2>3. QED
    BY <2>1, <2>2
<1>2. QED
  BY <1>1 DEF DispatchInv

LEMMA ReshardSteps ==
    ASSUME Dispatch!DispatchAssumption, DispatchInv,
           (\E m \in Maps : Dispatch!Reshard(m)) \/ Dispatch!Connect \/ Dispatch!Swap
    PROVE  DispatchInv'
<1>1. \A s \in Threads : Same(s)
  BY DEF Dispatch!Reshard, Dispatch!Connect, Dispatch!Swap, Dispatch!tokenVars, Same
<1>2. (OverThreads(batches) /\ OverThreads(answers))'
  BY DEF Dispatch!Reshard, Dispatch!Connect, Dispatch!Swap, Dispatch!tokenVars, DispatchInv,
     OverThreads
<1>3. CASE shards' = shards /\ ~Dispatch!Swap
  <2>1. Dispatch!TypeOK'
    BY <1>3 DEF Dispatch!Reshard, Dispatch!Connect, Dispatch!tokenVars, DispatchInv,
       Dispatch!TypeOK, Dispatch!DispatchAssumption, Dispatch!Outputs, Dispatch!Urls
  <2>2. \A s \in Threads : (Waiting(s) /\ Summed(s))'
    BY <1>1, <1>3, SameKeeps DEF DispatchInv
  <2>3. QED
    BY <1>2, <2>1, <2>2 DEF DispatchInv
<1>4. CASE Dispatch!Swap
  <2>1. \A s \in Threads : progress[s] # "call" /\ progress'[s] # "call"
    BY <1>1, <1>4 DEF Dispatch!Swap, Dispatch!Readers, Same
  <2>2. Dispatch!TypeOK'
    BY <1>4, <2>1 DEF Dispatch!Swap, Dispatch!tokenVars, DispatchInv, Dispatch!TypeOK,
       Dispatch!Outputs, Dispatch!Urls
  <2>3. ASSUME NEW s \in Threads PROVE Waiting(s)' /\ Summed(s)'
    BY <1>1, <2>1 DEF Same, Waiting, Summed, Whole, ExpertsAt, Picks, DispatchInv
  <2>4. QED
    BY <1>2, <2>2, <2>3 DEF DispatchInv
<1>5. QED
  BY <1>3, <1>4 DEF Dispatch!Reshard, Dispatch!Connect

LEMMA TokenBegins ==
    ASSUME Dispatch!DispatchAssumption, DispatchInv, NEW t \in Threads, Dispatch!Begin(t)
    PROVE  DispatchInv'
<1>1. Dispatch!TypeOK'
  BY DEF Dispatch!Begin, Dispatch!mapVars, DispatchInv, Dispatch!TypeOK,
     Dispatch!DispatchAssumption, Dispatch!Outputs, Dispatch!Urls
<1>2. Summed(t)' /\ Waiting(t)'
  BY DEF Dispatch!Begin, DispatchInv, Dispatch!TypeOK, Dispatch!DispatchAssumption,
     Summed, Waiting, Whole
<1>3. \A s \in Threads : s # t => Same(s)
  BY DEF Dispatch!Begin, DispatchInv, Dispatch!TypeOK, Same
<1>4. shards' = shards /\ OverThreads(batches)' /\ OverThreads(answers)'
  BY DEF Dispatch!Begin, Dispatch!mapVars, DispatchInv, OverThreads
<1>5. QED
  BY <1>1, <1>2, <1>3, <1>4, ThreadStep

LEMMA RouteStep ==
    ASSUME Dispatch!DispatchAssumption, DispatchInv, NEW t \in Threads, NEW chosen \in Picks,
           Dispatch!Route(t, chosen)
    PROVE  DispatchInv'
<1>1. /\ layer[t] \in 1 .. NumLayers /\ shards \in Maps /\ chosen \in SUBSET Experts
      /\ due[t] \in SUBSET Dispatch!Outputs
  BY PicksFacts DEF Dispatch!Route, DispatchInv, Dispatch!TypeOK, Dispatch!DispatchAssumption
<1>2. Share(layer[t], chosen) \in SUBSET Dispatch!Outputs
  BY <1>1, OwnerFacts DEF Share, Dispatch!Outputs, Dispatch!Route
<1>3. /\ batches' = [batches EXCEPT ![t] =
                       [i \in DOMAIN shards |-> {e \in chosen : Dispatch!Owner(e) = i}]]
      /\ answers' = [answers EXCEPT ![t] = <<>>]
      /\ due' = [due EXCEPT ![t] = due[t] \cup Share(layer[t], chosen)]
      /\ progress' = [progress EXCEPT ![t] = "call"]
      /\ shards' = shards
      /\ UNCHANGED <<new_shards, reshard, reshards, layer, step_error, outputs, decoded>>
  BY DEF Dispatch!Route, Dispatch!mapVars, Share
<1>4. /\ batches'[t] = [i \in DOMAIN shards |-> {e \in chosen : Dispatch!Owner(e) = i}]
      /\ answers'[t] = <<>> /\ due'[t] = due[t] \cup Share(layer[t], chosen)
      /\ progress'[t] = "call"
      /\ OverThreads(batches)' /\ OverThreads(answers)'
      /\ \A s \in Threads : s # t => Same(s)
  BY <1>3 DEF DispatchInv, Dispatch!TypeOK, OverThreads, Same
<1>5. Dispatch!TypeOK'
  <2>1. due' \in [Threads -> SUBSET Dispatch!Outputs]
    BY <1>1, <1>2, <1>3 DEF DispatchInv, Dispatch!TypeOK
  <2>2. DOMAIN batches'[t] = DOMAIN shards' /\ DOMAIN answers'[t] = {}
    BY <1>3, <1>4
  <2>3. QED
    BY <1>3, <1>4, <2>1, <2>2 DEF DispatchInv, Dispatch!TypeOK, Same, Dispatch!Outputs,
       Dispatch!Urls
<1>6. Waiting(t)'
  <2>1. /\ layer'[t] \in 1 .. NumLayers /\ ~step_error'[t] /\ DOMAIN answers'[t] = {}
    BY <1>1, <1>3, <1>4 DEF Dispatch!Route
  <2>2. Routed(t, chosen)'
    <3>1. /\ outputs'[t] = outputs[t] /\ layer'[t] = layer[t]
          /\ due[t] = outputs[t] /\ \A e \in chosen : Dispatch!Owners(e) # {}
      BY <1>3 DEF Dispatch!Route, DispatchInv, Summed
    <3>2. /\ \A e \in chosen : Dispatch!Owners(e)' # {}
          /\ batches'[t] = [i \in DOMAIN shards' |-> {e \in chosen : Dispatch!Owner(e)' = i}]
      <4>1. \A i : {e \in chosen : Dispatch!Owner(e)' = i} = {e \in chosen : Dispatch!Owner(e) = i}
        BY <1>3, OwnersKept
      <4>2. \A e \in chosen : Dispatch!Owners(e)' # {}
        BY <1>3, <3>1, OwnersKept
      <4>3. DOMAIN shards' = DOMAIN shards
        BY <1>3
      <4>4. QED
        BY <1>4, <4>1, <4>2, <4>3
    <3>3. {<<layer'[t], e, shards'[Dispatch!Owner(e)'].url>> : e \in chosen}
            = {<<layer[t], e, shards[Dispatch!Owner(e)].url>> : e \in chosen}
      BY <1>3, <3>1, OwnersKept
    <3>4. due'[t] = outputs'[t]
                      \cup {<<layer'[t], e, shards'[Dispatch!Owner(e)'].url>> : e \in chosen}
      BY <1>4, <3>1, <3>3 DEF Share
    <3>5. QED
      BY <3>2, <3>4 DEF Routed, Share
  <2>3. QED
    BY <2>1, <2>2 DEF Waiting, Picks
<1>7. Summed(t)'
  BY <1>3, <1>4 DEF Summed, DispatchInv, Dispatch!Route, Whole, ExpertsAt, Picks
<1>8. QED
  BY <1>3, <1>4, <1>5, <1>6, <1>7, ThreadStep

\* The steps to the next layer without a call.
LEMMA LayerSteps ==
    ASSUME Dispatch!DispatchAssumption, DispatchInv, NEW t \in Threads,
           Dispatch!Skip(t) \/ \E chosen \in Picks : Dispatch!NoShard(t, chosen)
    PROVE  DispatchInv'
<1>1. /\ progress[t] = "layer" /\ layer[t] \in 1 .. NumLayers
      /\ layer' = [layer EXCEPT ![t] = @ + 1] /\ step_error'[t]
      /\ step_error' = [step_error EXCEPT ![t] = TRUE]
      /\ shards' = shards
      /\ UNCHANGED <<new_shards, reshard, reshards, progress, batches, answers, outputs, due,
                      decoded>>
  BY DEF Dispatch!Skip, Dispatch!NoShard, Dispatch!NextLayer, Dispatch!mapVars, DispatchInv,
     Dispatch!TypeOK, Dispatch!DispatchAssumption
<1>2. Dispatch!TypeOK'
  BY <1>1 DEF DispatchInv, Dispatch!TypeOK, Dispatch!DispatchAssumption, Dispatch!Outputs,
     Dispatch!Urls
<1>3. Summed(t)' /\ Waiting(t)'
  BY <1>1 DEF Summed, Waiting
<1>4. /\ OverThreads(batches)' /\ OverThreads(answers)'
      /\ \A s \in Threads : s # t => Same(s)
  BY <1>1 DEF DispatchInv, Dispatch!TypeOK, OverThreads, Same
<1>5. QED
  BY <1>1, <1>2, <1>3, <1>4, ThreadStep

LEMMA CallStep ==
    ASSUME Dispatch!DispatchAssumption, DispatchInv, NEW t \in Threads, NEW i,
           Dispatch!Call(t, i)
    PROVE  DispatchInv'
<1>1. PICK a \in {"error", shards[i].url} :
         answers' = [answers EXCEPT ![t] =
                       [j \in DOMAIN @ \cup {i} |-> IF j = i THEN a ELSE @[j]]]
  BY DEF Dispatch!Call
<1>2. /\ progress[t] = "call" /\ i \in DOMAIN batches[t] /\ batches[t][i] # {}
      /\ DOMAIN batches[t] = DOMAIN shards
      /\ shards' = shards
      /\ UNCHANGED <<new_shards, reshard, reshards, progress, layer, batches, step_error, outputs,
                      due, decoded>>
  BY DEF Dispatch!Call, Dispatch!mapVars, DispatchInv, Dispatch!TypeOK
<1>3. /\ answers'[t] = [j \in DOMAIN answers[t] \cup {i} |-> IF j = i THEN a ELSE answers[t][j]]
      /\ OverThreads(batches)' /\ OverThreads(answers)'
      /\ \A s \in Threads : s # t => Same(s)
  BY <1>1, <1>2 DEF DispatchInv, OverThreads, Same
<1>4. Dispatch!TypeOK'
  BY <1>2, <1>3 DEF DispatchInv, Dispatch!TypeOK, Same, Dispatch!Outputs, Dispatch!Urls
<1>5. Waiting(t)'
  <2>1. PICK chosen \in Picks : Routed(t, chosen)
    BY <1>2 DEF DispatchInv, Waiting
  <2>2. Routed(t, chosen)'
    BY <1>2, <2>1, SameRouted
  <2>3. \A j \in DOMAIN answers'[t] :
           /\ j \in DOMAIN shards' /\ batches'[t][j] # {}
           /\ answers'[t][j] \in {"error", shards'[j].url}
    BY <1>2, <1>3 DEF DispatchInv, Waiting
  <2>4. QED
    BY <1>2, <2>2, <2>3 DEF DispatchInv, Waiting, Picks
<1>6. Summed(t)'
  BY <1>2 DEF DispatchInv, Summed, Whole, ExpertsAt, Picks
<1>7. QED
  BY <1>2, <1>3, <1>4, <1>5, <1>6, ThreadStep

LEMMA SumStep ==
    ASSUME Dispatch!DispatchAssumption, DispatchInv, NEW t \in Threads, Dispatch!Sum(t)
    PROVE  DispatchInv'
<1>1. /\ progress[t] = "call" /\ layer[t] \in 1 .. NumLayers
      /\ progress' = [progress EXCEPT ![t] = "layer"]
      /\ layer' = [layer EXCEPT ![t] = @ + 1]
      /\ batches' = [batches EXCEPT ![t] = <<>>] /\ answers' = [answers EXCEPT ![t] = <<>>]
      /\ shards' = shards
      /\ UNCHANGED <<new_shards, reshard, reshards, due, decoded>>
  BY DEF Dispatch!Sum, Dispatch!NextLayer, Dispatch!mapVars, DispatchInv, Waiting
<1>2. /\ progress'[t] = "layer" /\ layer'[t] = layer[t] + 1
      /\ DOMAIN batches'[t] = {} /\ DOMAIN answers'[t] = {}
      /\ OverThreads(batches)' /\ OverThreads(answers)'
      /\ layer' \in [Threads -> 1 .. NumLayers + 1]
  <2>1. /\ progress \in [Threads -> {"idle", "layer", "call", "ok", "error"}]
        /\ layer \in [Threads -> 1 .. NumLayers + 1] /\ NumLayers \in Nat
        /\ OverThreads(batches) /\ OverThreads(answers)
    BY DEF DispatchInv, Dispatch!TypeOK, Dispatch!DispatchAssumption
  <2>2. layer[t] + 1 \in 1 .. NumLayers + 1
    BY <1>1, <2>1
  <2>3. layer' \in [Threads -> 1 .. NumLayers + 1] /\ layer'[t] = layer[t] + 1
    BY <1>1, <2>1, <2>2
  <2>4. /\ OverThreads(batches)' /\ OverThreads(answers)'
        /\ batches'[t] = <<>> /\ answers'[t] = <<>>
    BY <1>1, <2>1 DEF OverThreads
  <2>5. QED
    BY <1>1, <2>1, <2>3, <2>4
<1>3. /\ step_error' \in [Threads -> BOOLEAN]
      /\ outputs' \in [Threads -> SUBSET Dispatch!Outputs]
      /\ \A s \in Threads : s # t => step_error'[s] = step_error[s] /\ outputs'[s] = outputs[s]
      /\ Summed(t)'
  <2>1. CASE Dispatch!AnyFailed(t)
    <3>1. step_error' = [step_error EXCEPT ![t] = TRUE] /\ outputs' = outputs
      BY <2>1 DEF Dispatch!Sum
    <3>2. step_error'[t]
      BY <3>1 DEF DispatchInv, Dispatch!TypeOK
    <3>3. QED
      BY <1>2, <3>1, <3>2 DEF DispatchInv, Dispatch!TypeOK, Summed
  <2>2. CASE ~Dispatch!AnyFailed(t)
    <3>1. step_error' = step_error
      BY <2>2 DEF Dispatch!Sum
    <3>2. outputs'[t] = due'[t] /\ Whole(outputs'[t], layer'[t])
      BY <1>1, <1>2, <2>2, SummedFacts
    <3>3. Summed(t)'
      BY <1>2, <3>2 DEF Summed, Whole, ExpertsAt, Picks
    <3>4. QED
      BY <2>2, <3>1, <3>3, SummedFacts DEF DispatchInv, Dispatch!TypeOK
  <2>3. QED
    BY <2>1, <2>2
<1>4. \A s \in Threads : s # t => Same(s)
  BY <1>1, <1>3 DEF DispatchInv, Dispatch!TypeOK, OverThreads, Same
<1>5. Waiting(t)'
  BY <1>2 DEF Waiting
<1>6. Dispatch!TypeOK'
  <2>1. progress' \in [Threads -> {"idle", "layer", "call", "ok", "error"}]
    BY <1>1 DEF DispatchInv, Dispatch!TypeOK
  <2>2. QED
    BY <1>1, <1>2, <1>3, <1>4, <2>1 DEF DispatchInv, Dispatch!TypeOK, Same, Dispatch!Outputs,
       Dispatch!Urls
<1>7. QED
  BY <1>1, <1>2, <1>3, <1>4, <1>5, <1>6, ThreadStep

LEMMA EndStep ==
    ASSUME Dispatch!DispatchAssumption, DispatchInv, NEW t \in Threads, Dispatch!End(t)
    PROVE  DispatchInv'
<1>1. /\ progress[t] = "layer" /\ layer[t] = NumLayers + 1
      /\ progress' = [progress EXCEPT ![t] = IF step_error[t] THEN "error" ELSE "ok"]
      /\ shards' = shards
      /\ UNCHANGED <<new_shards, reshard, reshards, layer, batches, answers, step_error, outputs,
                      due, decoded>>
  BY DEF Dispatch!End, Dispatch!mapVars, DispatchInv, Dispatch!TypeOK,
     Dispatch!DispatchAssumption
<1>2. Dispatch!TypeOK'
  BY <1>1 DEF DispatchInv, Dispatch!TypeOK, Dispatch!Outputs, Dispatch!Urls
<1>3. Summed(t)' /\ Waiting(t)'
  BY <1>1 DEF Summed, Waiting, DispatchInv, Dispatch!TypeOK, Whole, ExpertsAt, Picks
<1>4. /\ OverThreads(batches)' /\ OverThreads(answers)'
      /\ \A s \in Threads : s # t => Same(s)
  BY <1>1 DEF DispatchInv, Dispatch!TypeOK, OverThreads, Same
<1>5. QED
  BY <1>1, <1>2, <1>3, <1>4, ThreadStep

LEMMA DispatchStepped ==
    ASSUME Dispatch!DispatchAssumption, DispatchInv, [Dispatch!Next]_Dispatch!vars
    PROVE  DispatchInv'
<1>1. CASE UNCHANGED Dispatch!vars
  <2>1. shards' = shards /\ \A s \in Threads : Same(s)
    BY <1>1 DEF Dispatch!vars, Dispatch!mapVars, Dispatch!tokenVars, Same
  <2>2. \A s \in Threads : (Waiting(s) /\ Summed(s))'
    BY <2>1, SameKeeps DEF DispatchInv
  <2>3. Dispatch!TypeOK'
    BY <1>1 DEF Dispatch!vars, Dispatch!mapVars, Dispatch!tokenVars, DispatchInv,
       Dispatch!TypeOK, Dispatch!Outputs, Dispatch!Urls
  <2>4. (OverThreads(batches) /\ OverThreads(answers))'
    BY <1>1 DEF Dispatch!vars, Dispatch!tokenVars, DispatchInv, OverThreads
  <2>5. QED
    BY <2>2, <2>3, <2>4 DEF DispatchInv
<1>2. CASE \E t \in Threads : Dispatch!Begin(t) \/ Dispatch!Sum(t) \/ Dispatch!Skip(t)
                              \/ Dispatch!End(t)
  BY <1>2, TokenBegins, SumStep, LayerSteps, EndStep
<1>3. CASE \E t \in Threads : \E i \in DOMAIN batches[t] : Dispatch!Call(t, i)
  BY <1>3, CallStep
<1>4. CASE \E t \in Threads : \E chosen \in Picks :
             Dispatch!Route(t, chosen) \/ Dispatch!NoShard(t, chosen)
  BY <1>4, RouteStep, LayerSteps
<1>5. QED
  BY <1>1, <1>2, <1>3, <1>4, ReshardSteps DEF Dispatch!Next, Picks

LEMMA DispatchInvAlways == ProgramsSpec => []DispatchInv
<1>1. Dispatch!Init => DispatchInv
  BY DispatchStart, ProgramsAssumption
<1>2. DispatchInv /\ [Dispatch!Next]_Dispatch!vars => DispatchInv'
  BY DispatchStepped, ProgramsAssumption
<1>3. QED
  BY <1>1, <1>2, DispatchRuns, PTL DEF Dispatch!Spec

\* TokensAreWhole of ExpertDispatch: however the shards fail and their map is
\* replaced, if those that answer do so for each expert they are asked for once, a
\* token that is decoded has every output once (forward_moe, reshard,
\* generate_with_remote_moe).
THEOREM TokensAreWholeAlways == ProgramsSpec => []TokensAreWhole
<1>1. DispatchInv => TokensAreWhole
  BY WholeTokens, ProgramsAssumption DEF TokensAreWhole
<1>2. QED
  BY <1>1, DispatchInvAlways, PTL

----------------------------------------------------------------------------
(* A walk through the knowledge of a model: KnowledgeWalk *)

\* What the edges of T lead to from A.
Onward(A, T) == {o \in Valid : \E t \in T : t[1] \in A /\ t[3] = o}

\* g says for each number of steps up to d what is within it.
LevelsOf(g, A, T, d) == g = [n \in 0 .. d |-> IF n = 0 THEN A ELSE g[n - 1] \cup Onward(g[n - 1], T)]

LEMMA LevelsExist ==
    ASSUME NEW A, NEW T, NEW d \in Nat
    PROVE  \E g : LevelsOf(g, A, T, d)
<1> DEFINE Deep == {n \in Nat : \E g : LevelsOf(g, A, T, n)}
<1>1. 0 \in Deep
  <2>1. LevelsOf([n \in 0 .. 0 |-> A], A, T, 0)
    BY DEF LevelsOf
  <2>2. QED
    BY <2>1
<1>2. ASSUME NEW n \in Nat, n \in Deep PROVE n + 1 \in Deep
  <2>1. PICK g : LevelsOf(g, A, T, n)
    BY <1>2
  <2> DEFINE h == [m \in 0 .. n + 1 |-> IF m = 0 THEN A ELSE g[m - 1] \cup Onward(g[m - 1], T)]
  <2>2. ASSUME NEW m \in 0 .. n PROVE h[m] = g[m]
    <3>1. m \in 0 .. n + 1
      OBVIOUS
    <3>2. g[m] = IF m = 0 THEN A ELSE g[m - 1] \cup Onward(g[m - 1], T)
      BY <2>1 DEF LevelsOf
    <3>3. QED
      BY <3>1, <3>2
  <2>3. \A m \in 0 .. n + 1 : m # 0 => m - 1 \in 0 .. n
    OBVIOUS
  <2>4. h = [m \in 0 .. n + 1 |-> IF m = 0 THEN A ELSE h[m - 1] \cup Onward(h[m - 1], T)]
    BY <2>2, <2>3
  <2>5. LevelsOf(h, A, T, n + 1)
    BY <2>4 DEF LevelsOf
  <2>6. QED
    BY <2>5
<1>3. d \in Deep
  <2> HIDE DEF Deep
  <2>1. QED
    BY <1>1, <1>2, Induction
<1>4. QED
  BY <1>3

Seeds == {seeds[i] : i \in 1 .. Len(seeds)}

LEMMA WithinFacts ==
    ASSUME Walk!WalkAssumption
    PROVE  LevelsOf(Walk!Within, Seeds, told, MaxDepth)
<1>1. \E g : LevelsOf(g, Seeds, told, MaxDepth)
  BY LevelsExist DEF Walk!WalkAssumption
<1>2. Walk!Within = CHOOSE g : LevelsOf(g, Seeds, told, MaxDepth)
  BY DEF Walk!Within, LevelsOf, Onward, Seeds
<1>3. QED
  BY <1>1, <1>2
LEMMA LevelFacts ==
    ASSUME NEW g, NEW A, NEW T, NEW d \in Nat, LevelsOf(g, A, T, d)
    PROVE  /\ g[0] = A
           /\ \A n \in 0 .. d : n # 0 => g[n] = g[n - 1] \cup Onward(g[n - 1], T)
<1>1. 0 \in 0 .. d
  OBVIOUS
<1>2. \A n \in 0 .. d : g[n] = IF n = 0 THEN A ELSE g[n - 1] \cup Onward(g[n - 1], T)
  BY DEF LevelsOf
<1>3. QED
  BY <1>1, <1>2

\* More edges lead to more, and so do more steps.
LEMMA LevelsGrow ==
    ASSUME NEW g, NEW h, NEW A, NEW T, NEW U, NEW d \in Nat, T \subseteq U,
           LevelsOf(g, A, T, d), LevelsOf(h, A, U, d)
    PROVE  \A n \in 0 .. d : g[n] \subseteq h[n]
<1> DEFINE Deep == {n \in Nat : n <= d => g[n] \subseteq h[n]}
<1>1. 0 \in Deep
  BY LevelFacts
<1>2. ASSUME NEW n \in Nat, n \in Deep PROVE n + 1 \in Deep
  <2>1. ASSUME n + 1 <= d PROVE g[n + 1] \subseteq h[n + 1]
    <3>1. n + 1 \in 0 .. d /\ n + 1 # 0 /\ (n + 1) - 1 = n /\ n <= d
      BY <2>1
    <3>2. g[n + 1] = g[n] \cup Onward(g[n], T) /\ h[n + 1] = h[n] \cup Onward(h[n], U)
      BY <3>1, LevelFacts
    <3>3. g[n] \subseteq h[n]
      BY <1>2, <3>1
    <3>4. Onward(g[n], T) \subseteq Onward(h[n], U)
      BY <3>3 DEF Onward
    <3>5. QED
      BY <3>2, <3>3, <3>4
  <2>2. QED
    BY <2>1
<1>3. \A n \in Nat : n \in Deep
  <2> HIDE DEF Deep
  <2>1. QED
    BY <1>1, <1>2, Induction
<1>4. QED
  BY <1>3

LEMMA LevelsRise ==
    ASSUME NEW g, NEW A, NEW T, NEW d \in Nat, LevelsOf(g, A, T, d)
    PROVE  \A m, n \in 0 .. d : m <= n => g[m] \subseteq g[n]
<1> DEFINE Deep == {n \in Nat : n <= d => \A m \in 0 .. n : g[m] \subseteq g[n]}
<1>1. 0 \in Deep
  OBVIOUS
<1>2. ASSUME NEW n \in Nat, n \in Deep PROVE n + 1 \in Deep
  <2>1. ASSUME n + 1 <= d, NEW m \in 0 .. n + 1 PROVE g[m] \subseteq g[n + 1]
    <3>1. n + 1 \in 0 .. d /\ n + 1 # 0 /\ (n + 1) - 1 = n /\ n <= d
      BY <2>1
    <3>2. g[n] \subseteq g[n + 1]
      BY <3>1, LevelFacts
    <3>3. m # n + 1 => m \in 0 .. n
      OBVIOUS
    <3>4. m # n + 1 => g[m] \subseteq g[n]
      BY <1>2, <3>1, <3>3
    <3>5. QED
      BY <3>2, <3>4
  <2>2. QED
    BY <2>1
<1>3. \A n \in Nat : n \in Deep
  <2> HIDE DEF Deep
  <2>1. QED
    BY <1>1, <1>2, Induction
<1>4. QED
  BY <1>3

\* A walk has everything within d steps, if it has the seeds at no step, and for each
\* edge it has followed the far end at most a step later than the near one.
LEMMA WalkReaches ==
    ASSUME NEW g, NEW A, NEW T, NEW d \in Nat, LevelsOf(g, A, T, d),
           NEW W \in SUBSET Entities, NEW D \in [Entities -> 0 .. d],
           \A s \in A : s \in W /\ D[s] = 0,
           \A t \in T : D[t[1]] < d /\ t[3] \in Valid => t[3] \in W /\ D[t[3]] <= D[t[1]] + 1
    PROVE  g[d] \subseteq W
<1> DEFINE Deep == {n \in Nat : n <= d => \A o \in g[n] : o \in W /\ D[o] <= n}
<1>1. 0 \in Deep
  BY LevelFacts
<1>2. ASSUME NEW n \in Nat, n \in Deep PROVE n + 1 \in Deep
  <2>1. ASSUME n + 1 <= d, NEW o \in g[n + 1] PROVE o \in W /\ D[o] <= n + 1
    <3>1. n + 1 \in 0 .. d /\ n + 1 # 0 /\ (n + 1) - 1 = n /\ n <= d
      BY <2>1
    <3>2. o \in g[n] \cup Onward(g[n], T)
      BY <2>1, <3>1, LevelFacts
    <3>3. CASE o \in g[n]
      <4>1. o \in W /\ D[o] <= n
        BY <1>2, <3>1, <3>3
      <4>2. D[o] \in Nat
        BY <4>1
      <4>3. QED
        BY <4>1, <4>2
    <3>4. CASE o \in Onward(g[n], T)
      <4>1. PICK t \in T : t[1] \in g[n] /\ t[3] = o /\ o \in Valid
        BY <3>4 DEF Onward
      <4>2. t[1] \in W /\ D[t[1]] <= n
        BY <1>2, <3>1, <4>1
      <4>3. D[t[1]] \in Nat
        BY <4>2
      <4>4. D[t[1]] < d
        BY <2>1, <4>2, <4>3
      <4>5. o \in W /\ D[o] <= D[t[1]] + 1
        BY <4>1, <4>4
      <4>6. D[o] \in Nat
        BY <4>5
      <4>7. QED
        BY <4>2, <4>3, <4>5, <4>6
    <3>5. QED
      BY <3>2, <3>3, <3>4
  <2>2. QED
    BY <2>1
<1>3. \A n \in Nat : n \in Deep
  <2> HIDE DEF Deep
  <2>1. QED
    BY <1>1, <1>2, Induction
<1>4. QED
  BY <1>3

\* An entity has been visited at depth n at most, or is to be.
Covered(o, n, D) ==
    \/ o \in visited /\ D[o] <= n
    \/ \E i \in 1 .. Len(queue) : queue[i][1] = o /\ queue[i][2] <= n

\* D is the depth at which each entity was visited.  The queue is in the order of
\* the depths, which differ by one at most, so nothing is visited at a greater depth
\* than it could be: what an edge leads to is covered a step behind its near end.
BfsInv(D) ==
    /\ D \in [Entities -> 0 .. MaxDepth]
    /\ \A v \in visited : D[v] <= depth /\ v \in Walk!Within[D[v]]
    /\ \A i \in 1 .. Len(queue) :
         /\ depth <= queue[i][2] /\ queue[i][2] <= depth + 1
         /\ queue[i][1] \in Walk!Within[queue[i][2]]
    /\ \A i, j \in 1 .. Len(queue) : i <= j => queue[i][2] <= queue[j][2]
    /\ \A s \in Seeds : Covered(s, 0, D)
    /\ \A t \in told :
         /\ t[1] \in visited
         /\ D[t[1]] < MaxDepth /\ t[3] \in Valid => Covered(t[3], D[t[1]] + 1, D)
    /\ entity # Walk!NoEntity => D[entity] = depth

\* The edges that the replay of the log lacks, and how many more an append behind the
\* tail would take from it.
Lacking == had \ Walk!Replayed
Debt == IF log_tail.kind = "none" THEN 0 ELSE IF log_tail.kind = "torn" THEN 1 ELSE 2

\* A log that can be replayed lacks two edges for each append that was cut, those that
\* the next append takes from it included.
LogInv ==
    /\ graph \subseteq had /\ Walk!Replayed \subseteq had
    /\ Walk!Readable <=> ~split
    /\ IsFiniteSet(Lacking)
    /\ Walk!Readable => Cardinality(Lacking) + Debt <= 2 * cuts

WalkInv ==
    /\ Walk!TypeOK
    /\ IsFiniteSet(visited)
    /\ phase # "walking" => entity = Walk!NoEntity
    /\ entity = Walk!NoEntity => left = {}
    /\ phase = "walking" => \E D : BfsInv(D)
    /\ Walk!FindsAll
    /\ LogInv

LEMMA WalkOperators ==
    /\ \A S : Walk!Cardinality(S) = Cardinality(S)
<1>1. QED
  BY Zenon DEF Cardinality, Walk!Cardinality

LEMMA TailKinds ==
    /\ Walk!NoTail.kind = "none" /\ Walk!Torn.kind = "torn" /\ Walk!Garbage.kind = "garbage"
    /\ \A e : Walk!Whole(e).kind = "whole" /\ Walk!Whole(e).edge = e
    /\ \A t \in Walk!Tails : /\ t.kind \in {"none", "torn", "garbage", "whole"}
                             /\ t.kind = "none" <=> t = Walk!NoTail
                             /\ t.kind = "whole" => t.edge \in Walk!Edges
<1>1. /\ Walk!NoTail.kind = "none" /\ Walk!Torn.kind = "torn" /\ Walk!Garbage.kind = "garbage"
      /\ \A e : Walk!Whole(e).kind = "whole" /\ Walk!Whole(e).edge = e
  BY DEF Walk!NoTail, Walk!Torn, Walk!Garbage, Walk!Whole
<1>2. ASSUME NEW t \in Walk!Tails
      PROVE  /\ t.kind \in {"none", "torn", "garbage", "whole"}
             /\ t.kind = "none" <=> t = Walk!NoTail
             /\ t.kind = "whole" => t.edge \in Walk!Edges
  <2>1. t \in {Walk!NoTail, Walk!Torn, Walk!Garbage} \/ \E e \in Walk!Edges : t = Walk!Whole(e)
    BY DEF Walk!Tails
  <2>2. QED
    BY <1>1, <2>1
<1>3. QED
  BY <1>1, <1>2

\* What a walk visits is within its depth, and all that is if it ends with an empty
\* queue.
LEMMA BfsVisits ==
    ASSUME Walk!WalkAssumption, Walk!TypeOK, NEW D, BfsInv(D)
    PROVE  /\ visited \subseteq Walk!Within[MaxDepth]
           /\ queue = <<>> => Walk!Within[MaxDepth] \subseteq visited
<1>1. MaxDepth \in Nat /\ MaxDepth \in 0 .. MaxDepth
  BY DEF Walk!WalkAssumption
<1>2. LevelsOf(Walk!Within, Seeds, told, MaxDepth)
  BY WithinFacts
<1>3. visited \in SUBSET Entities /\ D \in [Entities -> 0 .. MaxDepth]
  BY DEF Walk!TypeOK, BfsInv
<1>4. ASSUME NEW v \in visited PROVE v \in Walk!Within[MaxDepth]
  <2>1. D[v] \in 0 .. MaxDepth /\ v \in Walk!Within[D[v]]
    BY <1>3, <1>4 DEF BfsInv
  <2>2. D[v] <= MaxDepth
    BY <1>1, <2>1
  <2>3. Walk!Within[D[v]] \subseteq Walk!Within[MaxDepth]
    BY <1>1, <1>2, <2>1, <2>2, LevelsRise
  <2>4. QED
    BY <2>1, <2>3
<1>5. ASSUME queue = <<>> PROVE Walk!Within[MaxDepth] \subseteq visited
  <2>1. \A o, n : Covered(o, n, D) => o \in visited /\ D[o] <= n
    BY <1>5 DEF Covered
  <2>2. \A s \in Seeds : s \in visited /\ D[s] = 0
    <3>1. \A s \in Seeds : s \in visited /\ D[s] <= 0
      BY <2>1 DEF BfsInv
    <3>2. \A v \in visited : D[v] \in Nat
      BY <1>3
    <3>3. QED
      BY <3>1, <3>2
  <2>3. \A t \in told : D[t[1]] < MaxDepth /\ t[3] \in Valid => t[3] \in visited /\ D[t[3]] <= D[t[1]] + 1
    BY <2>1 DEF BfsInv
  <2>4. QED
    BY <1>1, <1>2, <1>3, <2>2, <2>3, WalkReaches
<1>6. QED
  BY <1>4, <1>5

LEMMA WithinStays == ASSUME UNCHANGED <<seeds, told>> PROVE Walk!Within' = Walk!Within
BY DEF Walk!Within

LEMMA ReplayedFacts ==
    ASSUME log_tail \in Walk!Tails
    PROVE  /\ Walk!Replayed = lines \cup (IF log_tail.kind = "whole" THEN {log_tail.edge} ELSE {})
           /\ lines \subseteq Walk!Replayed
           /\ lines \subseteq Walk!Edges => Walk!Replayed \subseteq Walk!Edges
           /\ log_tail = Walk!NoTail => Walk!Replayed = lines
<1>1. Walk!Replayed = lines \cup (IF log_tail.kind = "whole" THEN {log_tail.edge} ELSE {})
  BY DEF Walk!Replayed
<1>2. log_tail.kind = "whole" => log_tail.edge \in Walk!Edges
  BY TailKinds
<1>3. QED
  BY <1>1, <1>2, TailKinds

\* Nothing that the invariant is about changes but what a step of the walk names.
LEMMA VisitedCount ==
    ASSUME Walk!WalkAssumption, WalkInv
    PROVE  /\ Walk!Cardinality(visited) = Cardinality(visited)
           /\ Cardinality(visited) \in Nat /\ Cardinality(visited) <= MaxEntities
           /\ MaxEntities \in Nat
<1>1. Walk!Cardinality(visited) = Cardinality(visited)
  BY WalkOperators
<1>2. Cardinality(visited) \in Nat
  BY FS_CardinalityType DEF WalkInv
<1>3. QED
  BY <1>1, <1>2 DEF WalkInv, Walk!TypeOK, Walk!WalkAssumption

LEMMA LogStays ==
    ASSUME LogInv, UNCHANGED <<graph, lines, log_tail, garbled, had, cuts, split>>
    PROVE  LogInv'
BY DEF LogInv, Lacking, Debt, Walk!Replayed, Walk!Readable

LEMMA WalkStart ==
    ASSUME Walk!WalkAssumption, Walk!Init
    PROVE  WalkInv
<1>1. /\ model \in Models /\ seeds \in SeedLists /\ phase = "closed"
      /\ graph = {} /\ visited = {} /\ queue = <<>> /\ entity = Walk!NoEntity /\ depth = 0
      /\ left = {} /\ lines = {} /\ log_tail = Walk!NoTail /\ garbled = FALSE /\ told = {}
      /\ had = {} /\ cuts = 0 /\ split = FALSE
      /\ errors = 0 /\ sessions = 0
  BY DEF Walk!Init
<1>2. MaxDepth \in Nat /\ MaxErrors \in Nat /\ MaxSessions \in Nat /\ MaxEntities \in Nat
  BY DEF Walk!WalkAssumption
<1>3. Walk!Cardinality(visited) <= MaxEntities /\ IsFiniteSet(visited)
  BY <1>1, <1>2, WalkOperators, FS_EmptySet
<1>4. Walk!NoTail \in Walk!Tails
  BY DEF Walk!Tails
<1>5. queue \in Seq(Entities \X (0 .. MaxDepth))
  BY <1>1
<1>6. 0 \in 0 .. MaxDepth /\ 0 \in 0 .. MaxErrors /\ 0 \in 0 .. MaxSessions
  BY <1>2
<1>7. Walk!TypeOK
  BY <1>1, <1>3, <1>4, <1>5, <1>6 DEF Walk!TypeOK
<1>8. Walk!FindsAll
  BY <1>1 DEF Walk!FindsAll
<1>9. LogInv
  <2>1. Walk!Replayed = {} /\ Debt = 0
    BY <1>1, <1>4, ReplayedFacts, TailKinds DEF Debt
  <2>2. Walk!Readable
    BY <1>1, TailKinds DEF Walk!Readable
  <2>3. Lacking = {} /\ IsFiniteSet({}) /\ Cardinality({}) = 0
    BY <1>1, FS_EmptySet DEF Lacking
  <2>4. QED
    BY <1>1, <2>1, <2>2, <2>3 DEF LogInv
<1>10. QED
  BY <1>1, <1>3, <1>7, <1>8, <1>9 DEF WalkInv

LEMMA BeginWalkKeeps ==
    ASSUME Walk!WalkAssumption, WalkInv, Walk!Begin
    PROVE  WalkInv'
<1>1. /\ phase' = "walking" /\ graph' = Walk!Replayed /\ visited' = {}
      /\ queue' = [i \in 1 .. Len(seeds) |-> <<seeds[i], 0>>]
      /\ entity' = Walk!NoEntity /\ depth' = 0 /\ left' = {} /\ told' = {}
      /\ sessions < MaxSessions /\ sessions' = sessions + 1
      /\ UNCHANGED <<model, seeds, lines, log_tail, garbled, had, cuts, split, errors>>
  BY DEF Walk!Begin, Walk!log
<1>2. /\ MaxDepth \in Nat /\ MaxEntities \in Nat /\ MaxSessions \in Nat
      /\ seeds \in Seq(Entities) /\ log_tail \in Walk!Tails /\ lines \subseteq Walk!Edges
      /\ model \in Models /\ seeds \in SeedLists /\ errors \in 0 .. MaxErrors
      /\ sessions \in 0 .. MaxSessions /\ garbled \in BOOLEAN /\ had \subseteq Walk!Edges
      /\ cuts \in Nat /\ split \in BOOLEAN
  BY DEF Walk!WalkAssumption, WalkInv, Walk!TypeOK
<1>3. Len(seeds) \in Nat /\ \A i \in 1 .. Len(seeds) : seeds[i] \in Entities
  BY <1>2
<1>4. /\ queue' \in Seq(Entities \X (0 .. MaxDepth)) /\ Len(queue') = Len(seeds)
      /\ \A i \in 1 .. Len(seeds) : queue'[i] = <<seeds[i], 0>>
  BY <1>1, <1>2, <1>3
<1>5. Walk!Cardinality(visited') <= MaxEntities /\ IsFiniteSet(visited')
  BY <1>1, <1>2, WalkOperators, FS_EmptySet
<1>6. graph' \subseteq Walk!Edges /\ Walk!Replayed' = Walk!Replayed
  <2>1. Walk!Replayed' = Walk!Replayed
    BY <1>1 DEF Walk!Replayed
  <2>2. QED
    BY <1>1, <1>2, <2>1, ReplayedFacts
<1>7. sessions' \in 0 .. MaxSessions /\ 0 \in 0 .. MaxDepth
  BY <1>1, <1>2
<1>8. Walk!TypeOK'
  BY <1>1, <1>2, <1>4, <1>5, <1>6, <1>7 DEF Walk!TypeOK
<1> DEFINE D == [e \in Entities |-> 0]
<1>9. D \in [Entities -> 0 .. MaxDepth]
  BY <1>7
<1>10. Seeds = Walk!Within'[0] /\ Seeds' = Seeds
  <2>1. LevelsOf(Walk!Within', Seeds', told', MaxDepth)
    <3>1. \E g : LevelsOf(g, Seeds', told', MaxDepth)
      BY LevelsExist DEF Walk!WalkAssumption
    <3>2. Walk!Within' = CHOOSE g : LevelsOf(g, Seeds', told', MaxDepth)
      BY DEF Walk!Within, LevelsOf, Onward, Seeds
    <3>3. QED
      BY <3>1, <3>2
  <2>2. Seeds' = Seeds
    BY <1>1 DEF Seeds
  <2>3. QED
    BY <1>2, <2>1, <2>2, LevelFacts
<1> HIDE DEF D
<1>11. BfsInv(D)'
  <2>1. ASSUME NEW i \in 1 .. Len(queue')
        PROVE  /\ queue'[i][1] \in Walk!Within'[queue'[i][2]] /\ queue'[i][2] = 0
    <3>1. queue'[i] = <<seeds[i], 0>> /\ seeds[i] \in Seeds
      BY <1>4 DEF Seeds
    <3>2. QED
      BY <1>10, <3>1
  <2>2. \A s \in Seeds : \E i \in 1 .. Len(queue') : queue'[i][1] = s /\ queue'[i][2] <= 0
    <3>1. ASSUME NEW s \in Seeds PROVE \E i \in 1 .. Len(queue') : queue'[i][1] = s /\ queue'[i][2] <= 0
      <4>1. PICK i \in 1 .. Len(seeds) : seeds[i] = s
        BY DEF Seeds
      <4>2. i \in 1 .. Len(queue') /\ queue'[i] = <<s, 0>>
        BY <1>4, <4>1
      <4>3. QED
        BY <4>2
    <3>2. QED
      BY <3>1
  <2>3. ASSUME NEW i \in 1 .. Len(queue')
        PROVE  /\ depth' <= queue'[i][2] /\ queue'[i][2] <= depth' + 1
               /\ queue'[i][1] \in Walk!Within'[queue'[i][2]]
    <3>1. depth' = 0 /\ queue'[i][2] = 0
      BY <1>1, <2>1
    <3>2. QED
      BY <2>1, <3>1
  <2>4. \A i, j \in 1 .. Len(queue') : i <= j => queue'[i][2] <= queue'[j][2]
    BY <2>1
  <2>5. \A s \in Seeds' : Covered(s, 0, D)'
    BY <1>10, <2>2 DEF Covered
  <2>6. QED
    BY <1>1, <1>9, <2>3, <2>4, <2>5 DEF BfsInv
<1>12. Walk!FindsAll'
  BY <1>1 DEF Walk!FindsAll
<1>13. LogInv'
  <2>1. LogInv
    BY DEF WalkInv
  <2>2. Lacking' = Lacking /\ Debt' = Debt /\ Walk!Readable' = Walk!Readable
    BY <1>1, <1>6 DEF Lacking, Debt, Walk!Readable
  <2>3. QED
    BY <1>1, <1>6, <2>1, <2>2 DEF LogInv
<1>14. QED
  BY <1>1, <1>5, <1>8, <1>11, <1>12, <1>13 DEF WalkInv

\* The head of the queue is taken off.
LEMMA PopQueue ==
    ASSUME Walk!WalkAssumption, WalkInv, queue # <<>>, queue' = Tail(queue)
    PROVE  /\ queue' \in Seq(Entities \X (0 .. MaxDepth)) /\ Len(queue') = Len(queue) - 1
           /\ Len(queue) \in Nat /\ 1 \in 1 .. Len(queue) /\ Head(queue) = queue[1]
           /\ Head(queue)[1] \in Entities /\ Head(queue)[2] \in 0 .. MaxDepth
           /\ \A i \in 1 .. Len(queue') : queue'[i] = queue[i + 1] /\ i + 1 \in 1 .. Len(queue)
           /\ \A i \in 1 .. Len(queue) : i # 1 => i - 1 \in 1 .. Len(queue') /\ queue'[i - 1] = queue[i]
<1>1. queue \in Seq(Entities \X (0 .. MaxDepth))
  BY DEF WalkInv, Walk!TypeOK
<1>2. /\ Head(queue) \in Entities \X (0 .. MaxDepth) /\ Head(queue) = queue[1]
      /\ queue' \in Seq(Entities \X (0 .. MaxDepth)) /\ Len(queue') = Len(queue) - 1
      /\ Len(queue) > 0
      /\ \A i \in 1 .. Len(queue) - 1 : queue'[i] = queue[i + 1]
  BY <1>1, TailType
<1>3. Len(queue) \in Nat
  BY <1>1
<1>4. \A i \in 1 .. Len(queue') : queue'[i] = queue[i + 1] /\ i + 1 \in 1 .. Len(queue)
  BY <1>2, <1>3
<1>5. ASSUME NEW i \in 1 .. Len(queue), i # 1
      PROVE  i - 1 \in 1 .. Len(queue') /\ queue'[i - 1] = queue[i]
  <2>1. i - 1 \in 1 .. Len(queue') /\ (i - 1) + 1 = i
    BY <1>2, <1>3, <1>5
  <2>2. QED
    BY <1>4, <2>1
<1>6. Head(queue)[1] \in Entities /\ Head(queue)[2] \in 0 .. MaxDepth
  BY <1>2
<1>7. QED
  BY <1>2, <1>3, <1>4, <1>5, <1>6

\* The entity at the head has been visited: what it covered is covered.
LEMMA SkipKeeps ==
    ASSUME Walk!WalkAssumption, WalkInv, phase = "walking", queue # <<>>, queue' = Tail(queue),
           Head(queue)[1] \in visited, entity = Walk!NoEntity,
           UNCHANGED <<visited, entity, depth, seeds, told>>, NEW D, BfsInv(D)
    PROVE  BfsInv(D)'
<1>1. /\ queue' \in Seq(Entities \X (0 .. MaxDepth)) /\ Len(queue') = Len(queue) - 1
      /\ Len(queue) \in Nat /\ 1 \in 1 .. Len(queue) /\ Head(queue) = queue[1]
      /\ Head(queue)[1] \in Entities /\ Head(queue)[2] \in 0 .. MaxDepth
      /\ \A i \in 1 .. Len(queue') : queue'[i] = queue[i + 1] /\ i + 1 \in 1 .. Len(queue)
      /\ \A i \in 1 .. Len(queue) : i # 1 => i - 1 \in 1 .. Len(queue') /\ queue'[i - 1] = queue[i]
  BY PopQueue
<1>2. Walk!Within' = Walk!Within /\ Seeds' = Seeds
  BY WithinStays DEF Seeds
<1>3. D \in [Entities -> 0 .. MaxDepth] /\ depth \in Nat /\ visited \subseteq Entities
  BY DEF BfsInv, WalkInv, Walk!TypeOK
<1>4. ASSUME NEW o, NEW n \in Nat, Covered(o, n, D) PROVE Covered(o, n, D)'
  <2>1. CASE o \in visited /\ D[o] <= n
    BY <2>1 DEF Covered
  <2>2. CASE \E i \in 1 .. Len(queue) : queue[i][1] = o /\ queue[i][2] <= n
    <3>1. PICK i \in 1 .. Len(queue) : queue[i][1] = o /\ queue[i][2] <= n
      BY <2>2
    <3>2. CASE i = 1
      <4>1. o \in visited /\ D[o] <= depth /\ depth <= queue[1][2] /\ queue[1][2] \in Nat
            /\ D[o] \in Nat /\ queue[1][2] <= n
        BY <1>1, <1>3, <3>1, <3>2 DEF BfsInv
      <4>2. D[o] <= n
        BY <1>3, <4>1
      <4>3. QED
        BY <4>1, <4>2 DEF Covered
    <3>3. CASE i # 1
      BY <1>1, <3>1, <3>3 DEF Covered
    <3>4. QED
      BY <3>2, <3>3
  <2>3. QED
    BY <1>4, <2>1, <2>2 DEF Covered
<1>5. \A v \in visited' : D[v] <= depth' /\ v \in Walk!Within'[D[v]]
  BY <1>2 DEF BfsInv
<1>6. \A i \in 1 .. Len(queue') :
        /\ depth' <= queue'[i][2] /\ queue'[i][2] <= depth' + 1
        /\ queue'[i][1] \in Walk!Within'[queue'[i][2]]
  BY <1>1, <1>2 DEF BfsInv
<1>7. ASSUME NEW i \in 1 .. Len(queue'), NEW j \in 1 .. Len(queue'), i <= j
      PROVE  queue'[i][2] <= queue'[j][2]
  <2>1. i + 1 <= j + 1
    BY <1>7
  <2>2. QED
    BY <1>1, <2>1 DEF BfsInv
<1>8. \A s \in Seeds' : Covered(s, 0, D)'
  BY <1>2, <1>4 DEF BfsInv
<1>9. ASSUME NEW t \in told'
      PROVE  /\ t[1] \in visited'
             /\ D[t[1]] < MaxDepth /\ t[3] \in Valid => Covered(t[3], D[t[1]] + 1, D)'
  <2>1. t[1] \in visited /\ D[t[1]] + 1 \in Nat
    BY <1>3, <1>9 DEF BfsInv
  <2>2. QED
    BY <1>4, <1>9, <2>1 DEF BfsInv
<1>10. QED
  BY <1>3, <1>5, <1>6, <1>7, <1>8, <1>9 DEF BfsInv

\* It is visited now, at its depth in the queue.
LEMMA VisitKeeps ==
    ASSUME Walk!WalkAssumption, WalkInv, phase = "walking", queue # <<>>, queue' = Tail(queue),
           NEW e, NEW d, e = Head(queue)[1], d = Head(queue)[2],
           e \notin visited, visited' = visited \cup {e}, entity' = e, depth' = d,
           UNCHANGED <<seeds, told>>, NEW D, BfsInv(D)
    PROVE  BfsInv([D EXCEPT ![e] = d])'
<1> DEFINE B == [D EXCEPT ![e] = d]
<1>1. /\ queue' \in Seq(Entities \X (0 .. MaxDepth)) /\ Len(queue') = Len(queue) - 1
      /\ Len(queue) \in Nat /\ 1 \in 1 .. Len(queue) /\ Head(queue) = queue[1]
      /\ e \in Entities /\ d \in 0 .. MaxDepth
      /\ \A i \in 1 .. Len(queue') : queue'[i] = queue[i + 1] /\ i + 1 \in 1 .. Len(queue)
      /\ \A i \in 1 .. Len(queue) : i # 1 => i - 1 \in 1 .. Len(queue') /\ queue'[i - 1] = queue[i]
  BY PopQueue
<1>2. Walk!Within' = Walk!Within /\ Seeds' = Seeds
  BY WithinStays DEF Seeds
<1>3. D \in [Entities -> 0 .. MaxDepth] /\ depth \in Nat /\ visited \subseteq Entities
      /\ MaxDepth \in Nat
  BY DEF BfsInv, WalkInv, Walk!TypeOK, Walk!WalkAssumption
<1>4. /\ e \notin visited /\ visited' = visited \cup {e} /\ entity' = e /\ depth' = d
      /\ queue[1][1] = e /\ queue[1][2] = d
  BY <1>1
<1>5. /\ B \in [Entities -> 0 .. MaxDepth] /\ B[e] = d
      /\ \A v \in visited : B[v] = D[v]
  BY <1>1, <1>3, <1>4
<1> HIDE DEF B
<1>6. depth <= d /\ d <= depth + 1 /\ d \in Nat /\ e \in Walk!Within[d]
  BY <1>1, <1>4 DEF BfsInv
<1>7. ASSUME NEW o, NEW n \in Nat, Covered(o, n, D) PROVE Covered(o, n, B)'
  <2>1. CASE o \in visited /\ D[o] <= n
    BY <1>4, <1>5, <2>1 DEF Covered
  <2>2. CASE \E i \in 1 .. Len(queue) : queue[i][1] = o /\ queue[i][2] <= n
    <3>1. PICK i \in 1 .. Len(queue) : queue[i][1] = o /\ queue[i][2] <= n
      BY <2>2
    <3>2. CASE i = 1
      <4>1. o = e /\ d <= n
        BY <1>4, <3>1, <3>2
      <4>2. QED
        BY <1>4, <1>5, <4>1 DEF Covered
    <3>3. CASE i # 1
      BY <1>1, <3>1, <3>3 DEF Covered
    <3>4. QED
      BY <3>2, <3>3
  <2>3. QED
    BY <1>7, <2>1, <2>2 DEF Covered
<1>8. ASSUME NEW v \in visited' PROVE B[v] <= depth' /\ v \in Walk!Within'[B[v]]
  <2>1. CASE v = e
    BY <1>2, <1>4, <1>5, <1>6, <2>1
  <2>2. CASE v # e
    <3>1. v \in visited /\ B[v] = D[v] /\ D[v] <= depth /\ v \in Walk!Within[D[v]] /\ D[v] \in Nat
      BY <1>3, <1>4, <1>5, <1>8, <2>2 DEF BfsInv
    <3>2. D[v] <= d
      BY <1>3, <1>6, <3>1
    <3>3. QED
      BY <1>2, <1>4, <3>1, <3>2
  <2>3. QED
    BY <2>1, <2>2
<1>9. ASSUME NEW i \in 1 .. Len(queue')
      PROVE  /\ depth' <= queue'[i][2] /\ queue'[i][2] <= depth' + 1
             /\ queue'[i][1] \in Walk!Within'[queue'[i][2]]
  <2>1. queue'[i] = queue[i + 1] /\ i + 1 \in 1 .. Len(queue) /\ 1 <= i + 1
    BY <1>1
  <2>2. queue[1][2] <= queue[i + 1][2]
    BY <1>1, <2>1 DEF BfsInv
  <2>3. queue[i + 1][2] <= depth + 1 /\ queue[i + 1][1] \in Walk!Within[queue[i + 1][2]]
    BY <2>1 DEF BfsInv
  <2>4. queue'[i][2] \in Nat
    BY <1>1, <1>3
  <2>5. queue'[i][2] <= d + 1
    BY <1>3, <1>6, <2>1, <2>3, <2>4
  <2>6. QED
    BY <1>2, <1>4, <2>1, <2>2, <2>3, <2>5
<1>10. ASSUME NEW i \in 1 .. Len(queue'), NEW j \in 1 .. Len(queue'), i <= j
       PROVE  queue'[i][2] <= queue'[j][2]
  <2>1. i + 1 <= j + 1
    BY <1>10
  <2>2. QED
    BY <1>1, <2>1 DEF BfsInv
<1>11. \A s \in Seeds' : Covered(s, 0, B)'
  BY <1>2, <1>7 DEF BfsInv
<1>12. ASSUME NEW t \in told'
       PROVE  /\ t[1] \in visited'
              /\ B[t[1]] < MaxDepth /\ t[3] \in Valid => Covered(t[3], B[t[1]] + 1, B)'
  <2>1. t[1] \in visited /\ D[t[1]] + 1 \in Nat /\ B[t[1]] = D[t[1]]
    BY <1>3, <1>5, <1>12 DEF BfsInv
  <2>2. QED
    BY <1>4, <1>7, <1>12, <2>1 DEF BfsInv
<1>13. entity' # Walk!NoEntity => B[entity'] = depth'
  BY <1>4, <1>5
<1>14. BfsInv(B)'
  BY <1>5, <1>8, <1>9, <1>10, <1>11, <1>12, <1>13 DEF BfsInv
<1>15. QED
  BY <1>14 DEF B

LEMMA PopKeeps ==
    ASSUME Walk!WalkAssumption, WalkInv, Walk!Pop
    PROVE  WalkInv'
<1>1. /\ phase = "walking" /\ entity = Walk!NoEntity /\ queue # <<>> /\ queue' = Tail(queue)
      /\ UNCHANGED <<model, seeds, graph, lines, log_tail, garbled, told, had, cuts, split, errors,
                     sessions>>
  BY DEF Walk!Pop, Walk!log, Walk!history
<1>2. PICK D : BfsInv(D)
  BY <1>1 DEF WalkInv
<1>3. PICK e : e = Head(queue)[1]
  OBVIOUS
<1>4. PICK d : d = Head(queue)[2]
  OBVIOUS
<1>5. /\ queue' \in Seq(Entities \X (0 .. MaxDepth))
      /\ e \in Entities /\ d \in 0 .. MaxDepth
  BY <1>1, <1>3, <1>4, PopQueue
<1>6. Walk!Within' = Walk!Within
  BY <1>1, WithinStays
<1>7. LogInv' /\ Walk!Replayed' = Walk!Replayed
  <2>1. Walk!Replayed' = Walk!Replayed
    BY <1>1 DEF Walk!Replayed
  <2>2. LogInv
    BY DEF WalkInv
  <2>3. QED
    BY <1>1, <2>1, <2>2, LogStays
<1>8. /\ Walk!TypeOK /\ IsFiniteSet(visited) /\ left = {}
      /\ visited \subseteq Walk!Within[MaxDepth]
  BY <1>1 DEF WalkInv, Walk!FindsAll
<1>9. CASE e \in visited /\ UNCHANGED <<phase, visited, entity, depth, left>>
  <2>1. BfsInv(D)'
    BY <1>1, <1>2, <1>3, <1>9, SkipKeeps
  <2>2. Walk!TypeOK'
    BY <1>1, <1>5, <1>8, <1>9 DEF Walk!TypeOK
  <2>3. Walk!FindsAll'
    BY <1>1, <1>6, <1>8, <1>9 DEF Walk!FindsAll
  <2>4. QED
    BY <1>1, <1>7, <1>8, <1>9, <2>1, <2>2, <2>3 DEF WalkInv
<1>10. CASE /\ Walk!Cardinality(visited) >= MaxEntities /\ phase' = "done"
            /\ UNCHANGED <<visited, entity, depth, left>>
  <2>1. Walk!Cardinality(visited) = MaxEntities
    BY <1>10, VisitedCount
  <2>2. Walk!TypeOK'
    BY <1>1, <1>5, <1>8, <1>10 DEF Walk!TypeOK
  <2>3. Walk!FindsAll'
    BY <1>6, <1>8, <1>10, <2>1 DEF Walk!FindsAll
  <2>4. QED
    BY <1>1, <1>7, <1>8, <1>10, <2>2, <2>3 DEF WalkInv
<1>11. CASE /\ e \notin visited /\ Walk!Cardinality(visited) < MaxEntities
            /\ visited' = visited \cup {e} /\ entity' = e /\ depth' = d /\ left' = Relations
            /\ phase' = phase
  <2>1. BfsInv([D EXCEPT ![e] = d])'
    BY <1>1, <1>2, <1>3, <1>4, <1>11, VisitKeeps
  <2>2. PICK B : B = [D EXCEPT ![e] = d]
    OBVIOUS
  <2>3. BfsInv(B)'
    BY <2>1, <2>2
  <2>4. IsFiniteSet(visited') /\ Cardinality(visited') = Cardinality(visited) + 1
    BY <1>8, <1>11, FS_AddElement
  <2>5. Walk!Cardinality(visited') <= MaxEntities
    <3>1. Cardinality(visited) < MaxEntities
      BY <1>11, VisitedCount
    <3>2. Cardinality(visited') <= MaxEntities
      BY <2>4, <3>1, VisitedCount
    <3>3. QED
      BY <3>2, WalkOperators
  <2>6. e # Walk!NoEntity
    BY <1>5 DEF Walk!WalkAssumption
  <2>7. Walk!TypeOK'
    BY <1>1, <1>5, <1>8, <1>11, <2>5 DEF Walk!TypeOK
  <2>8. visited' \subseteq Walk!Within'[MaxDepth]
    <3>1. d <= MaxDepth /\ MaxDepth \in 0 .. MaxDepth /\ MaxDepth \in Nat
      BY <1>5 DEF Walk!WalkAssumption
    <3>2. e \in Walk!Within[d]
      BY <1>1, <1>2, <1>3, <1>4, PopQueue DEF BfsInv
    <3>3. Walk!Within[d] \subseteq Walk!Within[MaxDepth]
      BY <1>5, <3>1, WithinFacts, LevelsRise
    <3>4. QED
      BY <1>6, <1>8, <1>11, <3>2, <3>3
  <2>9. Walk!FindsAll'
    BY <1>1, <1>11, <2>8 DEF Walk!FindsAll
  <2>10. QED
    BY <1>1, <1>7, <1>11, <2>3, <2>4, <2>6, <2>7, <2>9 DEF WalkInv
<1>12. QED
  BY <1>3, <1>4, <1>9, <1>10, <1>11 DEF Walk!Pop

LEMMA FinishKeeps ==
    ASSUME Walk!WalkAssumption, WalkInv, Walk!Finish
    PROVE  WalkInv'
<1>1. /\ phase = "walking" /\ queue = <<>> /\ phase' = "done" /\ entity = Walk!NoEntity
      /\ UNCHANGED <<model, seeds, graph, visited, queue, entity, depth, left, lines, log_tail,
                     garbled, told, had, cuts, split, errors, sessions>>
  BY DEF Walk!Finish, Walk!log, Walk!search, Walk!history
<1>2. PICK D : BfsInv(D)
  BY <1>1 DEF WalkInv
<1>3. visited \subseteq Walk!Within[MaxDepth] /\ Walk!Within[MaxDepth] \subseteq visited
  BY <1>1, <1>2, BfsVisits DEF WalkInv
<1>4. Walk!Within' = Walk!Within /\ Walk!Replayed' = Walk!Replayed
  BY <1>1, WithinStays DEF Walk!Replayed
<1>5. Walk!FindsAll'
  BY <1>1, <1>3, <1>4 DEF Walk!FindsAll
<1>6. Walk!TypeOK'
  BY <1>1 DEF WalkInv, Walk!TypeOK
<1>7. LogInv'
  BY <1>1, LogStays DEF WalkInv
<1>8. QED
  BY <1>1, <1>5, <1>6, <1>7 DEF WalkInv

----------------------------------------------------------------------------
\* An answer leads on: what it names waits behind all that wait already.
LEMMA AnswerBfs ==
    ASSUME Walk!WalkAssumption, WalkInv, phase = "walking", entity # Walk!NoEntity,
           NEW o \in Entities, NEW t, t[1] = entity, t[3] = o,
           queue' = IF o \notin visited /\ depth < MaxDepth /\ o \in Valid
                    THEN Append(queue, <<o, depth + 1>>) ELSE queue,
           told' = told \cup {t}, UNCHANGED <<visited, entity, depth, seeds>>,
           NEW D, BfsInv(D)
    PROVE  BfsInv(D)' /\ queue' \in Seq(Entities \X (0 .. MaxDepth))
<1>1. /\ D \in [Entities -> 0 .. MaxDepth] /\ depth \in 0 .. MaxDepth /\ visited \subseteq Entities
      /\ MaxDepth \in Nat /\ queue \in Seq(Entities \X (0 .. MaxDepth))
      /\ entity \in visited /\ D[entity] = depth /\ depth \in Nat
  BY DEF BfsInv, WalkInv, Walk!TypeOK, Walk!WalkAssumption
<1> DEFINE new == o \notin visited /\ depth < MaxDepth /\ o \in Valid
           last == <<o, depth + 1>>
<1>2. ASSUME new
      PROVE  /\ queue' = Append(queue, last) /\ depth + 1 \in 0 .. MaxDepth
             /\ queue' \in Seq(Entities \X (0 .. MaxDepth)) /\ Len(queue') = Len(queue) + 1
             /\ queue'[Len(queue) + 1] = last /\ Len(queue) + 1 \in 1 .. Len(queue')
             /\ \A i \in 1 .. Len(queue) : queue'[i] = queue[i] /\ i \in 1 .. Len(queue')
  <2>1. queue' = Append(queue, last) /\ depth + 1 \in 0 .. MaxDepth
    BY <1>1, <1>2
  <2>2. last \in Entities \X (0 .. MaxDepth)
    BY <2>1
  <2> HIDE DEF last
  <2>3. QED
    BY <1>1, <2>1, <2>2
<1>3. ASSUME ~ new PROVE queue' = queue
  BY <1>3
<1>4. queue' \in Seq(Entities \X (0 .. MaxDepth))
  <2> HIDE DEF new
  <2>1. QED
    BY <1>1, <1>2, <1>3
<1>5. Len(queue) \in Nat /\ \A i \in 1 .. Len(queue) : queue[i][2] \in Nat /\ queue[i][2] \in 0 .. MaxDepth
  <2> DEFINE E == Entities \X (0 .. MaxDepth)
  <2>1. queue \in Seq(E)
    BY <1>1
  <2>2. \A p \in E : p[2] \in Nat /\ p[2] \in 0 .. MaxDepth
    BY <1>1
  <2> HIDE DEF E
  <2>3. Len(queue) \in Nat /\ \A i \in 1 .. Len(queue) : queue[i] \in E
    BY <2>1
  <2>4. QED
    BY <2>2, <2>3
<1>6. \A n \in 0 .. MaxDepth : Walk!Within[n] \subseteq Walk!Within'[n]
  <2>1. \E g : LevelsOf(g, Seeds', told', MaxDepth)
    BY <1>1, LevelsExist
  <2>2. Walk!Within' = CHOOSE g : LevelsOf(g, Seeds', told', MaxDepth)
    BY DEF Walk!Within, LevelsOf, Onward, Seeds
  <2>3. LevelsOf(Walk!Within', Seeds', told', MaxDepth)
    BY <2>1, <2>2
  <2>4. Seeds' = Seeds /\ told \subseteq told'
    BY DEF Seeds
  <2>5. QED
    BY <1>1, <2>3, <2>4, WithinFacts, LevelsGrow
<1>7. ASSUME new PROVE o \in Walk!Within'[depth + 1]
  <2>1. \E g : LevelsOf(g, Seeds', told', MaxDepth)
    BY <1>1, LevelsExist
  <2>2. Walk!Within' = CHOOSE g : LevelsOf(g, Seeds', told', MaxDepth)
    BY DEF Walk!Within, LevelsOf, Onward, Seeds
  <2>3. LevelsOf(Walk!Within', Seeds', told', MaxDepth)
    BY <2>1, <2>2
  <2>4. depth + 1 \in 0 .. MaxDepth /\ depth + 1 # 0 /\ (depth + 1) - 1 = depth
    BY <1>1, <1>2, <1>7
  <2>5. Walk!Within'[depth + 1] = Walk!Within'[depth] \cup Onward(Walk!Within'[depth], told')
    BY <1>1, <2>3, <2>4, LevelFacts
  <2>6. entity \in Walk!Within[depth]
    BY <1>1 DEF BfsInv
  <2>7. entity \in Walk!Within'[depth] /\ t \in told'
    BY <1>1, <1>6, <2>6
  <2>8. o \in Onward(Walk!Within'[depth], told')
    BY <1>7, <2>7 DEF Onward
  <2>9. QED
    BY <2>5, <2>8
<1> HIDE DEF new
<1>8. ASSUME NEW x, NEW n, Covered(x, n, D) PROVE Covered(x, n, D)'
  <2>1. CASE x \in visited /\ D[x] <= n
    BY <2>1 DEF Covered
  <2>2. CASE \E i \in 1 .. Len(queue) : queue[i][1] = x /\ queue[i][2] <= n
    <3>1. PICK i \in 1 .. Len(queue) : queue[i][1] = x /\ queue[i][2] <= n
      BY <2>2
    <3>2. i \in 1 .. Len(queue') /\ queue'[i] = queue[i]
      BY <1>2, <1>3
    <3>3. QED
      BY <3>1, <3>2 DEF Covered
  <2>3. QED
    BY <1>8, <2>1, <2>2 DEF Covered
<1>9. ASSUME NEW v \in visited' PROVE D[v] <= depth' /\ v \in Walk!Within'[D[v]]
  <2>1. v \in visited /\ D[v] <= depth /\ v \in Walk!Within[D[v]] /\ D[v] \in 0 .. MaxDepth
    BY <1>1, <1>9 DEF BfsInv
  <2>2. QED
    BY <1>6, <2>1
<1>10. ASSUME NEW i \in 1 .. Len(queue')
       PROVE  /\ depth' <= queue'[i][2] /\ queue'[i][2] <= depth' + 1
              /\ queue'[i][1] \in Walk!Within'[queue'[i][2]]
  <2>1. CASE i \in 1 .. Len(queue)
    <3>1. queue'[i] = queue[i]
      BY <1>2, <1>3, <2>1
    <3>2. /\ depth <= queue[i][2] /\ queue[i][2] <= depth + 1
          /\ queue[i][1] \in Walk!Within[queue[i][2]]
      BY <2>1 DEF BfsInv
    <3>3. queue[i][1] \in Walk!Within'[queue[i][2]]
      BY <1>5, <1>6, <2>1, <3>2
    <3>4. QED
      BY <3>1, <3>2, <3>3
  <2>2. CASE i \notin 1 .. Len(queue)
    <3>1. new /\ i = Len(queue) + 1
      BY <1>2, <1>3, <1>5, <2>2
    <3>2. queue'[i][1] = o /\ queue'[i][2] = depth + 1
      BY <1>2, <3>1
    <3>3. QED
      BY <1>1, <1>7, <3>1, <3>2
  <2>3. QED
    BY <2>1, <2>2
<1>11. ASSUME NEW i \in 1 .. Len(queue'), NEW j \in 1 .. Len(queue'), i <= j
       PROVE  queue'[i][2] <= queue'[j][2]
  <2>1. CASE j \in 1 .. Len(queue)
    <3>1. i \in 1 .. Len(queue)
      BY <1>5, <1>11, <2>1
    <3>2. queue'[i] = queue[i] /\ queue'[j] = queue[j]
      BY <1>2, <1>3, <2>1, <3>1
    <3>3. QED
      BY <1>11, <2>1, <3>1, <3>2 DEF BfsInv
  <2>2. CASE j \notin 1 .. Len(queue)
    <3>1. new /\ j = Len(queue) + 1
      BY <1>2, <1>3, <1>5, <2>2
    <3>2. queue'[j][2] = depth + 1
      BY <1>2, <3>1
    <3>3. QED
      BY <1>10, <3>2
  <2>3. QED
    BY <2>1, <2>2
<1>12. \A s \in Seeds' : Covered(s, 0, D)'
  BY <1>8 DEF BfsInv, Seeds
<1>13. ASSUME NEW u \in told'
       PROVE  /\ u[1] \in visited'
              /\ D[u[1]] < MaxDepth /\ u[3] \in Valid => Covered(u[3], D[u[1]] + 1, D)'
  <2>1. CASE u \in told
    BY <1>8, <2>1 DEF BfsInv
  <2>2. CASE u = t
    <3>1. u[1] = entity /\ u[3] = o /\ D[u[1]] = depth
      BY <1>1, <2>2
    <3>2. ASSUME depth < MaxDepth, o \in Valid PROVE Covered(o, depth + 1, D)'
      <4>1. CASE o \in visited
        <5>1. D[o] <= depth /\ D[o] \in Nat
          BY <1>1, <4>1 DEF BfsInv
        <5>2. D[o] <= depth + 1
          BY <1>1, <5>1
        <5>3. QED
          BY <4>1, <5>2 DEF Covered
      <4>2. CASE o \notin visited
        <5>1. new
          BY <3>2, <4>2 DEF new
        <5>2. /\ Len(queue) + 1 \in 1 .. Len(queue') /\ queue'[Len(queue) + 1][1] = o
              /\ queue'[Len(queue) + 1][2] = depth + 1 /\ depth + 1 <= depth + 1
          BY <1>1, <1>2, <5>1
        <5>3. QED
          BY <5>2 DEF Covered
      <4>3. QED
        BY <4>1, <4>2
    <3>3. QED
      BY <1>1, <3>1, <3>2
  <2>3. QED
    BY <1>13, <2>1, <2>2
<1>14. entity' # Walk!NoEntity => D[entity'] = depth'
  BY <1>1
<1>15. BfsInv(D)'
  BY <1>1, <1>9, <1>10, <1>11, <1>12, <1>13, <1>14 DEF BfsInv
<1>16. QED
  BY <1>4, <1>15

\* A set with one more element has one more at most.
LEMMA OneMore ==
    ASSUME NEW S, IsFiniteSet(S), NEW x, NEW T, T \subseteq S \cup {x}
    PROVE  /\ IsFiniteSet(T) /\ Cardinality(T) \in Nat /\ Cardinality(S) \in Nat
           /\ Cardinality(T) <= Cardinality(S) + 1
<1>1. /\ IsFiniteSet(S \cup {x})
      /\ Cardinality(S \cup {x}) = IF x \in S THEN Cardinality(S) ELSE Cardinality(S) + 1
  BY FS_AddElement
<1>2. IsFiniteSet(T) /\ Cardinality(T) <= Cardinality(S \cup {x})
  BY <1>1, FS_Subset
<1>3. Cardinality(T) \in Nat /\ Cardinality(S) \in Nat
  BY <1>2, FS_CardinalityType
<1>4. QED
  BY <1>1, <1>2, <1>3

\* What an append makes of the edges that are lacking, the end of the line written or
\* not: the edge that is appended may join them, and the one before it that was whole
\* but for its end.
LEMMA TailLost ==
    ASSUME log_tail \in Walk!Tails, IsFiniteSet(Lacking), NEW e, NEW T,
           T \subseteq (had \cup {e}) \ lines
    PROVE  /\ IsFiniteSet(T) /\ Cardinality(T) \in Nat /\ Cardinality(Lacking) \in Nat
           /\ Cardinality(T) <= Cardinality(Lacking) + 2
           /\ log_tail.kind # "whole" => Cardinality(T) <= Cardinality(Lacking) + 1
<1>1. PICK f : f = log_tail.edge
  OBVIOUS
<1>2. Walk!Replayed = lines \cup (IF log_tail.kind = "whole" THEN {f} ELSE {})
  BY <1>1, ReplayedFacts
<1> DEFINE U == Lacking \cup {e}
<1>3. IsFiniteSet(U) /\ Cardinality(U) <= Cardinality(Lacking) + 1 /\ Cardinality(U) \in Nat
      /\ Cardinality(Lacking) \in Nat
  BY OneMore
<1>4. T \subseteq U \cup {f}
  BY <1>2 DEF Lacking
<1>5. ASSUME log_tail.kind # "whole" PROVE T \subseteq Lacking \cup {e}
  BY <1>2, <1>5 DEF Lacking
<1> HIDE DEF U
<1>6. IsFiniteSet(T) /\ Cardinality(T) \in Nat /\ Cardinality(T) <= Cardinality(U) + 1
  BY <1>3, <1>4, OneMore
<1>7. ASSUME log_tail.kind # "whole" PROVE Cardinality(T) <= Cardinality(Lacking) + 1
  BY <1>5, <1>7, OneMore
<1>8. QED
  BY <1>3, <1>6, <1>7

\* A new edge is appended: behind a cut line the two are lost together.
LEMMA AppendKeeps ==
    ASSUME LogInv, log_tail \in Walk!Tails, lines \subseteq Walk!Edges, garbled \in BOOLEAN,
           cuts \in Nat, NEW e \in Walk!Edges, graph' = graph \cup {e}, had' = had \cup {e},
           Walk!Logged(e), UNCHANGED <<cuts, split>>
    PROVE  LogInv' /\ log_tail' \in Walk!Tails /\ lines' \subseteq Walk!Edges /\ garbled' \in BOOLEAN
<1>1. /\ lines' = IF log_tail = Walk!NoTail THEN lines \cup {e} ELSE lines
      /\ garbled' = (garbled \/ log_tail = Walk!Garbage)
      /\ log_tail' = Walk!NoTail
  BY DEF Walk!Logged
<1>2. log_tail' \in Walk!Tails /\ lines' \subseteq Walk!Edges /\ garbled' \in BOOLEAN
  BY <1>1 DEF Walk!Tails
<1>3. Walk!Replayed' = lines' /\ Debt' = 0
  BY <1>1, TailKinds DEF Walk!Replayed, Debt
<1>4. Walk!Readable' <=> Walk!Readable
  BY <1>1, TailKinds DEF Walk!Readable
<1>5. /\ graph' \subseteq had' /\ Walk!Replayed' \subseteq had' /\ lines \subseteq Walk!Replayed
      /\ IsFiniteSet(Lacking)
  BY <1>1, <1>3, ReplayedFacts DEF LogInv
<1>6. Lacking' = (had \cup {e}) \ lines'
  BY <1>3 DEF Lacking
<1>7. CASE log_tail = Walk!NoTail
  <2>1. Lacking' \subseteq Lacking
    BY <1>1, <1>6, <1>7, ReplayedFacts DEF Lacking
  <2>2. IsFiniteSet(Lacking') /\ Cardinality(Lacking') <= Cardinality(Lacking)
    BY <1>5, <2>1, FS_Subset
  <2>3. Debt = 0
    BY <1>7, TailKinds DEF Debt
  <2>4. Cardinality(Lacking') \in Nat /\ Cardinality(Lacking) \in Nat
    BY <1>5, <2>2, FS_CardinalityType
  <2>5. Walk!Readable' => Cardinality(Lacking') + Debt' <= 2 * cuts'
    BY <1>3, <1>4, <2>2, <2>3, <2>4 DEF LogInv
  <2>6. QED
    BY <1>2, <1>4, <1>5, <2>2, <2>5 DEF LogInv
<1>8. CASE log_tail # Walk!NoTail
  <2>1. /\ IsFiniteSet(Lacking') /\ Cardinality(Lacking') \in Nat /\ Cardinality(Lacking) \in Nat
        /\ Cardinality(Lacking') <= Cardinality(Lacking) + 2
        /\ log_tail.kind # "whole" => Cardinality(Lacking') <= Cardinality(Lacking) + 1
    BY <1>1, <1>5, <1>6, <1>8, TailLost
  <2>2. Debt = IF log_tail.kind = "torn" THEN 1 ELSE 2
    BY <1>8, TailKinds DEF Debt
  <2>3. log_tail.kind \in {"torn", "garbage", "whole"}
    BY <1>8, TailKinds
  <2>4. Walk!Readable' => Cardinality(Lacking') + Debt' <= 2 * cuts'
    BY <1>3, <1>4, <2>1, <2>2, <2>3 DEF LogInv
  <2>5. QED
    BY <1>2, <1>4, <1>5, <2>1, <2>4 DEF LogInv
<1>9. QED
  BY <1>7, <1>8

\* An append is cut: what it leaves is paid for by the count.
LEMMA CutKeeps ==
    ASSUME LogInv, log_tail \in Walk!Tails, garbled \in BOOLEAN, split \in BOOLEAN, cuts \in Nat,
           NEW e \in Walk!Edges, graph' \subseteq graph \cup {e}, had' = had \cup {e},
           Walk!CutAppend(e)
    PROVE  /\ LogInv' /\ log_tail' \in Walk!Tails /\ UNCHANGED <<lines, garbled>>
           /\ cuts' \in Nat /\ split' \in BOOLEAN
<1>1. /\ log_tail' \in Walk!CutTails(e) /\ cuts' = cuts + 1
      /\ split' = (split \/ log_tail' = Walk!Garbage) /\ UNCHANGED <<lines, garbled>>
  BY DEF Walk!CutAppend
<1>2. log_tail' \in Walk!Tails /\ cuts' \in Nat /\ split' \in BOOLEAN
  BY <1>1 DEF Walk!CutTails, Walk!Tails
<1>3. \/ log_tail' = log_tail
      \/ log_tail # Walk!Garbage /\ log_tail' = Walk!Torn
      \/ log_tail' = Walk!Garbage
      \/ log_tail = Walk!NoTail /\ log_tail' = Walk!Whole(e)
  BY <1>1 DEF Walk!CutTails
<1>4. /\ graph' \subseteq had' /\ IsFiniteSet(Lacking) /\ lines \subseteq Walk!Replayed
      /\ Walk!Replayed \subseteq had
  BY ReplayedFacts DEF LogInv
<1>5. /\ Walk!Replayed' = lines \cup (IF log_tail'.kind = "whole" THEN {log_tail'.edge} ELSE {})
      /\ lines \subseteq Walk!Replayed'
  BY <1>1 DEF Walk!Replayed
<1>6. Lacking' \subseteq (had \cup {e}) \ lines /\ Lacking' = (had \cup {e}) \ Walk!Replayed'
  BY <1>5 DEF Lacking
<1>7. /\ IsFiniteSet(Lacking') /\ Cardinality(Lacking') \in Nat /\ Cardinality(Lacking) \in Nat
      /\ Cardinality(Lacking') <= Cardinality(Lacking) + 2
      /\ log_tail.kind # "whole" => Cardinality(Lacking') <= Cardinality(Lacking) + 1
  BY <1>4, <1>6, TailLost
<1>8. CASE log_tail' = log_tail
  <2>1. Walk!Replayed' = Walk!Replayed /\ Debt' = Debt
    BY <1>1, <1>8 DEF Walk!Replayed, Debt
  <2>2. Walk!Readable' = Walk!Readable /\ (Walk!Readable' <=> ~split')
    BY <1>1, <1>8 DEF Walk!Readable, LogInv
  <2>3. Cardinality(Lacking') <= Cardinality(Lacking) + 1
    <3>1. Lacking' \subseteq Lacking \cup {e}
      BY <1>6, <2>1 DEF Lacking
    <3>2. QED
      BY <1>4, <3>1, OneMore
  <2>4. Debt \in Nat
    BY DEF Debt
  <2>5. Walk!Readable' => Cardinality(Lacking') + Debt' <= 2 * cuts'
    BY <1>1, <1>7, <2>1, <2>2, <2>3, <2>4 DEF LogInv
  <2>6. QED
    BY <1>1, <1>2, <1>4, <1>7, <2>1, <2>2, <2>5 DEF LogInv
<1>9. CASE log_tail # Walk!Garbage /\ log_tail' = Walk!Torn
  <2>1. Debt' = 1 /\ Walk!Replayed' = lines /\ Walk!Torn # Walk!Garbage
    BY <1>5, <1>9, TailKinds DEF Debt
  <2>2. Walk!Readable' = Walk!Readable /\ (Walk!Readable' <=> ~split')
    BY <1>1, <1>9, <2>1 DEF Walk!Readable, LogInv
  <2>3. Debt \in Nat /\ (log_tail.kind = "whole" => Debt = 2)
    BY DEF Debt
  <2>4. Walk!Readable' => Cardinality(Lacking') + Debt' <= 2 * cuts'
    BY <1>1, <1>7, <2>1, <2>2, <2>3 DEF LogInv
  <2>5. QED
    BY <1>1, <1>2, <1>4, <1>7, <2>1, <2>2, <2>4 DEF LogInv
<1>10. CASE log_tail' = Walk!Garbage
  <2>1. Walk!Replayed' = lines /\ ~Walk!Readable' /\ split'
    BY <1>1, <1>5, <1>10, TailKinds DEF Walk!Readable
  <2>2. QED
    BY <1>1, <1>2, <1>4, <1>7, <2>1 DEF LogInv
<1>11. CASE log_tail = Walk!NoTail /\ log_tail' = Walk!Whole(e)
  <2>1. /\ Walk!Replayed' = lines \cup {e} /\ Walk!Replayed = lines /\ Debt' = 2 /\ Debt = 0
        /\ Walk!NoTail # Walk!Garbage /\ Walk!Whole(e) # Walk!Garbage
    BY <1>5, <1>11, ReplayedFacts, TailKinds DEF Debt
  <2>2. Walk!Readable' = Walk!Readable /\ (Walk!Readable' <=> ~split')
    BY <1>1, <1>11, <2>1 DEF Walk!Readable, LogInv
  <2>3. Lacking' \subseteq Lacking
    BY <1>6, <2>1 DEF Lacking
  <2>4. Cardinality(Lacking') <= Cardinality(Lacking)
    BY <1>4, <2>3, FS_Subset
  <2>5. Walk!Readable' => Cardinality(Lacking') + Debt' <= 2 * cuts'
    BY <1>1, <1>7, <2>1, <2>2, <2>4 DEF LogInv
  <2>6. QED
    BY <1>1, <1>2, <1>4, <1>7, <2>1, <2>2, <2>5 DEF LogInv
<1>12. QED
  BY <1>3, <1>8, <1>9, <1>10, <1>11

LEMMA AnswerKeeps ==
    ASSUME Walk!WalkAssumption, WalkInv, NEW r \in Relations, Walk!Answer(r)
    PROVE  WalkInv'
<1>1. PICK o : o = model[entity, r]
  OBVIOUS
<1>2. PICK e : e = <<entity, r, o>>
  OBVIOUS
<1>3. /\ r \in left /\ o # Nothing /\ left' = left \ {r}
      /\ told' = told \cup {e} /\ queue' = Walk!Pushed(o)
      /\ graph' = graph \cup {e} /\ had' = had \cup {e}
      /\ UNCHANGED <<model, seeds, phase, visited, entity, depth, sessions>>
  BY <1>1, <1>2 DEF Walk!Answer
<1>4. \/ e \in graph /\ UNCHANGED <<lines, log_tail, garbled, cuts, split, errors>>
      \/ Walk!Logged(e) /\ UNCHANGED <<cuts, split, errors>>
      \/ Walk!CutAppend(e) /\ errors < MaxErrors /\ errors' = errors + 1
  BY <1>1, <1>2 DEF Walk!Answer, Walk!log
<1>5. /\ Walk!TypeOK /\ IsFiniteSet(visited) /\ LogInv /\ Walk!FindsAll
      /\ entity # Walk!NoEntity /\ phase = "walking"
  BY <1>3 DEF WalkInv
<1>6. entity \in Entities /\ o \in Entities /\ e \in Walk!Edges
  <2>1. entity \in Entities /\ model \in [Entities \X Relations -> Entities \cup {Nothing}]
    BY <1>5 DEF Walk!TypeOK, Walk!WalkAssumption
  <2>2. o \in Entities
    BY <1>1, <1>3, <2>1
  <2>3. QED
    BY <1>2, <2>1, <2>2 DEF Walk!Edges
<1>7. e[1] = entity /\ e[3] = o
  BY <1>2
<1>8. PICK D : BfsInv(D)
  BY <1>5 DEF WalkInv
<1>9. queue' = IF o \notin visited /\ depth < MaxDepth /\ o \in Valid
               THEN Append(queue, <<o, depth + 1>>) ELSE queue
  BY <1>3 DEF Walk!Pushed
<1>10. BfsInv(D)' /\ queue' \in Seq(Entities \X (0 .. MaxDepth))
  BY <1>3, <1>5, <1>6, <1>7, <1>8, <1>9, AnswerBfs
<1>11. /\ LogInv' /\ log_tail' \in Walk!Tails /\ lines' \subseteq Walk!Edges
       /\ garbled' \in BOOLEAN /\ cuts' \in Nat /\ split' \in BOOLEAN /\ errors' \in 0 .. MaxErrors
  <2>1. /\ log_tail \in Walk!Tails /\ lines \subseteq Walk!Edges /\ garbled \in BOOLEAN
        /\ cuts \in Nat /\ split \in BOOLEAN /\ errors \in 0 .. MaxErrors /\ MaxErrors \in Nat
    BY <1>5 DEF Walk!TypeOK, Walk!WalkAssumption
  <2>2. CASE e \in graph /\ UNCHANGED <<lines, log_tail, garbled, cuts, split, errors>>
    <3>1. graph' = graph /\ had' = had
      BY <1>3, <1>5, <2>2 DEF LogInv
    <3>2. QED
      BY <1>5, <2>1, <2>2, <3>1, LogStays
  <2>3. CASE Walk!Logged(e) /\ UNCHANGED <<cuts, split, errors>>
    BY <1>3, <1>5, <1>6, <2>1, <2>3, AppendKeeps
  <2>4. CASE Walk!CutAppend(e) /\ errors < MaxErrors /\ errors' = errors + 1
    <3>1. /\ LogInv' /\ log_tail' \in Walk!Tails /\ UNCHANGED <<lines, garbled>>
          /\ cuts' \in Nat /\ split' \in BOOLEAN
      BY <1>3, <1>5, <1>6, <2>1, <2>4, CutKeeps
    <3>2. QED
      BY <2>1, <2>4, <3>1
  <2>5. QED
    BY <1>4, <2>2, <2>3, <2>4
<1>12. Walk!TypeOK'
  <2>1. /\ graph' \subseteq Walk!Edges /\ had' \subseteq Walk!Edges /\ told' \subseteq graph'
    BY <1>3, <1>5, <1>6 DEF Walk!TypeOK
  <2>2. QED
    BY <1>3, <1>5, <1>10, <1>11, <2>1 DEF Walk!TypeOK
<1>13. Walk!FindsAll'
  <2>1. Walk!WalkAssumption
    OBVIOUS
  <2>2. \A x \in 0 .. MaxDepth : Walk!Within[x] \subseteq Walk!Within'[x]
    <3>1. \E g : LevelsOf(g, Seeds', told', MaxDepth)
      BY LevelsExist DEF Walk!WalkAssumption
    <3>2. Walk!Within' = CHOOSE g : LevelsOf(g, Seeds', told', MaxDepth)
      BY DEF Walk!Within, LevelsOf, Onward, Seeds
    <3>3. LevelsOf(Walk!Within', Seeds', told', MaxDepth)
      BY <3>1, <3>2
    <3>4. Seeds' = Seeds /\ told \subseteq told' /\ MaxDepth \in Nat
      BY <1>3 DEF Seeds, Walk!WalkAssumption
    <3>5. QED
      BY <3>3, <3>4, WithinFacts, LevelsGrow
  <2>3. MaxDepth \in 0 .. MaxDepth
    BY DEF Walk!WalkAssumption
  <2>4. QED
    BY <1>3, <1>5, <2>2, <2>3 DEF Walk!FindsAll
<1>14. QED
  BY <1>3, <1>5, <1>10, <1>11, <1>12, <1>13 DEF WalkInv

\* Neither the queue nor what was visited nor the log changes.
LEMMA QuietKeeps ==
    ASSUME Walk!WalkAssumption, WalkInv, phase = "walking", left' \subseteq left,
           errors' \in 0 .. MaxErrors,
           entity' = entity \/ (entity' = Walk!NoEntity /\ left' = {}),
           UNCHANGED <<model, seeds, phase, graph, visited, queue, depth, lines, log_tail,
                       garbled, told, had, cuts, split, sessions>>
    PROVE  WalkInv'
<1>1. PICK D : BfsInv(D)
  BY DEF WalkInv
<1>2. Walk!Within' = Walk!Within /\ Seeds' = Seeds /\ Walk!Replayed' = Walk!Replayed
  BY WithinStays DEF Seeds, Walk!Replayed
<1>3. \A o, n : Covered(o, n, D)' <=> Covered(o, n, D)
  BY DEF Covered
<1>4. BfsInv(D)'
  BY <1>1, <1>2, <1>3 DEF BfsInv
<1>5. Walk!TypeOK'
  BY DEF WalkInv, Walk!TypeOK
<1>6. Walk!FindsAll'
  BY <1>2 DEF WalkInv, Walk!FindsAll
<1>7. LogInv'
  BY LogStays DEF WalkInv
<1>8. QED
  BY <1>4, <1>5, <1>6, <1>7 DEF WalkInv

LEMMA WalkDieKeeps ==
    ASSUME Walk!WalkAssumption, WalkInv, Walk!Die
    PROVE  WalkInv'
<1>1. /\ phase' = "closed" /\ graph' = {} /\ told' = {} /\ queue' = <<>> /\ visited' = {}
      /\ entity' = Walk!NoEntity /\ depth' = 0 /\ left' = {}
      /\ UNCHANGED <<model, seeds, errors, sessions>>
  BY DEF Walk!Die
<1>2. /\ LogInv' /\ log_tail' \in Walk!Tails /\ UNCHANGED <<lines, garbled>>
      /\ cuts' \in Nat /\ split' \in BOOLEAN /\ had' \subseteq Walk!Edges
  <2>1. /\ log_tail \in Walk!Tails /\ garbled \in BOOLEAN /\ cuts \in Nat /\ split \in BOOLEAN
        /\ had \subseteq Walk!Edges /\ LogInv
    BY DEF WalkInv, Walk!TypeOK
  <2>2. CASE UNCHANGED <<Walk!log, had, cuts, split>>
    <3>1. UNCHANGED <<lines, log_tail, garbled, had, cuts, split>>
      BY <2>2 DEF Walk!log
    <3>2. Lacking' = Lacking /\ Debt' = Debt /\ Walk!Readable' = Walk!Readable
          /\ Walk!Replayed' = Walk!Replayed
      BY <3>1 DEF Lacking, Debt, Walk!Readable, Walk!Replayed
    <3>3. QED
      BY <1>1, <2>1, <3>1, <3>2 DEF LogInv
  <2>3. CASE \E r \in left :
               LET e == <<entity, r, model[entity, r]>>
               IN  /\ entity # Walk!NoEntity /\ model[entity, r] # Nothing /\ e \notin graph
                   /\ Walk!CutAppend(e)
                   /\ had' = had \cup {e}
    <3>1. PICK r \in left :
               LET e == <<entity, r, model[entity, r]>>
               IN  /\ entity # Walk!NoEntity /\ model[entity, r] # Nothing /\ e \notin graph
                   /\ Walk!CutAppend(e)
                   /\ had' = had \cup {e}
      BY <2>3
    <3>2. PICK e : e = <<entity, r, model[entity, r]>>
      OBVIOUS
    <3>3. /\ entity \in Entities /\ r \in Relations
          /\ model \in [Entities \X Relations -> Entities \cup {Nothing}]
      BY <3>1 DEF WalkInv, Walk!TypeOK, Walk!WalkAssumption
    <3>4. model[entity, r] \in Entities
      BY <3>1, <3>3
    <3>5. e \in Walk!Edges
      BY <3>2, <3>3, <3>4 DEF Walk!Edges
    <3>6. Walk!CutAppend(e) /\ had' = had \cup {e} /\ graph' \subseteq graph \cup {e}
      BY <1>1, <3>1, <3>2
    <3>7. QED
      BY <2>1, <3>5, <3>6, CutKeeps
  <2>4. QED
    BY <2>2, <2>3 DEF Walk!Die
<1>3. Walk!Cardinality(visited') <= MaxEntities /\ IsFiniteSet(visited')
  BY <1>1, WalkOperators, FS_EmptySet DEF Walk!WalkAssumption
<1>4. Walk!TypeOK'
  <2>1. queue' \in Seq(Entities \X (0 .. MaxDepth)) /\ 0 \in 0 .. MaxDepth
    BY <1>1 DEF Walk!WalkAssumption
  <2>2. Walk!TypeOK
    BY DEF WalkInv
  <2>3. QED
    BY <1>1, <1>2, <1>3, <2>1, <2>2 DEF Walk!TypeOK
<1>5. Walk!FindsAll'
  BY <1>1 DEF Walk!FindsAll
<1>6. QED
  BY <1>1, <1>2, <1>3, <1>4, <1>5 DEF WalkInv

LEMMA WalkStays ==
    ASSUME WalkInv, UNCHANGED Walk!vars
    PROVE  WalkInv'
<1>1. UNCHANGED <<model, seeds, phase, graph, visited, queue, entity, depth, left, lines,
                  log_tail, garbled, told, had, cuts, split, errors, sessions>>
  BY DEF Walk!vars, Walk!search, Walk!log, Walk!history
<1>2. Walk!Within' = Walk!Within /\ Seeds' = Seeds /\ Walk!Replayed' = Walk!Replayed
  BY <1>1, WithinStays DEF Seeds, Walk!Replayed
<1>3. \A o, n, D : Covered(o, n, D)' <=> Covered(o, n, D)
  BY <1>1 DEF Covered
<1>4. \A D : BfsInv(D) => BfsInv(D)'
  BY <1>1, <1>2, <1>3 DEF BfsInv
<1>5. Walk!TypeOK'
  BY <1>1 DEF WalkInv, Walk!TypeOK
<1>6. Walk!FindsAll'
  BY <1>1, <1>2 DEF WalkInv, Walk!FindsAll
<1>7. LogInv'
  BY <1>1, LogStays DEF WalkInv
<1>8. QED
  BY <1>1, <1>4, <1>5, <1>6, <1>7 DEF WalkInv

LEMMA WalkInvAlways == ProgramsSpec => []WalkInv
<1> USE ProgramsAssumption
<1>1. Walk!Init => WalkInv
  BY WalkStart
<1>2. WalkInv /\ [Walk!Next]_(Walk!vars) => WalkInv'
  <2> SUFFICES ASSUME WalkInv, [Walk!Next]_(Walk!vars) PROVE WalkInv'
    OBVIOUS
  <2>1. CASE Walk!Begin
    BY <2>1, BeginWalkKeeps
  <2>2. CASE Walk!Pop
    BY <2>2, PopKeeps
  <2>3. CASE Walk!Finish
    BY <2>3, FinishKeeps
  <2>4. CASE Walk!Leave
    <3>1. errors \in 0 .. MaxErrors
      BY DEF WalkInv, Walk!TypeOK
    <3>2. QED
      BY <2>4, <3>1, QuietKeeps DEF Walk!Leave, Walk!log, Walk!history
  <2>5. CASE Walk!Die
    BY <2>5, WalkDieKeeps
  <2>6. CASE \E r \in Relations : Walk!Answer(r)
    BY <2>6, AnswerKeeps
  <2>7. CASE \E r \in Relations : Walk!NoAnswer(r)
    <3>1. PICK r \in Relations : Walk!NoAnswer(r)
      BY <2>7
    <3>2. phase = "walking"
      BY <3>1 DEF WalkInv, Walk!NoAnswer
    <3>3. /\ left' = left \ {r}
          /\ (errors' = errors \/ (errors < MaxErrors /\ errors' = errors + 1))
          /\ UNCHANGED <<model, seeds, phase, graph, visited, queue, entity, depth, lines,
                         log_tail, garbled, told, had, cuts, split, sessions>>
      BY <3>1 DEF Walk!NoAnswer, Walk!log, Walk!history
    <3>4. errors \in 0 .. MaxErrors /\ MaxErrors \in Nat
      BY DEF WalkInv, Walk!TypeOK, Walk!WalkAssumption
    <3>5. errors' \in 0 .. MaxErrors
      BY <3>3, <3>4
    <3>6. QED
      BY <3>2, <3>3, <3>5, QuietKeeps
  <2>8. CASE UNCHANGED Walk!vars
    BY <2>8, WalkStays
  <2>9. QED
    BY <2>1, <2>2, <2>3, <2>4, <2>5, <2>6, <2>7, <2>8 DEF Walk!Next
<1>3. QED
  BY <1>1, <1>2, WalkRuns, PTL DEF Walk!Spec

\* What the log lacks is within the count of cuts.
LEMMA LogEnough == ASSUME WalkInv PROVE Walk!LogKeeps
<1>1. /\ Walk!Readable <=> ~split
      /\ Walk!Readable => Cardinality(Lacking) + Debt <= 2 * cuts
      /\ IsFiniteSet(Lacking)
  BY DEF WalkInv, LogInv
<1>2. Debt \in Nat /\ Cardinality(Lacking) \in Nat /\ cuts \in Nat
  BY <1>1, FS_CardinalityType DEF Debt, WalkInv, Walk!TypeOK
<1>3. Walk!Cardinality(had \ Walk!Replayed) = Cardinality(Lacking)
  BY WalkOperators DEF Lacking
<1>4. QED
  BY <1>1, <1>2, <1>3 DEF Walk!LogKeeps

\* An extraction finds what is within its depth unless it met its limit of entities.
\* Its log gives back all that extractions have found but two edges for each append
\* that was cut, until one is cut in the middle of a character: then it gives back
\* nothing any more, whatever is appended.  So for any models, limits and numbers of
\* extractions, wherever they die and whatever appends fail (extract_bfs,
\* CheckpointLog::append, CheckpointLog::replay).
THEOREM WalkKeptAlways == ProgramsSpec => []WalkKept
<1>1. WalkInv => WalkKept
  BY LogEnough DEF WalkKept, Walk!WalkKept, WalkInv
<1>2. QED
  BY <1>1, WalkInvAlways, PTL

----------------------------------------------------------------------------
(* All nine programs *)

AProgramRuns ==
    program \in {"vindex", "vectors", "edits", "walk", "scan", "decode", "trace",
                 "dispatch", "graph"}

LEMMA OneProgramRuns == ProgramsSpec => []AProgramRuns
<1>1. ProgramsInit => AProgramRuns
  BY DEF ProgramsInit, AProgramRuns
<1>2. AProgramRuns /\ [ProgramsNext]_programsVars => AProgramRuns'
  BY DEF AProgramRuns, ProgramsNext, programsVars
<1>3. QED
  BY <1>1, <1>2, PTL DEF ProgramsSpec

\* Whichever program runs, its variables have their types: for any values of the
\* constants.
THEOREM StateOKAlways == ProgramsSpec => []StateOK
<1> DEFINE Types == /\ AProgramRuns /\ BuildInv /\ VectorsInv /\ EditInv /\ WalkInv
                    /\ FeaturesInv /\ RemoteTypes /\ ScanInv
                    /\ DecodeInv /\ TraceInv /\ DispatchInv /\ GraphInv
<1>1. Types => StateOK
  <2> SUFFICES ASSUME Types PROVE StateOK
    OBVIOUS
  <2>1. TypeOK
    BY DEF BuildInv
  <2>2. VectorFile!TypeOK
    BY DEF VectorsInv
  <2>3. Edits!TypeOK
    BY DEF EditInv
  <2>4. Walk!TypeOK
    BY DEF WalkInv
  <2>5. Scan!TypeOK
    BY ScanTypes
  <2>6. Decode!TypeOK
    <3>1. MaxTokens \in Nat
      BY ProgramsAssumption DEF Decode!DecodeAssumption
    <3>2. QED
      BY <3>1, ShapeIsType DEF DecodeInv
  <2>7. Trace!TypeOK
    BY ProgramsAssumption, FileTypes
  <2>8. Dispatch!TypeOK
    BY DEF DispatchInv
  <2>9. Gates!TypeOK
    BY GraphTypesOK
  <2>10. QED
    BY <2>1, <2>2, <2>3, <2>4, <2>5, <2>6, <2>7, <2>8, <2>9 DEF AProgramRuns, StateOK
<1>2. Edits!EditAssumption
  BY ProgramsAssumption
<1>3. QED
  BY <1>1, <1>2, OneProgramRuns, BuildRuns, BuildInvAlways, FileRunsKeep, EditsRun, EditInvAlways, WalkInvAlways,
     FeaturesInvAlways, RemoteTypesAlways, ScanInvAlways, DecodeInvAlways, TraceInvAlways,
     DispatchInvAlways, GraphInvAlways, PTL
=============================================================================
