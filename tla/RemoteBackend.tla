---------------------------- MODULE RemoteBackend ----------------------------
(* A model served over HTTP: one request or batch per operation, the         *)
(* capabilities that the server reported when the backend connected, and what *)
(* an operation does when the server lacks its endpoint.  The server is       *)
(* external: another version may take over at any time, and any request may   *)
(* fail.                                                                      *)
EXTENDS Naturals, Sequences, SequencesExt, FiniteSets

CONSTANTS
    Servers,    \* the versions of the server, each the set of endpoints it mounts
    NoReport    \* capabilities of a server without a report, or none we understand

RemoteAssumption == NoReport \notin Servers

VARIABLES
    server,        \* the server that answers now
    capabilities,  \* what the server said at connect
    op,            \* the operation of the session, or the state of the connection
    endpoint,      \* of the request under way, or "none"
    request,       \* of rank: the score of each candidate for the query
    result,        \* of the last operation: how it ended, and rank's order
    causes         \* what happened to the connection and to this operation (history)

remoteVars == <<server, capabilities, op, endpoint, request, result, causes>>

\* Operations that ask an endpoint the server may lack.
Optional ==
    [warmup |-> "warmup", cache_stats |-> "cache/stats", show_features |-> "select",
     rank |-> "rank"]

\* Operations that ask an endpoint as if every server had it.
Required ==
    [describe |-> "describe", infer |-> "infer", show_relations |-> "relations",
     show_layers |-> "stats", walk |-> "walk"]

Ops == DOMAIN Optional \cup DOMAIN Required \cup {"embed"}

\* The feature itself, without what is done in its place.
Needs(o) ==
    IF o \in DOMAIN Optional THEN {Optional[o]}
    ELSE IF o \in DOMAIN Required THEN {Required[o]} ELSE {"encode", "embed"}

\* The routes that an operation may take whatever the server reported.
Unasked(o) ==
    IF o \in DOMAIN Required THEN {Required[o]}
    ELSE IF o = "cache_stats" THEN {"stats"} ELSE IF o = "rank" THEN {"walk"} ELSE {}

Result(o, kind, ranking) == [of |-> o, kind |-> kind, ranking |-> ranking]
NoResult == Result("walk", "none", <<>>)

RemoteTypeOK ==
    /\ server \in Servers /\ capabilities \in Servers \cup {NoReport}
    /\ op \in Ops \cup {"down", "connecting", "idle"}
    /\ endpoint \in {"none", "stats", "capabilities"} \cup UNION {Needs(o) : o \in Ops}
    /\ op \in {"down", "idle"} <=> endpoint = "none"
    /\ result.kind \in {"none", "data", "nothing", "unsupported", "error"}
    /\ causes \subseteq {"replaced", "misread", "missing", "failed", "empty"}

RemoteInit ==
    /\ server \in Servers
    /\ capabilities = NoReport
    /\ op = "down" /\ endpoint = "none"
    /\ request = <<>>
    /\ result = NoResult
    /\ causes = {}

Return(o, kind, ranking) ==
    /\ op' = "idle" /\ endpoint' = "none" /\ request' = <<>>
    /\ result' = Result(o, kind, ranking)

Call(o, e, r) == op' = o /\ endpoint' = e /\ request' = r /\ result' = NoResult

----------------------------------------------------------------------------
(* The server (external) *)

\* An upgrade, or a rollback to another version.
Replace ==
    /\ server' \in Servers \ {server}
    /\ causes' = IF op = "down" THEN causes ELSE causes \cup {"replaced"}
    /\ UNCHANGED <<capabilities, op, endpoint, request, result>>

\* A failure may have "404" or "Not Found" in its text: in the body, or in the
\* port of a URL that cannot be reached.
Answers(e) ==
    (IF e \in server THEN {"data"} ELSE {"404"}) \cup {"failure", "failure with 404"}

\* What optional_endpoint takes for a missing endpoint.
ReadsAsAbsent(a) == a \in {"404", "failure with 404"}

----------------------------------------------------------------------------
(* The connection *)

\* RemoteBackend::connect, when the registry loads the model.
Connect ==
    /\ op = "down"
    /\ Call("connecting", "stats", <<>>)
    /\ UNCHANGED <<server, capabilities, causes>>

\* Without statistics there is no backend; the report is optional, and any failure
\* or a schema that is not understood leaves the backend without one.
Connecting ==
    /\ op = "connecting"
    /\ \/ /\ endpoint = "stats"
          /\ op' = "down" /\ endpoint' = "none"
          /\ causes' = {}
          /\ UNCHANGED capabilities
       \/ /\ endpoint = "stats" /\ endpoint \in server
          /\ endpoint' = "capabilities"
          /\ UNCHANGED <<op, capabilities, causes>>
       \/ /\ endpoint = "capabilities"
          /\ capabilities' \in {NoReport} \cup (IF endpoint \in server THEN {server} ELSE {})
          /\ op' = "idle" /\ endpoint' = "none"
          /\ causes' = {}
    /\ UNCHANGED <<server, request, result>>

\* The registry drops the backend; the next query connects again.
Evict ==
    /\ op = "idle"
    /\ op' = "down"
    /\ capabilities' = NoReport
    /\ result' = NoResult
    /\ causes' = {}
    /\ UNCHANGED <<server, endpoint, request>>

----------------------------------------------------------------------------
(* The operations *)

\* Mutant of Denied: a server without a report serves nothing.
DeniedUnlessReported(e) == capabilities = NoReport \/ e \notin capabilities

\* serves(e) == Some(false): the server said that it does not mount the route.
Denied(e) == capabilities # NoReport /\ e \notin capabilities

\* An operation begins: what happened to the connection is remembered, what
\* happened to the operation before it is not.
Begins ==
    /\ op = "idle"
    /\ causes' = causes \cap {"replaced"}
    /\ UNCHANGED <<server, capabilities>>

\* What an operation does without its optional endpoint.
GiveUp(o, r) ==
    \/ o = "warmup" /\ Return(o, "nothing", <<>>)
    \/ o = "show_features" /\ Return(o, "unsupported", <<>>)
    \/ o = "cache_stats" /\ Call(o, "stats", r)
    \/ o = "rank" /\ Call(o, "walk", r)

\* warmup, cache_stats, show_features and rank: a call that the server has said it
\* does not serve is not made.
Ask(o, r) ==
    /\ Begins
    /\ IF Denied(Optional[o]) THEN GiveUp(o, r) ELSE Call(o, Optional[o], r)

\* embed, in two requests.
Embed ==
    /\ Begins
    /\ IF Denied("embed") \/ Denied("encode")
       THEN Return("embed", "unsupported", <<>>)
       ELSE Call("embed", "encode", <<>>)

\* describe (describe_many, implies), infer, show_relations, show_layers, and walk
\* (explain_walk, nearest_to, similar_to): one request, or a batch whose first
\* failure is the result, which are made whatever the report says.
Query(o) ==
    /\ Begins
    /\ Call(o, Required[o], <<>>)

\* Candidates with their scores, the best first.
Descending(r) == \A i, j \in DOMAIN r : i < j => r[i].score >= r[j].score

\* /v1/rank of the server (external): all candidates, equal scores in any order.
ServerRankings(scores) ==
    {r \in {[i \in DOMAIN scores |-> [index |-> p[i], score |-> scores[p[i]]]] :
                p \in {q \in [DOMAIN scores -> DOMAIN scores] : IsInjective(q)}} : Descending(r)}

\* The candidate at a place has one less before it: those of a better score, or of
\* the same and an earlier index.
StableOrder(scores) ==
    LET before(i) ==
            {j \in DOMAIN scores : scores[j] > scores[i] \/ (scores[j] = scores[i] /\ j < i)}
        at(k) == CHOOSE i \in DOMAIN scores : Cardinality(before(i)) = k - 1
    IN  [k \in DOMAIN scores |-> [index |-> at(k), score |-> scores[at(k)]]]

\* similar_to_many and the stable sort of rank: a candidate whose walk failed
\* scores 0 and keeps its place.
Ranked(scores, failed) ==
    StableOrder([i \in DOMAIN scores |-> IF i \in failed THEN 0 ELSE scores[i]])

\* The batch of rank ends: a walk for the query and one for each candidate, all of
\* which a server that does not mount the route refuses.
Walked(failed) ==
    /\ op = "rank" /\ endpoint = "walk"
    /\ failed \subseteq 0 .. Len(request)
    /\ endpoint \notin server => failed = 0 .. Len(request)
    /\ causes' = causes \cup (IF failed = {} THEN {}
                              ELSE IF endpoint \in server THEN {"failed"} ELSE {"missing"})
    /\ IF 0 \in failed THEN Return(op, "error", <<>>)
       ELSE Return(op, "data", Ranked(request, failed))
    /\ UNCHANGED <<server, capabilities>>

\* A request of an operation ends, but for the batch of rank.
Ends(a) ==
    /\ op \in Ops /\ ~(op = "rank" /\ endpoint = "walk")
    /\ a \in Answers(endpoint)
    /\ UNCHANGED <<server, capabilities>>

\* The statistics of a server may say nothing of its cache; a text may have no
\* token to embed.
Answered ==
    /\ Ends("data")
    /\ \/ /\ op = "rank"
          /\ \E ranking \in ServerRankings(request) : Return(op, "data", ranking)
          /\ UNCHANGED causes
       \/ /\ endpoint = "encode"
          /\ \/ Call(op, "embed", request) /\ UNCHANGED causes
             \/ Return(op, "error", <<>>) /\ causes' = causes \cup {"empty"}
       \/ /\ op = "cache_stats" /\ endpoint = "stats"
          /\ Return(op, "nothing", <<>>)
          /\ UNCHANGED causes
       \/ /\ op # "rank" /\ endpoint # "encode"
          /\ Return(op, "data", <<>>)
          /\ UNCHANGED causes

OfOptional == op \in DOMAIN Optional /\ endpoint = Optional[op]

\* optional_endpoint gives Ok(None).
Absent(a) ==
    /\ Ends(a)
    /\ OfOptional /\ ReadsAsAbsent(a)
    /\ GiveUp(op, request)
    /\ causes' = IF a = "404" THEN causes ELSE causes \cup {"misread"}

\* Any other failure, an interrupt among them, is the error of the operation, and
\* so is the 404 of an endpoint it cannot do without.
Fails(a) ==
    /\ Ends(a)
    /\ a # "data" /\ ~(OfOptional /\ ReadsAsAbsent(a))
    /\ Return(op, "error", <<>>)
    /\ causes' = causes \cup {IF a = "404" THEN "missing" ELSE "failed"}

\* What the session and the server do but rank, whose candidates the caller knows.
RemoteNext ==
    \/ Replace \/ Connect \/ Connecting \/ Evict
    \/ \E o \in DOMAIN Optional \ {"rank"} : Ask(o, <<>>)
    \/ Embed
    \/ \E o \in DOMAIN Required : Query(o)
    \/ Answered
    \/ \E a \in Answers(endpoint) : Absent(a) \/ Fails(a)
    \/ \E failed \in SUBSET (0 .. Len(request)) : Walked(failed)

----------------------------------------------------------------------------

\* A feature that the server mounts is given up only if it came with another
\* version after the connection was made, or if a failure read like a missing
\* endpoint: a server that has no report, or whose report failed, loses nothing.
\* An operation is an error only if a request of it failed, its text has no token,
\* or a route is missing; and a missing route is an error only where the code does
\* not ask the report for it (describe, infer, show_relations, show_layers, walk,
\* and what cache_stats and rank fall back to: upstream.md:233-235 names a server
\* without four of these routes), or, for embed, where there is no report to ask.
\* Either way the server lacks it, or was replaced (serves, optional_endpoint and
\* the fallbacks of remote.rs).
FeaturesKept ==
    /\ result.kind \in {"unsupported", "nothing"} /\ Needs(result.of) \subseteq server
          => causes \cap {"replaced", "misread"} # {}
    /\ result.kind = "error" => causes \cap {"failed", "missing", "empty"} # {}
    /\ "missing" \in causes /\ "replaced" \notin causes =>
          IF result.of = "embed" THEN capabilities = NoReport /\ ~(Needs("embed") \subseteq server)
          ELSE ~(Unasked(result.of) \subseteq server)
=============================================================================
