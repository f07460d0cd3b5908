---------------------------- MODULE KnowledgeWalk ----------------------------
(***************************************************************************)
(* The extraction of a knowledge graph out of a model: extract_bfs         *)
(* (src/crates/infer-core/src/engine/bfs.rs) asks for each entity all      *)
(* relations and goes on to the answers, and each new edge is appended to  *)
(* a CheckpointLog (io/checkpoint.rs), from which the graph is replayed    *)
(* after the death of the process: on_edge appends, and what was replayed  *)
(* is the graph that the next extraction is given.                         *)
(*                                                                         *)
(* The log is not buffered: an append writes the text of the edge and then *)
(* the end of the line, so that the process may die, or a write fail,      *)
(* between the two or within the text.  on_edge has no result: after an    *)
(* append that failed the extraction goes on.  A line that is no edge is   *)
(* skipped by the replay; one that is no UTF-8 ends it with an error, and  *)
(* nothing takes that line out of the log again.                           *)
(***************************************************************************)
EXTENDS Naturals, Sequences, FiniteSets

CONSTANTS
    Entities,    \* what is asked about, and what is answered
    Valid,       \* those that is_valid_entity lets through
    Relations,   \* one for each template, asked in any order
    Nothing,     \* no answer, or one of too little confidence
    Models,      \* the models: the answers that each gives
    SeedLists,   \* the lists of seeds
    MaxDepth, MaxEntities, \* of BfsConfig
    MaxErrors,   \* bound: calls of the model, and appends, that fail
    MaxSessions  \* bound: extractions

NoEntity == "none"

WalkAssumption ==
    /\ Valid \subseteq Entities /\ Nothing \notin Entities /\ NoEntity \notin Entities
    /\ Models \subseteq [Entities \X Relations -> Entities \cup {Nothing}]
    /\ SeedLists \subseteq Seq(Entities)
    /\ MaxDepth \in Nat /\ MaxEntities \in Nat
    /\ MaxErrors \in Nat /\ MaxSessions \in Nat

Edges == Entities \X Relations \X Entities

\* What follows the last line end of the log: the text of an edge, the beginning
\* of one, or one that is cut in the middle of a character.
Whole(e) == [kind |-> "whole", edge |-> e]
NoTail == [kind |-> "none"]
Torn == [kind |-> "torn"]
Garbage == [kind |-> "garbage"]
Tails == {NoTail, Torn, Garbage} \cup {Whole(e) : e \in Edges}

VARIABLES
    model,    \* what the model answers
    seeds,    \* the seeds of the extractions
    phase,    \* "closed", "walking" or "done"
    graph,    \* the graph in memory
    visited,
    queue,    \* entities and their depths
    entity,   \* the entity that is being asked about, or NoEntity
    depth,    \* its depth
    left,     \* the relations it was not asked about yet
    lines,    \* the edges that are whole lines of the log
    log_tail, \* what follows the last of them
    garbled,  \* one of the whole lines is no UTF-8
    told,     \* history: the edges answered in this extraction
    had,      \* history: the edges that extractions have added to their graphs
    cuts,     \* history: number of appends that were cut
    split,    \* history: one was cut in the middle of a character
    errors,   \* number of calls and appends that failed
    sessions  \* number of extractions

search == <<visited, queue, entity, depth, left>>
log == <<lines, log_tail, garbled>>
history == <<told, had, cuts, split>>
vars == <<model, seeds, phase, graph, search, log, history, errors, sessions>>

TypeOK ==
    /\ model \in Models /\ seeds \in SeedLists
    /\ phase \in {"closed", "walking", "done"}
    /\ graph \subseteq Edges /\ lines \subseteq Edges /\ told \subseteq graph
    /\ had \subseteq Edges
    /\ visited \subseteq Entities
    /\ queue \in Seq(Entities \X (0 .. MaxDepth))
    /\ entity \in visited \cup {NoEntity}
    /\ depth \in 0 .. MaxDepth
    /\ left \subseteq Relations
    /\ log_tail \in Tails /\ garbled \in BOOLEAN
    /\ cuts \in Nat /\ split \in BOOLEAN
    /\ errors \in 0 .. MaxErrors /\ sessions \in 0 .. MaxSessions
    /\ Cardinality(visited) <= MaxEntities

Init ==
    /\ model \in Models /\ seeds \in SeedLists
    /\ phase = "closed"
    /\ graph = {} /\ visited = {} /\ queue = <<>>
    /\ entity = NoEntity /\ depth = 0 /\ left = {}
    /\ lines = {} /\ log_tail = NoTail /\ garbled = FALSE
    /\ told = {} /\ had = {} /\ cuts = 0 /\ split = FALSE
    /\ errors = 0 /\ sessions = 0

----------------------------------------------------------------------------
(* The log *)

\* CheckpointLog::replay: the lines before one that is no UTF-8 are of no use, as
\* the error is all that it returns.
Readable == ~garbled /\ log_tail # Garbage
Replayed == lines \cup IF log_tail.kind = "whole" THEN {log_tail.edge} ELSE {}

\* Mutant of Logged: the end of the line is forgotten.
LoggedUnended(e) ==
    /\ lines' = lines
    /\ log_tail' = IF log_tail = NoTail THEN Whole(e) ELSE Torn
    /\ garbled' = garbled

\* CheckpointLog::append: behind a tail, the line is no edge.
Logged(e) ==
    /\ lines' = IF log_tail = NoTail THEN lines \cup {e} ELSE lines
    /\ garbled' = (garbled \/ log_tail = Garbage)
    /\ log_tail' = NoTail

\* What an append that is cut leaves behind the last line.
CutTails(e) ==
    IF log_tail = Garbage THEN {Garbage}
    ELSE {log_tail, Torn, Garbage} \cup IF log_tail = NoTail THEN {Whole(e)} ELSE {}

\* An append that is cut.
CutAppend(e) ==
    /\ log_tail' \in CutTails(e)
    /\ cuts' = cuts + 1
    /\ split' = (split \/ log_tail' = Garbage)
    /\ UNCHANGED <<lines, garbled>>

----------------------------------------------------------------------------
(* The extraction *)

\* The log is opened and replayed, and the extraction begins with the seeds.
Begin ==
    /\ phase \in {"closed", "done"}
    /\ Readable
    /\ sessions < MaxSessions
    /\ sessions' = sessions + 1
    /\ phase' = "walking"
    /\ graph' = Replayed
    /\ visited' = {} /\ queue' = [i \in 1 .. Len(seeds) |-> <<seeds[i], 0>>]
    /\ entity' = NoEntity /\ depth' = 0 /\ left' = {}
    /\ told' = {}
    /\ UNCHANGED <<model, seeds, log, had, cuts, split, errors>>

\* The next entity of the queue: one that was visited is skipped, and the
\* extraction ends with an empty queue or as many entities as it may visit.
Pop ==
    /\ phase = "walking" /\ entity = NoEntity /\ queue # <<>>
    /\ queue' = Tail(queue)
    /\ LET e == Head(queue)[1]
       IN  \/ /\ e \in visited
              /\ UNCHANGED <<phase, visited, entity, depth, left>>
           \/ /\ e \notin visited /\ Cardinality(visited) >= MaxEntities
              /\ phase' = "done"
              /\ UNCHANGED <<visited, entity, depth, left>>
           \/ /\ e \notin visited /\ Cardinality(visited) < MaxEntities
              /\ visited' = visited \cup {e}
              /\ entity' = e /\ depth' = Head(queue)[2] /\ left' = Relations
              /\ UNCHANGED phase
    /\ UNCHANGED <<model, seeds, graph, log, history, errors, sessions>>

Finish ==
    /\ phase = "walking" /\ entity = NoEntity /\ queue = <<>>
    /\ phase' = "done"
    /\ UNCHANGED <<model, seeds, graph, search, log, history, errors, sessions>>

\* What is pushed for an answer.
Pushed(o) ==
    IF o \notin visited /\ depth < MaxDepth /\ o \in Valid
    THEN Append(queue, <<o, depth + 1>>)
    ELSE queue

\* The model answers: a new edge enters the graph, and the log unless the append
\* fails.
Answer(r) ==
    LET o == model[entity, r]
        e == <<entity, r, o>>
    IN  /\ r \in left /\ o # Nothing
        /\ left' = left \ {r}
        /\ graph' = graph \cup {e} /\ had' = had \cup {e}
        /\ \/ e \in graph /\ UNCHANGED <<log, cuts, split, errors>>
           \/ e \notin graph /\ Logged(e) /\ UNCHANGED <<cuts, split, errors>>
           \/ e \notin graph /\ CutAppend(e) /\ errors < MaxErrors /\ errors' = errors + 1
        /\ queue' = Pushed(o)
        /\ told' = told \cup {e}
        /\ UNCHANGED <<model, seeds, phase, visited, entity, depth, sessions>>

\* It does not, or the call fails.
NoAnswer(r) ==
    /\ r \in left
    /\ left' = left \ {r}
    /\ \/ model[entity, r] = Nothing /\ UNCHANGED errors
       \/ errors < MaxErrors /\ errors' = errors + 1
    /\ UNCHANGED <<model, seeds, phase, graph, visited, queue, entity, depth, log, history,
                   sessions>>

\* All relations were asked for.
Leave ==
    /\ phase = "walking" /\ entity # NoEntity /\ left = {}
    /\ entity' = NoEntity
    /\ UNCHANGED <<model, seeds, phase, graph, visited, queue, depth, left, log, history,
                   errors, sessions>>

\* The process dies, in the middle of an append perhaps.
Die ==
    /\ phase = "walking"
    /\ phase' = "closed"
    /\ \/ UNCHANGED <<log, had, cuts, split>>
       \/ \E r \in left :
            LET e == <<entity, r, model[entity, r]>>
            IN  /\ entity # NoEntity /\ model[entity, r] # Nothing /\ e \notin graph
                /\ CutAppend(e)
                /\ had' = had \cup {e}
    /\ graph' = {} /\ told' = {} /\ queue' = <<>> /\ visited' = {}
    /\ entity' = NoEntity /\ depth' = 0 /\ left' = {}
    /\ UNCHANGED <<model, seeds, errors, sessions>>

Next ==
    \/ Begin \/ Pop \/ Finish \/ Leave \/ Die
    \/ \E r \in Relations : Answer(r) \/ NoAnswer(r)

Spec == Init /\ [][Next]_vars

----------------------------------------------------------------------------
(* Properties *)

\* The entities that the answers of this extraction lead to in n steps at most.
Within[n \in 0 .. MaxDepth] ==
    IF n = 0 THEN {seeds[i] : i \in 1 .. Len(seeds)}
    ELSE Within[n - 1] \cup
         {o \in Valid : \E t \in told : t[1] \in Within[n - 1] /\ t[3] = o}

\* An extraction visits nothing beyond MaxDepth steps from its seeds, and when it
\* ends everything within, unless it met its limit of entities: no entity is
\* reached by a detour first that leaves no steps for what lies behind it.
FindsAll ==
    /\ visited \subseteq Within[MaxDepth]
    /\ phase = "done" =>
         visited = Within[MaxDepth] \/ Cardinality(visited) = MaxEntities

\* Of all the edges that extractions have added to their graphs, the replay of the
\* log gives back all but two for each append that a death or a failed write has
\* cut: the edge it was about, and the one that is appended next, behind what is
\* left of it.  "Survives crashes" (checkpoint.rs:9) does not hold of a cut in the
\* middle of a character: from then on the replay fails, whatever is appended, and
\* every edge is lost.  Nothing else makes it fail.
LogKeeps ==
    /\ Readable <=> ~split
    /\ Readable => Cardinality(had \ Replayed) <= 2 * cuts

\* Both: what an extraction is to find is in its graph, and what is in the graph
\* survives, but for what the cut appends cost.
WalkKept == FindsAll /\ LogKeeps
=============================================================================
