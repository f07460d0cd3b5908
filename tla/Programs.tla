------------------------------ MODULE Programs ------------------------------
(* Nine programs that never meet: a behavior is one of one of them, and one   *)
(* model checker run explores them all.  They are those of VindexBuild,       *)
(* VectorFiles, VindexEdit, KnowledgeWalk, IndexScan, TokenDecode,            *)
(* TraceFiles, ExpertDispatch and GateGraph.                                  *)
EXTENDS VindexBuild, Integers, Sequences

CONSTANTS Order, CutNames, Features, MaxRuns

VARIABLES exists, file, tail, buffer, pending, run, hurt, mistaken, runs, program

VectorFile == INSTANCE VectorFiles

CONSTANTS
    Slots, Vectors, Garbled, Tokens, FirstToken, Facts, Empty, Missing,
    FirstGates, FirstMetas, MaxEdits

VARIABLES
    dtype, readable, gate_file, meta_file, stage, gate_vectors, gate_mmap, warmed,
    hnsw_cache, down_meta, down_meta_mmap, meant, edited, carried, before, goal, saved, edits

Edits == INSTANCE VindexEdit

CONSTANTS
    Entities, Valid, Relations, Nothing, Models, SeedLists,
    MaxDepth, MaxEntities, MaxErrors, MaxSessions

VARIABLES
    model, seeds, phase, graph, visited, queue, entity, depth, left, lines, log_tail,
    garbled, told, had, cuts, split, errors, sessions

Walk == INSTANCE KnowledgeWalk

CONSTANTS Servers, NoReport, Tids, Tables, Queries, Score, NoText, Far

VARIABLES
    server, capabilities, op, endpoint, request, result, causes,
    scan, table, query, results, position, computed, given, unscored, returned

Scan == INSTANCE IndexScan

CONSTANTS Windows, NoWindow, MaxTokens

VARIABLES
    engine, window, ready, stored, cold_residuals, cold_kv, cold_abs_start, next_position,
    kv_rows, tokens, attended, shared

Decode == INSTANCE TokenDecode

CONSTANTS Pieces, MaxEntries, OffsetLimit, MaxAppends

VARIABLES layout, data, entries, count, writer, held, start, appends, cut, kept

Trace == INSTANCE TraceFiles

CONSTANTS Threads, Experts, TopK, NumLayers, Maps, MaxReshards, MaxDecoded

VARIABLES
    shards, reshard, new_shards, reshards, progress, layer, batches, answers, step_error,
    outputs, due, decoded

Dispatch == INSTANCE ExpertDispatch

CONSTANTS M, EfConstruction, Similarities, Drawn, Residuals

VARIABLES similarity, node_levels, links, id, level, ep, selected

Gates == INSTANCE GateGraph

ASSUME ProgramsAssumption ==
    /\ VectorFile!VectorAssumption /\ Edits!EditAssumption
    /\ Walk!WalkAssumption /\ Scan!ScanAssumption
    /\ Decode!DecodeAssumption /\ Trace!TraceAssumption /\ Dispatch!DispatchAssumption
    /\ Gates!GraphAssumption

fileVars == <<exists, file, tail, buffer, pending, run, hurt, mistaken, runs>>
editVars ==
    <<dtype, readable, gate_file, meta_file, stage, gate_vectors, gate_mmap, warmed,
      hnsw_cache, down_meta, down_meta_mmap, meant, edited, carried, before, goal, saved, edits>>
walkVars ==
    <<model, seeds, phase, graph, visited, queue, entity, depth, left, lines, log_tail,
      garbled, told, had, cuts, split, errors, sessions>>
scanVars ==
    <<server, capabilities, op, endpoint, request, result, causes,
      scan, table, query, results, position, computed, given, unscored, returned>>

decodeVars ==
    <<engine, window, ready, stored, cold_residuals, cold_kv, cold_abs_start, next_position,
      kv_rows, tokens, attended, shared>>
traceVars == <<layout, data, entries, count, writer, held, start, appends, cut, kept>>
dispatchVars ==
    <<shards, reshard, new_shards, reshards, progress, layer, batches, answers, step_error,
      outputs, due, decoded>>
graphVars == <<similarity, node_levels, links, id, level, ep, selected>>
programsVars ==
    <<vars, fileVars, editVars, walkVars, scanVars, decodeVars, traceVars, dispatchVars,
      graphVars, program>>

\* While one program runs, the others stand still.
ProgramsInit ==
    /\ program \in {"vindex", "vectors", "edits", "walk", "scan", "decode", "trace",
                    "dispatch", "graph"}
    /\ Init /\ VectorFile!Init
    /\ Edits!Init /\ (program # "edits" => dtype = "f32")
    /\ Walk!Init /\ (program # "walk" => model = CHOOSE m \in Models : TRUE)
                 /\ (program # "walk" => seeds = CHOOSE s \in SeedLists : TRUE)
    /\ Scan!Init /\ (program # "scan" => server = CHOOSE s \in Servers : TRUE)
                 /\ (program # "scan" => table = CHOOSE t \in Tables : TRUE)
    /\ Decode!Init /\ (program # "decode" => engine = "cache")
                   /\ (program # "decode" => window = CHOOSE w \in Windows : TRUE)
    /\ Trace!Init /\ (program # "trace" => layout = "trace")
    /\ Dispatch!Init /\ (program # "dispatch" => shards = CHOOSE m \in Maps : TRUE)
    /\ Gates!Init /\ (program # "graph" => similarity = CHOOSE s \in Similarities : TRUE)
                  /\ (program # "graph" =>
                        node_levels = [f \in DOMAIN similarity |-> (CHOOSE d \in Drawn : TRUE)[f]])

ProgramsNext ==
    /\ UNCHANGED program
    /\ \/ program = "vindex" /\ Next
          /\ UNCHANGED <<fileVars, editVars, walkVars, scanVars, decodeVars,
                         traceVars, dispatchVars, graphVars>>
       \/ program = "vectors" /\ VectorFile!Next
          /\ UNCHANGED <<vars, editVars, walkVars, scanVars, decodeVars,
                         traceVars, dispatchVars, graphVars>>
       \/ program = "edits" /\ Edits!Next
          /\ UNCHANGED <<vars, fileVars, walkVars, scanVars, decodeVars,
                         traceVars, dispatchVars, graphVars>>
       \/ program = "walk" /\ Walk!Next
          /\ UNCHANGED <<vars, fileVars, editVars, scanVars, decodeVars,
                         traceVars, dispatchVars, graphVars>>
       \/ program = "scan" /\ Scan!Next
          /\ UNCHANGED <<vars, fileVars, editVars, walkVars, decodeVars,
                         traceVars, dispatchVars, graphVars>>
       \/ program = "decode" /\ Decode!Next
          /\ UNCHANGED <<vars, fileVars, editVars, walkVars, scanVars,
                         traceVars, dispatchVars, graphVars>>
       \/ program = "trace" /\ Trace!Next
          /\ UNCHANGED <<vars, fileVars, editVars, walkVars, scanVars,
                         decodeVars, dispatchVars, graphVars>>
       \/ program = "dispatch" /\ Dispatch!Next
          /\ UNCHANGED <<vars, fileVars, editVars, walkVars, scanVars,
                         decodeVars, traceVars, graphVars>>
       \/ program = "graph" /\ Gates!Next
          /\ UNCHANGED <<vars, fileVars, editVars, walkVars, scanVars,
                         decodeVars, traceVars, dispatchVars>>

ProgramsSpec ==
    ProgramsInit /\ [][ProgramsNext]_programsVars

\* The type invariant of the program that runs.
StateOK ==
    CASE program = "vindex" -> TypeOK
      [] program = "vectors" -> VectorFile!TypeOK
      [] program = "edits" -> Edits!TypeOK
      [] program = "walk" -> Walk!TypeOK
      [] program = "scan" -> Scan!TypeOK
      [] program = "decode" -> Decode!TypeOK
      [] program = "trace" -> Trace!TypeOK
      [] program = "dispatch" -> Dispatch!TypeOK
      [] program = "graph" -> Gates!TypeOK

\* That of VectorFiles.
LayersSurvive == VectorFile!LayersSurvive

\* Those of VindexEdit.
SearchSeesEdits == Edits!SearchSeesEdits
SaveKeepsEdits == Edits!SaveKeepsEdits

\* That of KnowledgeWalk.
WalkKept == Walk!WalkKept

\* Those of RemoteBackend and IndexScan.
FeaturesKept == Scan!FeaturesKept
ScanReturnsRanking == Scan!ScanReturnsRanking

\* Those of TokenDecode, TraceFiles and ExpertDispatch.
SeesContext == Decode!SeesContext
ReadsAppended == Trace!ReadsAppended
TokensAreWhole == Dispatch!TokensAreWhole

\* That of GateGraph.
GraphFindsNearest == Gates!GraphFindsNearest
=============================================================================
