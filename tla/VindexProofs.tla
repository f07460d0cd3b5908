---------------------------- MODULE VindexProofs ----------------------------
(***************************************************************************)
(* Proofs about the programs that write, edit and search a vindex:         *)
(* VindexBuild (what a build that has not ended has done to the directory  *)
(* so far), VindexEdit (what the heap holds over the mapped files, and how *)
(* far a save has come), VectorFiles (which layers of a file are whole)    *)
(* and GateGraph (which links the graph over a layer keeps while it is     *)
(* built, and what its searches find).                                     *)
(***************************************************************************)
EXTENDS Programs, DataLemmas, FiniteSetTheorems

----------------------------------------------------------------------------
(* What a program does among the others is what it does alone *)

LEMMA BuildRuns == ProgramsSpec => Spec
<1>1. ProgramsInit => Init
  BY DEF ProgramsInit
<1>2. [ProgramsNext]_programsVars => [Next]_vars
  BY DEF ProgramsNext, programsVars
<1>3. QED
  BY <1>1, <1>2, PTL DEF ProgramsSpec, Spec

LEMMA VectorFileRuns == ProgramsSpec => VectorFile!Spec
<1>1. ProgramsInit => VectorFile!Init
  BY DEF ProgramsInit
<1>2. [ProgramsNext]_programsVars => [VectorFile!Next]_(VectorFile!vars)
  BY DEF ProgramsNext, programsVars, fileVars, VectorFile!vars
<1>3. QED
  BY <1>1, <1>2, PTL DEF ProgramsSpec, VectorFile!Spec

LEMMA EditsRun == ProgramsSpec => Edits!Spec
<1>1. ProgramsInit => Edits!Init
  BY DEF ProgramsInit
<1>2. [ProgramsNext]_programsVars => [Edits!Next]_(Edits!vars)
  BY DEF ProgramsNext, programsVars, editVars, Edits!vars, Edits!disk, Edits!memory, Edits!saves
<1>3. QED
  BY <1>1, <1>2, PTL DEF ProgramsSpec, Edits!Spec

LEMMA WalkRuns == ProgramsSpec => Walk!Spec
<1>1. ProgramsInit => Walk!Init
  BY DEF ProgramsInit
<1>2. [ProgramsNext]_programsVars => [Walk!Next]_(Walk!vars)
  BY DEF ProgramsNext, programsVars, walkVars, Walk!vars, Walk!search, Walk!log,
     Walk!history
<1>3. QED
  BY <1>1, <1>2, PTL DEF ProgramsSpec, Walk!Spec

LEMMA ScanRuns == ProgramsSpec => Scan!Spec
<1>1. ProgramsInit => Scan!Init
  BY DEF ProgramsInit
<1>2. [ProgramsNext]_programsVars => [Scan!Next]_(Scan!vars)
  BY DEF ProgramsNext, programsVars, scanVars, Scan!vars, Scan!remoteVars, Scan!scanVars
<1>3. QED
  BY <1>1, <1>2, PTL DEF ProgramsSpec, Scan!Spec

LEMMA DecodeRuns == ProgramsSpec => Decode!Spec
<1>1. ProgramsInit => Decode!Init
  BY DEF ProgramsInit
<1>2. [ProgramsNext]_programsVars => [Decode!Next]_(Decode!vars)
  BY DEF ProgramsNext, programsVars, decodeVars, Decode!vars, Decode!store
<1>3. QED
  BY <1>1, <1>2, PTL DEF ProgramsSpec, Decode!Spec

LEMMA TraceRuns == ProgramsSpec => Trace!Spec
<1>1. ProgramsInit => Trace!Init
  BY DEF ProgramsInit
<1>2. [ProgramsNext]_programsVars => [Trace!Next]_(Trace!vars)
  BY DEF ProgramsNext, programsVars, traceVars, Trace!vars
<1>3. QED
  BY <1>1, <1>2, PTL DEF ProgramsSpec, Trace!Spec

LEMMA DispatchRuns == ProgramsSpec => Dispatch!Spec
<1>1. ProgramsInit => Dispatch!Init
  BY DEF ProgramsInit
<1>2. [ProgramsNext]_programsVars => [Dispatch!Next]_(Dispatch!vars)
  BY DEF ProgramsNext, programsVars, dispatchVars, Dispatch!vars, Dispatch!mapVars,
     Dispatch!tokenVars
<1>3. QED
  BY <1>1, <1>2, PTL DEF ProgramsSpec, Dispatch!Spec

LEMMA GatesRun == ProgramsSpec => Gates!Spec
<1>1. ProgramsInit => Gates!Init
  BY DEF ProgramsInit
<1>2. [ProgramsNext]_programsVars => [Gates!Next]_(Gates!vars)
  BY DEF ProgramsNext, programsVars, graphVars, Gates!vars
<1>3. QED
  BY <1>1, <1>2, PTL DEF ProgramsSpec, Gates!Spec

----------------------------------------------------------------------------
(* Builds of a vindex: VindexBuild *)

LEMMA StepFacts ==
    ASSUME NEW o \in Settings
    PROVE  /\ Written(o) \subseteq Files
           /\ \A f \in Files : f \in Steps(o) <=> f \in Written(o)
           /\ "update" \in Steps(o) <=> NeedsWeights(o)
           /\ "index" \in Steps(o) /\ "final" \in Steps(o)
           /\ "remove_gate" \in Steps(o) <=> o.drop
           /\ "gate_vectors" \in Written(o) <=> ~o.drop
           /\ Steps(o) \subseteq AllSteps
<1>1. Written(o) \subseteq Files
  BY DEF Written
<1>2. "gate_vectors" \in Written(o) <=> ~o.drop
  BY DEF Written, Files
<1>3. "index" \notin Files /\ "update" \notin Files /\ "final" \notin Files
      /\ "remove_gate" \notin Files /\ "mark" \notin Files
  BY DEF Files
<1>4. QED
  BY <1>1, <1>2, <1>3 DEF Steps, AllSteps, IndexSteps

LEMMA PlaceFacts ==
    ASSUME NEW o \in Settings
    PROVE  /\ \A f \in Files \cup {"remove_gate"} : Place(o, f) \in {1, 2, 3, 4, 5, 8, 10}
           /\ Place(o, "index") = 6
           /\ Place(o, "update") \in {9, 11}
           /\ Place(o, "final") = 12
           /\ Place(o, "mark") = 13
<1>1. ASSUME NEW f \in Files \cup {"remove_gate"} PROVE Place(o, f) \in {1, 2, 3, 4, 5, 8, 10}
  BY DEF Place, Files
<1>2. Place(o, "index") = 6
  BY DEF Place
<1>3. Place(o, "update") \in {9, 11}
  BY DEF Place
<1>4. Place(o, "final") = 12
  BY DEF Place
<1>5. Place(o, "mark") = 13
  BY DEF Place
<1>6. QED
  BY <1>1, <1>2, <1>3, <1>4, <1>5

----------------------------------------------------------------------------
(* What a build that runs has done so far *)

\* The steps that are left are steps of the build, in its order.
RestInv ==
    call # Idle =>
        /\ call.rest \subseteq Steps(call.settings)
        /\ (\E s \in Files \cup {"index", "update", "remove_gate"} : s \in call.rest) =>
              "final" \in call.rest
        /\ "index" \in call.rest /\ NeedsWeights(call.settings) => "update" \in call.rest

\* The files it has written are whole, and the gate file is gone if it is dropped.
FilesInv ==
    call # Idle =>
        /\ \A f \in Written(call.settings) : f \notin call.rest =>
              disk[f] = Good(call.settings.source)
        /\ call.settings.drop /\ "remove_gate" \notin call.rest => disk["gate_vectors"] = Absent

\* The index that a build with settings o has left over the files d when the steps
\* in rest are to come.
Right(c, rest, o, d) ==
    /\ c \in Index
    /\ c.settings = o
    /\ c.weights <=> NeedsWeights(o) /\ "update" \notin rest
    /\ "final" \in rest => c.sums = None
    /\ c.sums \in {None, [f \in Checked |-> d[f]]}

\* index.json is empty, about to be written again.
Rewriting == call.open /\ \E s \in IndexSteps : Due(s)

IndexInv ==
    call # Idle =>
        /\ "index" \notin call.rest /\ ~Rewriting => Right(index, call.rest, call.settings, disk)
        /\ \A s \in IndexSteps : call.open /\ Due(s) =>
              Right(call.config, call.rest \ {s}, call.settings, disk)

\* The sums are those of whole files of one source.
Sound(c) ==
    c.sums # None =>
        \A f \in Written(c.settings) \cap Checked : c.sums[f] = Good(c.settings.source)

SumsInv ==
    /\ index \in Index => Sound(index)
    /\ call # Idle => \A s \in IndexSteps : call.open /\ Due(s) => Sound(call.config)

BuildInv == TypeOK /\ RestInv /\ FilesInv /\ IndexInv /\ SumsInv

LEMMA CallType ==
    ASSUME TypeOK, call # Idle
    PROVE  /\ call \in Calls
           /\ call.settings \in Settings /\ call.rest \in SUBSET AllSteps
           /\ call.open \in BOOLEAN /\ call.config \in Index \cup {None}
<1>1. call \in Calls
  BY DEF TypeOK
<1>2. QED
  BY <1>1 DEF Calls

\* How the place of the step that is due bounds what is left.
LEMMA DueFacts ==
    ASSUME TypeOK, NEW s, Due(s)
    PROVE  /\ call # Idle /\ s \in call.rest
           /\ s \in Files \cup {"remove_gate", "mark"} => \A t \in IndexSteps : ~Due(t)
           /\ s = "update" => "index" \notin call.rest
           /\ s = "final" => \A t \in Files \cup {"index", "update", "remove_gate"} : t \notin call.rest
           /\ s = "mark" => \A t \in Files \cup {"index", "update", "remove_gate", "final"} :
                               t \notin call.rest
           /\ s \in IndexSteps => \A t \in IndexSteps : Due(t) => t = s
<1> DEFINE o == call.settings
           P(t) == Place(o, t)
<1>1. call # Idle /\ s \in call.rest /\ \A t \in call.rest : P(s) <= P(t)
  BY DEF Due
<1>2. o \in Settings
  BY <1>1, CallType
<1>3. \A t : Due(t) => t \in call.rest /\ P(t) <= P(s)
  BY <1>1 DEF Due
<1> HIDE DEF o, P
<1>4. /\ \A f \in Files \cup {"remove_gate"} : P(f) \in {1, 2, 3, 4, 5, 8, 10}
      /\ P("index") = 6
      /\ P("update") \in {9, 11}
      /\ P("final") = 12
      /\ P("mark") = 13
  BY <1>2, PlaceFacts DEF P
<1>5. s = "update" => "index" \notin call.rest
  BY <1>1, <1>4
<1>6. s = "final" => \A t \in Files \cup {"index", "update", "remove_gate"} : t \notin call.rest
  <2> SUFFICES ASSUME s = "final", NEW t \in Files \cup {"index", "update", "remove_gate"},
                      t \in call.rest
               PROVE  FALSE
    OBVIOUS
  <2>1. 12 <= P(t)
    BY <1>1, <1>4
  <2>2. P(t) \in {1, 2, 3, 4, 5, 6, 8, 9, 10, 11}
    BY <1>4
  <2>3. QED
    BY <2>1, <2>2
<1>7. s = "mark" => \A t \in Files \cup {"index", "update", "remove_gate", "final"} :
                       t \notin call.rest
  <2> SUFFICES ASSUME s = "mark", NEW t \in Files \cup {"index", "update", "remove_gate", "final"},
                      t \in call.rest
               PROVE  FALSE
    OBVIOUS
  <2>1. 13 <= P(t)
    BY <1>1, <1>4
  <2>2. P(t) \in {1, 2, 3, 4, 5, 6, 8, 9, 10, 11, 12}
    BY <1>4
  <2>3. QED
    BY <2>1, <2>2
<1>8. \A t \in IndexSteps : P(t) \in {6, 9, 11, 12}
  BY <1>4 DEF IndexSteps
<1>9. s \in Files \cup {"remove_gate", "mark"} => \A t \in IndexSteps : ~Due(t)
  <2> SUFFICES ASSUME s \in Files \cup {"remove_gate", "mark"}, NEW t \in IndexSteps, Due(t)
               PROVE  FALSE
    OBVIOUS
  <2>1. P(s) <= P(t) /\ P(t) <= P(s)
    BY <1>1, <1>3
  <2>2. P(s) \in {1, 2, 3, 4, 5, 8, 10, 13}
    BY <1>4
  <2>3. P(t) \in {6, 9, 11, 12}
    BY <1>8
  <2>4. QED
    BY <2>1, <2>2, <2>3
<1>10. s \in IndexSteps => \A t \in IndexSteps : Due(t) => t = s
  <2> SUFFICES ASSUME s \in IndexSteps, NEW t \in IndexSteps, Due(t) PROVE t = s
    OBVIOUS
  <2>1. P(s) <= P(t) /\ P(t) <= P(s)
    BY <1>1, <1>3
  <2>2. QED
    BY <1>4, <2>1 DEF IndexSteps
<1>11. QED
  BY <1>1, <1>5, <1>6, <1>7, <1>9, <1>10

\* The record of a build after it has opened a file, and after a step.
LEMMA NextCall ==
    ASSUME TypeOK, call # Idle
    PROVE  /\ Opened => /\ call' \in Calls /\ call' # Idle
                        /\ call'.settings = call.settings /\ call'.rest = call.rest
                        /\ call'.open = TRUE /\ call'.config = call.config
           /\ \A s : Past(s) => /\ call' \in Calls /\ call' # Idle
                                /\ call'.settings = call.settings
                                /\ call'.rest = call.rest \ {s}
                                /\ call'.open = FALSE
           /\ \A c \in Index \cup {None} :
                call' = [call EXCEPT !.open = TRUE, !.config = c] =>
                    /\ call' \in Calls /\ call' # Idle
                    /\ call'.settings = call.settings /\ call'.rest = call.rest
                    /\ call'.open = TRUE /\ call'.config = c
<1>1. call \in Calls
  BY CallType
<1>2. \A c \in Calls : c # Idle
  BY DEF Calls, Idle
<1>3. Opened => /\ call' \in Calls
                /\ call'.settings = call.settings /\ call'.rest = call.rest
                /\ call'.open = TRUE /\ call'.config = call.config
  BY <1>1 DEF Opened, Calls
<1>4. ASSUME NEW s, Past(s)
      PROVE  /\ call' \in Calls
             /\ call'.settings = call.settings /\ call'.rest = call.rest \ {s}
             /\ call'.open = FALSE
  BY <1>1, <1>4 DEF Past, Calls
<1>5. ASSUME NEW c \in Index \cup {None}, call' = [call EXCEPT !.open = TRUE, !.config = c]
      PROVE  /\ call' \in Calls
             /\ call'.settings = call.settings /\ call'.rest = call.rest
             /\ call'.open = TRUE /\ call'.config = c
  BY <1>1, <1>5 DEF Calls
<1>6. QED
  BY <1>2, <1>3, <1>4, <1>5
LEMMA RightKept ==
    ASSUME NEW c, NEW rest, NEW o, NEW d, NEW e, Right(c, rest, o, d), "final" \in rest \/ e = d
    PROVE  Right(c, rest, o, e)
BY DEF Right

LEMMA RightSkip ==
    ASSUME NEW c, NEW rest, NEW o, NEW d, NEW s, s # "update", s # "final",
           Right(c, rest, o, d)
    PROVE  Right(c, rest \ {s}, o, d)
BY DEF Right

LEMMA RestStep ==
    ASSUME BuildInv, NEW s, Due(s), Past(s)
    PROVE  RestInv'
<1>1. /\ call'.settings = call.settings /\ call'.rest = call.rest \ {s}
      /\ call # Idle /\ TypeOK /\ RestInv
  BY DueFacts, NextCall DEF BuildInv
<1>2. call'.rest \subseteq Steps(call'.settings)
  BY <1>1 DEF RestInv
<1>3. ASSUME NEW t \in Files \cup {"index", "update", "remove_gate"}, t \in call'.rest
      PROVE  "final" \in call'.rest
  <2>1. "final" \in call.rest
    BY <1>1, <1>3 DEF RestInv
  <2>2. s # "final"
    BY <1>1, <1>3, DueFacts
  <2>3. QED
    BY <1>1, <2>1, <2>2
<1>4. ASSUME "index" \in call'.rest, NeedsWeights(call'.settings) PROVE "update" \in call'.rest
  <2>1. "update" \in call.rest
    BY <1>1, <1>4 DEF RestInv
  <2>2. s # "update"
    BY <1>1, <1>4, DueFacts
  <2>3. QED
    BY <1>1, <2>1, <2>2
<1>5. QED
  BY <1>2, <1>3, <1>4 DEF RestInv

\* A step on a file, or on the marker, leaves the index as it is.
LEMMA IndexKept ==
    ASSUME BuildInv, NEW s \in Files \cup {"remove_gate", "mark"}, Due(s),
           Past(s) \/ (Opened /\ ~call.open), index' = index,
           disk' = disk \/ s # "mark"
    PROVE  IndexInv' /\ SumsInv'
<1>1. call # Idle /\ s \in call.rest /\ TypeOK /\ RestInv /\ IndexInv /\ SumsInv
  BY DueFacts DEF BuildInv
<1>2. \A t \in IndexSteps : ~Due(t)
  BY <1>1, DueFacts
<1>3. ~Rewriting
  BY <1>2 DEF Rewriting
<1>4. call' # Idle /\ call'.settings = call.settings
  BY <1>1, NextCall
<1>5. \A t \in IndexSteps : ~(call'.open /\ Due(t)')
  <2>1. CASE Past(s)
    BY <1>1, <2>1, NextCall
  <2>2. CASE Opened
    <3>1. call'.rest = call.rest
      BY <1>1, <2>2, NextCall
    <3>2. QED
      BY <1>1, <1>2, <1>4, <3>1 DEF Due
  <2>3. QED
    BY <2>1, <2>2
<1>6. ASSUME "index" \notin call'.rest
      PROVE  Right(index', call'.rest, call'.settings, disk')
  <2>1. call'.rest = call.rest \/ call'.rest = call.rest \ {s}
    BY <1>1, NextCall
  <2>2. s # "index" /\ s # "update" /\ s # "final"
    BY DEF Files
  <2>3. Right(index, call.rest, call.settings, disk)
    BY <1>1, <1>3, <1>6, <2>1, <2>2 DEF IndexInv
  <2>4. "final" \in call.rest \/ disk' = disk
    BY <1>1 DEF RestInv
  <2>5. Right(index, call.rest, call.settings, disk')
    BY <2>3, <2>4, RightKept
  <2>6. QED
    BY <1>4, <2>1, <2>2, <2>5, RightSkip
<1>7. IndexInv'
  BY <1>5, <1>6 DEF IndexInv
<1>8. SumsInv'
  BY <1>1, <1>5 DEF SumsInv, Sound
<1>9. QED
  BY <1>7, <1>8

LEMMA CreateFileInv ==
    ASSUME BuildInv, NEW f \in Files, CreateFile(f)
    PROVE  BuildInv'
<1>1. TypeOK /\ RestInv /\ FilesInv /\ Due(f) /\ Opened /\ ~call.open
  BY DEF BuildInv, CreateFile
<1>2. call # Idle /\ f \in call.rest
  BY <1>1, DueFacts
<1>3. /\ call' \in Calls /\ call' # Idle
      /\ call'.settings = call.settings /\ call'.rest = call.rest
  BY <1>1, <1>2, NextCall
<1>4. disk' = [disk EXCEPT ![f] = Torn]
  BY DEF CreateFile
<1>5. TypeOK'
  BY <1>1, <1>3, <1>4 DEF CreateFile, TypeOK, Contents
<1>6. RestInv'
  BY <1>1, <1>2, <1>3 DEF RestInv
<1>7. FilesInv'
  <2>1. call.settings \in Settings
    BY <1>1, <1>2, CallType
  <2>2. f \in Written(call.settings)
    BY <1>1, <1>2, <2>1, StepFacts DEF RestInv
  <2>3. ASSUME NEW g \in Written(call.settings), g \notin call.rest
        PROVE  disk'[g] = Good(call.settings.source)
    <3>1. g \in Files /\ g # f
      BY <1>2, <2>1, <2>3, StepFacts
    <3>2. QED
      BY <1>1, <1>2, <1>4, <2>3, <3>1 DEF TypeOK, FilesInv
  <2>4. ASSUME call.settings.drop, "remove_gate" \notin call.rest
        PROVE  disk'["gate_vectors"] = Absent
    <3>1. "gate_vectors" \in Files /\ f # "gate_vectors"
      BY <2>1, <2>2, <2>4, StepFacts DEF Files
    <3>2. QED
      BY <1>1, <1>2, <1>4, <2>4, <3>1 DEF TypeOK, FilesInv
  <2>5. QED
    BY <1>3, <2>3, <2>4 DEF FilesInv
<1>8. IndexInv' /\ SumsInv'
  <2>1. f # "mark" /\ index' = index
    BY DEF Files, CreateFile
  <2>2. QED
    BY <1>1, <2>1, IndexKept
<1>9. QED
  BY <1>5, <1>6, <1>7, <1>8 DEF BuildInv

LEMMA WriteFileInv ==
    ASSUME BuildInv, NEW f \in Files, WriteFile(f)
    PROVE  BuildInv'
<1>1. TypeOK /\ RestInv /\ FilesInv /\ Due(f) /\ Past(f)
  BY DEF BuildInv, WriteFile
<1>2. call # Idle /\ f \in call.rest
  BY <1>1, DueFacts
<1>3. /\ call' \in Calls /\ call' # Idle
      /\ call'.settings = call.settings /\ call'.rest = call.rest \ {f}
  BY <1>1, <1>2, NextCall
<1>4. disk' = [disk EXCEPT ![f] = Good(call.settings.source)]
  BY DEF WriteFile
<1>5. call.settings \in Settings /\ call.settings.source \in Sources
  BY <1>1, <1>2, CallType DEF Settings
<1>6. TypeOK'
  <2>1. Good(call.settings.source) \in Contents
    BY <1>5 DEF Contents
  <2>2. QED
    BY <1>1, <1>3, <1>4, <2>1 DEF WriteFile, TypeOK
<1>7. RestInv'
  BY <1>1, RestStep
<1>8. FilesInv'
  <2>1. f \in Written(call.settings)
    BY <1>1, <1>2, <1>5, StepFacts DEF RestInv
  <2>2. ASSUME NEW g \in Written(call.settings), g \notin call.rest \ {f}
        PROVE  disk'[g] = Good(call.settings.source)
    <3>1. g \in Files
      BY <1>5, StepFacts
    <3>2. CASE g = f
      BY <1>1, <1>4, <3>1, <3>2 DEF TypeOK
    <3>3. CASE g # f
      BY <1>1, <1>2, <1>4, <2>2, <3>1, <3>3 DEF TypeOK, FilesInv
    <3>4. QED
      BY <3>2, <3>3
  <2>3. ASSUME call.settings.drop, "remove_gate" \notin call.rest \ {f}
        PROVE  disk'["gate_vectors"] = Absent
    <3>1. "gate_vectors" \in Files /\ f # "gate_vectors" /\ f # "remove_gate"
      BY <1>5, <2>1, <2>3, StepFacts DEF Files
    <3>2. QED
      BY <1>1, <1>2, <1>4, <2>3, <3>1 DEF TypeOK, FilesInv
  <2>4. QED
    BY <1>3, <2>2, <2>3 DEF FilesInv
<1>9. IndexInv' /\ SumsInv'
  <2>1. f # "mark" /\ index' = index
    BY DEF Files, WriteFile
  <2>2. QED
    BY <1>1, <2>1, IndexKept
<1>10. QED
  BY <1>6, <1>7, <1>8, <1>9 DEF BuildInv

LEMMA RemoveGateInv ==
    ASSUME BuildInv, RemoveGate
    PROVE  BuildInv'
<1> DEFINE s == "remove_gate"
<1>1. TypeOK /\ RestInv /\ FilesInv /\ Due(s) /\ Past(s)
  BY DEF BuildInv, RemoveGate
<1>2. call # Idle /\ s \in call.rest
  BY <1>1, DueFacts
<1>3. /\ call' \in Calls /\ call' # Idle
      /\ call'.settings = call.settings /\ call'.rest = call.rest \ {s}
  BY <1>1, <1>2, NextCall
<1>4. disk' = [disk EXCEPT !["gate_vectors"] = Absent] /\ "gate_vectors" \in Files
  BY DEF RemoveGate, Files
<1>5. TypeOK'
  BY <1>1, <1>3, <1>4 DEF RemoveGate, TypeOK, Contents
<1>6. RestInv'
  BY <1>1, RestStep
<1>7. FilesInv'
  <2>1. call.settings \in Settings
    BY <1>1, <1>2, CallType
  <2>2. call.settings.drop
    BY <1>1, <1>2, <2>1, StepFacts DEF RestInv
  <2>3. disk'["gate_vectors"] = Absent
    BY <1>1, <1>4 DEF TypeOK
  <2>4. ASSUME NEW g \in Written(call.settings), g \notin call.rest \ {s}
        PROVE  disk'[g] = Good(call.settings.source)
    <3>1. g \in Files /\ g # "gate_vectors" /\ g # s
      BY <2>1, <2>2, StepFacts DEF Files
    <3>2. QED
      BY <1>1, <1>2, <1>4, <2>4, <3>1 DEF TypeOK, FilesInv
  <2>5. QED
    BY <1>3, <2>3, <2>4 DEF FilesInv
<1>8. IndexInv' /\ SumsInv'
  <2>1. index' = index
    BY DEF RemoveGate
  <2>2. QED
    BY <1>1, <2>1, IndexKept
<1>9. QED
  BY <1>5, <1>6, <1>7, <1>8 DEF BuildInv

LEMMA MarkInv ==
    ASSUME BuildInv, Mark
    PROVE  BuildInv'
<1> DEFINE s == "mark"
<1>1. TypeOK /\ FilesInv /\ Due(s) /\ Past(s) /\ UNCHANGED <<disk, index>>
  BY DEF BuildInv, Mark
<1>2. call # Idle
  BY <1>1, DueFacts
<1>3. /\ call' \in Calls /\ call' # Idle
      /\ call'.settings = call.settings /\ call'.rest = call.rest \ {s}
  BY <1>1, <1>2, NextCall
<1>4. TypeOK'
  BY <1>1, <1>3 DEF Mark, TypeOK
<1>5. RestInv'
  BY <1>1, RestStep
<1>6. FilesInv'
  <2>1. s \notin Files /\ Written(call.settings) \subseteq Files
    BY <1>1, <1>2, CallType, StepFacts DEF Files
  <2>2. QED
    BY <1>1, <1>2, <1>3, <2>1 DEF FilesInv
<1>7. IndexInv' /\ SumsInv'
  BY <1>1, IndexKept
<1>8. QED
  BY <1>4, <1>5, <1>6, <1>7 DEF BuildInv

\* The index that a build is about to write.
LEMMA ConfigFacts ==
    ASSUME BuildInv, NEW s \in IndexSteps, Due(s), ~call.open, NEW c \in Configs(s)
    PROVE  Right(c, call.rest \ {s}, call.settings, disk) /\ Sound(c)
<1> DEFINE o == call.settings
<1>1. call # Idle /\ s \in call.rest /\ TypeOK /\ RestInv /\ FilesInv /\ IndexInv
  BY DueFacts DEF BuildInv
<1>2. o \in Settings /\ call.rest \subseteq Steps(o)
  BY <1>1, CallType DEF RestInv
<1>3. "index" \notin call.rest => Right(index, call.rest, o, disk)
  BY <1>1 DEF IndexInv, Rewriting
<1>4. CASE s = "index"
  <2>1. c = [kind |-> "index", settings |-> o, weights |-> FALSE, sums |-> None]
    BY <1>4 DEF Configs
  <2>2. c \in Index /\ c.settings = o /\ c.weights = FALSE /\ c.sums = None
    BY <1>2, <2>1 DEF Index
  <2>3. ~(NeedsWeights(o) /\ "update" \notin call.rest \ {s})
    BY <1>1, <1>4 DEF RestInv
  <2>4. QED
    BY <2>2, <2>3 DEF Right, Sound
<1>5. CASE s = "update"
  <2>1. Right(index, call.rest, o, disk) /\ "final" \in call.rest
    BY <1>1, <1>3, <1>5, DueFacts DEF RestInv
  <2>2. c = [index EXCEPT !.weights = TRUE]
    BY <1>5 DEF Configs
  <2>3. c \in Index /\ c.settings = o /\ c.weights = TRUE /\ c.sums = None
    BY <2>1, <2>2 DEF Right, Index
  <2>4. NeedsWeights(o) /\ "update" \notin call.rest \ {s}
    BY <1>1, <1>2, <1>5, StepFacts
  <2>5. QED
    BY <2>3, <2>4 DEF Right, Sound
<1>6. CASE s = "final"
  <2> DEFINE now == [f \in Checked |-> disk[f]]
  <2>1. \A t \in Files \cup {"index", "update", "remove_gate"} : t \notin call.rest
    BY <1>1, <1>6, DueFacts
  <2>2. Right(index, call.rest, o, disk)
    BY <1>3, <2>1
  <2>3. PICK sums \in {None, now} : c = [index EXCEPT !.sums = sums]
    BY <1>6 DEF Configs
  <2>4. Checked \subseteq Files
    BY DEF Checked, Files
  <2>5. now \in Sums
    BY <1>1, <2>4 DEF TypeOK, Sums
  <2>6. /\ c \in Index /\ c.settings = o /\ c.weights = index.weights /\ c.sums = sums
    BY <2>2, <2>3, <2>5 DEF Right, Index
  <2>7. c.weights <=> NeedsWeights(o) /\ "update" \notin call.rest \ {s}
    BY <1>6, <2>2, <2>6 DEF Right
  <2>8. Right(c, call.rest \ {s}, o, disk)
    BY <1>6, <2>6, <2>7 DEF Right
  <2>9. ASSUME NEW f \in Written(o) \cap Checked PROVE now[f] = Good(o.source)
    BY <1>1, <2>1, <2>4 DEF FilesInv
  <2>10. Sound(c)
    BY <2>6, <2>9 DEF Sound
  <2>11. QED
    BY <2>8, <2>10
<1>7. QED
  BY <1>4, <1>5, <1>6 DEF IndexSteps

LEMMA CreateIndexInv ==
    ASSUME BuildInv, NEW s \in IndexSteps, CreateIndex(s)
    PROVE  BuildInv'
<1>1. TypeOK /\ RestInv /\ FilesInv /\ Due(s) /\ ~call.open
  BY DEF BuildInv, CreateIndex
<1>2. call # Idle /\ s \in call.rest
  BY <1>1, DueFacts
<1>3. PICK c \in Configs(s) : call' = [call EXCEPT !.open = TRUE, !.config = c]
  BY DEF CreateIndex
<1>4. Right(c, call.rest \ {s}, call.settings, disk) /\ Sound(c) /\ c \in Index
  BY <1>1, ConfigFacts DEF Right
<1>5. /\ call' \in Calls /\ call' # Idle
      /\ call'.settings = call.settings /\ call'.rest = call.rest
      /\ call'.open = TRUE /\ call'.config = c
  BY <1>1, <1>2, <1>3, <1>4, NextCall
<1>6. disk' = disk /\ index' = Torn
  BY DEF CreateIndex
<1>7. TypeOK'
  BY <1>1, <1>5 DEF CreateIndex, TypeOK
<1>8. RestInv' /\ FilesInv'
  BY <1>1, <1>2, <1>5, <1>6 DEF RestInv, FilesInv
<1>9. \A t : Due(t)' <=> Due(t)
  BY <1>2, <1>5 DEF Due
<1>10. \A t \in IndexSteps : Due(t) => t = s
  BY <1>1, DueFacts
<1>11. Rewriting'
  BY <1>1, <1>5, <1>9 DEF Rewriting
<1>12. ASSUME NEW t \in IndexSteps, Due(t)'
       PROVE  Right(call'.config, call'.rest \ {t}, call'.settings, disk')
  BY <1>4, <1>5, <1>6, <1>9, <1>10, <1>12
<1>13. IndexInv'
  BY <1>11, <1>12 DEF IndexInv
<1>14. SumsInv'
  <2>1. index' \notin Index
    BY <1>6 DEF Index, Torn
  <2>2. Sound(call'.config)
    BY <1>4, <1>5
  <2>3. Sound(call.config)'
    BY <2>2 DEF Sound
  <2>4. QED
    BY <2>1, <2>3 DEF SumsInv
<1>15. QED
  BY <1>7, <1>8, <1>13, <1>14 DEF BuildInv

LEMMA WriteIndexInv ==
    ASSUME BuildInv, NEW s \in IndexSteps, WriteIndex(s)
    PROVE  BuildInv'
<1>1. TypeOK /\ FilesInv /\ IndexInv /\ SumsInv /\ Due(s) /\ call.open /\ Past(s)
  BY DEF BuildInv, WriteIndex
<1>2. call # Idle /\ s \in call.rest
  BY <1>1, DueFacts
<1>3. /\ call' \in Calls /\ call' # Idle
      /\ call'.settings = call.settings /\ call'.rest = call.rest \ {s}
      /\ call'.open = FALSE
  BY <1>1, <1>2, NextCall
<1>4. disk' = disk /\ index' = call.config
  BY DEF WriteIndex
<1>5. Right(index', call'.rest, call'.settings, disk') /\ Sound(index')
  BY <1>1, <1>2, <1>3, <1>4 DEF IndexInv, SumsInv
<1>6. TypeOK'
  BY <1>1, <1>3, <1>5 DEF WriteIndex, TypeOK, Right
<1>7. RestInv'
  BY <1>1, RestStep
<1>8. FilesInv'
  <2>1. s \notin Files /\ s # "remove_gate" /\ Written(call.settings) \subseteq Files
    BY <1>1, <1>2, CallType, StepFacts DEF Files, IndexSteps
  <2>2. QED
    BY <1>1, <1>2, <1>3, <1>4, <2>1 DEF FilesInv
<1>9. IndexInv'
  BY <1>3, <1>5 DEF IndexInv
<1>10. SumsInv'
  BY <1>3, <1>5 DEF SumsInv, Sound
<1>11. QED
  BY <1>6, <1>7, <1>8, <1>9, <1>10 DEF BuildInv

LEMMA StartsInv ==
    ASSUME BuildInv, NEW o \in Settings, Starts(o, Steps(o))
    PROVE  BuildInv'
<1>1. TypeOK /\ SumsInv
  BY DEF BuildInv
<1>2. call' = [kind |-> "call", settings |-> o, rest |-> Steps(o), open |-> FALSE, config |-> None]
  BY DEF Starts
<1>3. /\ call' \in Calls /\ call'.settings = o /\ call'.rest = Steps(o) /\ call'.open = FALSE
  BY <1>2, StepFacts DEF Calls
<1>4. disk' = disk /\ index' = index
  BY DEF Starts
<1>5. TypeOK'
  <2>1. builds' \in 0 .. MaxBuilds
    BY <1>1, BuildAssumption DEF Starts, TypeOK
  <2>2. QED
    BY <1>1, <1>3, <2>1 DEF Starts, TypeOK
<1>6. RestInv'
  BY <1>3, StepFacts DEF RestInv
<1>7. FilesInv'
  <2>1. \A f \in Written(o) : f \in Steps(o)
    BY StepFacts
  <2>2. o.drop => "remove_gate" \in Steps(o)
    BY StepFacts
  <2>3. QED
    BY <1>3, <2>1, <2>2 DEF FilesInv
<1>8. IndexInv'
  BY <1>3, StepFacts DEF IndexInv
<1>9. SumsInv'
  BY <1>1, <1>3, <1>4 DEF SumsInv, Sound
<1>10. QED
  BY <1>5, <1>6, <1>7, <1>8, <1>9 DEF BuildInv

\* Where no build runs, only the sums of the index are left to be right.
LEMMA IdleInv ==
    ASSUME BuildInv, TypeOK', call' = Idle, index' = index
    PROVE  BuildInv'
<1>1. SumsInv'
  BY DEF BuildInv, SumsInv, Sound
<1>2. QED
  BY <1>1 DEF BuildInv, RestInv, FilesInv, IndexInv

LEMMA EndInv ==
    ASSUME BuildInv, (\E o \in Settings : ResumeComplete(o)) \/ Finish \/ Stop
    PROVE  BuildInv'
<1>1. TypeOK
  BY DEF BuildInv
<1>2. CASE \E o \in Settings : ResumeComplete(o)
  <2>1. PICK o \in Settings : ResumeComplete(o)
    BY <1>2
  <2>2. outcome' \in Outcomes
    BY <2>1 DEF ResumeComplete, Outcomes
  <2>3. TypeOK' /\ call' = Idle /\ index' = index
    BY <1>1, <2>1, <2>2 DEF ResumeComplete, TypeOK
  <2>4. QED
    BY <2>3, IdleInv
<1>3. CASE Finish
  <2>1. outcome' \in Outcomes
    BY <1>1, <1>3, CallType DEF Finish, Outcomes
  <2>2. TypeOK' /\ call' = Idle /\ index' = index
    BY <1>1, <1>3, <2>1 DEF Finish, TypeOK
  <2>3. QED
    BY <2>2, IdleInv
<1>4. CASE Stop
  <2>1. outcome' \in Outcomes
    BY <1>1, <1>4, CallType DEF Stop, Outcomes
  <2>2. TypeOK' /\ call' = Idle /\ index' = index
    BY <1>1, <1>4, <2>1 DEF Stop, TypeOK
  <2>3. QED
    BY <2>2, IdleInv
<1>5. QED
  BY <1>2, <1>3, <1>4

LEMMA InitInv ==
    ASSUME Init
    PROVE  BuildInv
<1>1. index \notin Index
  <2>1. \A c \in Index : c.kind = "index"
    BY DEF Index
  <2>2. index.kind = "absent"
    BY DEF Init, Absent
  <2>3. QED
    BY <2>1, <2>2
<1>2. disk \in [Files -> Contents] /\ builds \in 0 .. MaxBuilds
  BY BuildAssumption DEF Init, Contents
<1>3. TypeOK
  BY <1>2 DEF Init, TypeOK
<1>4. QED
  BY <1>1, <1>3 DEF Init, BuildInv, RestInv, FilesInv, IndexInv, SumsInv

LEMMA NextInv ==
    ASSUME BuildInv, [Next]_vars
    PROVE  BuildInv'
<1>1. ASSUME NEW o \in Tried, StartBuild(o) \/ Resume(o) \/ ResumeComplete(o)
      PROVE  BuildInv'
  <2>1. o \in Settings
    BY BuildAssumption
  <2>2. QED
    BY <1>1, <2>1, StartsInv, EndInv DEF StartBuild, Resume
<1>2. ASSUME NEW f \in Files, CreateFile(f) \/ WriteFile(f) PROVE BuildInv'
  BY <1>2, CreateFileInv, WriteFileInv
<1>3. ASSUME NEW s \in IndexSteps, CreateIndex(s) \/ WriteIndex(s) PROVE BuildInv'
  BY <1>3, CreateIndexInv, WriteIndexInv
<1>4. CASE RemoveGate \/ Mark
  BY <1>4, RemoveGateInv, MarkInv
<1>5. CASE Finish \/ Stop
  BY <1>5, EndInv
<1>6. CASE UNCHANGED vars
  BY <1>6 DEF vars, BuildInv, TypeOK, RestInv, FilesInv, IndexInv, SumsInv, Sound, Right,
              Rewriting, Due
<1>7. QED
  BY <1>1, <1>2, <1>3, <1>4, <1>5, <1>6 DEF Next

----------------------------------------------------------------------------
(* The theorems *)

LEMMA BuildInvAlways == Spec => []BuildInv
<1>1. Init => BuildInv
  BY InitInv
<1>2. BuildInv /\ [Next]_vars => BuildInv'
  BY NextInv
<1>3. QED
  BY <1>1, <1>2, PTL DEF Spec

\* Every state that the builds of the directory reach has the types of TypeOK.
THEOREM TypeCorrect == Spec => []TypeOK
<1>1. BuildInv => TypeOK
  BY DEF BuildInv
<1>2. QED
  BY <1>1, BuildInvAlways, PTL

LEMMA SoundTells ==
    ASSUME BuildInv
    PROVE  VerifyTells
<1> SUFFICES ASSUME Verified, NEW f \in Written(index.settings) \cap Checked
             PROVE  disk[f] = Good(index.settings.source)
  BY DEF VerifyTells
<1>1. index \in Index
  BY DEF BuildInv, TypeOK, Verified, Absent, Torn
<1>2. index.sums[f] = Good(index.settings.source)
  BY <1>1 DEF BuildInv, SumsInv, Sound, Verified
<1>3. index.sums[f] # Absent
  BY <1>2 DEF Good, Absent
<1>4. QED
  BY <1>2, <1>3 DEF Verified

\* verify_checksums: a directory it finds nothing wrong with holds, in the files the
\* checksums cover, what a build of the settings in its index writes, whatever was
\* built in it before and wherever that was stopped.
THEOREM VerifyTellsAlways == Spec => []VerifyTells
<1>1. BuildInv => VerifyTells
  BY SoundTells
<1>2. QED
  BY <1>1, BuildInvAlways, PTL

\* What a build reports, with the history that makes it inductive.
ReportInv ==
    /\ call # Idle => begun
    /\ ReportedIsWhole

\* With no step left, what the build has done so far is all it does.
LEMMA FinishedIntact ==
    ASSUME BuildInv, call # Idle, call.rest = {}
    PROVE  Intact(call.settings)
<1> DEFINE o == call.settings
<1>1. TypeOK /\ FilesInv /\ IndexInv
  BY DEF BuildInv
<1>2. \A f \in Written(o) : disk[f] = Good(o.source)
  BY <1>1 DEF FilesInv
<1>3. o.drop => disk["gate_vectors"] = Absent
  BY <1>1 DEF FilesInv
<1>4. ~Rewriting
  BY DEF Rewriting, Due
<1>5. Right(index, {}, o, disk)
  BY <1>1, <1>4 DEF IndexInv
<1>6. index \in Index /\ index.settings = o /\ index.sums \in {None, [f \in Checked |-> disk[f]]}
  BY <1>5 DEF Right
<1>7. index.weights <=> NeedsWeights(o)
  BY <1>5 DEF Right
<1>8. index.weights = NeedsWeights(o) /\ index.kind = "index"
  BY <1>6, <1>7 DEF Index, NeedsWeights
<1>9. QED
  BY <1>2, <1>3, <1>6, <1>8 DEF Intact

LEMMA ReportStep ==
    ASSUME BuildInv, ReportInv, [Next]_vars
    PROVE  ReportInv'
<1>1. CASE \E o \in Tried : StartBuild(o) \/ Resume(o)
  <2>1. PICK o \in Tried : Starts(o, Steps(o))
    BY <1>1 DEF StartBuild, Resume
  <2>2. begun' /\ call' # Idle
    BY <2>1 DEF Starts, Idle
  <2>3. QED
    BY <2>2 DEF ReportInv, ReportedIsWhole
<1>2. CASE \E o \in Tried : ResumeComplete(o)
  <2>1. PICK o \in Tried : ResumeComplete(o)
    BY <1>2
  <2>2. outcome'.kind = "skipped" /\ call' = call /\ UNCHANGED <<disk, index, complete, begun>>
    BY <2>1 DEF ResumeComplete
  <2>3. QED
    BY <2>2 DEF ReportInv, ReportedIsWhole, Intact
<1>3. CASE Finish
  <2>1. PICK o \in Settings : o = call.settings /\ Intact(o)
    BY <1>3, FinishedIntact, CallType DEF Finish, BuildInv
  <2>2. call' = Idle /\ outcome'.settings = o /\ UNCHANGED <<disk, index>>
    BY <1>3, <2>1 DEF Finish
  <2>3. Intact(o)'
    BY <2>1, <2>2 DEF Intact
  <2>4. Intact(outcome.settings)'
    BY <2>2, <2>3 DEF Intact
  <2>5. QED
    BY <2>2, <2>3, <2>4 DEF ReportInv, ReportedIsWhole
<1>4. CASE Stop
  <2>1. call' = Idle /\ outcome'.kind = "stopped" /\ begun' = begun /\ begun
    BY <1>4 DEF Stop, ReportInv
  <2>2. QED
    BY <2>1 DEF ReportInv, ReportedIsWhole
<1>5. CASE \/ \E f \in Files : CreateFile(f) \/ WriteFile(f)
           \/ \E s \in IndexSteps : CreateIndex(s) \/ WriteIndex(s)
           \/ RemoveGate \/ Mark
  <2>1. TypeOK
    BY DEF BuildInv
  <2>2. call # Idle /\ begun' = begun
    BY <1>5 DEF CreateFile, WriteFile, CreateIndex, WriteIndex, RemoveGate, Mark, Due
  <2>3. call' # Idle
    <3>1. CASE \E s \in IndexSteps : CreateIndex(s)
      <4>1. PICK s \in IndexSteps : CreateIndex(s)
        BY <3>1
      <4>2. PICK c \in Configs(s) : call' = [call EXCEPT !.open = TRUE, !.config = c]
        BY <4>1 DEF CreateIndex
      <4>3. c \in Index
        BY <4>1, ConfigFacts DEF CreateIndex, Right
      <4>4. QED
        BY <2>1, <2>2, <4>2, <4>3, NextCall
    <3>2. CASE Opened \/ \E s : Past(s)
      BY <2>1, <2>2, <3>2, NextCall
    <3>3. QED
      BY <1>5, <3>1, <3>2 DEF CreateFile, WriteFile, WriteIndex, RemoveGate, Mark
  <2>4. QED
    BY <2>2, <2>3 DEF ReportInv, ReportedIsWhole
<1>6. CASE UNCHANGED vars
  BY <1>6 DEF vars, ReportInv, ReportedIsWhole, Intact
<1>7. QED
  BY <1>1, <1>2, <1>3, <1>4, <1>5, <1>6 DEF Next

\* build_vindex_streaming, its resume and build_vindex: a build that reports success
\* leaves an intact vindex, whatever it found in the directory; and a resume reports
\* success at the marker of a complete build only over an intact vindex, if no build
\* was stopped since the last one that finished.
THEOREM ReportedIsWholeAlways == Spec => []ReportedIsWhole
<1>1. Init => ReportInv
  BY DEF Init, ReportInv, ReportedIsWhole, NoOutcome
<1>2. ReportInv /\ BuildInv /\ [Next]_vars => ReportInv'
  BY ReportStep
<1>3. ReportInv => ReportedIsWhole
  BY DEF ReportInv
<1>4. QED
  BY <1>1, <1>2, <1>3, BuildInvAlways, PTL DEF Spec

----------------------------------------------------------------------------
(* The edits of an index: VindexEdit *)

\* What is on the heap, over the mapped file, is what the edits meant; metadata is
\* on the heap for the slots that carry it, and nothing of it for a layer that
\* was only mapped.
HeapInv ==
    stage # "closed" =>
        /\ Edits!GateMatrix = meant.gate
        /\ down_meta # Missing =>
             /\ carried # {}
             /\ \A f \in Slots :
                  down_meta[f] = IF f \in carried THEN meant.meta[f] ELSE Empty
        /\ down_meta = Missing => carried = {} /\ meant.meta = down_meta_mmap

\* The mapped vectors are those of the slots that were not edited, and so are those
\* of which a graph was built.
MappedInv ==
    /\ gate_mmap # Missing => \A f \in Slots \ edited : gate_mmap[f] = Edits!GateMatrix[f]
    /\ hnsw_cache # Missing => \A f \in Slots \ edited : hnsw_cache[f] = Edits!GateMatrix[f]
    /\ warmed # Missing => dtype = "f16"

\* How far a save that runs has come.
SaveInv ==
    /\ stage \in {"down_meta", "index"} =>
         /\ ~saved
         /\ goal = Edits!Meant
         /\ Edits!LoadedGates = goal.gate
    /\ stage = "index" => meta_file = goal.meta
    /\ Edits!SaveKeepsEdits

EditInv == Edits!TypeOK /\ HeapInv /\ MappedInv /\ SaveInv

USE DEF Edits!Gates, Edits!StoredMetas, Edits!Metas, Edits!Contents, Edits!Dtypes

LEMMA EditInit ==
    ASSUME Edits!EditAssumption, Edits!Init
    PROVE  EditInv
<1>1. FirstGates \in Edits!Gates /\ FirstMetas \in Edits!Metas /\ FirstMetas \in Edits!StoredMetas
  BY DEF Edits!EditAssumption
<1>2. Edits!First \in Edits!Contents
  BY <1>1 DEF Edits!First
<1>3. Edits!TypeOK
  BY <1>1, <1>2 DEF Edits!EditAssumption, Edits!Init, Edits!TypeOK
<1>4. HeapInv /\ MappedInv
  BY DEF HeapInv, MappedInv, Edits!Init
<1>5. Edits!LoadedGates = FirstGates /\ Edits!Loaded = Edits!First
  BY DEF Edits!Init, Edits!LoadedGates, Edits!Loaded, Edits!First
<1>6. Edits!SaveKeepsEdits
  BY <1>5 DEF Edits!Init, Edits!SaveKeepsEdits, Edits!First
<1>7. SaveInv
  BY <1>6 DEF SaveInv, Edits!Init
<1>8. QED
  BY <1>3, <1>4, <1>7 DEF EditInv

\* The types of what the readers return.
LEMMA ReaderTypes ==
    ASSUME Edits!EditAssumption, Edits!TypeOK
    PROVE  /\ Edits!LoadedGates \in Edits!Gates
           /\ stage # "closed" => Edits!GateMatrix \in Edits!Gates
           /\ Edits!HeapMetas \in Edits!Metas
           /\ stage # "closed" => \A f \in Slots : Edits!FeatureMeta(f) \in Tokens \cup Facts \cup {Empty}
           /\ \A m \in Tokens \cup Facts \cup {Empty} : Edits!Stored(m) \in Tokens \cup {Empty}
           /\ Edits!StoredMeta \in Edits!StoredMetas
           /\ Edits!Meant \in [gate : Edits!Gates, meta : Edits!StoredMetas]
           /\ [gate : Edits!Gates, meta : Edits!StoredMetas] \subseteq Edits!Contents
<1>1. Edits!LoadedGates \in Edits!Gates
  BY DEF Edits!TypeOK, Edits!LoadedGates
<1>2. stage # "closed" => Edits!GateMatrix \in Edits!Gates
  BY DEF Edits!TypeOK, Edits!GateMatrix
<1>3. Edits!HeapMetas \in Edits!Metas
  BY DEF Edits!TypeOK, Edits!HeapMetas
<1>4. ASSUME stage # "closed", NEW f \in Slots
      PROVE  Edits!FeatureMeta(f) \in Tokens \cup Facts \cup {Empty}
  BY <1>4 DEF Edits!TypeOK, Edits!FeatureMeta
<1>5. ASSUME NEW m \in Tokens \cup Facts \cup {Empty}
      PROVE  Edits!Stored(m) \in Tokens \cup {Empty}
  BY DEF Edits!EditAssumption, Edits!Stored
<1>6. Edits!StoredMeta \in Edits!StoredMetas
  BY <1>3, <1>5 DEF Edits!StoredMeta
<1>7. Edits!Meant \in [gate : Edits!Gates, meta : Edits!StoredMetas]
  BY <1>5 DEF Edits!TypeOK, Edits!Meant
<1>8. [gate : Edits!Gates, meta : Edits!StoredMetas] \subseteq Edits!Contents
  OBVIOUS
<1>9. QED
  BY <1>1, <1>2, <1>3, <1>4, <1>5, <1>6, <1>7, <1>8

\* A step that leaves the directory and the last save as they are.
LEMMA SaveStays ==
    ASSUME SaveInv, stage' \notin {"down_meta", "index"},
           UNCHANGED <<dtype, gate_file, meta_file, before, goal, saved>>
    PROVE  SaveInv'
BY DEF SaveInv, Edits!SaveKeepsEdits, Edits!LoadedGates, Edits!Loaded

LEMMA LoadKeeps ==
    ASSUME Edits!EditAssumption, EditInv, Edits!Load
    PROVE  EditInv'
<1>1. Edits!TypeOK /\ Edits!LoadedGates \in Edits!Gates /\ meta_file \in Edits!StoredMetas
  BY ReaderTypes DEF EditInv, Edits!TypeOK
<1>2. Edits!LoadedGates # Missing /\ meta_file # Missing /\ meta_file \in Edits!Metas
  BY <1>1 DEF Edits!EditAssumption
<1>3. Edits!TypeOK'
  BY <1>1, <1>2 DEF Edits!TypeOK, Edits!Load, Edits!disk, Edits!saves
<1>4. HeapInv' /\ MappedInv'
  BY <1>1, <1>2 DEF HeapInv, MappedInv, Edits!Load, Edits!GateMatrix
<1>5. SaveInv'
  BY SaveStays DEF EditInv, Edits!Load, Edits!disk, Edits!saves
<1>6. QED
  BY <1>3, <1>4, <1>5 DEF EditInv

LEMMA SetGateKeeps ==
    ASSUME Edits!EditAssumption, EditInv, NEW f \in Slots, NEW v \in Vectors, Edits!SetGate(f, v)
    PROVE  EditInv'
<1>1. stage = "open" /\ Edits!TypeOK /\ Edits!GateMatrix \in Edits!Gates
      /\ Edits!GateMatrix = meant.gate
  BY ReaderTypes DEF EditInv, HeapInv, Edits!SetGate, Edits!Edit
<1>2. [Edits!GateMatrix EXCEPT ![f] = v] \in Edits!Gates
      /\ [Edits!GateMatrix EXCEPT ![f] = v] # Missing
  BY <1>1 DEF Edits!EditAssumption
<1>3. meant' \in Edits!Contents /\ meant'.gate = [Edits!GateMatrix EXCEPT ![f] = v]
      /\ meant'.meta = meant.meta
  BY <1>1, <1>2 DEF Edits!SetGate, Edits!TypeOK
<1>4. Edits!TypeOK'
  BY <1>1, <1>2, <1>3 DEF Edits!TypeOK, Edits!SetGate, Edits!Edit, Edits!disk, Edits!saves,
     Edits!EditAssumption
<1>5. Edits!GateMatrix' = [Edits!GateMatrix EXCEPT ![f] = v]
  BY <1>2 DEF Edits!GateMatrix, Edits!SetGate
<1>6. HeapInv'
  BY <1>1, <1>3, <1>5 DEF EditInv, HeapInv, Edits!SetGate, Edits!Edit
<1>7. MappedInv'
  BY <1>1, <1>5 DEF EditInv, MappedInv, Edits!SetGate, Edits!Edit, Edits!disk
<1>8. SaveInv'
  BY <1>1, SaveStays DEF EditInv, Edits!SetGate, Edits!Edit, Edits!disk, Edits!saves
<1>9. QED
  BY <1>4, <1>6, <1>7, <1>8 DEF EditInv

\* The metadata of a slot is set on the heap: to a token, or to nothing.
LEMMA MetaKeeps ==
    ASSUME Edits!EditAssumption, EditInv,
           NEW f \in Slots, NEW m \in Tokens \cup {Empty}, Edits!Edit,
           down_meta' = [Edits!HeapMetas EXCEPT ![f] = m],
           meant' = [meant EXCEPT !.meta[f] = m],
           carried' = carried \cup {f},
           UNCHANGED <<gate_vectors, gate_mmap, warmed, hnsw_cache, down_meta_mmap, edited>>
    PROVE  EditInv'
<1>1. stage = "open" /\ Edits!TypeOK /\ Edits!HeapMetas \in Edits!Metas /\ meant \in Edits!Contents
  BY ReaderTypes DEF EditInv, Edits!TypeOK, Edits!Edit
<1>2. down_meta' \in Edits!Metas /\ down_meta' # Missing
  BY <1>1 DEF Edits!EditAssumption
<1>3. meant' \in Edits!Contents /\ meant'.gate = meant.gate
      /\ meant'.meta = [meant.meta EXCEPT ![f] = m]
  BY <1>1
<1>4. Edits!TypeOK'
  BY <1>1, <1>2, <1>3 DEF Edits!TypeOK, Edits!Edit, Edits!disk, Edits!saves, Edits!EditAssumption
<1>5. \A g \in Slots : Edits!HeapMetas[g] = IF g \in carried THEN meant.meta[g] ELSE Empty
  BY <1>1 DEF EditInv, HeapInv, Edits!HeapMetas
<1>6. HeapInv'
  BY <1>1, <1>2, <1>3, <1>5 DEF EditInv, HeapInv, Edits!Edit, Edits!GateMatrix
<1>7. MappedInv'
  BY DEF EditInv, MappedInv, Edits!GateMatrix, Edits!Edit, Edits!disk
<1>8. SaveInv'
  BY <1>1, SaveStays DEF EditInv, Edits!Edit, Edits!disk, Edits!saves
<1>9. QED
  BY <1>4, <1>6, <1>7, <1>8 DEF EditInv

\* Warming up and a copy change the decoded vectors and the graph alone.
LEMMA WarmKeeps ==
    ASSUME EditInv, Edits!Warmup \/ Edits!Clone
    PROVE  EditInv'
<1>1. Edits!TypeOK'
  BY DEF EditInv, Edits!TypeOK, Edits!Warmup, Edits!Clone, Edits!disk, Edits!saves
<1>2. HeapInv'
  BY DEF EditInv, HeapInv, Edits!GateMatrix, Edits!Warmup, Edits!Clone
<1>3. MappedInv'
  BY DEF EditInv, MappedInv, Edits!GateMatrix, Edits!Warmup, Edits!Clone, Edits!disk
<1>4. SaveInv'
  BY SaveStays DEF EditInv, Edits!Warmup, Edits!Clone, Edits!disk, Edits!saves
<1>5. QED
  BY <1>1, <1>2, <1>3, <1>4 DEF EditInv

\* A graph is built of vectors that are mapped, or as they were edited.
LEMMA GraphKeeps ==
    ASSUME Edits!EditAssumption, EditInv, Edits!BuildGraph
    PROVE  EditInv'
<1>1. stage = "open" /\ stage' = "open" /\ Edits!TypeOK /\ Edits!GateMatrix \in Edits!Gates
      /\ hnsw_cache' = Edits!Resolved
      /\ UNCHANGED <<dtype, readable, gate_file, meta_file, gate_vectors, gate_mmap, warmed,
                     down_meta, down_meta_mmap, meant, edited, carried, before, goal, saved,
                     edits>>
  BY ReaderTypes DEF EditInv, Edits!BuildGraph, Edits!disk, Edits!saves
<1>2. Edits!Resolved \in Edits!Gates
      /\ \A f \in Slots \ edited : Edits!Resolved[f] = Edits!GateMatrix[f]
  BY <1>1 DEF EditInv, MappedInv, Edits!TypeOK, Edits!Resolved
<1>3. Edits!TypeOK'
  BY <1>1, <1>2 DEF Edits!TypeOK
<1>4. HeapInv' /\ MappedInv'
  BY <1>1, <1>2 DEF EditInv, HeapInv, MappedInv, Edits!GateMatrix
<1>5. SaveInv'
  BY <1>1, SaveStays DEF EditInv
<1>6. QED
  BY <1>3, <1>4, <1>5 DEF EditInv

LEMMA BakeKeeps ==
    ASSUME Edits!EditAssumption, EditInv,
           NEW f \in Slots, NEW v \in Vectors \cup {Missing},
           NEW m \in Tokens \cup Facts \cup {Empty}, Edits!BakeDown(f, v, m)
    PROVE  EditInv'
<1> DEFINE base == IF down_meta # Missing THEN down_meta
                   ELSE [g \in Slots |-> Edits!FeatureMeta(g)]
<1>1. stage = "open" /\ Edits!TypeOK /\ Edits!GateMatrix \in Edits!Gates /\ meant \in Edits!Contents
      /\ Edits!GateMatrix = meant.gate
  BY ReaderTypes DEF EditInv, HeapInv, Edits!BakeDown, Edits!Edit, Edits!TypeOK
<1>2. base \in Edits!Metas
  BY <1>1, ReaderTypes DEF Edits!TypeOK
<1>3. gate_vectors' = IF v = Missing THEN Edits!GateMatrix ELSE [Edits!GateMatrix EXCEPT ![f] = v]
  BY DEF Edits!BakeDown
<1>4. gate_vectors' \in Edits!Gates /\ gate_vectors' # Missing
  BY <1>1, <1>3 DEF Edits!EditAssumption
<1>5. down_meta' = [base EXCEPT ![f] = m]
  BY DEF Edits!BakeDown
<1>6. down_meta' \in Edits!Metas /\ down_meta' # Missing
  BY <1>2, <1>5 DEF Edits!EditAssumption
<1>7. meant'.gate = gate_vectors' /\ meant'.meta = [meant.meta EXCEPT ![f] = m]
      /\ meant' \in Edits!Contents
  BY <1>1, <1>3, <1>4 DEF Edits!BakeDown
<1>8. Edits!TypeOK'
  BY <1>1, <1>4, <1>6, <1>7 DEF Edits!TypeOK, Edits!BakeDown, Edits!Edit, Edits!disk,
     Edits!saves, Edits!EditAssumption
<1>9. \A g \in Slots : base[g] =
        IF carried = {} \/ g \in carried THEN meant.meta[g] ELSE Empty
  <2>1. CASE down_meta # Missing
    BY <2>1, <1>1 DEF EditInv, HeapInv
  <2>2. CASE down_meta = Missing
    <3>1. down_meta_mmap # Missing /\ carried = {} /\ meant.meta = down_meta_mmap
      BY <2>2, <1>1 DEF EditInv, HeapInv, Edits!TypeOK
    <3>2. \A g \in Slots : Edits!FeatureMeta(g) = down_meta_mmap[g]
      BY <2>2, <3>1 DEF Edits!FeatureMeta
    <3>3. QED
      BY <2>2, <3>1, <3>2
  <2>3. QED
    BY <2>1, <2>2
<1>10. carried' = IF carried = {} THEN Slots ELSE carried \cup {f}
  BY DEF Edits!BakeDown
<1>11. \A g \in Slots : down_meta'[g] = IF g \in carried' THEN meant'.meta[g] ELSE Empty
  BY <1>1, <1>2, <1>5, <1>7, <1>9, <1>10
<1>12. HeapInv'
  BY <1>4, <1>6, <1>7, <1>10, <1>11 DEF HeapInv, Edits!GateMatrix
<1>13. MappedInv'
  BY DEF MappedInv, Edits!BakeDown
<1>14. SaveInv'
  BY <1>1, SaveStays DEF EditInv, Edits!BakeDown, Edits!Edit, Edits!disk, Edits!saves
<1>15. QED
  BY <1>8, <1>12, <1>13, <1>14 DEF EditInv

\* What save_down_meta writes is what a load shall show.
LEMMA StoredIsMeant ==
    ASSUME Edits!EditAssumption, EditInv, stage # "closed"
    PROVE  Edits!StoredMeta = Edits!Meant.meta
<1>1. \A f \in Slots : Edits!HeapMetas[f] = IF f \in carried THEN meant.meta[f] ELSE Empty
  BY DEF EditInv, HeapInv, Edits!HeapMetas
<1>2. Edits!Stored(Empty) = Empty
  BY DEF Edits!Stored, Edits!EditAssumption
<1>3. Edits!Meant.meta =
        [f \in Slots |-> IF f \in carried THEN Edits!Stored(meant.meta[f]) ELSE Empty]
  BY DEF Edits!Meant
<1>4. \A f \in Slots : Edits!Stored(Edits!HeapMetas[f]) =
        IF f \in carried THEN Edits!Stored(meant.meta[f]) ELSE Empty
  BY <1>1, <1>2
<1>5. QED
  BY <1>3, <1>4 DEF Edits!StoredMeta

LEMMA SaveGatesKeeps ==
    ASSUME Edits!EditAssumption, EditInv, Edits!SaveGates
    PROVE  EditInv'
<1>1. stage = "open" /\ stage' = "down_meta" /\ Edits!TypeOK
      /\ Edits!GateMatrix \in Edits!Gates /\ Edits!GateMatrix = meant.gate
      /\ UNCHANGED <<dtype, readable, meta_file, gate_vectors, gate_mmap, warmed, hnsw_cache,
                     down_meta, down_meta_mmap, meant, edited, carried, edits>>
  BY ReaderTypes DEF EditInv, HeapInv, Edits!SaveGates, Edits!memory
<1>2. before' = Edits!Loaded /\ goal' = Edits!Meant /\ saved' = FALSE
      /\ gate_file' = [vectors |-> Edits!GateMatrix, width |-> "f32"]
  BY DEF Edits!SaveGates
<1>3. before' \in Edits!Contents /\ goal' \in Edits!Contents
  BY <1>1, <1>2, ReaderTypes DEF Edits!Loaded, Edits!TypeOK
<1>4. Edits!TypeOK'
  BY <1>1, <1>2, <1>3 DEF Edits!TypeOK
<1>5. HeapInv' /\ MappedInv'
  BY <1>1 DEF EditInv, HeapInv, MappedInv, Edits!GateMatrix
<1>6. Edits!Meant' = Edits!Meant
  BY <1>1 DEF Edits!Meant, Edits!Stored
<1>7. Edits!LoadedGates' = goal'.gate
  BY <1>1, <1>2 DEF Edits!LoadedGates, Edits!Meant
<1>8. before'.meta = meta_file
  BY <1>2 DEF Edits!Loaded
<1>9. SaveInv'
  BY <1>1, <1>2, <1>6, <1>7, <1>8 DEF SaveInv, Edits!SaveKeepsEdits
<1>10. QED
  BY <1>4, <1>5, <1>9 DEF EditInv

LEMMA SaveMetaKeeps ==
    ASSUME Edits!EditAssumption, EditInv, Edits!SaveMeta
    PROVE  EditInv'
<1>1. stage = "down_meta" /\ stage' = "index" /\ Edits!TypeOK
      /\ meta_file' = Edits!StoredMeta
      /\ UNCHANGED <<dtype, readable, gate_file, gate_vectors, gate_mmap, warmed, hnsw_cache,
                     down_meta, down_meta_mmap, meant, edited, carried, before, goal, saved, edits>>
  BY DEF EditInv, Edits!SaveMeta, Edits!memory, Edits!saves
<1>2. Edits!TypeOK'
  BY <1>1, ReaderTypes DEF Edits!TypeOK
<1>3. HeapInv' /\ MappedInv'
  BY <1>1 DEF EditInv, HeapInv, MappedInv, Edits!GateMatrix
<1>4. Edits!Meant' = Edits!Meant /\ Edits!LoadedGates' = Edits!LoadedGates
  BY <1>1 DEF Edits!Meant, Edits!Stored, Edits!LoadedGates
<1>5. ~saved /\ goal = Edits!Meant /\ Edits!LoadedGates = goal.gate
  BY <1>1 DEF EditInv, SaveInv
<1>6. meta_file' = goal.meta
  BY <1>1, <1>5, StoredIsMeant
<1>7. SaveInv'
  BY <1>1, <1>4, <1>5, <1>6 DEF SaveInv, Edits!SaveKeepsEdits
<1>8. QED
  BY <1>2, <1>3, <1>7 DEF EditInv

\* The end of the index.
LEMMA CloseKeeps ==
    ASSUME Edits!TypeOK, Edits!Close
    PROVE  HeapInv' /\ MappedInv'
BY DEF Edits!Close, HeapInv, MappedInv

LEMMA SaveConfigKeeps ==
    ASSUME Edits!EditAssumption, EditInv, Edits!SaveConfig
    PROVE  EditInv'
<1>1. stage = "index" /\ stage' = "closed" /\ saved' = TRUE /\ Edits!TypeOK /\ Edits!Close
      /\ UNCHANGED <<dtype, readable, gate_file, meta_file, meant, edited, carried, before, goal, edits>>
  BY DEF EditInv, Edits!SaveConfig, Edits!Close
<1>2. Edits!TypeOK'
  BY <1>1 DEF Edits!TypeOK, Edits!Close
<1>3. HeapInv' /\ MappedInv'
  BY <1>1, CloseKeeps
<1>4. Edits!LoadedGates = goal.gate /\ meta_file = goal.meta /\ goal \in Edits!Contents
  BY <1>1 DEF EditInv, SaveInv, Edits!TypeOK
<1>5. Edits!Loaded = goal
  BY <1>4 DEF Edits!Loaded
<1>6. Edits!Loaded' = Edits!Loaded /\ Edits!LoadedGates' = Edits!LoadedGates
  BY <1>1 DEF Edits!Loaded, Edits!LoadedGates
<1>7. SaveInv'
  BY <1>1, <1>4, <1>5, <1>6 DEF SaveInv, Edits!SaveKeepsEdits
<1>8. QED
  BY <1>2, <1>3, <1>7 DEF EditInv

LEMMA StopKeeps ==
    ASSUME Edits!EditAssumption, EditInv, Edits!Stop
    PROVE  EditInv'
<1>1. stage # "closed" /\ stage' = "closed" /\ Edits!TypeOK /\ Edits!Close
      /\ UNCHANGED <<dtype, gate_file, meant, edited, carried, before, goal, saved, edits>>
  BY DEF EditInv, Edits!Stop, Edits!Close
<1>2. \/ UNCHANGED meta_file
      \/ /\ stage = "down_meta"
         /\ meta_file' \in Edits!StoredMetas
         /\ \A f \in Slots : meta_file'[f] \in {Edits!StoredMeta[f], Empty}
  <2>1. SUFFICES ASSUME stage = "down_meta", NEW n \in Slots,
                        meta_file' = [f \in Slots |-> IF f < n THEN Edits!StoredMeta[f] ELSE Empty]
                 PROVE  /\ meta_file' \in Edits!StoredMetas
                        /\ \A f \in Slots : meta_file'[f] \in {Edits!StoredMeta[f], Empty}
    BY DEF Edits!Stop
  <2>2. Edits!StoredMeta \in Edits!StoredMetas
    BY <1>1, ReaderTypes
  <2>3. QED
    BY <2>1, <2>2
<1>3. readable' \in BOOLEAN
  BY <1>1 DEF Edits!Stop, Edits!TypeOK
<1>4. Edits!TypeOK'
  BY <1>1, <1>2, <1>3 DEF Edits!TypeOK, Edits!Close
<1>5. HeapInv' /\ MappedInv'
  BY <1>1, CloseKeeps
<1>6. CASE UNCHANGED meta_file
  BY <1>1, <1>4, <1>5, <1>6, SaveStays DEF EditInv
<1>7. CASE stage = "down_meta" /\ \A f \in Slots : meta_file'[f] \in {Edits!StoredMeta[f], Empty}
  <2>1. ~saved /\ Edits!StoredMeta = goal.meta
    BY <1>1, <1>7, StoredIsMeant DEF EditInv, SaveInv
  <2>2. Edits!LoadedGates' = Edits!LoadedGates
    BY <1>1 DEF Edits!LoadedGates
  <2>3. SaveInv'
    BY <1>1, <1>7, <2>1, <2>2 DEF EditInv, SaveInv, Edits!SaveKeepsEdits
  <2>4. QED
    BY <1>4, <1>5, <2>3 DEF EditInv
<1>8. QED
  BY <1>2, <1>6, <1>7

LEMMA EditStep ==
    ASSUME Edits!EditAssumption, EditInv, [Edits!Next]_Edits!vars
    PROVE  EditInv'
<1>1. CASE Edits!Load
  BY <1>1, LoadKeeps
<1>2. ASSUME NEW f \in Slots, NEW v \in Vectors, Edits!SetGate(f, v)
      PROVE  EditInv'
  BY <1>2, SetGateKeeps
<1>3. ASSUME NEW f \in Slots, NEW t \in Tokens, Edits!SetMeta(f, t)
      PROVE  EditInv'
  BY <1>3, MetaKeeps DEF Edits!SetMeta
<1>4. ASSUME NEW f \in Slots, Edits!DeleteMeta(f)
      PROVE  EditInv'
  <2>1. Edits!HeapMetas = down_meta
    BY <1>4 DEF Edits!DeleteMeta, Edits!HeapMetas
  <2>2. QED
    BY <1>4, <2>1, MetaKeeps DEF Edits!DeleteMeta
<1>5. CASE Edits!Warmup \/ Edits!BuildGraph \/ Edits!Clone
  BY <1>5, WarmKeeps, GraphKeeps
<1>6. ASSUME NEW f \in Slots, NEW v \in Vectors \cup {Missing},
             NEW m \in Tokens \cup Facts \cup {Empty}, Edits!BakeDown(f, v, m)
      PROVE  EditInv'
  BY <1>6, BakeKeeps
<1>7. CASE Edits!SaveGates
  BY <1>7, SaveGatesKeeps
<1>8. CASE Edits!SaveMeta
  BY <1>8, SaveMetaKeeps
<1>9. CASE Edits!SaveConfig
  BY <1>9, SaveConfigKeeps
<1>10. CASE Edits!Stop
  BY <1>10, StopKeeps
<1>11. CASE UNCHANGED Edits!vars
  <2>1. UNCHANGED <<dtype, readable, gate_file, meta_file, stage, gate_vectors, gate_mmap,
          warmed, hnsw_cache, down_meta, down_meta_mmap, meant, edited, carried, before, goal,
          saved, edits>>
    BY <1>11 DEF Edits!vars, Edits!disk, Edits!memory, Edits!saves
  <2>2. Edits!TypeOK'
    BY <2>1 DEF EditInv, Edits!TypeOK
  <2>3. HeapInv' /\ MappedInv'
    BY <2>1 DEF EditInv, HeapInv, MappedInv, Edits!GateMatrix
  <2>4. SaveInv'
    BY <2>1 DEF EditInv, SaveInv, Edits!SaveKeepsEdits, Edits!LoadedGates, Edits!Loaded,
       Edits!Meant, Edits!Stored
  <2>5. QED
    BY <2>2, <2>3, <2>4 DEF EditInv
<1>12. QED
  BY <1>1, <1>2, <1>3, <1>4, <1>5, <1>6, <1>7, <1>8, <1>9, <1>10, <1>11 DEF Edits!Next

LEMMA SearchFollows ==
    ASSUME EditInv
    PROVE  Edits!SearchSeesEdits
<1>1. SUFFICES ASSUME stage # "closed"
               PROVE  /\ Edits!GateMatrix = meant.gate
                      /\ \A f \in Slots :
                           /\ Edits!Searched[f] # Edits!GateMatrix[f] =>
                                /\ f \in edited /\ gate_mmap # Missing
                                /\ dtype = "f32" \/ warmed # Missing
                           /\ Edits!BatchSearched[f] # Edits!GateMatrix[f] =>
                                f \in edited /\ gate_mmap # Missing
                           /\ hnsw_cache # Missing /\ hnsw_cache[f] # Edits!GateMatrix[f] =>
                                f \in edited
  BY DEF Edits!SearchSeesEdits
<1>2. warmed \in {Missing, gate_mmap}
  BY DEF EditInv, Edits!TypeOK
<1>3. \/ Edits!Searched = Edits!GateMatrix
      \/ /\ Edits!Searched = gate_mmap /\ gate_mmap # Missing
         /\ dtype = "f32" \/ warmed # Missing
  BY <1>2 DEF Edits!Searched, Edits!Resolved
<1>4. \/ Edits!BatchSearched = Edits!GateMatrix
      \/ /\ Edits!BatchSearched = gate_mmap
         /\ gate_mmap # Missing
  BY <1>2 DEF Edits!BatchSearched, Edits!Resolved
<1>5. /\ gate_mmap # Missing => \A f \in Slots \ edited : gate_mmap[f] = Edits!GateMatrix[f]
      /\ hnsw_cache # Missing => \A f \in Slots \ edited : hnsw_cache[f] = Edits!GateMatrix[f]
  BY DEF EditInv, MappedInv
<1>6. Edits!GateMatrix = meant.gate
  BY <1>1 DEF EditInv, HeapInv
<1>7. QED
  BY <1>3, <1>4, <1>5, <1>6

LEMMA EditInvAlways ==
    ASSUME Edits!EditAssumption
    PROVE  Edits!Spec => []EditInv
<1>1. Edits!Init => EditInv
  BY EditInit
<1>2. EditInv /\ [Edits!Next]_Edits!vars => EditInv'
  BY EditStep
<1>3. QED
  BY <1>1, <1>2, PTL DEF Edits!Spec

\* A search misses no vector but those set since their file was mapped, a graph has
\* an older vector of no other slot, and a search of one residual in a mapped f16
\* file, or after a bake_down, misses none: for any slots, vectors and number of
\* edits.
THEOREM SearchSeesEditsAlways == ProgramsSpec => []SearchSeesEdits
<1>1. EditInv => SearchSeesEdits
  BY SearchFollows DEF SearchSeesEdits
<1>2. Edits!EditAssumption
  BY ProgramsAssumption
<1>3. QED
  BY <1>1, <1>2, EditInvAlways, EditsRun, PTL

\* A save that ends leaves on disk what was meant, and one that stops mixes no
\* vectors and invents no metadata: for any slots, metadata and number of edits.
THEOREM SaveKeepsEditsAlways == ProgramsSpec => []SaveKeepsEdits
<1>1. EditInv => SaveKeepsEdits
  BY DEF EditInv, SaveInv, SaveKeepsEdits
<1>2. Edits!EditAssumption
  BY ProgramsAssumption
<1>3. QED
  BY <1>1, <1>2, EditInvAlways, EditsRun, PTL

----------------------------------------------------------------------------
(* The files of vectors: VectorFiles *)

\* The operators that the instance brings are those of the lemmas.
LEMMA FileOperators ==
    /\ \A S : VectorFile!Cardinality(S) = Cardinality(S)
    /\ \A l, gone : VectorFile!Retained(l, gone) = Retained(l, gone)
<1>1. \A S : VectorFile!Cardinality(S) = Cardinality(S)
  BY Zenon DEF Cardinality, VectorFile!Cardinality
<1>2. \A l, gone : VectorFile!Retained(l, gone) = Retained(l, gone)
  BY Zenon DEF Retained, Nth, Cardinality, VectorFile!Retained, VectorFile!Nth,
     VectorFile!Cardinality
<1>3. QED
  BY <1>1, <1>2

\* The buffer of a layer: the header of a new file (h is 1), then c of its records.
Buffered(h, c) ==
    /\ Len(buffer) = h + c
    /\ h = 1 => buffer[1] = VectorFile!Header /\ file = <<>> /\ tail = VectorFile!NoTail
    /\ \A i \in 1 .. c : buffer[h + i] = VectorFile!Record(Head(pending), i)

BufferInv ==
    /\ run # "running" \/ pending = <<>> => buffer = <<>>
    /\ run = "running" /\ pending # <<>> =>
         \E h \in {0, 1}, c \in 0 .. Features : Buffered(h, c)

\* Every record of a layer is among the lines.
Shows(f, l) == \A n \in 1 .. Features : \E i \in 1 .. Len(f) : f[i] = VectorFile!Record(l, n)

Once(f) == \A i, j \in 1 .. Len(f) : f[i].kind = "record" /\ f[i] = f[j] => i = j

\* The layers that the file may show without being whole in it.
Excepted == hurt \cup mistaken

\* A layer that the file shows is whole in it, or hurt, or shown by mistake; a run
\* has done the others that are not left, and writes none that the file shows
\* already.
RecordsInv ==
    /\ \A l \in VectorFile!Completed \ Excepted : Shows(file, l)
    /\ \A l \in mistaken : \E m \in VectorFile!Layers : <<l, m>> \in CutNames
    /\ Once(file)
    /\ run = "ok" => \A l \in VectorFile!Layers \ Excepted : Shows(file, l)
    /\ run = "running" =>
         /\ Injective(pending)
         /\ \A i \in 1 .. Len(pending) : pending[i] \notin VectorFile!Completed
         /\ \A l \in VectorFile!Layers \ Excepted : Shows(file, l) \/ Holds(pending, l)

VectorsInv == VectorFile!TypeOK /\ BufferInv /\ RecordsInv

LEMMA LineFacts ==
    ASSUME VectorFile!VectorAssumption
    PROVE  /\ VectorFile!NoLayer \notin VectorFile!Layers
           /\ VectorFile!Header \in VectorFile!Lines
           /\ VectorFile!Header.kind = "header" /\ VectorFile!Header.layer = VectorFile!NoLayer
           /\ \A x \in VectorFile!Lines :
                x.layer \in VectorFile!Layers \cup {VectorFile!NoLayer}
           /\ \A l : /\ VectorFile!Junk(l).kind = "junk" /\ VectorFile!Junk(l).layer = l
                     /\ l \in VectorFile!Layers \cup {VectorFile!NoLayer} =>
                          VectorFile!Junk(l) \in VectorFile!Lines
           /\ \A l, n : /\ VectorFile!Record(l, n).kind = "record"
                        /\ VectorFile!Record(l, n).layer = l
                        /\ VectorFile!Record(l, n).feature = n
           /\ \A l \in VectorFile!Layers, n \in 1 .. Features :
                VectorFile!Record(l, n) \in VectorFile!Lines
<1>1. VectorFile!NoLayer \notin VectorFile!Layers
  BY DEF VectorFile!VectorAssumption
<1>2. VectorFile!Header \in VectorFile!Lines
  BY DEF VectorFile!Lines
<1>3. VectorFile!Header.kind = "header" /\ VectorFile!Header.layer = VectorFile!NoLayer
  BY DEF VectorFile!Header
<1>4. \A x \in VectorFile!Lines : x.layer \in VectorFile!Layers \cup {VectorFile!NoLayer}
  BY DEF VectorFile!Lines, VectorFile!Header, VectorFile!Record, VectorFile!Junk
<1>5. \A l : /\ VectorFile!Junk(l).kind = "junk" /\ VectorFile!Junk(l).layer = l
             /\ l \in VectorFile!Layers \cup {VectorFile!NoLayer} =>
                  VectorFile!Junk(l) \in VectorFile!Lines
  BY DEF VectorFile!Junk, VectorFile!Lines
<1>6. \A l, n : /\ VectorFile!Record(l, n).kind = "record"
                /\ VectorFile!Record(l, n).layer = l
                /\ VectorFile!Record(l, n).feature = n
  BY DEF VectorFile!Record
<1>7. \A l \in VectorFile!Layers, n \in 1 .. Features :
                VectorFile!Record(l, n) \in VectorFile!Lines
  BY DEF VectorFile!Lines
<1>8. QED
  BY <1>1, <1>2, <1>3, <1>4, <1>5, <1>6, <1>7

LEMMA TailFacts ==
    ASSUME VectorFile!TypeOK
    PROVE  /\ tail.cut \in BOOLEAN
           /\ tail.layer \in VectorFile!Layers \cup {VectorFile!NoLayer}
           /\ ~tail.cut => tail = VectorFile!NoTail
           /\ VectorFile!NoTail.layer = VectorFile!NoLayer /\ ~VectorFile!NoTail.cut
<1>1. VectorFile!NoTail.layer = VectorFile!NoLayer /\ VectorFile!NoTail.cut = FALSE
  BY DEF VectorFile!NoTail
<1>2. \A t \in VectorFile!Tails :
        t.cut = TRUE /\ t.layer \in VectorFile!Layers \cup {VectorFile!NoLayer}
  BY DEF VectorFile!Tails
<1>3. tail \in VectorFile!Tails \/ tail = VectorFile!NoTail
  BY DEF VectorFile!TypeOK
<1>4. QED
  BY <1>1, <1>2, <1>3

\* What the buffer says of its records.
LEMMA CountFacts ==
    ASSUME VectorFile!VectorAssumption, NEW h \in {0, 1}, NEW c \in 0 .. Features, Buffered(h, c)
    PROVE  VectorFile!Count(buffer) = c
<1>1. Features \in Nat
  BY DEF VectorFile!VectorAssumption
<1>2. Len(buffer) = h + c /\ \A i \in 1 .. c : buffer[h + i].kind = "record"
  <2>1. /\ Len(buffer) = h + c
        /\ \A i \in 1 .. c : buffer[h + i] = VectorFile!Record(Head(pending), i)
    BY DEF Buffered
  <2>2. \A l, n : VectorFile!Record(l, n).kind = "record"
    BY LineFacts
  <2>3. QED
    BY <2>1, <2>2
<1>3. h = 1 => buffer[1].kind # "record"
  BY LineFacts DEF Buffered
<1>4. ASSUME NEW i \in 1 .. h + c PROVE buffer[i].kind = "record" <=> i \in h + 1 .. h + c
  <2>1. CASE i \in h + 1 .. h + c
    <3>1. i - h \in 1 .. c /\ h + (i - h) = i
      BY <1>1, <2>1
    <3>2. QED
      BY <1>2, <2>1, <3>1
  <2>2. CASE i \notin h + 1 .. h + c
    <3>1. h = 1 /\ i = 1
      BY <1>1, <2>2
    <3>2. QED
      BY <1>3, <2>2, <3>1
  <2>3. QED
    BY <2>1, <2>2
<1>5. {i \in 1 .. h + c : buffer[i].kind = "record"} = h + 1 .. h + c
  BY <1>1, <1>4
<1>6. Cardinality(h + 1 .. h + c) = c
  <2>1. h + 1 \in Int /\ h + c \in Int /\ (h + c) - (h + 1) + 1 = c
    BY <1>1
  <2>2. Cardinality(h + 1 .. h + c) = IF h + 1 > h + c THEN 0 ELSE (h + c) - (h + 1) + 1
    BY <2>1, FS_Interval
  <2>3. h + 1 > h + c => c = 0
    BY <1>1
  <2>4. QED
    BY <2>1, <2>2, <2>3
<1>7. VectorFile!Count(buffer) = Cardinality({i \in 1 .. Len(buffer) : buffer[i].kind = "record"})
  BY FileOperators DEF VectorFile!Count
<1>8. QED
  BY <1>2, <1>5, <1>6, <1>7

\* The file with the first lines of the buffer written out.
LEMMA ExtendedFacts ==
    ASSUME VectorFile!VectorAssumption, VectorFile!TypeOK, NEW n \in 0 .. Len(buffer)
    PROVE  LET more == VectorFile!Extended(SubSeq(buffer, 1, n)) IN
           /\ more \in Seq(VectorFile!Lines) /\ Len(more) = Len(file) + n
           /\ \A i \in 1 .. Len(file) : more[i] = file[i]
           /\ \A i \in 1 .. n :
                more[Len(file) + i] = IF i = 1 /\ tail.cut THEN VectorFile!Joined(tail, buffer[1])
                                      ELSE buffer[i]
           /\ VectorFile!Spoiled(SubSeq(buffer, 1, n)) =
                IF n = 0 \/ ~tail.cut THEN {} ELSE {buffer[1].layer} \ {VectorFile!NoLayer}
<1> DEFINE sent == SubSeq(buffer, 1, n)
           more == VectorFile!Extended(sent)
<1>1. buffer \in Seq(VectorFile!Lines) /\ file \in Seq(VectorFile!Lines)
  BY DEF VectorFile!TypeOK
<1>2. Len(buffer) \in Nat /\ n \in Nat /\ n <= Len(buffer) /\ Len(file) \in Nat
  BY <1>1
<1>3. /\ sent \in Seq(VectorFile!Lines) /\ Len(sent) = n
      /\ \A i \in 1 .. n : sent[i] = buffer[i]
  BY <1>1, <1>2, SubSeqProperties
<1> HIDE DEF sent
<1>4. sent = <<>> <=> n = 0
  BY <1>3
<1>5. CASE n = 0
  <2>1. more = file \o sent
    BY <1>4, <1>5 DEF VectorFile!Extended
  <2>2. more = file
    BY <1>1, <1>4, <1>5, <2>1
  <2>3. QED
    BY <1>1, <1>2, <1>4, <1>5, <2>2 DEF VectorFile!Spoiled, sent
<1>6. CASE n # 0 /\ ~tail.cut
  <2>1. more = file \o sent
    BY <1>6 DEF VectorFile!Extended
  <2>2. /\ more \in Seq(VectorFile!Lines) /\ Len(more) = Len(file) + n
        /\ \A i \in 1 .. Len(file) : more[i] = file[i]
        /\ \A i \in 1 .. n : more[Len(file) + i] = sent[i]
    <3>1. /\ file \o sent \in Seq(VectorFile!Lines)
          /\ Len(file \o sent) = Len(file) + Len(sent)
          /\ \A i \in 1 .. Len(file) : (file \o sent)[i] = file[i]
          /\ \A i \in 1 .. Len(sent) : (file \o sent)[Len(file) + i] = sent[i]
      <4>1. file \o sent \in Seq(VectorFile!Lines) /\ Len(file \o sent) = Len(file) + Len(sent)
        BY <1>1, <1>3, ConcatFacts
      <4>2. \A i \in 1 .. Len(file) : (file \o sent)[i] = file[i]
        BY <1>1, <1>3, ConcatFacts
      <4>3. \A i \in 1 .. Len(sent) : (file \o sent)[Len(file) + i] = sent[i]
        BY <1>1, <1>3, ConcatFacts
      <4>4. QED
        BY <4>1, <4>2, <4>3
    <3> HIDE DEF more
    <3>2. QED
      BY <1>3, <2>1, <3>1
  <2>3. QED
    BY <1>3, <1>6, <2>2 DEF VectorFile!Spoiled, sent
<1>7. CASE n # 0 /\ tail.cut
  <2> DEFINE j == VectorFile!Joined(tail, Head(sent))
             t == Tail(sent)
  <2>1. more = (file \o <<j>>) \o t
    BY <1>1, <1>4, <1>7 DEF VectorFile!Extended
  <2>2. /\ Head(sent) = buffer[1] /\ t \in Seq(VectorFile!Lines) /\ Len(t) = n - 1
        /\ \A i \in 1 .. n - 1 : t[i] = sent[i + 1]
    BY <1>2, <1>3, <1>4, <1>7, TailType
  <2>3. j \in VectorFile!Lines
    <3>1. Head(sent) \in VectorFile!Lines
      BY <1>3, <1>4, <1>7, TailType
    <3>2. QED
      BY <3>1, LineFacts, TailFacts DEF VectorFile!Joined
  <2> HIDE DEF j, t
  <2>4. /\ file \o <<j>> \in Seq(VectorFile!Lines) /\ Len(file \o <<j>>) = Len(file) + 1
        /\ \A i \in 1 .. Len(file) : (file \o <<j>>)[i] = file[i]
        /\ (file \o <<j>>)[Len(file) + 1] = j
    BY <1>1, <2>3
  <2> DEFINE s == file \o <<j>>
  <2> HIDE DEF s, more
  <2>5. /\ s \o t \in Seq(VectorFile!Lines) /\ Len(s \o t) = (Len(file) + 1) + (n - 1)
        /\ \A i \in 1 .. Len(file) + 1 : (s \o t)[i] = s[i]
        /\ \A i \in 1 .. n - 1 : (s \o t)[(Len(file) + 1) + i] = t[i]
    <3>1. s \in Seq(VectorFile!Lines) /\ Len(s) = Len(file) + 1
      BY <2>4 DEF s
    <3>2. /\ s \o t \in Seq(VectorFile!Lines) /\ Len(s \o t) = Len(s) + Len(t)
          /\ \A i \in 1 .. Len(s) : (s \o t)[i] = s[i]
          /\ \A i \in 1 .. Len(t) : (s \o t)[Len(s) + i] = t[i]
      <4>1. s \o t \in Seq(VectorFile!Lines) /\ Len(s \o t) = Len(s) + Len(t)
        BY <2>2, <3>1, ConcatFacts
      <4>2. \A i \in 1 .. Len(s) : (s \o t)[i] = s[i]
        BY <2>2, <3>1, ConcatFacts
      <4>3. \A i \in 1 .. Len(t) : (s \o t)[Len(s) + i] = t[i]
        BY <2>2, <3>1, ConcatFacts
      <4>4. QED
        BY <4>1, <4>2, <4>3
    <3>3. QED
      BY <2>2, <3>1, <3>2
  <2>6. more = s \o t
    BY <2>1 DEF s
  <2>7. more \in Seq(VectorFile!Lines) /\ Len(more) = Len(file) + n
    <3>1. (Len(file) + 1) + (n - 1) = Len(file) + n
      BY <1>2
    <3>2. QED
      BY <2>5, <2>6, <3>1
  <2>8. \A i \in 1 .. Len(file) : more[i] = file[i]
    BY <1>2, <2>4, <2>5, <2>6 DEF s
  <2>9. more[Len(file) + 1] = j
    BY <1>2, <2>4, <2>5, <2>6 DEF s
  <2>10. ASSUME NEW i \in 1 .. n, i # 1 PROVE more[Len(file) + i] = buffer[i]
    <3>1. i - 1 \in 1 .. n - 1 /\ (Len(file) + 1) + (i - 1) = Len(file) + i /\ (i - 1) + 1 = i
      BY <1>2, <2>10
    <3>2. more[(Len(file) + 1) + (i - 1)] = t[i - 1] /\ t[i - 1] = sent[(i - 1) + 1]
      BY <2>2, <2>5, <2>6, <3>1
    <3>3. QED
      BY <1>3, <3>1, <3>2
  <2>11. VectorFile!Spoiled(sent) = {buffer[1].layer} \ {VectorFile!NoLayer}
    BY <1>4, <1>7, <2>2 DEF VectorFile!Spoiled
  <2>12. QED
    BY <1>7, <2>2, <2>7, <2>8, <2>9, <2>10, <2>11 DEF sent, more, j
<1>8. QED
  BY <1>5, <1>6, <1>7

\* What the lines that are written out make of the file: nothing is lost, nothing
\* is there twice, and the layer that is written is the only one that is new.
LEMMA MoreFacts ==
    ASSUME VectorFile!VectorAssumption, VectorsInv, run = "running", pending # <<>>,
           NEW n \in 0 .. Len(buffer)
    PROVE  LET more == VectorFile!Extended(SubSeq(buffer, 1, n))
               spoiled == VectorFile!Spoiled(SubSeq(buffer, 1, n))
               l0 == Head(pending)
           IN  /\ more \in Seq(VectorFile!Lines) /\ Len(more) = Len(file) + n
               /\ \A i \in 1 .. Len(file) : more[i] = file[i]
               /\ spoiled \subseteq {l0}
               /\ l0 \in VectorFile!Layers /\ l0 \notin VectorFile!Completed
               /\ Once(more)
               /\ \A i \in 1 .. Len(more) :
                    more[i].layer \in VectorFile!Completed \cup {VectorFile!NoLayer, l0}
               /\ \A l : Shows(file, l) => Shows(more, l)
               /\ n = Len(buffer) /\ VectorFile!Count(buffer) = Features /\ l0 \notin spoiled =>
                    Shows(more, l0)
<1> DEFINE more == VectorFile!Extended(SubSeq(buffer, 1, n))
           spoiled == VectorFile!Spoiled(SubSeq(buffer, 1, n))
           l0 == Head(pending)
<1>1. PICK h \in {0, 1}, c \in 0 .. Features : Buffered(h, c)
  BY DEF VectorsInv, BufferInv
<1>2. VectorFile!TypeOK /\ pending \in Seq(VectorFile!Layers) /\ file \in Seq(VectorFile!Lines)
      /\ buffer \in Seq(VectorFile!Lines)
  BY DEF VectorsInv, VectorFile!TypeOK
<1>3. /\ Features \in Nat /\ Len(file) \in Nat /\ n \in Nat /\ h \in Nat /\ c \in Nat
      /\ n <= h + c /\ Len(buffer) = h + c
  BY <1>1, <1>2 DEF VectorFile!VectorAssumption, Buffered
<1>4. /\ more \in Seq(VectorFile!Lines) /\ Len(more) = Len(file) + n
      /\ \A i \in 1 .. Len(file) : more[i] = file[i]
      /\ \A i \in 1 .. n :
           more[Len(file) + i] = IF i = 1 /\ tail.cut THEN VectorFile!Joined(tail, buffer[1])
                                 ELSE buffer[i]
      /\ spoiled = IF n = 0 \/ ~tail.cut THEN {} ELSE {buffer[1].layer} \ {VectorFile!NoLayer}
  BY <1>2, ExtendedFacts
<1>5. /\ l0 = pending[1] /\ l0 \in VectorFile!Layers /\ 1 \in 1 .. Len(pending)
      /\ l0 \notin VectorFile!Completed
  <2>1. l0 = pending[1] /\ l0 \in VectorFile!Layers /\ 1 \in 1 .. Len(pending)
    BY <1>2, TailType
  <2>2. QED
    BY <2>1 DEF VectorsInv, RecordsInv
<1> HIDE DEF more, spoiled, l0
<1>6. /\ \A i \in 1 .. c : buffer[h + i] = VectorFile!Record(l0, i)
      /\ h = 1 => buffer[1] = VectorFile!Header /\ ~tail.cut
  BY <1>1, <1>2, TailFacts DEF Buffered, l0
\* A line of the buffer is the header or a record of the layer.
<1>7. \A i \in 1 .. n : \/ h = 1 /\ i = 1 /\ buffer[i] = VectorFile!Header
                        \/ i - h \in 1 .. c /\ buffer[i] = VectorFile!Record(l0, i - h)
  <2>1. ASSUME NEW i \in 1 .. n, i - h \notin 1 .. c PROVE h = 1 /\ i = 1
    BY <1>3, <2>1
  <2>2. ASSUME NEW i \in 1 .. n, i - h \in 1 .. c PROVE buffer[i] = VectorFile!Record(l0, i - h)
    <3>1. h + (i - h) = i
      BY <1>3
    <3>2. QED
      BY <1>6, <2>2, <3>1
  <2>3. QED
    BY <1>6, <2>1, <2>2
\* A new line is one of the buffer, or the one that is joined to the cut one.
<1>8. \A i \in 1 .. Len(more) :
        \/ i \in 1 .. Len(file) /\ more[i] = file[i]
        \/ /\ i - Len(file) \in 1 .. n
           /\ \/ i - Len(file) = 1 /\ tail.cut /\ h = 0
                 /\ more[i] = VectorFile!Joined(tail, VectorFile!Record(l0, 1))
              \/ h = 1 /\ more[i] = VectorFile!Header
              \/ /\ (i - Len(file)) - h \in 1 .. c
                 /\ more[i] = VectorFile!Record(l0, (i - Len(file)) - h)
  <2>1. ASSUME NEW i \in 1 .. Len(more), i \notin 1 .. Len(file)
        PROVE  /\ i - Len(file) \in 1 .. n
               /\ more[i] = IF i - Len(file) = 1 /\ tail.cut
                            THEN VectorFile!Joined(tail, buffer[1]) ELSE buffer[i - Len(file)]
    <3>1. i - Len(file) \in 1 .. n /\ Len(file) + (i - Len(file)) = i
      BY <1>3, <1>4, <2>1
    <3>2. QED
      BY <1>4, <3>1
  <2>2. ASSUME NEW i \in 1 .. Len(more), i \notin 1 .. Len(file), i - Len(file) = 1, tail.cut
        PROVE  h = 0 /\ more[i] = VectorFile!Joined(tail, VectorFile!Record(l0, 1))
    <3>1. h = 0
      BY <1>6, <2>2
    <3>2. 1 \in 1 .. n /\ 1 - h = 1
      BY <2>1, <2>2, <3>1
    <3>3. buffer[1] = VectorFile!Record(l0, 1)
      BY <1>7, <3>1, <3>2
    <3>4. QED
      BY <2>1, <2>2, <3>1, <3>3
  <2>3. ASSUME NEW i \in 1 .. Len(more), i \notin 1 .. Len(file), ~(i - Len(file) = 1 /\ tail.cut)
        PROVE  \/ h = 1 /\ more[i] = VectorFile!Header
               \/ /\ (i - Len(file)) - h \in 1 .. c
                  /\ more[i] = VectorFile!Record(l0, (i - Len(file)) - h)
    BY <1>7, <2>1, <2>3
  <2>4. QED
    BY <1>4, <2>1, <2>2, <2>3
<1>9. \A x \in 1 .. Len(file) : file[x].layer # l0
  BY <1>2, <1>5, LineFacts DEF VectorFile!Completed
<1>10. VectorFile!Joined(tail, VectorFile!Record(l0, 1)).kind # "record"
       /\ VectorFile!Joined(tail, VectorFile!Record(l0, 1)).layer \in {tail.layer, l0}
  BY LineFacts DEF VectorFile!Joined
<1>11. Once(more)
  <2>1. ASSUME NEW i \in 1 .. Len(more), NEW j \in 1 .. Len(more),
               more[i].kind = "record", more[i] = more[j]
        PROVE  i = j
    <3>1. CASE i \in 1 .. Len(file) /\ j \in 1 .. Len(file)
      BY <1>4, <2>1, <3>1 DEF VectorsInv, RecordsInv, Once
    <3>2. CASE i \in 1 .. Len(file) /\ j \notin 1 .. Len(file)
      <4>1. more[j].layer = l0
        BY <1>8, <1>10, <2>1, <3>2, LineFacts
      <4>2. QED
        BY <1>4, <1>9, <2>1, <3>2, <4>1
    <3>3. CASE i \notin 1 .. Len(file) /\ j \in 1 .. Len(file)
      <4>1. more[i].layer = l0
        BY <1>8, <1>10, <2>1, <3>3, LineFacts
      <4>2. QED
        BY <1>4, <1>9, <2>1, <3>3, <4>1
    <3>4. CASE i \notin 1 .. Len(file) /\ j \notin 1 .. Len(file)
      <4>1. /\ more[i] = VectorFile!Record(l0, (i - Len(file)) - h)
            /\ more[j] = VectorFile!Record(l0, (j - Len(file)) - h)
        BY <1>8, <1>10, <2>1, <3>4, LineFacts
      <4>2. (i - Len(file)) - h = (j - Len(file)) - h
        <5>1. \A x, y : VectorFile!Record(l0, x) = VectorFile!Record(l0, y) => x = y
          BY DEF VectorFile!Record
        <5>2. QED
          BY <2>1, <4>1, <5>1
      <4>3. QED
        BY <1>3, <1>4, <4>2
    <3>5. QED
      BY <3>1, <3>2, <3>3, <3>4
  <2>2. QED
    BY <2>1 DEF Once
<1>12. ASSUME NEW i \in 1 .. Len(more)
       PROVE  more[i].layer \in VectorFile!Completed \cup {VectorFile!NoLayer, l0}
  <2>1. i \in 1 .. Len(file) /\ more[i] = file[i] =>
          more[i].layer \in VectorFile!Completed \cup {VectorFile!NoLayer}
    BY DEF VectorFile!Completed
  <2>2. tail.layer \in VectorFile!Completed \cup {VectorFile!NoLayer}
    BY DEF VectorFile!Completed
  <2>3. QED
    BY <1>8, <1>10, <2>1, <2>2, LineFacts
<1>13. ASSUME NEW l, Shows(file, l) PROVE Shows(more, l)
  <2>1. \A i \in 1 .. Len(file) : i \in 1 .. Len(more)
    BY <1>3, <1>4
  <2>2. QED
    BY <1>4, <1>13, <2>1 DEF Shows
<1>14. spoiled \subseteq {l0}
  <2>1. ASSUME n # 0, tail.cut PROVE buffer[1].layer = l0
    <3>1. 1 \in 1 .. n
      BY <1>3, <2>1
    <3>2. QED
      BY <1>6, <1>7, <2>1, <3>1, LineFacts
  <2>2. QED
    BY <1>4, <2>1
<1>15. ASSUME n = Len(buffer), VectorFile!Count(buffer) = Features, l0 \notin spoiled
       PROVE  Shows(more, l0)
  <2>1. c = Features
    BY <1>1, <1>15, CountFacts
  <2>2. ASSUME NEW x \in 1 .. Features
        PROVE  \E i \in 1 .. Len(more) : more[i] = VectorFile!Record(l0, x)
    <3>1. h + x \in 1 .. n /\ Len(file) + (h + x) \in 1 .. Len(more) /\ x \in 1 .. c
      BY <1>3, <1>4, <1>15, <2>1, <2>2
    <3>2. buffer[h + x] = VectorFile!Record(l0, x)
      BY <1>6, <3>1
    <3>3. ~(h + x = 1 /\ tail.cut)
      <4>1. ASSUME h + x = 1, tail.cut PROVE FALSE
        <5>1. buffer[1].layer = l0 /\ l0 # VectorFile!NoLayer /\ n # 0
          BY <1>3, <1>5, <3>1, <3>2, <4>1, LineFacts
        <5>2. QED
          BY <1>4, <1>15, <4>1, <5>1
      <4>2. QED
        BY <4>1
    <3>4. more[Len(file) + (h + x)] = buffer[h + x]
      BY <1>4, <3>1, <3>3
    <3>5. QED
      BY <3>1, <3>2, <3>4
  <2>3. QED
    BY <2>2 DEF Shows
<1>16. QED
  BY <1>4, <1>5, <1>11, <1>12, <1>13, <1>14, <1>15 DEF more, spoiled, l0

\* The lines that show a layer are lines of the file, or the part behind them.
LEMMA CompletedFacts ==
    \A l : l \in VectorFile!Completed <=>
             /\ l # VectorFile!NoLayer
             /\ l = tail.layer \/ \E i \in 1 .. Len(file) : file[i].layer = l
BY DEF VectorFile!Completed

\* The layers that a resumed run has left.
LEMMA RemainingFacts ==
    ASSUME VectorFile!VectorAssumption
    PROVE  LET left_layers == VectorFile!Remaining IN
           /\ left_layers \in Seq(VectorFile!Layers)
           /\ Injective(left_layers)
           /\ \A i \in 1 .. Len(left_layers) : left_layers[i] \notin VectorFile!Completed
           /\ \A l \in VectorFile!Layers \ VectorFile!Completed : Holds(left_layers, l)
<1> DEFINE w == Retained(Order, VectorFile!Completed)
<1>1. Order \in Seq(VectorFile!Layers) /\ Injective(Order)
  BY DEF VectorFile!VectorAssumption, Injective
<1>2. w \in Seq(VectorFile!Layers) /\ \E p : Picked(w, Order, VectorFile!Completed, p)
  BY <1>1, RetainedPicks
<1>3. PICK p : Picked(w, Order, VectorFile!Completed, p)
  BY <1>2
<1>4. VectorFile!Remaining = w
  BY FileOperators DEF VectorFile!Remaining
<1> HIDE DEF w
<1>5. ASSUME NEW i \in 1 .. Len(w), NEW j \in 1 .. Len(w), w[i] = w[j] PROVE i = j
  <2>1. p[i] \in 1 .. Len(Order) /\ p[j] \in 1 .. Len(Order) /\ Order[p[i]] = Order[p[j]]
    BY <1>3, <1>5 DEF Picked
  <2>2. p[i] = p[j]
    BY <1>1, <2>1 DEF Injective
  <2>3. ~(i < j) /\ ~(j < i)
    <3>1. p[i] \in Nat /\ p[j] \in Nat
      BY <2>1
    <3>2. QED
      BY <1>3, <2>2, <3>1 DEF Picked
  <2>4. i \in Nat /\ j \in Nat
    OBVIOUS
  <2>5. QED
    BY <2>3, <2>4
<1>6. ASSUME NEW l \in VectorFile!Layers \ VectorFile!Completed PROVE Holds(w, l)
  <2>1. PICK x \in 1 .. Len(Order) : Order[x] = l
    BY DEF VectorFile!Layers
  <2>2. PICK i \in 1 .. Len(w) : p[i] = x
    BY <1>3, <1>6, <2>1 DEF Picked
  <2>3. QED
    BY <1>3, <2>1, <2>2 DEF Picked, Holds
<1>7. QED
  BY <1>2, <1>3, <1>4, <1>5, <1>6 DEF Injective, Picked

LEMMA FileInit ==
    ASSUME VectorFile!VectorAssumption, VectorFile!Init
    PROVE  VectorsInv
<1>1. /\ file = <<>> /\ tail = VectorFile!NoTail /\ buffer = <<>> /\ pending = <<>>
      /\ run = "idle" /\ hurt = {} /\ mistaken = {} /\ exists = FALSE /\ runs = 0 /\ MaxRuns \in Nat
  BY DEF VectorFile!Init, VectorFile!VectorAssumption
<1>2. VectorFile!TypeOK
  <2>1. <<>> \in Seq(VectorFile!Lines) /\ <<>> \in Seq(VectorFile!Layers)
    OBVIOUS
  <2>2. runs \in 0 .. MaxRuns /\ tail \in VectorFile!Tails \cup {VectorFile!NoTail}
    BY <1>1
  <2>3. QED
    BY <1>1, <2>1, <2>2 DEF VectorFile!TypeOK
<1>3. VectorFile!Completed = {}
  BY <1>1, <1>2, CompletedFacts, TailFacts
<1>4. QED
  BY <1>1, <1>2, <1>3 DEF VectorsInv, BufferInv, RecordsInv, Excepted, Once

LEMMA BeginFacts ==
    ASSUME VectorFile!VectorAssumption, VectorsInv, VectorFile!Begin
    PROVE  run # "running" /\ runs' \in 0 .. MaxRuns /\ buffer = <<>>
BY DEF VectorFile!Begin, VectorsInv, BufferInv, VectorFile!TypeOK, VectorFile!VectorAssumption

LEMMA ScanFailsKeeps ==
    ASSUME VectorFile!VectorAssumption, VectorsInv, VectorFile!ScanFails
    PROVE  VectorsInv'
<1>1. runs' \in 0 .. MaxRuns /\ buffer = <<>>
  BY BeginFacts DEF VectorFile!ScanFails
<1>2. run' = "failed" /\ UNCHANGED <<exists, file, tail, buffer, pending, hurt, mistaken>>
  BY DEF VectorFile!ScanFails
<1>3. VectorFile!TypeOK'
  BY <1>1, <1>2 DEF VectorsInv, VectorFile!TypeOK
<1>4. BufferInv'
  BY <1>1, <1>2 DEF BufferInv
<1>5. RecordsInv'
  BY <1>2 DEF VectorsInv, RecordsInv, Excepted, VectorFile!Completed
<1>6. QED
  BY <1>3, <1>4, <1>5 DEF VectorsInv

LEMMA ContinueKeeps ==
    ASSUME VectorFile!VectorAssumption, VectorsInv, VectorFile!Continue
    PROVE  VectorsInv'
<1>1. runs' \in 0 .. MaxRuns /\ buffer = <<>> /\ Features \in Nat
  BY BeginFacts DEF VectorFile!Continue, VectorFile!VectorAssumption
<1>2. /\ pending' = VectorFile!Remaining
      /\ run' = IF pending' = <<>> THEN "ok" ELSE "running"
      /\ UNCHANGED <<exists, file, tail, buffer, hurt, mistaken>>
  BY DEF VectorFile!Continue
<1>3. /\ pending' \in Seq(VectorFile!Layers) /\ Injective(pending')
      /\ \A i \in 1 .. Len(pending') : pending'[i] \notin VectorFile!Completed
      /\ \A l \in VectorFile!Layers \ VectorFile!Completed : Holds(pending', l)
  BY <1>2, RemainingFacts
<1>4. VectorFile!TypeOK'
  BY <1>1, <1>2, <1>3 DEF VectorsInv, VectorFile!TypeOK
<1>5. Buffered(0, 0)'
  BY <1>1, <1>2 DEF Buffered
<1>6. BufferInv'
  BY <1>1, <1>2, <1>5 DEF BufferInv
<1>7. VectorFile!Completed' = VectorFile!Completed
  BY <1>2 DEF VectorFile!Completed
<1>8. \A l \in VectorFile!Layers \ Excepted : Shows(file, l) \/ Holds(pending', l)
  BY <1>3 DEF VectorsInv, RecordsInv
<1>9. pending' = <<>> => \A l : ~Holds(pending', l)
  BY DEF Holds
<1>10. RecordsInv'
  BY <1>2, <1>3, <1>7, <1>8, <1>9 DEF VectorsInv, RecordsInv, Excepted
<1>11. QED
  BY <1>4, <1>6, <1>10 DEF VectorsInv

LEMMA CreateFileKeeps ==
    ASSUME VectorFile!VectorAssumption, VectorsInv, NEW resume \in BOOLEAN, VectorFile!Create(resume)
    PROVE  VectorsInv'
<1>1. runs' \in 0 .. MaxRuns /\ buffer = <<>> /\ Features \in Nat
  BY BeginFacts DEF VectorFile!Create, VectorFile!VectorAssumption
<1>2. Order \in Seq(VectorFile!Layers) /\ Injective(Order) /\ pending' = Order
  BY DEF VectorFile!VectorAssumption, VectorFile!Create, Injective
<1>3. CASE Order = <<>>
  <2>1. run' = "ok" /\ UNCHANGED <<exists, file, tail, buffer, hurt, mistaken>>
    BY <1>3 DEF VectorFile!Create
  <2>2. VectorFile!Layers = {}
    BY <1>3 DEF VectorFile!Layers
  <2>3. VectorFile!TypeOK'
    BY <1>1, <1>2, <2>1 DEF VectorsInv, VectorFile!TypeOK
  <2>4. BufferInv'
    BY <1>1, <1>2, <1>3, <2>1 DEF BufferInv
  <2>5. RecordsInv'
    BY <2>1, <2>2 DEF VectorsInv, RecordsInv, Excepted, VectorFile!Completed
  <2>6. QED
    BY <2>3, <2>4, <2>5 DEF VectorsInv
<1>4. CASE Order # <<>>
  <2>1. /\ run' = "running" /\ exists' = TRUE
        /\ file' = <<>> /\ tail' = VectorFile!NoTail /\ buffer' = <<VectorFile!Header>>
        /\ hurt' = {} /\ mistaken' = {}
    BY <1>4 DEF VectorFile!Create
  <2>2. VectorFile!TypeOK'
    <3>1. buffer' \in Seq(VectorFile!Lines) /\ file' \in Seq(VectorFile!Lines)
      BY <2>1, LineFacts
    <3>2. QED
      BY <1>1, <1>2, <2>1, <3>1 DEF VectorFile!TypeOK
  <2>3. Buffered(1, 0)'
    BY <2>1 DEF Buffered
  <2>4. BufferInv'
    BY <1>1, <1>2, <1>4, <2>1, <2>3 DEF BufferInv
  <2>5. VectorFile!Completed' = {}
    <3>1. VectorFile!NoTail.layer = VectorFile!NoLayer
      BY DEF VectorFile!NoTail
    <3>2. QED
      BY <2>1, <3>1 DEF VectorFile!Completed
  <2>6. \A l \in VectorFile!Layers : Holds(Order, l)
    BY DEF VectorFile!Layers, Holds
  <2>7. RecordsInv'
    BY <1>2, <2>1, <2>5, <2>6 DEF RecordsInv, Excepted, Once
  <2>8. QED
    BY <2>2, <2>4, <2>7 DEF VectorsInv
<1>5. QED
  BY <1>3, <1>4

LEMMA WriteRecordKeeps ==
    ASSUME VectorFile!VectorAssumption, VectorsInv, VectorFile!WriteRecord
    PROVE  VectorsInv'
<1>1. /\ run = "running" /\ pending # <<>> /\ VectorFile!Count(buffer) < Features
      /\ buffer' = Append(buffer, VectorFile!Record(Head(pending), VectorFile!Count(buffer) + 1))
      /\ UNCHANGED <<exists, file, tail, pending, run, hurt, mistaken, runs>>
  BY DEF VectorFile!WriteRecord
<1>2. PICK h \in {0, 1}, c \in 0 .. Features : Buffered(h, c)
  BY <1>1 DEF VectorsInv, BufferInv
<1>3. VectorFile!Count(buffer) = c /\ Features \in Nat
  BY <1>2, CountFacts DEF VectorFile!VectorAssumption
<1>4. c + 1 \in 0 .. Features /\ c + 1 \in 1 .. Features
  BY <1>1, <1>3
<1>5. buffer \in Seq(VectorFile!Lines) /\ pending \in Seq(VectorFile!Layers)
  BY DEF VectorsInv, VectorFile!TypeOK
<1> DEFINE x == VectorFile!Record(Head(pending), c + 1)
<1>6. x \in VectorFile!Lines
  <2>1. Head(pending) \in VectorFile!Layers
    BY <1>1, <1>5, TailType
  <2>2. QED
    BY <1>4, <2>1, LineFacts
<1>7. buffer' = Append(buffer, x)
  BY <1>1, <1>3
<1> HIDE DEF x
<1>8. /\ buffer' \in Seq(VectorFile!Lines) /\ Len(buffer') = Len(buffer) + 1
      /\ \A i \in 1 .. Len(buffer) : buffer'[i] = buffer[i]
      /\ buffer'[Len(buffer) + 1] = x
  BY <1>5, <1>6, <1>7, AppendType
<1>9. /\ Len(buffer) = h + c
      /\ h = 1 => buffer[1] = VectorFile!Header /\ file = <<>> /\ tail = VectorFile!NoTail
      /\ \A i \in 1 .. c : buffer[h + i] = VectorFile!Record(Head(pending), i)
  BY <1>2 DEF Buffered
<1>10. Len(buffer') = h + (c + 1)
  BY <1>3, <1>8, <1>9
<1>11. h = 1 => buffer'[1] = VectorFile!Header /\ file' = <<>> /\ tail' = VectorFile!NoTail
  <2>1. h = 1 => 1 \in 1 .. Len(buffer)
    BY <1>3, <1>9
  <2>2. QED
    BY <1>1, <1>8, <1>9, <2>1
<1>12. ASSUME NEW i \in 1 .. c + 1 PROVE buffer'[h + i] = VectorFile!Record(Head(pending'), i)
  <2>1. CASE i = c + 1
    <3>1. h + i = Len(buffer) + 1
      BY <1>3, <1>9, <2>1
    <3>2. QED
      BY <1>1, <1>8, <2>1, <3>1 DEF x
  <2>2. CASE i # c + 1
    <3>1. i \in 1 .. c /\ h + i \in 1 .. Len(buffer)
      BY <1>3, <1>9, <2>2
    <3>2. QED
      BY <1>1, <1>8, <1>9, <3>1
  <2>3. QED
    BY <2>1, <2>2
<1>13. Buffered(h, c + 1)'
  BY <1>10, <1>11, <1>12 DEF Buffered
<1>14. BufferInv'
  BY <1>1, <1>4, <1>13 DEF BufferInv
<1>15. VectorFile!TypeOK'
  BY <1>1, <1>8 DEF VectorsInv, VectorFile!TypeOK
<1>16. RecordsInv'
  BY <1>1 DEF VectorsInv, RecordsInv, Excepted, VectorFile!Completed
<1>17. QED
  BY <1>14, <1>15, <1>16 DEF VectorsInv

LEMMA FlushLayerKeeps ==
    ASSUME VectorFile!VectorAssumption, VectorsInv, VectorFile!FlushLayer
    PROVE  VectorsInv'
<1> DEFINE l0 == Head(pending)
           n == Len(buffer)
<1>1. /\ run = "running" /\ pending # <<>> /\ VectorFile!Count(buffer) = Features
      /\ file' = VectorFile!Extended(buffer) /\ tail' = VectorFile!NoTail /\ buffer' = <<>>
      /\ hurt' = hurt \cup VectorFile!Spoiled(buffer) /\ pending' = Tail(pending)
      /\ UNCHANGED <<exists, run, mistaken, runs>>
  BY DEF VectorFile!FlushLayer
<1>2. buffer \in Seq(VectorFile!Lines) /\ pending \in Seq(VectorFile!Layers) /\ Features \in Nat
  BY DEF VectorsInv, VectorFile!TypeOK, VectorFile!VectorAssumption
<1>3. n \in 0 .. Len(buffer) /\ SubSeq(buffer, 1, n) = buffer
  BY <1>2
<1>4. /\ file' \in Seq(VectorFile!Lines)
      /\ hurt' \subseteq hurt \cup {l0} /\ hurt \subseteq hurt'
      /\ l0 \in VectorFile!Layers /\ l0 \notin VectorFile!Completed
      /\ Once(file')
      /\ \A i \in 1 .. Len(file') :
           file'[i].layer \in VectorFile!Completed \cup {VectorFile!NoLayer, l0}
      /\ \A l : Shows(file, l) => Shows(file', l)
      /\ l0 \notin hurt' => Shows(file', l0)
  <2> DEFINE spoiled == VectorFile!Spoiled(buffer)
  <2>1. /\ file' \in Seq(VectorFile!Lines)
        /\ spoiled \subseteq {l0}
        /\ l0 \in VectorFile!Layers /\ l0 \notin VectorFile!Completed
        /\ Once(file')
        /\ \A i \in 1 .. Len(file') :
             file'[i].layer \in VectorFile!Completed \cup {VectorFile!NoLayer, l0}
        /\ \A l : Shows(file, l) => Shows(file', l)
        /\ l0 \notin spoiled => Shows(file', l0)
    BY <1>1, <1>3, MoreFacts
  <2>2. hurt' = hurt \cup spoiled
    BY <1>1
  <2> HIDE DEF spoiled, l0
  <2>3. QED
    BY <2>1, <2>2
<1>5. /\ l0 = pending[1] /\ pending' \in Seq(VectorFile!Layers) /\ Len(pending) > 0
      /\ Len(pending') = Len(pending) - 1
      /\ \A i \in 1 .. Len(pending) - 1 : pending'[i] = pending[i + 1]
  BY <1>1, <1>2, TailType
<1>6. Len(pending) \in Nat
  BY <1>2
<1> HIDE DEF l0, n
<1>7. \A i \in 1 .. Len(pending') : pending'[i] = pending[i + 1] /\ i + 1 \in 1 .. Len(pending)
  BY <1>5, <1>6
<1>8. /\ Injective(pending)
      /\ \A i \in 1 .. Len(pending) : pending[i] \notin VectorFile!Completed
      /\ \A l \in VectorFile!Layers \ Excepted : Shows(file, l) \/ Holds(pending, l)
  BY <1>1 DEF VectorsInv, RecordsInv
<1>9. Injective(pending')
  <2>1. ASSUME NEW i \in 1 .. Len(pending'), NEW j \in 1 .. Len(pending'), pending'[i] = pending'[j]
        PROVE  i = j
    <3>1. i + 1 = j + 1
      BY <1>7, <1>8, <2>1 DEF Injective
    <3>2. QED
      BY <3>1
  <2>2. QED
    BY <2>1 DEF Injective
<1>10. \A i \in 1 .. Len(pending') : pending'[i] # l0
  <2>1. \A i \in 1 .. Len(pending') : i + 1 # 1 /\ 1 \in 1 .. Len(pending)
    BY <1>5, <1>6
  <2>2. QED
    BY <1>5, <1>7, <1>8, <2>1 DEF Injective
<1>11. \A l : Holds(pending, l) => l = l0 \/ Holds(pending', l)
  <2>1. ASSUME NEW l, Holds(pending, l), l # l0 PROVE Holds(pending', l)
    <3>1. PICK i \in 1 .. Len(pending) : pending[i] = l
      BY <2>1 DEF Holds
    <3>2. i # 1
      BY <1>5, <2>1, <3>1
    <3>3. i - 1 \in 1 .. Len(pending') /\ (i - 1) + 1 = i
      BY <1>5, <1>6, <3>2
    <3>4. QED
      BY <1>7, <3>1, <3>3 DEF Holds
  <2>2. QED
    BY <2>1
<1>12. \A l \in VectorFile!Completed' : l \in VectorFile!Completed \/ l = l0
  <2>1. VectorFile!NoTail.layer = VectorFile!NoLayer
    BY DEF VectorFile!NoTail
  <2>2. VectorFile!Completed' =
          ({file'[i].layer : i \in 1 .. Len(file')} \cup {tail'.layer}) \ {VectorFile!NoLayer}
    BY DEF VectorFile!Completed
  <2>3. QED
    BY <1>1, <1>4, <2>1, <2>2
<1>13. VectorFile!TypeOK'
  <2>1. hurt' \subseteq VectorFile!Layers
    BY <1>4 DEF VectorsInv, VectorFile!TypeOK
  <2>2. QED
    BY <1>1, <1>4, <1>5, <2>1 DEF VectorsInv, VectorFile!TypeOK
<1>14. BufferInv'
  <2>1. Buffered(0, 0)'
    BY <1>1 DEF Buffered
  <2>2. QED
    BY <1>1, <1>2, <2>1 DEF BufferInv
<1>15. RecordsInv'
  <2>1. \A l \in VectorFile!Completed' \ Excepted' : Shows(file', l)
    BY <1>1, <1>4, <1>12 DEF VectorsInv, RecordsInv, Excepted
  <2>2. \A l \in VectorFile!Layers \ Excepted' : Shows(file', l) \/ Holds(pending', l)
    BY <1>1, <1>4, <1>8, <1>11 DEF Excepted
  <2>3. \A i \in 1 .. Len(pending') : pending'[i] \notin VectorFile!Completed'
    BY <1>7, <1>8, <1>10, <1>12
  <2>4. run' # "ok"
    BY <1>1
  <2>5. \A l \in mistaken' : \E m \in VectorFile!Layers : <<l, m>> \in CutNames
    BY <1>1 DEF VectorsInv, RecordsInv
  <2>6. QED
    BY <1>4, <1>9, <2>1, <2>2, <2>3, <2>4, <2>5 DEF RecordsInv
<1>16. QED
  BY <1>13, <1>14, <1>15 DEF VectorsInv

LEMMA CompleteKeeps ==
    ASSUME VectorFile!VectorAssumption, VectorsInv, VectorFile!Complete
    PROVE  VectorsInv'
<1>1. /\ run = "running" /\ pending = <<>> /\ run' = "ok"
      /\ UNCHANGED <<exists, file, tail, buffer, pending, hurt, mistaken, runs>>
  BY DEF VectorFile!Complete
<1>2. \A l : ~Holds(pending, l)
  BY <1>1 DEF Holds
<1>3. VectorFile!TypeOK'
  BY <1>1 DEF VectorsInv, VectorFile!TypeOK
<1>4. BufferInv'
  BY <1>1 DEF VectorsInv, BufferInv
<1>5. RecordsInv'
  BY <1>1, <1>2 DEF VectorsInv, RecordsInv, Excepted, VectorFile!Completed
<1>6. QED
  BY <1>3, <1>4, <1>5 DEF VectorsInv

LEMMA LayerFailsKeeps ==
    ASSUME VectorFile!VectorAssumption, VectorsInv, VectorFile!LayerFails
    PROVE  VectorsInv'
<1>1. /\ run = "running" /\ pending # <<>> /\ VectorFile!Count(buffer) = 0
      /\ run' = "failed" /\ file' = VectorFile!Extended(buffer)
      /\ tail' = IF buffer = <<>> THEN tail ELSE VectorFile!NoTail
      /\ hurt' = hurt \cup VectorFile!Spoiled(buffer)
      /\ buffer' = <<>> /\ pending' = <<>> /\ UNCHANGED <<exists, mistaken, runs>>
  BY DEF VectorFile!LayerFails
<1>2. PICK h \in {0, 1}, c \in 0 .. Features : Buffered(h, c)
  BY <1>1 DEF VectorsInv, BufferInv
<1>3. c = 0
  BY <1>1, <1>2, CountFacts
<1>4. buffer \in Seq(VectorFile!Lines) /\ file \in Seq(VectorFile!Lines)
  BY DEF VectorsInv, VectorFile!TypeOK
<1>5. /\ file' \in Seq(VectorFile!Lines) /\ Once(file') /\ hurt' = hurt
      /\ VectorFile!Completed' = VectorFile!Completed
      /\ \A l : Shows(file, l) => Shows(file', l)
      /\ tail' \in VectorFile!Tails \cup {VectorFile!NoTail}
  <2>1. CASE h = 0
    <3>1. buffer = <<>>
      BY <1>2, <1>3, <1>4, <2>1 DEF Buffered
    <3>2. file' = file /\ tail' = tail /\ hurt' = hurt
      BY <1>1, <1>4, <3>1 DEF VectorFile!Extended, VectorFile!Spoiled
    <3>3. QED
      BY <3>2 DEF VectorsInv, RecordsInv, Excepted, VectorFile!Completed, VectorFile!TypeOK
  <2>2. CASE h = 1
    <3>1. /\ Len(buffer) = 1 /\ buffer[1] = VectorFile!Header /\ file = <<>>
          /\ tail = VectorFile!NoTail /\ buffer # <<>>
      BY <1>2, <1>3, <1>4, <2>2 DEF Buffered
    <3>2. ~tail.cut /\ VectorFile!NoTail.layer = VectorFile!NoLayer
      BY <3>1 DEF VectorFile!NoTail
    <3>3. file' = buffer /\ tail' = tail /\ hurt' = hurt
      BY <1>1, <1>4, <3>1, <3>2 DEF VectorFile!Extended, VectorFile!Spoiled
    <3>4. \A i \in 1 .. Len(file') : i = 1 /\ file'[i].layer = VectorFile!NoLayer
      <4>1. VectorFile!Header.layer = VectorFile!NoLayer
        BY LineFacts
      <4>2. \A i \in 1 .. 1 : i = 1
        OBVIOUS
      <4>3. QED
        BY <3>1, <3>3, <4>1, <4>2
    <3>5. VectorFile!Completed = {}
      BY <3>1, <3>2 DEF VectorFile!Completed
    <3>6. VectorFile!Completed' = {}
      BY <3>1, <3>2, <3>3, <3>4 DEF VectorFile!Completed
    <3>7. Once(file')
      BY <3>4 DEF Once
    <3>8. \A l : Shows(file, l) => Shows(file', l)
      <4>1. 1 \in 1 .. Features
        BY DEF VectorFile!VectorAssumption
      <4>2. QED
        BY <3>1, <4>1 DEF Shows
    <3>9. QED
      BY <1>4, <3>1, <3>3, <3>5, <3>6, <3>7, <3>8
  <2>3. QED
    BY <2>1, <2>2
<1>6. VectorFile!TypeOK'
  BY <1>1, <1>5 DEF VectorsInv, VectorFile!TypeOK
<1>7. BufferInv'
  BY <1>1 DEF BufferInv
<1>8. RecordsInv'
  BY <1>1, <1>5 DEF VectorsInv, RecordsInv, Excepted
<1>9. QED
  BY <1>6, <1>7, <1>8 DEF VectorsInv

\* The names that a number may show which is cut: that of the layer, or that of a
\* layer with a number that begins it.
Beginnings(l) == {a \in VectorFile!Layers : <<a, l>> \in CutNames}

\* What is left of a line that was cut shows the layer that was being written, one
\* with a number that begins its number, or what a line shows that was cut before.
LEMMA CutFacts ==
    ASSUME VectorFile!VectorAssumption, VectorsInv, run = "running",
           NEW n \in 0 .. Len(buffer), NEW t \in VectorFile!Cuts(n)
    PROVE  LET left_over == IF n = 0 THEN VectorFile!Recut(t) ELSE t
               l0 == Head(pending)
           IN  /\ left_over \in VectorFile!Tails \cup {VectorFile!NoTail}
               /\ left_over.layer \in {VectorFile!NoLayer, tail.layer, l0} \cup Beginnings(l0)
<1> DEFINE left_over == IF n = 0 THEN VectorFile!Recut(t) ELSE t
           names == VectorFile!Layers \cup {VectorFile!NoLayer}
           l0 == Head(pending)
           seen == {VectorFile!NoLayer, l0} \cup Beginnings(l0)
<1>1. /\ buffer \in Seq(VectorFile!Lines) /\ pending \in Seq(VectorFile!Layers)
      /\ tail \in VectorFile!Tails \cup {VectorFile!NoTail} /\ tail.layer \in names
  BY TailFacts DEF VectorsInv, VectorFile!TypeOK
<1>2. /\ t.layer \in seen /\ t.layer \in names
      /\ t \in VectorFile!Tails \cup {VectorFile!NoTail}
  <2>1. CASE n = Len(buffer)
    <3>1. t = VectorFile!NoTail
      BY <2>1 DEF VectorFile!Cuts
    <3>2. QED
      BY <3>1 DEF VectorFile!NoTail
  <2>2. CASE n # Len(buffer)
    <3>1. n + 1 \in 1 .. Len(buffer) /\ buffer # <<>>
      BY <1>1, <2>2
    <3>2. pending # <<>>
      BY <3>1 DEF VectorsInv, BufferInv
    <3>3. PICK h \in {0, 1}, c \in 0 .. Features : Buffered(h, c)
      BY <3>2 DEF VectorsInv, BufferInv
    <3>4. Features \in Nat
      BY DEF VectorFile!VectorAssumption
    <3>5. buffer[n + 1].layer \in {VectorFile!NoLayer, l0}
      <4>1. CASE n + 1 > h
        <5>1. (n + 1) - h \in 1 .. c /\ h + ((n + 1) - h) = n + 1
          BY <1>1, <3>1, <3>3, <3>4, <4>1 DEF Buffered
        <5>2. buffer[n + 1] = VectorFile!Record(l0, (n + 1) - h)
          BY <3>3, <5>1 DEF Buffered
        <5>3. QED
          BY <5>2, LineFacts
      <4>2. CASE n + 1 <= h
        <5>1. h = 1 /\ n + 1 = 1
          BY <4>2
        <5>2. buffer[1] = VectorFile!Header
          BY <3>3, <5>1 DEF Buffered
        <5>3. QED
          BY <5>1, <5>2, LineFacts
      <4>3. QED
        BY <3>1, <4>1, <4>2
    <3> DEFINE l1 == buffer[n + 1].layer
    <3>6. l1 \in names
      <4>1. buffer[n + 1] \in VectorFile!Lines
        BY <1>1, <3>1
      <4>2. QED
        BY <4>1, LineFacts
    <3>7. \/ t = VectorFile!NoTail
          \/ \E l \in {VectorFile!NoLayer, l1} \cup (IF l1 = VectorFile!NoLayer THEN {}
                                                   ELSE Beginnings(l1)),
                b \in BOOLEAN, u \in BOOLEAN : t = VectorFile!Cut(l, b, u)
      <4>1. VectorFile!Cuts(n) =
              {VectorFile!NoTail} \cup
              ({VectorFile!Cut(VectorFile!NoLayer, FALSE, TRUE)} \cup
               (IF l1 = VectorFile!NoLayer THEN {VectorFile!Cut(VectorFile!NoLayer, FALSE, FALSE)}
                ELSE {VectorFile!Cut(a, TRUE, TRUE) :
                        a \in {VectorFile!NoLayer} \cup Beginnings(l1)}
                     \cup {VectorFile!Cut(l1, TRUE, u) : u \in BOOLEAN}))
        BY <2>2 DEF VectorFile!Cuts, Beginnings
      <4> HIDE DEF l1
      <4>2. QED
        BY <4>1
    <3> HIDE DEF l1
    <3>8. l1 # VectorFile!NoLayer => l1 = l0
      BY <3>5 DEF l1
    <3>9. CASE t = VectorFile!NoTail
      BY <3>9 DEF VectorFile!NoTail
    <3>10. ASSUME NEW l \in {VectorFile!NoLayer, l1} \cup (IF l1 = VectorFile!NoLayer THEN {}
                                                         ELSE Beginnings(l1)),
                  NEW b \in BOOLEAN, NEW u \in BOOLEAN, t = VectorFile!Cut(l, b, u)
           PROVE  /\ t.layer \in seen /\ t.layer \in names
                  /\ t \in VectorFile!Tails
      <4>1. l \in names /\ l \in seen
        BY <3>6, <3>8 DEF Beginnings
      <4>2. QED
        BY <3>10, <4>1 DEF VectorFile!Tails, VectorFile!Cut
    <3>11. QED
      BY <3>7, <3>9, <3>10
  <2>3. QED
    BY <2>1, <2>2
<1> HIDE DEF seen
<1>3. CASE n # 0 \/ ~tail.cut
  <2>1. left_over = t
    BY <1>3 DEF VectorFile!Recut
  <2>2. QED
    BY <1>2, <2>1 DEF seen
<1>4. CASE n = 0 /\ tail.cut /\ ~t.cut
  <2>1. left_over = tail
    BY <1>4 DEF VectorFile!Recut
  <2>2. QED
    BY <1>1, <2>1
<1>5. CASE n = 0 /\ tail.cut /\ t.cut
  <2> DEFINE l == IF tail.labelled THEN tail.layer ELSE t.layer
             b == t.labelled \/ tail.labelled
  <2>1. left_over = [t EXCEPT !.layer = l, !.labelled = b]
    BY <1>5 DEF VectorFile!Recut
  <2>2. t \in VectorFile!Tails
    <3>1. ~VectorFile!NoTail.cut
      BY DEF VectorFile!NoTail
    <3>2. QED
      BY <1>2, <1>5, <3>1
  <2>3. l \in names /\ (l = tail.layer \/ l \in seen) /\ b \in BOOLEAN
    BY <1>1, <1>2
  <2> HIDE DEF l, b
  <2>4. left_over \in VectorFile!Tails /\ left_over.layer = l
    BY <2>1, <2>2, <2>3 DEF VectorFile!Tails
  <2>5. QED
    BY <2>3, <2>4 DEF seen
<1>6. QED
  BY <1>3, <1>4, <1>5

LEMMA DieKeeps ==
    ASSUME VectorFile!VectorAssumption, VectorsInv, VectorFile!Die
    PROVE  VectorsInv'
<1>1. /\ run = "running" /\ run' = "died" /\ buffer' = <<>> /\ pending' = <<>>
      /\ UNCHANGED <<exists, runs>>
  BY DEF VectorFile!Die
<1>2. buffer \in Seq(VectorFile!Lines) /\ file \in Seq(VectorFile!Lines)
      /\ pending \in Seq(VectorFile!Layers) /\ hurt \subseteq VectorFile!Layers
      /\ mistaken \subseteq VectorFile!Layers
      /\ Features \in Nat \ {0}
  BY DEF VectorsInv, VectorFile!TypeOK, VectorFile!VectorAssumption
<1>3. PICK n \in 0 .. Len(buffer) : \E t \in VectorFile!Cuts(n) :
        LET sent == SubSeq(buffer, 1, n)
            whole == n = Len(buffer) /\ VectorFile!Count(buffer) = Features
            more == VectorFile!Extended(sent)
            left_over == IF n = 0 THEN VectorFile!Recut(t) ELSE t
            shown == {more[i].layer : i \in Len(file) + 1 .. Len(more)} \cup {left_over.layer}
        IN  /\ file' = more
            /\ tail' = left_over
            /\ hurt' = hurt \cup VectorFile!Spoiled(sent)
                       \cup {l \in shown \ {VectorFile!NoLayer} : ~whole /\ l = Head(pending)}
            /\ mistaken' = mistaken \cup
                 {l \in {left_over.layer} \ ({VectorFile!NoLayer} \cup VectorFile!Completed) :
                    l # Head(pending)}
  BY DEF VectorFile!Die
<1>9. PICK t \in VectorFile!Cuts(n) :
        LET sent == SubSeq(buffer, 1, n)
            whole == n = Len(buffer) /\ VectorFile!Count(buffer) = Features
            more == VectorFile!Extended(sent)
            left_over == IF n = 0 THEN VectorFile!Recut(t) ELSE t
            shown == {more[i].layer : i \in Len(file) + 1 .. Len(more)} \cup {left_over.layer}
        IN  /\ file' = more
            /\ tail' = left_over
            /\ hurt' = hurt \cup VectorFile!Spoiled(sent)
                       \cup {l \in shown \ {VectorFile!NoLayer} : ~whole /\ l = Head(pending)}
            /\ mistaken' = mistaken \cup
                 {l \in {left_over.layer} \ ({VectorFile!NoLayer} \cup VectorFile!Completed) :
                    l # Head(pending)}
  BY <1>3
<1> DEFINE sent == SubSeq(buffer, 1, n)
           l0 == Head(pending)
           spoiled == VectorFile!Spoiled(sent)
           whole == n = Len(buffer) /\ VectorFile!Count(buffer) = Features
           shown == {file'[i].layer : i \in Len(file) + 1 .. Len(file')} \cup {tail'.layer}
           lost == {l \in shown \ {VectorFile!NoLayer} : ~whole /\ l = l0}
<1>4. /\ file' = VectorFile!Extended(sent)
      /\ tail' = IF n = 0 THEN VectorFile!Recut(t) ELSE t
      /\ hurt' = hurt \cup spoiled \cup lost
      /\ mistaken' = mistaken \cup
           {l \in {tail'.layer} \ ({VectorFile!NoLayer} \cup VectorFile!Completed) : l # l0}
  BY <1>9
<1>5. /\ tail' \in VectorFile!Tails \cup {VectorFile!NoTail}
      /\ tail'.layer \in {VectorFile!NoLayer, tail.layer, l0} \cup Beginnings(l0)
      /\ tail'.layer \in VectorFile!Layers \cup {VectorFile!NoLayer}
  <2>1. /\ tail' \in VectorFile!Tails \cup {VectorFile!NoTail}
        /\ tail'.layer \in {VectorFile!NoLayer, tail.layer, l0} \cup Beginnings(l0)
    BY <1>1, <1>4, CutFacts
  <2>2. \A s \in VectorFile!Tails \cup {VectorFile!NoTail} :
          s.layer \in VectorFile!Layers \cup {VectorFile!NoLayer}
    <3>1. VectorFile!NoTail.layer = VectorFile!NoLayer
      BY DEF VectorFile!NoTail
    <3>2. \A s \in VectorFile!Tails : s.layer \in VectorFile!Layers \cup {VectorFile!NoLayer}
      BY DEF VectorFile!Tails
    <3>3. QED
      BY <3>1, <3>2
  <2>3. QED
    BY <2>1, <2>2
<1>6. CASE pending = <<>>
  <2>1. buffer = <<>> /\ n = 0 /\ sent = <<>>
    BY <1>2, <1>6 DEF VectorsInv, BufferInv
  <2>2. file' = file /\ spoiled = {}
    BY <1>2, <1>4, <2>1 DEF VectorFile!Extended, VectorFile!Spoiled
  <2>3. tail' = tail
    <3>1. t = VectorFile!NoTail
      BY <2>1 DEF VectorFile!Cuts
    <3>2. ~t.cut
      BY <3>1 DEF VectorFile!NoTail
    <3>3. ~tail.cut => tail = VectorFile!NoTail
      BY TailFacts DEF VectorsInv
    <3>4. QED
      BY <1>4, <2>1, <3>1, <3>2, <3>3 DEF VectorFile!Recut
  <2>4. shown \subseteq VectorFile!Layers \cup {VectorFile!NoLayer}
    BY <1>2, <1>5, <2>2
  <2>5. hurt' \subseteq VectorFile!Layers /\ hurt \subseteq hurt' /\ mistaken' = mistaken
    <3>1. tail'.layer \in VectorFile!Completed \cup {VectorFile!NoLayer}
      BY <2>3 DEF VectorFile!Completed
    <3>2. QED
      BY <1>2, <1>4, <2>2, <2>4, <3>1
  <2>6. VectorFile!TypeOK'
    BY <1>1, <2>2, <2>3, <2>5 DEF VectorsInv, VectorFile!TypeOK
  <2>7. BufferInv'
    BY <1>1 DEF BufferInv
  <2>8. RecordsInv'
    BY <1>1, <2>2, <2>3, <2>5 DEF VectorsInv, RecordsInv, Excepted, VectorFile!Completed
  <2>9. QED
    BY <2>6, <2>7, <2>8 DEF VectorsInv
<1>7. CASE pending # <<>>
  <2>1. /\ file' \in Seq(VectorFile!Lines) /\ Len(file') = Len(file) + n
        /\ \A i \in 1 .. Len(file) : file'[i] = file[i]
        /\ spoiled \subseteq {l0}
        /\ l0 \in VectorFile!Layers /\ l0 \notin VectorFile!Completed
        /\ Once(file')
        /\ \A i \in 1 .. Len(file') :
             file'[i].layer \in VectorFile!Completed \cup {VectorFile!NoLayer, l0}
        /\ \A l : Shows(file, l) => Shows(file', l)
        /\ whole /\ l0 \notin spoiled => Shows(file', l0)
    BY <1>1, <1>4, <1>7, MoreFacts
  <2>2. Len(file) \in Nat /\ n \in Nat
    BY <1>2
  <2>3. l0 # VectorFile!NoLayer
    BY <2>1 DEF VectorFile!VectorAssumption
  <2> HIDE DEF sent, l0, spoiled, whole, shown
  <2>4. hurt \subseteq hurt' /\ hurt' \subseteq hurt \cup {l0}
    BY <1>4, <2>1
  <2>5. VectorFile!Completed' =
          ({file'[i].layer : i \in 1 .. Len(file')} \cup {tail'.layer}) \ {VectorFile!NoLayer}
    BY DEF VectorFile!Completed
  <2>6. tail.layer \in VectorFile!Completed \cup {VectorFile!NoLayer}
    BY DEF VectorFile!Completed
  <2>7. \A l \in VectorFile!Completed' :
          l \in VectorFile!Completed \/ l = l0 \/ l \in mistaken'
    BY <1>4, <1>5, <2>1, <2>5, <2>6
  <2>8. ASSUME l0 \in VectorFile!Completed' PROVE l0 \in shown
    <3>1. l0 = tail'.layer \/ \E i \in 1 .. Len(file') : file'[i].layer = l0
      BY <2>5, <2>8
    <3>2. ASSUME NEW i \in 1 .. Len(file'), file'[i].layer = l0 PROVE i \in Len(file) + 1 .. Len(file')
      <4>1. i \notin 1 .. Len(file)
        <5>1. i \in 1 .. Len(file) => file[i].layer = l0
          BY <2>1, <3>2
        <5>2. QED
          BY <2>1, <2>3, <5>1 DEF VectorFile!Completed
      <4>2. QED
        BY <2>1, <2>2, <4>1
    <3>3. QED
      BY <3>1, <3>2 DEF shown
  <2>9. l0 \in VectorFile!Completed' => l0 \in hurt' \/ Shows(file', l0)
    BY <1>4, <2>1, <2>3, <2>8
  <2>10. VectorFile!TypeOK'
    <3>1. hurt' \subseteq VectorFile!Layers /\ mistaken' \subseteq VectorFile!Layers
      BY <1>2, <1>4, <1>5, <2>1, <2>4
    <3>2. QED
      BY <1>1, <1>5, <2>1, <3>1 DEF VectorsInv, VectorFile!TypeOK
  <2>11. BufferInv'
    BY <1>1 DEF BufferInv
  <2>12. \A l \in VectorFile!Completed' \ Excepted' : Shows(file', l)
    BY <1>4, <2>1, <2>4, <2>7, <2>9 DEF VectorsInv, RecordsInv, Excepted
  <2>13. \A l \in mistaken' : \E m \in VectorFile!Layers : <<l, m>> \in CutNames
    <3>1. \A l \in mistaken' : l \in mistaken \/ l \in Beginnings(l0)
      BY <1>4, <1>5, <2>6
    <3>2. QED
      BY <2>1, <3>1 DEF VectorsInv, RecordsInv, Beginnings
  <2>14. RecordsInv'
    BY <1>1, <2>1, <2>12, <2>13 DEF RecordsInv
  <2>15. QED
    BY <2>10, <2>11, <2>14 DEF VectorsInv
<1>8. QED
  BY <1>6, <1>7

LEMMA FileInvAlways ==
    ASSUME VectorFile!VectorAssumption
    PROVE  VectorFile!Spec => []VectorsInv
<1>1. VectorFile!Init => VectorsInv
  BY FileInit
<1>2. VectorsInv /\ [VectorFile!Next]_VectorFile!vars => VectorsInv'
  <2> SUFFICES ASSUME VectorsInv, [VectorFile!Next]_VectorFile!vars PROVE VectorsInv'
    OBVIOUS
  <2>1. CASE VectorFile!ScanFails
    BY <2>1, ScanFailsKeeps
  <2>2. CASE VectorFile!Continue
    BY <2>2, ContinueKeeps
  <2>3. ASSUME NEW resume \in BOOLEAN, VectorFile!Create(resume) PROVE VectorsInv'
    BY <2>3, CreateFileKeeps
  <2>4. CASE VectorFile!WriteRecord
    BY <2>4, WriteRecordKeeps
  <2>5. CASE VectorFile!FlushLayer
    BY <2>5, FlushLayerKeeps
  <2>6. CASE VectorFile!Complete
    BY <2>6, CompleteKeeps
  <2>7. CASE VectorFile!LayerFails
    BY <2>7, LayerFailsKeeps
  <2>8. CASE VectorFile!Die
    BY <2>8, DieKeeps
  <2>9. CASE UNCHANGED VectorFile!vars
    <3>1. UNCHANGED <<exists, file, tail, buffer, pending, run, hurt, mistaken, runs>>
      BY <2>9 DEF VectorFile!vars
    <3>2. VectorFile!TypeOK'
      BY <3>1 DEF VectorsInv, VectorFile!TypeOK
    <3>3. BufferInv'
      BY <3>1 DEF VectorsInv, BufferInv, Buffered
    <3>4. Excepted' = Excepted /\ VectorFile!Completed' = VectorFile!Completed
      BY <3>1 DEF Excepted, VectorFile!Completed
    <3>5. RecordsInv'
      BY <3>1, <3>4 DEF VectorsInv, RecordsInv
    <3>6. QED
      BY <3>2, <3>3, <3>5 DEF VectorsInv
  <2>10. QED
    BY <2>1, <2>2, <2>3, <2>4, <2>5, <2>6, <2>7, <2>8, <2>9 DEF VectorFile!Next
<1>3. QED
  BY <1>1, <1>2, PTL DEF VectorFile!Spec

LEMMA FileRunsKeep == ProgramsSpec => []VectorsInv
<1>1. VectorFile!VectorAssumption
  BY ProgramsAssumption
<1>2. QED
  BY <1>1, FileInvAlways, VectorFileRuns, PTL

\* A layer that the file shows is whole in it, unless a process died while it was
\* written, the line before it was cut, or its number is what a death left of the
\* number of another layer, which it begins; a run that says it has succeeded has
\* written every other layer; and no record is written twice: for any layers, and
\* however their numbers begin each other, any features and number of runs.
THEOREM LayersSurviveAlways == ProgramsSpec => []LayersSurvive
<1>1. VectorsInv => LayersSurvive
  BY DEF VectorsInv, RecordsInv, Excepted, LayersSurvive, VectorFile!LayersSurvive, VectorFile!Found, Shows, Once
<1>2. QED
  BY <1>1, FileRunsKeep, PTL

----------------------------------------------------------------------------
(* The graph over the gate vectors: GateGraph *)

Top == Gates!entry_point

GraphValues ==
    /\ similarity \in Similarities
    /\ node_levels \in [Gates!Nodes -> Nat]

\* What the module's instance says of sets is what the lemmas say of them.
LEMMA GateOperators ==
    /\ \A S : Gates!Cardinality(S) = Cardinality(S)
    /\ \A s : Gates!Size(s) = Cardinality(DOMAIN s)
    /\ \A f, l : Gates!Neighbors(f, l) = {links[l][f][i] : i \in DOMAIN links[l][f]}
    /\ \A s : Gates!Range(s) = {s[i] : i \in DOMAIN s}
<1>1. \A S : Gates!Cardinality(S) = Cardinality(S)
  BY Zenon DEF Gates!Cardinality, Cardinality
<1>2. \A s : Gates!Size(s) = Cardinality(DOMAIN s)
  BY <1>1 DEF Gates!Size
<1>3. \A s : Gates!Range(s) = {s[i] : i \in DOMAIN s}
  BY DEF Gates!Range
<1>4. \A f, l : Gates!Neighbors(f, l) = {links[l][f][i] : i \in DOMAIN links[l][f]}
  BY <1>3 DEF Gates!Neighbors
<1>5. QED
  BY <1>1, <1>2, <1>3, <1>4

\* The features, and the one from which all searches start.
LEMMA GraphFacts ==
    ASSUME GraphValues
    PROVE  /\ Gates!Size(similarity) \in Nat \ {0}
           /\ Gates!Nodes = 0 .. Gates!Size(similarity) - 1
           /\ IsFiniteSet(Gates!Nodes) /\ Cardinality(Gates!Nodes) = Gates!Size(similarity)
           /\ Top \in Gates!Nodes
           /\ Gates!MaxLevel \in Nat /\ node_levels[Top] = Gates!MaxLevel
           /\ \A f \in Gates!Nodes : node_levels[f] \in 0 .. Gates!MaxLevel
<1> DEFINE N == Gates!Nodes
           n == Gates!Size(similarity)
           lev == node_levels
           R == {p \in N \X N : lev[p[1]] > lev[p[2]] \/ (lev[p[1]] = lev[p[2]] /\ p[1] > p[2])}
<1>1. n \in Nat \ {0} /\ N = 0 .. n - 1
  BY ProgramsAssumption DEF GraphValues, Gates!GraphAssumption, Gates!Nodes
<1>2. IsFiniteSet(N) /\ Cardinality(N) = n
  <2>1. 0 \in Int /\ n - 1 \in Int /\ ~(0 > n - 1) /\ (n - 1) - 0 + 1 = n
    BY <1>1
  <2> HIDE DEF n
  <2>2. IsFiniteSet(0 .. n - 1) /\ Cardinality(0 .. n - 1) = n
    BY <2>1, FS_Interval
  <2>3. QED
    BY <1>1, <2>2
<1>3. \A f \in N : lev[f] \in Nat /\ f \in Nat
  BY <1>1 DEF GraphValues
<1> HIDE DEF n, N, lev
<1>4. ASSUME NEW x \in N, NEW y \in N
      PROVE  <<x, y>> \in R <=> lev[x] > lev[y] \/ (lev[x] = lev[y] /\ x > y)
  OBVIOUS
<1> HIDE DEF R
<1>5. StrictOrder(R, N)
  <2>1. \A x \in N : <<x, x>> \notin R
    BY <1>3, <1>4
  <2>2. ASSUME NEW x \in N, NEW y \in N PROVE x = y \/ <<x, y>> \in R \/ <<y, x>> \in R
    BY <1>3, <1>4
  <2>3. ASSUME NEW x \in N, NEW y \in N, NEW z \in N, <<x, y>> \in R, <<y, z>> \in R
        PROVE  <<x, z>> \in R
    <3>1. /\ lev[x] > lev[y] \/ (lev[x] = lev[y] /\ x > y)
          /\ lev[y] > lev[z] \/ (lev[y] = lev[z] /\ y > z)
      BY <1>4, <2>3
    <3>2. lev[x] > lev[z] \/ (lev[x] = lev[z] /\ x > z)
      BY <1>3, <3>1
    <3>3. QED
      BY <1>4, <3>2
  <2>4. QED
    BY <2>1, <2>2, <2>3 DEF StrictOrder
<1>6. PICK t \in N : Cardinality(Ahead(R, N, t)) = 0
  <2>1. 0 \in 0 .. (n - 1)
    BY <1>1
  <2>2. QED
    BY <1>2, <1>5, <2>1, PlacesInOrder
<1>7. ASSUME NEW x \in N PROVE lev[x] <= lev[t] /\ (lev[x] = lev[t] => x <= t)
  <2>1. Ahead(R, N, t) \in SUBSET N
    BY DEF Ahead
  <2>2. Ahead(R, N, t) = {}
    BY <1>2, <1>6, <2>1, FS_Subset, FS_EmptySet
  <2>3. <<x, t>> \notin R
    BY <2>2 DEF Ahead
  <2>4. QED
    BY <1>3, <1>4, <2>3
<1>8. Gates!MaxLevel = lev[t]
  <2> DEFINE L == Gates!Levels
  <2>1. L = {lev[f] : f \in N}
    BY DEF Gates!Levels, lev, N
  <2> HIDE DEF L
  <2>2. lev[t] \in L /\ \A k \in L : k <= lev[t] /\ k \in Nat
    BY <1>3, <1>7, <2>1
  <2> DEFINE mx == CHOOSE l \in L : \A k \in L : k <= l
  <2>3. mx \in L /\ \A k \in L : k <= mx
    BY <2>2
  <2>4. Gates!MaxLevel = mx
    BY DEF Gates!MaxLevel, L
  <2> HIDE DEF mx
  <2>5. QED
    BY <2>2, <2>3, <2>4
<1>9. Top = t
  <2> DEFINE P(f) == node_levels[f] = Gates!MaxLevel /\
                        \A g \in Gates!Nodes : node_levels[g] = Gates!MaxLevel => g <= f
  <2>1. P(t)
    BY <1>7, <1>8 DEF lev, N
  <2>2. \A f \in Gates!Nodes : P(f) => f = t
    BY <1>3, <1>7, <1>8, <2>1 DEF lev, N
  <2>3. Top = CHOOSE f \in Gates!Nodes : P(f)
    BY Zenon DEF Top, Gates!entry_point
  <2> HIDE DEF P
  <2>4. QED
    BY <2>1, <2>2, <2>3 DEF N
<1>10. \A f \in N : lev[f] \in 0 .. lev[t]
  BY <1>3, <1>7
<1>11. QED
  BY <1>1, <1>2, <1>3, <1>8, <1>9, <1>10 DEF n, N, lev

----------------------------------------------------------------------------
(* A search stays where links lead *)

Closed(P, l) == \A f \in P : Gates!Neighbors(f, l) \subseteq P

LEMMA NearerFacts ==
    ASSUME NEW P, NEW score, Scored(P, score), NEW l, Closed(P, l), NEW f \in P
    PROVE  Gates!Nearer(score, f, l) \in P
<1> DEFINE near == Gates!Neighbors(f, l) \cup {f}
           best == CHOOSE g \in near : \A h \in near : score[h] <= score[g]
<1>1. near \in SUBSET P /\ near # {}
  BY DEF Closed
<1>2. Gates!Nearer(score, f, l) = best
  BY Zenon DEF Gates!Nearer
<1> HIDE DEF near
<1>3. Scored(near, score)
  BY <1>1, FS_Subset DEF Scored
<1>4. \E g \in near : \A h \in near : score[h] <= score[g]
  BY <1>1, <1>3, GreatestScore
<1>5. best \in near
  BY <1>4
<1>6. QED
  BY <1>1, <1>2, <1>5

LEMMA ClosestFacts ==
    ASSUME GraphValues, NEW P, NEW score, Scored(P, score), NEW l, Closed(P, l), NEW from \in P
    PROVE  Gates!Closest(score, from, l) \in P
<1> DEFINE n == Gates!Size(similarity)
           step == [p \in (1 .. n) \X P |-> Gates!Nearer(score, p[2], l)]
           Turns(at) == at = [k \in 0 .. n |->
                                 IF k = 0 THEN from ELSE Gates!Nearer(score, at[k - 1], l)]
           at == CHOOSE at : Turns(at)
<1>1. n \in Nat
  BY GraphFacts
<1>2. Gates!Closest(score, from, l) = at[n]
  BY Zenon DEF Gates!Closest
<1>3. step \in [(1 .. n) \X P -> P]
  <2>1. ASSUME NEW p \in (1 .. n) \X P PROVE Gates!Nearer(score, p[2], l) \in P
    BY NearerFacts
  <2>2. QED
    BY <2>1
<1>4. \A k \in 1 .. n, x \in P : step[<<k, x>>] = Gates!Nearer(score, x, l)
  OBVIOUS
<1> HIDE DEF step, n
<1>6. PICK f : ByStepsIn(f, from, step, n, P)
  BY <1>1, <1>3, StepsExist DEF StepsIn
<1>6a. /\ f \in [0 .. n -> P] /\ f[0] = from
       /\ \A k \in 1 .. n : f[k] = step[<<k, f[k - 1]>>]
  BY <1>6 DEF ByStepsIn
<1>7. Turns(f)
  <2>1. ASSUME NEW k \in 0 .. n, k # 0 PROVE f[k] = Gates!Nearer(score, f[k - 1], l)
    <3>1. k \in 1 .. n /\ k - 1 \in 0 .. n
      BY <1>1, <2>1
    <3>2. QED
      BY <1>4, <1>6a, <3>1
  <2>2. \A k \in 0 .. n : f[k] = IF k = 0 THEN from ELSE Gates!Nearer(score, f[k - 1], l)
    BY <1>6a, <2>1
  <2>3. f = [k \in 0 .. n |-> f[k]]
    BY <1>6a
  <2>4. QED
    BY <2>2, <2>3
<1>8. Turns(at)
  <2> HIDE DEF Turns
  <2>1. QED
    BY <1>7
<1> HIDE DEF at
<1>9. \A k \in Nat : k \in {j \in Nat : j <= n => at[j] \in P}
  <2> DEFINE T == {j \in Nat : j <= n => at[j] \in P}
  <2>1. 0 \in T
    BY <1>1, <1>8
  <2>2. ASSUME NEW k \in Nat, k \in T PROVE k + 1 \in T
    <3>1. ASSUME k + 1 <= n PROVE at[k + 1] \in P
      <4>1. k + 1 \in 0 .. n /\ k + 1 # 0 /\ (k + 1) - 1 = k /\ k <= n
        BY <1>1, <3>1
      <4>2. at[k + 1] = Gates!Nearer(score, at[(k + 1) - 1], l)
        BY <1>8, <4>1
      <4>3. QED
        BY <2>2, <4>1, <4>2, NearerFacts
    <3>2. QED
      BY <3>1
  <2> HIDE DEF T
  <2>3. \A k \in Nat : k \in T
    BY <2>1, <2>2, Induction
  <2>4. QED
    BY <2>3 DEF T
<1>10. QED
  BY <1>1, <1>2, <1>9


\* The descent ends at a feature of the level below the last, that is inserted or the
\* entry point.
LEMMA DescentFacts ==
    ASSUME GraphValues, NEW score, Scored(Gates!Nodes, score),
           NEW l \in 0 .. Gates!MaxLevel,
           NEW P \in SUBSET Gates!Nodes, Top \in P,
           \A k \in 0 .. Gates!MaxLevel, f \in P : node_levels[f] >= k =>
               \A g \in Gates!Neighbors(f, k) : g \in P /\ node_levels[g] >= k
    PROVE  Gates!Descent(score, l) \in P /\ node_levels[Gates!Descent(score, l)] >= l
<1> DEFINE mx == Gates!MaxLevel
           n == mx - l
           Above(k) == {f \in P : node_levels[f] >= k}
           Chain(end) == end = [k \in 0 .. n |->
                                   IF k = 0 THEN Gates!entry_point
                                   ELSE Gates!Closest(score, end[k - 1], mx + 1 - k)]
           step == [p \in (1 .. n) \X P |->
                       IF node_levels[p[2]] >= mx + 1 - p[1]
                       THEN Gates!Closest(score, p[2], mx + 1 - p[1]) ELSE Top]
           end == CHOOSE end : Chain(end)
<1>1. n \in Nat /\ mx \in Nat /\ l \in Nat /\ n = mx - l /\ node_levels[Top] = mx
  BY GraphFacts
<1>2. Gates!Descent(score, l) = end[n]
  BY Zenon DEF Gates!Descent
<1>3. \A f \in P : node_levels[f] \in Nat
  BY DEF GraphValues
<1>4. ASSUME NEW k \in 1 .. n, NEW f \in P, node_levels[f] >= mx + 1 - k
      PROVE  /\ Gates!Closest(score, f, mx + 1 - k) \in P
             /\ node_levels[Gates!Closest(score, f, mx + 1 - k)] >= mx + 1 - k
  <2>1. mx + 1 - k \in 0 .. mx
    BY <1>1
  <2> DEFINE h == mx + 1 - k
  <2> HIDE DEF h
  <2>2. h \in 0 .. Gates!MaxLevel
    BY <2>1 DEF h
  <2>3. f \in Above(h)
    BY <1>4 DEF h
  <2>4. Closed(Above(h), h)
    BY <2>2 DEF Closed
  <2>5. Scored(Above(h), score)
    <3>1. Above(h) \in SUBSET Gates!Nodes
      OBVIOUS
    <3> HIDE DEF Above
    <3>2. QED
      BY <3>1, FS_Subset DEF Scored
  <2>6. Gates!Closest(score, f, h) \in Above(h)
    <3> HIDE DEF Above
    <3>1. QED
      BY <2>3, <2>4, <2>5, ClosestFacts
  <2>7. QED
    BY <2>6 DEF h
<1>5. step \in [(1 .. n) \X P -> P]
  <2>1. ASSUME NEW p \in (1 .. n) \X P
        PROVE  (IF node_levels[p[2]] >= mx + 1 - p[1]
                THEN Gates!Closest(score, p[2], mx + 1 - p[1]) ELSE Top) \in P
    BY <1>4
  <2>2. QED
    BY <2>1
<1>6. \A k \in 1 .. n, f \in P : node_levels[f] >= mx + 1 - k =>
         step[<<k, f>>] = Gates!Closest(score, f, mx + 1 - k)
  OBVIOUS
<1> HIDE DEF step, n
<1>8. PICK f : ByStepsIn(f, Top, step, n, P)
  BY <1>1, <1>5, StepsExist DEF StepsIn
<1>8a. /\ f \in [0 .. n -> P] /\ f[0] = Top
       /\ \A k \in 1 .. n : f[k] = step[<<k, f[k - 1]>>]
  BY <1>8 DEF ByStepsIn
<1>9. ASSUME NEW e, e[0] = Top,
             \A k \in 1 .. n : e[k - 1] \in P /\ node_levels[e[k - 1]] >= mx + 1 - k =>
                 e[k] = Gates!Closest(score, e[k - 1], mx + 1 - k)
      PROVE  \A k \in 0 .. n : e[k] \in P /\ node_levels[e[k]] >= mx - k
  <2> DEFINE T == {k \in Nat : k <= n => e[k] \in P /\ node_levels[e[k]] >= mx - k}
  <2>1. 0 \in T
    BY <1>1, <1>9
  <2>2. ASSUME NEW k \in Nat, k \in T PROVE k + 1 \in T
    <3>1. ASSUME k + 1 <= n PROVE e[k + 1] \in P /\ node_levels[e[k + 1]] >= mx - (k + 1)
      <4>1. k + 1 \in 1 .. n /\ (k + 1) - 1 = k /\ k <= n /\ mx + 1 - (k + 1) = mx - k
        BY <1>1, <3>1
      <4>2. e[k] \in P /\ node_levels[e[k]] >= mx - k
        BY <2>2, <4>1
      <4>3. e[k + 1] = Gates!Closest(score, e[k], mx - k)
        BY <1>9, <4>1, <4>2
      <4>4. e[k + 1] \in P /\ node_levels[e[k + 1]] >= mx - k
        BY <1>4, <4>1, <4>2, <4>3
      <4>5. QED
        BY <1>1, <1>3, <4>4
    <3>2. QED
      BY <3>1
  <2> HIDE DEF T
  <2>3. \A k \in Nat : k \in T
    BY <2>1, <2>2, Induction
  <2>4. QED
    BY <2>3 DEF T
<1>10. Chain(f)
  <2>1. \A k \in 1 .. n : k - 1 \in 0 .. n
    BY <1>1
  <2>2. \A k \in 0 .. n : f[k] \in P /\ node_levels[f[k]] >= mx - k
    BY <1>6, <1>8a, <1>9, <2>1
  <2>3. ASSUME NEW k \in 0 .. n, k # 0
        PROVE  f[k] = Gates!Closest(score, f[k - 1], mx + 1 - k)
    <3>1. k \in 1 .. n /\ k - 1 \in 0 .. n /\ mx - (k - 1) = mx + 1 - k
      BY <1>1, <2>3
    <3>2. f[k - 1] \in P /\ node_levels[f[k - 1]] >= mx + 1 - k
      BY <2>2, <3>1
    <3>3. QED
      BY <1>6, <1>8a, <3>1, <3>2
  <2>4. \A k \in 0 .. n : f[k] = IF k = 0 THEN Top ELSE Gates!Closest(score, f[k - 1], mx + 1 - k)
    BY <1>8a, <2>3
  <2>5. f = [k \in 0 .. n |-> f[k]]
    BY <1>8a
  <2>6. QED
    BY <2>4, <2>5 DEF Top
<1>11. Chain(end)
  <2> HIDE DEF Chain
  <2>1. QED
    BY <1>10
<1> HIDE DEF end
<1>12. end[0] = Top /\ \A k \in 1 .. n : end[k] = Gates!Closest(score, end[k - 1], mx + 1 - k)
  <2>1. 0 \in 0 .. n /\ \A k \in 1 .. n : k \in 0 .. n /\ k # 0
    BY <1>1
  <2>2. QED
    BY <1>11, <2>1 DEF Top
<1>13. end[n] \in P /\ node_levels[end[n]] >= mx - n
  BY <1>1, <1>9, <1>12
<1>14. QED
  BY <1>1, <1>2, <1>13 DEF n

----------------------------------------------------------------------------
(* What a search finds: search_level *)

LEMMA BestFacts ==
    ASSUME NEW S, NEW score, Scored(S, score), NEW k \in Nat
    PROVE  /\ Gates!Best(S, k, score) \in SUBSET S
           /\ IsFiniteSet(Gates!Best(S, k, score))
           /\ Cardinality(Gates!Best(S, k, score)) = IF Cardinality(S) <= k THEN Cardinality(S) ELSE k
           /\ Cardinality(S) <= k => Gates!Best(S, k, score) = S
<1> DEFINE best == {x \in S : Cardinality(Better(S, score, x)) < k}
<1>1. Gates!Best(S, k, score) = best
  BY GateOperators DEF Gates!Best, Better
<1>2. /\ IsFiniteSet(best)
      /\ Cardinality(best) = IF Cardinality(S) <= k THEN Cardinality(S) ELSE k
      /\ Cardinality(S) <= k => best = S
  BY BestCount
<1>3. QED
  BY <1>1, <1>2

Beams(P) == [results : SUBSET P, candidates : SUBSET P, visited : SUBSET P]

\* A search with k turns behind it: it holds the width of the beam, or all it has
\* visited, of which the candidates are yet to be expanded.
Beam(b, k, P, from, ef, l) ==
    /\ b \in Beams(P)
    /\ b.results \subseteq b.visited /\ b.candidates \subseteq b.visited
    /\ from \in b.visited
    /\ Cardinality(b.results) = ef \/ (b.results = b.visited /\ Cardinality(b.results) < ef)
    /\ Cardinality(b.results) < ef =>
         /\ \A f \in b.visited \ b.candidates : Gates!Neighbors(f, l) \subseteq b.visited
         /\ b.candidates = {} \/ Cardinality(b.visited \ b.candidates) >= k

Current(score, b) == CHOOSE f \in b.candidates : \A g \in b.candidates : score[g] <= score[f]
NewOnes(score, l, b) == Gates!Neighbors(Current(score, b), l) \ b.visited
KeptOnes(score, ef, l, b) == Gates!Best(b.results \cup NewOnes(score, l, b), ef, score)
TurnOf(score, ef, l, b) ==
    [results |-> KeptOnes(score, ef, l, b),
     candidates |-> (b.candidates \ {Current(score, b)})
                        \cup (NewOnes(score, l, b) \cap KeptOnes(score, ef, l, b)),
     visited |-> b.visited \cup NewOnes(score, l, b)]

LEMMA ExpandedIs ==
    ASSUME NEW score, NEW ef, NEW l, NEW b
    PROVE  \/ /\ b.candidates = {} \/ Cardinality(b.results) >= ef
              /\ Gates!Expanded(score, ef, l, b) = b
           \/ /\ b.candidates # {}
              /\ Gates!Expanded(score, ef, l, b) = TurnOf(score, ef, l, b)
<1> DEFINE stop == \/ b.candidates = {}
                   \/ /\ Gates!Cardinality(b.results) >= ef
                      /\ \A f \in b.results : score[Current(score, b)] < score[f]
<1>1. Gates!Expanded(score, ef, l, b) = IF stop THEN b ELSE TurnOf(score, ef, l, b)
  BY Zenon DEF Gates!Expanded, Current, NewOnes, KeptOnes, TurnOf
<1>2. CASE stop
  <2>1. b.candidates = {} \/ Cardinality(b.results) >= ef
    BY <1>2, GateOperators
  <2> HIDE DEF stop
  <2>2. QED
    BY <1>1, <1>2, <2>1
<1>3. CASE ~stop
  <2>1. b.candidates # {}
    BY <1>3
  <2> HIDE DEF stop
  <2>2. QED
    BY <1>1, <1>3, <2>1
<1>4. QED
  BY <1>2, <1>3

\* What a turn that goes on works with.
LEMMA TurnFacts ==
    ASSUME NEW P, NEW score, Scored(P, score), NEW l, Closed(P, l), NEW ef \in Nat,
           NEW b \in Beams(P), b.candidates # {}
    PROVE  /\ Current(score, b) \in b.candidates
           /\ NewOnes(score, l, b) \in SUBSET P
           /\ KeptOnes(score, ef, l, b) \in SUBSET (b.results \cup NewOnes(score, l, b))
           /\ b.results \in SUBSET P /\ b.candidates \in SUBSET P /\ b.visited \in SUBSET P
           /\ Scored(b.results \cup NewOnes(score, l, b), score)
           /\ TurnOf(score, ef, l, b) \in Beams(P)
<1>1. b.results \in SUBSET P /\ b.candidates \in SUBSET P /\ b.visited \in SUBSET P
  BY DEF Beams
<1>2. \E f \in b.candidates : \A g \in b.candidates : score[g] <= score[f]
  <2>1. Scored(b.candidates, score)
    BY <1>1, FS_Subset DEF Scored
  <2>2. QED
    BY <2>1, GreatestScore
<1>3. Current(score, b) \in b.candidates
  BY <1>2 DEF Current
<1>4. NewOnes(score, l, b) \in SUBSET P
  BY <1>1, <1>3 DEF NewOnes, Closed
<1>5. Scored(b.results \cup NewOnes(score, l, b), score)
  <2>1. b.results \cup NewOnes(score, l, b) \in SUBSET P
    BY <1>1, <1>4
  <2>2. QED
    BY <2>1, FS_Subset DEF Scored
<1>6. KeptOnes(score, ef, l, b) \in SUBSET (b.results \cup NewOnes(score, l, b))
  BY <1>5, BestFacts DEF KeptOnes
<1>7. TurnOf(score, ef, l, b) \in Beams(P)
  <2>1. KeptOnes(score, ef, l, b) \in SUBSET P
    BY <1>1, <1>4, <1>6
  <2>2. (b.candidates \ {Current(score, b)}) \cup (NewOnes(score, l, b) \cap KeptOnes(score, ef, l, b)) \in SUBSET P
    BY <1>1, <1>4
  <2>3. b.visited \cup NewOnes(score, l, b) \in SUBSET P
    BY <1>1, <1>4
  <2>4. QED
    BY <2>1, <2>2, <2>3 DEF TurnOf, Beams
<1>8. QED
  BY <1>1, <1>3, <1>4, <1>5, <1>6, <1>7

LEMMA ExpandedStays ==
    ASSUME NEW P, NEW score, Scored(P, score), NEW l, Closed(P, l), NEW ef \in Nat,
           NEW b \in Beams(P)
    PROVE  Gates!Expanded(score, ef, l, b) \in Beams(P)
<1>1. CASE Gates!Expanded(score, ef, l, b) = b
  BY <1>1
<1>2. CASE b.candidates # {} /\ Gates!Expanded(score, ef, l, b) = TurnOf(score, ef, l, b)
  <2>1. TurnOf(score, ef, l, b) \in Beams(P)
    BY <1>2, TurnFacts
  <2>2. QED
    BY <1>2, <2>1
<1>3. QED
  BY <1>1, <1>2, ExpandedIs

LEMMA ExpandedFacts ==
    ASSUME NEW P, NEW score, Scored(P, score), NEW l, Closed(P, l), NEW from,
           NEW ef \in Nat \ {0}, NEW k \in Nat, NEW b, Beam(b, k, P, from, ef, l)
    PROVE  Beam(Gates!Expanded(score, ef, l, b), k + 1, P, from, ef, l)
<1>1. b \in Beams(P)
  BY DEF Beam
<1>2. /\ IsFiniteSet(b.results) /\ Cardinality(b.results) \in Nat
      /\ IsFiniteSet(b.visited) /\ IsFiniteSet(b.visited \ b.candidates)
      /\ Cardinality(b.visited \ b.candidates) \in Nat
  <2>1. b.results \in SUBSET P /\ b.visited \in SUBSET P /\ b.visited \ b.candidates \in SUBSET P
    BY <1>1 DEF Beams
  <2>2. IsFiniteSet(P)
    BY DEF Scored
  <2>3. QED
    BY <2>1, <2>2, FS_Subset, FS_CardinalityType
<1>3. ASSUME b.candidates = {} \/ Cardinality(b.results) >= ef
      PROVE  Beam(b, k + 1, P, from, ef, l)
  BY <1>2, <1>3 DEF Beam
<1>4. ASSUME b.candidates # {} PROVE Beam(TurnOf(score, ef, l, b), k + 1, P, from, ef, l)
  <2> DEFINE c == Current(score, b)
             new == NewOnes(score, l, b)
             best == KeptOnes(score, ef, l, b)
             t == TurnOf(score, ef, l, b)
             V == b.visited
             C == b.candidates
             R == b.results
  <2>1. c \in C /\ best \in SUBSET (R \cup new) /\ Scored(R \cup new, score) /\ t \in Beams(P)
    BY <1>1, <1>4, TurnFacts
  <2>2. /\ t.results = best /\ t.visited = V \cup new
        /\ t.candidates = (C \ {c}) \cup (new \cap best)
    BY DEF TurnOf
  <2>3. Gates!Neighbors(c, l) \subseteq V \cup new /\ new \cap V = {}
    BY DEF NewOnes
  <2>4. /\ Cardinality(best) = IF Cardinality(R \cup new) <= ef THEN Cardinality(R \cup new) ELSE ef
        /\ Cardinality(R \cup new) <= ef => best = R \cup new
    BY <2>1, BestFacts DEF KeptOnes
  <2>5. IsFiniteSet(R \cup new) /\ Cardinality(R \cup new) \in Nat
        /\ Cardinality(R) <= Cardinality(R \cup new)
    <3>1. R \in SUBSET (R \cup new) /\ IsFiniteSet(R \cup new)
      BY <2>1 DEF Scored
    <3> HIDE DEF R, new
    <3>2. QED
      BY <3>1, FS_Subset, FS_CardinalityType
  <2>6. R \subseteq V /\ C \subseteq V /\ from \in V
        /\ (Cardinality(R) = ef \/ (R = V /\ Cardinality(R) < ef))
        /\ (Cardinality(R) < ef =>
              /\ \A f \in V \ C : Gates!Neighbors(f, l) \subseteq V
              /\ Cardinality(V \ C) >= k)
    BY <1>4 DEF Beam
  <2> HIDE DEF c, new, best, t, V, C, R
  <2>7. Cardinality(R) \in Nat /\ IsFiniteSet(V \ C) /\ Cardinality(V \ C) \in Nat
    BY <1>2 DEF V, C, R
  <2>8. best \subseteq V \cup new /\ (C \ {c}) \cup (new \cap best) \subseteq V \cup new
    BY <2>1, <2>6
  <2>9. Cardinality(best) = ef \/ (best = V \cup new /\ Cardinality(best) < ef)
    <3>1. CASE Cardinality(R \cup new) >= ef
      BY <2>4, <2>5, <3>1
    <3>2. CASE Cardinality(R \cup new) < ef
      <4>1. R = V
        BY <2>5, <2>6, <2>7, <3>2
      <4>2. QED
        BY <2>4, <2>5, <3>2, <4>1
    <3>3. QED
      BY <2>5, <3>1, <3>2
  <2>10. ASSUME Cardinality(best) < ef
         PROVE  /\ \A f \in (V \cup new) \ ((C \ {c}) \cup (new \cap best)) :
                      Gates!Neighbors(f, l) \subseteq V \cup new
                /\ Cardinality((V \cup new) \ ((C \ {c}) \cup (new \cap best))) >= k + 1
    <3>1. best = V \cup new /\ Cardinality(R) < ef
      BY <2>4, <2>5, <2>7, <2>9, <2>10
    <3>2. (V \cup new) \ ((C \ {c}) \cup (new \cap best)) = (V \ C) \cup {c}
      BY <2>1, <2>3, <2>6, <3>1
    <3>3. Cardinality((V \ C) \cup {c}) = Cardinality(V \ C) + 1
      BY <2>1, <2>7, FS_AddElement
    <3>4. Cardinality(V \ C) >= k /\ \A f \in V \ C : Gates!Neighbors(f, l) \subseteq V
      BY <2>6, <3>1
    <3>5. Cardinality((V \ C) \cup {c}) >= k + 1
      BY <2>7, <3>3, <3>4
    <3>6. \A f \in (V \ C) \cup {c} : Gates!Neighbors(f, l) \subseteq V \cup new
      BY <2>3, <3>4
    <3>7. QED
      BY <3>2, <3>5, <3>6
  <2>11. Beam(t, k + 1, P, from, ef, l)
    <3>1. t.results \subseteq t.visited /\ t.candidates \subseteq t.visited /\ from \in t.visited
      BY <2>2, <2>6, <2>8
    <3>2. QED
      BY <2>1, <2>2, <2>9, <2>10, <3>1 DEF Beam
  <2>12. QED
    BY <2>11 DEF t
<1>5. CASE Gates!Expanded(score, ef, l, b) = b /\ (b.candidates = {} \/ Cardinality(b.results) >= ef)
  BY <1>3, <1>5
<1>6. CASE b.candidates # {} /\ Gates!Expanded(score, ef, l, b) = TurnOf(score, ef, l, b)
  BY <1>4, <1>6
<1>7. QED
  BY <1>5, <1>6, ExpandedIs

\* What a search finds is in every set that links do not leave.  If the beam has room
\* left, links do not leave what it found.
LEMMA SearchFacts ==
    ASSUME GraphValues, NEW P \in SUBSET Gates!Nodes, NEW score, Scored(P, score),
           NEW l, Closed(P, l), NEW from \in P, NEW ef \in Nat \ {0}
    PROVE  /\ Gates!SearchLevel(score, from, ef, l) \in SUBSET P
           /\ Gates!SearchLevel(score, from, ef, l) # {}
           /\ Cardinality(Gates!SearchLevel(score, from, ef, l)) \in Nat
           /\ Cardinality(Gates!SearchLevel(score, from, ef, l)) <= ef
           /\ Cardinality(Gates!SearchLevel(score, from, ef, l)) < ef =>
                 /\ from \in Gates!SearchLevel(score, from, ef, l)
                 /\ Closed(Gates!SearchLevel(score, from, ef, l), l)
<1> DEFINE n == Gates!Size(similarity)
           first == [results |-> {from}, candidates |-> {from}, visited |-> {from}]
           Turns(beam) == beam = [k \in 0 .. n |->
                             IF k = 0 THEN [results |-> {from}, candidates |-> {from}, visited |-> {from}]
                             ELSE Gates!Expanded(score, ef, l, beam[k - 1])]
           step == [p \in (1 .. n) \X Beams(P) |-> Gates!Expanded(score, ef, l, p[2])]
           beam == CHOOSE beam : Turns(beam)
<1>1. n \in Nat /\ Cardinality(Gates!Nodes) = n /\ IsFiniteSet(Gates!Nodes)
  BY GraphFacts
<1>2. Gates!SearchLevel(score, from, ef, l) = beam[n].results
  BY Zenon DEF Gates!SearchLevel
<1>3. step \in [(1 .. n) \X Beams(P) -> Beams(P)]
  <2>1. ASSUME NEW p \in (1 .. n) \X Beams(P) PROVE Gates!Expanded(score, ef, l, p[2]) \in Beams(P)
    <3>1. p[2] \in Beams(P)
      OBVIOUS
    <3>2. QED
      BY <3>1, ExpandedStays
  <2>2. QED
    BY <2>1
<1>4. \A k \in 1 .. n, b \in Beams(P) : step[<<k, b>>] = Gates!Expanded(score, ef, l, b)
  OBVIOUS
<1>5. first \in Beams(P)
  BY DEF Beams
<1>6. Beam(first, 0, P, from, ef, l)
  <2>1. Cardinality({from}) = 1 /\ {from} \ {from} = {} /\ Cardinality({from} \ {from}) = 0
    BY FS_Singleton, FS_EmptySet
  <2>2. /\ first.results = {from} /\ first.candidates = {from} /\ first.visited = {from}
    OBVIOUS
  <2>3. 1 = ef \/ 1 < ef
    OBVIOUS
  <2> HIDE DEF first
  <2>4. QED
    BY <1>5, <2>1, <2>2, <2>3 DEF Beam
<1> HIDE DEF step, n
<1>7. PICK f : ByStepsIn(f, first, step, n, Beams(P))
  BY <1>1, <1>3, <1>5, StepsExist DEF StepsIn
<1>8. /\ f \in [0 .. n -> Beams(P)] /\ f[0] = first
      /\ \A k \in 1 .. n : f[k] = step[<<k, f[k - 1]>>]
  BY <1>7 DEF ByStepsIn
<1>9. Turns(f)
  <2>1. ASSUME NEW k \in 0 .. n, k # 0 PROVE f[k] = Gates!Expanded(score, ef, l, f[k - 1])
    <3>1. k \in 1 .. n /\ k - 1 \in 0 .. n
      BY <1>1, <2>1
    <3>2. QED
      BY <1>4, <1>8, <3>1
  <2>2. \A k \in 0 .. n : f[k] = IF k = 0 THEN first ELSE Gates!Expanded(score, ef, l, f[k - 1])
    BY <1>8, <2>1
  <2>3. f = [k \in 0 .. n |-> f[k]]
    BY <1>8
  <2>4. QED
    BY <2>2, <2>3
<1>10. Turns(beam)
  <2> HIDE DEF Turns
  <2>1. QED
    BY <1>9
<1>11. beam[0] = first /\ \A k \in 1 .. n : beam[k] = Gates!Expanded(score, ef, l, beam[k - 1])
  <2>1. 0 \in 0 .. n /\ \A k \in 1 .. n : k \in 0 .. n /\ k # 0
    BY <1>1
  <2> HIDE DEF beam
  <2>2. QED
    BY <1>10, <2>1
<1> HIDE DEF beam, first
<1>12. Beam(beam[n], n, P, from, ef, l)
  <2> DEFINE T == {k \in Nat : k <= n => Beam(beam[k], k, P, from, ef, l)}
  <2>1. 0 \in T
    BY <1>6, <1>11
  <2>2. ASSUME NEW k \in Nat, k \in T PROVE k + 1 \in T
    <3>1. ASSUME k + 1 <= n PROVE Beam(beam[k + 1], k + 1, P, from, ef, l)
      <4>1. k + 1 \in 1 .. n /\ (k + 1) - 1 = k /\ k <= n
        BY <1>1, <3>1
      <4>2. Beam(beam[k], k, P, from, ef, l) /\ beam[k + 1] = Gates!Expanded(score, ef, l, beam[k])
        BY <1>11, <2>2, <4>1
      <4>3. QED
        BY <4>2, ExpandedFacts
    <3>2. QED
      BY <3>1
  <2> HIDE DEF T
  <2>3. \A k \in Nat : k \in T
    BY <2>1, <2>2, Induction
  <2>4. QED
    BY <1>1, <2>3 DEF T
<1> DEFINE b == beam[n]
           R == beam[n].results
<1> HIDE DEF b
<1>13. /\ b \in Beams(P) /\ b.results \subseteq b.visited /\ b.candidates \subseteq b.visited
       /\ from \in b.visited
       /\ Cardinality(b.results) = ef \/ (b.results = b.visited /\ Cardinality(b.results) < ef)
       /\ Cardinality(b.results) < ef =>
             /\ \A f_1 \in b.visited \ b.candidates : Gates!Neighbors(f_1, l) \subseteq b.visited
             /\ b.candidates = {} \/ Cardinality(b.visited \ b.candidates) >= n
  BY <1>12 DEF Beam, b
<1>14. b.results \in SUBSET P /\ b.visited \in SUBSET P /\ b.results # {}
  <2>1. b.results \in SUBSET P /\ b.visited \in SUBSET P
    BY <1>13 DEF Beams
  <2>2. b.results # {}
    <3>1. Cardinality({}) = 0 /\ ef # 0
      BY FS_EmptySet
    <3>2. QED
      BY <1>13, <3>1
  <2>3. QED
    BY <2>1, <2>2
<1>15. Cardinality(b.results) \in Nat /\ Cardinality(b.results) <= ef
  <2>1. IsFiniteSet(b.results)
    BY <1>14, FS_Subset DEF Scored
  <2>2. Cardinality(b.results) \in Nat
    BY <2>1, FS_CardinalityType
  <2>3. QED
    BY <1>13, <2>2
<1>16. ASSUME Cardinality(b.results) < ef PROVE b.candidates = {}
  <2>1. SUFFICES ASSUME Cardinality(b.visited \ b.candidates) >= n PROVE b.candidates = {}
    BY <1>13, <1>16
  <2>2. b.visited \ b.candidates \in SUBSET Gates!Nodes
    BY <1>14
  <2>3. Cardinality(b.visited \ b.candidates) <= n
    BY <1>1, <2>2, FS_Subset
  <2>4. Cardinality(b.visited \ b.candidates) \in Nat
    BY <1>1, <2>2, FS_Subset, FS_CardinalityType
  <2>5. Cardinality(b.visited \ b.candidates) = n
    BY <1>1, <2>1, <2>3, <2>4
  <2>6. b.visited \ b.candidates = Gates!Nodes
    BY <1>1, <2>2, <2>5, FS_Subset
  <2>7. QED
    BY <1>13, <1>14, <2>6
<1>17. ASSUME Cardinality(b.results) < ef PROVE from \in b.results /\ Closed(b.results, l)
  <2>1. b.results = b.visited /\ b.visited \ b.candidates = b.visited
    BY <1>13, <1>15, <1>16, <1>17
  <2>2. QED
    BY <1>13, <1>17, <2>1 DEF Closed
<1>18. Gates!SearchLevel(score, from, ef, l) = b.results
  BY <1>2 DEF b
<1>19. QED
  BY <1>14, <1>15, <1>17, <1>18

----------------------------------------------------------------------------
(* A search that is as wide as the layer *)

LinksInLayer ==
    \A l \in Gates!AllLevels, f \in Gates!Nodes : Gates!Neighbors(f, l) \subseteq Gates!Nodes

Wider(X) == X \cup UNION {Gates!Neighbors(g, 0) : g \in X}

\* What is reached from f in as many steps as there are features is the least set with
\* f that links do not leave.
LEMMA ReachedFacts ==
    ASSUME GraphValues, Closed(Gates!Nodes, 0), NEW f \in Gates!Nodes
    PROVE  LET reached == Gates!Reached(f, Gates!Size(similarity)) IN
           /\ reached \in SUBSET Gates!Nodes /\ f \in reached /\ Closed(reached, 0)
           /\ \A P \in SUBSET Gates!Nodes : f \in P /\ Closed(P, 0) => reached \subseteq P
<1> DEFINE n == Gates!Size(similarity)
           N == Gates!Nodes
           Turns(reached) == reached = [k \in 0 .. n |->
                                IF k = 0 THEN {f}
                                ELSE reached[k - 1] \cup UNION {Gates!Neighbors(g, 0) : g \in reached[k - 1]}]
           reached == CHOOSE reached : Turns(reached)
           step == [p \in (1 .. n) \X SUBSET N |-> Wider(p[2])]
<1>1. n \in Nat /\ Cardinality(N) = n /\ IsFiniteSet(N)
  BY GraphFacts
<1>2. Gates!Reached(f, n) = reached[n]
  BY Zenon DEF Gates!Reached
<1>3. ASSUME NEW P \in SUBSET N, Closed(P, 0), NEW X \in SUBSET P PROVE Wider(X) \in SUBSET P
  BY <1>3 DEF Wider, Closed
<1>4. step \in [(1 .. n) \X SUBSET N -> SUBSET N]
  <2>1. \A X \in SUBSET N : Wider(X) \in SUBSET N
    BY <1>3
  <2>2. QED
    BY <2>1
<1>5. \A k \in 1 .. n, X \in SUBSET N : step[<<k, X>>] = Wider(X)
  OBVIOUS
<1> HIDE DEF step, n
<1>6. PICK h : ByStepsIn(h, {f}, step, n, SUBSET N)
  BY <1>1, <1>4, StepsExist DEF StepsIn
<1>7. /\ h \in [0 .. n -> SUBSET N] /\ h[0] = {f}
      /\ \A k \in 1 .. n : h[k] = step[<<k, h[k - 1]>>]
  BY <1>6 DEF ByStepsIn
<1>8. Turns(h)
  <2>1. ASSUME NEW k \in 0 .. n, k # 0 PROVE h[k] = Wider(h[k - 1])
    <3>1. k \in 1 .. n /\ k - 1 \in 0 .. n
      BY <1>1, <2>1
    <3>2. QED
      BY <1>5, <1>7, <3>1
  <2>2. \A k \in 0 .. n : h[k] = IF k = 0 THEN {f} ELSE Wider(h[k - 1])
    BY <1>7, <2>1
  <2>3. h = [k \in 0 .. n |-> h[k]]
    BY <1>7
  <2>4. QED
    BY <2>2, <2>3 DEF Wider
<1>9. Turns(reached)
  <2> HIDE DEF Turns
  <2>1. QED
    BY <1>8
<1> HIDE DEF reached
<1>10. reached[0] = {f} /\ \A k \in 1 .. n : reached[k] = Wider(reached[k - 1])
  <2>1. 0 \in 0 .. n /\ \A k \in 1 .. n : k \in 0 .. n /\ k # 0
    BY <1>1
  <2>2. QED
    BY <1>9, <2>1 DEF Wider
<1> HIDE DEF Turns
<1>11. ASSUME NEW P \in SUBSET N, f \in P, Closed(P, 0)
       PROVE  \A k \in Nat : k <= n => reached[k] \in SUBSET P
  <2> DEFINE T == {k \in Nat : k <= n => reached[k] \in SUBSET P}
  <2>1. 0 \in T
    BY <1>10, <1>11
  <2>2. ASSUME NEW k \in Nat, k \in T PROVE k + 1 \in T
    <3>1. ASSUME k + 1 <= n PROVE reached[k + 1] \in SUBSET P
      <4>1. k + 1 \in 1 .. n /\ (k + 1) - 1 = k /\ k <= n
        BY <1>1, <3>1
      <4>2. reached[k] \in SUBSET P /\ reached[k + 1] = Wider(reached[k])
        BY <1>10, <2>2, <4>1
      <4>3. QED
        BY <1>3, <1>11, <4>2
    <3>2. QED
      BY <3>1
  <2> HIDE DEF T
  <2>3. \A k \in Nat : k \in T
    BY <2>1, <2>2, Induction
  <2>4. QED
    BY <2>3 DEF T
<1>12. \A k \in Nat : k <= n => reached[k] \in SUBSET N /\ IsFiniteSet(reached[k])
                                  /\ Cardinality(reached[k]) \in Nat
  <2>1. \A k \in Nat : k <= n => reached[k] \in SUBSET N
    BY <1>11
  <2>2. QED
    BY <1>1, <2>1, FS_Subset, FS_CardinalityType
<1>13. \A k \in Nat : k <= n =>
           f \in reached[k] /\ (Closed(reached[k], 0) \/ Cardinality(reached[k]) >= k + 1)
  <2> DEFINE T == {k \in Nat : k <= n =>
                    f \in reached[k] /\ (Closed(reached[k], 0) \/ Cardinality(reached[k]) >= k + 1)}
  <2>1. 0 \in T
    <3>1. Cardinality({f}) = 1
      BY FS_Singleton
    <3>2. f \in reached[0] /\ Cardinality(reached[0]) >= 0 + 1
      BY <1>10, <3>1
    <3>3. QED
      BY <3>2
  <2>2. ASSUME NEW k \in Nat, k \in T PROVE k + 1 \in T
    <3>1. ASSUME k + 1 <= n
          PROVE  /\ f \in reached[k + 1]
                 /\ Closed(reached[k + 1], 0) \/ Cardinality(reached[k + 1]) >= (k + 1) + 1
      <4>1. k + 1 \in 1 .. n /\ (k + 1) - 1 = k /\ k <= n
        BY <1>1, <3>1
      <4>2. /\ f \in reached[k] /\ (Closed(reached[k], 0) \/ Cardinality(reached[k]) >= k + 1)
            /\ reached[k + 1] = Wider(reached[k])
        BY <1>10, <2>2, <4>1
      <4>3. reached[k] \subseteq reached[k + 1]
        BY <4>2 DEF Wider
      <4>4. CASE Closed(reached[k], 0)
        <5>1. Wider(reached[k]) = reached[k]
          BY <4>4 DEF Wider, Closed
        <5>2. QED
          BY <4>2, <4>4, <5>1
      <4>5. CASE ~Closed(reached[k], 0)
        <5>1. PICK g \in reached[k] : ~(Gates!Neighbors(g, 0) \subseteq reached[k])
          BY <4>5 DEF Closed
        <5>2. reached[k + 1] # reached[k]
          BY <4>2, <5>1 DEF Wider
        <5>3. /\ IsFiniteSet(reached[k + 1]) /\ Cardinality(reached[k + 1]) \in Nat
              /\ Cardinality(reached[k]) \in Nat
          BY <1>12, <3>1, <4>1
        <5>4. reached[k] \in SUBSET reached[k + 1]
          BY <4>3
        <5>5. /\ Cardinality(reached[k]) <= Cardinality(reached[k + 1])
              /\ Cardinality(reached[k + 1]) = Cardinality(reached[k]) => reached[k + 1] = reached[k]
          BY <5>3, <5>4, FS_Subset
        <5>6. Cardinality(reached[k]) >= k + 1
          BY <4>2, <4>5
        <5>7. Cardinality(reached[k + 1]) >= (k + 1) + 1
          BY <5>2, <5>3, <5>5, <5>6
        <5>8. QED
          BY <4>2, <4>3, <5>7
      <4>6. QED
        BY <4>4, <4>5
    <3>2. QED
      BY <3>1
  <2> HIDE DEF T
  <2>3. \A k \in Nat : k \in T
    BY <2>1, <2>2, Induction
  <2>4. QED
    BY <2>3 DEF T
<1>14. f \in reached[n] /\ Closed(reached[n], 0)
  <2>1. f \in reached[n] /\ (Closed(reached[n], 0) \/ Cardinality(reached[n]) >= n + 1)
    BY <1>1, <1>13
  <2>2. Cardinality(reached[n]) <= n /\ Cardinality(reached[n]) \in Nat
    BY <1>1, <1>12, FS_Subset
  <2>3. QED
    BY <1>1, <2>1, <2>2
<1>15. /\ reached[n] \in SUBSET N
       /\ \A P \in SUBSET N : f \in P /\ Closed(P, 0) => reached[n] \subseteq P
  <2>1. \A P \in SUBSET N : f \in P /\ Closed(P, 0) => reached[n] \in SUBSET P
    BY <1>1, <1>11
  <2>2. reached[n] \in SUBSET N
    BY <1>1, <1>12
  <2>3. QED
    BY <2>1, <2>2
<1>16. QED
  BY <1>2, <1>14, <1>15 DEF n

\* A beam with a place for each feature ends with what can be reached.
LEMMA WideFacts ==
    ASSUME GraphValues, Closed(Gates!Nodes, 0), NEW score, Scored(Gates!Nodes, score),
           NEW from \in Gates!Nodes, NEW ef \in Nat, ef >= Gates!Size(similarity)
    PROVE  /\ Gates!SearchLevel(score, from, ef, 0) = Gates!Reached(from, Gates!Size(similarity))
           /\ from \in Gates!Reached(from, Gates!Size(similarity))
           /\ Closed(Gates!Reached(from, Gates!Size(similarity)), 0)
           /\ Gates!Reached(from, Gates!Size(similarity)) \in SUBSET Gates!Nodes
<1> DEFINE n == Gates!Size(similarity)
           N == Gates!Nodes
           R == Gates!SearchLevel(score, from, ef, 0)
           S == Gates!Reached(from, n)
<1>1. n \in Nat \ {0} /\ Cardinality(N) = n /\ IsFiniteSet(N) /\ ef \in Nat \ {0}
  BY GraphFacts
<1>2. /\ S \in SUBSET N /\ from \in S /\ Closed(S, 0)
      /\ \A P \in SUBSET N : from \in P /\ Closed(P, 0) => S \subseteq P
  BY ReachedFacts
<1> HIDE DEF S, n
<1>3. R \in SUBSET S
  <2>1. Scored(S, score)
    BY <1>2, FS_Subset DEF Scored
  <2>2. QED
    BY <1>1, <1>2, <2>1, SearchFacts
<1>4. /\ R \in SUBSET N /\ Cardinality(R) \in Nat /\ Cardinality(R) <= ef
      /\ Cardinality(R) < ef => from \in R /\ Closed(R, 0)
  BY <1>1, SearchFacts
<1> HIDE DEF R
<1>5. from \in R /\ Closed(R, 0)
  <2>1. CASE Cardinality(R) < ef
    BY <1>4, <2>1
  <2>2. CASE Cardinality(R) = ef
    <3>1. Cardinality(R) <= n
      BY <1>1, <1>4, FS_Subset
    <3>2. Cardinality(R) = n
      BY <1>1, <1>4, <2>2, <3>1 DEF n
    <3>3. R = N
      BY <1>1, <1>4, <3>2, FS_Subset
    <3>4. QED
      BY <3>3
  <2>3. QED
    BY <1>1, <1>4, <2>1, <2>2
<1>6. QED
  BY <1>2, <1>3, <1>4, <1>5 DEF R, S, n

----------------------------------------------------------------------------
(* The lists of a feature: set_neighbors and add_connection *)

Listed(s) == {s[i] : i \in DOMAIN s}
NoneTwice(s) == \A i, j \in DOMAIN s : s[i] = s[j] => i = j

InOrder(S, score) ==
    [k \in 1 .. Gates!Cardinality(S) |->
        CHOOSE f \in S : Gates!Cardinality({g \in S : score[g] > score[f]}) = k - 1]

LEMMA OrderFacts ==
    ASSUME NEW S, NEW score, Scored(S, score)
    PROVE  /\ InOrder(S, score) \in Seq(S)
           /\ Len(InOrder(S, score)) = Cardinality(S)
           /\ Listed(InOrder(S, score)) = S
           /\ NoneTwice(InOrder(S, score))
<1> DEFINE n == Cardinality(S)
           at(k) == CHOOSE f \in S : Cardinality(Better(S, score, f)) = k - 1
           order == [k \in 1 .. n |-> at(k)]
<1>1. InOrder(S, score) = order
  <2> DEFINE nth(k) == CHOOSE f \in S : Gates!Cardinality({g \in S : score[g] > score[f]}) = k - 1
  <2>1. Gates!Cardinality(S) = n
    BY GateOperators
  <2>2. \A f \in S : Gates!Cardinality({g \in S : score[g] > score[f]}) = Cardinality(Better(S, score, f))
    BY GateOperators DEF Better
  <2>3. ASSUME NEW k PROVE nth(k) = at(k)
    <3> DEFINE P(f) == Gates!Cardinality({g \in S : score[g] > score[f]}) = k - 1
               Q(f) == Cardinality(Better(S, score, f)) = k - 1
    <3>1. \A f \in S : P(f) <=> Q(f)
      BY <2>2
    <3> HIDE DEF P, Q
    <3>2. (CHOOSE f \in S : P(f)) = (CHOOSE f \in S : Q(f))
      BY <3>1
    <3>3. QED
      BY <3>2 DEF P, Q
  <2>4. InOrder(S, score) = [k \in 1 .. Gates!Cardinality(S) |-> nth(k)]
    BY DEF InOrder
  <2> HIDE DEF nth, at, n
  <2>5. QED
    BY <2>1, <2>3, <2>4
<1>2. n \in Nat
  BY ScoreOrder
<1>3. ASSUME NEW k \in 1 .. n PROVE at(k) \in S /\ Cardinality(Better(S, score, at(k))) = k - 1
  <2>1. k - 1 \in 0 .. (n - 1)
    BY <1>2
  <2>2. \E f \in S : Cardinality(Better(S, score, f)) = k - 1
    BY <2>1, ScoreOrder
  <2>3. QED
    BY <2>2
<1> HIDE DEF at, n
<1>4. \A k \in 1 .. n : order[k] \in S /\ Cardinality(Better(S, score, order[k])) = k - 1
  BY <1>3
<1>5. order \in Seq(S) /\ Len(order) = n /\ DOMAIN order = 1 .. n
  BY <1>2, <1>3
<1> HIDE DEF order
<1>6. NoneTwice(order)
  <2>1. ASSUME NEW i \in 1 .. n, NEW j \in 1 .. n, order[i] = order[j] PROVE i = j
    <3>1. i - 1 = j - 1
      BY <1>4, <2>1
    <3>2. QED
      BY <3>1
  <2>2. QED
    BY <1>5, <2>1 DEF NoneTwice
<1>7. Listed(order) = S
  <2>1. ASSUME NEW f \in S PROVE \E k \in 1 .. n : order[k] = f
    <3>1. Cardinality(Better(S, score, f)) \in 0 .. (n - 1)
      BY ScoreOrder DEF n
    <3>2. PICK k \in 1 .. n : Cardinality(Better(S, score, f)) = k - 1
      <4> DEFINE place == Cardinality(Better(S, score, f))
      <4>1. place \in 0 .. (n - 1)
        BY <3>1
      <4> HIDE DEF place
      <4>2. place + 1 \in 1 .. n /\ place = (place + 1) - 1
        BY <1>2, <4>1
      <4>3. \E k \in 1 .. n : place = k - 1
        BY <4>2
      <4>4. QED
        BY <4>3 DEF place
    <3>3. order[k] \in S /\ Cardinality(Better(S, score, order[k])) = Cardinality(Better(S, score, f))
      BY <1>4, <3>2
    <3>4. order[k] = f
      BY <3>3, ScoreOrder
    <3>5. QED
      BY <3>4
  <2>2. QED
    BY <1>4, <1>5, <2>1 DEF Listed
<1>8. QED
  BY <1>1, <1>5, <1>6, <1>7 DEF n

LEMMA OverwrittenFacts ==
    ASSUME NEW S, NEW list \in Seq(S), NEW by \in Seq(S), Len(list) <= Len(by)
    PROVE  Gates!Overwritten(list, by) = by
<1>1. Len(list) \in Nat /\ Len(by) \in Nat /\ Len(by) + 1 > Len(list)
  OBVIOUS
<1>2. SubSeq(list, Len(by) + 1, Len(list)) = <<>>
  BY <1>1
<1>3. by \o <<>> = by
  OBVIOUS
<1>4. QED
  BY <1>2, <1>3 DEF Gates!Overwritten

\* The slots of the list of f lead to new, or are all taken by nearer ones.
Near(list, f, new, cap) ==
    \/ new \in Listed(list)
    \/ /\ Len(list) = cap
       /\ \A h \in Listed(list) : similarity[f][h] > similarity[f][new]

LEMMA ConnectedFacts ==
    ASSUME NEW N, NEW f, Scored(N, similarity[f]), NEW new \in N,
           NEW l, Gates!Cap(l) \in Nat \ {0},
           NEW list \in Seq(N), NoneTwice(list), Len(list) <= Gates!Cap(l)
    PROVE  /\ Gates!Connected(list, f, new, l) \in Seq(N)
           /\ NoneTwice(Gates!Connected(list, f, new, l))
           /\ Len(Gates!Connected(list, f, new, l)) <= Gates!Cap(l)
           /\ Listed(Gates!Connected(list, f, new, l)) \subseteq Listed(list) \cup {new}
           /\ Near(Gates!Connected(list, f, new, l), f, new, Gates!Cap(l))
           /\ \A g \in N : Near(list, f, g, Gates!Cap(l)) =>
                              Near(Gates!Connected(list, f, new, l), f, g, Gates!Cap(l))
<1> DEFINE score == similarity[f]
           cap == Gates!Cap(l)
           Lowest(i) == i \in DOMAIN list /\ \A j \in DOMAIN list : score[list[i]] <= score[list[j]]
           worst == CHOOSE i \in DOMAIN list :
                        \A j \in DOMAIN list : similarity[f][list[i]] <= similarity[f][list[j]]
           c == Gates!Connected(list, f, new, l)
<1>1. Len(list) \in Nat /\ DOMAIN list = 1 .. Len(list) /\ \A i \in 1 .. Len(list) : list[i] \in N
  OBVIOUS
<1>2. c = IF new \in Listed(list) THEN list
          ELSE IF Len(list) < cap THEN Append(list, new)
          ELSE IF score[new] > score[list[worst]] THEN [list EXCEPT ![worst] = new]
          ELSE list
  BY GateOperators DEF Gates!Connected, Listed
<1>3. \A g \in N : score[g] \in Int
  BY DEF Scored
<1>4. \A g, h \in N : score[g] = score[h] => g = h
  BY DEF Scored
<1>5. ASSUME Len(list) = cap PROVE Lowest(worst)
  <2> DEFINE deficit == [i \in 1 .. Len(list) |-> 0 - score[list[i]]]
  <2>1. IsFiniteSet(1 .. Len(list)) /\ 1 .. Len(list) # {}
    <3>1. 1 \in Int /\ Len(list) \in Int
      BY <1>1
    <3>2. IsFiniteSet(1 .. Len(list))
      BY <3>1, FS_Interval
    <3>3. cap \in Nat \ {0}
      OBVIOUS
    <3> HIDE DEF cap
    <3>4. 1 \in 1 .. Len(list)
      BY <1>5, <3>3
    <3>5. QED
      BY <3>2, <3>4
  <2>2. \A i \in 1 .. Len(list) : deficit[i] = 0 - score[list[i]] /\ score[list[i]] \in Int
    BY <1>1, <1>3
  <2>3. ASSUME NEW i \in 1 .. Len(list), NEW j \in 1 .. Len(list), deficit[i] = deficit[j]
        PROVE  i = j
    <3>1. score[list[i]] = score[list[j]]
      BY <2>2, <2>3
    <3>2. list[i] = list[j]
      BY <1>1, <1>4, <3>1
    <3>3. QED
      BY <1>1, <3>2 DEF NoneTwice
  <2> HIDE DEF deficit
  <2>4. Scored(1 .. Len(list), deficit)
    <3> DEFINE I == 1 .. Len(list)
    <3>1. \A i \in I : deficit[i] \in Int
      BY <2>2
    <3>2. IsFiniteSet(I) /\ \A i, j \in I : deficit[i] = deficit[j] => i = j
      BY <2>1, <2>3
    <3> HIDE DEF I
    <3>3. Scored(I, deficit)
      BY <3>1, <3>2, Zenon DEF Scored
    <3>4. QED
      BY <3>3 DEF I
  <2>5. PICK i \in 1 .. Len(list) : \A j \in 1 .. Len(list) : deficit[j] <= deficit[i]
    BY <2>1, <2>4, GreatestScore
  <2>6. \A j \in 1 .. Len(list) : score[list[i]] <= score[list[j]]
    BY <2>2, <2>5
  <2>7. \E i_1 \in DOMAIN list : \A j \in DOMAIN list : similarity[f][list[i_1]] <= similarity[f][list[j]]
    BY <1>1, <2>6
  <2> DEFINE P(i_1) == \A j \in DOMAIN list : similarity[f][list[i_1]] <= similarity[f][list[j]]
  <2>8. worst \in DOMAIN list /\ P(worst)
    BY <2>7
  <2> HIDE DEF worst
  <2>9. QED
    BY <2>8
<1> HIDE DEF worst
<1>6. CASE new \in Listed(list)
  <2>1. c = list
    BY <1>2, <1>6
  <2>2. QED
    BY <1>6, <2>1 DEF Near
<1>7. CASE new \notin Listed(list) /\ Len(list) < cap
  <2>1. c = Append(list, new)
    BY <1>2, <1>7
  <2> HIDE DEF c
  <2>2. /\ c \in Seq(N) /\ Len(c) = Len(list) + 1 /\ DOMAIN c = 1 .. (Len(list) + 1)
        /\ \A i \in 1 .. Len(list) : c[i] = list[i]
        /\ c[Len(list) + 1] = new
    BY <1>1, <2>1
  <2>3. \A i \in 1 .. (Len(list) + 1) : i \in 1 .. Len(list) \/ i = Len(list) + 1
    BY <1>1
  <2>4. NoneTwice(c)
    <3>1. ASSUME NEW i \in DOMAIN c, NEW j \in DOMAIN c, c[i] = c[j] PROVE i = j
      <4>1. CASE i \in 1 .. Len(list) /\ j \in 1 .. Len(list)
        BY <1>1, <2>2, <3>1, <4>1 DEF NoneTwice
      <4>2. CASE i = Len(list) + 1 /\ j \in 1 .. Len(list)
        BY <1>1, <1>7, <2>2, <3>1, <4>2 DEF Listed
      <4>3. CASE i \in 1 .. Len(list) /\ j = Len(list) + 1
        BY <1>1, <1>7, <2>2, <3>1, <4>3 DEF Listed
      <4>4. QED
        BY <2>2, <2>3, <4>1, <4>2, <4>3
    <3>2. QED
      BY <3>1 DEF NoneTwice
  <2>5. Listed(c) = Listed(list) \cup {new}
    <3>1. Listed(c) \subseteq Listed(list) \cup {new}
      BY <1>1, <2>2, <2>3 DEF Listed
    <3>2. 1 .. Len(list) \subseteq 1 .. (Len(list) + 1) /\ Len(list) + 1 \in 1 .. (Len(list) + 1)
      BY <1>1
    <3>3. QED
      BY <1>1, <2>2, <3>1, <3>2 DEF Listed
  <2>6. Len(c) <= cap
    <3> HIDE DEF cap
    <3>1. cap \in Nat
      BY DEF cap
    <3>2. QED
      BY <1>1, <1>7, <2>2, <3>1
  <2>7. ASSUME NEW g \in N, Near(list, f, g, cap) PROVE g \in Listed(c)
    BY <1>1, <1>7, <2>5, <2>7 DEF Near
  <2>8. QED
    BY <2>2, <2>4, <2>5, <2>6, <2>7 DEF Near, c
<1>8. CASE new \notin Listed(list) /\ ~(Len(list) < cap)
  <2>1. Len(list) = cap
    BY <1>1, <1>8
  <2>2. Lowest(worst)
    BY <1>5, <2>1
  <2>3. worst \in 1 .. Len(list) /\ \A j \in 1 .. Len(list) : score[list[worst]] <= score[list[j]]
    BY <1>1, <2>2
  <2>4. CASE score[new] > score[list[worst]]
    <3>1. c = [list EXCEPT ![worst] = new]
      BY <1>2, <1>8, <2>4
    <3> HIDE DEF c, cap, score
    <3>2. /\ c \in Seq(N) /\ Len(c) = Len(list) /\ DOMAIN c = 1 .. Len(list)
          /\ c[worst] = new
          /\ \A i \in 1 .. Len(list) : i # worst => c[i] = list[i]
      BY <1>1, <2>3, <3>1
    <3>3. NoneTwice(c)
      <4>1. ASSUME NEW i \in 1 .. Len(list), NEW j \in 1 .. Len(list), c[i] = c[j] PROVE i = j
        <5>1. CASE i # worst /\ j # worst
          BY <1>1, <3>2, <4>1, <5>1 DEF NoneTwice
        <5>2. CASE i = worst /\ j # worst
          BY <1>1, <1>8, <3>2, <4>1, <5>2 DEF Listed
        <5>3. CASE i # worst /\ j = worst
          BY <1>1, <1>8, <3>2, <4>1, <5>3 DEF Listed
        <5>4. QED
          BY <5>1, <5>2, <5>3
      <4>2. QED
        BY <3>2, <4>1 DEF NoneTwice
    <3>4. /\ Listed(c) \subseteq Listed(list) \cup {new} /\ new \in Listed(c)
          /\ \A i \in 1 .. Len(list) : i # worst => list[i] \in Listed(c)
      BY <1>1, <2>3, <3>2 DEF Listed
    <3>5. \A h \in Listed(c) : h = new \/ \E i \in 1 .. Len(list) : i # worst /\ h = list[i]
      BY <1>1, <3>2 DEF Listed
    <3>6. list[worst] \in N /\ score[list[worst]] \in Int /\ score[new] \in Int
      BY <1>1, <1>3, <2>3
    <3>7. ASSUME NEW g \in N, Near(list, f, g, cap) PROVE Near(c, f, g, cap)
      <4>1. CASE g \in Listed(list) /\ g # list[worst]
        <5>1. g \in Listed(c)
          BY <1>1, <3>4, <4>1 DEF Listed
        <5>2. QED
          BY <5>1 DEF Near
      <4>2. CASE g = list[worst]
        <5>1. ASSUME NEW h \in Listed(c) PROVE score[h] > score[g]
          <6>1. CASE h = new
            BY <2>4, <4>2, <6>1
          <6>2. CASE \E i \in 1 .. Len(list) : i # worst /\ h = list[i]
            <7>1. PICK i \in 1 .. Len(list) : i # worst /\ h = list[i]
              BY <6>2
            <7>2. score[g] <= score[h] /\ h \in N /\ h # g
              BY <1>1, <2>3, <4>2, <7>1 DEF NoneTwice
            <7>3. score[h] \in Int /\ score[g] \in Int /\ score[h] # score[g]
              BY <1>3, <1>4, <7>2
            <7>4. QED
              BY <7>2, <7>3
          <6>3. QED
            BY <3>5, <6>1, <6>2
        <5>2. QED
          BY <2>1, <3>2, <5>1 DEF Near, score
      <4>3. CASE g \notin Listed(list)
        <5>1. \A h \in Listed(list) : score[h] > score[g]
          BY <3>7, <4>3 DEF Near, score
        <5>2. score[list[worst]] > score[g]
          BY <1>1, <2>3, <5>1 DEF Listed
        <5>3. score[new] > score[g]
          BY <1>3, <2>4, <3>6, <5>2
        <5>4. \A h \in Listed(c) : score[h] > score[g]
          BY <3>4, <5>1, <5>3
        <5>5. QED
          BY <2>1, <3>2, <5>4 DEF Near, score
      <4>4. QED
        BY <4>1, <4>2, <4>3
    <3>8. Near(c, f, new, cap)
      BY <3>4 DEF Near
    <3>9. Len(c) <= cap
      BY <1>1, <2>1, <3>2
    <3>10. QED
      BY <3>2, <3>3, <3>4, <3>7, <3>8, <3>9 DEF c, cap
  <2>5. CASE ~(score[new] > score[list[worst]])
    <3>1. c = list
      BY <1>2, <1>8, <2>5
    <3>2. ASSUME NEW h \in Listed(list) PROVE score[h] > score[new]
      <4>1. PICK i \in 1 .. Len(list) : h = list[i]
        BY <1>1 DEF Listed
      <4>2. h \in N /\ h # new /\ score[list[worst]] <= score[h] /\ list[worst] \in N
        BY <1>1, <1>8, <2>3, <4>1 DEF Listed
      <4>3. score[h] \in Int /\ score[new] \in Int /\ score[list[worst]] \in Int /\ score[h] # score[new]
        BY <1>3, <1>4, <4>2
      <4> HIDE DEF score
      <4>4. QED
        BY <2>5, <4>2, <4>3
    <3>3. Near(list, f, new, cap)
      BY <2>1, <3>2 DEF Near
    <3> HIDE DEF c, cap
    <3>4. QED
      BY <1>1, <2>1, <3>1, <3>3 DEF c, cap
  <2>6. QED
    BY <2>4, <2>5
<1>9. QED
  BY <1>6, <1>7, <1>8

----------------------------------------------------------------------------
(* The graph while it is built *)

\* The feature has been connected at the level.
Inserted(f, l) == f < id \/ (f = id /\ 0 <= level /\ level < l)

GraphTypes ==
    /\ GraphValues
    /\ links \in [Gates!AllLevels -> [Gates!Nodes -> Seq(Gates!Nodes)]]
    /\ selected \in [Gates!AllLevels -> [Gates!Nodes -> SUBSET Gates!Nodes]]
    /\ id \in 0 .. Gates!Size(similarity) /\ level \in (-1) .. Gates!MaxLevel
    /\ ep \in Gates!Nodes
    /\ level >= 0 => /\ id \in Gates!Nodes /\ level <= node_levels[id] /\ ~(id = 0 /\ Top = 0)
                     /\ node_levels[ep] >= level /\ (ep = Top \/ ep < id)

\* The lists lead to what has been connected, or to the entry point.
ListsOK ==
    \A l \in Gates!AllLevels, f \in Gates!Nodes :
        /\ NoneTwice(links[l][f]) /\ Len(links[l][f]) <= Gates!Cap(l)
        /\ \A g \in Listed(links[l][f]) :
             /\ node_levels[g] >= l
             /\ g = f => f = Top
             /\ g = Top \/ Inserted(g, l)
        /\ f = Top \/ Inserted(f, l) \/ links[l][f] = <<>>

\* What has been connected was connected to something before it, or to the entry point.
ChosenOK ==
    \A l \in Gates!AllLevels, f \in Gates!Nodes :
        /\ \A g \in selected[l][f] : node_levels[g] >= l /\ (g = Top \/ g < f)
        /\ selected[l][f] # {} => Inserted(f, l)
        /\ Inserted(f, l) /\ l <= node_levels[f] /\ f # Top => selected[l][f] # {}

GivenUp(f, g, l) ==
    f = Top /\ g < f /\ selected[l][f] # {} /\ g \notin selected[l][f]

KeptOK ==
    \A l \in Gates!AllLevels, f \in Gates!Nodes : \A g \in selected[l][f] \ {f} :
        /\ Near(links[l][f], f, g, Gates!Cap(l))
        /\ Near(links[l][g], g, f, Gates!Cap(l)) \/ GivenUp(g, f, l)

\* If no list can be full, the entry point finds all that were inserted before it.
EntryOK ==
    Gates!Size(similarity) <= Gates!Cap(0) /\ selected[0][Top] # {} =>
        \A f \in Gates!Nodes : f < Top => f \in selected[0][Top]

GraphInv == GraphTypes /\ ListsOK /\ ChosenOK /\ KeptOK /\ EntryOK

LEMMA CapFacts ==
    /\ EfConstruction \in Nat \ {0}
    /\ \A l : Gates!Cap(l) \in Nat \ {0} /\ Gates!Cap(l) < EfConstruction
BY ProgramsAssumption DEF Gates!GraphAssumption, Gates!Cap

LEMMA ListedFacts ==
    ASSUME NEW S, NEW list \in Seq(S), NoneTwice(list)
    PROVE  /\ IsFiniteSet(Listed(list)) /\ Cardinality(Listed(list)) = Len(list)
           /\ Listed(list) \in SUBSET S
<1> DEFINE T == Listed(list)
           D == 1 .. Len(list)
<1>1. Len(list) \in Nat /\ DOMAIN list = D /\ \A i \in D : list[i] \in S
  OBVIOUS
<1>2. T \in SUBSET S /\ \A i \in D : list[i] \in T
  BY <1>1 DEF Listed
<1>3. \A t \in T : \E i \in D : list[i] = t
  BY <1>1 DEF Listed
<1>4. list \in [D -> T]
  <2>1. list = [i \in D |-> list[i]]
    BY <1>1
  <2> HIDE DEF T, D
  <2>2. QED
    BY <1>2, <2>1
<1>5. IsFiniteSet(D) /\ Cardinality(D) = Len(list)
  <2>1. 1 \in Int /\ Len(list) \in Int /\ (1 > Len(list) => Len(list) = 0) /\ Len(list) - 1 + 1 = Len(list)
    BY <1>1
  <2>2. IsFiniteSet(1 .. Len(list)) /\ Cardinality(1 .. Len(list)) =
            IF 1 > Len(list) THEN 0 ELSE Len(list) - 1 + 1
    BY <2>1, FS_Interval
  <2>3. QED
    BY <2>1, <2>2
<1>6. \A i, j \in D : list[i] = list[j] => i = j
  BY <1>1 DEF NoneTwice
<1> HIDE DEF T, D
<1>7. ExistsBijection(D, T)
  BY <1>3, <1>4, <1>6, Zenon DEF ExistsBijection, Bijection, Injection, Surjection, IsInjective
<1>8. IsFiniteSet(T) /\ Cardinality(T) = Cardinality(D)
  BY <1>5, <1>7, FS_Bijection
<1>9. QED
  BY <1>2, <1>5, <1>8 DEF T

\* The features that a search at a level may meet.
Met(l) == {f \in Gates!Nodes : node_levels[f] >= l /\ (f = Top \/ Inserted(f, l))}

LEMMA NeighborsListed == \A f, l : Gates!Neighbors(f, l) = Listed(links[l][f])
BY GateOperators DEF Listed

LEMMA MetFacts ==
    ASSUME GraphTypes, ListsOK, NEW l \in Gates!AllLevels
    PROVE  Closed(Met(l), l)
<1> SUFFICES ASSUME NEW f \in Met(l), NEW g \in Gates!Neighbors(f, l) PROVE g \in Met(l)
  BY DEF Closed
<1>1. f \in Gates!Nodes
  BY DEF Met
<1>2. g \in Listed(links[l][f])
  BY NeighborsListed
<1>3. g \in Gates!Nodes
  <2>1. links[l][f] \in Seq(Gates!Nodes)
    BY <1>1 DEF GraphTypes
  <2>2. QED
    BY <1>2, <2>1 DEF Listed
<1>4. node_levels[g] >= l /\ (g = Top \/ Inserted(g, l))
  BY <1>1, <1>2 DEF ListsOK
<1>5. QED
  BY <1>3, <1>4 DEF Met

LEMMA SimilarScored ==
    ASSUME GraphValues, NEW f \in Gates!Nodes
    PROVE  Scored(Gates!Nodes, similarity[f])
<1>1. IsFiniteSet(Gates!Nodes)
  BY GraphFacts
<1>2. /\ \A a, b \in DOMAIN similarity : similarity[a][b] \in Int
      /\ \A a, b, c \in DOMAIN similarity : similarity[a][b] = similarity[a][c] => b = c
  BY ProgramsAssumption DEF GraphValues, Gates!GraphAssumption
<1>3. QED
  BY <1>1, <1>2 DEF Scored, Gates!Nodes

\* Links lead to the entry point from all that they do not leave, unless a list is full.
LEMMA EntryMet ==
    ASSUME GraphInv, NEW l \in Gates!AllLevels, NEW R \in SUBSET Met(l), R # {}, Closed(R, l),
           \A f \in R : f # Top => Len(links[l][f]) # Gates!Cap(l)
    PROVE  Top \in R
<1> SUFFICES ASSUME Top \notin R PROVE FALSE
  OBVIOUS
<1>1. R \in SUBSET Gates!Nodes /\ R \in SUBSET Nat
  <2>1. R \in SUBSET Gates!Nodes
    BY DEF Met
  <2>2. \A f \in Gates!Nodes : f \in Nat
    BY GraphFacts DEF GraphInv, GraphTypes
  <2>3. QED
    BY <2>1, <2>2
<1>2. PICK f \in R : \A g \in R : f <= g
  BY <1>1, LeastNumber
<1>3. f \in Gates!Nodes /\ f # Top /\ Inserted(f, l) /\ node_levels[f] >= l /\ f \in Nat
  BY <1>1 DEF Met
<1>4. l \in Nat /\ node_levels[f] \in Nat
  BY <1>3, GraphFacts DEF GraphInv, GraphTypes, GraphValues, Gates!AllLevels
<1>5. selected[l][f] # {}
  BY <1>3, <1>4 DEF GraphInv, ChosenOK
<1>6. PICK g : g \in selected[l][f]
  BY <1>5
<1>7. g \in Gates!Nodes /\ (g = Top \/ g < f)
  <2>1. selected[l][f] \in SUBSET Gates!Nodes
    BY <1>3 DEF GraphInv, GraphTypes
  <2>2. QED
    BY <1>3, <1>6, <2>1 DEF GraphInv, ChosenOK
<1>8. g # f
  BY <1>3, <1>7
<1>9. Near(links[l][f], f, g, Gates!Cap(l))
  BY <1>3, <1>6, <1>8 DEF GraphInv, KeptOK
<1>10. g \in Gates!Neighbors(f, l)
  BY <1>3, <1>9, NeighborsListed DEF Near
<1>11. g \in R
  BY <1>10 DEF Closed
<1>12. g < f
  BY <1>7, <1>11
<1>13. f <= g /\ g \in Nat
  BY <1>1, <1>2, <1>11
<1>14. QED
  BY <1>3, <1>12, <1>13

\* If no list can be full, links lead from there to all that have been inserted.
LEMMA AllMet ==
    ASSUME GraphInv, Gates!Size(similarity) <= Gates!Cap(0),
           NEW R \in SUBSET Met(0), R # {}, Closed(R, 0)
    PROVE  \A f \in Gates!Nodes : f < id => f \in R
<1> DEFINE N == Gates!Nodes
           n == Gates!Size(similarity)
<1>1. /\ n \in Nat \ {0} /\ Cardinality(N) = n /\ IsFiniteSet(N) /\ 0 \in Gates!AllLevels
      /\ \A f \in N : f \in Nat /\ node_levels[f] \in Nat
      /\ Gates!Cap(0) \in Nat /\ n <= Gates!Cap(0)
  <2>1. GraphValues
    BY DEF GraphInv, GraphTypes
  <2>2. 0 \in Gates!AllLevels
    BY <2>1, GraphFacts DEF Gates!AllLevels
  <2>3. \A f \in N : f \in Nat /\ node_levels[f] \in Nat
    BY <2>1, GraphFacts
  <2>4. QED
    BY <2>1, <2>2, <2>3, GraphFacts, CapFacts
<1> HIDE DEF n
<1>2. ASSUME NEW f \in N
      PROVE  /\ Listed(links[0][f]) \in SUBSET N
             /\ Len(links[0][f]) = Gates!Cap(0) => Listed(links[0][f]) = N
             /\ f \in Listed(links[0][f]) => f = Top
  <2>1. links[0][f] \in Seq(N) /\ NoneTwice(links[0][f])
    BY <1>1 DEF GraphInv, GraphTypes, ListsOK
  <2>2. /\ IsFiniteSet(Listed(links[0][f])) /\ Cardinality(Listed(links[0][f])) = Len(links[0][f])
        /\ Listed(links[0][f]) \in SUBSET N
    BY <2>1, ListedFacts
  <2>3. ASSUME Len(links[0][f]) = Gates!Cap(0) PROVE Listed(links[0][f]) = N
    <3>1. Cardinality(Listed(links[0][f])) <= n
      BY <1>1, <2>2, FS_Subset
    <3>2. Cardinality(Listed(links[0][f])) = n
      BY <1>1, <2>2, <2>3, <3>1
    <3>3. QED
      BY <1>1, <2>2, <3>2, FS_Subset
  <2>4. f \in Listed(links[0][f]) => f = Top
    BY <1>1 DEF GraphInv, ListsOK
  <2>5. QED
    BY <2>2, <2>3, <2>4
<1>3. R \in SUBSET N
  BY DEF Met
<1>4. Top \in R
  <2>1. \A f \in R : f # Top => Len(links[0][f]) # Gates!Cap(0)
    BY <1>2, <1>3
  <2>2. QED
    BY <1>1, <2>1, EntryMet
<1> SUFFICES ASSUME NEW h \in N, h < id, h \notin R PROVE FALSE
  OBVIOUS
<1> DEFINE B == {f \in N : f < id /\ f \notin R}
<1>5. B \in SUBSET Nat /\ B # {}
  BY <1>1
<1>6. PICK f \in B : \A g \in B : f <= g
  <2> HIDE DEF B
  <2>1. QED
    BY <1>5, LeastNumber
<1>7. f \in N /\ f < id /\ f \notin R /\ f # Top /\ f \in Nat /\ id \in Nat
  BY <1>1, <1>4, <1>6 DEF GraphInv, GraphTypes
<1>8. selected[0][f] # {} /\ selected[0][f] \in SUBSET N
  <2>1. Inserted(f, 0) /\ 0 <= node_levels[f]
    BY <1>1, <1>7 DEF Inserted
  <2>2. QED
    BY <1>1, <1>7, <2>1 DEF GraphInv, GraphTypes, ChosenOK
<1>9. PICK g \in N : g \in selected[0][f]
  BY <1>8
<1>10. g = Top \/ g < f
  BY <1>1, <1>7, <1>9 DEF GraphInv, ChosenOK
<1>11. g \in R
  <2>1. CASE g < f
    <3>1. g \in Nat /\ g < id /\ ~(f <= g)
      BY <1>1, <1>7, <1>9, <2>1
    <3>2. QED
      BY <1>6, <3>1
  <2>2. QED
    BY <1>4, <1>10, <2>1
<1>12. g # f
  BY <1>7, <1>11
<1>13. Near(links[0][g], g, f, Gates!Cap(0)) \/ GivenUp(g, f, 0)
  BY <1>1, <1>7, <1>9, <1>12 DEF GraphInv, KeptOK
<1>14. CASE Near(links[0][g], g, f, Gates!Cap(0))
  <2>1. f \in Listed(links[0][g])
    BY <1>2, <1>7, <1>9, <1>14 DEF Near
  <2>2. f \in R
    BY <1>11, <2>1, NeighborsListed DEF Closed
  <2>3. QED
    BY <1>7, <2>2
<1>15. CASE GivenUp(g, f, 0)
  BY <1>7, <1>15 DEF GraphInv, EntryOK, GivenUp
<1>16. QED
  BY <1>13, <1>14, <1>15

----------------------------------------------------------------------------
(* What a feature is connected to *)

Found == Gates!SearchLevel(similarity[id], ep, EfConstruction, level)
Nearest == Gates!Best(Found, Gates!Cap(level), similarity[id])

LEMMA FoundFacts ==
    ASSUME GraphInv, level >= 0
    PROVE  /\ level \in Gates!AllLevels /\ id \in Gates!Nodes
           /\ Found \in SUBSET Met(level) /\ Found # {} /\ Scored(Found, similarity[id])
           /\ Cardinality(Found) \in Nat
           /\ Cardinality(Found) <= Gates!Cap(level) => Closed(Found, level) /\ ep \in Found
           /\ Met(level) \in SUBSET Gates!Nodes
           /\ \A f \in Met(level) : node_levels[f] >= level /\ (f = Top \/ f < id)
<1>1. level \in Gates!AllLevels /\ id \in Gates!Nodes /\ level \in Nat /\ id \in Nat
  <2>1. GraphValues
    BY DEF GraphInv, GraphTypes
  <2>2. Gates!MaxLevel \in Nat
    BY <2>1, GraphFacts
  <2>3. QED
    BY <2>2 DEF GraphInv, GraphTypes, Gates!AllLevels
<1>2. Met(level) \in SUBSET Gates!Nodes /\ Closed(Met(level), level)
  BY <1>1, MetFacts DEF GraphInv, Met
<1>3. ep \in Met(level)
  BY <1>1 DEF GraphInv, GraphTypes, Met, Inserted
<1>4. Scored(Met(level), similarity[id])
  <2>1. Scored(Gates!Nodes, similarity[id])
    BY <1>1, SimilarScored DEF GraphInv, GraphTypes
  <2>2. QED
    BY <1>2, <2>1, FS_Subset DEF Scored
<1>5. /\ Found \in SUBSET Met(level) /\ Found # {} /\ Cardinality(Found) \in Nat
      /\ Cardinality(Found) < EfConstruction => ep \in Found /\ Closed(Found, level)
  BY <1>2, <1>3, <1>4, CapFacts, SearchFacts DEF GraphInv, GraphTypes, Found
<1>6. Scored(Found, similarity[id])
  BY <1>4, <1>5, FS_Subset DEF Scored
<1>7. Cardinality(Found) <= Gates!Cap(level) => Closed(Found, level) /\ ep \in Found
  <2>1. Gates!Cap(level) \in Nat /\ Gates!Cap(level) < EfConstruction /\ EfConstruction \in Nat
    BY CapFacts
  <2>2. QED
    BY <1>5, <2>1
<1>8. \A f \in Met(level) : node_levels[f] >= level /\ (f = Top \/ f < id)
  BY <1>1 DEF Met, Inserted
<1>9. QED
  BY <1>1, <1>2, <1>5, <1>6, <1>7, <1>8

LEMMA NearestFacts ==
    ASSUME GraphInv, level >= 0
    PROVE  /\ Nearest \in SUBSET Found /\ Nearest # {} /\ Scored(Nearest, similarity[id])
           /\ Cardinality(Nearest) \in Nat /\ Cardinality(Nearest) <= Gates!Cap(level)
           /\ Len(links[level][id]) <= Cardinality(Nearest)
           /\ Cardinality(Found) <= Gates!Cap(level) => Nearest = Found
<1> DEFINE l == level
           cap == Gates!Cap(level)
<1>1. /\ l \in Gates!AllLevels /\ id \in Gates!Nodes
      /\ Found \in SUBSET Met(l) /\ Found # {} /\ Scored(Found, similarity[id])
      /\ Cardinality(Found) \in Nat
      /\ Cardinality(Found) <= cap => Closed(Found, l) /\ ep \in Found
  BY FoundFacts
<1>2. cap \in Nat \ {0}
  BY CapFacts
<1>3. /\ Nearest \in SUBSET Found
      /\ Cardinality(Nearest) = IF Cardinality(Found) <= cap THEN Cardinality(Found) ELSE cap
      /\ Cardinality(Found) <= cap => Nearest = Found
  BY <1>1, <1>2, BestFacts DEF Nearest
<1>4. Scored(Nearest, similarity[id])
  BY <1>1, <1>3, FS_Subset DEF Scored
<1>5. Cardinality(Found) # 0
  BY <1>1, FS_EmptySet DEF Scored
<1>6. Nearest # {}
  <2>1. Cardinality(Nearest) # 0
    BY <1>1, <1>2, <1>3, <1>5
  <2>2. QED
    BY <2>1, FS_EmptySet
<1>7. ASSUME NEW f \in Gates!Nodes, Cardinality(Found) <= cap, f \in Found
      PROVE  Len(links[l][f]) \in Nat /\ Len(links[l][f]) <= Cardinality(Found)
  <2>1. links[l][f] \in Seq(Gates!Nodes) /\ NoneTwice(links[l][f])
    BY <1>1 DEF GraphInv, GraphTypes, ListsOK
  <2>2. Cardinality(Listed(links[l][f])) = Len(links[l][f])
    BY <2>1, ListedFacts
  <2>3. Listed(links[l][f]) \in SUBSET Found
    BY <1>1, <1>7, NeighborsListed DEF Closed
  <2>4. Cardinality(Listed(links[l][f])) <= Cardinality(Found)
    BY <1>1, <2>3, FS_Subset DEF Scored
  <2>5. QED
    BY <2>1, <2>2, <2>4
<1>8. Len(links[l][id]) \in Nat /\ Len(links[l][id]) <= cap
      /\ (id = Top \/ links[l][id] = <<>>)
  <2>1. links[l][id] \in Seq(Gates!Nodes) /\ Len(links[l][id]) <= cap
    BY <1>1 DEF GraphInv, GraphTypes, ListsOK
  <2>2. ~Inserted(id, l)
    <3>1. id \in Int /\ level \in Int
      BY DEF GraphInv, GraphTypes
    <3>2. QED
      BY <3>1 DEF Inserted
  <2>3. QED
    BY <1>1, <2>1, <2>2 DEF GraphInv, ListsOK
<1>9. Len(links[l][id]) <= Cardinality(Nearest)
  <2>1. CASE Cardinality(Found) >= cap
    BY <1>1, <1>2, <1>3, <1>8, <2>1
  <2>2. CASE links[l][id] = <<>>
    <3>1. Len(links[l][id]) = 0
      BY <2>2
    <3>2. Cardinality(Nearest) \in Nat
      BY <1>1, <1>2, <1>3
    <3>3. QED
      BY <3>1, <3>2
  <2>3. CASE id = Top /\ Cardinality(Found) < cap
    <3>1. Cardinality(Found) <= cap
      BY <1>1, <1>2, <2>3
    <3>2. Found \in SUBSET Gates!Nodes
      BY <1>1 DEF Met
    <3>3. ASSUME NEW f \in Found PROVE Len(links[l][f]) # cap
      <4>1. Len(links[l][f]) \in Nat /\ Len(links[l][f]) <= Cardinality(Found)
        BY <1>7, <3>1, <3>2
      <4> HIDE DEF cap
      <4>2. QED
        BY <1>1, <1>2, <2>3, <4>1
    <3>4. Top \in Found
      BY <1>1, <3>1, <3>3, EntryMet
    <3>5. QED
      BY <1>1, <1>3, <1>7, <2>3, <3>1, <3>4
  <2>4. QED
    BY <1>1, <1>2, <1>8, <2>1, <2>2, <2>3
<1>10. QED
  BY <1>1, <1>2, <1>3, <1>4, <1>6, <1>9

LEMMA LayerStays ==
    ASSUME similarity' = similarity, node_levels' = node_levels
    PROVE  /\ Gates!Nodes' = Gates!Nodes /\ Gates!MaxLevel' = Gates!MaxLevel
           /\ Gates!AllLevels' = Gates!AllLevels /\ Top' = Top
           /\ Gates!Size(similarity)' = Gates!Size(similarity)
           /\ GraphValues => GraphValues'
<1>1. Gates!Nodes' = Gates!Nodes
  BY DEF Gates!Nodes
<1>2. Gates!MaxLevel' = Gates!MaxLevel
  BY <1>1 DEF Gates!MaxLevel, Gates!Levels
<1>3. Gates!AllLevels' = Gates!AllLevels
  BY <1>2 DEF Gates!AllLevels
<1>4. Top' = Top
  BY <1>1, <1>2 DEF Top, Gates!entry_point
<1>5. Gates!Size(similarity)' = Gates!Size(similarity)
  BY DEF Gates!Size
<1>6. GraphValues => GraphValues'
  BY <1>1 DEF GraphValues
<1>7. QED
  BY <1>1, <1>2, <1>3, <1>4, <1>5, <1>6

LEMMA ConnectIs ==
    ASSUME GraphInv, Gates!Connect
    PROVE  LET order == InOrder(Nearest, similarity[id]) IN
           /\ level >= 0
           /\ level' = level - 1 /\ id' = (IF level = 0 THEN id + 1 ELSE id)
           /\ similarity' = similarity /\ node_levels' = node_levels
           /\ ep' = Head(order)
           /\ links' = [links EXCEPT ![level] =
                  [f \in Gates!Nodes |->
                      CASE f = id -> Gates!Overwritten(links[level][f], order)
                        [] f # id /\ f \in Nearest -> Gates!Connected(links[level][f], f, id, level)
                        [] OTHER -> links[level][f]]]
           /\ selected' = [selected EXCEPT ![level][id] = Nearest]
BY Zenon DEF Gates!Connect, InOrder, Nearest, Found

\* The lists and what was connected, after a feature is connected at a level.
LEMMA ConnectFacts ==
    ASSUME GraphInv, Gates!Connect
    PROVE  LET order == InOrder(Nearest, similarity[id]) IN
           /\ links' \in [Gates!AllLevels -> [Gates!Nodes -> Seq(Gates!Nodes)]]
           /\ selected' \in [Gates!AllLevels -> [Gates!Nodes -> SUBSET Gates!Nodes]]
           /\ \A l \in Gates!AllLevels \ {level}, f \in Gates!Nodes :
                 links'[l][f] = links[l][f] /\ selected'[l][f] = selected[l][f]
           /\ links'[level][id] = order /\ selected'[level][id] = Nearest
           /\ \A f \in Gates!Nodes \ {id} :
                 /\ links'[level][f] = IF f \in Nearest
                                       THEN Gates!Connected(links[level][f], f, id, level)
                                       ELSE links[level][f]
                 /\ selected'[level][f] = selected[level][f]
           /\ order \in Seq(Nearest) /\ Len(order) = Cardinality(Nearest)
           /\ Listed(order) = Nearest /\ NoneTwice(order)
           /\ ep' \in Nearest
<1> DEFINE order == InOrder(Nearest, similarity[id])
           N == Gates!Nodes
           A == Gates!AllLevels
           row == [f \in N |->
                      CASE f = id -> Gates!Overwritten(links[level][f], order)
                        [] f # id /\ f \in Nearest -> Gates!Connected(links[level][f], f, id, level)
                        [] OTHER -> links[level][f]]
<1>1. /\ level >= 0 /\ ep' = Head(order)
      /\ links' = [links EXCEPT ![level] = row]
      /\ selected' = [selected EXCEPT ![level][id] = Nearest]
  BY ConnectIs
<1>2. /\ level \in A /\ id \in N /\ Nearest \in SUBSET N /\ Nearest # {}
      /\ Scored(Nearest, similarity[id]) /\ Len(links[level][id]) <= Cardinality(Nearest)
      /\ Cardinality(Nearest) \in Nat
  BY <1>1, FoundFacts, NearestFacts
<1>3. /\ order \in Seq(Nearest) /\ Len(order) = Cardinality(Nearest)
      /\ Listed(order) = Nearest /\ NoneTwice(order)
  BY <1>2, OrderFacts
<1>4. /\ links \in [A -> [N -> Seq(N)]] /\ selected \in [A -> [N -> SUBSET N]]
      /\ \A f \in N : NoneTwice(links[level][f]) /\ Len(links[level][f]) <= Gates!Cap(level)
  BY <1>2 DEF GraphInv, GraphTypes, ListsOK
<1> HIDE DEF order, N, A
<1>5. order \in Seq(N)
  BY <1>2, <1>3
<1>6. Gates!Overwritten(links[level][id], order) = order
  BY <1>2, <1>3, <1>4, <1>5, OverwrittenFacts
<1>7. ASSUME NEW f \in N PROVE Gates!Connected(links[level][f], f, id, level) \in Seq(N)
  <2>1. Scored(N, similarity[f])
    BY SimilarScored DEF GraphInv, GraphTypes, N
  <2>2. links[level][f] \in Seq(N)
    BY <1>2, <1>4
  <2>3. QED
    BY <1>2, <1>4, <2>1, <2>2, CapFacts, ConnectedFacts
<1>8. /\ row[id] = order
      /\ \A f \in N \ {id} : row[f] = IF f \in Nearest
                                      THEN Gates!Connected(links[level][f], f, id, level)
                                      ELSE links[level][f]
  BY <1>2, <1>6
<1>9. row \in [N -> Seq(N)]
  <2>1. \A f \in N : row[f] \in Seq(N)
    BY <1>2, <1>4, <1>5, <1>7, <1>8
  <2>2. row = [f \in N |-> row[f]]
    OBVIOUS
  <2> HIDE DEF row
  <2>3. QED
    BY <2>1, <2>2
<1> HIDE DEF row
<1>10. /\ links' \in [A -> [N -> Seq(N)]]
       /\ links'[level] = row /\ \A l \in A \ {level} : links'[l] = links[l]
  BY <1>1, <1>2, <1>4, <1>9
<1>11. /\ selected' \in [A -> [N -> SUBSET N]]
       /\ selected'[level][id] = Nearest
       /\ \A f \in N \ {id} : selected'[level][f] = selected[level][f]
       /\ \A l \in A \ {level} : selected'[l] = selected[l]
  BY <1>1, <1>2, <1>4
<1>12. ep' \in Nearest
  <2>1. Len(order) # 0
    BY <1>2, <1>3, FS_EmptySet DEF Scored
  <2>2. order # <<>>
    BY <1>3, <2>1
  <2>3. QED
    BY <1>1, <1>3, <2>2
<1>13. ASSUME NEW l \in A \ {level}, NEW f \in N
       PROVE  links'[l][f] = links[l][f] /\ selected'[l][f] = selected[l][f]
  <2>1. links'[l] = links[l]
    BY <1>10
  <2>2. selected'[l] = selected[l]
    BY <1>11
  <2>3. QED
    BY <2>1, <2>2
<1>14. links'[level][id] = order /\ selected'[level][id] = Nearest
  BY <1>8, <1>10, <1>11
<1>15. ASSUME NEW f \in N \ {id}
       PROVE  /\ links'[level][f] = IF f \in Nearest
                                    THEN Gates!Connected(links[level][f], f, id, level)
                                    ELSE links[level][f]
              /\ selected'[level][f] = selected[level][f]
  BY <1>8, <1>10, <1>11
<1>16. links' \in [A -> [N -> Seq(N)]] /\ selected' \in [A -> [N -> SUBSET N]]
  BY <1>10, <1>11
<1>17. QED
  BY <1>3, <1>12, <1>13, <1>14, <1>15, <1>16 DEF order, N, A

\* The list of another feature at that level.
LEMMA OtherList ==
    ASSUME GraphInv, Gates!Connect, NEW f \in Gates!Nodes \ {id}
    PROVE  /\ NoneTwice(links'[level][f]) /\ Len(links'[level][f]) <= Gates!Cap(level)
           /\ Listed(links'[level][f]) \subseteq Listed(links[level][f]) \cup {id}
           /\ f \notin Nearest => links'[level][f] = links[level][f]
           /\ f \in Nearest => Near(links'[level][f], f, id, Gates!Cap(level))
           /\ \A g \in Gates!Nodes : Near(links[level][f], f, g, Gates!Cap(level)) =>
                                        Near(links'[level][f], f, g, Gates!Cap(level))
<1>1. level \in Gates!AllLevels /\ id \in Gates!Nodes
  BY ConnectIs, FoundFacts
<1>2. /\ links[level][f] \in Seq(Gates!Nodes) /\ NoneTwice(links[level][f])
      /\ Len(links[level][f]) <= Gates!Cap(level)
  BY <1>1 DEF GraphInv, GraphTypes, ListsOK
<1>3. Scored(Gates!Nodes, similarity[f])
  BY SimilarScored DEF GraphInv, GraphTypes
<1>4. Gates!Cap(level) \in Nat \ {0}
  BY CapFacts
<1> DEFINE c == Gates!Connected(links[level][f], f, id, level)
<1>5. /\ NoneTwice(c) /\ Len(c) <= Gates!Cap(level) /\ Listed(c) \subseteq Listed(links[level][f]) \cup {id}
      /\ Near(c, f, id, Gates!Cap(level))
      /\ \A g \in Gates!Nodes : Near(links[level][f], f, g, Gates!Cap(level)) => Near(c, f, g, Gates!Cap(level))
  BY <1>1, <1>2, <1>3, <1>4, ConnectedFacts
<1>6. links'[level][f] = IF f \in Nearest THEN c ELSE links[level][f]
  BY ConnectFacts
<1> HIDE DEF c
<1>7. CASE f \in Nearest
  <2>1. links'[level][f] = c
    BY <1>6, <1>7
  <2>2. QED
    BY <1>5, <1>7, <2>1
<1>8. CASE f \notin Nearest
  <2>1. links'[level][f] = links[level][f]
    BY <1>6, <1>8
  <2>2. QED
    BY <1>2, <1>8, <2>1
<1>9. QED
  BY <1>7, <1>8

LEMMA ConnectInserted ==
    ASSUME GraphInv, Gates!Connect
    PROVE  /\ \A l \in Gates!AllLevels, f \in Gates!Nodes :
                 Inserted(f, l)' <=> Inserted(f, l) \/ (f = id /\ l = level)
           /\ ~Inserted(id, level)
<1>1. /\ level \in Nat /\ id \in Nat /\ level' = level - 1
      /\ id' = IF level = 0 THEN id + 1 ELSE id
  <2>1. level >= 0 /\ level' = level - 1 /\ id' = IF level = 0 THEN id + 1 ELSE id
    BY ConnectIs
  <2>2. level \in Int /\ id \in Nat
    BY DEF GraphInv, GraphTypes
  <2>3. QED
    BY <2>1, <2>2
<1>2. ASSUME NEW l \in Gates!AllLevels, NEW f \in Gates!Nodes
      PROVE  Inserted(f, l)' <=> Inserted(f, l) \/ (f = id /\ l = level)
  <2>1. l \in Nat /\ f \in Nat
    BY GraphFacts DEF GraphInv, GraphTypes, Gates!AllLevels
  <2>2. Inserted(f, l)' <=> f < id' \/ (f = id' /\ 0 <= level' /\ level' < l)
    BY DEF Inserted
  <2>3. CASE level = 0
    <3>1. id' = id + 1 /\ level' = -1
      BY <1>1, <2>3
    <3>2. QED
      BY <1>1, <2>1, <2>2, <2>3, <3>1 DEF Inserted
  <2>4. CASE level # 0
    <3>1. id' = id /\ level' = level - 1 /\ level >= 1
      BY <1>1, <2>4
    <3>2. QED
      BY <1>1, <2>1, <2>2, <2>4, <3>1 DEF Inserted
  <2>5. QED
    BY <2>3, <2>4
<1>3. QED
  BY <1>1, <1>2 DEF Inserted

LEMMA ConnectLists == GraphInv /\ Gates!Connect => ListsOK'
<1> SUFFICES ASSUME GraphInv, Gates!Connect PROVE ListsOK'
  OBVIOUS
<1> DEFINE N == Gates!Nodes
           A == Gates!AllLevels
<1>1. N' = N /\ A' = A /\ Top' = Top /\ node_levels' = node_levels
  BY ConnectIs, LayerStays
<1>2. \A l \in A, f \in N : Inserted(f, l)' <=> Inserted(f, l) \/ (f = id /\ l = level)
  BY ConnectInserted
<1>3. level \in A /\ id \in N
  BY ConnectIs, FoundFacts
<1>4. \A l \in A, f \in N : links[l][f] \in Seq(N) /\ Listed(links[l][f]) \subseteq N
  <2>1. \A l \in A, f \in N : links[l][f] \in Seq(N)
    BY DEF GraphInv, GraphTypes
  <2>2. QED
    BY <2>1 DEF Listed
<1>5. ASSUME NEW l \in A, NEW f \in N
      PROVE  /\ NoneTwice(links'[l][f]) /\ Len(links'[l][f]) <= Gates!Cap(l)
             /\ \A g \in Listed(links'[l][f]) :
                  /\ node_levels[g] >= l
                  /\ g = f => f = Top
                  /\ g = Top \/ Inserted(g, l)'
             /\ f = Top \/ Inserted(f, l)' \/ links'[l][f] = <<>>
  <2>1. /\ NoneTwice(links[l][f]) /\ Len(links[l][f]) <= Gates!Cap(l)
        /\ \A g \in Listed(links[l][f]) :
             /\ node_levels[g] >= l
             /\ g = f => f = Top
             /\ g = Top \/ Inserted(g, l)
        /\ f = Top \/ Inserted(f, l) \/ links[l][f] = <<>>
    BY DEF GraphInv, ListsOK
  <2>2. CASE l # level
    <3>1. links'[l][f] = links[l][f]
      BY <2>2, ConnectFacts
    <3>2. QED
      BY <1>2, <1>4, <2>1, <3>1
  <2>3. CASE l = level /\ f = id
    <3>1. /\ Listed(links'[l][f]) = Nearest /\ NoneTwice(links'[l][f])
          /\ Len(links'[l][f]) = Cardinality(Nearest)
      BY <2>3, ConnectFacts
    <3>2. Cardinality(Nearest) <= Gates!Cap(l) /\ Nearest \in SUBSET Found
      BY <2>3, ConnectIs, NearestFacts
    <3>3. Found \in SUBSET Met(l) /\ Met(l) \in SUBSET N
          /\ \A g \in Met(l) : node_levels[g] >= l /\ (g = Top \/ g < id)
      BY <2>3, ConnectIs, FoundFacts
    <3>4. id \in Nat
      BY DEF GraphInv, GraphTypes
    <3>5. ASSUME NEW g \in Nearest
          PROVE  node_levels[g] >= l /\ (g = f => f = Top) /\ (g = Top \/ Inserted(g, l)')
      <4>1. g \in N /\ node_levels[g] >= l /\ (g = Top \/ g < id)
        BY <3>2, <3>3
      <4>2. g = f => f = Top
        BY <2>3, <3>4, <4>1
      <4>3. g < id => Inserted(g, l)'
        BY <1>2, <4>1 DEF Inserted
      <4>4. QED
        BY <4>1, <4>2, <4>3
    <3>6. Inserted(f, l)'
      BY <1>2, <2>3
    <3>7. QED
      BY <3>1, <3>2, <3>5, <3>6
  <2>4. CASE l = level /\ f # id
    <3>1. /\ NoneTwice(links'[l][f]) /\ Len(links'[l][f]) <= Gates!Cap(l)
          /\ Listed(links'[l][f]) \subseteq Listed(links[l][f]) \cup {id}
          /\ f \notin Nearest => links'[l][f] = links[l][f]
      BY <2>4, OtherList
    <3>2. node_levels[id] >= l
      <4>1. level <= node_levels[id] /\ level \in Int
        BY ConnectIs DEF GraphInv, GraphTypes
      <4>2. node_levels[id] \in Nat
        BY <1>3 DEF GraphInv, GraphTypes, GraphValues
      <4>3. QED
        BY <2>4, <4>1, <4>2
    <3>3. ASSUME NEW g \in Listed(links'[l][f])
          PROVE  node_levels[g] >= l /\ (g = f => f = Top) /\ (g = Top \/ Inserted(g, l)')
      <4>1. CASE g = id
        <5>1. Inserted(g, l)'
          BY <1>2, <1>3, <2>4, <4>1
        <5>2. QED
          BY <2>4, <3>2, <4>1, <5>1
      <4>2. CASE g \in Listed(links[l][f])
        BY <1>2, <1>4, <2>1, <4>2
      <4>3. QED
        BY <3>1, <4>1, <4>2
    <3>4. ASSUME f \in Nearest PROVE f = Top \/ Inserted(f, l)'
      <4>1. f \in Met(l) /\ \A g \in Met(l) : g = Top \/ g < id
        BY <2>4, <3>4, ConnectIs, FoundFacts, NearestFacts
      <4>2. QED
        BY <1>2, <4>1 DEF Inserted
    <3>5. f = Top \/ Inserted(f, l)' \/ links'[l][f] = <<>>
      BY <1>2, <2>1, <3>1, <3>4
    <3>6. QED
      BY <3>1, <3>3, <3>5
  <2>5. QED
    BY <2>2, <2>3, <2>4
<1>7. QED
  BY <1>1, <1>5 DEF ListsOK

LEMMA ConnectTypes == GraphInv /\ Gates!Connect => GraphTypes'
<1> SUFFICES ASSUME GraphInv, Gates!Connect PROVE GraphTypes'
  OBVIOUS
<1> DEFINE N == Gates!Nodes
           A == Gates!AllLevels
           n == Gates!Size(similarity)
           mx == Gates!MaxLevel
<1>1. /\ N' = N /\ A' = A /\ Top' = Top /\ node_levels' = node_levels
      /\ Gates!Size(similarity)' = n /\ mx' = mx /\ GraphValues'
  BY ConnectIs, LayerStays DEF GraphInv, GraphTypes
<1>2. /\ level \in Nat /\ level <= mx /\ id \in N /\ id \in 0 .. n - 1
      /\ level' = level - 1 /\ id' = IF level = 0 THEN id + 1 ELSE id
      /\ level <= node_levels[id]
      /\ ~(id = 0 /\ Top = 0)
  <2>1. level >= 0 /\ level' = level - 1 /\ id' = IF level = 0 THEN id + 1 ELSE id
    BY ConnectIs
  <2>2. /\ level \in (-1) .. mx /\ id \in N /\ level <= node_levels[id] /\ ~(id = 0 /\ Top = 0)
    BY <2>1 DEF GraphInv, GraphTypes
  <2>3. N = 0 .. n - 1 /\ mx \in Nat
    BY GraphFacts DEF GraphInv, GraphTypes
  <2>4. QED
    BY <2>1, <2>2, <2>3
<1>3. n \in Nat /\ mx \in Nat /\ node_levels[id] \in Nat
  BY <1>2, GraphFacts DEF GraphInv, GraphTypes
<1>4. /\ ep' \in N /\ node_levels[ep'] >= level /\ (ep' = Top \/ ep' < id)
      /\ node_levels[ep'] \in Nat
  <2>1. ep' \in Nearest
    BY ConnectFacts
  <2>2. ep' \in Met(level)
    BY <2>1, ConnectIs, NearestFacts, FoundFacts
  <2>3. ep' \in N /\ node_levels[ep'] >= level /\ (ep' = Top \/ ep' < id)
    BY <2>2, ConnectIs, FoundFacts
  <2>4. QED
    BY <2>3 DEF GraphInv, GraphTypes, GraphValues
<1>5. links' \in [A -> [N -> Seq(N)]] /\ selected' \in [A -> [N -> SUBSET N]]
  BY ConnectFacts
<1> HIDE DEF N, A, n, mx
<1>6. id' \in 0 .. n /\ level' \in (-1) .. mx
  BY <1>2, <1>3
<1>7. ASSUME level' >= 0
      PROVE  /\ id' \in N /\ level' <= node_levels[id'] /\ ~(id' = 0 /\ Top = 0)
             /\ node_levels[ep'] >= level' /\ (ep' = Top \/ ep' < id')
  <2>1. id' = id /\ level' <= level /\ level' \in Int
    BY <1>2, <1>7
  <2>2. QED
    BY <1>2, <1>3, <1>4, <2>1
<1>8. QED
  BY <1>1, <1>4, <1>5, <1>6, <1>7 DEF GraphTypes, N, A, n, mx

LEMMA ConnectChosen == GraphInv /\ Gates!Connect => ChosenOK'
<1> SUFFICES ASSUME GraphInv, Gates!Connect PROVE ChosenOK'
  OBVIOUS
<1> DEFINE N == Gates!Nodes
           A == Gates!AllLevels
<1>1. N' = N /\ A' = A /\ Top' = Top /\ node_levels' = node_levels
  BY ConnectIs, LayerStays
<1>2. \A l \in A, f \in N : Inserted(f, l)' <=> Inserted(f, l) \/ (f = id /\ l = level)
  BY ConnectInserted
<1>3. ASSUME NEW l \in A, NEW f \in N
      PROVE  /\ \A g \in selected'[l][f] : node_levels[g] >= l /\ (g = Top \/ g < f)
             /\ selected'[l][f] # {} => Inserted(f, l)'
             /\ Inserted(f, l)' /\ l <= node_levels[f] /\ f # Top => selected'[l][f] # {}
  <2>1. CASE l # level \/ f # id
    <3>1. selected'[l][f] = selected[l][f]
      BY <2>1, ConnectFacts
    <3>2. Inserted(f, l)' <=> Inserted(f, l)
      BY <1>2, <2>1
    <3>3. /\ \A g \in selected[l][f] : node_levels[g] >= l /\ (g = Top \/ g < f)
          /\ selected[l][f] # {} => Inserted(f, l)
          /\ Inserted(f, l) /\ l <= node_levels[f] /\ f # Top => selected[l][f] # {}
      BY DEF GraphInv, ChosenOK
    <3>4. QED
      BY <3>1, <3>2, <3>3
  <2>2. CASE l = level /\ f = id
    <3>1. selected'[l][f] = Nearest /\ Nearest # {} /\ Nearest \in SUBSET Found
      BY <2>2, ConnectIs, ConnectFacts, NearestFacts
    <3>2. \A g \in Nearest : node_levels[g] >= l /\ (g = Top \/ g < f)
      BY <2>2, <3>1, ConnectIs, FoundFacts
    <3>3. QED
      BY <1>2, <2>2, <3>1, <3>2
  <2>3. QED
    BY <2>1, <2>2
<1>4. QED
  BY <1>1, <1>3 DEF ChosenOK

LEMMA ConnectKept == GraphInv /\ Gates!Connect => KeptOK'
<1> SUFFICES ASSUME GraphInv, Gates!Connect PROVE KeptOK'
  OBVIOUS
<1> DEFINE N == Gates!Nodes
           A == Gates!AllLevels
<1>1. N' = N /\ A' = A /\ Top' = Top /\ similarity' = similarity
  BY ConnectIs, LayerStays
<1>2. level \in A /\ id \in N /\ id \in Nat
  <2>1. level >= 0
    BY ConnectIs
  <2>2. QED
    BY <2>1, FoundFacts DEF GraphInv, GraphTypes
<1>3. \A l \in A, f \in N : selected[l][f] \in SUBSET N
  BY DEF GraphInv, GraphTypes
<1>4. Nearest \in SUBSET N /\ Nearest # {} /\ \A g \in Nearest : g = Top \/ g < id
  <2>1. Nearest \in SUBSET Met(level) /\ Nearest # {}
    BY ConnectIs, FoundFacts, NearestFacts
  <2>2. QED
    BY <2>1, ConnectIs, FoundFacts
<1> DEFINE Gone(g, f, l) == g = Top /\ f < g /\ selected'[l][g] # {} /\ f \notin selected'[l][g]
<1>5. ASSUME NEW l \in A, NEW f \in N, NEW g \in selected'[l][f] \ {f}
      PROVE  /\ Near(links'[l][f], f, g, Gates!Cap(l))
             /\ Near(links'[l][g], g, f, Gates!Cap(l)) \/ Gone(g, f, l)
  <2>1. CASE l # level
    <3>1. /\ selected'[l][f] = selected[l][f] /\ links'[l][f] = links[l][f]
      BY <2>1, ConnectFacts
    <3>2. g \in N /\ g \in selected[l][f] \ {f}
      BY <1>3, <3>1
    <3>3. links'[l][g] = links[l][g] /\ selected'[l][g] = selected[l][g]
      BY <2>1, <3>2, ConnectFacts
    <3>4. /\ Near(links[l][f], f, g, Gates!Cap(l))
          /\ Near(links[l][g], g, f, Gates!Cap(l)) \/ GivenUp(g, f, l)
      BY <3>2 DEF GraphInv, KeptOK
    <3>5. QED
      BY <3>1, <3>3, <3>4 DEF GivenUp
  <2>2. CASE l = level /\ f = id
    <3>1. Listed(links'[l][f]) = Nearest /\ selected'[l][f] = Nearest
      BY <2>2, ConnectFacts
    <3>2. Near(links'[l][f], f, g, Gates!Cap(l))
      BY <3>1 DEF Near
    <3>3. g \in N \ {id} /\ g \in Nearest
      BY <1>4, <2>2, <3>1
    <3>4. Near(links'[l][g], g, f, Gates!Cap(l))
      BY <2>2, <3>3, OtherList
    <3>5. QED
      BY <3>2, <3>4
  <2>3. CASE l = level /\ f # id
    <3>1. selected'[l][f] = selected[l][f]
      BY <2>3, ConnectFacts
    <3>2. g \in N /\ g \in selected[l][f] \ {f}
      BY <1>3, <3>1
    <3>3. /\ Near(links[l][f], f, g, Gates!Cap(l))
          /\ Near(links[l][g], g, f, Gates!Cap(l)) \/ GivenUp(g, f, l)
      BY <3>2 DEF GraphInv, KeptOK
    <3>4. Near(links'[l][f], f, g, Gates!Cap(l))
      BY <2>3, <3>2, <3>3, OtherList
    <3>5. CASE g # id
      <4>1. selected'[l][g] = selected[l][g]
        BY <2>3, <3>2, <3>5, ConnectFacts
      <4>2. Near(links[l][g], g, f, Gates!Cap(l)) => Near(links'[l][g], g, f, Gates!Cap(l))
        BY <2>3, <3>2, <3>5, OtherList
      <4>3. QED
        BY <3>3, <3>4, <4>1, <4>2 DEF GivenUp
    <3>6. CASE g = id
      <4>1. Inserted(f, l) /\ (g = Top \/ g < f)
        BY <3>2 DEF GraphInv, ChosenOK
      <4>2. f < id /\ f \in Nat
        <5>1. f \in Nat /\ level \in Int
          BY GraphFacts DEF GraphInv, GraphTypes
        <5>2. QED
          BY <2>3, <4>1, <5>1 DEF Inserted
      <4>3. g = Top /\ f < g
        BY <1>2, <3>6, <4>1, <4>2
      <4>4. Listed(links'[l][g]) = Nearest /\ selected'[l][g] = Nearest
        BY <2>3, <3>6, ConnectFacts
      <4>5. CASE f \in Nearest
        BY <3>4, <4>4, <4>5 DEF Near
      <4>6. CASE f \notin Nearest
        BY <1>4, <3>4, <4>3, <4>4, <4>6
      <4>7. QED
        BY <4>5, <4>6
    <3>7. QED
      BY <3>5, <3>6
  <2>4. QED
    BY <2>1, <2>2, <2>3
<1>6. QED
  BY <1>1, <1>5 DEF KeptOK, Near, GivenUp

LEMMA ConnectEntry == GraphInv /\ Gates!Connect => EntryOK'
<1> SUFFICES ASSUME GraphInv, Gates!Connect PROVE EntryOK'
  OBVIOUS
<1> DEFINE N == Gates!Nodes
           n == Gates!Size(similarity)
<1>1. /\ N' = N /\ Top' = Top /\ similarity' = similarity /\ Gates!Size(similarity)' = n
  BY ConnectIs, LayerStays
<1>2. /\ n \in Nat /\ Cardinality(N) = n /\ IsFiniteSet(N) /\ Top \in N /\ 0 \in Gates!AllLevels
      /\ \A f \in N : f \in Nat
  BY GraphFacts DEF GraphInv, GraphTypes, Gates!AllLevels
<1> SUFFICES ASSUME n <= Gates!Cap(0), selected'[0][Top] # {}, NEW f \in N, f < Top
             PROVE  f \in selected'[0][Top]
  BY <1>1 DEF EntryOK
<1>3. CASE level # 0 \/ id # Top
  <2>1. selected'[0][Top] = selected[0][Top]
    BY <1>2, <1>3, ConnectFacts
  <2>2. QED
    BY <2>1 DEF GraphInv, EntryOK
<1>4. CASE level = 0 /\ id = Top
  <2>1. selected'[0][Top] = Nearest
    BY <1>4, ConnectFacts
  <2>2. /\ Found \in SUBSET Met(0) /\ Found # {} /\ Cardinality(Found) \in Nat
        /\ Cardinality(Found) <= Gates!Cap(0) => Closed(Found, 0) /\ Nearest = Found
        /\ Met(0) \in SUBSET N
    BY <1>4, ConnectIs, FoundFacts, NearestFacts
  <2>3. Cardinality(Found) <= n
    BY <1>2, <2>2, FS_Subset
  <2>4. Cardinality(Found) <= Gates!Cap(0)
    BY <1>2, <2>2, <2>3, CapFacts
  <2>5. f \in Found
    BY <1>4, <2>2, <2>4, AllMet
  <2>6. QED
    BY <2>1, <2>2, <2>4, <2>5
<1>5. QED
  BY <1>3, <1>4

LEMMA GraphStarts == Gates!Init => GraphInv
<1> SUFFICES ASSUME Gates!Init PROVE GraphInv
  OBVIOUS
<1> DEFINE N == Gates!Nodes
           A == Gates!AllLevels
           n == Gates!Size(similarity)
<1>1. GraphValues
  <2>1. similarity \in Similarities
    BY DEF Gates!Init
  <2>2. PICK d \in Drawn : node_levels = [f \in N |-> d[f]]
    BY DEF Gates!Init
  <2>3. \A f \in N : d[f] \in Nat
    BY <2>1, <2>2, ProgramsAssumption DEF Gates!GraphAssumption, Gates!Nodes
  <2>4. QED
    BY <2>1, <2>2, <2>3 DEF GraphValues
<1>2. /\ links = [l \in A |-> [f \in N |-> <<>>]] /\ selected = [l \in A |-> [f \in N |-> {}]]
      /\ id = 0 /\ level = -1 /\ ep = Top
  BY DEF Gates!Init, Top
<1>3. /\ n \in Nat \ {0} /\ Top \in N /\ Gates!MaxLevel \in Nat /\ A = 0 .. Gates!MaxLevel
      /\ \A f \in N : f \in Nat
  BY <1>1, GraphFacts DEF Gates!AllLevels
<1>4. \A l \in A, f \in N : links[l][f] = <<>> /\ selected[l][f] = {}
  BY <1>2
<1>5. GraphTypes
  <2>1. <<>> \in Seq(N)
    OBVIOUS
  <2>2. /\ links \in [A -> [N -> Seq(N)]] /\ selected \in [A -> [N -> SUBSET N]]
    BY <1>2, <2>1
  <2>3. id \in 0 .. n /\ level \in (-1) .. Gates!MaxLevel /\ ~(level >= 0)
    BY <1>2, <1>3
  <2> HIDE DEF N, A, n
  <2>4. QED
    BY <1>1, <1>2, <1>3, <2>2, <2>3 DEF GraphTypes, N, A, n
<1>6. ListsOK
  <2>1. NoneTwice(<<>>) /\ Listed(<<>>) = {} /\ Len(<<>>) = 0
    BY DEF NoneTwice, Listed
  <2>2. \A l : 0 <= Gates!Cap(l)
    BY CapFacts
  <2> HIDE DEF N, A
  <2>3. QED
    BY <1>4, <2>1, <2>2 DEF ListsOK, N, A
<1>7. ChosenOK
  <2>1. \A l \in A, f \in N : ~Inserted(f, l)
    BY <1>2, <1>3 DEF Inserted
  <2>2. QED
    BY <1>4, <2>1 DEF ChosenOK
<1>8. KeptOK
  BY <1>4 DEF KeptOK
<1>9. EntryOK
  <2>1. 0 \in A
    BY <1>3
  <2>2. QED
    BY <1>3, <1>4, <2>1 DEF EntryOK
<1>10. QED
  BY <1>5, <1>6, <1>7, <1>8, <1>9 DEF GraphInv

\* A step that connects nothing, and is no step back.
LEMMA NothingConnected ==
    ASSUME GraphInv, GraphTypes', UNCHANGED <<similarity, node_levels, links, selected>>,
           \A l \in Gates!AllLevels, f \in Gates!Nodes :
               /\ Inserted(f, l) => Inserted(f, l)'
               /\ Inserted(f, l)' /\ l <= node_levels[f] /\ f # Top => Inserted(f, l)
    PROVE  GraphInv'
<1> DEFINE N == Gates!Nodes
           A == Gates!AllLevels
<1>1. /\ N' = N /\ A' = A /\ Top' = Top /\ similarity' = similarity /\ node_levels' = node_levels
      /\ Gates!Size(similarity)' = Gates!Size(similarity)
      /\ links' = links /\ selected' = selected
  BY LayerStays
<1>2. \A l \in A, f \in N : Listed(links[l][f]) \subseteq N
  BY DEF GraphInv, GraphTypes, Listed
<1>3. ListsOK'
  <2>1. ASSUME NEW l \in A, NEW f \in N
        PROVE  /\ NoneTwice(links[l][f]) /\ Len(links[l][f]) <= Gates!Cap(l)
               /\ \A g \in Listed(links[l][f]) :
                    /\ node_levels[g] >= l
                    /\ g = f => f = Top
                    /\ g = Top \/ Inserted(g, l)'
               /\ f = Top \/ Inserted(f, l)' \/ links[l][f] = <<>>
    <3>1. /\ NoneTwice(links[l][f]) /\ Len(links[l][f]) <= Gates!Cap(l)
          /\ \A g \in Listed(links[l][f]) :
               /\ node_levels[g] >= l
               /\ g = f => f = Top
               /\ g = Top \/ Inserted(g, l)
          /\ f = Top \/ Inserted(f, l) \/ links[l][f] = <<>>
      BY DEF GraphInv, ListsOK
    <3>2. QED
      BY <1>2, <3>1
  <2>2. QED
    BY <1>1, <2>1 DEF ListsOK
<1>4. ChosenOK'
  <2>1. ASSUME NEW l \in A, NEW f \in N
        PROVE  /\ \A g \in selected[l][f] : node_levels[g] >= l /\ (g = Top \/ g < f)
               /\ selected[l][f] # {} => Inserted(f, l)'
               /\ Inserted(f, l)' /\ l <= node_levels[f] /\ f # Top => selected[l][f] # {}
    <3>1. /\ \A g \in selected[l][f] : node_levels[g] >= l /\ (g = Top \/ g < f)
          /\ selected[l][f] # {} => Inserted(f, l)
          /\ Inserted(f, l) /\ l <= node_levels[f] /\ f # Top => selected[l][f] # {}
      BY DEF GraphInv, ChosenOK
    <3>2. QED
      BY <3>1
  <2>2. QED
    BY <1>1, <2>1 DEF ChosenOK
<1>5. KeptOK'
  BY <1>1 DEF GraphInv, KeptOK, Near, GivenUp
<1>6. EntryOK'
  BY <1>1 DEF GraphInv, EntryOK
<1>7. QED
  BY <1>3, <1>4, <1>5, <1>6 DEF GraphInv

LEMMA FirstSkipped == GraphInv /\ Gates!Skip => GraphInv'
<1> SUFFICES ASSUME GraphInv, Gates!Skip PROVE GraphInv'
  OBVIOUS
<1>1. /\ level = -1 /\ id = 0 /\ Top = 0 /\ id' = 1 /\ level' = level /\ ep' = ep
      /\ UNCHANGED <<similarity, node_levels, links, selected>>
  BY DEF Gates!Skip, Top
<1>2. /\ Gates!Nodes' = Gates!Nodes /\ Gates!AllLevels' = Gates!AllLevels /\ Top' = Top
      /\ Gates!MaxLevel' = Gates!MaxLevel
      /\ Gates!Size(similarity)' = Gates!Size(similarity) /\ GraphValues'
  BY <1>1, LayerStays DEF GraphInv, GraphTypes
<1>3. Gates!Size(similarity) \in Nat \ {0} /\ \A f \in Gates!Nodes : f \in Nat
  BY GraphFacts DEF GraphInv, GraphTypes
<1>4. GraphTypes'
  <2>1. id' \in 0 .. Gates!Size(similarity) /\ ~(level' >= 0)
    BY <1>1, <1>3
  <2>2. QED
    BY <1>1, <1>2, <2>1 DEF GraphInv, GraphTypes
<1>5. ASSUME NEW l \in Gates!AllLevels, NEW f \in Gates!Nodes
      PROVE  /\ Inserted(f, l) => Inserted(f, l)'
             /\ Inserted(f, l)' /\ l <= node_levels[f] /\ f # Top => Inserted(f, l)
  <2>1. f \in Nat
    BY <1>3
  <2>2. Inserted(f, l)' => f = 0
    BY <1>1, <2>1 DEF Inserted
  <2>3. ~Inserted(f, l)
    BY <1>1, <2>1 DEF Inserted
  <2>4. QED
    BY <1>1, <2>2, <2>3
<1>6. QED
  BY <1>1, <1>4, <1>5, NothingConnected

LEMMA StartKeeps == GraphInv /\ Gates!StartFeature => GraphInv'
<1> SUFFICES ASSUME GraphInv, Gates!StartFeature PROVE GraphInv'
  OBVIOUS
<1>1. /\ level = -1 /\ id \in Gates!Nodes /\ ~(id = 0 /\ Top = 0) /\ level' = node_levels[id]
      /\ ep' = Gates!Descent(similarity[id], level') /\ id' = id
      /\ UNCHANGED <<similarity, node_levels, links, selected>>
  BY DEF Gates!StartFeature, Top
<1>2. /\ Gates!Nodes' = Gates!Nodes /\ Gates!AllLevels' = Gates!AllLevels /\ Top' = Top
      /\ Gates!MaxLevel' = Gates!MaxLevel
      /\ Gates!Size(similarity)' = Gates!Size(similarity) /\ GraphValues'
  BY <1>1, LayerStays DEF GraphInv, GraphTypes
<1>3. /\ GraphValues /\ Top \in Gates!Nodes /\ Gates!MaxLevel \in Nat
      /\ \A f \in Gates!Nodes : f \in Nat /\ node_levels[f] \in 0 .. Gates!MaxLevel
  BY GraphFacts DEF GraphInv, GraphTypes
<1> DEFINE P == {f \in Gates!Nodes : f = Top \/ f < id}
           l0 == node_levels[id]
<1>4. ASSUME NEW k \in 0 .. Gates!MaxLevel, NEW f \in P, node_levels[f] >= k,
             NEW g \in Gates!Neighbors(f, k)
      PROVE  g \in P /\ node_levels[g] >= k
  <2>1. f \in Gates!Nodes /\ k \in Gates!AllLevels
    BY DEF Gates!AllLevels
  <2>2. g \in Listed(links[k][f])
    BY NeighborsListed
  <2>3. links[k][f] \in Seq(Gates!Nodes)
    BY <2>1 DEF GraphInv, GraphTypes
  <2>4. g \in Gates!Nodes
    BY <2>2, <2>3 DEF Listed
  <2>5. node_levels[g] >= k /\ (g = Top \/ Inserted(g, k))
    BY <2>1, <2>2 DEF GraphInv, ListsOK
  <2>6. Inserted(g, k) => g < id
    BY <1>1 DEF Inserted
  <2>7. QED
    BY <2>4, <2>5, <2>6
<1>5. Gates!Descent(similarity[id], l0) \in P /\ node_levels[Gates!Descent(similarity[id], l0)] >= l0
  <2>1. Scored(Gates!Nodes, similarity[id])
    BY <1>1, <1>3, SimilarScored
  <2>2. P \in SUBSET Gates!Nodes /\ Top \in P /\ l0 \in 0 .. Gates!MaxLevel
    BY <1>1, <1>3
  <2> HIDE DEF P, l0
  <2>3. QED
    BY <1>3, <1>4, <2>1, <2>2, DescentFacts
<1>6. GraphTypes'
  <2>1. /\ level' \in (-1) .. Gates!MaxLevel /\ level' <= node_levels[id]
        /\ ep' \in Gates!Nodes /\ node_levels[ep'] >= level' /\ (ep' = Top \/ ep' < id)
    BY <1>1, <1>3, <1>5
  <2>2. QED
    BY <1>1, <1>2, <2>1 DEF GraphInv, GraphTypes
<1>7. ASSUME NEW l \in Gates!AllLevels, NEW f \in Gates!Nodes
      PROVE  /\ Inserted(f, l) => Inserted(f, l)'
             /\ Inserted(f, l)' /\ l <= node_levels[f] /\ f # Top => Inserted(f, l)
  <2>1. l \in Nat /\ node_levels[f] \in Nat /\ f \in Nat
    BY <1>3 DEF Gates!AllLevels
  <2>2. Inserted(f, l) <=> f < id
    BY <1>1 DEF Inserted
  <2>3. Inserted(f, l)' <=> f < id \/ (f = id /\ 0 <= node_levels[id] /\ node_levels[id] < l)
    BY <1>1 DEF Inserted
  <2>4. QED
    BY <2>1, <2>2, <2>3
<1>8. QED
  BY <1>1, <1>6, <1>7, NothingConnected

LEMMA GraphInvAlways == ProgramsSpec => []GraphInv
<1>1. Gates!Init => GraphInv
  BY GraphStarts
<1>2. GraphInv /\ [Gates!Next]_(Gates!vars) => GraphInv'
  <2> SUFFICES ASSUME GraphInv, [Gates!Next]_(Gates!vars) PROVE GraphInv'
    OBVIOUS
  <2>1. CASE Gates!Skip
    BY <2>1, FirstSkipped
  <2>2. CASE Gates!StartFeature
    BY <2>2, StartKeeps
  <2>3. CASE Gates!Connect
    BY <2>3, ConnectTypes, ConnectLists, ConnectChosen, ConnectKept, ConnectEntry DEF GraphInv
  <2>4. CASE UNCHANGED Gates!vars
    <3>1. /\ UNCHANGED <<similarity, node_levels, links, selected>>
          /\ id' = id /\ level' = level /\ ep' = ep
      BY <2>4 DEF Gates!vars
    <3>2. /\ Gates!Nodes' = Gates!Nodes /\ Gates!AllLevels' = Gates!AllLevels /\ Top' = Top
          /\ Gates!MaxLevel' = Gates!MaxLevel
          /\ Gates!Size(similarity)' = Gates!Size(similarity) /\ GraphValues'
      BY <3>1, LayerStays DEF GraphInv, GraphTypes
    <3>3. GraphTypes'
      BY <3>1, <3>2 DEF GraphInv, GraphTypes
    <3>4. \A l, f : Inserted(f, l)' <=> Inserted(f, l)
      BY <3>1 DEF Inserted
    <3>5. QED
      BY <3>1, <3>3, <3>4, NothingConnected
  <2>5. QED
    BY <2>1, <2>2, <2>3, <2>4 DEF Gates!Next
<1>3. QED
  BY <1>1, <1>2, GatesRun, PTL DEF Gates!Spec

LEMMA GraphTypesOK == GraphInv => Gates!TypeOK
<1> SUFFICES ASSUME GraphInv PROVE Gates!TypeOK
  OBVIOUS
<1>1. /\ similarity \in Similarities
      /\ links \in [Gates!AllLevels -> [Gates!Nodes -> Seq(Gates!Nodes)]]
      /\ selected \in [Gates!AllLevels -> [Gates!Nodes -> SUBSET Gates!Nodes]]
      /\ id \in 0 .. Gates!Size(similarity) /\ level \in (-1) .. Gates!MaxLevel
      /\ ep \in Gates!Nodes
  BY DEF GraphInv, GraphTypes, GraphValues
<1>2. QED
  BY <1>1 DEF Gates!TypeOK

LEMMA LinksKeep == GraphInv => Gates!LinksKeepNearest
<1> SUFFICES ASSUME GraphInv, NEW l \in Gates!AllLevels, NEW f \in Gates!Nodes
             PROVE  /\ Len(links[l][f]) <= Gates!Cap(l)
                    /\ Gates!Cardinality(Gates!Neighbors(f, l)) = Len(links[l][f])
                    /\ \A g \in Gates!Neighbors(f, l) :
                         node_levels[g] >= l /\ (g = f => f = Gates!entry_point)
                    /\ \A g \in selected[l][f] \ {f} :
                         /\ Gates!LinkedIfNear(f, g, l)
                         /\ Gates!LinkedIfNear(g, f, l) \/ Gates!GivenUp(g, f, l)
  BY DEF Gates!LinksKeepNearest
<1>1. /\ NoneTwice(links[l][f]) /\ Len(links[l][f]) <= Gates!Cap(l)
      /\ \A g \in Listed(links[l][f]) : node_levels[g] >= l /\ (g = f => f = Top)
  BY DEF GraphInv, ListsOK
<1>2. links[l][f] \in Seq(Gates!Nodes)
  BY DEF GraphInv, GraphTypes
<1>3. Gates!Cardinality(Gates!Neighbors(f, l)) = Len(links[l][f])
  BY <1>1, <1>2, ListedFacts, NeighborsListed, GateOperators
<1>4. ASSUME NEW g \in selected[l][f] \ {f}
      PROVE  /\ Gates!LinkedIfNear(f, g, l)
             /\ Gates!LinkedIfNear(g, f, l) \/ Gates!GivenUp(g, f, l)
  <2>1. /\ Near(links[l][f], f, g, Gates!Cap(l))
        /\ Near(links[l][g], g, f, Gates!Cap(l)) \/ GivenUp(g, f, l)
    BY DEF GraphInv, KeptOK
  <2>2. \A a, b : Near(links[l][a], a, b, Gates!Cap(l)) <=> Gates!LinkedIfNear(a, b, l)
    BY NeighborsListed DEF Near, Gates!LinkedIfNear
  <2>3. GivenUp(g, f, l) => Gates!GivenUp(g, f, l)
    BY DEF GivenUp, Gates!GivenUp, Top
  <2>4. QED
    BY <2>1, <2>2, <2>3
<1>5. QED
  BY <1>1, <1>3, <1>4, NeighborsListed DEF Top

LEMMA WideFinds == GraphInv => Gates!WideSearchFinds
<1> SUFFICES ASSUME GraphInv, id = Gates!Size(similarity), NEW r \in Residuals
             PROVE  LET magnitude == [f \in Gates!Nodes |-> Gates!Magnitude(r.exact[f])]
                        from == Gates!Descent(r.near, 0)
                    IN  /\ Gates!Search(r, id) = Gates!Best(Gates!Reached(from, id), TopK, magnitude)
                        /\ id <= Gates!Cap(0) =>
                              Gates!Search(r, id) = Gates!Best(Gates!Nodes, TopK, magnitude)
  BY Zenon DEF Gates!WideSearchFinds
<1> DEFINE N == Gates!Nodes
           n == Gates!Size(similarity)
           from == Gates!Descent(r.near, 0)
           ef == IF id < TopK THEN TopK ELSE id
           magnitude == [f \in N |-> Gates!Magnitude(r.exact[f])]
           R == Gates!Reached(from, id)
<1>1. /\ GraphValues /\ n \in Nat \ {0} /\ N = 0 .. n - 1 /\ IsFiniteSet(N) /\ Top \in N
      /\ Gates!MaxLevel \in Nat /\ \A f \in N : f \in Nat /\ node_levels[f] \in 0 .. Gates!MaxLevel
  BY GraphFacts DEF GraphInv, GraphTypes
<1>2. 0 \in Gates!AllLevels
  BY <1>1 DEF Gates!AllLevels
<1>3. Met(0) = N
  BY <1>1 DEF Met, Inserted
<1>4. Closed(N, 0)
  BY <1>2, <1>3, MetFacts DEF GraphInv
<1>5. Scored(N, r.near)
  <2>1. similarity \in Similarities
    BY <1>1 DEF GraphValues
  <2>2. /\ \A f \in DOMAIN similarity : r.near[f] \in Int
        /\ DOMAIN similarity \subseteq DOMAIN r.near
        /\ \A a, b \in DOMAIN r.near : r.near[a] = r.near[b] => a = b
    BY <2>1, ProgramsAssumption DEF Gates!GraphAssumption
  <2>3. QED
    BY <1>1, <2>2 DEF Scored, Gates!Nodes
<1>6. from \in N
  <2>1. ASSUME NEW k \in 0 .. Gates!MaxLevel, NEW f \in N, node_levels[f] >= k,
               NEW g \in Gates!Neighbors(f, k)
        PROVE  g \in N /\ node_levels[g] >= k
    <3>1. k \in Gates!AllLevels
      BY DEF Gates!AllLevels
    <3>2. g \in Listed(links[k][f])
      BY NeighborsListed
    <3>3. links[k][f] \in Seq(N)
      BY <3>1 DEF GraphInv, GraphTypes
    <3>4. g \in N
      BY <3>2, <3>3 DEF Listed
    <3>5. QED
      BY <3>1, <3>2, <3>4 DEF GraphInv, ListsOK
  <2>2. 0 \in 0 .. Gates!MaxLevel
    BY <1>1
  <2>3. N \in SUBSET N
    OBVIOUS
  <2> HIDE DEF N
  <2>4. QED
    BY <1>1, <1>5, <2>1, <2>2, <2>3, DescentFacts DEF N
<1>7. ef \in Nat /\ ef >= n
  BY <1>1, ProgramsAssumption DEF Gates!GraphAssumption
<1>8. /\ Gates!SearchLevel(r.near, from, ef, 0) = R
      /\ R \in SUBSET N /\ from \in R /\ Closed(R, 0)
  <2> HIDE DEF from, ef, N
  <2>1. QED
    BY <1>1, <1>4, <1>5, <1>6, <1>7, WideFacts DEF N
<1>9. Gates!Search(r, id) = Gates!Best(Gates!SearchLevel(r.near, from, ef, 0), TopK, magnitude)
  BY Zenon DEF Gates!Search
<1>10. ASSUME id <= Gates!Cap(0) PROVE R = N
  <2> HIDE DEF R
  <2>1. \A f \in N : f < id => f \in R
    BY <1>3, <1>8, <1>10, AllMet
  <2>2. \A f \in N : f < id
    BY <1>1
  <2>3. QED
    BY <1>8, <2>1, <2>2
<1> HIDE DEF R, ef, from, magnitude, N
<1>11. /\ Gates!Search(r, id) = Gates!Best(R, TopK, magnitude)
       /\ id <= Gates!Cap(0) => Gates!Search(r, id) = Gates!Best(N, TopK, magnitude)
  BY <1>8, <1>9, <1>10
<1>12. QED
  BY <1>11 DEF R, from, magnitude, N

\* The graph that is built of the gate vectors of a layer loses a link only to nearer
\* ones, or when its entry point is inserted, and a search as wide as the layer finds the
\* best of all that links lead to: HnswLayer.
THEOREM GraphFindsNearestAlways == ProgramsSpec => []GraphFindsNearest
<1>1. GraphInv => GraphFindsNearest
  BY LinksKeep, WideFinds DEF GraphFindsNearest, Gates!GraphFindsNearest
<1>2. QED
  BY <1>1, GraphInvAlways, PTL
=============================================================================
