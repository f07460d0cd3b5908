----------------------------- MODULE VindexBuild -----------------------------
(***************************************************************************)
(* Builds of a vindex directory: build_vindex_streaming and its resume     *)
(* (src/crates/infer-vindex/src/extract/streaming.rs), build_vindex        *)
(* (extract/build.rs), and the checksums (format/checksums.rs) they leave  *)
(* in index.json.  A build writes its files one after the other into the   *)
(* directory that may hold those of an earlier build; an error or the      *)
(* death of the process may stop it anywhere.                              *)
(*                                                                         *)
(* A file is known by what determines its bytes.  Left out: the files no   *)
(* property asks about (relation clusters, manifests, the norms of a       *)
(* q4k build), and the markers of the stages but the last, which nothing   *)
(* reads except to report them.  "all" stands for every level with         *)
(* weights.  Removing gate_vectors.bin is assumed to succeed: the code     *)
(* ignores its error.  So is the last write of build_vindex to it: the     *)
(* buffered writer is dropped without a flush (build.rs:108-227), and an   *)
(* error there is not reported; every other file is flushed.               *)
(***************************************************************************)
EXTENDS Naturals

CONSTANTS
    Sources,    \* a model, a dtype and a top_k: what determines the bytes
    MoeSources, \* those of mixture-of-experts models
    Tried,      \* bound: the settings of the builds
    MaxBuilds   \* bound: builds that are started

\* Other combinations are refused before anything is written; build_vindex
\* writes no q4k vindex.
Settings ==
    {o \in [program : {"streaming", "memory"}, source : Sources,
            level : {"browse", "all"}, quant : {"none", "q4k"}, drop : BOOLEAN] :
        /\ o.drop => o.quant = "q4k"
        /\ o.program = "memory" => o.quant = "none"}

ASSUME BuildAssumption ==
    MoeSources \subseteq Sources /\ Tried \subseteq Settings /\ MaxBuilds \in Nat

NeedsWeights(o) == o.level = "all" \/ o.quant = "q4k"

Files == {"gate_vectors", "router_weights", "embeddings", "down_meta", "tokenizer",
          "weights", "weights_q4k", "interleaved_q4k"}

\* Those that compute_checksums knows: not the router, the tokenizer and all q4k.
Checked == {"gate_vectors", "embeddings", "down_meta", "weights"}

\* The files of a build.
Written(o) ==
    LET moe == o.source \in MoeSources IN
    {f \in Files :
        CASE f = "gate_vectors" -> ~o.drop
          [] f = "router_weights" -> moe /\ o.program = "streaming"
          [] f = "weights" -> o.level = "all" /\ o.quant = "none"
          [] f = "weights_q4k" -> o.quant = "q4k"
          [] f = "interleaved_q4k" -> o.quant = "q4k" \/ (o.level = "all" /\ ~moe)
          [] OTHER -> TRUE}

\* index.json is written up to three times: without weights, with them, and
\* with checksums.
IndexSteps == {"index", "update", "final"}

\* Mutant of Steps: there is no preliminary index.
StepsNoIndex(o) ==
    Written(o) \cup {"final"}
    \cup (IF NeedsWeights(o) THEN {"update"} ELSE {})
    \cup (IF o.drop THEN {"remove_gate"} ELSE {})
    \cup (IF o.program = "streaming" THEN {"mark"} ELSE {})

Steps(o) ==
    Written(o) \cup {"index", "final"}
    \cup (IF NeedsWeights(o) THEN {"update"} ELSE {})
    \cup (IF o.drop THEN {"remove_gate"} ELSE {})
    \cup (IF o.program = "streaming" THEN {"mark"} ELSE {})

AllSteps == Files \cup IndexSteps \cup {"remove_gate", "mark"}

\* Mutant of Place: the checksums are computed before the weights are written.
PlaceSumsEarly(o, s) ==
    CASE s \in {"gate_vectors", "remove_gate"} -> 1
      [] s = "router_weights" -> 2
      [] s = "embeddings" -> 3
      [] s = "down_meta" -> 4
      [] s = "tokenizer" -> 5
      [] s = "index" -> 6
      [] s = "final" -> 7
      [] s \in {"weights", "weights_q4k"} -> 8
      [] s = "update" -> IF o.quant = "none" THEN 9 ELSE 11
      [] s = "interleaved_q4k" -> 10
      [] s = "mark" -> 13

\* The order of the steps.  Without q4k the index is updated by the writer of the
\* weights, and interleaved_q4k follows; the q4k writer updates it at its end.
Place(o, s) ==
    CASE s \in {"gate_vectors", "remove_gate"} -> 1
      [] s = "router_weights" -> 2
      [] s = "embeddings" -> 3
      [] s = "down_meta" -> 4
      [] s = "tokenizer" -> 5
      [] s = "index" -> 6
      [] s \in {"weights", "weights_q4k"} -> 8
      [] s = "update" -> IF o.quant = "none" THEN 9 ELSE 11
      [] s = "interleaved_q4k" -> 10
      [] s = "final" -> 12
      [] s = "mark" -> 13

Absent == [kind |-> "absent"]
Torn == [kind |-> "torn"]
None == [kind |-> "none"]
Good(source) == [kind |-> "whole", source |-> source]

\* Two files cut short count as the same content: no checksum tells them apart.
Contents == {Absent, Torn} \cup {Good(s) : s \in Sources}
Sums == [Checked -> Contents]
Index == [kind : {"index"}, settings : Settings, weights : BOOLEAN, sums : Sums \cup {None}]

Idle == [kind |-> "idle"]
Calls == [kind : {"call"}, settings : Settings, rest : SUBSET AllSteps,
          open : BOOLEAN, config : Index \cup {None}]

NoOutcome == [kind |-> "none"]
Outcomes == [kind : {"ok", "skipped", "stopped"}, settings : Settings]

VARIABLES
    disk,     \* the files
    index,    \* index.json
    complete, \* the marker .checkpoint_complete exists
    call,     \* the build that runs: the steps that are left, whether the file of
              \* the first of them is open, the configuration it holds
    outcome,  \* how the last build ended
    begun,    \* history: a build was started and none has finished since
    builds    \* number of builds that were started

vars == <<disk, index, complete, call, outcome, begun, builds>>

TypeOK ==
    /\ disk \in [Files -> Contents]
    /\ index \in {Absent, Torn} \cup Index
    /\ complete \in BOOLEAN
    /\ call \in {Idle} \cup Calls
    /\ outcome \in {NoOutcome} \cup Outcomes
    /\ begun \in BOOLEAN
    /\ builds \in 0 .. MaxBuilds

Init ==
    /\ disk = [f \in Files |-> Absent]
    /\ index = Absent
    /\ complete = FALSE
    /\ call = Idle
    /\ outcome = NoOutcome
    /\ begun = FALSE
    /\ builds = 0

----------------------------------------------------------------------------

Starts(o, steps) ==
    /\ call = Idle
    /\ builds < MaxBuilds
    /\ call' = [kind |-> "call", settings |-> o, rest |-> steps, open |-> FALSE, config |-> None]
    /\ begun' = TRUE
    /\ builds' = builds + 1
    /\ UNCHANGED <<disk, index, complete, outcome>>

\* No marker of an earlier build is removed.
StartBuild(o) == Starts(o, Steps(o))

\* Mutant of Resume: what is on the disk is not written again.
ResumeMissing(o) ==
    /\ o.program = "streaming"
    /\ ~complete
    /\ Starts(o, {s \in Steps(o) : s \in Files => disk[s] = Absent})

\* build_vindex_resume: every stage runs again.
Resume(o) ==
    /\ o.program = "streaming"
    /\ ~complete
    /\ Starts(o, Steps(o))

ResumeComplete(o) ==
    /\ call = Idle
    /\ o.program = "streaming"
    /\ complete
    /\ outcome' = [kind |-> "skipped", settings |-> o]
    /\ UNCHANGED <<disk, index, complete, call, begun, builds>>

Due(s) ==
    /\ call # Idle
    /\ s \in call.rest
    /\ \A t \in call.rest : Place(call.settings, s) <= Place(call.settings, t)

Opened == call' = [call EXCEPT !.open = TRUE]
Past(s) == call' = [call EXCEPT !.open = FALSE, !.rest = @ \ {s}]

\* The file is created, or emptied.
CreateFile(f) ==
    /\ Due(f) /\ ~call.open
    /\ disk' = [disk EXCEPT ![f] = Torn]
    /\ Opened
    /\ UNCHANGED <<index, complete, outcome, begun, builds>>

WriteFile(f) ==
    /\ Due(f) /\ call.open
    /\ disk' = [disk EXCEPT ![f] = Good(call.settings.source)]
    /\ Past(f)
    /\ UNCHANGED <<index, complete, outcome, begun, builds>>

RemoveGate ==
    /\ Due("remove_gate")
    /\ disk' = [disk EXCEPT !["gate_vectors"] = Absent]
    /\ Past("remove_gate")
    /\ UNCHANGED <<index, complete, outcome, begun, builds>>

\* A failure to read one of the files leaves the index without checksums.
Configs(s) ==
    CASE s = "index" -> {[kind |-> "index", settings |-> call.settings,
                          weights |-> FALSE, sums |-> None]}
      [] s = "update" -> {[index EXCEPT !.weights = TRUE]}
      [] s = "final" -> {[index EXCEPT !.sums = sums] : sums \in {None, [f \in Checked |-> disk[f]]}}

\* The index is read, if it is there already, and emptied.
CreateIndex(s) ==
    /\ Due(s) /\ ~call.open
    /\ \E config \in Configs(s) : call' = [call EXCEPT !.open = TRUE, !.config = config]
    /\ index' = Torn
    /\ UNCHANGED <<disk, complete, outcome, begun, builds>>

WriteIndex(s) ==
    /\ Due(s) /\ call.open
    /\ index' = call.config
    /\ Past(s)
    /\ UNCHANGED <<disk, complete, outcome, begun, builds>>

Mark ==
    /\ Due("mark")
    /\ complete' = TRUE
    /\ Past("mark")
    /\ UNCHANGED <<disk, index, outcome, begun, builds>>

Finish ==
    /\ call # Idle /\ call.rest = {}
    /\ call' = Idle
    /\ outcome' = [kind |-> "ok", settings |-> call.settings]
    /\ begun' = FALSE
    /\ UNCHANGED <<disk, index, complete, builds>>

\* An error is returned, or the process dies.
Stop ==
    /\ call # Idle /\ call.rest # {}
    /\ call' = Idle
    /\ outcome' = [kind |-> "stopped", settings |-> call.settings]
    /\ UNCHANGED <<disk, index, complete, begun, builds>>

Next ==
    \/ \E o \in Tried : StartBuild(o) \/ Resume(o) \/ ResumeComplete(o)
    \/ \E f \in Files : CreateFile(f) \/ WriteFile(f)
    \/ \E s \in IndexSteps : CreateIndex(s) \/ WriteIndex(s)
    \/ RemoveGate \/ Mark \/ Finish \/ Stop

Spec == Init /\ [][Next]_vars

----------------------------------------------------------------------------
(* Properties *)

\* The directory is the one that a build with settings o makes of an empty one,
\* but for files that such a build does not write.
Intact(o) ==
    /\ \A f \in Written(o) : disk[f] = Good(o.source)
    /\ o.drop => disk["gate_vectors"] = Absent
    /\ index.kind = "index" /\ index.settings = o
    /\ index.weights = NeedsWeights(o)
    /\ index.sums \in {None, [f \in Checked |-> disk[f]]}

\* Whatever earlier builds, of other models or settings, left behind and wherever
\* they were stopped: after a build that says it has succeeded the directory is
\* intact; and so it is when a resume finds the marker of a complete build,
\* provided no build has been stopped since the last one that finished.
ReportedIsWhole ==
    /\ outcome.kind = "ok" /\ call = Idle => Intact(outcome.settings)
    /\ complete /\ ~begun => \E o \in Settings : Intact(o)

\* verify_checksums finds nothing wrong.
Verified ==
    /\ index.kind = "index" /\ index.sums # None
    /\ \A f \in Checked : index.sums[f] # Absent => disk[f] = index.sums[f]

\* Also between two stops, and in the middle of a build: where the checksums of
\* the index hold, the files they cover are whole and from the source the index
\* names.  Nothing is said of the files they do not cover.
VerifyTells ==
    Verified => \A f \in Written(index.settings) \cap Checked :
                    disk[f] = Good(index.settings.source)
=============================================================================
