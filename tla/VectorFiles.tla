----------------------------- MODULE VectorFiles -----------------------------
(***************************************************************************)
(* The extraction of vectors, layer by layer, into one NDJSON file of a    *)
(* component: VectorExtractor::extract_all, VectorWriter and               *)
(* scan_completed_layers                                                   *)
(* (src/crates/infer-inference/src/walker/vector_extractor.rs).  The file  *)
(* is written through a buffer that is flushed at the end of a layer; a    *)
(* run that is resumed skips the layers of which the file shows a line.    *)
(*                                                                         *)
(* The other components have files of their own, and that of the           *)
(* embeddings, which is skipped once it exists, is left out.  The buffer   *)
(* writes out what does not fit when it likes, and nobody reads the file   *)
(* meanwhile: how much of it was written is chosen when the process dies.  *)
(***************************************************************************)
EXTENDS Integers, Sequences, FiniteSets, Lists

CONSTANTS
    Order,    \* the layers, in the order of the configuration
    CutNames,   \* pairs of layers: the number of the first begins that of the second
    Features, \* the number of features of a layer
    MaxRuns   \* bound: runs of the extraction

Layers == {Order[i] : i \in 1 .. Len(Order)}
NoLayer == "none"

VectorAssumption ==
    /\ Order \in Seq(Layers) /\ NoLayer \notin Layers
    /\ \A i, j \in 1 .. Len(Order) : Order[i] = Order[j] => i = j
    /\ CutNames \subseteq Layers \X Layers
    /\ Features \in Nat \ {0} /\ MaxRuns \in Nat

Header == [kind |-> "header", layer |-> NoLayer, feature |-> 0]
Record(l, n) == [kind |-> "record", layer |-> l, feature |-> n]
\* Two lines in one: the layer that the scan finds in it.
Junk(l) == [kind |-> "junk", layer |-> l, feature |-> 0]

Lines ==
    {Header} \cup {Record(l, n) : l \in Layers, n \in 1 .. Features}
    \cup {Junk(l) : l \in Layers \cup {NoLayer}}

\* What a line that was cut shows: the label of the layer, the layer that its number
\* names (none if no digit is left, or those that are left name no layer of the
\* run), and whether it ends with a whole character.
NoTail == [layer |-> NoLayer, labelled |-> FALSE, utf8 |-> TRUE, cut |-> FALSE]
Tails == [layer : Layers \cup {NoLayer}, labelled : BOOLEAN, utf8 : BOOLEAN, cut : {TRUE}]
Cut(l, labelled, u) == [layer |-> l, labelled |-> labelled, utf8 |-> u, cut |-> TRUE]

VARIABLES
    exists, \* the file exists
    file,   \* its lines
    tail,   \* what follows the last of them
    buffer, \* the lines in the BufWriter
    pending, \* the layers of this run that are left
    run,    \* "idle", "running", or how the last run ended
    hurt,   \* history: layers that lost a record by the death of a process
    mistaken, \* history: layers that the file did not show, until a number was cut
    runs    \* number of runs

vars == <<exists, file, tail, buffer, pending, run, hurt, mistaken, runs>>

TypeOK ==
    /\ exists \in BOOLEAN
    /\ file \in Seq(Lines)
    /\ tail \in Tails \cup {NoTail}
    /\ buffer \in Seq(Lines)
    /\ pending \in Seq(Layers)
    /\ run \in {"idle", "running", "ok", "failed", "died"}
    /\ hurt \subseteq Layers /\ mistaken \subseteq Layers
    /\ runs \in 0 .. MaxRuns

Init ==
    /\ exists = FALSE
    /\ file = <<>> /\ tail = NoTail /\ buffer = <<>>
    /\ pending = <<>>
    /\ run = "idle"
    /\ hurt = {} /\ mistaken = {}
    /\ runs = 0

----------------------------------------------------------------------------

\* A line behind a line that was cut: the scan reads what follows the first label.
Joined(t, line) == Junk(IF t.labelled THEN t.layer ELSE line.layer)

\* The file with more lines.
Extended(lines) ==
    IF lines = <<>> \/ ~tail.cut THEN file \o lines
    ELSE file \o <<Joined(tail, Head(lines))>> \o Tail(lines)

\* The record that is lost in the joined line.
Spoiled(lines) ==
    IF lines = <<>> \/ ~tail.cut THEN {} ELSE {Head(lines).layer} \ {NoLayer}

\* scan_completed_layers: a layer counts as completed once one line shows it.
Completed == ({file[i].layer : i \in 1 .. Len(file)} \cup {tail.layer}) \ {NoLayer}

\* Mutant of Remaining: a resumed run extracts every layer.
RemainingAll == Order

Remaining == Retained(Order, Completed)

Begin ==
    /\ run # "running"
    /\ runs < MaxRuns
    /\ runs' = runs + 1

\* extract_all fails: a character that was cut is no UTF-8.
ScanFails ==
    /\ Begin
    /\ ~tail.utf8
    /\ run' = "failed"
    /\ UNCHANGED <<exists, file, tail, buffer, pending, hurt, mistaken>>

\* extract_all with resume on a file that exists: it is appended to, whether or
\* not it has a header.
Continue ==
    /\ Begin
    /\ exists /\ tail.utf8
    /\ pending' = Remaining
    /\ run' = IF pending' = <<>> THEN "ok" ELSE "running"
    /\ UNCHANGED <<exists, file, tail, buffer, hurt, mistaken>>

\* extract_all without resume, or on no file.
Create(resume) ==
    /\ Begin
    /\ resume => ~exists
    /\ pending' = Order
    /\ IF Order = <<>> THEN /\ run' = "ok"
                            /\ UNCHANGED <<exists, file, tail, buffer, hurt, mistaken>>
                       ELSE /\ run' = "running"
                            /\ exists' = TRUE
                            /\ file' = <<>> /\ tail' = NoTail /\ buffer' = <<Header>>
                            /\ hurt' = {} /\ mistaken' = {}

\* The number of records of the layer that are in the buffer.
Count(lines) == Cardinality({i \in 1 .. Len(lines) : lines[i].kind = "record"})

WriteRecord ==
    /\ run = "running" /\ pending # <<>>
    /\ Count(buffer) < Features
    /\ buffer' = Append(buffer, Record(Head(pending), Count(buffer) + 1))
    /\ UNCHANGED <<exists, file, tail, pending, run, hurt, mistaken, runs>>

FlushLayer ==
    /\ run = "running" /\ pending # <<>>
    /\ Count(buffer) = Features
    /\ file' = Extended(buffer)
    /\ tail' = NoTail
    /\ buffer' = <<>>
    /\ hurt' = hurt \cup Spoiled(buffer)
    /\ pending' = Tail(pending)
    /\ UNCHANGED <<exists, run, mistaken, runs>>

Complete ==
    /\ run = "running" /\ pending = <<>>
    /\ run' = "ok"
    /\ UNCHANGED <<exists, file, tail, buffer, pending, hurt, mistaken, runs>>

\* A tensor of the layer is missing: the error is returned before its first
\* record, and the buffer is written out as it is dropped.
LayerFails ==
    /\ run = "running" /\ pending # <<>>
    /\ Count(buffer) = 0
    /\ run' = "failed"
    /\ file' = Extended(buffer)
    /\ tail' = IF buffer = <<>> THEN tail ELSE NoTail
    /\ hurt' = hurt \cup Spoiled(buffer)
    /\ buffer' = <<>> /\ pending' = <<>>
    /\ UNCHANGED <<exists, mistaken, runs>>

\* What may be left of the line behind the first n of the buffer: nothing, the
\* part before the label, the label with a part of the number, or more.
Cuts(n) ==
    {NoTail} \cup
    (IF n = Len(buffer) THEN {}
     ELSE LET l == buffer[n + 1].layer
          IN  {Cut(NoLayer, FALSE, TRUE)} \cup
              (IF l = NoLayer THEN {Cut(NoLayer, FALSE, FALSE)}
               ELSE {Cut(a, TRUE, TRUE) : a \in {NoLayer} \cup {b \in Layers : <<b, l>> \in CutNames}}
                    \cup {Cut(l, TRUE, u) : u \in BOOLEAN}))

\* What was cut behind what was cut before.
Recut(t) ==
    IF ~tail.cut THEN t
    ELSE IF ~t.cut THEN tail
    ELSE [t EXCEPT !.layer = IF tail.labelled THEN tail.layer ELSE @,
                   !.labelled = @ \/ tail.labelled]

\* The process dies, or a write fails and ends the run, after the buffer has written
\* out n lines, and perhaps a part of the next: the layer has lost a record if the
\* file shows the layer already.
Die ==
    /\ run = "running"
    /\ run' = "died"
    /\ \E n \in 0 .. Len(buffer) : \E t \in Cuts(n) :
         LET lines == SubSeq(buffer, 1, n)
             whole == n = Len(buffer) /\ Count(buffer) = Features
             more == Extended(lines)
             left == IF n = 0 THEN Recut(t) ELSE t
             shown == {more[i].layer : i \in Len(file) + 1 .. Len(more)} \cup {left.layer}
         IN  /\ file' = more
             /\ tail' = left
             /\ hurt' = hurt \cup Spoiled(lines)
                        \cup {l \in shown \ {NoLayer} : ~whole /\ l = Head(pending)}
             /\ mistaken' = mistaken \cup
                    {l \in {left.layer} \ ({NoLayer} \cup Completed) : l # Head(pending)}
    /\ buffer' = <<>> /\ pending' = <<>>
    /\ UNCHANGED <<exists, runs>>

Next ==
    \/ ScanFails \/ Continue
    \/ \E resume \in BOOLEAN : Create(resume)
    \/ WriteRecord \/ FlushLayer \/ Complete \/ LayerFails \/ Die

Spec == Init /\ [][Next]_vars

----------------------------------------------------------------------------
(* Properties *)

Found(l) == \A n \in 1 .. Features : \E i \in 1 .. Len(file) : file[i] = Record(l, n)

\* A run that says it has succeeded leaves a file with every record of every
\* layer, but for the layers that were being written when a process died and had
\* got a line into the file, the layer that was extracted first behind a line that
\* was cut, and the layers that a cut number names: with the layers 12 and 1, a
\* death behind the first digit of 12 makes the next run take the layer 1, which
\* nobody has extracted, for completed.  Only a layer of which the number begins
\* another's goes that way, and a layer that fails for a missing tensor costs
\* nothing.  No record is there twice.
LayersSurvive ==
    /\ run = "ok" => \A l \in Layers \ (hurt \cup mistaken) : Found(l)
    /\ \A l \in Completed \ (hurt \cup mistaken) : Found(l)
    /\ \A l \in mistaken : \E m \in Layers : <<l, m>> \in CutNames
    /\ \A i, j \in 1 .. Len(file) : file[i].kind = "record" /\ file[i] = file[j] => i = j
=============================================================================
