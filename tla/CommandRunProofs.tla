-------------------------- MODULE CommandRunProofs --------------------------
(***************************************************************************)
(* What holds of every run of a command, whatever the commands, the        *)
(* streams and the room in the output: what is written, what is reported   *)
(* and the exit code, all as functions of the command and the streams that *)
(* it has read (Source, Result, Verdict and Ready, below).                 *)
(***************************************************************************)
EXTENDS StreamProofs

-----------------------------------------------------------------------------
(* Inputs.                                                                 *)

FilesThere(c) == \A i \in DOMAIN c.files : c.files[i] \in DOMAIN Files

\* All that may be opened, and all that may come out of it.
ReaderSet ==
    {Stdin} \cup {Reader(Files[path]) : path \in DOMAIN Files}
    \cup {resolveInput(c.files) : c \in {k \in Commands : FilesThere(k)}}

StreamSet == {s.docs : s \in Stdins} \cup {r.content.docs : r \in ReaderSet}

\* How many inputs a command reads.
Wanted == IF cmd.op = "diff" THEN 2 ELSE 1

\* The inputs are opened before they are read, and read before anything is done.
InputInv ==
    /\ cmd \in Commands
    /\ stdin \in Stdins \cup {Empty}
    /\ readers \in Seq(ReaderSet) /\ streams \in Seq(StreamSet)
    /\ pc \in {"parse", "options", "open", "read", "run", "write", "close",
               "exit", "done"}
    /\ pc \in {"parse", "open"} => readers = << >> /\ streams = << >>
    /\ pc = "options" =>
         /\ streams = << >> /\ cmd.op \notin {"diff", "subst"}
         /\ Len(readers) = IF cmd.op \in {"count", "sum"} THEN 1 ELSE 0
    /\ pc = "read" => Len(streams) + Len(readers) = Wanted
    /\ pc \in {"run", "write", "close"} => readers = << >> /\ Len(streams) = Wanted
    /\ pc = "write" => cmd.op \notin Analyses
    /\ pc = "close" => ~cmd.json
    /\ Len(streams) + Len(readers) <= 2

\* A sequence of sequences of documents, put together, is one.
LEMMA FlattenDocuments ==
    ASSUME NEW c \in Commands, FilesThere(c), c.files # << >>
    PROVE  Documents(resolveInput(c.files).content.docs)
<1> DEFINE n == Len(c.files)
           D == UNION {ToSet(Files[path].docs) : path \in DOMAIN Files}
           seqs == [i \in DOMAIN c.files |-> Files[c.files[i]].docs]
<1>1. /\ DOMAIN c.files = 1..n /\ n \in Nat \ {0}
  <2>1. c.files \in Seq(ToSet(c.files))
    BY CommandsAssumption
  <2> QED
    BY <2>1
<1>2. \A path \in DOMAIN Files : /\ Files[path].docs \in Seq(D)
                                 /\ \A d \in ToSet(Files[path].docs) : IsInput(d)
  <2> SUFFICES ASSUME NEW path \in DOMAIN Files
               PROVE  /\ Files[path].docs \in Seq(D)
                      /\ \A d \in ToSet(Files[path].docs) : IsInput(d)
    OBVIOUS
  <2>1. /\ Files[path].docs \in Seq(ToSet(Files[path].docs))
        /\ \A d \in ToSet(Files[path].docs) : IsInput(d)
    BY InputsAssumption
  <2>2. ToSet(Files[path].docs) \subseteq D
    OBVIOUS
  <2> HIDE DEF D
  <2> QED
    BY <2>1, <2>2
<1>3. \A d \in D : IsInput(d)
  BY <1>2
<1>4. seqs \in [1..n -> Seq(D)]
  <2> HIDE DEF n, D
  <2>1. \A i \in DOMAIN c.files : Files[c.files[i]].docs \in Seq(D)
    BY <1>2 DEF FilesThere
  <2> QED
    BY <1>1, <2>1
<1> HIDE DEF n, D, seqs
<1>5. PICK G \in [1..n -> Seq(D)] : Flattens(G, n, seqs)
  BY <1>1, <1>4, FlattenIs
<1>6. FlattenSeq(seqs) \in Seq(D)
  BY <1>1, <1>5 DEF Flattens
<1>7. resolveInput(c.files).content.docs = FlattenSeq(seqs)
  BY DEF resolveInput, Reader, seqs
<1>8. \A s \in Seq(D) : s \in Seq(ToSet(s)) /\ ToSet(s) \subseteq D
  BY DEF ToSet
<1> QED
  BY <1>3, <1>6, <1>7, <1>8 DEF Documents

\* Whatever is read is a sequence of documents.
LEMMA StreamsAreDocuments ==
    \A s \in StreamSet : Documents(s)
<1>1. Documents(Empty.docs)
  BY DEF Empty, Documents, ToSet
<1>2. ASSUME NEW content \in Stdins \cup {Files[path] : path \in DOMAIN Files}
      PROVE  Documents(content.docs)
  BY InputsAssumption DEF Documents
<1>3. ASSUME NEW r \in ReaderSet
      PROVE  Documents(r.content.docs)
  <2>1. CASE r = Stdin
    BY <1>1, <2>1 DEF Stdin
  <2>2. ASSUME NEW path \in DOMAIN Files, r = Reader(Files[path])
        PROVE  Documents(r.content.docs)
    BY <1>2, <2>2 DEF Reader
  <2>3. ASSUME NEW c \in Commands, FilesThere(c), r = resolveInput(c.files)
        PROVE  Documents(r.content.docs)
    <3>1. CASE c.files = << >>
      <4>1. r = Stdin
        BY <2>3, <3>1 DEF resolveInput
      <4> QED
        BY <1>1, <4>1 DEF Stdin
    <3>2. CASE c.files # << >>
      BY <2>3, <3>2, FlattenDocuments
    <3> QED
      BY <3>1, <3>2
  <2> QED
    BY <2>1, <2>2, <2>3 DEF ReaderSet
<1> QED
  BY <1>2, <1>3 DEF StreamSet

\* The run starts with nothing open.
LEMMA InputInit == Init => InputInv
  BY DEF Init, InputInv, Wanted

\* Every step keeps track of the inputs.
LEMMA InputStep == InputInv /\ [Next]_commandVars => InputInv'
<1> SUFFICES ASSUME InputInv, [Next]_commandVars
             PROVE  InputInv'
  OBVIOUS
<1> USE DEF InputInv, Wanted, Fail, inputVars, outputVars, Analyses
<1>1. CASE ParseFails
  BY <1>1 DEF ParseFails
<1>2. CASE Parsed
  BY <1>2 DEF Parsed
<1>3. CASE CheckOptions
  BY <1>3 DEF CheckOptions
<1>4. CASE OpenInput
  <2>1. CASE \E i \in DOMAIN cmd.files : cmd.files[i] \notin DOMAIN Files
    BY <1>4, <2>1 DEF OpenInput
  <2>2. CASE ~\E i \in DOMAIN cmd.files : cmd.files[i] \notin DOMAIN Files
    <3> DEFINE r == resolveInput(cmd.files)
    <3>1. r \in ReaderSet
      BY <2>2 DEF FilesThere, ReaderSet
    <3>2. readers' = <<r>> /\ pc' = IF cmd.op \in {"count", "sum"} THEN "options" ELSE "read"
      BY <1>4, <2>2 DEF OpenInput
    <3> HIDE DEF r
    <3>3. readers' \in Seq(ReaderSet) /\ Len(readers') = 1
      BY <3>1, <3>2
    <3> QED
      BY <1>4, <3>2, <3>3 DEF OpenInput
  <2> QED
    BY <2>1, <2>2
<1>5. CASE OpenDiffInputs
  <2>1. CASE OpenDiffFails
    BY <1>5, <2>1 DEF OpenDiffInputs
  <2>2. CASE ~OpenDiffFails
    <3> DEFINE r == resolveInput(cmd.files)
               rs == resolveInputs(r)
    <3>1. r \in ReaderSet
      BY <2>2 DEF OpenDiffFails, CannotOpen, FilesThere, ReaderSet
    <3>3. readers' = rs /\ pc' = "read" /\ cmd.op = "diff"
      BY <1>5, <2>2 DEF OpenDiffInputs
    <3> HIDE DEF r
    <3>2. rs \in Seq(ReaderSet) /\ Len(rs) = 2
      <4>1. CASE cmd.base # ""
        <5>1. Reader(Files[cmd.base]) \in ReaderSet
          BY <2>2, <4>1 DEF OpenDiffFails, CannotOpen, ReaderSet
        <5>2. rs = <<Reader(Files[cmd.base]), r>>
          BY <4>1 DEF resolveInputs
        <5> QED
          BY <3>1, <5>1, <5>2
      <4>2. CASE cmd.base = "" /\ Len(cmd.paths) = 1
        <5>1. Reader(Files[cmd.paths[1]]) \in ReaderSet
          BY <2>2, <4>2 DEF OpenDiffFails, CannotOpen, ReaderSet
        <5>2. rs = <<Reader(Files[cmd.paths[1]]), r>>
          BY <4>2 DEF resolveInputs
        <5> QED
          BY <3>1, <5>1, <5>2
      <4>3. CASE cmd.base = "" /\ Len(cmd.paths) = 2
        <5>1. \A i \in 1..2 : openFileOrStdin(cmd.paths[i]) \in ReaderSet
          BY <2>2, <4>3 DEF OpenDiffFails, CannotOpen, openFileOrStdin, ReaderSet
        <5>2. cmd.base = "" /\ Len(cmd.paths) # 1
          <6>1. 2 # 1
            OBVIOUS
          <6> QED
            BY <4>3, <6>1, Zenon
        <5>3. rs = <<openFileOrStdin(cmd.paths[1]), openFileOrStdin(cmd.paths[2])>>
          BY <5>2 DEF resolveInputs
        <5> QED
          BY <5>1, <5>3
      <4>4. cmd.base # "" \/ Len(cmd.paths) \in 1..2
        BY <2>2 DEF OpenDiffFails
      <4>5. \A n \in 1..2 : n = 1 \/ n = 2
        OBVIOUS
      <4> HIDE DEF rs
      <4> QED
        BY <4>1, <4>2, <4>3, <4>4, <4>5
    <3> HIDE DEF rs
    <3> QED
      BY <1>5, <3>2, <3>3 DEF OpenDiffInputs
  <2> QED
    BY <2>1, <2>2
<1>6. CASE ReadNodes
  <2> DEFINE reader == Head(readers)
             content == IF reader.stdin THEN stdin ELSE reader.content
  <2>1. pc = "read" /\ readers # << >> /\ reader \in ReaderSet
    BY <1>6 DEF ReadNodes
  <2>2. /\ readers' \in Seq(ReaderSet) /\ Len(readers') = Len(readers) - 1
    BY <1>6, <2>1 DEF ReadNodes
  <2>3. stdin' \in Stdins \cup {Empty} /\ cmd' = cmd
    BY <1>6 DEF ReadNodes
  <2>4. content.docs \in StreamSet
    <3>1. Stdin \in ReaderSet /\ Stdin.content = Empty
      BY DEF ReaderSet, Stdin
    <3> QED
      BY <2>1, <3>1 DEF StreamSet
  <2> HIDE DEF content
  <2>5. CASE pc' = "exit" /\ streams' = streams
    BY <2>1, <2>2, <2>3, <2>5
  <2>6. CASE pc' = pc /\ streams' = Append(streams, content.docs)
    <3>1. streams' \in Seq(StreamSet) /\ Len(streams') = Len(streams) + 1
      BY <2>4, <2>6
    <3> QED
      BY <2>1, <2>2, <2>3, <2>6, <3>1
  <2> QED
    BY <1>6, <2>5, <2>6 DEF ReadNodes, content
<1>7. CASE InputsRead
  BY <1>7 DEF InputsRead
<1>8. CASE RunFilter
  BY <1>8 DEF RunFilter
<1>9. CASE WriteJSONList
  BY <1>9 DEF WriteJSONList, Write
<1>10. CASE WriteDocument
  BY <1>10 DEF WriteDocument, Write
<1>11. CASE DocumentsWritten
  BY <1>11 DEF DocumentsWritten
<1>12. CASE CloseColorWriter
  BY <1>12 DEF CloseColorWriter
<1>13. CASE Count
  BY <1>13 DEF Count, Write
<1>14. CASE Sum
  BY <1>14 DEF Sum, Write
<1>15. CASE Diff
  BY <1>15 DEF Diff, Write
<1>16. CASE Exit
  BY <1>16 DEF Exit
<1>17. CASE UNCHANGED commandVars
  BY <1>17 DEF commandVars
<1> QED
  BY <1>1, <1>2, <1>3, <1>4, <1>5, <1>6, <1>7, <1>8, <1>9, <1>10, <1>11, <1>12,
     <1>13, <1>14, <1>15, <1>16, <1>17 DEF Next

-----------------------------------------------------------------------------
(* What the analyses do.                                                   *)

TheSum == SumJSON(nodes, [match |-> cmd.match, require |-> cmd.require, max |-> cmd.max])

SumItem(sum) == [type |-> "sum", totals |-> sum.totals, passed |-> sum.passed]

\* What one attempt to write item does, when failing ends in the error e.
Wrote(item, e, otherwise) ==
    \/ /\ room > 0 /\ stdout' = Append(stdout, item) /\ room' = room - 1
       /\ lost' = lost /\ err' = e
    \/ /\ ~(room > 0) /\ stdout' = stdout /\ room' = room
       /\ lost' = TRUE /\ err' = otherwise

\* A sum that cannot be had is an error; any other one is reported.
LEMMA SumEffect ==
    Sum => /\ pc = "run" /\ cmd.op = "sum" /\ pc' = "exit"
           /\ UNCHANGED <<cmd, stdin, readers, streams, nodes, buffer, stderr, exit>>
           /\ \/ /\ TheSum.invalid /\ err' = "invalid"
                 /\ UNCHANGED <<report, stdout, room, lost>>
              \/ /\ ~TheSum.invalid /\ report' = <<SumItem(TheSum)>>
                 /\ LET failed == IF cmd.json THEN "reported" ELSE "assertion"
                        verdict == IF TheSum.passed THEN err ELSE failed
                    IN  Wrote(SumItem(TheSum), verdict,
                              IF cmd.json THEN "write" ELSE verdict)
<1> SUFFICES ASSUME Sum
             PROVE  /\ pc = "run" /\ cmd.op = "sum" /\ pc' = "exit"
                    /\ UNCHANGED <<cmd, stdin, readers, streams, nodes, buffer, stderr, exit>>
                    /\ \/ /\ TheSum.invalid /\ err' = "invalid"
                          /\ UNCHANGED <<report, stdout, room, lost>>
                       \/ /\ ~TheSum.invalid /\ report' = <<SumItem(TheSum)>>
                          /\ LET failed == IF cmd.json THEN "reported" ELSE "assertion"
                                 verdict == IF TheSum.passed THEN err ELSE failed
                             IN  Wrote(SumItem(TheSum), verdict,
                                       IF cmd.json THEN "write" ELSE verdict)
  OBVIOUS
<1> DEFINE sum == TheSum
           item == SumItem(sum)
<1>1. /\ pc = "run" /\ cmd.op = "sum"
      /\ IF sum.invalid THEN Fail("invalid") /\ UNCHANGED <<report, stdout, room, lost>>
         ELSE /\ report' = <<item>>
              /\ IF cmd.json
                 THEN Write(item, pc' = "exit" /\ err' = IF sum.passed THEN err ELSE "reported")
                 ELSE Put(item) /\ pc' = "exit" /\ err' = IF sum.passed THEN err ELSE "assertion"
      /\ UNCHANGED <<cmd, inputVars, nodes, buffer, stderr, exit>>
  BY DEF Sum, TheSum, SumItem
<1> HIDE DEF sum, item
<1>2. UNCHANGED <<cmd, stdin, readers, streams, nodes, buffer, stderr, exit>>
  BY <1>1 DEF inputVars
<1>3. CASE sum.invalid
  BY <1>1, <1>2, <1>3 DEF Fail, sum
<1>4. CASE ~sum.invalid /\ cmd.json
  BY <1>1, <1>2, <1>4 DEF Fail, Write, Put, Wrote, sum, item
<1>5. CASE ~sum.invalid /\ ~cmd.json
  BY <1>1, <1>2, <1>5 DEF Put, Wrote, sum, item
<1> QED
  BY <1>3, <1>4, <1>5

DiffItem(d) == [type |-> "diff", diff |-> d]

\* A diff that cannot be had is an error; any other one is reported if there is
\* something to report.
LEMMA DiffEffect ==
    Diff => /\ pc = "run" /\ cmd.op = "diff" /\ pc' = "exit"
            /\ UNCHANGED <<cmd, stdin, readers, streams, nodes, buffer, stderr, exit>>
            /\ \/ /\ DiffFails(streams[1], streams[2]) /\ err' = "invalid"
                  /\ UNCHANGED <<report, stdout, room, lost>>
               \/ /\ ~DiffFails(streams[1], streams[2])
                  /\ \E d \in DiffNodes(streams[1], streams[2]) :
                       LET verdict == IF HasChanges(d) THEN "differences" ELSE err
                       IN  /\ report' = <<DiffItem(d)>>
                           /\ \/ Wrote(DiffItem(d), verdict, "write")
                              \/ /\ ~cmd.json /\ ~HasChanges(d) /\ err' = verdict
                                 /\ UNCHANGED <<stdout, room, lost>>
<1> DEFINE Effect(d) ==
             LET verdict == IF HasChanges(d) THEN "differences" ELSE err
             IN  /\ report' = <<DiffItem(d)>>
                 /\ \/ Wrote(DiffItem(d), verdict, "write")
                    \/ /\ ~cmd.json /\ ~HasChanges(d) /\ err' = verdict
                       /\ UNCHANGED <<stdout, room, lost>>
<1> SUFFICES ASSUME Diff
             PROVE  /\ pc = "run" /\ cmd.op = "diff" /\ pc' = "exit"
                    /\ UNCHANGED <<cmd, stdin, readers, streams, nodes, buffer, stderr, exit>>
                    /\ \/ /\ DiffFails(streams[1], streams[2]) /\ err' = "invalid"
                          /\ UNCHANGED <<report, stdout, room, lost>>
                       \/ /\ ~DiffFails(streams[1], streams[2])
                          /\ \E d \in DiffNodes(streams[1], streams[2]) : Effect(d)
  OBVIOUS
<1>1. /\ pc = "run" /\ cmd.op = "diff"
      /\ UNCHANGED <<cmd, stdin, readers, streams, nodes, buffer, stderr, exit>>
  BY DEF Diff, inputVars
<1>2. CASE DiffFails(streams[1], streams[2])
  BY <1>1, <1>2 DEF Diff, Fail
<1>3. CASE ~DiffFails(streams[1], streams[2])
  <2>1. PICK d \in DiffNodes(streams[1], streams[2]) :
          LET outcome == /\ pc' = "exit"
                         /\ err' = IF HasChanges(d) THEN "differences" ELSE err
          IN  /\ report' = <<DiffItem(d)>>
              /\ IF cmd.json \/ HasChanges(d) THEN Write(report'[1], outcome)
                 ELSE outcome /\ UNCHANGED <<stdout, room, lost>>
    BY <1>3 DEF Diff, DiffItem
  <2>2. report' = <<DiffItem(d)>> /\ report'[1] = DiffItem(d)
    BY <2>1
  <2>3. Effect(d) /\ pc' = "exit"
    <3>1. CASE cmd.json \/ HasChanges(d)
      <4>1. Write(DiffItem(d), pc' = "exit" /\ err' = IF HasChanges(d) THEN "differences" ELSE err)
        BY <2>1, <2>2, <3>1
      <4> QED
        BY <2>2, <4>1 DEF Write, Put, Fail, Wrote
    <3>2. CASE ~(cmd.json \/ HasChanges(d))
      BY <2>1, <2>2, <3>2
    <3> QED
      BY <3>1, <3>2
  <2> HIDE DEF Effect
  <2> QED
    BY <1>1, <1>3, <2>3
<1> QED
  BY <1>2, <1>3

-----------------------------------------------------------------------------
(* Errors and the exit code.                                               *)

OutcomeInv ==
    /\ err \in {"none", "usage", "options", "open", "read", "filter", "invalid",
                "write", "assertion", "reported", "differences"}
    /\ room \in Nat /\ Len(report) <= 1
    /\ pc \notin {"exit", "done"} => err = "none"
    /\ err = "usage" => ~cmd.usage
    /\ exit = IF pc = "done" THEN ExitCode ELSE -1

\* No error yet, and an output with some room.
LEMMA OutcomeInit == Init => OutcomeInv
  BY RoomsAssumption DEF Init, OutcomeInv

\* The error is set once, on the way to the exit code.
LEMMA OutcomeStep == OutcomeInv /\ [Next]_commandVars => OutcomeInv'
<1> SUFFICES ASSUME OutcomeInv, [Next]_commandVars
             PROVE  OutcomeInv'
  OBVIOUS
<1> USE DEF OutcomeInv, Fail, Put, Write, ExitCode, inputVars, outputVars
<1>1. CASE ParseFails
  BY <1>1 DEF ParseFails
<1>2. CASE Parsed
  BY <1>2 DEF Parsed
<1>3. CASE CheckOptions
  BY <1>3 DEF CheckOptions
<1>4. CASE OpenInput
  BY <1>4 DEF OpenInput
<1>5. CASE OpenDiffInputs
  BY <1>5 DEF OpenDiffInputs
<1>6. CASE ReadNodes
  BY <1>6 DEF ReadNodes
<1>7. CASE InputsRead
  BY <1>7 DEF InputsRead
<1>8. CASE RunFilter
  BY <1>8 DEF RunFilter
<1>9. CASE WriteJSONList
  BY <1>9 DEF WriteJSONList
<1>10. CASE WriteDocument
  BY <1>10 DEF WriteDocument
<1>11. CASE DocumentsWritten
  BY <1>11 DEF DocumentsWritten
<1>12. CASE CloseColorWriter
  BY <1>12 DEF CloseColorWriter
<1>13. CASE Count
  BY <1>13 DEF Count
<1>14. CASE Sum
  <2>1. /\ pc = "run" /\ pc' = "exit" /\ exit' = exit /\ cmd' = cmd /\ err = "none"
    BY <1>14, SumEffect
  <2>2. err' \in {"none", "invalid", "write", "assertion", "reported", "differences"}
    <3> HIDE DEF OutcomeInv
    <3> QED
      BY <1>14, <2>1, SumEffect DEF Wrote
  <2>3. room' \in Nat
    <3>1. room' = room \/ (room > 0 /\ room' = room - 1)
      BY <1>14, SumEffect DEF Wrote
    <3> QED
      BY <3>1
  <2>4. Len(report') <= 1
    <3>1. report' = report \/ \E x : report' = <<x>>
      BY <1>14, SumEffect
    <3>2. \A x : Len(<<x>>) = 1
      OBVIOUS
    <3>3. Len(report') = Len(report) \/ Len(report') = 1
      BY <3>1, <3>2
    <3>4. Len(report) <= 1 /\ 1 <= 1
      OBVIOUS
    <3> HIDE DEF OutcomeInv
    <3> QED
      BY <3>3, <3>4, Zenon
  <2> QED
    BY <2>1, <2>2, <2>3, <2>4
<1>15. CASE Diff
  <2>1. /\ pc = "run" /\ pc' = "exit" /\ exit' = exit /\ cmd' = cmd /\ err = "none"
    BY <1>15, DiffEffect
  <2>2. err' \in {"none", "invalid", "write", "assertion", "reported", "differences"}
    <3> HIDE DEF OutcomeInv
    <3> QED
      BY <1>15, <2>1, DiffEffect DEF Wrote
  <2>3. room' \in Nat
    <3>1. room' = room \/ (room > 0 /\ room' = room - 1)
      BY <1>15, DiffEffect DEF Wrote
    <3> QED
      BY <3>1
  <2>4. Len(report') <= 1
    <3>1. report' = report \/ \E x : report' = <<x>>
      BY <1>15, DiffEffect
    <3>2. \A x : Len(<<x>>) = 1
      OBVIOUS
    <3>3. Len(report') = Len(report) \/ Len(report') = 1
      BY <3>1, <3>2
    <3>4. Len(report) <= 1 /\ 1 <= 1
      OBVIOUS
    <3> HIDE DEF OutcomeInv
    <3> QED
      BY <3>3, <3>4, Zenon
  <2> QED
    BY <2>1, <2>2, <2>3, <2>4
<1>16. CASE Exit
  BY <1>16 DEF Exit
<1>17. CASE UNCHANGED commandVars
  BY <1>17 DEF commandVars
<1> QED
  BY <1>1, <1>2, <1>3, <1>4, <1>5, <1>6, <1>7, <1>8, <1>9, <1>10, <1>11, <1>12,
     <1>13, <1>14, <1>15, <1>16, <1>17 DEF Next

\* The run keeps to its states: what the inputs, the report, the error and the
\* exit code may be, whatever is read and however little can be written.
THEOREM RunsAreTyped == Spec => []TypeOK
<1>1. Init => InputInv /\ OutcomeInv
  BY InputInit, OutcomeInit
<1>2. InputInv /\ OutcomeInv /\ [Next]_commandVars => InputInv' /\ OutcomeInv'
  BY InputStep, OutcomeStep
<1>3. InputInv /\ OutcomeInv => TypeOK
  BY DEF InputInv, OutcomeInv, TypeOK, ExitCode
<1> QED
  BY <1>1, <1>2, <1>3, PTL DEF Spec

-----------------------------------------------------------------------------
(* The output.                                                             *)

\* What a sequence of anything holds after something is put at its end.
LEMMA AppendAny ==
    ASSUME NEW s, AnySequence(s), NEW x
    PROVE  /\ AnySequence(Append(s, x)) /\ Len(Append(s, x)) = Len(s) + 1
           /\ \A i \in DOMAIN Append(s, x) :
                \/ i \in DOMAIN s /\ Append(s, x)[i] = s[i]
                \/ Append(s, x)[i] = x
<1> DEFINE T == ToSet(s) \cup {x}
           t == Append(s, x)
<1>1. s \in Seq(T) /\ x \in T
  BY DEF AnySequence
<1>2. t \in Seq(T) /\ Len(t) = Len(s) + 1
  BY <1>1
<1>3. \A i \in DOMAIN t : (i \in DOMAIN s /\ t[i] = s[i]) \/ t[i] = x
  BY <1>1
<1> HIDE DEF t, T
<1>4. t \in Seq(ToSet(t))
  BY <1>2 DEF ToSet
<1> QED
  BY <1>2, <1>3, <1>4 DEF AnySequence, t

\* The same for two sequences, one after the other.
LEMMA ConcatAny ==
    ASSUME NEW s, AnySequence(s), NEW t, AnySequence(t)
    PROVE  /\ AnySequence(s \o t)
           /\ \A i \in DOMAIN (s \o t) :
                \/ i \in DOMAIN s /\ (s \o t)[i] = s[i]
                \/ \E j \in DOMAIN t : (s \o t)[i] = t[j]
<1> DEFINE T == ToSet(s) \cup ToSet(t)
           u == s \o t
<1>1. s \in Seq(T) /\ t \in Seq(T)
  BY DEF AnySequence
<1>2. u \in Seq(T)
  BY <1>1
<1>3. ASSUME NEW i \in DOMAIN u
      PROVE  (i \in DOMAIN s /\ u[i] = s[i]) \/ \E j \in DOMAIN t : u[i] = t[j]
  <2>1. i \in 1..(Len(s) + Len(t)) /\ Len(s) \in Nat /\ Len(t) \in Nat
        /\ DOMAIN s = 1..Len(s) /\ DOMAIN t = 1..Len(t)
    BY <1>1
  <2>2. CASE i <= Len(s)
    BY <1>1, <2>1, <2>2
  <2>3. CASE ~(i <= Len(s))
    <3>1. i - Len(s) \in DOMAIN t /\ u[i] = t[i - Len(s)]
      BY <1>1, <2>1, <2>3
    <3> QED
      BY <3>1
  <2> QED
    BY <2>2, <2>3
<1> HIDE DEF u, T
<1>4. u \in Seq(ToSet(u))
  BY <1>2 DEF ToSet
<1> QED
  BY <1>3, <1>4 DEF AnySequence, u

Options == [match |-> cmd.match, require |-> cmd.require, max |-> cmd.max]

\* The sum of the stream that was read, which is well-formed.
IsTheSum(item) ==
    /\ streams # << >>
    /\ ~SumJSON(streams[1], Options).invalid
    /\ item = SumItem(SumJSON(streams[1], Options))

\* Nothing is written before the inputs are read, and a sum is the stream's.
OutputInv ==
    /\ AnySequence(stdout) /\ AnySequence(buffer)
    /\ \A i \in DOMAIN buffer : buffer[i].type = "doc"
    /\ pc \in {"parse", "options", "open", "read"} => stdout = << >>
    /\ pc = "run" /\ cmd.op = "sum" => nodes = streams[1]
    /\ \A i \in DOMAIN stdout : stdout[i].type = "sum" => IsTheSum(stdout[i])

\* What a step may add to the output, other than a sum.
Adds ==
    \/ stdout' = stdout
    \/ stdout' = stdout \o buffer
    \/ \E item : item.type # "sum" /\ stdout' = Append(stdout, item)

\* Only the sum writes a sum.
LEMMA OnlySumSums ==
    ASSUME [Next]_commandVars
    PROVE  Sum \/ Adds
<1> USE DEF Fail, Put, Write, inputVars, outputVars
<1>1. CASE ParseFails \/ Parsed \/ CheckOptions
  BY <1>1 DEF ParseFails, Parsed, CheckOptions, Adds
<1>2. CASE OpenInput \/ OpenDiffInputs \/ ReadNodes \/ InputsRead
  BY <1>2 DEF OpenInput, OpenDiffInputs, ReadNodes, InputsRead, Adds
<1>3. CASE RunFilter \/ DocumentsWritten \/ UNCHANGED commandVars
  BY <1>3 DEF RunFilter, DocumentsWritten, commandVars, Adds
<1>4. CASE WriteJSONList
  <2> DEFINE item == [type |-> "list", docs |-> nodes]
  <2>1. item.type # "sum"
    OBVIOUS
  <2>2. stdout' = stdout \/ stdout' = Append(stdout, item)
    BY <1>4 DEF WriteJSONList
  <2> QED
    BY <2>1, <2>2 DEF Adds
<1>5. CASE WriteDocument
  <2> DEFINE item == [type |-> "doc", doc |-> Head(nodes)]
  <2>1. item.type # "sum"
    OBVIOUS
  <2>2. stdout' = stdout \/ stdout' = Append(stdout, item)
    BY <1>5 DEF WriteDocument
  <2> QED
    BY <2>1, <2>2 DEF Adds
<1>6. CASE CloseColorWriter
  BY <1>6 DEF CloseColorWriter, Adds
<1>7. CASE Count
  <2> DEFINE item == [type |-> "count",
                      counts |-> CountJSON(nodes, cmd.match, cmd.groupByKind)]
  <2>1. item.type # "sum"
    OBVIOUS
  <2>2. stdout' = stdout \/ stdout' = Append(stdout, item)
    BY <1>7 DEF Count
  <2> QED
    BY <2>1, <2>2 DEF Adds
<1>8. CASE Diff
  <2>1. stdout' = stdout \/ \E d : stdout' = Append(stdout, DiffItem(d))
    BY <1>8, DiffEffect DEF Wrote
  <2>2. \A d : DiffItem(d).type # "sum"
    BY DEF DiffItem
  <2> QED
    BY <2>1, <2>2 DEF Adds
<1>9. CASE Exit
  <2> DEFINE item == [type |-> "error", reason |-> err]
  <2>1. item.type # "sum"
    OBVIOUS
  <2>2. stdout' = stdout \/ stdout' = Append(stdout, item)
    BY <1>9 DEF Exit
  <2> QED
    BY <2>1, <2>2 DEF Adds
<1> QED
  BY <1>1, <1>2, <1>3, <1>4, <1>5, <1>6, <1>7, <1>8, <1>9 DEF Next

\* Nothing is written at first.
LEMMA OutputInit == Init => OutputInv
<1>1. AnySequence(<< >>)
  BY DEF AnySequence, ToSet
<1> QED
  BY <1>1 DEF Init, OutputInv

\* Every step keeps to that: a sum is written when the stream is in the pipeline
\* as it was read, and the stream does not change any more.
LEMMA OutputStep ==
    ASSUME InputInv, OutputInv, [Next]_commandVars
    PROVE  OutputInv'
<1>1. ASSUME pc \in {"parse", "options", "open", "read"}
      PROVE  OutputInv'
  <2>1. ParseFails \/ Parsed \/ CheckOptions \/ OpenInput \/ OpenDiffInputs
        \/ ReadNodes \/ InputsRead \/ UNCHANGED commandVars
    BY <1>1 DEF Next, RunFilter, WriteJSONList, WriteDocument, DocumentsWritten,
       CloseColorWriter, Count, Sum, Diff, Exit
  <2>2. UNCHANGED <<cmd, stdout, buffer>>
    BY <2>1 DEF ParseFails, Parsed, CheckOptions, OpenInput, OpenDiffInputs, ReadNodes,
       InputsRead, commandVars, outputVars
  <2>3. pc' = "run" => \/ InputsRead /\ streams' = streams
                       \/ UNCHANGED commandVars
    BY <1>1, <2>1 DEF ParseFails, Parsed, CheckOptions, OpenInput, OpenDiffInputs,
       ReadNodes, InputsRead, Fail, inputVars
  <2>4. pc' = "run" /\ cmd'.op = "sum" => nodes' = streams'[1]
    BY <1>1, <2>2, <2>3 DEF InputsRead, commandVars
  <2>5. stdout = << >>
    BY <1>1 DEF OutputInv
  <2> QED
    BY <2>2, <2>4, <2>5 DEF OutputInv
<1>2. ASSUME pc \notin {"parse", "options", "open", "read"}
      PROVE  OutputInv'
  <2>1. RunFilter \/ WriteJSONList \/ WriteDocument \/ DocumentsWritten
        \/ CloseColorWriter \/ Count \/ Sum \/ Diff \/ Exit \/ UNCHANGED commandVars
    BY <1>2 DEF Next, ParseFails, Parsed, CheckOptions, OpenInput, OpenDiffInputs,
       ReadNodes, InputsRead, commandVars
  <2>2. UNCHANGED <<cmd, streams>>
    BY <2>1, SumEffect, DiffEffect DEF RunFilter, WriteJSONList, WriteDocument, DocumentsWritten,
       CloseColorWriter, Count, Exit, commandVars, inputVars
  <2>3. \/ pc' \in {"write", "close", "exit", "done"}
        \/ UNCHANGED commandVars
    BY <1>2, <2>1, SumEffect, DiffEffect DEF RunFilter, WriteJSONList, WriteDocument,
       DocumentsWritten, CloseColorWriter, Count, Exit, Fail, Write
  <2>4. \/ buffer' = buffer
        \/ buffer' = << >>
        \/ \E item : item.type = "doc" /\ buffer' = Append(buffer, item)
    <3>1. CASE WriteDocument
      <4> DEFINE item == [type |-> "doc", doc |-> Head(nodes)]
      <4>1. item.type = "doc"
        OBVIOUS
      <4>2. buffer' = buffer \/ buffer' = Append(buffer, item)
        BY <3>1 DEF WriteDocument
      <4> QED
        BY <4>1, <4>2
    <3>2. CASE CloseColorWriter
      BY <3>2 DEF CloseColorWriter
    <3>3. CASE RunFilter \/ WriteJSONList \/ DocumentsWritten \/ Count \/ Sum \/ Diff
               \/ Exit \/ UNCHANGED commandVars
      BY <3>3, SumEffect, DiffEffect DEF RunFilter, WriteJSONList, DocumentsWritten, Count,
         Exit, commandVars, outputVars
    <3> QED
      BY <2>1, <3>1, <3>2, <3>3
  <2>5. AnySequence(buffer') /\ \A i \in DOMAIN buffer' : buffer'[i].type = "doc"
    <3>1. CASE buffer' = buffer
      BY <3>1 DEF OutputInv
    <3>2. CASE buffer' = << >>
      BY <3>2 DEF AnySequence, ToSet
    <3>3. ASSUME NEW item, item.type = "doc", buffer' = Append(buffer, item)
          PROVE  AnySequence(buffer') /\ \A i \in DOMAIN buffer' : buffer'[i].type = "doc"
      <4>1. AnySequence(buffer) /\ \A i \in DOMAIN buffer : buffer[i].type = "doc"
        BY DEF OutputInv
      <4> QED
        BY <3>3, <4>1, AppendAny
    <3> QED
      BY <2>4, <3>1, <3>2, <3>3
  <2> DEFINE Right == \A i \in DOMAIN stdout' : stdout'[i].type = "sum" => IsTheSum(stdout'[i])
  <2>6. AnySequence(stdout') /\ Right
    <3>0. /\ AnySequence(stdout) /\ AnySequence(buffer)
          /\ \A i \in DOMAIN buffer : buffer[i].type = "doc"
          /\ \A i \in DOMAIN stdout : stdout[i].type = "sum" => IsTheSum(stdout[i])
      BY DEF OutputInv
    <3>1. CASE stdout' = stdout
      BY <3>0, <3>1
    <3>2. CASE stdout' = stdout \o buffer
      BY <3>0, <3>2, ConcatAny
    <3>3. ASSUME NEW item, item.type # "sum", stdout' = Append(stdout, item)
          PROVE  AnySequence(stdout') /\ Right
      BY <3>0, <3>3, AppendAny
    <3>4. CASE Sum
      <4>1. \/ stdout' = stdout
            \/ ~TheSum.invalid /\ stdout' = Append(stdout, SumItem(TheSum))
        BY <3>4, SumEffect DEF Wrote
      <4>2. CASE stdout' = stdout
        BY <3>0, <4>2
      <4>3. CASE ~TheSum.invalid /\ stdout' = Append(stdout, SumItem(TheSum))
        <5>1. pc = "run" /\ cmd.op = "sum"
          BY <3>4, SumEffect
        <5>2. TheSum = SumJSON(streams[1], Options)
          BY <5>1 DEF TheSum, Options, OutputInv
        <5>3. streams # << >>
          <6>1. streams \in Seq(StreamSet) /\ Len(streams) = 1
            BY <5>1 DEF InputInv, Wanted
          <6> QED
            BY <6>1
        <5>4. IsTheSum(SumItem(TheSum))
          BY <4>3, <5>2, <5>3 DEF IsTheSum
        <5> QED
          BY <3>0, <4>3, <5>4, AppendAny
      <4> QED
        BY <4>1, <4>2, <4>3
    <3> QED
      BY <3>1, <3>2, <3>3, <3>4, OnlySumSums DEF Adds
  <2>7. \A item : IsTheSum(item)' <=> IsTheSum(item)
    BY <2>2 DEF IsTheSum, Options
  <2>8. pc' = "run" => nodes' = nodes /\ pc = "run"
    BY <2>3 DEF commandVars
  <2>9. pc' \notin {"parse", "options", "open", "read"}
    BY <1>2, <2>3 DEF commandVars
  <2> QED
    BY <2>2, <2>5, <2>6, <2>7, <2>8, <2>9 DEF OutputInv
<1> QED
  BY <1>1, <1>2

\* The sum of documents is what the properties say it should be.
LEMMA SumIsAsStated ==
    ASSUME NEW docs, Documents(docs), cmd \in Commands
    PROVE  LET sum == SumJSON(docs, Options)
           IN  /\ sum.invalid <=> ~Summable(docs)
               /\ ~sum.invalid =>
                    /\ \A c \in Categories, r \in Resources :
                         sum.totals[c][r] = TotalDemand(docs, c, r)
                    /\ sum.passed = AssertionsHold(docs)
<1> DEFINE sum == SumJSON(docs, Options)
           demand(c, r) == DemandOf(docs, cmd.match, c, r)
<1>1. Options.match = cmd.match /\ Options.require = cmd.require /\ Options.max = cmd.max
  BY DEF Options
<1>2. \A c \in Categories, r \in Resources : Options.max[c][r] \subseteq Int
  BY <1>1, CommandsAssumption
<1>3. /\ sum.invalid <=> ~AllFine(docs, Options)
      /\ ~sum.invalid =>
           /\ \A c \in Categories, r \in Resources :
                sum.totals[c][r] = demand(c, r) /\ demand(c, r) \in Int
           /\ sum.passed <=>
                /\ \A c \in Categories, r \in Resources :
                     \A t \in cmd.max[c][r] : demand(c, r) <= t
                /\ \A i \in InScope(docs, cmd.match) :
                     checkResources(docs[i], cmd.require)
  BY <1>1, <1>2, SumJSONIsTheSum
<1>4. AllFine(docs, Options) <=> Summable(docs)
  BY <1>1 DEF AllFine, Summable, DocumentFine, ContainersFine, validateThresholds
<1>5. \A c \in Categories, r \in Resources : TotalDemand(docs, c, r) = demand(c, r)
  BY DEF TotalDemand, DemandOf
<1>6. sum.passed \in BOOLEAN
  BY DEF SumJSON
<1> HIDE DEF sum, demand
<1>7. (\A i \in InScope(docs, cmd.match) : checkResources(docs[i], cmd.require))
        <=> \A i \in InScope(docs, cmd.match), p \in 1..3 :
              (\A q \in 1..p - 1 : docs[i].pods[q] = {}) =>
                \A cs \in docs[i].pods[p] : \A k \in DOMAIN cs :
                  \A c \in cmd.require, r \in Resources : Amount(cs[k], c, r) # {}
  <2>1. \A i \in InScope(docs, cmd.match) : IsDocument(docs[i])
    BY DEF Documents, IsInput, InScope, ToSet
  <2>2. \A i \in InScope(docs, cmd.match) :
          checkResources(docs[i], cmd.require)
            <=> \A p \in 1..3 :
                  (\A q \in 1..p - 1 : docs[i].pods[q] = {}) =>
                    \A cs \in docs[i].pods[p] : \A k \in DOMAIN cs :
                      \A c \in cmd.require, r \in Resources : Amount(cs[k], c, r) # {}
    <3> SUFFICES ASSUME NEW i \in InScope(docs, cmd.match)
                 PROVE  checkResources(docs[i], cmd.require)
                          <=> \A p \in 1..3 :
                                (\A q \in 1..p - 1 : docs[i].pods[q] = {}) =>
                                  \A cs \in docs[i].pods[p] : \A k \in DOMAIN cs :
                                    \A c \in cmd.require, r \in Resources :
                                      Amount(cs[k], c, r) # {}
      OBVIOUS
    <3> DEFINE d == docs[i]
               require == cmd.require
    <3>1. IsDocument(d)
      BY <2>1
    <3> HIDE DEF d, require
    <3>2. checkResources(d, require)
            <=> \A p \in 1..3 :
                  (\A q \in 1..p - 1 : d.pods[q] = {}) =>
                    \A cs \in d.pods[p] : \A k \in DOMAIN cs :
                      \A c \in require, r \in Resources : Amount(cs[k], c, r) # {}
      BY <3>1, FirstPath
    <3> QED
      BY <3>2 DEF d, require
  <2> QED
    BY <2>2
<1>8. AssertionsHold(docs)
        <=> /\ \A c \in Categories, r \in Resources :
                 \A t \in cmd.max[c][r] : demand(c, r) <= t
            /\ \A i \in InScope(docs, cmd.match) : checkResources(docs[i], cmd.require)
  BY <1>5, <1>7 DEF AssertionsHold
<1>9. AssertionsHold(docs) \in BOOLEAN
  BY DEF AssertionsHold
<1>10. ~sum.invalid =>
         /\ \A c \in Categories, r \in Resources : sum.totals[c][r] = TotalDemand(docs, c, r)
         /\ sum.passed = AssertionsHold(docs)
  BY <1>3, <1>5, <1>6, <1>8, <1>9
<1> QED
  BY <1>3, <1>4, <1>10 DEF sum

\* A sum that is printed, as text or as JSON, is that of the stream that was
\* read: of the matching containers, times their replicas, whatever the stream.
THEOREM SumsAreExact == Spec => []SumIsExact
<1>1. Init => InputInv /\ OutputInv
  BY InputInit, OutputInit
<1>2. InputInv /\ OutputInv /\ [Next]_commandVars => InputInv' /\ OutputInv'
  BY InputStep, OutputStep
<1>3. InputInv /\ OutputInv => SumIsExact
  <2> SUFFICES ASSUME InputInv, OutputInv, NEW i \in DOMAIN stdout, stdout[i].type = "sum"
               PROVE  /\ Summable(streams[1])
                      /\ \A c \in Categories, r \in Resources :
                           stdout[i].totals[c][r] = TotalDemand(streams[1], c, r)
                      /\ stdout[i].passed = AssertionsHold(streams[1])
    BY DEF SumIsExact
  <2> DEFINE sum == SumJSON(streams[1], Options)
  <2>1. streams # << >> /\ ~sum.invalid /\ stdout[i] = SumItem(sum)
    BY DEF OutputInv, IsTheSum
  <2>2. streams[1] \in StreamSet /\ cmd \in Commands
    BY <2>1 DEF InputInv
  <2>3. /\ Summable(streams[1])
        /\ \A c \in Categories, r \in Resources :
             sum.totals[c][r] = TotalDemand(streams[1], c, r)
        /\ sum.passed = AssertionsHold(streams[1])
    BY <2>1, <2>2, StreamsAreDocuments, SumIsAsStated
  <2>4. stdout[i].totals = sum.totals /\ stdout[i].passed = sum.passed
    BY <2>1 DEF SumItem
  <2> QED
    BY <2>3, <2>4
<1> QED
  BY <1>1, <1>2, <1>3, PTL DEF Spec

-----------------------------------------------------------------------------
(* One JSON document.                                                      *)

\* The format that main makes out of arguments that do not parse is the one that
\* was asked for.
FormatsRecognized == \A c \in Commands : ~c.usage => (requestsJSON(c.tokens) <=> c.json)

\* The document that a run ends with agrees with the error that Run returns.
Answers(item) ==
    /\ item.type # "error"
    /\ item.type = "sum" => (err = "none" <=> item.passed)
    /\ item.type = "diff" => (err # "none" <=> HasChanges(item.diff))

\* Nothing is written before the end; then either the answer or, once main is
\* through, the error.
JsonInv ==
    cmd.json /\ ~lost =>
      /\ stderr = << >>
      /\ pc \notin {"exit", "done"} => stdout = << >>
      /\ pc = "exit" => IF Silent THEN \E item : stdout = <<item>> /\ Answers(item)
                        ELSE stdout = << >> /\ err \notin {"assertion", "write"}
      /\ pc = "done" => IF Silent THEN \E item : stdout = <<item>> /\ Answers(item)
                        ELSE \E item : stdout = <<item>> /\ item.type = "error"
      /\ pc = "done" => err # "assertion"

\* An error leaves nothing written and is left to main.
LEMMA FailKeepsJson ==
    ASSUME JsonInv, pc \notin {"exit", "done"}, NEW e, Fail(e),
           e \notin {"none", "differences", "reported", "assertion", "write"},
           UNCHANGED <<cmd, stdout, stderr, lost>>
    PROVE  JsonInv'
  BY DEF JsonInv, Fail, Silent

\* An answer that is written is the only one, and if it is not written that is
\* known.
LEMMA AnswerKeepsJson ==
    ASSUME JsonInv, pc \notin {"exit", "done"}, pc' = "exit", UNCHANGED <<cmd, stderr>>,
           NEW item, item.type # "error",
           \/ /\ room > 0 /\ stdout' = Append(stdout, item) /\ UNCHANGED lost
              /\ err' \in {"none", "differences", "reported"}
              /\ item.type = "sum" => (err' = "none" <=> item.passed)
              /\ item.type = "diff" => (err' # "none" <=> HasChanges(item.diff))
           \/ lost' = TRUE
    PROVE  JsonInv'
<1> SUFFICES ASSUME cmd.json, ~lost'
             PROVE  JsonInv'
  BY DEF JsonInv
<1>1. /\ stdout' = Append(stdout, item) /\ lost' = lost
      /\ err' \in {"none", "differences", "reported"}
      /\ item.type = "sum" => (err' = "none" <=> item.passed)
      /\ item.type = "diff" => (err' # "none" <=> HasChanges(item.diff))
  OBVIOUS
<1>2. stdout = << >> /\ stderr = << >>
  BY <1>1 DEF JsonInv
<1>3. Append(<< >>, item) = <<item>>
  OBVIOUS
<1>4. stdout' = <<item>>
  BY <1>1, <1>2, <1>3
<1>5. Silent' /\ Answers(item)'
  BY <1>1 DEF Silent, Answers
<1> QED
  BY <1>2, <1>4, <1>5 DEF JsonInv

\* Nothing is written when a run begins.
LEMMA JsonInit == Init => JsonInv
  BY DEF Init, JsonInv

\* Each step of a run, by its action: errors leave the output to main, answers are
\* written once.
LEMMA JsonStep ==
    ASSUME FormatsRecognized, InputInv, OutcomeInv, JsonInv, [Next]_commandVars
    PROVE  JsonInv'
<1> DEFINE quiet == UNCHANGED <<cmd, stdout, stderr, lost>>
<1>1. CASE ParseFails
  <2>1. pc = "parse" /\ Fail("usage") /\ quiet
    BY <1>1 DEF ParseFails, outputVars
  <2> QED
    BY <2>1, FailKeepsJson
<1>2. CASE Parsed \/ InputsRead \/ DocumentsWritten
  BY <1>2 DEF Parsed, InputsRead, DocumentsWritten, outputVars, JsonInv
<1>3. CASE CheckOptions
  <2>1. /\ pc = "options" /\ quiet
        /\ Fail("options") \/ pc' \in {"open", "read"}
    BY <1>3 DEF CheckOptions, outputVars
  <2>2. CASE Fail("options")
    BY <2>1, <2>2, FailKeepsJson
  <2>3. CASE pc' \in {"open", "read"}
    BY <2>1, <2>3 DEF JsonInv
  <2> QED
    BY <2>1, <2>2, <2>3
<1>4. CASE OpenInput \/ OpenDiffInputs
  <2>1. /\ pc = "open" /\ quiet
        /\ Fail("open") \/ pc' \in {"options", "read"}
    BY <1>4 DEF OpenInput, OpenDiffInputs, outputVars
  <2>2. CASE Fail("open")
    BY <2>1, <2>2, FailKeepsJson
  <2>3. CASE pc' \in {"options", "read"}
    BY <2>1, <2>3 DEF JsonInv
  <2> QED
    BY <2>1, <2>2, <2>3
<1>5. CASE ReadNodes
  <2>1. /\ pc = "read" /\ quiet
        /\ Fail("read") \/ pc' = pc
    BY <1>5 DEF ReadNodes, outputVars
  <2>2. CASE Fail("read")
    BY <2>1, <2>2, FailKeepsJson
  <2>3. CASE pc' = pc
    BY <2>1, <2>3 DEF JsonInv
  <2> QED
    BY <2>1, <2>2, <2>3
<1>6. CASE RunFilter
  <2>1. /\ pc = "run" /\ quiet
        /\ Fail("filter") \/ pc' = "write"
    BY <1>6 DEF RunFilter, outputVars
  <2>2. CASE Fail("filter")
    BY <2>1, <2>2, FailKeepsJson
  <2>3. CASE pc' = "write"
    BY <2>1, <2>3 DEF JsonInv
  <2> QED
    BY <2>1, <2>2, <2>3
<1>7. CASE WriteJSONList
  <2>1. pc = "write" /\ err = "none"
    BY <1>7 DEF WriteJSONList, OutcomeInv
  <2>2. CASE \E i \in DOMAIN nodes : nodes[i].form # "mapping"
    <3>1. Fail("filter") /\ quiet
      BY <1>7, <2>2 DEF WriteJSONList
    <3> QED
      BY <2>1, <3>1, FailKeepsJson
  <2>3. CASE ~\E i \in DOMAIN nodes : nodes[i].form # "mapping"
    <3> DEFINE item == [type |-> "list", docs |-> nodes]
    <3>1. /\ item.type = "list" /\ pc' = "exit" /\ UNCHANGED <<cmd, stderr>>
          /\ \/ /\ room > 0 /\ stdout' = Append(stdout, item) /\ UNCHANGED lost
                /\ err' = "none"
             \/ lost' = TRUE
      BY <1>7, <2>1, <2>3 DEF WriteJSONList, Write, Put, Fail
    <3> HIDE DEF item
    <3> QED
      BY <2>1, <3>1, AnswerKeepsJson
  <2> QED
    BY <2>2, <2>3
<1>8. CASE WriteDocument
  BY <1>8 DEF WriteDocument, JsonInv
<1>9. CASE CloseColorWriter
  <2>1. ~cmd.json /\ cmd' = cmd
    BY <1>9 DEF CloseColorWriter, InputInv
  <2> QED
    BY <2>1 DEF JsonInv
<1>10. CASE Count
  <2>1. pc = "run" /\ err = "none"
    BY <1>10 DEF Count, OutcomeInv
  <2>2. CASE ~cmd.json
    BY <1>10, <2>2 DEF Count, JsonInv
  <2>3. CASE cmd.json
    <3> DEFINE item == [type |-> "count",
                        counts |-> CountJSON(nodes, cmd.match, cmd.groupByKind)]
    <3>1. /\ item.type = "count" /\ pc' = "exit" /\ UNCHANGED <<cmd, stderr>>
          /\ \/ /\ room > 0 /\ stdout' = Append(stdout, item) /\ UNCHANGED lost
                /\ err' = "none"
             \/ lost' = TRUE
      BY <1>10, <2>1, <2>3 DEF Count, Write, Put, Fail
    <3> HIDE DEF item
    <3> QED
      BY <2>1, <3>1, AnswerKeepsJson
  <2> QED
    BY <2>2, <2>3
<1>11. CASE Sum
  <2>1. pc = "run" /\ pc' = "exit" /\ err = "none" /\ UNCHANGED <<cmd, stderr>>
    BY <1>11, SumEffect DEF OutcomeInv
  <2>2. CASE ~cmd.json
    BY <2>1, <2>2 DEF JsonInv
  <2>3. CASE cmd.json /\ TheSum.invalid /\ err' = "invalid" /\ UNCHANGED <<stdout, lost>>
    BY <2>1, <2>3, FailKeepsJson DEF Fail
  <2>4. CASE cmd.json /\ Wrote(SumItem(TheSum),
                               IF TheSum.passed THEN err ELSE "reported", "write")
    <3> DEFINE item == SumItem(TheSum)
    <3>1. item.type = "sum" /\ item.passed = TheSum.passed /\ TheSum.passed \in BOOLEAN
      BY DEF SumItem, TheSum, SumJSON
    <3> HIDE DEF item
    <3>2. \/ /\ room > 0 /\ stdout' = Append(stdout, item) /\ UNCHANGED lost
             /\ err' = IF item.passed THEN "none" ELSE "reported"
          \/ lost' = TRUE
      BY <2>1, <2>4, <3>1 DEF Wrote, item
    <3> QED
      BY <2>1, <3>1, <3>2, AnswerKeepsJson
  <2> QED
    BY <1>11, <2>2, <2>3, <2>4, SumEffect
<1>12. CASE Diff
  <2>1. pc = "run" /\ pc' = "exit" /\ err = "none" /\ UNCHANGED <<cmd, stderr>>
    BY <1>12, DiffEffect DEF OutcomeInv
  <2>2. CASE ~cmd.json
    BY <2>1, <2>2 DEF JsonInv
  <2>3. CASE cmd.json /\ err' = "invalid" /\ UNCHANGED <<stdout, lost>>
    BY <2>1, <2>3, FailKeepsJson DEF Fail
  <2>4. ASSUME cmd.json, NEW d,
               Wrote(DiffItem(d), IF HasChanges(d) THEN "differences" ELSE err, "write")
        PROVE  JsonInv'
    <3> DEFINE item == DiffItem(d)
    <3>1. item.type = "diff" /\ item.diff = d
      BY DEF DiffItem
    <3> HIDE DEF item
    <3>2. \/ /\ room > 0 /\ stdout' = Append(stdout, item) /\ UNCHANGED lost
             /\ err' = IF HasChanges(item.diff) THEN "differences" ELSE "none"
          \/ lost' = TRUE
      BY <2>1, <2>4, <3>1 DEF Wrote, item
    <3> QED
      BY <2>1, <3>1, <3>2, AnswerKeepsJson
  <2> QED
    BY <1>12, <2>2, <2>3, <2>4, DiffEffect
<1>13. CASE Exit
  <2>1. pc = "exit" /\ pc' = "done" /\ UNCHANGED <<cmd, err>>
    BY <1>13 DEF Exit
  <2> SUFFICES ASSUME cmd.json, ~lost'
               PROVE  JsonInv'
    BY <2>1 DEF JsonInv
  <2>2. CASE Silent
    <3>1. UNCHANGED <<stdout, lost, stderr>>
      BY <1>13, <2>2 DEF Exit
    <3>2. Silent' /\ err # "assertion"
      BY <2>1, <2>2 DEF Silent
    <3>3. \A item : Answers(item)' <=> Answers(item)
      BY <2>1 DEF Answers
    <3> QED
      BY <2>1, <2>2, <3>1, <3>2, <3>3 DEF JsonInv
  <2>3. CASE ~Silent
    <3> DEFINE item == [type |-> "error", reason |-> err]
    <3>1. WantsJSON
      BY DEF WantsJSON, FormatsRecognized, OutcomeInv, InputInv
    <3>2. stderr' = stderr /\ stdout' = Append(stdout, item) /\ lost' = lost
      BY <1>13, <2>3, <3>1 DEF Exit, Put
    <3>3. stdout = << >> /\ stderr = << >> /\ err # "assertion"
      BY <2>1, <2>3, <3>2 DEF JsonInv
    <3>4. Append(<< >>, item) = <<item>> /\ item.type = "error"
      OBVIOUS
    <3>5. ~Silent' /\ err' # "assertion"
      BY <2>1, <2>3, <3>3 DEF Silent
    <3> HIDE DEF item
    <3> QED
      BY <2>1, <3>2, <3>3, <3>4, <3>5 DEF JsonInv
  <2> QED
    BY <2>2, <2>3
<1>14. CASE UNCHANGED commandVars
  BY <1>14 DEF commandVars, outputVars, JsonInv, Answers, Silent
<1> QED
  BY <1>1, <1>2, <1>3, <1>4, <1>5, <1>6, <1>7, <1>8, <1>9, <1>10, <1>11, <1>12,
     <1>13, <1>14 DEF Next

\* If JSON was asked for and the output takes it, a run ends with one document:
\* an error exactly if the exit code is 2, and the code is the verdict of what an
\* analysis says in it.  The one thing to know of the commands is that the scan
\* of arguments that do not parse finds the format.
THEOREM JsonRunsEndInOneDocument ==
    ASSUME FormatsRecognized
    PROVE  Spec => []JsonIsOneDocument
<1>1. Init => InputInv /\ OutcomeInv /\ JsonInv
  BY InputInit, OutcomeInit, JsonInit
<1>2. InputInv /\ OutcomeInv /\ JsonInv /\ [Next]_commandVars
        => InputInv' /\ OutcomeInv' /\ JsonInv'
  BY InputStep, OutcomeStep, JsonStep
<1>3. OutcomeInv /\ JsonInv => JsonIsOneDocument
  <2> SUFFICES ASSUME OutcomeInv, JsonInv, pc = "done", cmd.json, ~lost
               PROVE  /\ Len(stdout) = 1 /\ stderr = << >>
                      /\ exit = 2 <=> stdout[1].type = "error"
                      /\ stdout[1].type = "sum" => (exit = 0 <=> stdout[1].passed)
                      /\ stdout[1].type = "diff" => (exit = 1 <=> HasChanges(stdout[1].diff))
    BY DEF JsonIsOneDocument
  <2>1. stderr = << >> /\ err # "assertion"
    BY DEF JsonInv
  <2>2. PICK item : stdout = <<item>> /\ IF Silent THEN Answers(item) ELSE item.type = "error"
    BY DEF JsonInv
  <2>3. stdout[1] = item /\ Len(stdout) = 1
    BY <2>2
  <2>4. /\ exit = 0 <=> err = "none"
        /\ exit = 1 <=> err \in {"differences", "reported"}
        /\ exit = 2 <=> ~Silent
    BY <2>1 DEF OutcomeInv, ExitCode, Silent
  <2>5. CASE Silent
    BY <2>1, <2>2, <2>3, <2>4, <2>5 DEF Answers, Silent
  <2>6. CASE ~Silent
    BY <2>1, <2>2, <2>3, <2>4, <2>6
  <2> QED
    BY <2>5, <2>6
<1> QED
  BY <1>1, <1>2, <1>3, PTL DEF Spec

-----------------------------------------------------------------------------
(* What an analysis reports.                                               *)

\* A diff is one of those that the program may compute of the two streams.
IsADiff(item) ==
    /\ Len(streams) = 2 /\ ~DiffFails(streams[1], streams[2])
    /\ item.diff \in DiffNodes(streams[1], streams[2])

\* Nothing is reported before the end, and then one diff at most.
ReportInv ==
    /\ pc \notin {"exit", "done"} => report = << >>
    /\ \A i \in DOMAIN report : report[i].type = "diff" => i = 1 /\ IsADiff(report[1])

-----------------------------------------------------------------------------
(* The filters.                                                            *)

\* The documents as they come into the pipeline, and as they come out.
Source ==
    IF cmd.op = "subst" THEN Eval(streams[1], EnvMapFromBytes(EnvFiles[cmd.env]))
    ELSE streams[1]

\* What the filter makes of them.
Result ==
    CASE cmd.op = "get"    -> GetFilter(Source, cmd.match)
      [] cmd.op = "drop"   -> DropFilter(Source, cmd.match)
      [] cmd.op = "mutate" -> ScopedMutator(Source, cmd.match)
      [] cmd.op = "subst"  -> Source

\* A mutator fails on one of the documents.
Refuses == cmd.op = "mutate" /\ MutatorFails(Source, cmd.match)

\* Some document is not a mapping.
SomeOther(docs) == \E i \in DOMAIN docs : docs[i].form # "mapping"

\* The error that the inputs are bound to end in.
Verdict ==
    IF cmd.op = "diff" THEN
       IF ~Comparable(streams[1]) \/ ~Comparable(streams[2]) THEN "invalid"
       ELSE IF Differ(streams[1], streams[2]) THEN "differences" ELSE "none"
    ELSE IF cmd.op = "sum" THEN
       IF SumJSON(streams[1], Options).invalid THEN "invalid"
       ELSE IF SumJSON(streams[1], Options).passed THEN "none"
       ELSE IF cmd.json THEN "reported" ELSE "assertion"
    ELSE IF cmd.op # "count" /\ (Refuses \/ SomeOther(Result)) THEN "filter" ELSE "none"

\* Whose failed writes are noticed.
Noticed == (cmd.json \/ cmd.op \notin {"count", "sum"}) /\ ~cmd.tty

\* The pipeline holds what the inputs and the filter make of it, and the run ends
\* with the verdict on it, with a failed write that is noticed or, where not all
\* inputs were read, with the error that says why.
VerdictInv ==
    /\ pc = "run" => nodes = Source
    /\ pc = "write" =>
         ~Refuses /\ (cmd.json => nodes = Result) /\ (~cmd.json => ~SomeOther(Result))
    /\ pc = "close" => Verdict = "none"
    /\ pc \in {"exit", "done"} =>
         \/ Len(streams) = Wanted /\ err \in {Verdict, "write"}
         \/ Len(streams) < Wanted /\ err \in {"usage", "options", "open", "read"}
    /\ pc \notin {"exit", "done"} => ~lost
    /\ ~cmd.tty => buffer = << >>
    /\ err = "write" => lost /\ Noticed
    /\ err = "assertion" => ~cmd.json
    /\ lost /\ Noticed => ExitCode = 2

-----------------------------------------------------------------------------
(* What a filter writes.                                                   *)

\* The documents as they are written.
Ready == IF cmd.json THEN Result ELSE ReorderFilter(Result)

\* A stream that was written as a whole.
AllWritten ==
    stdout = IF cmd.json THEN << [type |-> "list", docs |-> Result] >>
             ELSE FirstOf(Ready, Len(Ready))

\* The documents go to the output or to the buffer, none twice.
FilterInv ==
    cmd.op \notin Analyses =>
      /\ pc \notin {"write", "close", "exit", "done"} => stdout = << >> /\ buffer = << >>
      /\ pc = "write" =>
           IF cmd.json THEN stdout = << >> /\ buffer = << >>
           ELSE \E k \in 0..Len(Ready) :
                  /\ nodes = RestOf(Ready, k)
                  /\ stdout = IF cmd.tty THEN << >> ELSE FirstOf(Ready, k)
                  /\ buffer = IF cmd.tty THEN FirstOf(Ready, k) ELSE << >>
      /\ pc = "close" =>
           /\ stdout = IF cmd.tty THEN << >> ELSE FirstOf(Ready, Len(Ready))
           /\ buffer = IF cmd.tty THEN FirstOf(Ready, Len(Ready)) ELSE << >>
      /\ pc = "exit" /\ ~lost => IF err = "none" THEN AllWritten ELSE stdout = << >>
      /\ pc = "done" /\ ~lost => IF err = "none" THEN AllWritten
                                 ELSE \A i \in DOMAIN stdout : stdout[i].type = "error"

-----------------------------------------------------------------------------
(* Steps before and after the inputs are read.                             *)

\* Where a run is before it has its inputs.
Early == {"parse", "options", "open", "read"}

\* Until the inputs are read a step opens and reads them or ends the run with an
\* error.
LEMMA EarlySteps ==
    ASSUME InputInv, pc \in Early, [Next]_commandVars
    PROVE  /\ UNCHANGED <<cmd, report, buffer, stdout, lost, exit>>
           /\ \/ /\ pc' = "exit" /\ err' \in {"usage", "options", "open", "read"}
                 /\ streams' = streams /\ Len(streams) < Wanted
              \/ pc' \in Early /\ err' = err
              \/ InputsRead
<1> USE DEF Early, Fail, outputVars
<1>1. CASE ParseFails
  BY <1>1 DEF ParseFails, InputInv, Wanted, inputVars
<1>2. CASE Parsed
  BY <1>2 DEF Parsed
<1>3. CASE CheckOptions
  BY <1>3 DEF CheckOptions, InputInv, Wanted, inputVars
<1>4. CASE OpenInput
  BY <1>4 DEF OpenInput, InputInv, Wanted
<1>5. CASE OpenDiffInputs
  BY <1>5 DEF OpenDiffInputs, InputInv, Wanted
<1>6. CASE ReadNodes
  <2>1. pc = "read" /\ readers # << >> /\ readers \in Seq(ReaderSet)
        /\ Len(streams) + Len(readers) = Wanted /\ Len(streams) \in Nat
    BY <1>6 DEF ReadNodes, InputInv
  <2>2. Len(readers) > 0 /\ Len(readers) \in Nat
    BY <2>1
  <2>3. Len(streams) < Wanted
    BY <2>1, <2>2 DEF Wanted
  <2> QED
    BY <1>6, <2>3 DEF ReadNodes
<1>7. CASE InputsRead
  BY <1>7 DEF InputsRead
<1>8. CASE UNCHANGED commandVars
  BY <1>8 DEF commandVars
<1>9. ParseFails \/ Parsed \/ CheckOptions \/ OpenInput \/ OpenDiffInputs
      \/ ReadNodes \/ InputsRead \/ UNCHANGED commandVars
  BY DEF Next, RunFilter, WriteJSONList, WriteDocument, DocumentsWritten,
     CloseColorWriter, Count, Sum, Diff, Exit
<1> QED
  BY <1>1, <1>2, <1>3, <1>4, <1>5, <1>6, <1>7, <1>8, <1>9

\* Then the inputs stay as they are.
LEMMA LateSteps ==
    ASSUME pc \notin Early, [Next]_commandVars
    PROVE  /\ UNCHANGED <<cmd, streams>>
           /\ \/ RunFilter \/ WriteJSONList \/ WriteDocument \/ DocumentsWritten
              \/ CloseColorWriter \/ Count \/ Sum \/ Diff \/ Exit \/ UNCHANGED commandVars
<1>1. RunFilter \/ WriteJSONList \/ WriteDocument \/ DocumentsWritten
      \/ CloseColorWriter \/ Count \/ Sum \/ Diff \/ Exit \/ UNCHANGED commandVars
  BY DEF Early, Next, ParseFails, Parsed, CheckOptions, OpenInput, OpenDiffInputs,
     ReadNodes, InputsRead, commandVars
<1> QED
  BY <1>1, SumEffect, DiffEffect DEF RunFilter, WriteJSONList, WriteDocument,
     DocumentsWritten, CloseColorWriter, Count, Exit, commandVars, inputVars

-----------------------------------------------------------------------------
(* The report.                                                             *)

\* Nothing is reported at first.
LEMMA ReportInit == Init => ReportInv
  BY DEF Init, ReportInv

\* A diff is reported once, of the streams as they were read.
LEMMA ReportStep ==
    ASSUME InputInv, ReportInv, [Next]_commandVars
    PROVE  ReportInv'
<1>1. CASE pc \in Early
  <2>1. report = << >> /\ report' = report
    BY <1>1, EarlySteps DEF ReportInv, Early
  <2> QED
    BY <2>1 DEF ReportInv
<1>2. CASE pc \notin Early
  <2>1. /\ UNCHANGED <<cmd, streams>>
        /\ \/ RunFilter \/ WriteJSONList \/ WriteDocument \/ DocumentsWritten
           \/ CloseColorWriter \/ Count \/ Sum \/ Diff \/ Exit \/ UNCHANGED commandVars
    BY <1>2, LateSteps
  <2>2. \A item : IsADiff(item)' <=> IsADiff(item)
    BY <2>1 DEF IsADiff
  <2>3. CASE RunFilter \/ WriteJSONList \/ WriteDocument \/ DocumentsWritten
             \/ CloseColorWriter \/ Exit \/ UNCHANGED commandVars
    <3>1. report' = report /\ (pc' \notin {"exit", "done"} => pc \notin {"exit", "done"})
      BY <2>3 DEF RunFilter, WriteJSONList, WriteDocument, DocumentsWritten,
         CloseColorWriter, Exit, commandVars
    <3> QED
      BY <2>2, <3>1 DEF ReportInv
  <2>4. ASSUME pc = "run", pc' = "exit", NEW item, report' = <<item>>,
               item.type = "diff" => IsADiff(item)
        PROVE  ReportInv'
    <3>1. DOMAIN report' = {1} /\ report'[1] = item
      BY <2>4
    <3> QED
      BY <2>2, <2>4, <3>1 DEF ReportInv
  <2>5. CASE Count
    <3> DEFINE item == [type |-> "count",
                        counts |-> CountJSON(nodes, cmd.match, cmd.groupByKind)]
    <3>1. item.type # "diff"
      OBVIOUS
    <3>2. pc = "run" /\ pc' = "exit" /\ report' = <<item>>
      BY <2>5 DEF Count, Write, Fail
    <3> HIDE DEF item
    <3> QED
      BY <2>4, <3>1, <3>2
  <2>6. CASE Sum
    <3>1. SumItem(TheSum).type # "diff"
      BY DEF SumItem
    <3>2. pc = "run" /\ pc' = "exit" /\ (report' = report \/ report' = <<SumItem(TheSum)>>)
      BY <2>6, SumEffect
    <3>3. report = << >>
      BY <3>2 DEF ReportInv
    <3> QED
      BY <2>4, <3>1, <3>2, <3>3 DEF ReportInv
  <2>7. CASE Diff
    <3>1. pc = "run" /\ cmd.op = "diff" /\ pc' = "exit"
      BY <2>7, DiffEffect
    <3>2. report = << >> /\ Len(streams) = 2
      BY <3>1 DEF ReportInv, InputInv, Wanted
    <3>3. CASE report' = report
      BY <3>2, <3>3 DEF ReportInv
    <3>4. ASSUME ~DiffFails(streams[1], streams[2]),
                 NEW d \in DiffNodes(streams[1], streams[2]), report' = <<DiffItem(d)>>
          PROVE  ReportInv'
      <4>1. IsADiff(DiffItem(d))
        BY <3>2, <3>4 DEF IsADiff, DiffItem
      <4> QED
        BY <2>4, <3>1, <3>4, <4>1
    <3> QED
      BY <2>7, <3>3, <3>4, DiffEffect
  <2> QED
    BY <2>1, <2>3, <2>5, <2>6, <2>7
<1> QED
  BY <1>1, <1>2

\* Two streams of a run, when there are two.
LEMMA BothDocuments ==
    ASSUME InputInv, Len(streams) = 2
    PROVE  Documents(streams[1]) /\ Documents(streams[2])
<1>1. streams[1] \in StreamSet /\ streams[2] \in StreamSet
  BY DEF InputInv
<1> QED
  BY <1>1, StreamsAreDocuments

\* A reported diff lists every identity where it belongs, once, whatever the
\* streams and in whatever order the maps of the program are iterated over.
THEOREM DiffsAreExact == Spec => []DiffIsExact
<1>1. Init => InputInv /\ ReportInv
  BY InputInit, ReportInit
<1>2. InputInv /\ ReportInv /\ [Next]_commandVars => InputInv' /\ ReportInv'
  BY InputStep, ReportStep
<1>3. InputInv /\ ReportInv => DiffIsExact
  <2> SUFFICES ASSUME InputInv, ReportInv, NEW i \in DOMAIN report, report[i].type = "diff"
               PROVE  LET d == report[i].diff  before == streams[1]  after == streams[2]
                      IN  /\ ToSet(d.added) = Refs(after) \ Refs(before)
                          /\ ToSet(d.removed) = Refs(before) \ Refs(after)
                          /\ ToSet(d.modified) = Changed(before, after)
                          /\ \A list \in DOMAIN d : Len(d[list]) = Cardinality(ToSet(d[list]))
                          /\ DiffNodes(before, after) = {d}
    BY DEF DiffIsExact
  <2> DEFINE d == report[i].diff  before == streams[1]  after == streams[2]
  <2>1. /\ Len(streams) = 2 /\ ~DiffFails(before, after)
        /\ d \in DiffNodes(before, after)
    BY DEF ReportInv, IsADiff
  <2>2. Documents(before) /\ Documents(after)
    BY <2>1, BothDocuments
  <2> HIDE DEF d, before, after
  <2>3. IsExactDiff(d, before, after)
    BY <2>1, <2>2, DiffIs
  <2> QED
    BY <2>3 DEF IsExactDiff, d, before, after
<1> QED
  BY <1>1, <1>2, <1>3, PTL DEF Spec

-----------------------------------------------------------------------------
(* The verdict.                                                            *)

\* The verdict is about the command and its inputs.
LEMMA VerdictStays ==
    ASSUME UNCHANGED <<cmd, streams>>
    PROVE  /\ Source' = Source /\ Result' = Result /\ Refuses' = Refuses
           /\ Verdict' = Verdict /\ Noticed' = Noticed /\ Wanted' = Wanted
<1>1. Source' = Source
  BY DEF Source
<1>2. Result' = Result /\ Refuses' = Refuses
  BY <1>1 DEF Result, Refuses
<1>3. SomeOther(Result)' = SomeOther(Result)
  BY <1>2 DEF SomeOther
<1>4. Verdict' = Verdict
  BY <1>2, <1>3 DEF Verdict, Options
<1> QED
  BY <1>1, <1>2, <1>4 DEF Noticed, Wanted

\* No verdict before the end.
LEMMA VerdictInit == Init => VerdictInv
  BY DEF Init, VerdictInv

\* What the lemmas on the steps of a run start from.
VerdictStart == InputInv /\ OutcomeInv /\ VerdictInv

\* The inputs are read, or there is an error that says why not.
LEMMA EarlyVerdict ==
    ASSUME VerdictStart, pc \in Early, [Next]_commandVars
    PROVE  VerdictInv'
<1>1. /\ UNCHANGED <<cmd, report, buffer, stdout, lost, exit>>
      /\ \/ /\ pc' = "exit" /\ err' \in {"usage", "options", "open", "read"}
            /\ streams' = streams /\ Len(streams) < Wanted
         \/ pc' \in Early /\ err' = err
         \/ InputsRead
  BY EarlySteps DEF VerdictStart
<1>2. ~lost /\ err = "none" /\ (~cmd.tty => buffer = << >>)
  BY DEF VerdictStart, VerdictInv, OutcomeInv, Early
<1>3. CASE pc' = "exit" /\ err' \in {"usage", "options", "open", "read"}
           /\ streams' = streams /\ Len(streams) < Wanted
  <2>1. Wanted' = Wanted
    BY <1>1 DEF Wanted
  <2> QED
    BY <1>1, <1>2, <1>3, <2>1 DEF VerdictInv
<1>4. CASE pc' \in Early /\ err' = err
  BY <1>1, <1>2, <1>4 DEF VerdictInv, Early
<1>5. CASE InputsRead
  <2>1. pc' = "run" /\ err' = err /\ UNCHANGED <<cmd, streams>> /\ nodes' = Source
    BY <1>5 DEF InputsRead, inputVars, Source
  <2>2. Source' = Source
    BY <2>1, VerdictStays
  <2> QED
    BY <1>1, <1>2, <2>1, <2>2 DEF VerdictInv
<1> QED
  BY <1>1, <1>3, <1>4, <1>5

\* A step that ends the run with the verdict, or with a failed write.
LEMMA EndVerdict ==
    ASSUME VerdictStart, UNCHANGED <<cmd, streams, buffer>>, pc' = "exit",
           pc \in {"run", "write", "close"},
           \/ /\ err' = Verdict /\ err' # "write" /\ (err' = "assertion" => ~cmd.json)
              /\ lost' = lost \/ ~Noticed
           \/ err' = "write" /\ lost' = TRUE /\ Noticed
    PROVE  VerdictInv'
<1>1. /\ Verdict' = Verdict /\ Noticed' = Noticed /\ Wanted' = Wanted
  BY VerdictStays
<1>2. Len(streams) = Wanted
  BY DEF VerdictStart, InputInv
<1>3. ~lost /\ (~cmd.tty => buffer = << >>)
  BY DEF VerdictStart, VerdictInv
<1>4. err' = "write" => ExitCode' = 2
  BY DEF ExitCode
<1>5. lost' /\ Noticed' => ExitCode' = 2
  BY <1>1, <1>3, <1>4
<1>6. err' = "write" => lost' /\ Noticed'
  BY <1>1
<1>7. /\ Len(streams') = Wanted' /\ err' \in {Verdict', "write"}
  BY <1>1, <1>2
<1> QED
  BY <1>3, <1>5, <1>6, <1>7 DEF VerdictInv

\* The filter has the documents of the stream, and refuses them if one of them
\* cannot be had.
LEMMA FilterVerdict ==
    ASSUME VerdictStart, RunFilter
    PROVE  VerdictInv'
<1>1. /\ pc = "run" /\ cmd.op \notin Analyses /\ nodes = Source
      /\ UNCHANGED <<cmd, streams, buffer, lost>>
  BY DEF RunFilter, inputVars, outputVars, VerdictStart, VerdictInv
<1>2. Filtered = Result
  BY <1>1 DEF Filtered, Result
<1>3. FilterFails <=> Refuses
  BY <1>1 DEF FilterFails, Refuses
<1>4. ReorderFails(Filtered) <=> SomeOther(Result)
  BY <1>2 DEF ReorderFails, SomeOther
<1>5. CASE FilterFails \/ (~cmd.json /\ ReorderFails(Filtered))
  <2>1. Verdict = "filter"
    BY <1>1, <1>3, <1>4, <1>5 DEF Verdict, Analyses
  <2>2. pc' = "exit" /\ err' = "filter"
    BY <1>5 DEF RunFilter, Fail
  <2> QED
    BY <1>1, <2>1, <2>2, EndVerdict
<1>6. CASE ~(FilterFails \/ (~cmd.json /\ ReorderFails(Filtered)))
  <2>1. /\ pc' = "write" /\ err' = err
        /\ cmd.json => nodes' = Result
    BY <1>2, <1>6 DEF RunFilter
  <2>2. err = "none" /\ ~lost /\ (~cmd.tty => buffer = << >>)
    BY <1>1 DEF VerdictStart, OutcomeInv, VerdictInv
  <2>3. ~Refuses /\ (~cmd.json => ~SomeOther(Result))
    BY <1>3, <1>4, <1>6
  <2>4. Result' = Result /\ Refuses' = Refuses
    BY <1>1, VerdictStays
  <2>5. SomeOther(Result)' <=> SomeOther(Result)
    BY <2>4 DEF SomeOther
  <2> QED
    BY <1>1, <2>1, <2>2, <2>3, <2>4, <2>5 DEF VerdictInv
<1> QED
  BY <1>5, <1>6

\* Documents that are none cannot be part of a list; all others are written.
LEMMA WriteVerdict ==
    ASSUME VerdictStart, WriteJSONList \/ WriteDocument \/ DocumentsWritten \/ CloseColorWriter
    PROVE  VerdictInv'
<1>1. /\ cmd.op \notin Analyses \/ pc = "close"
      /\ UNCHANGED <<cmd, streams>> /\ pc \in {"write", "close"} /\ err = "none" /\ ~lost
      /\ ~cmd.tty => buffer = << >>
      /\ cmd \in Commands
  BY DEF WriteJSONList, WriteDocument, DocumentsWritten, CloseColorWriter, inputVars,
     VerdictStart, InputInv, OutcomeInv, VerdictInv
<1>2. pc = "write" =>
        /\ ~Refuses /\ (cmd.json => nodes = Result) /\ (~cmd.json => ~SomeOther(Result))
  BY DEF VerdictStart, VerdictInv
<1>3. cmd.tty => ~cmd.json
  BY <1>1, CommandsAssumption
<1>4. /\ Result' = Result /\ Refuses' = Refuses /\ Verdict' = Verdict
  BY <1>1, VerdictStays
<1>5. SomeOther(Result)' <=> SomeOther(Result)
  BY <1>4 DEF SomeOther
<1>6. CASE WriteJSONList
  <2>1. pc = "write" /\ cmd.json /\ buffer' = buffer
    BY <1>6 DEF WriteJSONList
  <2>2. SomeOther(nodes) <=> SomeOther(Result)
    BY <1>2, <2>1
  <2>3. CASE SomeOther(nodes)
    <3>1. pc' = "exit" /\ err' = "filter" /\ lost' = lost
      BY <1>6, <2>3 DEF WriteJSONList, SomeOther, Fail
    <3>2. Verdict = "filter"
      BY <1>1, <2>1, <2>2, <2>3 DEF Verdict, Analyses
    <3> QED
      BY <1>1, <2>1, <3>1, <3>2, EndVerdict
  <2>4. CASE ~SomeOther(nodes)
    <3>1. \/ pc' = "exit" /\ err' = "none" /\ lost' = lost
          \/ pc' = "exit" /\ err' = "write" /\ lost' = TRUE
      BY <1>1, <1>6, <2>4 DEF WriteJSONList, SomeOther, Write, Put, Fail
    <3>2. Verdict = "none" /\ Noticed
      BY <1>1, <1>2, <1>3, <2>1, <2>2, <2>4 DEF Verdict, Noticed, Analyses
    <3> QED
      BY <1>1, <2>1, <3>1, <3>2, EndVerdict
  <2> QED
    BY <2>3, <2>4
<1>7. CASE WriteDocument
  <2>1. pc = "write" /\ ~cmd.json
    BY <1>7 DEF WriteDocument
  <2>2. \/ /\ pc' = pc /\ err' = err /\ lost' = lost
           /\ ~cmd.tty => buffer' = buffer
        \/ /\ pc' = "exit" /\ err' = "write" /\ lost' = TRUE
           /\ ~cmd.tty /\ buffer' = buffer
    BY <1>7 DEF WriteDocument, Write, Put, Fail
  <2>3. CASE pc' = pc /\ err' = err /\ lost' = lost /\ (~cmd.tty => buffer' = buffer)
    BY <1>1, <1>2, <1>4, <1>5, <2>1, <2>3 DEF VerdictInv
  <2>4. CASE pc' = "exit" /\ err' = "write" /\ lost' = TRUE /\ ~cmd.tty /\ buffer' = buffer
    <3>1. Noticed
      BY <1>1, <2>1, <2>4 DEF Noticed, Analyses
    <3> QED
      BY <1>1, <2>4, <3>1, EndVerdict
  <2> QED
    BY <2>2, <2>3, <2>4
<1>8. CASE DocumentsWritten
  <2>1. pc = "write" /\ ~cmd.json /\ pc' = "close" /\ UNCHANGED <<err, lost, buffer>>
    BY <1>8 DEF DocumentsWritten, outputVars
  <2>2. Verdict = "none"
    BY <1>1, <1>2, <2>1 DEF Verdict, Analyses
  <2> QED
    BY <1>1, <1>4, <2>1, <2>2 DEF VerdictInv
<1>9. CASE CloseColorWriter
  <2>1. pc = "close" /\ pc' = "exit" /\ err' = err /\ buffer' = << >>
    BY <1>9 DEF CloseColorWriter
  <2>2. Verdict = "none"
    BY <2>1 DEF VerdictStart, VerdictInv
  <2>3. ~cmd.tty => lost' = lost
    BY <1>1, <1>9 DEF CloseColorWriter
  <2>4. Len(streams) = Wanted /\ Wanted' = Wanted /\ Noticed' = Noticed
    BY <1>1, <2>1, VerdictStays DEF VerdictStart, InputInv
  <2>5. lost' /\ Noticed' => FALSE
    BY <1>1, <2>3, <2>4 DEF Noticed
  <2> QED
    BY <1>1, <1>4, <2>1, <2>2, <2>4, <2>5 DEF VerdictInv
<1> QED
  BY <1>6, <1>7, <1>8, <1>9

\* A count has no verdict but what becomes of its output.
LEMMA CountVerdict ==
    ASSUME VerdictStart, Count
    PROVE  VerdictInv'
<1>1. /\ pc = "run" /\ cmd.op = "count" /\ pc' = "exit" /\ err = "none" /\ ~lost
      /\ UNCHANGED <<cmd, streams, buffer>>
  BY DEF Count, Write, Fail, inputVars, VerdictStart, OutcomeInv, VerdictInv
<1>2. Verdict = "none"
  BY <1>1 DEF Verdict
<1>3. CASE cmd.json
  <2>1. ~cmd.tty
    BY <1>3, CommandsAssumption DEF VerdictStart, InputInv
  <2>2. \/ err' = "none" /\ lost' = lost
        \/ err' = "write" /\ lost' = TRUE
    BY <1>1, <1>3 DEF Count, Write, Put, Fail
  <2> QED
    BY <1>1, <1>2, <1>3, <2>1, <2>2, EndVerdict DEF Noticed
<1>4. CASE ~cmd.json
  <2>1. err' = "none" /\ ~Noticed
    BY <1>1, <1>4 DEF Count, Noticed
  <2> QED
    BY <1>1, <1>2, <2>1, EndVerdict
<1> QED
  BY <1>3, <1>4

\* The verdict of a sum is that of the stream.
LEMMA SumVerdict ==
    ASSUME VerdictStart, Sum
    PROVE  VerdictInv'
<1>1. /\ pc = "run" /\ cmd.op = "sum" /\ pc' = "exit" /\ err = "none" /\ ~lost
      /\ UNCHANGED <<cmd, streams, buffer>>
  BY SumEffect DEF VerdictStart, OutcomeInv, VerdictInv
<1>2. TheSum = SumJSON(streams[1], Options)
  BY <1>1 DEF TheSum, Options, VerdictStart, VerdictInv, Source
<1>3. Verdict = IF TheSum.invalid THEN "invalid"
                ELSE IF TheSum.passed THEN "none"
                ELSE IF cmd.json THEN "reported" ELSE "assertion"
  BY <1>1, <1>2 DEF Verdict
<1>4. ~cmd.tty
  BY <1>1, CommandsAssumption DEF VerdictStart, InputInv, Analyses
<1>5. CASE TheSum.invalid
  <2>1. err' = "invalid" /\ lost' = lost
    BY <1>5, SumEffect
  <2>2. Verdict = "invalid"
    BY <1>3, <1>5
  <2> QED
    BY <1>1, <2>1, <2>2, EndVerdict
<1>6. CASE ~TheSum.invalid /\ cmd.json
  <2>1. Wrote(SumItem(TheSum), Verdict, "write") /\ Verdict \notin {"write", "assertion"}
    BY <1>1, <1>3, <1>6, SumEffect
  <2>2. \/ err' = Verdict /\ lost' = lost
        \/ err' = "write" /\ lost' = TRUE
    BY <2>1 DEF Wrote
  <2> QED
    BY <1>1, <1>4, <1>6, <2>1, <2>2, EndVerdict DEF Noticed
<1>7. CASE ~TheSum.invalid /\ ~cmd.json
  <2>1. Wrote(SumItem(TheSum), Verdict, Verdict) /\ Verdict # "write" /\ ~Noticed
    BY <1>1, <1>3, <1>7, SumEffect DEF Noticed
  <2>2. err' = Verdict
    BY <2>1 DEF Wrote
  <2> QED
    BY <1>1, <1>7, <2>1, <2>2, EndVerdict
<1> QED
  BY <1>5, <1>6, <1>7

\* The verdict of a diff is that of the two streams.
LEMMA DiffVerdict ==
    ASSUME VerdictStart, Diff
    PROVE  VerdictInv'
<1>1. /\ pc = "run" /\ cmd.op = "diff" /\ pc' = "exit" /\ err = "none" /\ ~lost
      /\ UNCHANGED <<cmd, streams, buffer>>
  BY DiffEffect DEF VerdictStart, OutcomeInv, VerdictInv
<1>2. Documents(streams[1]) /\ Documents(streams[2])
  BY <1>1, BothDocuments DEF VerdictStart, InputInv, Wanted
<1>3. /\ buildResourceMap(streams[1]).failed <=> ~Comparable(streams[1])
      /\ buildResourceMap(streams[2]).failed <=> ~Comparable(streams[2])
  BY <1>2, StreamIndex
<1>4. Noticed
  BY <1>1, CommandsAssumption DEF VerdictStart, InputInv, Noticed, Analyses
<1>5. CASE DiffFails(streams[1], streams[2])
  <2>1. Verdict = "invalid"
    BY <1>1, <1>3, <1>5 DEF Verdict, DiffFails
  <2>2. err' = "invalid" /\ lost' = lost
    BY <1>5, DiffEffect
  <2> QED
    BY <1>1, <2>1, <2>2, EndVerdict
<1>6. CASE ~DiffFails(streams[1], streams[2])
  <2>1. PICK d \in DiffNodes(streams[1], streams[2]) :
          LET verdict == IF HasChanges(d) THEN "differences" ELSE err
          IN  \/ Wrote(DiffItem(d), verdict, "write")
              \/ /\ ~cmd.json /\ ~HasChanges(d) /\ err' = verdict
                 /\ UNCHANGED <<stdout, room, lost>>
    BY <1>6, DiffEffect
  <2>2. HasChanges(d) <=> Differ(streams[1], streams[2])
    <3>1. IsExactDiff(d, streams[1], streams[2])
      BY <1>2, <1>6, DiffIs
    <3> QED
      BY <3>1 DEF IsExactDiff
  <2>3. Verdict = IF HasChanges(d) THEN "differences" ELSE "none"
    BY <1>1, <1>3, <1>6, <2>2 DEF Verdict, DiffFails
  <2>4. \/ err' = Verdict /\ lost' = lost
        \/ err' = "write" /\ lost' = TRUE
    BY <1>1, <2>1, <2>3 DEF Wrote
  <2>5. Verdict \notin {"write", "assertion"}
    BY <2>3
  <2> QED
    BY <1>1, <1>4, <2>4, <2>5, EndVerdict
<1> QED
  BY <1>5, <1>6

\* Reporting an error may fail, but then there was an error.
LEMMA ExitVerdict ==
    ASSUME VerdictStart, Exit
    PROVE  VerdictInv'
<1>1. pc = "exit" /\ pc' = "done" /\ UNCHANGED <<cmd, streams, err, buffer>>
  BY DEF Exit, inputVars
<1>2. /\ Verdict' = Verdict /\ Noticed' = Noticed /\ Wanted' = Wanted /\ ExitCode' = ExitCode
  BY <1>1, VerdictStays DEF ExitCode
<1>3. /\ \/ Len(streams) = Wanted /\ err \in {Verdict, "write"}
         \/ Len(streams) < Wanted /\ err \in {"usage", "options", "open", "read"}
      /\ err = "write" => lost /\ Noticed
      /\ err = "assertion" => ~cmd.json
      /\ lost /\ Noticed => ExitCode = 2
      /\ ~cmd.tty => buffer = << >>
  BY <1>1 DEF VerdictStart, VerdictInv
<1>4. lost' = lost \/ (lost' = TRUE /\ ~Silent /\ WantsJSON)
  BY DEF Exit, Put
<1>5. ~Silent /\ WantsJSON => ExitCode = 2
  BY <1>3 DEF Silent, WantsJSON, ExitCode
<1>6. /\ lost' /\ Noticed' => ExitCode' = 2
      /\ err' = "write" => lost' /\ Noticed'
  BY <1>1, <1>2, <1>3, <1>4, <1>5
<1> QED
  BY <1>1, <1>2, <1>3, <1>6 DEF VerdictInv

\* Every step comes to the verdict on the inputs or to an error of its own.
LEMMA VerdictStep ==
    ASSUME VerdictStart, [Next]_commandVars
    PROVE  VerdictInv'
<1>1. CASE pc \in Early
  BY <1>1, EarlyVerdict
<1>2. CASE pc \notin Early
  <2>1. \/ RunFilter \/ WriteJSONList \/ WriteDocument \/ DocumentsWritten
        \/ CloseColorWriter \/ Count \/ Sum \/ Diff \/ Exit \/ UNCHANGED commandVars
    BY <1>2, LateSteps
  <2>2. CASE UNCHANGED commandVars
    <3>1. UNCHANGED <<pc, cmd, streams, nodes, err, buffer, lost>>
      BY <2>2 DEF commandVars, inputVars, outputVars
    <3>2. /\ Source' = Source /\ Result' = Result /\ Refuses' = Refuses
          /\ Verdict' = Verdict /\ Noticed' = Noticed /\ Wanted' = Wanted
      BY <3>1, VerdictStays
    <3>3. SomeOther(Result)' <=> SomeOther(Result)
      BY <3>2 DEF SomeOther
    <3>4. ExitCode' = ExitCode
      BY <3>1 DEF ExitCode
    <3> QED
      BY <3>1, <3>2, <3>3, <3>4 DEF VerdictStart, VerdictInv
  <2> QED
    BY <2>1, <2>2, FilterVerdict, WriteVerdict, CountVerdict, SumVerdict, DiffVerdict,
       ExitVerdict
<1> QED
  BY <1>1, <1>2

-----------------------------------------------------------------------------
(* What a filter makes of a document.                                      *)

\* A filter keeps mappings only, a mutator or a substitution does not turn
\* documents into mappings, or mappings into anything else.
LEMMA ResultForms ==
    ASSUME cmd \in Commands, cmd.op \notin Analyses, Documents(streams[1])
    PROVE  /\ SomeOther(Result) <=> cmd.op \in {"mutate", "subst"} /\ SomeOther(streams[1])
           /\ Refuses <=> cmd.op = "mutate" /\ MutatorFails(streams[1], cmd.match)
<1> DEFINE docs == streams[1]
<1>1. Len(docs) \in Nat /\ DOMAIN docs = 1..Len(docs)
  BY DEF Documents
<1>2. \A i \in DOMAIN docs : IsManifest(docs[i])
  BY DEF Documents, IsInput, ToSet
<1>3. Refuses <=> cmd.op = "mutate" /\ MutatorFails(streams[1], cmd.match)
  BY DEF Refuses, Source
<1> HIDE DEF docs
<1>4. CASE cmd.op \in {"get", "drop"}
  <2>1. PICK P \in SUBSET (1..Len(docs)) :
          Result = ElementsAt(docs, P) /\ \A i \in P : Readable(docs[i])
    <3>1. CASE cmd.op = "get"
      <4>1. Result = GetFilter(docs, cmd.match)
        BY <3>1 DEF Result, Source, docs
      <4> DEFINE Q == {i \in DOMAIN docs : Readable(docs[i])
                                          /\ Match(docs[i], cmd.match, "and")}
      <4>2. Result = ElementsAt(docs, Q)
        BY <4>1 DEF GetFilter
      <4>3. Q \in SUBSET (1..Len(docs)) /\ \A i \in Q : Readable(docs[i])
        BY <1>1
      <4> HIDE DEF Q
      <4> QED
        BY <4>2, <4>3
    <3>2. CASE cmd.op = "drop"
      <4>1. Result = DropFilter(docs, cmd.match)
        BY <3>2 DEF Result, Source, docs
      <4> DEFINE Q == {i \in DOMAIN docs : Readable(docs[i])
                                          /\ ~Match(docs[i], cmd.match, "or")}
      <4>2. Result = ElementsAt(docs, Q)
        BY <4>1 DEF DropFilter
      <4>3. Q \in SUBSET (1..Len(docs)) /\ \A i \in Q : Readable(docs[i])
        BY <1>1
      <4> HIDE DEF Q
      <4> QED
        BY <4>2, <4>3
    <3> QED
      BY <1>4, <3>1, <3>2
  <2> DEFINE n == Len(docs)
  <2>a. n \in Nat /\ P \in SUBSET (1..n)
    BY <1>1
  <2> HIDE DEF n
  <2>2. \A k \in DOMAIN Result : \E p \in P : Result[k] = docs[p]
    <3>1. Lists(ElementsAt(docs, P), docs, P)
      BY <2>a, ElementsThere
    <3> QED
      BY <2>1, <3>1 DEF Lists
  <2>3. ~SomeOther(Result)
    BY <2>1, <2>2 DEF SomeOther, Readable
  <2> QED
    BY <1>3, <1>4, <2>3
<1>5. CASE cmd.op = "mutate"
  <2>1. Result = ScopedMutator(docs, cmd.match)
    BY <1>5 DEF Result, Source, docs
  <2>2. DOMAIN Result = DOMAIN docs /\ \A i \in DOMAIN docs : Result[i].form = docs[i].form
    BY <1>2, <2>1 DEF ScopedMutator, IsManifest
  <2>3. SomeOther(Result) <=> SomeOther(docs)
    BY <2>2 DEF SomeOther
  <2> QED
    BY <1>3, <1>5, <2>3 DEF docs
<1>6. CASE cmd.op = "subst"
  <2>1. Result = Eval(docs, EnvMapFromBytes(EnvFiles[cmd.env]))
    BY <1>6 DEF Result, Source, docs
  <2>2. DOMAIN Result = DOMAIN docs /\ \A i \in DOMAIN docs : Result[i].form = docs[i].form
    BY <1>2, <2>1 DEF Eval, IsManifest
  <2>3. SomeOther(Result) <=> SomeOther(docs)
    BY <2>2 DEF SomeOther
  <2> QED
    BY <1>3, <1>6, <2>3 DEF docs
<1>7. cmd.op \in {"get", "drop", "mutate", "subst"}
  BY CommandsAssumption
<1> QED
  BY <1>4, <1>5, <1>6, <1>7

\* The exit code tells what came out, whatever the command, the streams and the
\* writes that fail: 2 if the inputs could not be had or their output not be
\* written, and what the documents say otherwise.
THEOREM ExitCodesTellTheOutcome == Spec => []ExitCodeIsOutcome
<1>1. Init => VerdictStart
  BY InputInit, OutcomeInit, VerdictInit DEF VerdictStart
<1>2. VerdictStart /\ [Next]_commandVars => VerdictStart'
  BY InputStep, OutcomeStep, VerdictStep DEF VerdictStart
<1>3. VerdictStart => ExitCodeIsOutcome
  <2> DEFINE Outcome ==
               IF cmd.op = "diff" THEN
                    IF ~Comparable(streams[1]) \/ ~Comparable(streams[2]) THEN 2
                    ELSE IF Differ(streams[1], streams[2]) THEN 1 ELSE 0
               ELSE IF cmd.op = "sum" THEN
                    IF ~Summable(streams[1]) THEN 2
                    ELSE IF AssertionsHold(streams[1]) THEN 0 ELSE 1
               ELSE IF cmd.op = "mutate" /\ MutatorFails(streams[1], cmd.match) THEN 2
               ELSE IF cmd.op \in {"mutate", "subst"} /\ SomeOther(streams[1])
               THEN 2 ELSE 0
             Unnoticed == ~(lost /\ (cmd.json \/ cmd.op \notin {"count", "sum"}) /\ ~cmd.tty)
  <2> SUFFICES ASSUME VerdictStart, pc = "done"
               PROVE  exit = IF Len(streams) < Wanted \/ ~Unnoticed THEN 2 ELSE Outcome
    BY DEF ExitCodeIsOutcome, SomeOther, Wanted
  <2>1. /\ exit = ExitCode /\ cmd \in Commands
        /\ \/ Len(streams) = Wanted /\ err \in {Verdict, "write"}
           \/ Len(streams) < Wanted /\ err \in {"usage", "options", "open", "read"}
        /\ err = "write" => ~Unnoticed
        /\ ~Unnoticed => ExitCode = 2
    BY DEF VerdictStart, InputInv, OutcomeInv, VerdictInv, Noticed
  <2> HIDE DEF Unnoticed, Outcome
  <2>2. Wanted \in Nat
    BY DEF Wanted
  <2>3. ASSUME Len(streams) = Wanted, err = Verdict
        PROVE  ExitCode = Outcome
    <3>1. Documents(streams[1])
      <4>1. streams \in Seq(StreamSet) /\ Len(streams) \in 1..2
        BY <2>3 DEF VerdictStart, InputInv, Wanted
      <4>2. streams[1] \in StreamSet
        BY <4>1
      <4> QED
        BY <4>2, StreamsAreDocuments
    <3>2. CASE cmd.op = "diff"
      <4>1. Verdict = IF ~Comparable(streams[1]) \/ ~Comparable(streams[2]) THEN "invalid"
                      ELSE IF Differ(streams[1], streams[2]) THEN "differences" ELSE "none"
        BY <3>2 DEF Verdict
      <4> QED
        BY <2>3, <3>2, <4>1 DEF ExitCode, Outcome
    <3>3. CASE cmd.op = "sum"
      <4> DEFINE sum == SumJSON(streams[1], Options)
      <4>1. Verdict = IF sum.invalid THEN "invalid"
                      ELSE IF sum.passed THEN "none"
                      ELSE IF cmd.json THEN "reported" ELSE "assertion"
        BY <3>3 DEF Verdict
      <4>2. /\ sum.invalid <=> ~Summable(streams[1])
            /\ ~sum.invalid => sum.passed = AssertionsHold(streams[1])
        BY <2>1, <3>1, SumIsAsStated
      <4> HIDE DEF sum
      <4> QED
        BY <2>3, <3>3, <4>1, <4>2 DEF ExitCode, Outcome
    <3>4. CASE cmd.op = "count"
      BY <2>3, <3>4 DEF Verdict, ExitCode, Outcome
    <3>5. CASE cmd.op \notin Analyses
      <4>1. Verdict = IF Refuses \/ SomeOther(Result) THEN "filter" ELSE "none"
        BY <3>5 DEF Verdict, Analyses
      <4>2. /\ SomeOther(Result) <=> cmd.op \in {"mutate", "subst"} /\ SomeOther(streams[1])
            /\ Refuses <=> cmd.op = "mutate" /\ MutatorFails(streams[1], cmd.match)
        BY <2>1, <3>1, <3>5, ResultForms
      <4> QED
        BY <2>3, <3>5, <4>1, <4>2 DEF ExitCode, Outcome, Analyses
    <3> QED
      BY <3>2, <3>3, <3>4, <3>5 DEF Analyses
  <2>4. err \in {"usage", "options", "open", "read"} => ExitCode = 2
    BY DEF ExitCode
  <2>5. Len(streams) = Wanted => ~(Len(streams) < Wanted)
    BY <2>2
  <2> QED
    BY <2>1, <2>3, <2>4, <2>5
<1> QED
  BY <1>1, <1>2, <1>3, PTL DEF Spec

-----------------------------------------------------------------------------
(* Documents that are written.                                             *)

\* What a filter makes of what a document holds.
NewValue(docs, i) ==
    [of |-> docs[i].value.of,
     mutated |-> (cmd.op = "mutate" /\ i \in InScope(docs, cmd.match)),
     hole |-> Substituted(docs[i].value.hole)]

\* Where a document that is kept comes out.
PlaceOf(docs, i) == Cardinality({j \in Kept(docs) : j <= i})

\* The documents that are kept come out in their order, with what the filter makes
\* of them.
IsResult(docs) ==
    /\ AnySequence(Result) /\ Len(Result) = Cardinality(Kept(docs))
    /\ \A i \in Kept(docs) :
         /\ PlaceOf(docs, i) \in DOMAIN Result
         /\ Result[PlaceOf(docs, i)] = Holding(docs[i], NewValue(docs, i))

\* get and drop write the documents that they keep.
LEMMA SelectedAre ==
    ASSUME Documents(streams[1]), cmd.op \in {"get", "drop"}, ~NoCriteria(cmd.match)
    PROVE  IsResult(streams[1])
<1> DEFINE docs == streams[1]
           P == Kept(docs)
           n == Len(docs)
<1>1. n \in Nat /\ DOMAIN docs = 1..n
  BY DEF Documents
<1>2. \A i \in DOMAIN docs : IsManifest(docs[i])
  BY DEF Documents, IsInput, ToSet
<1>3. P \in SUBSET (1..n)
  BY <1>1 DEF Kept
<1>4. Result = ElementsAt(docs, P)
  <2>1. CASE cmd.op = "get"
    <3>1. P = {i \in DOMAIN docs : Readable(docs[i]) /\ Match(docs[i], cmd.match, "and")}
      BY <2>1 DEF Kept, Match
    <3>2. Result = GetFilter(docs, cmd.match)
      BY <2>1 DEF Result, Source
    <3> QED
      BY <3>1, <3>2 DEF GetFilter
  <2>2. CASE cmd.op = "drop"
    <3>1. P = {i \in DOMAIN docs : Readable(docs[i]) /\ ~Match(docs[i], cmd.match, "or")}
      BY <2>2 DEF Kept, Match
    <3>2. Result = DropFilter(docs, cmd.match)
      BY <2>2 DEF Result, Source
    <3> QED
      BY <3>1, <3>2 DEF DropFilter
  <2> QED
    BY <2>1, <2>2
<1> HIDE DEF n, P, docs
<1>5. Lists(Result, docs, P)
  BY <1>1, <1>3, <1>4, ElementsThere
<1>6. AnySequence(Result) /\ Len(Result) = Cardinality(P)
  <2>1. /\ Cardinality(P) \in Nat /\ Result = [k \in 1..Cardinality(P) |-> Result[k]]
    BY <1>5 DEF Lists
  <2> QED
    BY <2>1, FunctionIsSeq
<1>7. ASSUME NEW i \in P
      PROVE  Holding(docs[i], NewValue(docs, i)) = docs[i]
  <2>1. IsManifest(docs[i])
    BY <1>1, <1>2, <1>3
  <2>2. NewValue(docs, i) = [of |-> docs[i].value.of, mutated |-> FALSE,
                             hole |-> docs[i].value.hole]
    BY DEF NewValue, Substituted
  <2> QED
    BY <2>1, <2>2, HoldingItsOwn
<1>8. \A i \in P : /\ PlaceOf(docs, i) \in DOMAIN Result
                   /\ Result[PlaceOf(docs, i)] = docs[i]
  BY <1>5 DEF Lists, PlaceOf, P
<1> QED
  BY <1>6, <1>7, <1>8 DEF IsResult, P, docs

\* Where all documents are kept, each keeps its place.
LEMMA AllKept ==
    ASSUME NEW docs, Documents(docs), cmd.op \in {"mutate", "subst"}
    PROVE  /\ Kept(docs) = DOMAIN docs /\ Cardinality(Kept(docs)) = Len(docs)
           /\ \A i \in DOMAIN docs : PlaceOf(docs, i) = i
<1>1. Len(docs) \in Nat /\ DOMAIN docs = 1..Len(docs)
  BY DEF Documents
<1>2. Kept(docs) = DOMAIN docs
  BY DEF Kept
<1>3. ASSUME NEW n \in Nat
      PROVE  Cardinality(1..n) = n
  BY FS_Interval
<1>4. ASSUME NEW i \in DOMAIN docs
      PROVE  PlaceOf(docs, i) = i
  <2>1. i \in Nat /\ {j \in DOMAIN docs : j <= i} = 1..i
    BY <1>1
  <2> QED
    BY <1>2, <1>3, <2>1 DEF PlaceOf
<1> QED
  BY <1>1, <1>2, <1>3, <1>4

\* Mutators mark the documents in their scope, and change no others.
LEMMA MutatedAre ==
    ASSUME Documents(streams[1]), cmd.op = "mutate"
    PROVE  IsResult(streams[1])
<1> DEFINE docs == streams[1]
           n == Len(docs)
<1>1. n \in Nat /\ DOMAIN docs = 1..n
  BY DEF Documents
<1>2. \A i \in DOMAIN docs : IsManifest(docs[i])
  BY DEF Documents, IsInput, ToSet
<1>3. Result = ScopedMutator(docs, cmd.match)
  BY DEF Result, Source
<1>4. /\ Kept(docs) = DOMAIN docs /\ Cardinality(Kept(docs)) = n
      /\ \A i \in DOMAIN docs : PlaceOf(docs, i) = i
  BY AllKept
<1> HIDE DEF docs, n
<1>5. Result = [i \in 1..n |-> Result[i]]
  BY <1>1, <1>3 DEF ScopedMutator
<1>6. AnySequence(Result) /\ Len(Result) = n /\ DOMAIN Result = 1..n
  BY <1>1, <1>5, FunctionIsSeq
<1>7. ASSUME NEW i \in DOMAIN docs
      PROVE  Result[i] = Holding(docs[i], NewValue(docs, i))
  <2> DEFINE d == docs[i]
  <2>1. IsManifest(d) /\ Value(d.value, d.value.of, FALSE, d.value.hole)
    <3>1. IsManifest(d)
      BY <1>2
    <3>2. d.value.hole = [is |-> d.value.hole.is, of |-> d.value.hole.of]
      BY <3>1 DEF IsManifest
    <3> QED
      BY <3>1, <3>2 DEF IsManifest, Value
  <2>2. Substituted(d.value.hole) = d.value.hole
    BY DEF Substituted
  <2>3. CASE i \in InScope(docs, cmd.match)
    <3>1. Result[i] = [d EXCEPT !.value.mutated = TRUE]
      BY <1>3, <2>3 DEF ScopedMutator
    <3>2. NewValue(docs, i) = [of |-> d.value.of, mutated |-> TRUE, hole |-> d.value.hole]
      BY <2>2, <2>3 DEF NewValue
    <3> HIDE DEF d
    <3>3. Value([d.value EXCEPT !.mutated = TRUE], d.value.of, TRUE, d.value.hole)
      BY <2>1, PlaceExcept
    <3>4. [d EXCEPT !.value.mutated = TRUE]
            = [d EXCEPT !.value = [d.value EXCEPT !.mutated = TRUE]]
      OBVIOUS
    <3> QED
      BY <3>1, <3>2, <3>3, <3>4 DEF Holding, Value, d
  <2>4. CASE i \notin InScope(docs, cmd.match)
    <3>1. Result[i] = d
      BY <1>3, <2>4 DEF ScopedMutator
    <3>2. NewValue(docs, i) = [of |-> d.value.of, mutated |-> FALSE, hole |-> d.value.hole]
      BY <2>2, <2>4 DEF NewValue
    <3> QED
      BY <2>1, <3>1, <3>2, HoldingItsOwn
  <2> QED
    BY <2>3, <2>4
<1> QED
  BY <1>1, <1>4, <1>6, <1>7 DEF IsResult, docs

\* subst replaces the variables, each by its last value.
LEMMA SubstitutedAre ==
    ASSUME Documents(streams[1]), cmd.op = "subst", cmd.env \in DOMAIN EnvFiles
    PROVE  IsResult(streams[1])
<1> DEFINE docs == streams[1]
           n == Len(docs)
           lines == EnvFiles[cmd.env]
           env == EnvMapFromBytes(lines)
           value(v) == IF v \in DOMAIN env THEN env[v] ELSE ""
<1>1. n \in Nat /\ DOMAIN docs = 1..n
  BY DEF Documents
<1>2. \A i \in DOMAIN docs : IsManifest(docs[i])
  BY DEF Documents, IsInput, ToSet
<1>3. Result = Eval(docs, env)
  BY DEF Result, Source
<1>4. /\ Kept(docs) = DOMAIN docs /\ Cardinality(Kept(docs)) = n
      /\ \A i \in DOMAIN docs : PlaceOf(docs, i) = i
  BY AllKept
<1>5. lines \in Seq(ToSet(lines))
  BY EnvFilesAssumption
<1>6. EnvAfter(env, lines, Len(lines)) /\ DOMAIN lines = 1..Len(lines)
  BY <1>5, EnvIs
<1> HIDE DEF docs, n, env
<1>7. ASSUME NEW hole, hole.is = "variable"
      PROVE  Substituted(hole) = [is |-> "text", of |-> value(hole.of)]
  <2>1. {i \in DOMAIN lines : lines[i].form = "assignment" /\ lines[i].key = hole.of}
          = Assigned(lines, hole.of, Len(lines))
    BY <1>6 DEF Assigned
  <2>2. value(hole.of) = IF Assigned(lines, hole.of, Len(lines)) = {} THEN ""
                         ELSE lines[Max(Assigned(lines, hole.of, Len(lines)))].value
    BY <1>6 DEF EnvAfter
  <2> HIDE DEF value
  <2> QED
    BY <1>7, <2>1, <2>2 DEF Substituted
<1> HIDE DEF lines
<1>8. DOMAIN Result = 1..n /\ Result = [i \in 1..n |-> Result[i]]
  BY <1>1, <1>3 DEF Eval
<1>9. AnySequence(Result) /\ Len(Result) = n
  BY <1>1, <1>8, FunctionIsSeq
<1>10. ASSUME NEW i \in DOMAIN docs
       PROVE  Result[i] = Holding(docs[i], NewValue(docs, i))
  <2> DEFINE d == docs[i]
  <2>1. /\ IsManifest(d)
        /\ Value(d.value, d.value.of, FALSE, d.value.hole)
    <3>1. IsManifest(d)
      BY <1>2
    <3>2. d.value.hole = [is |-> d.value.hole.is, of |-> d.value.hole.of]
      BY <3>1 DEF IsManifest
    <3> QED
      BY <3>1, <3>2 DEF IsManifest, Value
  <2>2. NewValue(docs, i) = [of |-> d.value.of, mutated |-> FALSE,
                             hole |-> Substituted(d.value.hole)]
    BY DEF NewValue
  <2>3. CASE d.value.hole.is = "variable"
    <3> DEFINE text == [is |-> "text", of |-> value(d.value.hole.of)]
    <3>1. Result[i] = [d EXCEPT !.value.hole = text]
      BY <1>3, <2>3 DEF Eval
    <3>2. Substituted(d.value.hole) = text
      BY <1>7, <2>3
    <3> HIDE DEF text
    <3> HIDE DEF d
    <3>3. Value([d.value EXCEPT !.hole = text], d.value.of, FALSE, text)
      BY <2>1, PlaceExcept
    <3>4. [d EXCEPT !.value.hole = text] = [d EXCEPT !.value = [d.value EXCEPT !.hole = text]]
      OBVIOUS
    <3> QED
      BY <2>2, <3>1, <3>2, <3>3, <3>4 DEF Holding, Value, d
  <2>4. CASE d.value.hole.is # "variable"
    <3>1. Result[i] = d
      BY <1>3, <2>4 DEF Eval
    <3>2. Substituted(d.value.hole) = d.value.hole
      BY <2>4 DEF Substituted
    <3> QED
      BY <2>1, <2>2, <3>1, <3>2, HoldingItsOwn
  <2> QED
    BY <2>3, <2>4
<1> QED
  BY <1>1, <1>4, <1>8, <1>9, <1>10 DEF IsResult, docs

\* What the filters come to.
LEMMA ResultIs ==
    ASSUME cmd \in Commands, cmd.op \notin Analyses, Documents(streams[1]),
           cmd.op \in {"get", "drop"} => ~NoCriteria(cmd.match),
           cmd.op = "subst" => cmd.env \in DOMAIN EnvFiles
    PROVE  IsResult(streams[1])
<1>1. cmd.op \in {"get", "drop", "mutate", "subst"}
  BY CommandsAssumption
<1> QED
  BY <1>1, SelectedAre, MutatedAre, SubstitutedAre

-----------------------------------------------------------------------------
(* What there is of what is to be written.                                 *)

\* get and drop go on with a criterion only, subst with a .env file only.
OptionsInv ==
    /\ pc \notin {"parse", "options"} /\ err = "none" /\ cmd.op \in {"get", "drop"} =>
         ~NoCriteria(cmd.match)
    /\ streams # << >> /\ cmd.op = "subst" => cmd.env \in DOMAIN EnvFiles

\* What the lemmas on the writing of a stream start from.
FilterStart == VerdictStart /\ OptionsInv /\ FilterInv

\* The options are looked at before anything else is done.
LEMMA OptionsStep ==
    ASSUME VerdictStart, OptionsInv, [Next]_commandVars
    PROVE  OptionsInv'
<1>1. CASE pc \in Early
  <2>1. UNCHANGED cmd
    BY <1>1, EarlySteps DEF VerdictStart
  <2>2. err = "none"
    BY <1>1 DEF VerdictStart, OutcomeInv, Early
  <2>3. CASE ParseFails
    BY <2>1, <2>3 DEF ParseFails, Fail, OptionsInv, inputVars
  <2>4. CASE Parsed
    BY <2>1, <2>4 DEF Parsed, OptionsInv, inputVars
  <2>5. CASE CheckOptions
    BY <2>1, <2>2, <2>5 DEF CheckOptions, Fail, OptionsInv, inputVars
  <2>6. CASE OpenInput
    BY <2>1, <2>2, <2>6 DEF OpenInput, Fail, OptionsInv, inputVars
  <2>7. CASE OpenDiffInputs
    BY <2>1, <2>7 DEF OpenDiffInputs, Fail, OptionsInv, inputVars
  <2>8. CASE ReadNodes
    <3>1. pc = "read" /\ (err' = "none" => pc' = "read")
      BY <2>8 DEF ReadNodes, Fail
    <3>2. \/ streams' = streams
          \/ cmd.op = "subst" => cmd.env \in DOMAIN EnvFiles
      BY <2>8 DEF ReadNodes, EvalFails
    <3> QED
      BY <2>1, <2>2, <3>1, <3>2 DEF OptionsInv
  <2>9. CASE InputsRead
    BY <2>1, <2>2, <2>9 DEF InputsRead, OptionsInv, inputVars
  <2>10. CASE UNCHANGED commandVars
    BY <2>10 DEF commandVars, OptionsInv, inputVars
  <2>11. ParseFails \/ Parsed \/ CheckOptions \/ OpenInput \/ OpenDiffInputs
         \/ ReadNodes \/ InputsRead \/ UNCHANGED commandVars
    BY <1>1 DEF Early, Next, RunFilter, WriteJSONList, WriteDocument, DocumentsWritten,
       CloseColorWriter, Count, Sum, Diff, Exit
  <2> QED
    BY <2>3, <2>4, <2>5, <2>6, <2>7, <2>8, <2>9, <2>10, <2>11
<1>2. CASE pc \notin Early
  <2>1. /\ UNCHANGED <<cmd, streams>>
        /\ \/ RunFilter \/ WriteJSONList \/ WriteDocument \/ DocumentsWritten
           \/ CloseColorWriter \/ Count \/ Sum \/ Diff \/ Exit \/ UNCHANGED commandVars
    BY <1>2, LateSteps
  <2>2. err' = "none" => err = "none"
    <3>1. CASE pc \notin {"exit", "done"}
      BY <3>1 DEF VerdictStart, OutcomeInv
    <3>2. CASE pc \in {"exit", "done"}
      BY <2>1, <3>2 DEF RunFilter, WriteJSONList, WriteDocument, DocumentsWritten,
         CloseColorWriter, Count, Sum, Diff, Exit, commandVars
    <3> QED
      BY <3>1, <3>2
  <2> QED
    BY <1>2, <2>1, <2>2 DEF OptionsInv, Early
<1> QED
  BY <1>1, <1>2

\* What comes out of a filter is a sequence, and so is what of it is written.
LEMMA ReadyIs ==
    ASSUME VerdictStart, OptionsInv, cmd.op \notin Analyses, Len(streams) = Wanted,
           pc \notin Early, err = "none"
    PROVE  /\ Documents(streams[1]) /\ IsResult(streams[1])
           /\ AnySequence(Result) /\ AnySequence(Ready) /\ Len(Ready) = Len(Result)
           /\ ~cmd.json => Ready = [i \in 1..Len(Result) |-> Reorder(Result[i])]
<1>1. cmd \in Commands /\ streams \in Seq(StreamSet) /\ Len(streams) \in 1..2
  BY DEF VerdictStart, InputInv, Wanted
<1>2. Documents(streams[1]) /\ streams # << >>
  <2>1. streams[1] \in StreamSet /\ streams # << >>
    BY <1>1
  <2> QED
    BY <2>1, StreamsAreDocuments
<1>3. IsResult(streams[1])
  BY <1>1, <1>2, ResultIs DEF OptionsInv, Early
<1>4. AnySequence(Result)
  BY <1>3 DEF IsResult
<1> DEFINE n == Len(Result)
<1>5. n \in Nat /\ DOMAIN Result = 1..n
  BY <1>4 DEF AnySequence
<1>6. ~cmd.json => Ready = [i \in 1..n |-> Reorder(Result[i])]
  BY <1>5 DEF Ready, ReorderFilter
<1>7. cmd.json => Ready = Result
  BY DEF Ready
<1>8. AnySequence(Ready) /\ Len(Ready) = n
  <2> HIDE DEF n
  <2>1. CASE cmd.json
    BY <1>4, <1>7, <2>1 DEF n
  <2>2. CASE ~cmd.json
    <3>1. Ready = [i \in 1..n |-> Ready[i]]
      BY <1>6, <2>2
    <3> QED
      BY <1>5, <3>1, FunctionIsSeq
  <2> QED
    BY <2>1, <2>2
<1> QED
  BY <1>2, <1>3, <1>4, <1>6, <1>8

\* What is to be written is a matter of the command and its inputs.
LEMMA ReadyStays ==
    ASSUME UNCHANGED <<cmd, streams>>
    PROVE  /\ Result' = Result /\ Ready' = Ready
           /\ \A k : FirstOf(Ready, k)' = FirstOf(Ready, k) /\ RestOf(Ready, k)' = RestOf(Ready, k)
<1>1. Result' = Result
  BY VerdictStays
<1>2. Ready' = Ready
  BY <1>1 DEF Ready, ReorderFilter
<1> QED
  BY <1>1, <1>2 DEF FirstOf, RestOf

\* Nothing is written before the filter has run.
LEMMA EarlyFilter ==
    ASSUME FilterStart, pc \in Early, [Next]_commandVars
    PROVE  FilterInv'
<1>1. /\ UNCHANGED <<cmd, report, buffer, stdout, lost, exit>>
      /\ \/ /\ pc' = "exit" /\ err' \in {"usage", "options", "open", "read"}
            /\ streams' = streams /\ Len(streams) < Wanted
         \/ pc' \in Early /\ err' = err
         \/ InputsRead
  BY EarlySteps DEF FilterStart, VerdictStart
<1>2. CASE cmd.op \in Analyses
  BY <1>1, <1>2 DEF FilterInv
<1>3. CASE cmd.op \notin Analyses
  <2>1. stdout = << >> /\ buffer = << >>
    BY <1>3 DEF FilterStart, FilterInv, Early
  <2>2. \/ pc' = "exit" /\ err' # "none"
        \/ pc' \in {"parse", "options", "open", "read", "run"}
    BY <1>1 DEF InputsRead, Early
  <2> QED
    BY <1>1, <2>1, <2>2 DEF FilterInv
<1> QED
  BY <1>2, <1>3

\* The filter hands over all that it makes of the stream.
LEMMA RunFilterFilter ==
    ASSUME FilterStart, RunFilter
    PROVE  FilterInv'
<1>1. /\ pc = "run" /\ cmd.op \notin Analyses /\ nodes = Source
      /\ UNCHANGED <<cmd, streams, buffer, stdout, lost>>
  BY DEF RunFilter, inputVars, outputVars, FilterStart, VerdictStart, VerdictInv
<1>2. stdout = << >> /\ buffer = << >>
  BY <1>1 DEF FilterStart, FilterInv
<1>3. Filtered = Result
  BY <1>1 DEF Filtered, Result
<1>4. CASE pc' = "exit" /\ err' = "filter"
  BY <1>1, <1>2, <1>4 DEF FilterInv
<1>5. CASE pc' = "write" /\ nodes' = IF cmd.json THEN Filtered ELSE ReorderFilter(Filtered)
  <2>1. nodes' = Ready
    BY <1>3, <1>5 DEF Ready
  <2>2. Len(streams) = Wanted /\ err = "none"
    BY <1>1 DEF FilterStart, VerdictStart, InputInv, OutcomeInv
  <2>3. AnySequence(Ready)
    BY <1>1, <2>2, ReadyIs DEF FilterStart, Early
  <2>4. /\ Len(Ready) \in Nat /\ RestOf(Ready, 0) = Ready /\ FirstOf(Ready, 0) = << >>
    BY <2>3, AllOrNone
  <2>5. Ready' = Ready
    BY <1>1, ReadyStays
  <2>6. /\ nodes' = RestOf(Ready', 0) /\ 0 \in 0..Len(Ready')
        /\ FirstOf(Ready', 0) = << >> /\ stdout' = << >> /\ buffer' = << >>
    BY <1>1, <1>2, <2>1, <2>4, <2>5
  <2> HIDE DEF Ready
  <2> QED
    BY <1>5, <2>6 DEF FilterInv
<1> QED
  BY <1>4, <1>5 DEF RunFilter, Fail

\* A list is written in one go.
LEMMA WriteListFilter ==
    ASSUME FilterStart, WriteJSONList
    PROVE  FilterInv'
<1>1. /\ pc = "write" /\ cmd.json /\ UNCHANGED <<cmd, streams, buffer>>
      /\ cmd.op \notin Analyses /\ err = "none"
  BY DEF WriteJSONList, inputVars, FilterStart, VerdictStart, InputInv, OutcomeInv
<1>2. stdout = << >> /\ buffer = << >> /\ nodes = Result
  BY <1>1 DEF FilterStart, FilterInv, VerdictStart, VerdictInv
<1>3. Result' = Result
  BY <1>1, ReadyStays
<1> DEFINE list == [type |-> "list", docs |-> nodes]
<1>4. \/ pc' = "exit" /\ err' = "filter" /\ stdout' = stdout
      \/ pc' = "exit" /\ err' = "none" /\ stdout' = Append(stdout, list)
      \/ pc' = "exit" /\ lost' = TRUE
  BY <1>1 DEF WriteJSONList, Write, Put, Fail
<1>5. Append(stdout, list) = <<list>>
  BY <1>2
<1>6. AllWritten' <=> stdout' = <<list>>
  BY <1>1, <1>2, <1>3 DEF AllWritten
<1> HIDE DEF list
<1> QED
  BY <1>1, <1>2, <1>4, <1>5, <1>6 DEF FilterInv

\* A document is written when those before it are.
LEMMA WriteDocumentFilter ==
    ASSUME FilterStart, WriteDocument
    PROVE  FilterInv'
<1>1. /\ pc = "write" /\ ~cmd.json /\ nodes # << >> /\ UNCHANGED <<cmd, streams>>
      /\ cmd.op \notin Analyses /\ err = "none" /\ Len(streams) = Wanted
      /\ nodes' = Tail(nodes)
  BY DEF WriteDocument, inputVars, FilterStart, VerdictStart, InputInv, OutcomeInv
<1>2. AnySequence(Ready)
  BY <1>1, ReadyIs DEF FilterStart, Early
<1>3. PICK k \in 0..Len(Ready) :
        /\ nodes = RestOf(Ready, k)
        /\ stdout = IF cmd.tty THEN << >> ELSE FirstOf(Ready, k)
        /\ buffer = IF cmd.tty THEN FirstOf(Ready, k) ELSE << >>
  BY <1>1 DEF FilterStart, FilterInv
<1>4. Ready' = Ready
  BY <1>1, ReadyStays
<1> DEFINE R == Ready  n == Len(R)
<1> HIDE DEF R
<1>r. R = Ready
  BY DEF R
<1>5. n \in Nat /\ k # n
  <2>1. n \in Nat /\ \A j \in Nat : j = n => RestOf(R, j) = << >>
    <3>1. n \in Nat
      BY <1>2, AllOrNone DEF R
    <3>2. RestOf(R, n) = [i \in 1..n - n |-> R[n + i]]
      BY DEF RestOf
    <3>3. 1..n - n = {}
      BY <3>1
    <3> HIDE DEF n
    <3>4. RestOf(R, n) = << >>
      BY <3>2, <3>3
    <3> QED
      BY <3>1, <3>4
  <2> QED
    BY <1>1, <1>3, <2>1, <1>r
<1>6. k \in Nat /\ k < n
  <2> HIDE DEF n
  <2>1. k \in 0..n
    BY <1>3 DEF n, R
  <2> QED
    BY <1>5, <2>1
<1>7. /\ Tail(RestOf(R, k)) = RestOf(R, k + 1)
      /\ Append(FirstOf(R, k), DocItem(Head(RestOf(R, k)))) = FirstOf(R, k + 1)
  BY <1>2, <1>6, <1>r, NextDocument
<1>8. k + 1 \in 0..n
  <2> HIDE DEF n
  <2> QED
    BY <1>5, <1>6
<1> DEFINE item == [type |-> "doc", doc |-> Head(nodes)]
<1>9. item = DocItem(Head(RestOf(R, k)))
  BY <1>3, <1>r DEF DocItem
<1>10. \/ /\ cmd.tty /\ buffer' = Append(buffer, item) /\ UNCHANGED <<pc, err, stdout, lost>>
       \/ /\ ~cmd.tty /\ stdout' = Append(stdout, item) /\ UNCHANGED <<pc, err, buffer, lost>>
       \/ /\ pc' = "exit" /\ lost' = TRUE
  BY DEF WriteDocument, Write, Put, Fail
<1>11. nodes' = RestOf(R, k + 1)
  BY <1>1, <1>3, <1>7, <1>r
<1> HIDE DEF item, n
<1>12. k + 1 \in 0..Len(R) /\ R' = R
  BY <1>4, <1>8 DEF n, R
<1>13. CASE cmd.tty /\ buffer' = Append(buffer, item) /\ UNCHANGED <<pc, err, stdout, lost>>
  <2>1. stdout' = << >> /\ buffer' = FirstOf(R, k + 1)
    BY <1>3, <1>7, <1>9, <1>13, <1>r
  <2>2. /\ k + 1 \in 0..Len(Ready') /\ nodes' = RestOf(Ready', k + 1)
        /\ stdout' = << >> /\ buffer' = FirstOf(Ready', k + 1) /\ cmd'.tty
        /\ pc' = "write" /\ ~cmd'.json
    BY <1>1, <1>4, <1>11, <1>12, <1>13, <2>1, <1>r
  <2> QED
    BY <2>2 DEF FilterInv
<1>14. CASE ~cmd.tty /\ stdout' = Append(stdout, item) /\ UNCHANGED <<pc, err, buffer, lost>>
  <2>1. buffer' = << >> /\ stdout' = FirstOf(R, k + 1)
    BY <1>3, <1>7, <1>9, <1>14, <1>r
  <2>2. /\ k + 1 \in 0..Len(Ready') /\ nodes' = RestOf(Ready', k + 1)
        /\ buffer' = << >> /\ stdout' = FirstOf(Ready', k + 1) /\ ~cmd'.tty
        /\ pc' = "write" /\ ~cmd'.json
    BY <1>1, <1>4, <1>11, <1>12, <1>14, <2>1, <1>r
  <2> QED
    BY <2>2 DEF FilterInv
<1>15. CASE pc' = "exit" /\ lost' = TRUE
  BY <1>15 DEF FilterInv
<1> QED
  BY <1>10, <1>13, <1>14, <1>15

\* When none is left all have been written.
LEMMA WrittenFilter ==
    ASSUME FilterStart, DocumentsWritten
    PROVE  FilterInv'
<1>1. /\ pc = "write" /\ ~cmd.json /\ nodes = << >> /\ UNCHANGED <<cmd, streams>>
      /\ cmd.op \notin Analyses /\ err = "none" /\ Len(streams) = Wanted
      /\ pc' = "close" /\ UNCHANGED <<stdout, buffer>>
  BY DEF DocumentsWritten, inputVars, outputVars, FilterStart, VerdictStart, InputInv,
     OutcomeInv
<1>2. AnySequence(Ready)
  BY <1>1, ReadyIs DEF FilterStart, Early
<1>3. PICK k \in 0..Len(Ready) :
        /\ nodes = RestOf(Ready, k)
        /\ stdout = IF cmd.tty THEN << >> ELSE FirstOf(Ready, k)
        /\ buffer = IF cmd.tty THEN FirstOf(Ready, k) ELSE << >>
  BY <1>1 DEF FilterStart, FilterInv
<1>4. k = Len(Ready)
  BY <1>1, <1>2, <1>3, AllOrNone
<1>5. Ready' = Ready
  BY <1>1, ReadyStays
<1> QED
  BY <1>1, <1>3, <1>4, <1>5 DEF FilterInv

\* What the terminal's writer has held back comes out as it went in.
LEMMA CloseFilter ==
    ASSUME FilterStart, CloseColorWriter
    PROVE  FilterInv'
<1>1. /\ pc = "close" /\ UNCHANGED <<cmd, streams, err>> /\ err = "none"
      /\ pc' = "exit" /\ buffer' = << >> /\ ~cmd.json /\ Len(streams) = Wanted
  BY DEF CloseColorWriter, inputVars, FilterStart, VerdictStart, InputInv, OutcomeInv
<1>2. CASE cmd.op \in Analyses
  BY <1>1, <1>2 DEF FilterInv
<1>3. CASE cmd.op \notin Analyses
  <2> DEFINE all == FirstOf(Ready, Len(Ready))
  <2>1. /\ stdout = IF cmd.tty THEN << >> ELSE all
        /\ buffer = IF cmd.tty THEN all ELSE << >>
    BY <1>1, <1>3 DEF FilterStart, FilterInv
  <2>2. all' = all
    BY <1>1, ReadyStays
  <2>3. AnySequence(all)
    <3>1. AnySequence(Ready)
      BY <1>1, <1>3, ReadyIs DEF FilterStart, Early
    <3>2. Len(Ready) \in Nat
      BY <3>1, AllOrNone
    <3> DEFINE n == Len(Ready)
    <3>3. all = [i \in 1..n |-> DocItem(Ready[i])]
      BY DEF FirstOf
    <3> HIDE DEF all, n
    <3>4. all = [i \in 1..n |-> all[i]]
      BY <3>3
    <3>5. n \in Nat
      BY <3>2 DEF n
    <3> QED
      BY <3>4, <3>5, FunctionIsSeq
  <2>4. AllWritten' <=> stdout' = all
    <3>1. AllWritten' <=> stdout' = all'
      BY <1>1 DEF AllWritten
    <3> QED
      BY <2>2, <3>1
  <2> HIDE DEF all
  <2>5. << >> \o all = all
    BY <2>3, ConcatEmptySeq DEF AnySequence
  <2>6. \/ buffer = << >> /\ stdout' = stdout
        \/ buffer # << >> /\ stdout' = stdout \o buffer
        \/ lost' = TRUE
    BY DEF CloseColorWriter
  <2>7. lost' = TRUE \/ stdout' = all
    BY <2>1, <2>5, <2>6
  <2> QED
    BY <1>1, <2>4, <2>7 DEF FilterInv
<1> QED
  BY <1>2, <1>3

\* At the end an error may be added, where nothing was written.
LEMMA ExitFilter ==
    ASSUME FilterStart, Exit
    PROVE  FilterInv'
<1>1. pc = "exit" /\ pc' = "done" /\ UNCHANGED <<cmd, streams, err, buffer>>
  BY DEF Exit, inputVars
<1>2. CASE cmd.op \in Analyses
  BY <1>1, <1>2 DEF FilterInv
<1>3. CASE cmd.op \notin Analyses
  <2>1. ~lost => IF err = "none" THEN AllWritten ELSE stdout = << >>
    BY <1>1, <1>3 DEF FilterStart, FilterInv
  <2>2. AllWritten' <=> stdout' = IF cmd.json THEN << [type |-> "list", docs |-> Result] >>
                                  ELSE FirstOf(Ready, Len(Ready))
    <3>1. /\ Result' = Result /\ Ready' = Ready
      BY <1>1, ReadyStays
    <3> QED
      BY <1>1, <3>1 DEF AllWritten
  <2> DEFINE item == [type |-> "error", reason |-> err]
  <2>3. \/ stdout' = stdout /\ lost' = lost
        \/ err # "none" /\ stdout' = Append(stdout, item) /\ lost' = lost
        \/ lost' = TRUE
    BY DEF Exit, Put, Silent
  <2>4. CASE lost' = TRUE
    BY <1>1, <2>4 DEF FilterInv
  <2>5. CASE stdout' = stdout /\ lost' = lost
    <3>1. AllWritten' <=> AllWritten
      BY <2>2, <2>5 DEF AllWritten
    <3> QED
      BY <1>1, <2>1, <2>5, <3>1 DEF FilterInv
  <2>6. CASE err # "none" /\ stdout' = Append(stdout, item) /\ lost' = lost
    <3>1. ~lost => stdout' = <<item>>
      BY <2>1, <2>6
    <3>2. item.type = "error"
      OBVIOUS
    <3> HIDE DEF item
    <3>3. ~lost => \A i \in DOMAIN stdout' : stdout'[i].type = "error"
      BY <3>1, <3>2
    <3> QED
      BY <1>1, <2>6, <3>3 DEF FilterInv
  <2> QED
    BY <2>3, <2>4, <2>5, <2>6
<1> QED
  BY <1>2, <1>3

\* Every step writes what comes next, or nothing.
LEMMA FilterStep ==
    ASSUME FilterStart, [Next]_commandVars
    PROVE  FilterInv'
<1>1. CASE pc \in Early
  BY <1>1, EarlyFilter
<1>2. CASE pc \notin Early
  <2>1. /\ UNCHANGED <<cmd, streams>>
        /\ \/ RunFilter \/ WriteJSONList \/ WriteDocument \/ DocumentsWritten
           \/ CloseColorWriter \/ Count \/ Sum \/ Diff \/ Exit \/ UNCHANGED commandVars
    BY <1>2, LateSteps
  <2>2. CASE Count \/ Sum \/ Diff
    <3>1. cmd.op \in Analyses
      BY <2>2 DEF Count, Sum, Diff, Analyses
    <3> QED
      BY <2>1, <3>1 DEF FilterInv
  <2>3. CASE UNCHANGED commandVars
    <3>1. UNCHANGED <<pc, cmd, streams, nodes, err, stdout, buffer, lost>>
      BY <2>3 DEF commandVars, inputVars, outputVars
    <3>2. Result' = Result /\ Ready' = Ready
      BY <3>1, ReadyStays
    <3>3. AllWritten' <=> AllWritten
      BY <3>1, <3>2 DEF AllWritten
    <3> QED
      BY <3>1, <3>2, <3>3 DEF FilterStart, FilterInv
  <2> QED
    BY <2>1, <2>2, <2>3, RunFilterFilter, WriteListFilter, WriteDocumentFilter,
       WrittenFilter, CloseFilter, ExitFilter
<1> QED
  BY <1>1, <1>2

\* A stream that was filtered is written as a whole or not at all, whatever the
\* stream and the filter: the documents that were kept, in their order, each with
\* what the filter makes of it and nothing else changed.
THEOREM StreamsAreExact == Spec => []StreamIsExact
<1>1. Init => FilterStart
  <2>1. Init => OptionsInv /\ FilterInv
    BY DEF Init, OptionsInv, FilterInv
  <2> QED
    BY <2>1, InputInit, OutcomeInit, VerdictInit DEF FilterStart, VerdictStart
<1>2. FilterStart /\ [Next]_commandVars => FilterStart'
  <2>1. ASSUME FilterStart, [Next]_commandVars
        PROVE  VerdictStart' /\ OptionsInv' /\ FilterInv'
    BY <2>1, InputStep, OutcomeStep, VerdictStep, OptionsStep, FilterStep
       DEF FilterStart, VerdictStart
  <2> QED
    BY <2>1 DEF FilterStart
<1>3. FilterStart => StreamIsExact
  <2> DEFINE docs == streams[1]
             IsDoc(d, i) ==
               /\ [d EXCEPT !.value = docs[i].value, !.fields = docs[i].fields,
                            !.metaFields = docs[i].metaFields] = docs[i]
               /\ d.value.of = docs[i].value.of
               /\ d.value.hole = Substituted(docs[i].value.hole)
               /\ d.value.mutated = (cmd.op = "mutate" /\ i \in InScope(docs, cmd.match))
               /\ SameManifest([d EXCEPT !.value = docs[i].value], docs[i])
               /\ ~cmd.json => InOrder(d)
  <2> SUFFICES ASSUME FilterStart, pc = "done", cmd.op \notin Analyses, ~lost
               PROVE  IF exit # 0 THEN \A i \in DOMAIN stdout : stdout[i].type = "error"
                      ELSE /\ Len(Written) = Cardinality(Kept(docs))
                           /\ \A i \in Kept(docs) : IsDoc(Written[PlaceOf(docs, i)], i)
    BY DEF StreamIsExact, InOrder, PlaceOf
  <2>1. exit = ExitCode /\ (exit # 0 <=> err # "none")
    BY DEF FilterStart, VerdictStart, OutcomeInv, ExitCode
  <2>2. CASE err # "none"
    BY <2>1, <2>2 DEF FilterStart, FilterInv
  <2>3. CASE err = "none"
    <3>1. AllWritten
      BY <2>3 DEF FilterStart, FilterInv
    <3>2. Len(streams) = Wanted
      BY <2>3 DEF FilterStart, VerdictStart, VerdictInv
    <3>3. /\ Documents(docs) /\ IsResult(docs)
          /\ AnySequence(Result) /\ AnySequence(Ready) /\ Len(Ready) = Len(Result)
          /\ ~cmd.json => Ready = [i \in 1..Len(Result) |-> Reorder(Result[i])]
      BY <2>3, <3>2, ReadyIs DEF FilterStart, Early
    <3>4. Written = Ready
      <4>1. CASE cmd.json
        <5>1. stdout[1].docs = Result
          BY <3>1, <4>1 DEF AllWritten
        <5> QED
          BY <4>1, <5>1 DEF Written, Ready
      <4>2. CASE ~cmd.json
        <5> DEFINE R == Ready  n == Len(R)
        <5>1. R = [i \in 1..n |-> R[i]]
          BY <3>3 DEF AnySequence
        <5>2. stdout = [i \in 1..n |-> DocItem(R[i])]
          BY <3>1, <4>2 DEF AllWritten, FirstOf
        <5> HIDE DEF n, R
        <5>3. DOMAIN stdout = 1..n /\ \A i \in 1..n : stdout[i].doc = R[i]
          BY <5>2 DEF DocItem
        <5>4. Written = [i \in 1..n |-> R[i]]
          BY <4>2, <5>3 DEF Written
        <5> QED
          BY <5>1, <5>4, Zenon DEF R
      <4> QED
        BY <4>1, <4>2
    <3>5. Len(Written) = Cardinality(Kept(docs))
      BY <3>3, <3>4 DEF IsResult
    <3>6. ASSUME NEW i \in Kept(docs)
          PROVE  IsDoc(Written[PlaceOf(docs, i)], i)
      <4> DEFINE k == PlaceOf(docs, i)
                 v == NewValue(docs, i)
                 d == Written[k]
      <4>1. k \in 1..Len(Result) /\ Result[k] = Holding(docs[i], v)
        BY <3>3 DEF IsResult, AnySequence
      <4>2. IsManifest(docs[i])
        BY <3>3 DEF Documents, IsInput, ToSet, Kept
      <4>3. /\ v.of = docs[i].value.of
            /\ v.mutated = (cmd.op = "mutate" /\ i \in InScope(docs, cmd.match))
            /\ v.hole = Substituted(docs[i].value.hole)
        BY DEF NewValue
      <4> HIDE DEF v, k
      <4>4. IsOf(d, docs[i], v) /\ (~cmd.json => InOrder(d))
        <5>1. CASE cmd.json
          <6>1. d = Holding(docs[i], v)
            BY <3>4, <4>1, <5>1 DEF Ready
          <6> QED
            BY <4>2, <5>1, <6>1, HeldIs
        <5>2. CASE ~cmd.json
          <6>1. d = Reorder(Holding(docs[i], v))
            BY <3>3, <3>4, <4>1, <5>2
          <6> QED
            BY <4>2, <6>1, ReorderedIs
        <5> QED
          BY <5>1, <5>2
      <4> QED
        BY <4>3, <4>4 DEF IsOf, k
    <3> QED
      BY <2>1, <2>3, <3>5, <3>6
  <2> QED
    BY <2>2, <2>3
<1> QED
  BY <1>1, <1>2, <1>3, PTL DEF Spec
=============================================================================
