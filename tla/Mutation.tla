------------------------------ MODULE Mutation ------------------------------
(***************************************************************************)
(* What a mutating command promises of a stream: document after document   *)
(* is changed as its command says if it is in the scope, and left alone    *)
(* otherwise; if one cannot be changed, or is then nothing to be written,  *)
(* nothing comes out at all.  Documents are values here, and what becomes  *)
(* of one depends on it and on the command alone.                          *)
(***************************************************************************)
EXTENDS TreeEdits

CONSTANTS
    Commands,   \* the commands
    Streams     \* and the streams of documents

VARIABLES
    command,    \* the command that runs,
    docs,       \* the documents,
    turn,       \* the next one to look at,
    pass,       \* the output goes through the same command a second time
    outcome     \* "running", "failed", "written" (as YAML) or "listed" (as JSON)

mutationVars == <<command, docs, turn, pass, outcome>>

-----------------------------------------------------------------------------
MutationInit ==
    /\ command \in Commands /\ docs \in Streams
    /\ turn = 1 /\ pass = 1 /\ outcome = "running"

MutateDocument ==
    /\ outcome = "running" /\ turn <= Len(docs)
    /\ LET doc == docs[turn]
       IN  IF Selected(doc, command.match)
           THEN /\ ~Refused(command, doc)
                /\ docs' = [docs EXCEPT ![turn] = Mutated(command, doc)]
           ELSE UNCHANGED docs
    /\ turn' = turn + 1
    /\ UNCHANGED <<command, pass, outcome>>

RefuseDocument ==
    /\ outcome = "running" /\ turn <= Len(docs)
    /\ LET doc == docs[turn] IN Selected(doc, command.match) /\ Refused(command, doc)
    /\ outcome' = "failed" /\ docs' = << >>
    /\ UNCHANGED <<command, turn, pass>>

\* All documents, if the writer takes each of them, or nothing.
Write(takes(_), result) ==
    /\ outcome = "running" /\ turn > Len(docs)
    /\ IF \A i \in DOMAIN docs : takes(docs[i])
       THEN outcome' = result /\ UNCHANGED docs
       ELSE outcome' = "failed" /\ docs' = << >>
    /\ UNCHANGED <<command, turn, pass>>

WriteStream == Write(YamlWrites, "written")

WriteList == Write(LAMBDA doc : Kind(doc, << >>) = "map", "listed")

SecondPass ==
    /\ outcome = "written" /\ pass = 1
    /\ pass' = 2 /\ turn' = 1 /\ outcome' = "running"
    /\ docs' = ReadBack(docs)
    /\ UNCHANGED command

MutationNext ==
    MutateDocument \/ RefuseDocument \/ WriteStream \/ WriteList \/ SecondPass

MutationSpec == MutationInit /\ [][MutationNext]_mutationVars
=============================================================================
