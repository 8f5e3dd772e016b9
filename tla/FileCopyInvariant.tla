------------------------- MODULE FileCopyInvariant -------------------------
(***************************************************************************)
(* The inductive invariant of FileCopy: at each statement of the test, the *)
(* two FileData and the output are what reading and writing make of the    *)
(* files there were, and the comparisons so far had their results.         *)
(***************************************************************************)
EXTENDS FileCopy

\* What the test has read first, it could read.
FirstIsRead ==
    pc \notin {"read", "failed"} =>
        \E file \in Files : CanRead(file) /\ first = readFile(file)

OutputIsWritten ==
    /\ pc \in {"read", "define"} => output = NoFile
    /\ pc = "write" => output = writeMetadata(first.metadata)
    /\ pc \in {"readAgain", "compare", "compareData", "same", "different"} =>
          output = writeData(writeMetadata(first.metadata), first.data)

OpenedFile ==
    /\ pc \in {"define", "write"} => opened \in Files
    /\ pc \in {"compare", "compareData", "same", "different"} =>
          opened \in Files \cup {output} /\ CanRead(opened)
    /\ pc = "failed" => ~CanRead(opened)

SecondIsRead ==
    /\ pc \in {"read", "define", "write", "readAgain"} => second = EmptyFileData
    /\ pc = "compare" => second = [metadata |-> readMetadata(opened), data |-> NoMap]
    /\ pc \in {"compareData", "same"} => second = readFile(opened)

Compared ==
    /\ pc \in {"compareData", "same"} => MetadataEqual(first.metadata, second.metadata)
    /\ pc = "same" => DataEqual(first.data, second.data)
    /\ pc = "different" => opened # output

IInv ==
    /\ TypeOK /\ CanRead(output)
    /\ FirstIsRead /\ OutputIsWritten /\ OpenedFile /\ SecondIsRead /\ Compared
=============================================================================
