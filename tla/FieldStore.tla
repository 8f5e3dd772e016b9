----------------------------- MODULE FieldStore -----------------------------
(***************************************************************************)
(* What Monio promises to a program that computes fields and keeps them in *)
(* files: a store of whole files and, for each call, when it may touch     *)
(* which of them.  A write takes the file at its path away and leaves a    *)
(* new one there at its end; a read fills one field after another from the *)
(* file at its path; a failure loses the file being written and nothing    *)
(* else.  How files are laid out, opened and cached is left to Monio.      *)
(***************************************************************************)
CONSTANTS
    Grid, Path, Field, Value,
    None,                \* no file; no call
    Calls,               \* the calls the program may make
    GivenFiles,          \* the store before the first job
    GivenNames,          \* the names the fields of a new job have
    NamesFor(_),         \* the names a write may give field f
    Filled(_, _, _, _),  \* Filled(c, file, f, old): what the read c may leave in
                         \* field f, which held old; file is None when torn
    Written(_, _, _)     \* Written(c, values, names): the file the write c leaves

VARIABLES
    store,   \* the file at each path, None when there is none or it is torn
    values,  \* the program's fields, per grid
    names,   \* and their names
    torn,    \* the grids this job knows only from a torn file
    call,    \* the call in progress, or None
    due,     \* the fields a read has still to fill
    up       \* the job is running

vars == <<store, values, names, torn, call, due, up>>

Reads(c)  == c.op \in {"readState", "readIncrements"}
Writes(c) == c.op \in {"writeState", "writeIncrements", "writeFieldSet"}
Learns(c) == Reads(c) \/ c.op = "initialiseFile"

InProgress == call # None

Init ==
    /\ store = GivenFiles
    /\ values \in [Grid -> [Field -> Value]]
    /\ names = [g \in Grid |-> GivenNames]
    /\ torn = {} /\ call = None /\ due = {} /\ up = TRUE
----------------------------------------------------------------------------
\* The program computes a field between two calls.
Compute(g, f, v) ==
    /\ up /\ ~ InProgress
    /\ values' = [values EXCEPT ![g][f] = v]
    /\ UNCHANGED <<store, names, torn, call, due, up>>

Begin(c) ==
    /\ up /\ ~ InProgress
    /\ call' = c
    /\ due' = IF Reads(c) THEN c.fields ELSE {}
    /\ UNCHANGED <<store, values, names, torn, up>>

\* The files a call may learn from: its own, or one opened before.
Sources(c) == IF c.path \in Path THEN {c.path} ELSE Path

\* The file describes the call's grid: what the job knew of that is forgotten.
Learn ==
    /\ InProgress /\ Learns(call)
    /\ \/ torn' = torn \ {call.grid}
       \/ /\ \E p \in Sources(call) : store[p] = None
          /\ torn' = torn \cup {call.grid}
    /\ UNCHANGED <<store, values, names, call, due, up>>

\* A read fills a field.
Fill(f) ==
    /\ InProgress /\ Reads(call)
    /\ f \in due
    /\ \E v \in Filled(call, store[call.path], f, values[call.grid][f]) :
          values' = [values EXCEPT ![call.grid][f] = v]
    /\ due' = due \ {f}
    /\ UNCHANGED <<store, names, torn, call, up>>

\* A write takes the old file away.
Remove ==
    /\ InProgress /\ Writes(call)
    /\ store' = [store EXCEPT ![call.path] = None]
    /\ UNCHANGED <<values, names, torn, call, due, up>>

\* A write gives one of its fields the name that has in the file.
Rename(f) ==
    /\ InProgress /\ Writes(call)
    /\ f \in call.fields
    /\ \E n \in NamesFor(f) : names' = [names EXCEPT ![call.grid][f] = n]
    /\ UNCHANGED <<store, values, torn, call, due, up>>

\* A read ends when it has filled every field.
EndRead ==
    /\ InProgress /\ Learns(call) /\ due = {}
    /\ call' = None
    /\ UNCHANGED <<store, values, names, torn, due, up>>

\* A write ends with its file in the store, unless it lays the fields out for a
\* grid that was learnt from a torn file.
EndWrite ==
    /\ InProgress /\ Writes(call) /\ store[call.path] = None
    /\ store' = IF call.op # "writeFieldSet" /\ call.grid \in torn
                THEN store
                ELSE [store EXCEPT ![call.path] = Written(call, values, names)]
    /\ call' = None
    /\ UNCHANGED <<values, names, torn, due, up>>

\* The job fails, and may take the file it was to write with it.
Fail ==
    /\ up
    /\ \/ UNCHANGED store
       \/ InProgress /\ Writes(call) /\ store' = [store EXCEPT ![call.path] = None]
    /\ call' = None /\ due' = {} /\ torn' = {} /\ up' = FALSE
    /\ UNCHANGED <<values, names>>

\* The next job, over the store and the fields as they are.
NewJob ==
    /\ ~ InProgress
    /\ names' = [g \in Grid |-> GivenNames]
    /\ torn' = {} /\ up' = TRUE
    /\ UNCHANGED <<store, values, call, due>>
----------------------------------------------------------------------------
Next ==
    \/ \E g \in Grid, f \in Field, v \in Value : Compute(g, f, v)
    \/ \E c \in Calls : Begin(c)
    \/ \E f \in Field : Fill(f) \/ Rename(f)
    \/ Learn \/ Remove \/ EndRead \/ EndWrite \/ Fail \/ NewJob

Spec == Init /\ [][Next]_vars
=============================================================================
