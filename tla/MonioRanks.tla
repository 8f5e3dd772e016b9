----------------------------- MODULE MonioRanks -----------------------------
(***************************************************************************)
(* One Monio per PE.  Every PE (MPI rank) makes the same calls with its    *)
(* own part of each field; the owner alone touches files and FileData.     *)
(* Nothing but the messages of halo exchange, gather and scatter keeps the *)
(* PEs together, so one may be calls ahead of another, and each decides    *)
(* for itself, from a disk they share, whether a file is there to read.    *)
(*                                                                         *)
(* What the owner does with a file is one step here (Monio has the detail);*)
(* a field is one value per PE, and a value is the number of the call that *)
(* computed it, so that a mixture of two versions can be told from either. *)
(***************************************************************************)
EXTENDS Naturals, Sequences, FiniteSets

CONSTANTS
    Rank,          \* the PEs of the communicator
    Owner,         \* consts::kMPIRankOwner
    Halo,          \* pairs {r, s} of PEs with points in each other's halo
    Path,          \* file paths
    NField,        \* fields of the field set, in the order of fieldMetadataVec
    Skipped,       \* fields LFRic lacks: lfricReadName is in kMissingVariableNames
    InputFiles,    \* the paths that hold a file at the start
    Calls,         \* the calls a program is made of
    ProgramLength, \* bound: calls in a program
    IOMayFail      \* whether the owner may meet an NcException

LFRIC == "LFRic"
JEDI  == "JEDI"

ASSUME RanksAssumption ==
    /\ Owner \in Rank
    /\ \A h \in Halo : h \subseteq Rank /\ Cardinality(h) = 2

ASSUME FieldsAssumption ==
    NField \in Nat \ {0} /\ Skipped \subseteq 1..NField

ASSUME ProgramAssumption ==
    /\ ProgramLength \in Nat
    /\ Calls \subseteq [op: {"read", "write", "initialise", "compute"}, path: Path,
                        conv: {LFRIC, JEDI}]

Fields     == 1..NField
Others     == Rank \ {Owner}
Neighbours(r) == {s \in Rank : {r, s} \in Halo}

\* The value an input file holds, and the values the calls of a program compute.
InputValue == ProgramLength + 1
Version    == 0..InputValue

NoFile == [conv |-> LFRIC, data |-> <<>>, exists |-> FALSE]

VARIABLES
    program,   \* the calls every PE makes
    at,        \* per PE: the number of the call it is in, or will make next
    pc,        \* per PE: its next step in that call
    fld,       \* per PE: the field its loop is at
    own,       \* per PE and field: the value at the PE's own points
    ghost,     \* per PE, field and neighbour: the value at its halo points
    result,    \* per PE: what its last initialiseFile returned
    global,    \* the owner's global field: a value for every PE's points
    disk,      \* the file at each path
    haloBox,   \* messages of halo exchanges, per sender and receiver
    gatherBox, \* messages of gathers, per sender
    scatterBox \* messages of scatters, per receiver

data  == <<own, ghost, result, global, disk>>
boxes == <<haloBox, gatherBox, scatterBox>>
vars  == <<program, at, pc, fld, data, boxes>>

PC == {"ready", "sendHalo", "recvHalo", "gather", "file", "scatter",
       "sendHalo2", "recvHalo2", "dead"}

\* A message names the call, field and step it was sent in; only the value is
\* really sent, the rest is there to say what the receiver should be doing.
Message == [at: 1..ProgramLength, fld: Fields, step: {"before", "after", "root"},
            val: Version]

TypeOK ==
    /\ program \in [1..ProgramLength -> Calls]
    /\ at \in [Rank -> 1..ProgramLength + 1]
    /\ pc \in [Rank -> PC]
    /\ fld \in [Rank -> Fields]
    /\ own \in [Rank -> [Fields -> Version]]
    /\ DOMAIN ghost = Rank
    /\ \A r \in Rank : ghost[r] \in [Fields -> [Neighbours(r) -> Version]]
    /\ result \in [Rank -> {LFRIC, JEDI}]
    /\ global \in [Rank -> Version]
    /\ DOMAIN disk = Path
    /\ \A p \in Path :
          /\ disk[p].exists \in BOOLEAN /\ disk[p].conv \in {LFRIC, JEDI}
          /\ \A f \in DOMAIN disk[p].data : disk[p].data[f] \in [Rank -> Version]
    /\ haloBox \in [Rank -> [Rank -> Seq(Message)]]
    /\ gatherBox \in [Others -> Seq(Message)]
    /\ scatterBox \in [Others -> Seq(Message)]

\* A file of the model.
InputFile == [conv |-> LFRIC, exists |-> TRUE,
              data |-> [f \in Fields \ Skipped |-> [r \in Rank |-> InputValue]]]

Init ==
    /\ program \in [1..ProgramLength -> Calls]
    /\ at = [r \in Rank |-> 1]
    /\ pc = [r \in Rank |-> "ready"]
    /\ fld = [r \in Rank |-> 1]
    /\ own = [r \in Rank |-> [f \in Fields |-> 0]]
    /\ ghost = [r \in Rank |-> [f \in Fields |-> [s \in Neighbours(r) |-> 0]]]
    /\ result = [r \in Rank |-> LFRIC]
    /\ global = [r \in Rank |-> 0]
    /\ disk = [p \in Path |-> IF p \in InputFiles THEN InputFile ELSE NoFile]
    /\ haloBox = [r \in Rank |-> [s \in Rank |-> <<>>]]
    /\ gatherBox = [r \in Others |-> <<>>]
    /\ scatterBox = [r \in Others |-> <<>>]
----------------------------------------------------------------------------
Running(r) == at[r] <= ProgramLength
CallOf(r)  == program[at[r]]
Aborted    == \E r \in Rank : pc[r] = "dead"

Goto(r, next) == pc' = [pc EXCEPT ![r] = next]

\* The call is over; the next one starts at its first field.
Return(r) ==
    /\ Goto(r, "ready")
    /\ at' = [at EXCEPT ![r] = @ + 1]
    /\ fld' = [fld EXCEPT ![r] = 1]

\* Mutant: one field too many.
pastLastField(r) == fld[r] = NField + 1

LastField(r) == fld[r] = NField

\* The tail of the loop over the fields.
NextField(r) ==
    IF LastField(r)
    THEN Return(r)
    ELSE /\ fld' = [fld EXCEPT ![r] = @ + 1]
         /\ Goto(r, "sendHalo")
         /\ UNCHANGED at

\* utils::throwException: MPI abort, which reaches the other PEs in time (Die).
throwException(r) ==
    /\ Goto(r, "dead")
    /\ UNCHANGED <<program, at, fld, data, boxes>>

Die(r) ==
    /\ Aborted /\ pc[r] # "dead"
    /\ throwException(r)
----------------------------------------------------------------------------
(* The calls. *)

Compute(r) ==
    /\ pc[r] = "ready" /\ Running(r) /\ CallOf(r).op = "compute"
    /\ own' = [own EXCEPT ![r] = [f \in Fields |-> at[r]]]
    /\ Return(r)
    /\ UNCHANGED <<program, ghost, result, global, disk, boxes>>

\* utils::fileExists, on every PE, before anything else a read does.
BeginRead(r) ==
    /\ pc[r] = "ready" /\ Running(r) /\ CallOf(r).op = "read"
    /\ IF disk[CallOf(r).path].exists
       THEN /\ Goto(r, "sendHalo")
            /\ UNCHANGED <<program, at, fld, data, boxes>>
       ELSE throwException(r)

\* Mutant: Writer::openFile where the first field is written.
createLater(p) == disk[p]

\* Writer::openFile with NcFile::replace.
openFile(p) == [conv |-> LFRIC, data |-> <<>>, exists |-> TRUE]

\* The owner opens its output before the first field is gathered.
BeginWrite(r) ==
    /\ pc[r] = "ready" /\ Running(r) /\ CallOf(r).op = "write"
    /\ disk' = IF r = Owner
               THEN [disk EXCEPT ![CallOf(r).path] = openFile(CallOf(r).path)]
               ELSE disk
    /\ Goto(r, "sendHalo")
    /\ UNCHANGED <<program, at, fld, own, ghost, result, global, boxes>>

\* File::File aborts when the output cannot be opened.
CreateFails ==
    /\ pc[Owner] = "ready" /\ Running(Owner) /\ CallOf(Owner).op = "write"
    /\ IOMayFail
    /\ throwException(Owner)

\* Monio::initialiseFile: no message, and no file but on the owner.
initialiseFile(r) ==
    /\ pc[r] = "ready" /\ Running(r) /\ CallOf(r).op = "initialise"
    /\ IF r = Owner /\ ~ disk[CallOf(r).path].exists
       THEN throwException(r)
       ELSE /\ result' = [result EXCEPT ![r] =
                            IF r = Owner THEN disk[CallOf(r).path].conv ELSE LFRIC]
            /\ Return(r)
            /\ UNCHANGED <<program, own, ghost, global, disk, boxes>>
----------------------------------------------------------------------------
(* Atlas: haloExchange, gather and scatter.  A send does not wait. *)

Stamp(r, step, v) == [at |-> at[r], fld |-> fld[r], step |-> step, val |-> v]

SendHalo(r, step) ==
    /\ haloBox' = [haloBox EXCEPT ![r] =
                     [s \in Rank |-> IF s \in Neighbours(r)
                                     THEN Append(@[s], Stamp(r, step, own[r][fld[r]]))
                                     ELSE @[s]]]
    /\ UNCHANGED <<gatherBox, scatterBox>>

\* A PE leaves the exchange with a message of every neighbour.
HaloArrived(r) == \A s \in Neighbours(r) : haloBox[s][r] # <<>>

RecvHalo(r) ==
    /\ HaloArrived(r)
    /\ ghost' = [ghost EXCEPT ![r][fld[r]] =
                   [s \in Neighbours(r) |-> Head(haloBox[s][r]).val]]
    /\ haloBox' = [s \in Rank |-> IF s \in Neighbours(r)
                                  THEN [haloBox[s] EXCEPT ![r] = Tail(@)]
                                  ELSE haloBox[s]]
    /\ UNCHANGED <<gatherBox, scatterBox>>

\* utilsatlas::getGlobalField: haloExchange, then gather.
HaloBeforeGather(r) ==
    /\ pc[r] = "sendHalo"
    /\ SendHalo(r, "before")
    /\ Goto(r, "recvHalo")
    /\ UNCHANGED <<program, at, fld, data>>

HaloGathered(r) ==
    /\ pc[r] = "recvHalo"
    /\ RecvHalo(r)
    /\ Goto(r, "gather")
    /\ UNCHANGED <<program, at, fld, own, result, global, disk>>

\* A PE that is not the owner sends its points and goes on: to the scatter of a
\* read, to the next field of a write.
GatherSend(r) ==
    /\ pc[r] = "gather" /\ r # Owner
    /\ gatherBox' = [gatherBox EXCEPT ![r] = Append(@, Stamp(r, "root", own[r][fld[r]]))]
    /\ IF CallOf(r).op = "read"
       THEN Goto(r, "scatter") /\ UNCHANGED <<at, fld>>
       ELSE NextField(r)
    /\ UNCHANGED <<program, data, haloBox, scatterBox>>

gathered(r) == IF r = Owner THEN own[r][fld[r]] ELSE Head(gatherBox[r]).val

GatherReceive ==
    /\ pc[Owner] = "gather"
    /\ \A r \in Others : gatherBox[r] # <<>>
    /\ global' = [r \in Rank |-> gathered(r)]
    /\ gatherBox' = [r \in Others |-> Tail(gatherBox[r])]
    /\ Goto(Owner, "file")
    /\ UNCHANGED <<program, at, fld, own, ghost, result, disk, haloBox, scatterBox>>

\* Mutants: no exchange after a scatter; one for the owner only.
noHalo(r) == FALSE
ownerOnly(r) == r = Owner

\* Every PE exchanges halos after a scatter.
HaloAfterScatter(r) == TRUE

AfterScatter(r) ==
    IF HaloAfterScatter(r)
    THEN Goto(r, "sendHalo2") /\ UNCHANGED <<at, fld>>
    ELSE NextField(r)

ScatterSend ==
    /\ pc[Owner] = "scatter"
    /\ scatterBox' = [r \in Others |-> Append(scatterBox[r], Stamp(Owner, "root", global[r]))]
    /\ own' = [own EXCEPT ![Owner][fld[Owner]] = global[Owner]]
    /\ AfterScatter(Owner)
    /\ UNCHANGED <<program, ghost, result, global, disk, haloBox, gatherBox>>

ScatterReceive(r) ==
    /\ pc[r] = "scatter" /\ r # Owner
    /\ scatterBox[r] # <<>>
    /\ own' = [own EXCEPT ![r][fld[r]] = Head(scatterBox[r]).val]
    /\ scatterBox' = [scatterBox EXCEPT ![r] = Tail(@)]
    /\ AfterScatter(r)
    /\ UNCHANGED <<program, ghost, result, global, disk, haloBox, gatherBox>>

HaloSentAfter(r) ==
    /\ pc[r] = "sendHalo2"
    /\ SendHalo(r, "after")
    /\ Goto(r, "recvHalo2")
    /\ UNCHANGED <<program, at, fld, data>>

HaloReceivedAfter(r) ==
    /\ pc[r] = "recvHalo2"
    /\ RecvHalo(r)
    /\ NextField(r)
    /\ UNCHANGED <<program, own, result, global, disk>>
----------------------------------------------------------------------------
(* The owner's part of a field. *)

\* Monio: in an LFRic file the field goes under the name of no variable.
nameMissing(f, conv) == f \in Skipped /\ conv = LFRIC

\* Mutant: a field LFRic lacks is not scattered either.
onlyIfRead(f) == f \notin Skipped

\* A field readState skips is scattered as it was gathered.
Scattered(f) == TRUE

\* initialiseFile, readDatum and populateFieldWithFileData.
ReadField ==
    LET f == fld[Owner]
        file == disk[CallOf(Owner).path]
    IN  /\ pc[Owner] = "file" /\ CallOf(Owner).op = "read"
        /\ nameMissing(f, file.conv) \/ f \in DOMAIN file.data
        /\ global' = IF nameMissing(f, file.conv) THEN global ELSE file.data[f]
        /\ IF Scattered(f)
           THEN Goto(Owner, "scatter") /\ UNCHANGED <<at, fld>>
           ELSE NextField(Owner)
        /\ UNCHANGED <<program, own, ghost, result, disk, boxes>>

\* populateFileDataWithField, writeMetadata and writeData.
WriteField ==
    LET f == fld[Owner]
        p == CallOf(Owner).path
    IN  /\ pc[Owner] = "file" /\ CallOf(Owner).op = "write"
        /\ ~ nameMissing(f, CallOf(Owner).conv)
        /\ disk' = [disk EXCEPT ![p] =
                      [conv |-> CallOf(Owner).conv, exists |-> TRUE,
                       data |-> [g \in DOMAIN @.data \cup {f} |->
                                   IF g = f THEN global ELSE @.data[g]]]]
        /\ NextField(Owner)
        /\ UNCHANGED <<program, own, ghost, result, global, boxes>>

\* Mutant: the exception is caught and the owner returns.
returnError(r) == Return(r) /\ UNCHANGED <<program, data, boxes>>

\* Caught in Monio's calls: closeFiles, then throwException.
catchNcException(r) == throwException(r)

\* An NcException, a variable the file lacks, or a field LFRic has no name for.
FileFails ==
    LET f == fld[Owner]
        c == CallOf(Owner)
        file == disk[c.path]
    IN  /\ pc[Owner] = "file"
        /\ \/ IOMayFail
           \/ c.op = "read" /\ ~ nameMissing(f, file.conv) /\ f \notin DOMAIN file.data
           \/ c.op = "write" /\ nameMissing(f, c.conv)
        /\ catchNcException(Owner)
----------------------------------------------------------------------------
Step(r) ==
    \/ Compute(r) \/ BeginRead(r) \/ BeginWrite(r) \/ initialiseFile(r)
    \/ HaloBeforeGather(r) \/ HaloGathered(r) \/ GatherSend(r)
    \/ ScatterReceive(r) \/ HaloSentAfter(r) \/ HaloReceivedAfter(r)
    \/ r = Owner /\ (\/ GatherReceive \/ ReadField \/ WriteField \/ ScatterSend
                    \/ CreateFails \/ FileFails)

Next == \E r \in Rank : Step(r) \/ Die(r)

\* Each PE is a running process, and an MPI abort reaches every PE.
Fairness == \A r \in Rank : WF_vars(Step(r)) /\ WF_vars(Die(r))

Spec == Init /\ [][Next]_vars /\ Fairness
----------------------------------------------------------------------------
(* Properties. *)

(***************************************************************************)
(* The program run by one process: the caller's field values and the files *)
(* after the first k calls.                                                *)
(***************************************************************************)
AfterCall(c, k, before) ==
    LET file == before.file[c.path]
        readIn(f) == f \in DOMAIN file
    IN  CASE c.op = "compute"    -> [before EXCEPT !.val = [f \in Fields |-> k]]
          [] c.op = "read"       -> [before EXCEPT !.val =
                                       [f \in Fields |-> IF readIn(f) THEN file[f] ELSE @[f]]]
          [] c.op = "write"      -> [before EXCEPT !.file[c.path] = before.val]
          [] c.op = "initialise" -> before

Sequential ==
    LET after[k \in 0..ProgramLength] ==
          IF k = 0
          THEN [val  |-> [f \in Fields |-> 0],
                file |-> [p \in Path |-> IF p \in InputFiles
                                         THEN [f \in Fields \ Skipped |-> InputValue]
                                         ELSE <<>>]]
          ELSE AfterCall(program[k], k, after[k - 1])
    IN  after

\* However the PEs interleave, each finds its fields after every call as one
\* process running the program would, and the owner the files: no part of a
\* field comes from another call, another field or another version.
SequentialEquivalence ==
    /\ \A r \in Rank, f \in Fields :
          pc[r] = "ready" => own[r][f] = Sequential[at[r] - 1].val[f]
    /\ \A p \in Path :
          pc[Owner] = "ready" =>
            disk[p].data = [f \in DOMAIN Sequential[at[Owner] - 1].file[p] |->
                              [r \in Rank |-> Sequential[at[Owner] - 1].file[p][f]]]

\* After a read or a write a PE sees in its halo what the neighbours have at
\* their points, although they may be in another call by then.
HaloCoherent ==
    \A r \in Rank :
        (pc[r] = "ready" /\ at[r] > 1) =>
            (program[at[r] - 1].op \in {"read", "write"} =>
                \A f \in Fields, s \in Neighbours(r) :
                    ghost[r][f][s] = Sequential[at[r] - 1].val[f])

\* A PE never takes a message for another: what it is about to receive was sent
\* in the same call, for the same field, in the same step; and nobody is left
\* with a message once all have finished.
Expected(box, r, step) ==
    box # <<>> => Head(box).at = at[r] /\ Head(box).fld = fld[r] /\ Head(box).step = step

CollectivesMatch ==
    /\ \A r \in Rank, s \in Rank :
          /\ pc[r] = "recvHalo"  => Expected(haloBox[s][r], r, "before")
          /\ pc[r] = "recvHalo2" => Expected(haloBox[s][r], r, "after")
    /\ \A r \in Others :
          /\ pc[Owner] = "gather" => Expected(gatherBox[r], Owner, "root")
          /\ pc[r] = "scatter"    => Expected(scatterBox[r], r, "root")
    /\ (\A r \in Rank : ~ Running(r)) =>
          /\ \A r, s \in Rank : haloBox[r][s] = <<>>
          /\ \A r \in Others : gatherBox[r] = <<>> /\ scatterBox[r] = <<>>

\* A PE that waits for a message of another.
Waiting(r) ==
    \/ pc[r] \in {"recvHalo", "recvHalo2"} /\ ~ HaloArrived(r)
    \/ pc[r] = "gather" /\ r = Owner /\ \E s \in Others : gatherBox[s] = <<>>
    \/ pc[r] = "scatter" /\ r # Owner /\ scatterBox[r] = <<>>

\* The PEs that have not finished are never all waiting for one another, or for one that
\* has finished: each leaves out or makes the same exchanges, gathers and scatters.
NotAllWaiting ==
    (\E r \in Rank : Running(r)) /\ ~ Aborted => \E r \in Rank : Running(r) /\ ~ Waiting(r)

\* A PE that is about to read a file that an earlier call of the program wrote
\* finds it on disk, although the owner may not have got that far.
WrittenFileVisible ==
    \A r \in Rank :
        (pc[r] = "ready" /\ Running(r) /\ ~ Aborted) =>
            (CallOf(r).op = "read" /\ Sequential[at[r] - 1].file[CallOf(r).path] # <<>>
                => disk[CallOf(r).path].exists)

\* Every PE gets to the end of the program, or every PE dies: none is left
\* waiting in a collective that the others do not join.
Finished(r) == pc[r] = "ready" /\ ~ Running(r)
Termination == <>((\A r \in Rank : Finished(r)) \/ (\A r \in Rank : pc[r] = "dead"))
=============================================================================
