------------------------- MODULE MonioRanksInvariant -------------------------
(***************************************************************************)
(* The inductive invariant of MonioRanks.  A PE is somewhere in its        *)
(* program: in a call, at a field, in a phase of that field.  Which        *)
(* messages are under way follows from where their sender and their        *)
(* receiver are; what they hold, and what the PEs hold, from the program   *)
(* run by one process.                                                     *)
(***************************************************************************)
EXTENDS MonioRanks

Collective == {"sendHalo", "recvHalo", "gather", "file", "scatter", "sendHalo2", "recvHalo2"}
InRead     == {"scatter", "sendHalo2", "recvHalo2"}

\* A PE is in a phase of the call that it is in; only the owner is at a file.
Control ==
    \A r \in Rank :
        /\ pc[r] = "ready" => fld[r] = 1
        /\ pc[r] \in Collective => Running(r) /\ CallOf(r).op \in {"read", "write"}
        /\ pc[r] \in InRead => CallOf(r).op = "read"
        /\ pc[r] = "file" => r = Owner
----------------------------------------------------------------------------
(* Where the PEs are. *)

Phase == 0..6

\* The phases of a field, in order.  A PE that is dead died in one of them.
InPhase(ph) ==
    \A r \in Rank :
        /\ pc[r] \in {"ready", "sendHalo"} => ph[r] = 0
        /\ pc[r] = "recvHalo"  => ph[r] = 1
        /\ pc[r] = "gather"    => ph[r] = 2
        /\ pc[r] = "file"      => ph[r] = 3
        /\ pc[r] = "scatter"   => ph[r] = 4
        /\ pc[r] = "sendHalo2" => ph[r] = 5
        /\ pc[r] = "recvHalo2" => ph[r] = 6

\* PE r has done phase k of field f in call a.
Past(ph, r, a, f, k) ==
    \/ at[r] > a
    \/ at[r] = a /\ (fld[r] > f \/ (fld[r] = f /\ ph[r] > k))
----------------------------------------------------------------------------
(* What is under way. *)

\* What every PE has at its points of field f after the first k calls.
Val(k, f) == Sequential[k].val[f]

\* The messages that a program sends from a PE to a neighbour, to the owner and from
\* the owner.  Before the scatter of a read the field is as the call found it.
HaloMessage ==
    {m \in Message :
        \/ /\ m.step = "before" /\ program[m.at].op \in {"read", "write"}
           /\ m.val = Val(m.at - 1, m.fld)
        \/ /\ m.step = "after" /\ program[m.at].op = "read"
           /\ m.val = Val(m.at, m.fld)}

GatherMessage ==
    {m \in Message : /\ m.step = "root" /\ program[m.at].op \in {"read", "write"}
                     /\ m.val = Val(m.at - 1, m.fld)}

ScatterMessage ==
    {m \in Message : /\ m.step = "root" /\ program[m.at].op = "read"
                     /\ m.val = Val(m.at, m.fld)}

HaloSent(ph, s, m)     == Past(ph, s, m.at, m.fld, IF m.step = "before" THEN 0 ELSE 5)
HaloReceived(ph, r, m) == Past(ph, r, m.at, m.fld, IF m.step = "before" THEN 1 ELSE 6)
GatherPast(ph, r, m)   == Past(ph, r, m.at, m.fld, 2)
ScatterPast(ph, r, m)  == Past(ph, r, m.at, m.fld, 4)

Earlier(m, n) ==
    \/ m.at < n.at
    \/ m.at = n.at /\ (m.fld < n.fld \/ (m.fld = n.fld /\ m.step = "before" /\ n.step = "after"))

\* A box has these messages, each once, in the order of the program.
Carries(box, messages) ==
    /\ \A i \in 1..Len(box) : box[i] \in messages
    /\ \A m \in messages : \E i \in 1..Len(box) : box[i] = m
    /\ \A i, j \in 1..Len(box) : i < j => Earlier(box[i], box[j])

\* Sent and not yet received; and nothing is received that was not sent.
HaloUnderWay(ph, s, r) ==
    {m \in HaloMessage : HaloSent(ph, s, m) /\ ~ HaloReceived(ph, r, m)}

HaloChannels(ph) ==
    /\ \A s \in Rank : \A r \in Neighbours(s) :
          /\ Carries(haloBox[s][r], HaloUnderWay(ph, s, r))
          /\ \A m \in HaloMessage : HaloReceived(ph, r, m) => HaloSent(ph, s, m)
    /\ \A s, r \in Rank : r \notin Neighbours(s) => haloBox[s][r] = <<>>

GatherUnderWay(ph, r) ==
    {m \in GatherMessage : GatherPast(ph, r, m) /\ ~ GatherPast(ph, Owner, m)}

GatherChannels(ph) ==
    \A r \in Others :
        /\ Carries(gatherBox[r], GatherUnderWay(ph, r))
        /\ \A m \in GatherMessage : GatherPast(ph, Owner, m) => GatherPast(ph, r, m)

ScatterUnderWay(ph, r) ==
    {m \in ScatterMessage : ScatterPast(ph, Owner, m) /\ ~ ScatterPast(ph, r, m)}

ScatterChannels(ph) ==
    \A r \in Others :
        /\ Carries(scatterBox[r], ScatterUnderWay(ph, r))
        /\ \A m \in ScatterMessage : ScatterPast(ph, r, m) => ScatterPast(ph, Owner, m)

Channels ==
    \E ph \in [Rank -> Phase] :
        InPhase(ph) /\ HaloChannels(ph) /\ GatherChannels(ph) /\ ScatterChannels(ph)
----------------------------------------------------------------------------
(* What the PEs have. *)

\* The fields that a PE has as the call leaves them; the others are as it found them.
FieldDone(r, f) ==
    f < fld[r] \/ (f = fld[r] /\ pc[r] \in {"sendHalo2", "recvHalo2"})

OwnValues ==
    \A r \in Rank, f \in Fields :
        pc[r] # "dead" =>
            own[r][f] = Val(IF FieldDone(r, f) THEN at[r] ELSE at[r] - 1, f)

\* The last exchange of a read is the one after the scatter, that of a write the only one.
HaloDone(r, f) ==
    \/ f < fld[r]
    \/ f = fld[r] /\ CallOf(r).op = "write" /\ pc[r] \in {"gather", "file"}

GhostValues ==
    \A r \in Rank, f \in Fields :
        pc[r] \in Collective /\ HaloDone(r, f) =>
            \A s \in Neighbours(r) : ghost[r][f][s] = Val(at[r], f)

GlobalValues ==
    \A r \in Rank :
        /\ pc[Owner] = "file" => global[r] = Val(at[Owner] - 1, fld[Owner])
        /\ pc[Owner] = "scatter" => global[r] = Val(at[Owner], fld[Owner])

\* A file after the first k calls, and one of which the first n fields are written.
FileAfter(k, p) ==
    [f \in DOMAIN Sequential[k].file[p] |-> [r \in Rank |-> Sequential[k].file[p][f]]]
FirstFields(k, n) == [f \in 1..n |-> [r \in Rank |-> Val(k, f)]]

Writing(p) ==
    pc[Owner] \in Collective /\ CallOf(Owner).op = "write" /\ CallOf(Owner).path = p

DiskValues ==
    pc[Owner] # "dead" =>
        \A p \in Path :
            disk[p].data = IF Writing(p) THEN FirstFields(at[Owner] - 1, fld[Owner] - 1)
                           ELSE FileAfter(at[Owner] - 1, p)

Values == OwnValues /\ GhostValues /\ HaloCoherent /\ GlobalValues /\ DiskValues

IInv == TypeOK /\ Control /\ Channels /\ Values
----------------------------------------------------------------------------
(* Which files are there, and with which fields. *)

\* A file with a field in it, or one that the owner is writing, is on disk.
FilesExist ==
    \A p \in Path : disk[p].data # <<>> \/ Writing(p) => disk[p].exists

\* An LFRic file has no variable for a field LFRic lacks, nor one that the owner writes.
FileNames ==
    \A p \in Path :
        /\ disk[p].conv = LFRIC => DOMAIN disk[p].data \cap Skipped = {}
        /\ Writing(p) /\ CallOf(Owner).conv = LFRIC => disk[p].conv = LFRIC

OwnerFiles == FilesExist /\ FileNames

\* No PE is more neighbours away from the owner than a write has halo exchanges, one
\* per field.
NearOwner ==
    \E hops \in [Rank -> 0..NField] :
        \A r \in Others : \E s \in Neighbours(r) : hops[s] < hops[r]
=============================================================================
