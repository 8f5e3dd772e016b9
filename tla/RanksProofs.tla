---------------------------- MODULE RanksProofs ----------------------------
(***************************************************************************)
(* Proofs, for any number of PEs, fields, files and calls, that the PEs of *)
(* MonioRanks keep to the program that one process would run.  IInv is     *)
(* shown inductive: the recursive Sequential is first unfolded call by     *)
(* call; general lemmas say what a send and a receive do to a channel; one *)
(* lemma per step of a PE then moves it from a phase to the next.          *)
(***************************************************************************)
EXTENDS MonioRanksInvariant, Recursion, TLAPS, FiniteSetTheorems
----------------------------------------------------------------------------
(* The program run by one process. *)

SequentialStart ==
    [val  |-> [f \in Fields |-> 0],
     file |-> [p \in Path |-> IF p \in InputFiles
                              THEN [f \in Fields \ Skipped |-> InputValue] ELSE <<>>]]

IsRun(n, run) ==
    run = [k \in 0..n |-> IF k = 0 THEN SequentialStart
                          ELSE AfterCall(program[k], k, run[k - 1])]

\* A run of n calls exists for every n: of the numbers without one there is no least.
LEMMA RunExists ==
    ASSUME NEW n \in Nat
    PROVE  \E run : IsRun(n, run)
<1> DEFINE Without == {k \in Nat : ~ \E run : IsRun(k, run)}
<1> SUFFICES ASSUME Without # {} PROVE FALSE
  OBVIOUS
<1>1. PICK m \in Without : \A k \in Without : m <= k
  <2>1. Without \subseteq Nat
    OBVIOUS
  <2> HIDE DEF Without
  <2> QED BY <2>1, LeastNumber
<1>2. m \in Nat /\ ~ \E run : IsRun(m, run)
  OBVIOUS
<1>3. CASE m = 0
  <2>1. IsRun(0, [k \in 0..0 |-> SequentialStart])
    BY DEF IsRun
  <2> QED
    BY <1>2, <1>3, <2>1
<1>4. CASE m # 0
  <2>1. m - 1 \in Nat /\ ~ (m <= m - 1)
    BY <1>2, <1>4
  <2>2. PICK run : IsRun(m - 1, run)
    BY <1>1, <2>1
  <2> DEFINE longer == [k \in 0..m |-> IF k = m THEN AfterCall(program[m], m, run[m - 1])
                                       ELSE run[k]]
  <2>3. \A k \in 0..m : longer[k] = IF k = 0 THEN SequentialStart
                                    ELSE AfterCall(program[k], k, longer[k - 1])
    <3> TAKE k \in 0..m
    <3>1. CASE k = m
      BY <1>2, <1>4, <3>1
    <3>2. CASE k # m
      <4>1. k \in 0..(m - 1) /\ (k # 0 => k - 1 \in 0..m /\ k - 1 # m)
        BY <1>2, <3>2
      <4>2. run[k] = IF k = 0 THEN SequentialStart ELSE AfterCall(program[k], k, run[k - 1])
        BY <2>2, <4>1 DEF IsRun
      <4> QED
        BY <3>2, <4>1, <4>2
    <3> QED
      BY <3>1, <3>2
  <2>4. IsRun(m, longer)
    <3>1. longer = [k \in 0..m |-> longer[k]]
      OBVIOUS
    <3> HIDE DEF longer
    <3> QED BY <2>3, <3>1 DEF IsRun
  <2> QED
    BY <1>2, <2>4
<1> QED
  BY <1>3, <1>4

LEMMA SequentialUnfolds ==
    /\ Sequential[0] = SequentialStart
    /\ \A k \in 1..ProgramLength : Sequential[k] = AfterCall(program[k], k, Sequential[k - 1])
<1>1. ProgramLength \in Nat
  BY ProgramAssumption
<1>2. Sequential = CHOOSE run : IsRun(ProgramLength, run)
  BY DEF Sequential, IsRun, SequentialStart
<1>3. IsRun(ProgramLength, Sequential)
  BY <1>1, <1>2, RunExists
<1> QED
  BY <1>1, <1>3 DEF IsRun

\* What one process has after a call: its values, and what each file holds.
SequentialState ==
    [val : [Fields -> Version],
     file : [Path -> [Fields -> Version] \cup [Fields \ Skipped -> Version] \cup {<<>>}]]

LEMMA BoundTypes ==
    /\ ProgramLength \in Nat /\ NField \in Nat \ {0} /\ InputValue \in Version
    /\ 0..ProgramLength \subseteq Version /\ 1 \in Fields
BY ProgramAssumption, FieldsAssumption DEF Version, InputValue, Fields

LEMMA CallTypes ==
    ASSUME program \in [1..ProgramLength -> Calls], NEW k \in 1..ProgramLength
    PROVE  /\ program[k] = [op |-> program[k].op, path |-> program[k].path,
                            conv |-> program[k].conv]
           /\ program[k].op \in {"read", "write", "initialise", "compute"}
           /\ program[k].path \in Path /\ program[k].conv \in {LFRIC, JEDI}
BY ProgramAssumption

LEMMA AfterCallType ==
    ASSUME NEW c \in Calls, NEW k \in 1..ProgramLength, NEW before \in SequentialState
    PROVE  AfterCall(c, k, before) \in SequentialState
<1>1. c.op \in {"read", "write", "initialise", "compute"} /\ c.path \in Path
  BY ProgramAssumption
<1>2. k \in Version
  BY BoundTypes
<1>3. CASE c.op = "read"
  <2> DEFINE file == before.file[c.path]
             val == [f \in Fields |-> IF f \in DOMAIN file THEN file[f] ELSE before.val[f]]
  <2>1. file \in [Fields -> Version] \cup [Fields \ Skipped -> Version] \/ file = <<>>
    BY <1>1 DEF SequentialState
  <2>2. \A f \in Fields : f \in DOMAIN file => file[f] \in Version
    <3>1. CASE file = <<>>
      <4>1. DOMAIN file = {}
        BY <3>1
      <4> QED BY <4>1
    <3> QED
      BY <2>1, <3>1
  <2>3. val \in [Fields -> Version]
    BY <2>2 DEF SequentialState
  <2>4. AfterCall(c, k, before) = [before EXCEPT !.val = val]
    BY <1>3 DEF AfterCall, SequentialState
  <2> QED
    BY <2>3, <2>4 DEF SequentialState
<1>4. CASE c.op = "write"
  <2>1. AfterCall(c, k, before) = [before EXCEPT !.file[c.path] = before.val]
    BY <1>4 DEF AfterCall
  <2> QED
    BY <2>1 DEF SequentialState
<1>5. CASE c.op = "compute"
  <2>1. AfterCall(c, k, before) = [before EXCEPT !.val = [f \in Fields |-> k]]
    BY <1>5 DEF AfterCall
  <2> QED
    BY <1>2, <2>1 DEF SequentialState
<1>6. CASE c.op = "initialise"
  BY <1>6 DEF AfterCall
<1> QED
  BY <1>1, <1>3, <1>4, <1>5, <1>6

LEMMA SequentialType ==
    ASSUME program \in [1..ProgramLength -> Calls]
    PROVE  \A k \in 0..ProgramLength : Sequential[k] \in SequentialState
<1> DEFINE Wrong == {k \in 0..ProgramLength : Sequential[k] \notin SequentialState}
<1> SUFFICES ASSUME Wrong # {} PROVE FALSE
  OBVIOUS
<1>1. PICK n \in Wrong : \A k \in Wrong : n <= k
  <2>1. Wrong \subseteq Nat
    BY BoundTypes
  <2> HIDE DEF Wrong
  <2> QED BY <2>1, LeastNumber
<1>2. SequentialStart \in SequentialState
  <2>1. 0 \in Version
    BY BoundTypes
  <2> QED
    BY <2>1, BoundTypes DEF SequentialStart, SequentialState
<1>3. n # 0
  BY <1>2, SequentialUnfolds
<1>4. n \in 1..ProgramLength /\ n - 1 \in 0..ProgramLength /\ ~ (n <= n - 1)
  BY <1>3, BoundTypes
<1>5. Sequential[n - 1] \in SequentialState
  BY <1>1, <1>4
<1> QED
  BY <1>4, <1>5, AfterCallType, SequentialUnfolds

\* What each call does to the fields and to the files.
LEMMA SequentialCalls ==
    ASSUME program \in [1..ProgramLength -> Calls], NEW k \in 1..ProgramLength
    PROVE  /\ program[k].op = "compute" =>
                 /\ \A f \in Fields : Val(k, f) = k
                 /\ Sequential[k].file = Sequential[k - 1].file
           /\ program[k].op = "read" =>
                 /\ \A f \in Fields :
                       LET file == Sequential[k - 1].file[program[k].path]
                       IN  Val(k, f) = IF f \in DOMAIN file THEN file[f] ELSE Val(k - 1, f)
                 /\ Sequential[k].file = Sequential[k - 1].file
           /\ program[k].op = "write" =>
                 /\ Sequential[k].val = Sequential[k - 1].val
                 /\ Sequential[k].file = [Sequential[k - 1].file EXCEPT
                                            ![program[k].path] = Sequential[k].val]
           /\ program[k].op = "initialise" => Sequential[k] = Sequential[k - 1]
<1> DEFINE before == Sequential[k - 1]
<1>1. before \in SequentialState
  <2>1. k - 1 \in 0..ProgramLength
    BY BoundTypes
  <2> QED
    BY <2>1, SequentialType
<1>2. Sequential[k] = AfterCall(program[k], k, before)
  BY SequentialUnfolds
<1> HIDE DEF before
<1>3. CASE program[k].op = "compute"
  <2>1. Sequential[k] = [before EXCEPT !.val = [f \in Fields |-> k]]
    BY <1>2, <1>3 DEF AfterCall
  <2> QED
    BY <1>1, <1>3, <2>1 DEF SequentialState, Val, before
<1>4. CASE program[k].op = "read"
  <2> DEFINE file == before.file[program[k].path]
  <2>1. Sequential[k] = [before EXCEPT !.val =
                           [f \in Fields |-> IF f \in DOMAIN file THEN file[f] ELSE @[f]]]
    BY <1>2, <1>4 DEF AfterCall
  <2>2. /\ Sequential[k].val = [f \in Fields |-> IF f \in DOMAIN file THEN file[f]
                                                 ELSE before.val[f]]
        /\ Sequential[k].file = before.file
    <3> HIDE DEF file
    <3> QED BY <1>1, <2>1 DEF SequentialState
  <2> QED
    BY <1>4, <2>2 DEF Val, before
<1>5. CASE program[k].op = "write"
  <2>1. Sequential[k] = [before EXCEPT !.file[program[k].path] = before.val]
    BY <1>2, <1>5 DEF AfterCall
  <2>2. /\ Sequential[k].val = before.val
        /\ Sequential[k].file = [before.file EXCEPT ![program[k].path] = before.val]
    BY <1>1, <2>1 DEF SequentialState
  <2> QED
    BY <1>5, <2>2 DEF before
<1>6. CASE program[k].op = "initialise"
  BY <1>2, <1>6 DEF AfterCall, before
<1> QED
  BY <1>3, <1>4, <1>5, <1>6, CallTypes

\* The program does not change, and so neither does the run it is compared with.
LEMMA SequentialFrame ==
    ASSUME UNCHANGED program
    PROVE  Sequential' = Sequential /\ \A k, f : Val(k, f)' = Val(k, f)
<1>1. Sequential' = Sequential
  BY DEF Sequential, AfterCall
<1> QED
  BY <1>1 DEF Val
----------------------------------------------------------------------------
(* A channel: the messages Sent of a program and not yet Received. *)

\* Sending the message that comes after all that were sent.
LEMMA SendOne ==
    ASSUME NEW Sent, NEW Received, NEW m, NEW box,
           box \in Seq(Message), m \in Message,
           Carries(box, Sent \ Received), Received \subseteq Sent, m \notin Sent,
           \A n \in Sent : Earlier(n, m)
    PROVE  /\ Carries(Append(box, m), (Sent \cup {m}) \ Received)
           /\ Received \subseteq Sent \cup {m}
<1> DEFINE longer == Append(box, m)
<1>1. /\ Len(longer) = Len(box) + 1 /\ longer[Len(box) + 1] = m
      /\ \A i \in 1..Len(box) : longer[i] = box[i]
  OBVIOUS
<1>2. Len(box) \in Nat
  OBVIOUS
<1>3. (Sent \cup {m}) \ Received = (Sent \ Received) \cup {m}
  OBVIOUS
<1> HIDE DEF longer
<1>4. \A i \in 1..Len(longer) : longer[i] \in (Sent \cup {m}) \ Received
  <2> TAKE i \in 1..Len(longer)
  <2>1. CASE i = Len(box) + 1
    BY <1>1, <1>3, <2>1
  <2>2. CASE i # Len(box) + 1
    <3>1. i \in 1..Len(box)
      BY <1>1, <1>2, <2>2
    <3> QED
      BY <1>1, <1>3, <3>1 DEF Carries
  <2> QED
    BY <2>1, <2>2
<1>5. \A n \in (Sent \cup {m}) \ Received : \E i \in 1..Len(longer) : longer[i] = n
  <2> TAKE n \in (Sent \cup {m}) \ Received
  <2>1. CASE n = m
    <3>1. Len(box) + 1 \in 1..Len(longer)
      BY <1>1, <1>2
    <3> QED
      BY <1>1, <2>1, <3>1
  <2>2. CASE n # m
    <3>1. PICK i \in 1..Len(box) : box[i] = n
      BY <2>2 DEF Carries
    <3>2. i \in 1..Len(longer)
      BY <1>1, <1>2
    <3> QED
      BY <1>1, <3>1, <3>2
  <2> QED
    BY <2>1, <2>2
<1>6. \A i, j \in 1..Len(longer) : i < j => Earlier(longer[i], longer[j])
  <2> TAKE i, j \in 1..Len(longer)
  <2> HAVE i < j
  <2>1. i \in 1..Len(box)
    BY <1>1, <1>2
  <2>2. box[i] \in Sent /\ longer[i] = box[i]
    BY <1>1, <2>1 DEF Carries
  <2>3. CASE j = Len(box) + 1
    BY <1>1, <2>2, <2>3
  <2>4. CASE j # Len(box) + 1
    <3>1. j \in 1..Len(box)
      BY <1>1, <1>2, <2>4
    <3> QED
      BY <1>1, <2>1, <3>1 DEF Carries
  <2> QED
    BY <2>3, <2>4
<1> QED
  BY <1>4, <1>5, <1>6 DEF Carries, longer

LEMMA EarlierIsStrict ==
    ASSUME NEW m \in Message, NEW n \in Message, Earlier(m, n)
    PROVE  ~ Earlier(n, m) /\ m # n
BY ProgramAssumption, FieldsAssumption DEF Earlier, Message, Fields

\* Receiving: what arrives is the first of the messages that were not yet received,
\* since whoever sent a later one had sent that one before.
LEMMA ReceiveOne ==
    ASSUME NEW Sent, NEW Received, NEW m, NEW box,
           box \in Seq(Message), box # <<>>, Sent \subseteq Message,
           Carries(box, Sent \ Received), Received \subseteq Sent,
           m \in Message, m \notin Received,
           \A n \in Sent : Earlier(m, n) => m \in Sent,
           \A n \in Sent \ Received : n = m \/ Earlier(m, n)
    PROVE  /\ Head(box) = m
           /\ Carries(Tail(box), Sent \ (Received \cup {m}))
           /\ Received \cup {m} \subseteq Sent
<1> DEFINE rest == Tail(box)
<1>1. /\ Head(box) = box[1] /\ 1 \in 1..Len(box) /\ Len(box) \in Nat
      /\ Len(rest) = Len(box) - 1
      /\ \A i \in 1..Len(rest) : rest[i] = box[i + 1] /\ i + 1 \in 1..Len(box)
  <2>1. Len(box) \in Nat \ {0}
    OBVIOUS
  <2> QED
    BY <2>1
<1>2. m \in Sent \ Received
  <2>1. box[1] \in Sent \ Received
    BY <1>1 DEF Carries
  <2> QED
    BY <2>1
<1>3. box[1] = m
  <2>1. PICK i \in 1..Len(box) : box[i] = m
    BY <1>2 DEF Carries
  <2> SUFFICES ASSUME i # 1 PROVE FALSE
    BY <2>1
  <2>2. 1 < i
    BY <1>1
  <2>3. Earlier(box[1], m) /\ box[1] \in Sent \ Received
    BY <1>1, <2>1, <2>2 DEF Carries
  <2>4. box[1] \in Message /\ box[1] # m /\ ~ Earlier(m, box[1])
    BY <2>3, EarlierIsStrict
  <2> QED
    BY <2>3, <2>4
<1>4. \A i \in 2..Len(box) : box[i] # m
  <2> TAKE i \in 2..Len(box)
  <2>1. i \in 1..Len(box) /\ 1 < i
    BY <1>1
  <2>2. Earlier(box[1], box[i]) /\ box[i] \in Message /\ box[1] \in Message
    BY <1>1, <2>1 DEF Carries
  <2> QED
    BY <1>3, <2>2, EarlierIsStrict
<1> HIDE DEF rest
<1>5. \A i \in 1..Len(rest) : rest[i] \in Sent \ (Received \cup {m})
  <2> TAKE i \in 1..Len(rest)
  <2>1. rest[i] = box[i + 1] /\ i + 1 \in 1..Len(box) /\ i + 1 \in 2..Len(box)
    BY <1>1
  <2> QED
    BY <1>4, <2>1 DEF Carries
<1>6. \A n \in Sent \ (Received \cup {m}) : \E i \in 1..Len(rest) : rest[i] = n
  <2> TAKE n \in Sent \ (Received \cup {m})
  <2>1. PICK i \in 1..Len(box) : box[i] = n
    BY DEF Carries
  <2>2. i # 1
    BY <1>3, <2>1
  <2>3. i - 1 \in 1..Len(rest) /\ (i - 1) + 1 = i
    BY <1>1, <2>2
  <2> QED
    BY <1>1, <2>1, <2>3
<1>7. \A i, j \in 1..Len(rest) : i < j => Earlier(rest[i], rest[j])
  <2> TAKE i, j \in 1..Len(rest)
  <2> HAVE i < j
  <2>1. /\ rest[i] = box[i + 1] /\ rest[j] = box[j + 1]
        /\ i + 1 \in 1..Len(box) /\ j + 1 \in 1..Len(box) /\ i + 1 < j + 1
    BY <1>1
  <2> QED
    BY <2>1 DEF Carries
<1> QED
  BY <1>1, <1>2, <1>3, <1>5, <1>6, <1>7 DEF Carries, rest

LEMMA CarriesNothing ==
    ASSUME NEW box \in Seq(Message), Carries(box, {})
    PROVE  box = <<>>
BY DEF Carries

LEMMA EmptyCarriesNothing == Carries(<<>>, {})
BY DEF Carries
----------------------------------------------------------------------------
(* Positions: what a PE has done, and what a step adds to it. *)

\* The phases of a call in which messages are sent or received.
Event(a, k) ==
    \/ program[a].op \in {"read", "write"} /\ k \in 0..2
    \/ program[a].op = "read" /\ k \in 4..6

\* A step of PE r does phase k of the field and call that it is in, and no other.
Does(ph, ph2, r, k) ==
    \A q \in Rank, a \in 1..ProgramLength, f \in Fields, e \in Phase :
        Event(a, e) =>
            (Past(ph2, q, a, f, e)' <=>
                \/ Past(ph, q, a, f, e)
                \/ q = r /\ a = at[r] /\ f = fld[r] /\ e = k)

\* No message is sent or received in phase 3, the owner's work on a file.
DoesNothing(ph, ph2, r) == Does(ph, ph2, r, 3)

LEMMA PositionTypes ==
    ASSUME TypeOK, NEW r \in Rank
    PROVE  /\ at[r] \in Nat \ {0} /\ at[r] <= ProgramLength + 1
           /\ fld[r] \in Nat \ {0} /\ fld[r] <= NField /\ fld[r] \in Fields
           /\ pc[r] \in PC /\ ProgramLength \in Nat /\ NField \in Nat \ {0}
           /\ Running(r) => at[r] \in 1..ProgramLength
BY BoundTypes DEF TypeOK, Fields, Running

LEMMA NextPhase ==
    ASSUME TypeOK, NEW ph \in [Rank -> Phase], NEW r \in Rank, NEW k \in Phase,
           ph[r] \in 0..5, k \in {ph[r] + 1, ph[r] + 2}, k = ph[r] + 2 => k = 4,
           UNCHANGED <<at, fld>>
    PROVE  /\ [ph EXCEPT ![r] = k] \in [Rank -> Phase]
           /\ Does(ph, [ph EXCEPT ![r] = k], r, ph[r])
<1> DEFINE ph2 == [ph EXCEPT ![r] = k]
<1>1. ph2[r] = k /\ \A q \in Rank \ {r} : ph2[q] = ph[q]
  OBVIOUS
<1>2. ASSUME NEW q \in Rank, NEW a \in 1..ProgramLength, NEW f \in Fields, NEW e \in Phase,
             Event(a, e)
      PROVE  Past(ph2, q, a, f, e)' <=>
                \/ Past(ph, q, a, f, e)
                \/ q = r /\ a = at[r] /\ f = fld[r] /\ e = ph[r]
  <2>1. e # 3
    BY <1>2 DEF Event
  <2>2. CASE q = r
    <3>1. k > e <=> ph[r] > e \/ e = ph[r]
      BY <2>1 DEF Phase
    <3>2. at[r] \in Nat /\ fld[r] \in Nat /\ a \in Nat /\ f \in Nat
      BY PositionTypes DEF Fields
    <3> HIDE DEF ph2
    <3> QED BY <1>1, <2>2, <3>1, <3>2 DEF Past
  <2>3. CASE q # r
    <3> HIDE DEF ph2
    <3> QED BY <1>1, <2>3 DEF Past
  <2> QED
    BY <2>2, <2>3
<1> QED
  BY <1>2 DEF Does

LEMMA NoMove ==
    ASSUME TypeOK, NEW ph \in [Rank -> Phase], NEW r \in Rank, UNCHANGED <<at, fld>>
    PROVE  DoesNothing(ph, ph, r)
BY DEF DoesNothing, Does, Event, Past

\* A step from the last phase of a field ends it, in a read and in a write.
LEMMA FieldEnds ==
    ASSUME TypeOK, NEW ph \in [Rank -> Phase], NEW r \in Rank, Running(r), NextField(r),
           \/ CallOf(r).op = "read" /\ ph[r] = 6
           \/ CallOf(r).op = "write" /\ ph[r] \in {2, 3}
    PROVE  /\ [ph EXCEPT ![r] = 0] \in [Rank -> Phase]
           /\ Does(ph, [ph EXCEPT ![r] = 0], r, ph[r])
<1> DEFINE ph2 == [ph EXCEPT ![r] = 0]
<1>1. ph2[r] = 0 /\ \A q \in Rank \ {r} : ph2[q] = ph[q]
  OBVIOUS
<1>2. /\ \A q \in Rank \ {r} : at'[q] = at[q] /\ fld'[q] = fld[q]
      /\ \/ fld[r] = NField /\ at'[r] = at[r] + 1 /\ fld'[r] = 1
         \/ fld[r] < NField /\ at'[r] = at[r] /\ fld'[r] = fld[r] + 1
  <2>1. fld[r] \in Nat /\ fld[r] <= NField /\ NField \in Nat
    BY PositionTypes
  <2>2. at \in [Rank -> 1..ProgramLength + 1] /\ fld \in [Rank -> Fields]
    BY DEF TypeOK
  <2>3. CASE LastField(r)
    BY <2>2, <2>3 DEF NextField, LastField, Return
  <2>4. CASE ~ LastField(r)
    BY <2>1, <2>2, <2>4 DEF NextField, LastField
  <2> QED
    BY <2>3, <2>4
<1>3. ASSUME NEW q \in Rank, NEW a \in 1..ProgramLength, NEW f \in Fields, NEW e \in Phase,
             Event(a, e)
      PROVE  Past(ph2, q, a, f, e)' <=>
                \/ Past(ph, q, a, f, e)
                \/ q = r /\ a = at[r] /\ f = fld[r] /\ e = ph[r]
  <2>0. /\ at[r] \in Nat \ {0} /\ fld[r] \in Nat \ {0} /\ a \in Nat /\ f \in Nat \ {0}
        /\ f <= NField /\ NField \in Nat /\ e \in 0..6
    BY PositionTypes, BoundTypes DEF Fields, Phase
  <2>1. a = at[r] => e <= ph[r]
    BY <1>3 DEF Event, CallOf
  <2>2. CASE q = r
    <3>1. CASE fld[r] = NField /\ at'[r] = at[r] + 1 /\ fld'[r] = 1
      <4>1. Past(ph2, q, a, f, e)' <=> at[r] >= a
        <5> HIDE DEF ph2
        <5> QED BY <1>1, <2>0, <2>2, <3>1 DEF Past
      <4>2. a = at[r] => Past(ph, q, a, f, e) \/ (f = fld[r] /\ e = ph[r])
        BY <2>0, <2>1, <2>2, <3>1 DEF Past, Phase
      <4>3. Past(ph, q, a, f, e) => at[r] >= a
        BY <2>0, <2>2 DEF Past
      <4>4. at[r] > a => Past(ph, q, a, f, e)
        BY <2>2 DEF Past
      <4> QED
        BY <2>0, <2>2, <4>1, <4>2, <4>3, <4>4
    <3>2. CASE fld[r] < NField /\ at'[r] = at[r] /\ fld'[r] = fld[r] + 1
      <4>1. Past(ph2, q, a, f, e)' <=> at[r] > a \/ (at[r] = a /\ fld[r] >= f)
        <5> HIDE DEF ph2
        <5> QED BY <1>1, <2>0, <2>2, <3>2 DEF Past
      <4>2. a = at[r] /\ f = fld[r] => Past(ph, q, a, f, e) \/ e = ph[r]
        BY <2>0, <2>1, <2>2 DEF Past, Phase
      <4>3. Past(ph, q, a, f, e) => at[r] > a \/ (at[r] = a /\ fld[r] >= f)
        BY <2>0, <2>2 DEF Past
      <4>4. at[r] > a \/ (at[r] = a /\ fld[r] > f) => Past(ph, q, a, f, e)
        BY <2>2 DEF Past
      <4> QED
        BY <2>0, <2>2, <4>1, <4>2, <4>3, <4>4
    <3> QED
      BY <1>2, <3>1, <3>2
  <2>3. CASE q # r
    <3> HIDE DEF ph2
    <3> QED BY <1>1, <1>2, <2>3 DEF Past
  <2> QED
    BY <2>2, <2>3
<1>4. ph2 \in [Rank -> Phase]
  BY DEF Phase
<1>5. Does(ph, ph2, r, ph[r])
  <2> HIDE DEF ph2
  <2> QED BY <1>3, Zenon DEF Does
<1> QED
  BY <1>4, <1>5

\* A call that exchanges no message passes no event.
LEMMA CallEnds ==
    ASSUME TypeOK, NEW ph \in [Rank -> Phase], NEW r \in Rank, Running(r), Return(r),
           CallOf(r).op \notin {"read", "write"}, fld[r] = 1, ph[r] = 0
    PROVE  DoesNothing(ph, ph, r)
<1>1. /\ \A q \in Rank \ {r} : at'[q] = at[q] /\ fld'[q] = fld[q]
      /\ at'[r] = at[r] + 1 /\ fld'[r] = 1
  BY DEF Return, TypeOK
<1>2. ASSUME NEW q \in Rank, NEW a \in 1..ProgramLength, NEW f \in Fields, NEW e \in Phase,
             Event(a, e)
      PROVE  Past(ph, q, a, f, e)' <=>
                Past(ph, q, a, f, e) \/ (q = r /\ a = at[r] /\ f = fld[r] /\ e = 3)
  <2>1. CASE q = r
    <3>1. at[r] \in Nat /\ a \in Nat /\ f \in Nat \ {0} /\ e \in Nat /\ a # at[r]
      BY <1>2, PositionTypes DEF Event, CallOf, Phase, Fields
    <3> QED
      BY <1>1, <2>1, <3>1 DEF Past
  <2>2. CASE q # r
    BY <1>1, <2>2 DEF Past
  <2> QED
    BY <2>1, <2>2
<1> QED
  BY <1>2, Zenon DEF DoesNothing, Does
----------------------------------------------------------------------------
(* The channels. *)

SendPhase(m)    == IF m.step = "before" THEN 0 ELSE 5
ReceivePhase(m) == IF m.step = "before" THEN 1 ELSE 6

LEMMA MessagesFrame ==
    ASSUME UNCHANGED program
    PROVE  /\ HaloMessage' = HaloMessage
           /\ GatherMessage' = GatherMessage
           /\ ScatterMessage' = ScatterMessage
BY SequentialFrame DEF HaloMessage, GatherMessage, ScatterMessage

LEMMA HaloMessageTypes ==
    ASSUME NEW m \in HaloMessage
    PROVE  /\ m \in Message /\ m.at \in 1..ProgramLength /\ m.fld \in Fields
           /\ m.step \in {"before", "after"}
           /\ Event(m.at, SendPhase(m)) /\ Event(m.at, ReceivePhase(m))
           /\ SendPhase(m) \in Phase /\ ReceivePhase(m) \in Phase
BY DEF HaloMessage, Message, SendPhase, ReceivePhase, Event, Phase

\* A call sends one message for a field and a step.
LEMMA OneHaloMessage ==
    ASSUME NEW m \in HaloMessage, NEW n \in HaloMessage,
           m.at = n.at, m.fld = n.fld, m.step = n.step
    PROVE  m = n
BY DEF HaloMessage, Message

LEMMA HaloMoves ==
    ASSUME UNCHANGED program, NEW ph, NEW ph2, NEW r \in Rank, NEW k \in Phase,
           Does(ph, ph2, r, k), NEW q \in Rank, NEW m \in HaloMessage
    PROVE  /\ HaloSent(ph2, q, m)' <=>
                \/ HaloSent(ph, q, m)
                \/ q = r /\ m.at = at[r] /\ m.fld = fld[r] /\ SendPhase(m) = k
           /\ HaloReceived(ph2, q, m)' <=>
                \/ HaloReceived(ph, q, m)
                \/ q = r /\ m.at = at[r] /\ m.fld = fld[r] /\ ReceivePhase(m) = k
<1>1. Past(ph2, q, m.at, m.fld, SendPhase(m))' <=>
        \/ Past(ph, q, m.at, m.fld, SendPhase(m))
        \/ q = r /\ m.at = at[r] /\ m.fld = fld[r] /\ SendPhase(m) = k
  BY HaloMessageTypes DEF Does
<1>2. Past(ph2, q, m.at, m.fld, ReceivePhase(m))' <=>
        \/ Past(ph, q, m.at, m.fld, ReceivePhase(m))
        \/ q = r /\ m.at = at[r] /\ m.fld = fld[r] /\ ReceivePhase(m) = k
  BY HaloMessageTypes DEF Does
<1> QED
  BY <1>1, <1>2 DEF HaloSent, HaloReceived, SendPhase, ReceivePhase

\* A step that neither sends nor receives in an exchange leaves the exchanges alone.
LEMMA HaloFrame ==
    ASSUME UNCHANGED <<program, haloBox>>, NEW ph, NEW ph2, NEW r \in Rank, NEW k \in {2, 3, 4},
           Does(ph, ph2, r, k), HaloChannels(ph)
    PROVE  HaloChannels(ph2)'
<1>1. HaloMessage' = HaloMessage
  BY MessagesFrame
<1>2. k \in Phase /\ \A m : k # SendPhase(m) /\ k # ReceivePhase(m)
  BY DEF Phase, SendPhase, ReceivePhase
<1>3. \A q \in Rank, m \in HaloMessage :
        /\ HaloSent(ph2, q, m)' <=> HaloSent(ph, q, m)
        /\ HaloReceived(ph2, q, m)' <=> HaloReceived(ph, q, m)
  BY <1>2, HaloMoves
<1>4. \A s, q \in Rank : HaloUnderWay(ph2, s, q)' = HaloUnderWay(ph, s, q)
  BY <1>1, <1>3 DEF HaloUnderWay
<1>5. \A s \in Rank : Neighbours(s)' = Neighbours(s) /\ Neighbours(s) \subseteq Rank
  BY DEF Neighbours
<1> QED
  BY <1>1, <1>3, <1>4, <1>5 DEF HaloChannels, Carries, Earlier

\* PE r sends its message of this step to every neighbour.
LEMMA HaloSendStep ==
    ASSUME TypeOK, UNCHANGED program, NEW ph, NEW ph2, NEW r \in Rank,
           NEW step \in {"before", "after"}, NEW k \in {0, 5},
           k = IF step = "before" THEN 0 ELSE 5, ph[r] = k, Running(r),
           Stamp(r, step, own[r][fld[r]]) \in HaloMessage, SendHalo(r, step),
           Does(ph, ph2, r, k), HaloChannels(ph)
    PROVE  HaloChannels(ph2)'
<1> DEFINE m0 == Stamp(r, step, own[r][fld[r]])
<1>0. /\ m0.at = at[r] /\ m0.fld = fld[r] /\ m0.step = step /\ SendPhase(m0) = k
      /\ m0 \in HaloMessage /\ m0 \in Message
  BY HaloMessageTypes DEF Stamp, SendPhase
<1> HIDE DEF m0
<1>1. HaloMessage' = HaloMessage
  BY MessagesFrame
<1>2. k \in Phase /\ \A m : k # ReceivePhase(m)
  BY DEF Phase, ReceivePhase
<1>3. \A q \in Rank, m \in HaloMessage :
        /\ HaloSent(ph2, q, m)' <=> HaloSent(ph, q, m) \/ (q = r /\ m = m0)
        /\ HaloReceived(ph2, q, m)' <=> HaloReceived(ph, q, m)
  <2> TAKE q \in Rank, m \in HaloMessage
  <2>1. m.at = at[r] /\ m.fld = fld[r] /\ SendPhase(m) = k <=> m = m0
    <3>1. SendPhase(m) = k <=> m.step = step
      BY HaloMessageTypes DEF SendPhase
    <3> QED
      BY <1>0, <3>1, OneHaloMessage
  <2> QED
    BY <1>2, <2>1, HaloMoves
<1>4. \A m \in HaloMessage : HaloSent(ph, r, m) => Earlier(m, m0) /\ m # m0
  <2> TAKE m \in HaloMessage
  <2> HAVE HaloSent(ph, r, m)
  <2>1. at[r] > m.at \/ (at[r] = m.at /\ (fld[r] > m.fld \/ (fld[r] = m.fld /\ k > SendPhase(m))))
    BY DEF HaloSent, Past, SendPhase
  <2>2. at[r] \in Nat /\ fld[r] \in Nat /\ m.at \in Nat /\ m.fld \in Nat
    BY PositionTypes, HaloMessageTypes, BoundTypes DEF Fields
  <2>3. k > SendPhase(m) => m.step = "before" /\ step = "after"
    BY HaloMessageTypes DEF SendPhase
  <2> QED
    BY <1>0, <2>1, <2>2, <2>3 DEF Earlier
<1>5. \A s \in Rank : Neighbours(s)' = Neighbours(s) /\ Neighbours(s) \subseteq Rank
  BY DEF Neighbours
<1>6. ASSUME NEW s \in Rank, NEW q \in Neighbours(s)
      PROVE  /\ Carries(haloBox'[s][q], HaloUnderWay(ph2, s, q)')
             /\ \A m \in HaloMessage : HaloReceived(ph2, q, m)' => HaloSent(ph2, s, m)'
  <2> DEFINE Sent == {m \in HaloMessage : HaloSent(ph, s, m)}
             Received == {m \in HaloMessage : HaloReceived(ph, q, m)}
  <2>0. q \in Rank
    BY <1>5
  <2>1. HaloUnderWay(ph, s, q) = Sent \ Received
    BY DEF HaloUnderWay
  <2>2. Carries(haloBox[s][q], Sent \ Received) /\ Received \subseteq Sent
    BY <2>1 DEF HaloChannels
  <2>3. CASE s = r
    <3>1. haloBox'[s][q] = Append(haloBox[s][q], m0) /\ haloBox[s][q] \in Seq(Message)
      BY <2>0, <2>3 DEF SendHalo, TypeOK, m0
    <3>2. HaloUnderWay(ph2, s, q)' = (Sent \cup {m0}) \ Received
      BY <1>0, <1>1, <1>3, <2>0, <2>3 DEF HaloUnderWay
    <3>3. \A n \in Sent : Earlier(n, m0) /\ n # m0
      BY <1>4, <2>3
    <3>4. m0 \notin Sent
      BY <3>3
    <3>5. Carries(Append(haloBox[s][q], m0), (Sent \cup {m0}) \ Received)
      <4> HIDE DEF Sent, Received
      <4> QED BY <1>0, <2>2, <3>1, <3>3, <3>4, SendOne
    <3> QED
      BY <1>3, <2>0, <2>2, <3>1, <3>2, <3>5
  <2>4. CASE s # r
    <3>1. haloBox'[s][q] = haloBox[s][q]
      BY <2>0, <2>4 DEF SendHalo, TypeOK
    <3>2. HaloUnderWay(ph2, s, q)' = Sent \ Received
      BY <1>1, <1>3, <2>0, <2>4 DEF HaloUnderWay
    <3> QED
      BY <1>3, <2>0, <2>2, <2>4, <3>1, <3>2
  <2> QED
    BY <2>3, <2>4
<1>7. \A s, q \in Rank : q \notin Neighbours(s) => haloBox'[s][q] = <<>>
  <2> TAKE s, q \in Rank
  <2> HAVE q \notin Neighbours(s)
  <2>1. haloBox'[s][q] = haloBox[s][q]
    BY DEF SendHalo, TypeOK
  <2> QED
    BY <2>1 DEF HaloChannels
<1> QED
  <2>1. \A s \in Rank : \A q \in Neighbours(s) :
           /\ Carries(haloBox[s][q], HaloUnderWay(ph2, s, q))'
           /\ (\A m \in HaloMessage : HaloReceived(ph2, q, m) => HaloSent(ph2, s, m))'
    BY <1>1, <1>6 DEF Carries, Earlier
  <2> QED
    BY <1>5, <1>7, <2>1 DEF HaloChannels

LEMMA NeighboursSymmetric ==
    ASSUME NEW r \in Rank, NEW s \in Neighbours(r)
    PROVE  s \in Rank /\ r \in Neighbours(s) /\ s # r
<1>1. s \in Rank /\ {r, s} \in Halo /\ {r, s} = {s, r}
  BY DEF Neighbours
<1>2. s # r
  <2> SUFFICES ASSUME s = r PROVE FALSE
    OBVIOUS
  <2>1. {r, s} = {r}
    OBVIOUS
  <2>2. Cardinality({r}) = 2
    BY <1>1, <2>1, RanksAssumption
  <2> QED
    BY <2>2, FS_Singleton
<1> QED
  BY <1>1, <1>2 DEF Neighbours

\* What a PE finds first in a box is what it waits for: the neighbour's message of the
\* same call, field and step, with the value one process would have there.
LEMMA HaloHead ==
    ASSUME TypeOK, NEW ph \in [Rank -> Phase], NEW r \in Rank, NEW s \in Neighbours(r), NEW v,
           NEW step \in {"before", "after"}, NEW k \in {1, 6},
           k = IF step = "before" THEN 1 ELSE 6, ph[r] = k, Running(r),
           Stamp(r, step, v) \in HaloMessage, HaloChannels(ph), haloBox[s][r] # <<>>
    PROVE  /\ Head(haloBox[s][r]) = Stamp(r, step, v)
           /\ HaloSent(ph, s, Stamp(r, step, v))
           /\ Carries(Tail(haloBox[s][r]), HaloUnderWay(ph, s, r) \ {Stamp(r, step, v)})
<1> DEFINE m0 == Stamp(r, step, v)
           Sent == {m \in HaloMessage : HaloSent(ph, s, m)}
           Received == {m \in HaloMessage : HaloReceived(ph, r, m)}
<1>0. /\ m0.at = at[r] /\ m0.fld = fld[r] /\ m0.step = step /\ ReceivePhase(m0) = k
      /\ m0 \in HaloMessage /\ m0 \in Message
  BY HaloMessageTypes DEF Stamp, ReceivePhase
<1> HIDE DEF m0
<1>1. s \in Rank /\ r \in Neighbours(s)
  BY NeighboursSymmetric
<1>2. HaloUnderWay(ph, s, r) = Sent \ Received
  BY DEF HaloUnderWay
<1>3. Carries(haloBox[s][r], Sent \ Received) /\ Received \subseteq Sent
  BY <1>1, <1>2 DEF HaloChannels
<1>4. at[r] \in Nat /\ fld[r] \in Nat /\ at[s] \in Nat /\ fld[s] \in Nat
  BY <1>1, PositionTypes
<1>5. m0 \notin Received
  BY <1>0, <1>4 DEF HaloReceived, Past
<1>6. \A n \in Sent : Earlier(m0, n) => m0 \in Sent
  <2> TAKE n \in Sent
  <2> HAVE Earlier(m0, n)
  <2>1. n.at \in Nat /\ n.fld \in Nat /\ n.step \in {"before", "after"}
    BY HaloMessageTypes, BoundTypes DEF Fields
  <2>2. Past(ph, s, n.at, n.fld, SendPhase(n))
    BY DEF HaloSent, SendPhase
  <2>3. Past(ph, s, m0.at, m0.fld, SendPhase(m0))
    <3>1. CASE m0.at < n.at
      BY <1>0, <1>4, <2>1, <2>2, <3>1 DEF Past
    <3>2. CASE m0.at = n.at /\ m0.fld < n.fld
      BY <1>0, <1>4, <2>1, <2>2, <3>2 DEF Past
    <3>3. CASE /\ m0.at = n.at /\ m0.fld = n.fld
               /\ m0.step = "before" /\ n.step = "after"
      <4>1. SendPhase(m0) = 0 /\ SendPhase(n) = 5
        BY <3>3 DEF SendPhase
      <4>2. ph[s] > 5 => ph[s] > 0
        BY <1>1 DEF Phase
      <4> QED
        BY <1>0, <1>4, <2>1, <2>2, <3>3, <4>1, <4>2 DEF Past
    <3> QED
      BY <3>1, <3>2, <3>3 DEF Earlier
  <2> QED
    BY <1>0, <2>3 DEF HaloSent, SendPhase
<1>7. \A n \in Sent \ Received : n = m0 \/ Earlier(m0, n)
  <2> TAKE n \in Sent \ Received
  <2>1. n \in HaloMessage /\ ~ Past(ph, r, n.at, n.fld, ReceivePhase(n))
    BY DEF HaloReceived, ReceivePhase
  <2>2. n.at \in Nat /\ n.fld \in Nat /\ n.step \in {"before", "after"}
    BY <2>1, HaloMessageTypes, BoundTypes DEF Fields
  <2>3. ~ (at[r] > n.at) /\ (at[r] = n.at => fld[r] <= n.fld)
        /\ (at[r] = n.at /\ fld[r] = n.fld => k <= ReceivePhase(n))
    BY <1>4, <2>1, <2>2 DEF Past, ReceivePhase
  <2>4. k <= ReceivePhase(n) => n.step = step \/ (step = "before" /\ n.step = "after")
    BY <2>2 DEF ReceivePhase
  <2> QED
    BY <1>0, <1>4, <2>1, <2>2, <2>3, <2>4, OneHaloMessage DEF Earlier
<1>8. haloBox[s][r] \in Seq(Message) /\ Sent \subseteq Message
  BY <1>1, HaloMessageTypes DEF TypeOK
<1>9. /\ Head(haloBox[s][r]) = m0
      /\ Carries(Tail(haloBox[s][r]), Sent \ (Received \cup {m0}))
      /\ Received \cup {m0} \subseteq Sent
  <2> DEFINE box == haloBox[s][r]
  <2>1. m0 \in Message /\ box # <<>>
    BY <1>0
  <2> HIDE DEF Sent, Received, box
  <2>2. \A n \in Sent : Earlier(m0, n) => m0 \in Sent
    BY <1>6
  <2>3. \A n \in Sent \ Received : n = m0 \/ Earlier(m0, n)
    BY <1>7
  <2>4. box \in Seq(Message) /\ Carries(box, Sent \ Received) /\ Sent \subseteq Message
    BY <1>3, <1>8 DEF box
  <2>5. /\ Head(box) = m0
        /\ Carries(Tail(box), Sent \ (Received \cup {m0}))
        /\ Received \cup {m0} \subseteq Sent
    BY <1>3, <1>5, <2>1, <2>2, <2>3, <2>4, ReceiveOne
  <2> QED
    BY <2>5 DEF box
<1>10. Sent \ (Received \cup {m0}) = HaloUnderWay(ph, s, r) \ {m0}
  BY <1>2
<1> QED
  BY <1>9, <1>10 DEF m0

AtNeighbours(r, v) == [s \in Neighbours(r) |-> v]

\* PE r takes the message of this step of every neighbour.
LEMMA HaloReceiveStep ==
    ASSUME TypeOK, UNCHANGED program, NEW ph \in [Rank -> Phase], NEW ph2, NEW r \in Rank,
           NEW v,
           NEW step \in {"before", "after"}, NEW k \in {1, 6},
           k = IF step = "before" THEN 1 ELSE 6, ph[r] = k, Running(r),
           Stamp(r, step, v) \in HaloMessage, RecvHalo(r),
           Does(ph, ph2, r, k), HaloChannels(ph)
    PROVE  /\ HaloChannels(ph2)'
           /\ ghost' = [ghost EXCEPT ![r][fld[r]] = AtNeighbours(r, v)]
<1> DEFINE m0 == Stamp(r, step, v)
<1>0. /\ m0.at = at[r] /\ m0.fld = fld[r] /\ m0.step = step /\ ReceivePhase(m0) = k
      /\ m0 \in HaloMessage /\ m0.val = v
  BY DEF Stamp, ReceivePhase
<1>1. HaloMessage' = HaloMessage
  BY MessagesFrame
<1>2. k \in Phase /\ \A m : k # SendPhase(m)
  BY DEF Phase, SendPhase
<1>h. \A s \in Neighbours(r) :
        /\ Head(haloBox[s][r]) = m0 /\ HaloSent(ph, s, m0)
        /\ Carries(Tail(haloBox[s][r]), HaloUnderWay(ph, s, r) \ {m0})
  BY HaloHead DEF RecvHalo, HaloArrived
<1> HIDE DEF m0
<1>3. \A q \in Rank, m \in HaloMessage :
        /\ HaloSent(ph2, q, m)' <=> HaloSent(ph, q, m)
        /\ HaloReceived(ph2, q, m)' <=> HaloReceived(ph, q, m) \/ (q = r /\ m = m0)
  <2> TAKE q \in Rank, m \in HaloMessage
  <2>1. m.at = at[r] /\ m.fld = fld[r] /\ ReceivePhase(m) = k <=> m = m0
    <3>1. ReceivePhase(m) = k <=> m.step = step
      BY HaloMessageTypes DEF ReceivePhase
    <3> QED
      BY <1>0, <3>1, OneHaloMessage
  <2>2. k \in Phase
    BY <1>2
  <2>3. /\ HaloSent(ph2, q, m)' <=>
             \/ HaloSent(ph, q, m)
             \/ q = r /\ m.at = at[r] /\ m.fld = fld[r] /\ SendPhase(m) = k
        /\ HaloReceived(ph2, q, m)' <=>
             \/ HaloReceived(ph, q, m)
             \/ q = r /\ m.at = at[r] /\ m.fld = fld[r] /\ ReceivePhase(m) = k
    BY <2>2, HaloMoves
  <2>4. k # SendPhase(m)
    BY <1>2
  <2> QED
    BY <2>1, <2>3, <2>4
<1>4. \A s \in Rank : Neighbours(s)' = Neighbours(s) /\ Neighbours(s) \subseteq Rank
  BY DEF Neighbours
<1>5. \A s, q \in Rank : haloBox'[s][q] = IF q = r /\ s \in Neighbours(r) THEN Tail(haloBox[s][q])
                                          ELSE haloBox[s][q]
  BY DEF RecvHalo, TypeOK
<1>6. ASSUME NEW s \in Rank, NEW q \in Neighbours(s)
      PROVE  /\ Carries(haloBox'[s][q], HaloUnderWay(ph2, s, q)')
             /\ \A m \in HaloMessage : HaloReceived(ph2, q, m)' => HaloSent(ph2, s, m)'
  <2>0. q \in Rank /\ s \in Neighbours(q)
    BY NeighboursSymmetric
  <2>1. /\ Carries(haloBox[s][q], HaloUnderWay(ph, s, q))
        /\ \A m \in HaloMessage : HaloReceived(ph, q, m) => HaloSent(ph, s, m)
    BY DEF HaloChannels
  <2>2. CASE q = r
    <3>1. haloBox'[s][q] = Tail(haloBox[s][r])
      BY <1>5, <2>0, <2>2
    <3>2. HaloUnderWay(ph2, s, q)' = HaloUnderWay(ph, s, r) \ {m0}
      BY <1>1, <1>3, <2>0, <2>2 DEF HaloUnderWay
    <3> QED
      BY <1>3, <1>h, <2>0, <2>1, <2>2, <3>1, <3>2
  <2>3. CASE q # r
    <3>1. haloBox'[s][q] = haloBox[s][q]
      BY <1>5, <2>0, <2>3
    <3>2. HaloUnderWay(ph2, s, q)' = HaloUnderWay(ph, s, q)
      BY <1>1, <1>3, <2>0, <2>3 DEF HaloUnderWay
    <3> QED
      BY <1>3, <2>0, <2>1, <2>3, <3>1, <3>2
  <2> QED
    BY <2>2, <2>3
<1>7. \A s, q \in Rank : q \notin Neighbours(s) => haloBox'[s][q] = <<>>
  <2> TAKE s, q \in Rank
  <2> HAVE q \notin Neighbours(s)
  <2>1. ~ (q = r /\ s \in Neighbours(r))
    BY NeighboursSymmetric
  <2> QED
    BY <1>5, <2>1 DEF HaloChannels
<1>8. HaloChannels(ph2)'
  <2>1. \A s \in Rank : \A q \in Neighbours(s) :
           /\ Carries(haloBox[s][q], HaloUnderWay(ph2, s, q))'
           /\ (\A m \in HaloMessage : HaloReceived(ph2, q, m) => HaloSent(ph2, s, m))'
    BY <1>1, <1>6 DEF Carries, Earlier
  <2> QED
    BY <1>4, <1>7, <2>1 DEF HaloChannels
<1>9. ghost' = [ghost EXCEPT ![r][fld[r]] = AtNeighbours(r, v)]
  <2>1. [s \in Neighbours(r) |-> Head(haloBox[s][r]).val] = [s \in Neighbours(r) |-> v]
    BY <1>0, <1>h
  <2> QED
    BY <2>1 DEF RecvHalo, AtNeighbours
<1> QED
  BY <1>8, <1>9

\* The messages of a gather and of a scatter are sent and received in the same phase k,
\* one for each call and field.
RootMessages(M, k) ==
    /\ M \subseteq Message
    /\ \A m \in M : m.step = "root" /\ Event(m.at, k)
    /\ \A m, n \in M : m.at = n.at /\ m.fld = n.fld => m = n

RootUnderWay(M, k, ph, s, r) ==
    {m \in M : Past(ph, s, m.at, m.fld, k) /\ ~ Past(ph, r, m.at, m.fld, k)}

RootChannel(M, k, ph, s, r, box) ==
    /\ Carries(box, RootUnderWay(M, k, ph, s, r))
    /\ \A m \in M : Past(ph, r, m.at, m.fld, k) => Past(ph, s, m.at, m.fld, k)

\* The same after a step, for the same messages.
RootUnderWayNext(M, k, ph, s, r) ==
    {m \in M : Past(ph, s, m.at, m.fld, k)' /\ ~ Past(ph, r, m.at, m.fld, k)'}

RootChannelNext(M, k, ph, s, r, box) ==
    /\ Carries(box, RootUnderWayNext(M, k, ph, s, r))
    /\ \A m \in M : Past(ph, r, m.at, m.fld, k)' => Past(ph, s, m.at, m.fld, k)'

LEMMA GatherAndScatterMessages ==
    RootMessages(GatherMessage, 2) /\ RootMessages(ScatterMessage, 4)
BY DEF RootMessages, GatherMessage, ScatterMessage, Message, Event

LEMMA RootMoves ==
    ASSUME NEW M, NEW k \in {2, 4}, RootMessages(M, k), NEW ph, NEW ph2, NEW p \in Rank,
           NEW e \in Phase, Does(ph, ph2, p, e), NEW q \in Rank, NEW m \in M
    PROVE  Past(ph2, q, m.at, m.fld, k)' <=>
              \/ Past(ph, q, m.at, m.fld, k)
              \/ q = p /\ m.at = at[p] /\ m.fld = fld[p] /\ k = e
<1>1. m.at \in 1..ProgramLength /\ m.fld \in Fields /\ Event(m.at, k) /\ k \in Phase
  BY DEF RootMessages, Message, Phase
<1> QED
  BY <1>1 DEF Does

LEMMA RootFrame ==
    ASSUME NEW M, NEW k \in {2, 4}, RootMessages(M, k), NEW ph, NEW ph2, NEW p \in Rank,
           NEW e \in Phase, Does(ph, ph2, p, e), NEW s \in Rank, NEW r \in Rank,
           e # k \/ p \notin {s, r}, NEW box, RootChannel(M, k, ph, s, r, box)
    PROVE  RootChannelNext(M, k, ph2, s, r, box)
<1>1. \A m \in M : /\ Past(ph2, s, m.at, m.fld, k)' <=> Past(ph, s, m.at, m.fld, k)
                   /\ Past(ph2, r, m.at, m.fld, k)' <=> Past(ph, r, m.at, m.fld, k)
  BY RootMoves
<1>2. RootUnderWayNext(M, k, ph2, s, r) = RootUnderWay(M, k, ph, s, r)
  BY <1>1 DEF RootUnderWay, RootUnderWayNext
<1> QED
  BY <1>1, <1>2 DEF RootChannel, RootChannelNext

LEMMA RootSend ==
    ASSUME TypeOK, NEW M, NEW k \in {2, 4}, RootMessages(M, k), NEW ph, NEW ph2,
           NEW s \in Rank, NEW r \in Rank, s # r, ph[s] = k, Running(s), Does(ph, ph2, s, k),
           NEW m0 \in M, m0.at = at[s], m0.fld = fld[s], NEW box \in Seq(Message),
           RootChannel(M, k, ph, s, r, box)
    PROVE  RootChannelNext(M, k, ph2, s, r, Append(box, m0))
<1> DEFINE Sent == {m \in M : Past(ph, s, m.at, m.fld, k)}
           Received == {m \in M : Past(ph, r, m.at, m.fld, k)}
<1>1. \A m \in M : /\ Past(ph2, s, m.at, m.fld, k)' <=> Past(ph, s, m.at, m.fld, k) \/ m = m0
                   /\ Past(ph2, r, m.at, m.fld, k)' <=> Past(ph, r, m.at, m.fld, k)
  <2> TAKE m \in M
  <2>1. k \in Phase
    BY DEF Phase
  <2>2. m.at = at[s] /\ m.fld = fld[s] <=> m = m0
    BY DEF RootMessages
  <2> QED
    BY <2>1, <2>2, RootMoves
<1>2. Carries(box, Sent \ Received) /\ Received \subseteq Sent
  <2>1. Sent \ Received = RootUnderWay(M, k, ph, s, r)
    BY DEF RootUnderWay
  <2> QED
    BY <2>1 DEF RootChannel
<1>3. \A n \in Sent : Earlier(n, m0) /\ n # m0
  <2> TAKE n \in Sent
  <2>1. n.at \in Nat /\ n.fld \in Nat /\ at[s] \in Nat /\ fld[s] \in Nat
    BY PositionTypes, BoundTypes DEF RootMessages, Message, Fields
  <2> QED
    BY <2>1 DEF Past, Earlier
<1>4. m0 \in Message /\ m0 \notin Sent
  BY <1>3 DEF RootMessages
<1>5. Carries(Append(box, m0), (Sent \cup {m0}) \ Received)
  <2> HIDE DEF Sent, Received
  <2> QED BY <1>2, <1>3, <1>4, SendOne
<1>6. RootUnderWayNext(M, k, ph2, s, r) = (Sent \cup {m0}) \ Received
  BY <1>1 DEF RootUnderWayNext
<1>7. \A m \in M : Past(ph, r, m.at, m.fld, k) => Past(ph, s, m.at, m.fld, k)
  BY DEF RootChannel
<1> QED
  <2> HIDE DEF Sent, Received
  <2> QED BY <1>1, <1>5, <1>6, <1>7 DEF RootChannelNext

\* What a PE that reaches the phase finds first is the message for it.
LEMMA RootHead ==
    ASSUME TypeOK, NEW M, NEW k \in {2, 4}, RootMessages(M, k), NEW ph \in [Rank -> Phase],
           NEW s \in Rank, NEW r \in Rank, ph[r] = k, Running(r),
           NEW m0 \in M, m0.at = at[r], m0.fld = fld[r], NEW box \in Seq(Message), box # <<>>,
           RootChannel(M, k, ph, s, r, box)
    PROVE  /\ Head(box) = m0 /\ Past(ph, s, m0.at, m0.fld, k)
           /\ Carries(Tail(box), RootUnderWay(M, k, ph, s, r) \ {m0})
<1> DEFINE Sent == {m \in M : Past(ph, s, m.at, m.fld, k)}
           Received == {m \in M : Past(ph, r, m.at, m.fld, k)}
<1>1. Sent \ Received = RootUnderWay(M, k, ph, s, r)
  BY DEF RootUnderWay
<1>2. Carries(box, Sent \ Received) /\ Received \subseteq Sent
  BY <1>1 DEF RootChannel
<1>3. /\ at[r] \in Nat /\ fld[r] \in Nat /\ at[s] \in Nat /\ fld[s] \in Nat
      /\ \A n \in M : n.at \in Nat /\ n.fld \in Nat /\ n.step = "root"
  BY PositionTypes, BoundTypes DEF RootMessages, Message, Fields
<1>4. m0 \notin Received
  BY <1>3 DEF Past
<1>5. \A n \in Sent : Earlier(m0, n) => m0 \in Sent
  BY <1>3 DEF Past, Earlier
<1>6. \A n \in Sent \ Received : n = m0 \/ Earlier(m0, n)
  <2> TAKE n \in Sent \ Received
  <2>1. ~ (at[r] > n.at) /\ (at[r] = n.at => fld[r] <= n.fld)
    BY <1>3 DEF Past
  <2> QED
    BY <1>3, <2>1 DEF Earlier, RootMessages
<1>7. m0 \in Message /\ Sent \subseteq Message
  BY DEF RootMessages
<1>8. /\ Head(box) = m0
      /\ Carries(Tail(box), Sent \ (Received \cup {m0}))
      /\ Received \cup {m0} \subseteq Sent
  <2> HIDE DEF Sent, Received
  <2> QED BY <1>2, <1>4, <1>5, <1>6, <1>7, ReceiveOne
<1>9. Sent \ (Received \cup {m0}) = RootUnderWay(M, k, ph, s, r) \ {m0}
  BY <1>1
<1> QED
  BY <1>8, <1>9

LEMMA RootReceive ==
    ASSUME TypeOK, NEW M, NEW k \in {2, 4}, RootMessages(M, k), NEW ph \in [Rank -> Phase], NEW ph2,
           NEW s \in Rank, NEW r \in Rank, s # r, ph[r] = k, Running(r), Does(ph, ph2, r, k),
           NEW m0 \in M, m0.at = at[r], m0.fld = fld[r], NEW box \in Seq(Message), box # <<>>,
           RootChannel(M, k, ph, s, r, box)
    PROVE  Head(box) = m0 /\ RootChannelNext(M, k, ph2, s, r, Tail(box))
<1>1. \A m \in M : /\ Past(ph2, s, m.at, m.fld, k)' <=> Past(ph, s, m.at, m.fld, k)
                   /\ Past(ph2, r, m.at, m.fld, k)' <=> Past(ph, r, m.at, m.fld, k) \/ m = m0
  <2> TAKE m \in M
  <2>1. k \in Phase
    BY DEF Phase
  <2>2. m.at = at[r] /\ m.fld = fld[r] <=> m = m0
    BY DEF RootMessages
  <2> QED
    BY <2>1, <2>2, RootMoves
<1>2. /\ Head(box) = m0 /\ Past(ph, s, m0.at, m0.fld, k)
      /\ Carries(Tail(box), RootUnderWay(M, k, ph, s, r) \ {m0})
  BY RootHead
<1>3. RootUnderWayNext(M, k, ph2, s, r) = RootUnderWay(M, k, ph, s, r) \ {m0}
  BY <1>1 DEF RootUnderWay, RootUnderWayNext
<1>4. \A m \in M : Past(ph, r, m.at, m.fld, k) => Past(ph, s, m.at, m.fld, k)
  BY DEF RootChannel
<1> QED
  BY <1>1, <1>2, <1>3, <1>4 DEF RootChannelNext
----------------------------------------------------------------------------
(* Gathers. *)

LEMMA GatherIsRoot ==
    /\ \A ph : GatherChannels(ph) <=>
          \A r \in Others : RootChannel(GatherMessage, 2, ph, r, Owner, gatherBox[r])
    /\ UNCHANGED program =>
          \A ph : GatherChannels(ph)' <=>
             \A r \in Others : RootChannelNext(GatherMessage, 2, ph, r, Owner, gatherBox'[r])
<1>1. \A ph : GatherChannels(ph) <=>
        \A r \in Others : RootChannel(GatherMessage, 2, ph, r, Owner, gatherBox[r])
  BY DEF GatherChannels, GatherUnderWay, GatherPast, RootChannel, RootUnderWay
<1>2. ASSUME UNCHANGED program
      PROVE  \A ph : GatherChannels(ph)' <=>
                \A r \in Others : RootChannelNext(GatherMessage, 2, ph, r, Owner, gatherBox'[r])
  <2>1. GatherMessage' = GatherMessage
    BY <1>2, MessagesFrame
  <2>2. \A ph : \A r \in Others :
           GatherUnderWay(ph, r)' = RootUnderWayNext(GatherMessage, 2, ph, r, Owner)
    BY <2>1 DEF GatherUnderWay, GatherPast, RootUnderWayNext
  <2> QED
    BY <2>1, <2>2 DEF GatherChannels, GatherPast, RootChannelNext, Carries, Earlier, Others
<1> QED
  BY <1>1, <1>2

LEMMA GatherFrame ==
    ASSUME UNCHANGED <<program, gatherBox>>, NEW ph, NEW ph2, NEW p \in Rank,
           NEW e \in Phase \ {2}, Does(ph, ph2, p, e), GatherChannels(ph)
    PROVE  GatherChannels(ph2)'
<1>1. RootMessages(GatherMessage, 2) /\ Owner \in Rank /\ Others \subseteq Rank
  BY GatherAndScatterMessages, RanksAssumption DEF Others
<1> SUFFICES ASSUME NEW r \in Others
             PROVE  RootChannelNext(GatherMessage, 2, ph2, r, Owner, gatherBox'[r])
  BY GatherIsRoot
<1>2. RootChannel(GatherMessage, 2, ph, r, Owner, gatherBox[r])
  BY GatherIsRoot
<1> QED
  BY <1>1, <1>2, RootFrame

LEMMA GatherHead ==
    ASSUME TypeOK, NEW ph \in [Rank -> Phase], NEW p \in Others, NEW v, ph[Owner] = 2,
           Running(Owner), Stamp(Owner, "root", v) \in GatherMessage, GatherChannels(ph),
           gatherBox[p] # <<>>
    PROVE  Head(gatherBox[p]) = Stamp(Owner, "root", v)
<1> DEFINE m0 == Stamp(Owner, "root", v)
           box == gatherBox[p]
<1>1. m0 \in GatherMessage /\ m0.at = at[Owner] /\ m0.fld = fld[Owner]
  BY DEF Stamp
<1>2. RootMessages(GatherMessage, 2) /\ Owner \in Rank /\ p \in Rank
  BY GatherAndScatterMessages, RanksAssumption DEF Others
<1>3. /\ box \in Seq(Message) /\ box # <<>>
      /\ RootChannel(GatherMessage, 2, ph, p, Owner, box)
  BY GatherIsRoot DEF TypeOK
<1> HIDE DEF m0, box
<1>4. /\ Head(box) = m0 /\ Past(ph, p, m0.at, m0.fld, 2)
      /\ Carries(Tail(box), RootUnderWay(GatherMessage, 2, ph, p, Owner) \ {m0})
  BY <1>1, <1>2, <1>3, RootHead
<1> QED
  BY <1>4 DEF m0, box

\* A PE that is not the owner sends its points of the field.
LEMMA GatherSendStep ==
    ASSUME TypeOK, UNCHANGED program, NEW ph, NEW ph2, NEW p \in Others, NEW v, ph[p] = 2,
           Running(p), Stamp(p, "root", v) \in GatherMessage,
           gatherBox' = [gatherBox EXCEPT ![p] = Append(@, Stamp(p, "root", v))],
           Does(ph, ph2, p, 2), GatherChannels(ph)
    PROVE  GatherChannels(ph2)'
<1> DEFINE m0 == Stamp(p, "root", v)
<1>0. m0 \in GatherMessage /\ m0.at = at[p] /\ m0.fld = fld[p]
  BY DEF Stamp
<1>1. /\ RootMessages(GatherMessage, 2) /\ Owner \in Rank /\ Others \subseteq Rank
      /\ p # Owner /\ 2 \in Phase
  BY GatherAndScatterMessages, RanksAssumption DEF Others, Phase
<1> SUFFICES ASSUME NEW r \in Others
             PROVE  RootChannelNext(GatherMessage, 2, ph2, r, Owner, gatherBox'[r])
  BY GatherIsRoot
<1>2. RootChannel(GatherMessage, 2, ph, r, Owner, gatherBox[r]) /\ gatherBox[r] \in Seq(Message)
  BY GatherIsRoot DEF TypeOK
<1>3. CASE r = p
  <2>1. gatherBox'[r] = Append(gatherBox[r], m0)
    BY <1>3 DEF TypeOK
  <2> HIDE DEF m0
  <2> QED
    BY <1>0, <1>1, <1>2, <1>3, <2>1, RootSend
<1>4. CASE r # p
  <2>1. gatherBox'[r] = gatherBox[r] /\ p \notin {r, Owner}
    BY <1>1, <1>4 DEF TypeOK
  <2> QED
    BY <1>1, <1>2, <2>1, RootFrame
<1> QED
  BY <1>3, <1>4

\* The owner takes the points of every other PE.
LEMMA GatherReceiveStep ==
    ASSUME TypeOK, UNCHANGED program, NEW ph \in [Rank -> Phase], NEW ph2, NEW v, ph[Owner] = 2,
           Running(Owner), Stamp(Owner, "root", v) \in GatherMessage,
           \A r \in Others : gatherBox[r] # <<>>,
           gatherBox' = [r \in Others |-> Tail(gatherBox[r])],
           Does(ph, ph2, Owner, 2), GatherChannels(ph)
    PROVE  GatherChannels(ph2)' /\ \A r \in Others : Head(gatherBox[r]) = Stamp(Owner, "root", v)
<1> DEFINE m0 == Stamp(Owner, "root", v)
<1>0. m0 \in GatherMessage /\ m0.at = at[Owner] /\ m0.fld = fld[Owner]
  BY DEF Stamp
<1> HIDE DEF m0
<1>1. /\ RootMessages(GatherMessage, 2) /\ Owner \in Rank
      /\ \A r \in Others : r \in Rank /\ r # Owner
  BY GatherAndScatterMessages, RanksAssumption DEF Others
<1>2. ASSUME NEW r \in Others
      PROVE  /\ Head(gatherBox[r]) = m0
             /\ RootChannelNext(GatherMessage, 2, ph2, r, Owner, gatherBox'[r])
  <2>1. RootChannel(GatherMessage, 2, ph, r, Owner, gatherBox[r]) /\ gatherBox[r] \in Seq(Message)
    BY GatherIsRoot DEF TypeOK
  <2>2. /\ Head(gatherBox[r]) = m0
        /\ RootChannelNext(GatherMessage, 2, ph2, r, Owner, Tail(gatherBox[r]))
    BY <1>0, <1>1, <2>1, RootReceive
  <2> QED
    BY <2>2
<1> QED
  BY <1>2, GatherIsRoot DEF m0
----------------------------------------------------------------------------
(* Scatters. *)

LEMMA ScatterIsRoot ==
    /\ \A ph : ScatterChannels(ph) <=>
          \A r \in Others : RootChannel(ScatterMessage, 4, ph, Owner, r, scatterBox[r])
    /\ UNCHANGED program =>
          \A ph : ScatterChannels(ph)' <=>
             \A r \in Others : RootChannelNext(ScatterMessage, 4, ph, Owner, r, scatterBox'[r])
<1>1. \A ph : ScatterChannels(ph) <=>
        \A r \in Others : RootChannel(ScatterMessage, 4, ph, Owner, r, scatterBox[r])
  BY DEF ScatterChannels, ScatterUnderWay, ScatterPast, RootChannel, RootUnderWay
<1>2. ASSUME UNCHANGED program
      PROVE  \A ph : ScatterChannels(ph)' <=>
                \A r \in Others : RootChannelNext(ScatterMessage, 4, ph, Owner, r, scatterBox'[r])
  <2>1. ScatterMessage' = ScatterMessage
    BY <1>2, MessagesFrame
  <2>2. \A ph : \A r \in Others :
           ScatterUnderWay(ph, r)' = RootUnderWayNext(ScatterMessage, 4, ph, Owner, r)
    BY <2>1 DEF ScatterUnderWay, ScatterPast, RootUnderWayNext
  <2> QED
    BY <2>1, <2>2 DEF ScatterChannels, ScatterPast, RootChannelNext, Carries, Earlier, Others
<1> QED
  BY <1>1, <1>2

LEMMA ScatterFrame ==
    ASSUME UNCHANGED <<program, scatterBox>>, NEW ph, NEW ph2, NEW p \in Rank,
           NEW e \in Phase \ {4}, Does(ph, ph2, p, e), ScatterChannels(ph)
    PROVE  ScatterChannels(ph2)'
<1>1. RootMessages(ScatterMessage, 4) /\ Owner \in Rank /\ Others \subseteq Rank
  BY GatherAndScatterMessages, RanksAssumption DEF Others
<1> SUFFICES ASSUME NEW r \in Others
             PROVE  RootChannelNext(ScatterMessage, 4, ph2, Owner, r, scatterBox'[r])
  BY ScatterIsRoot
<1>2. RootChannel(ScatterMessage, 4, ph, Owner, r, scatterBox[r])
  BY ScatterIsRoot
<1> QED
  BY <1>1, <1>2, RootFrame

\* The owner sends every other PE its points of what was read; they are all the same
\* version of the field, and so the same message.
LEMMA ScatterSendStep ==
    ASSUME TypeOK, UNCHANGED program, NEW ph, NEW ph2, NEW v, ph[Owner] = 4,
           Running(Owner), Stamp(Owner, "root", v) \in ScatterMessage,
           scatterBox' = [r \in Others |-> Append(scatterBox[r], Stamp(Owner, "root", v))],
           Does(ph, ph2, Owner, 4), ScatterChannels(ph)
    PROVE  ScatterChannels(ph2)'
<1> DEFINE m0 == Stamp(Owner, "root", v)
<1>0. m0 \in ScatterMessage /\ m0.at = at[Owner] /\ m0.fld = fld[Owner]
  BY DEF Stamp
<1> HIDE DEF m0
<1>1. /\ RootMessages(ScatterMessage, 4) /\ Owner \in Rank
      /\ \A r \in Others : r \in Rank /\ r # Owner
  BY GatherAndScatterMessages, RanksAssumption DEF Others
<1> SUFFICES ASSUME NEW r \in Others
             PROVE  RootChannelNext(ScatterMessage, 4, ph2, Owner, r, scatterBox'[r])
  BY ScatterIsRoot
<1>2. RootChannel(ScatterMessage, 4, ph, Owner, r, scatterBox[r]) /\ scatterBox[r] \in Seq(Message)
  BY ScatterIsRoot DEF TypeOK
<1>3. scatterBox'[r] = Append(scatterBox[r], m0)
  BY DEF m0
<1> QED
  BY <1>0, <1>1, <1>2, <1>3, RootSend

LEMMA ScatterHead ==
    ASSUME TypeOK, NEW ph \in [Rank -> Phase], NEW p \in Others, NEW v, ph[p] = 4, Running(p),
           Stamp(p, "root", v) \in ScatterMessage, ScatterChannels(ph), scatterBox[p] # <<>>
    PROVE  Head(scatterBox[p]) = Stamp(p, "root", v)
<1> DEFINE m0 == Stamp(p, "root", v)
           box == scatterBox[p]
<1>1. m0 \in ScatterMessage /\ m0.at = at[p] /\ m0.fld = fld[p]
  BY DEF Stamp
<1>2. RootMessages(ScatterMessage, 4) /\ Owner \in Rank /\ p \in Rank
  BY GatherAndScatterMessages, RanksAssumption DEF Others
<1>3. /\ box \in Seq(Message) /\ box # <<>>
      /\ RootChannel(ScatterMessage, 4, ph, Owner, p, box)
  BY ScatterIsRoot DEF TypeOK
<1> HIDE DEF m0, box
<1>4. /\ Head(box) = m0 /\ Past(ph, Owner, m0.at, m0.fld, 4)
      /\ Carries(Tail(box), RootUnderWay(ScatterMessage, 4, ph, Owner, p) \ {m0})
  BY <1>1, <1>2, <1>3, RootHead
<1> QED
  BY <1>4 DEF m0, box

\* A PE that is not the owner takes its points.
LEMMA ScatterReceiveStep ==
    ASSUME TypeOK, UNCHANGED program, NEW ph \in [Rank -> Phase], NEW ph2, NEW p \in Others, NEW v,
           ph[p] = 4, Running(p), Stamp(p, "root", v) \in ScatterMessage, scatterBox[p] # <<>>,
           scatterBox' = [scatterBox EXCEPT ![p] = Tail(@)],
           Does(ph, ph2, p, 4), ScatterChannels(ph)
    PROVE  ScatterChannels(ph2)' /\ Head(scatterBox[p]) = Stamp(p, "root", v)
<1> DEFINE m0 == Stamp(p, "root", v)
<1>0. m0 \in ScatterMessage /\ m0.at = at[p] /\ m0.fld = fld[p]
  BY DEF Stamp
<1> HIDE DEF m0
<1>1. /\ RootMessages(ScatterMessage, 4) /\ Owner \in Rank /\ 4 \in Phase
      /\ \A r \in Others : r \in Rank /\ r # Owner
  BY GatherAndScatterMessages, RanksAssumption DEF Others, Phase
<1>2. \A r \in Others : /\ RootChannel(ScatterMessage, 4, ph, Owner, r, scatterBox[r])
                        /\ scatterBox[r] \in Seq(Message)
  BY ScatterIsRoot DEF TypeOK
<1>3. Head(scatterBox[p]) = m0 /\ RootChannelNext(ScatterMessage, 4, ph2, Owner, p, Tail(scatterBox[p]))
  BY <1>0, <1>1, <1>2, RootReceive
<1>4. ASSUME NEW r \in Others
      PROVE  RootChannelNext(ScatterMessage, 4, ph2, Owner, r, scatterBox'[r])
  <2>1. CASE r = p
    BY <1>3, <2>1 DEF TypeOK
  <2>2. CASE r # p
    <3>1. scatterBox'[r] = scatterBox[r] /\ p \notin {Owner, r} /\ p \in Rank
      BY <1>1, <2>2 DEF TypeOK
    <3> QED
      BY <1>1, <1>2, <3>1, RootFrame
  <2> QED
    BY <2>1, <2>2
<1> QED
  BY <1>3, <1>4, ScatterIsRoot DEF m0
----------------------------------------------------------------------------
(* The values that a program has, and the messages that carry them. *)

LEMMA ValType ==
    ASSUME TypeOK, NEW k \in 0..ProgramLength
    PROVE  /\ \A f \in Fields : Val(k, f) \in Version
           /\ DOMAIN Sequential[k].val = Fields
           /\ \A p \in Path : \/ Sequential[k].file[p] = <<>>
                              \/ Sequential[k].file[p] \in [Fields -> Version]
                              \/ Sequential[k].file[p] \in [Fields \ Skipped -> Version]
<1>1. Sequential[k] \in SequentialState
  BY SequentialType DEF TypeOK
<1> QED
  BY <1>1 DEF SequentialState, Val

LEMMA CallFacts ==
    ASSUME TypeOK, NEW r \in Rank, Running(r)
    PROVE  /\ at[r] \in 1..ProgramLength /\ at[r] \in 0..ProgramLength
           /\ at[r] - 1 \in 0..ProgramLength /\ fld[r] \in Fields
           /\ CallOf(r).op \in {"read", "write", "initialise", "compute"}
           /\ CallOf(r).path \in Path /\ CallOf(r).conv \in {LFRIC, JEDI}
           /\ Val(at[r], fld[r]) \in Version /\ Val(at[r] - 1, fld[r]) \in Version
<1>1. at[r] \in 1..ProgramLength /\ at[r] - 1 \in 0..ProgramLength /\ fld[r] \in Fields
  BY PositionTypes
<1>2. at[r] \in 0..ProgramLength
  BY <1>1
<1> QED
  BY <1>1, <1>2, ValType, CallTypes DEF CallOf, TypeOK

\* The messages that belong to where a PE is.
LEMMA MessageHere ==
    ASSUME TypeOK, NEW r \in Rank, Running(r), CallOf(r).op \in {"read", "write"}
    PROVE  /\ Stamp(r, "before", Val(at[r] - 1, fld[r])) \in HaloMessage
           /\ Stamp(r, "root", Val(at[r] - 1, fld[r])) \in GatherMessage
           /\ CallOf(r).op = "read" =>
                 /\ Stamp(r, "after", Val(at[r], fld[r])) \in HaloMessage
                 /\ Stamp(r, "root", Val(at[r], fld[r])) \in ScatterMessage
BY CallFacts DEF HaloMessage, GatherMessage, ScatterMessage, Stamp, Message, CallOf

\* A write leaves the fields as they are.
LEMMA WriteKeepsValues ==
    ASSUME TypeOK, NEW r \in Rank, Running(r), CallOf(r).op = "write"
    PROVE  \A f : Val(at[r], f) = Val(at[r] - 1, f)
BY CallFacts, SequentialCalls DEF CallOf, TypeOK, Val
----------------------------------------------------------------------------
(* What one PE has. *)

LocalAt(r) ==
    /\ /\ pc[r] = "ready" => fld[r] = 1
       /\ pc[r] \in Collective => Running(r) /\ CallOf(r).op \in {"read", "write"}
       /\ pc[r] \in InRead => CallOf(r).op = "read"
       /\ pc[r] = "file" => r = Owner
    /\ \A f \in Fields :
          pc[r] # "dead" => own[r][f] = Val(IF FieldDone(r, f) THEN at[r] ELSE at[r] - 1, f)
    /\ \A f \in Fields :
          pc[r] \in Collective /\ HaloDone(r, f) =>
              \A s \in Neighbours(r) : ghost[r][f][s] = Val(at[r], f)
    /\ (pc[r] = "ready" /\ at[r] > 1) =>
          (program[at[r] - 1].op \in {"read", "write"} =>
              \A f \in Fields, s \in Neighbours(r) : ghost[r][f][s] = Val(at[r] - 1, f))

OwnerHas == GlobalValues /\ DiskValues

LEMMA InvariantPerPE ==
    IInv <=> TypeOK /\ (\A r \in Rank : LocalAt(r)) /\ Channels /\ OwnerHas
BY DEF IInv, Control, Values, OwnValues, GhostValues, HaloCoherent, OwnerHas, LocalAt, Val

\* A PE that takes no step.
SamePlace(q) == at'[q] = at[q] /\ pc'[q] = pc[q] /\ fld'[q] = fld[q]
SameValues(q) == own'[q] = own[q] /\ ghost'[q] = ghost[q]

LEMMA LocalFrame ==
    ASSUME UNCHANGED program, NEW q \in Rank, SamePlace(q), SameValues(q), LocalAt(q)
    PROVE  LocalAt(q)'
<1>1. Neighbours(q)' = Neighbours(q)
  BY DEF Neighbours
<1>2. \A k, f : Val(k, f)' = Val(k, f)
  BY SequentialFrame
<1>3. Running(q)' = Running(q) /\ CallOf(q)' = CallOf(q)
  BY DEF SamePlace, Running, CallOf
<1>4. \A f \in Fields : FieldDone(q, f)' = FieldDone(q, f) /\ HaloDone(q, f)' = HaloDone(q, f)
  BY <1>3 DEF FieldDone, HaloDone, SamePlace
<1> QED
  BY <1>1, <1>2, <1>3, <1>4 DEF LocalAt, SamePlace, SameValues, Val

PlaceTypes ==
    /\ at \in [Rank -> 1..ProgramLength + 1]
    /\ pc \in [Rank -> PC]
    /\ fld \in [Rank -> Fields]

\* PE r goes on in the same field, or leaves it; the others stay where they are.
LEMMA GotoPlaces ==
    ASSUME TypeOK, NEW r \in Rank, NEW next \in PC, Goto(r, next), UNCHANGED <<at, fld>>
    PROVE  /\ PlaceTypes' /\ at'[r] = at[r] /\ fld'[r] = fld[r] /\ pc'[r] = next
           /\ \A q \in Rank \ {r} : SamePlace(q)
BY DEF TypeOK, PlaceTypes, Goto, SamePlace

LEMMA ReturnPlaces ==
    ASSUME TypeOK, NEW r \in Rank, Running(r), Return(r)
    PROVE  /\ PlaceTypes' /\ at'[r] = at[r] + 1 /\ fld'[r] = 1 /\ pc'[r] = "ready"
           /\ \A q \in Rank \ {r} : SamePlace(q)
<1>1. at \in [Rank -> 1..ProgramLength + 1] /\ pc \in [Rank -> PC] /\ fld \in [Rank -> Fields]
  BY DEF TypeOK
<1>2. at[r] + 1 \in 1..ProgramLength + 1 /\ 1 \in Fields
  BY CallFacts, BoundTypes
<1> QED
  BY <1>1, <1>2 DEF PlaceTypes, Return, Goto, SamePlace, PC

LEMMA NextFieldPlaces ==
    ASSUME TypeOK, NEW r \in Rank, Running(r), NextField(r)
    PROVE  /\ PlaceTypes'
           /\ \/ /\ fld[r] = NField /\ at'[r] = at[r] + 1 /\ fld'[r] = 1
                 /\ pc'[r] = "ready"
              \/ /\ fld[r] < NField /\ at'[r] = at[r] /\ fld'[r] = fld[r] + 1
                 /\ pc'[r] = "sendHalo"
           /\ \A q \in Rank \ {r} : SamePlace(q)
<1>1. CASE LastField(r)
  BY <1>1, ReturnPlaces DEF NextField, LastField
<1>2. CASE ~ LastField(r)
  <2>1. /\ at \in [Rank -> 1..ProgramLength + 1] /\ pc \in [Rank -> PC]
        /\ fld \in [Rank -> Fields]
    BY DEF TypeOK
  <2>2. fld[r] < NField /\ fld[r] + 1 \in Fields
    BY <1>2, PositionTypes DEF LastField, Fields
  <2> QED
    BY <1>2, <2>1, <2>2 DEF PlaceTypes, NextField, Goto, SamePlace, PC
<1> QED
  BY <1>1, <1>2

\* A PE that ends a field of a read or a write has the fields up to it as the call
\* leaves them, at its own points and at those of its neighbours.
LEMMA FieldEndsLocal ==
    ASSUME TypeOK, UNCHANGED program, NEW r \in Rank, Running(r), NextField(r),
           CallOf(r).op \in {"read", "write"},
           \A f \in Fields : own'[r][f] = Val(IF f <= fld[r] THEN at[r] ELSE at[r] - 1, f),
           \A f \in Fields : f <= fld[r] =>
              \A s \in Neighbours(r) : ghost'[r][f][s] = Val(at[r], f)
    PROVE  LocalAt(r)'
<1>0. /\ at[r] \in 1..ProgramLength /\ NField \in Nat \ {0} /\ fld[r] \in 1..NField
      /\ \A f \in Fields : f \in 1..NField
  BY CallFacts, BoundTypes DEF Fields
<1>1. Neighbours(r)' = Neighbours(r)
  BY DEF Neighbours
<1>2. \A k, f : Val(k, f)' = Val(k, f)
  BY SequentialFrame
<1>3. CASE fld[r] = NField /\ at'[r] = at[r] + 1 /\ fld'[r] = 1 /\ pc'[r] = "ready"
  <2>1. at'[r] - 1 = at[r] /\ \A f \in Fields : f <= fld[r] /\ ~ FieldDone(r, f)'
    BY <1>0, <1>3 DEF FieldDone
  <2>2. \A f \in Fields : /\ own'[r][f] = Val(at[r], f)
                          /\ \A s \in Neighbours(r) : ghost'[r][f][s] = Val(at[r], f)
    BY <2>1
  <2>3. \A f \in Fields : Val(IF FieldDone(r, f) THEN at[r] ELSE at[r] - 1, f)' = Val(at[r], f)
    BY <1>2, <2>1
  <2> QED
    BY <1>1, <1>2, <1>3, <2>1, <2>2, <2>3 DEF LocalAt, Collective, InRead
<1>4. CASE /\ fld[r] < NField /\ at'[r] = at[r] /\ fld'[r] = fld[r] + 1
           /\ pc'[r] = "sendHalo"
  <2>1. \A f \in Fields : /\ FieldDone(r, f)' <=> f <= fld[r]
                          /\ HaloDone(r, f)' => f <= fld[r]
    BY <1>0, <1>4 DEF FieldDone, HaloDone
  <2>2. Running(r)' /\ CallOf(r)' = CallOf(r)
    BY <1>4 DEF Running, CallOf
  <2>3. \A f \in Fields : Val(IF FieldDone(r, f) THEN at[r] ELSE at[r] - 1, f)'
                             = Val(IF f <= fld[r] THEN at[r] ELSE at[r] - 1, f)
    BY <1>2, <1>4, <2>1
  <2>4. \A f : Val(at[r], f)' = Val(at[r], f)
    BY <1>2, <1>4
  <2> QED
    BY <1>1, <1>4, <2>1, <2>2, <2>3, <2>4 DEF LocalAt, Collective, InRead
<1> QED
  BY <1>3, <1>4, NextFieldPlaces

\* The phase of a step of a field.
PhaseIs(c, k) ==
    /\ c \in {"ready", "sendHalo"} => k = 0
    /\ c = "recvHalo" => k = 1
    /\ c = "gather" => k = 2
    /\ c = "file" => k = 3
    /\ c = "scatter" => k = 4
    /\ c = "sendHalo2" => k = 5
    /\ c = "recvHalo2" => k = 6

LEMMA InPhaseNext ==
    ASSUME NEW ph \in [Rank -> Phase], InPhase(ph), NEW r \in Rank, NEW k \in Phase,
           \A q \in Rank \ {r} : SamePlace(q), PhaseIs(pc'[r], k)
    PROVE  InPhase([ph EXCEPT ![r] = k])'
<1> DEFINE ph2 == [ph EXCEPT ![r] = k]
<1>1. ph2[r] = k /\ \A q \in Rank \ {r} : ph2[q] = ph[q] /\ pc'[q] = pc[q]
  BY DEF SamePlace
<1> HIDE DEF ph2
<1>2. InPhase(ph2)'
  <2> SUFFICES ASSUME NEW q \in Rank PROVE PhaseIs(pc'[q], ph2[q])
    BY DEF InPhase, PhaseIs
  <2>1. CASE q = r
    BY <1>1, <2>1
  <2>2. CASE q # r
    <3>1. PhaseIs(pc[q], ph[q])
      BY DEF InPhase, PhaseIs
    <3> QED
      BY <1>1, <2>2, <3>1
  <2> QED
    BY <2>1, <2>2
<1> QED
  BY <1>2 DEF ph2

\* A PE goes to the next phase of the field it is in; only the owner stops at its file.
LEMMA OnwardsPhase ==
    ASSUME TypeOK, NEW ph \in [Rank -> Phase], InPhase(ph), NEW r \in Rank, UNCHANGED <<at, fld>>,
           \A q \in Rank \ {r} : SamePlace(q), NEW e, NEW k, ph[r] = e, PhaseIs(pc'[r], k),
           <<e, k>> \in {<<0, 1>>, <<1, 2>>, <<2, 3>>, <<2, 4>>, <<3, 4>>, <<4, 5>>, <<5, 6>>}
    PROVE  \E ph2 \in [Rank -> Phase] : Does(ph, ph2, r, e) /\ InPhase(ph2)'
<1>1. e \in 0..5 /\ k \in Phase /\ k \in {e + 1, e + 2} /\ (k = e + 2 => k = 4)
  BY DEF Phase
<1>2. [ph EXCEPT ![r] = k] \in [Rank -> Phase] /\ Does(ph, [ph EXCEPT ![r] = k], r, e)
  BY <1>1, NextPhase
<1>3. InPhase([ph EXCEPT ![r] = k])'
  BY <1>1, InPhaseNext
<1> QED
  BY <1>2, <1>3, Zenon

\* A step without a message.
LEMMA QuietChannels ==
    ASSUME UNCHANGED <<program, boxes>>, NEW r \in Rank, NEW ph \in [Rank -> Phase],
           NEW ph2 \in [Rank -> Phase], DoesNothing(ph, ph2, r), InPhase(ph2)',
           HaloChannels(ph), GatherChannels(ph), ScatterChannels(ph)
    PROVE  Channels'
<1>1. 3 \in {2, 3, 4} /\ 3 \in Phase \ {2} /\ 3 \in Phase \ {4}
  BY DEF Phase
<1>2. HaloChannels(ph2)'
  BY <1>1, HaloFrame DEF boxes, DoesNothing
<1>3. GatherChannels(ph2)'
  BY <1>1, GatherFrame DEF boxes, DoesNothing
<1>4. ScatterChannels(ph2)'
  BY <1>1, ScatterFrame DEF boxes, DoesNothing
<1> QED
  BY <1>2, <1>3, <1>4 DEF Channels

\* It is enough to look at the PE that takes the step.
LEMMA StepOf ==
    ASSUME IInv, UNCHANGED program, NEW r \in Rank,
           \A q \in Rank \ {r} : SamePlace(q) /\ SameValues(q),
           TypeOK', LocalAt(r)', Channels', OwnerHas'
    PROVE  IInv'
<1>1. \A q \in Rank : LocalAt(q)'
  BY InvariantPerPE, LocalFrame
<1>2. IInv' <=> TypeOK' /\ (\A q \in Rank : LocalAt(q)') /\ Channels' /\ OwnerHas'
  BY DEF IInv, Control, Values, OwnValues, GhostValues, HaloCoherent, OwnerHas, LocalAt, Val
<1> QED
  BY <1>1, <1>2
----------------------------------------------------------------------------
(* What the owner has. *)

LEMMA OwnerFrame ==
    ASSUME UNCHANGED <<program, global, disk>>, SamePlace(Owner), OwnerHas
    PROVE  OwnerHas'
<1>1. Sequential' = Sequential /\ \A k, f : Val(k, f)' = Val(k, f)
  BY SequentialFrame
<1>2. \A p : Writing(p)' = Writing(p)
  BY DEF Writing, CallOf, SamePlace
<1>3. \A p : /\ FileAfter(at[Owner] - 1, p)' = FileAfter(at[Owner] - 1, p)
             /\ FirstFields(at[Owner] - 1, fld[Owner] - 1)'
                  = FirstFields(at[Owner] - 1, fld[Owner] - 1)
  BY <1>1 DEF FileAfter, FirstFields, Val, SamePlace
<1> QED
  BY <1>1, <1>2, <1>3 DEF OwnerHas, GlobalValues, DiskValues, SamePlace

\* Only a write changes the files.
LEMMA FilesKept ==
    ASSUME TypeOK, UNCHANGED <<program, disk>>, DiskValues, Running(Owner), pc[Owner] # "dead",
           CallOf(Owner).op # "write", at'[Owner] \in {at[Owner], at[Owner] + 1},
           pc'[Owner] \in Collective => at'[Owner] = at[Owner]
    PROVE  DiskValues'
<1>1. Sequential' = Sequential
  BY SequentialFrame
<1>2. \A p : ~ Writing(p) /\ ~ Writing(p)'
  BY DEF Writing, CallOf
<1>3. \A p : FileAfter(at[Owner] - 1, p)' = FileAfter(at[Owner] - 1, p)
  <2>1. at[Owner] \in 1..ProgramLength /\ Sequential[at[Owner]].file = Sequential[at[Owner] - 1].file
    <3>1. at[Owner] \in 1..ProgramLength /\ Owner \in Rank
      BY CallFacts, RanksAssumption
    <3>2. program[at[Owner]].op \in {"read", "initialise", "compute"}
      BY <3>1, CallFacts DEF CallOf
    <3>3. Sequential[at[Owner]].file = Sequential[at[Owner] - 1].file
      BY <3>1, <3>2, SequentialCalls DEF TypeOK
    <3> QED
      BY <3>1, <3>3
  <2>2. at[Owner] + 1 - 1 = at[Owner]
    BY <2>1
  <2> QED
    BY <1>1, <2>1, <2>2 DEF FileAfter
<1> QED
  BY <1>2, <1>3 DEF DiskValues

\* A file that is being written waits for the next field.
LEMMA WritingKept ==
    ASSUME UNCHANGED <<program, disk>>, DiskValues, at'[Owner] = at[Owner], fld'[Owner] = fld[Owner],
           pc[Owner] \in Collective, pc'[Owner] \in Collective
    PROVE  DiskValues'
<1>1. Sequential' = Sequential /\ \A k, f : Val(k, f)' = Val(k, f)
  BY SequentialFrame
<1>2. \A p : Writing(p)' = Writing(p)
  BY DEF Writing, CallOf
<1>3. \A p : /\ FileAfter(at[Owner] - 1, p)' = FileAfter(at[Owner] - 1, p)
             /\ FirstFields(at[Owner] - 1, fld[Owner] - 1)'
                  = FirstFields(at[Owner] - 1, fld[Owner] - 1)
  BY <1>1 DEF FileAfter, FirstFields, Val
<1> QED
  BY <1>2, <1>3 DEF DiskValues, Collective
----------------------------------------------------------------------------
(* The steps. *)

\* A PE that dies leaves its messages and its files as they are.
LEMMA DeathStep ==
    ASSUME IInv, NEW r \in Rank, throwException(r)
    PROVE  IInv'
<1>0. UNCHANGED <<program, at, fld, own, ghost, result, global, disk, boxes>> /\ Goto(r, "dead")
  BY DEF throwException, data
<1>1. PICK ph \in [Rank -> Phase] :
        InPhase(ph) /\ HaloChannels(ph) /\ GatherChannels(ph) /\ ScatterChannels(ph)
  BY DEF IInv, Channels
<1>2. /\ PlaceTypes' /\ at'[r] = at[r] /\ fld'[r] = fld[r] /\ pc'[r] = "dead"
      /\ \A q \in Rank \ {r} : SamePlace(q)
  BY <1>0, GotoPlaces DEF IInv, PC
<1>3. TypeOK'
  BY <1>0, <1>2 DEF IInv, TypeOK, PlaceTypes, boxes, Neighbours
<1>4. LocalAt(r)'
  BY <1>2 DEF LocalAt, Collective, InRead
<1>5. Channels'
  <2>1. InPhase(ph)'
    <3>1. PhaseIs(pc'[r], ph[r]) /\ ph[r] \in Phase /\ ph = [ph EXCEPT ![r] = ph[r]]
      BY <1>2 DEF PhaseIs
    <3> QED
      BY <1>1, <1>2, <3>1, InPhaseNext
  <2>2. DoesNothing(ph, ph, r)
    BY <1>0, NoMove DEF IInv
  <2> QED
    BY <1>0, <1>1, <2>1, <2>2, QuietChannels
<1>6. OwnerHas'
  <2>1. CASE r = Owner
    BY <1>2, <2>1 DEF OwnerHas, GlobalValues, DiskValues
  <2>2. CASE r # Owner
    BY <1>0, <1>2, <2>2, OwnerFrame, InvariantPerPE, RanksAssumption
  <2> QED
    BY <2>1, <2>2
<1> QED
  BY <1>0, <1>2, <1>3, <1>4, <1>5, <1>6, StepOf DEF SameValues

\* A call that exchanges nothing: the PE has what the call computes, and is at the next.
LEMMA CallEndsStep ==
    ASSUME IInv, UNCHANGED <<program, ghost, global, disk, boxes>>, NEW r \in Rank,
           pc[r] = "ready", Running(r), CallOf(r).op \in {"compute", "initialise"}, Return(r),
           own' \in [Rank -> [Fields -> Version]], result' \in [Rank -> {LFRIC, JEDI}],
           \A q \in Rank \ {r} : own'[q] = own[q],
           \A f \in Fields : own'[r][f] = Val(at[r], f)
    PROVE  IInv'
<1>0. TypeOK /\ LocalAt(r) /\ OwnerHas /\ at[r] \in 1..ProgramLength
  BY InvariantPerPE, CallFacts
<1>1. PICK ph \in [Rank -> Phase] :
        InPhase(ph) /\ HaloChannels(ph) /\ GatherChannels(ph) /\ ScatterChannels(ph)
  BY DEF IInv, Channels
<1>2. /\ PlaceTypes' /\ at'[r] = at[r] + 1 /\ fld'[r] = 1 /\ pc'[r] = "ready"
      /\ \A q \in Rank \ {r} : SamePlace(q)
  BY <1>0, ReturnPlaces
<1>3. TypeOK'
  BY <1>0, <1>2 DEF TypeOK, PlaceTypes, boxes, Neighbours
<1>4. LocalAt(r)'
  <2>1. at'[r] - 1 = at[r] /\ \A f \in Fields : ~ FieldDone(r, f)'
    <3>1. at[r] \in Nat /\ \A f \in Fields : f \in Nat /\ ~ (f < 1)
      BY <1>0, BoundTypes DEF Fields
    <3>2. at'[r] = at[r] + 1 /\ fld'[r] = 1 /\ pc'[r] = "ready"
      BY <1>2
    <3>3. at'[r] - 1 = at[r]
      BY <3>1, <3>2
    <3>4. \A f \in Fields : ~ FieldDone(r, f)'
      BY <3>1, <3>2 DEF FieldDone
    <3> QED
      BY <3>3, <3>4
  <2>2. \A f \in Fields : Val(IF FieldDone(r, f) THEN at[r] ELSE at[r] - 1, f)' = Val(at[r], f)
    BY <2>1, SequentialFrame
  <2>3. program'[at'[r] - 1].op \notin {"read", "write"}
    BY <2>1 DEF CallOf
  <2> QED
    BY <1>2, <2>1, <2>2, <2>3 DEF LocalAt, Collective, InRead
<1>5. Channels'
  <2>1. fld[r] = 1 /\ ph[r] = 0
    BY <1>0, <1>1 DEF LocalAt, InPhase
  <2>2. DoesNothing(ph, ph, r)
    BY <1>0, <2>1, CallEnds
  <2>3. InPhase(ph)'
    <3>1. PhaseIs(pc'[r], 0) /\ 0 \in Phase /\ ph = [ph EXCEPT ![r] = 0]
      BY <1>2, <2>1 DEF PhaseIs, Phase
    <3> QED
      BY <1>1, <1>2, <3>1, InPhaseNext
  <2> QED
    BY <1>1, <2>2, <2>3, QuietChannels
<1>6. OwnerHas'
  <2>1. CASE r = Owner
    <3>1. DiskValues'
      BY <1>0, <1>2, <2>1, FilesKept DEF OwnerHas, Collective
    <3> QED
      BY <1>2, <2>1, <3>1 DEF OwnerHas, GlobalValues
  <2>2. CASE r # Owner
    BY <1>0, <1>2, <2>2, OwnerFrame, RanksAssumption
  <2> QED
    BY <2>1, <2>2
<1> QED
  BY <1>2, <1>3, <1>4, <1>5, <1>6, StepOf DEF SameValues

LEMMA ComputeStep == ASSUME IInv, NEW r \in Rank, Compute(r) PROVE IInv'
<1>0. /\ TypeOK /\ pc[r] = "ready" /\ Running(r) /\ CallOf(r).op = "compute" /\ Return(r)
      /\ own' = [own EXCEPT ![r] = [f \in Fields |-> at[r]]]
      /\ UNCHANGED <<program, ghost, result, global, disk, boxes>>
  BY DEF IInv, Compute
<1>1. at[r] \in 1..ProgramLength /\ at[r] \in Version
  BY <1>0, CallFacts, BoundTypes
<1>2. own \in [Rank -> [Fields -> Version]] /\ result \in [Rank -> {LFRIC, JEDI}]
  BY <1>0 DEF TypeOK
<1>3. \A f \in Fields : Val(at[r], f) = at[r]
  BY <1>0, <1>1, SequentialCalls DEF TypeOK, CallOf
<1>4. own' \in [Rank -> [Fields -> Version]]
  BY <1>0, <1>1, <1>2
<1>5. /\ \A q \in Rank \ {r} : own'[q] = own[q]
      /\ \A f \in Fields : own'[r][f] = Val(at[r], f)
  BY <1>0, <1>2, <1>3
<1> QED
  BY <1>0, <1>2, <1>4, <1>5, CallEndsStep

LEMMA InitialiseStep == ASSUME IInv, NEW r \in Rank, initialiseFile(r) PROVE IInv'
<1>0. /\ TypeOK /\ LocalAt(r) /\ pc[r] = "ready" /\ Running(r) /\ CallOf(r).op = "initialise"
  BY InvariantPerPE DEF initialiseFile
<1>1. CASE r = Owner /\ ~ disk[CallOf(r).path].exists
  BY <1>1, DeathStep DEF initialiseFile
<1>2. CASE ~ (r = Owner /\ ~ disk[CallOf(r).path].exists)
  <2>1. /\ result' = [result EXCEPT ![r] = IF r = Owner THEN disk[CallOf(r).path].conv ELSE LFRIC]
        /\ Return(r) /\ UNCHANGED <<program, own, ghost, global, disk, boxes>>
    BY <1>2 DEF initialiseFile
  <2>2. result' \in [Rank -> {LFRIC, JEDI}]
    <3>1. CallOf(r).path \in Path /\ result \in [Rank -> {LFRIC, JEDI}]
      BY <1>0, CallFacts DEF TypeOK
    <3>2. disk[CallOf(r).path].conv \in {LFRIC, JEDI}
      BY <1>0, <3>1 DEF TypeOK
    <3> QED
      BY <2>1, <3>1, <3>2
  <2>3. \A f \in Fields : own[r][f] = Val(at[r], f)
    <3>1. at[r] \in 1..ProgramLength
      BY <1>0, CallFacts
    <3>2. \A f \in Fields : own[r][f] = Val(at[r] - 1, f)
      BY <1>0 DEF LocalAt, FieldDone, Fields
    <3>3. Sequential[at[r]] = Sequential[at[r] - 1]
      BY <1>0, <3>1, SequentialCalls DEF TypeOK, CallOf
    <3> QED
      BY <3>2, <3>3 DEF Val
  <2>4. own' \in [Rank -> [Fields -> Version]]
    BY <1>0, <2>1 DEF TypeOK
  <2> QED
    BY <1>0, <2>1, <2>2, <2>3, <2>4, CallEndsStep
<1> QED
  BY <1>1, <1>2

DiskTypes ==
    /\ DOMAIN disk = Path
    /\ \A p \in Path :
          /\ disk[p].exists \in BOOLEAN /\ disk[p].conv \in {LFRIC, JEDI}
          /\ \A f \in DOMAIN disk[p].data : disk[p].data[f] \in [Rank -> Version]

LEMMA DiskTypesFrame == ASSUME TypeOK PROVE DiskTypes /\ (UNCHANGED disk => DiskTypes')
BY DEF TypeOK, DiskTypes

\* A read or a write begins with its first field.
LEMMA BeginStep ==
    ASSUME IInv, NEW r \in Rank, pc[r] = "ready", Running(r),
           CallOf(r).op \in {"read", "write"}, Goto(r, "sendHalo"),
           UNCHANGED <<program, at, fld, own, ghost, result, global, boxes>>, DiskTypes',
           r = Owner => DiskValues', r # Owner => UNCHANGED disk
    PROVE  IInv'
<1>0. TypeOK /\ LocalAt(r) /\ OwnerHas
  BY InvariantPerPE
<1>1. PICK ph \in [Rank -> Phase] :
        InPhase(ph) /\ HaloChannels(ph) /\ GatherChannels(ph) /\ ScatterChannels(ph)
  BY DEF IInv, Channels
<1>2. /\ PlaceTypes' /\ at'[r] = at[r] /\ fld'[r] = fld[r] /\ pc'[r] = "sendHalo"
      /\ \A q \in Rank \ {r} : SamePlace(q)
  BY <1>0, GotoPlaces DEF PC
<1>3. TypeOK'
  BY <1>0, <1>2 DEF TypeOK, PlaceTypes, boxes, Neighbours, DiskTypes
<1>4. LocalAt(r)'
  <2>1. fld[r] = 1 /\ \A f \in Fields : ~ (f < 1)
    BY <1>0, BoundTypes DEF LocalAt, Fields
  <2>2. \A f \in Fields : ~ FieldDone(r, f)' /\ ~ FieldDone(r, f) /\ ~ HaloDone(r, f)'
    BY <1>2, <2>1 DEF FieldDone, HaloDone
  <2>3. \A f \in Fields : own'[r][f] = Val(at[r] - 1, f)
    BY <1>0, <2>2 DEF LocalAt
  <2>4. \A f \in Fields : Val(IF FieldDone(r, f) THEN at[r] ELSE at[r] - 1, f)' = Val(at[r] - 1, f)
    BY <1>2, <2>2, SequentialFrame
  <2>5. Running(r)' /\ CallOf(r)' = CallOf(r)
    BY <1>2 DEF Running, CallOf
  <2> QED
    BY <1>2, <2>2, <2>3, <2>4, <2>5 DEF LocalAt, Collective, InRead
<1>5. Channels'
  <2>1. InPhase(ph)'
    <3>1. PhaseIs(pc'[r], ph[r]) /\ ph[r] \in Phase /\ ph = [ph EXCEPT ![r] = ph[r]]
      BY <1>1, <1>2 DEF PhaseIs, InPhase
    <3> QED
      BY <1>1, <1>2, <3>1, InPhaseNext
  <2>2. DoesNothing(ph, ph, r)
    BY <1>0, NoMove
  <2> QED
    BY <1>1, <2>1, <2>2, QuietChannels
<1>6. OwnerHas'
  <2>1. CASE r = Owner
    BY <1>2, <2>1 DEF OwnerHas, GlobalValues
  <2>2. CASE r # Owner
    BY <1>0, <1>2, <2>2, OwnerFrame, RanksAssumption
  <2> QED
    BY <2>1, <2>2
<1> QED
  BY <1>2, <1>3, <1>4, <1>5, <1>6, StepOf DEF SameValues

LEMMA BeginReadStep == ASSUME IInv, NEW r \in Rank, BeginRead(r) PROVE IInv'
<1>0. TypeOK /\ OwnerHas /\ pc[r] = "ready" /\ Running(r) /\ CallOf(r).op = "read"
  BY InvariantPerPE DEF BeginRead
<1>1. CASE ~ disk[CallOf(r).path].exists
  BY <1>1, DeathStep DEF BeginRead
<1>2. CASE disk[CallOf(r).path].exists
  <2>1. Goto(r, "sendHalo")
        /\ UNCHANGED <<program, at, fld, own, ghost, result, global, disk, boxes>>
    BY <1>2 DEF BeginRead, data
  <2>2. DiskTypes'
    BY <1>0, <2>1, DiskTypesFrame
  <2>3. r = Owner => DiskValues'
    BY <1>0, <2>1, FilesKept DEF OwnerHas
  <2> QED
    BY <1>0, <2>1, <2>2, <2>3, BeginStep
<1> QED
  BY <1>1, <1>2

LEMMA NoFieldYet == \A k : FirstFields(k, 0) = <<>>
BY DEF FirstFields

LEMMA BeginWriteStep == ASSUME IInv, NEW r \in Rank, BeginWrite(r) PROVE IInv'
<1>0. /\ TypeOK /\ LocalAt(r) /\ OwnerHas /\ pc[r] = "ready" /\ Running(r)
      /\ CallOf(r).op = "write" /\ Goto(r, "sendHalo")
      /\ UNCHANGED <<program, at, fld, own, ghost, result, global, boxes>>
      /\ CallOf(r).path \in Path
  BY InvariantPerPE, CallFacts DEF BeginWrite
<1>1. CASE r # Owner
  <2>1. UNCHANGED disk
    BY <1>1 DEF BeginWrite
  <2> QED
    BY <1>0, <1>1, <2>1, DiskTypesFrame, BeginStep
<1>2. CASE r = Owner
  <2> DEFINE p == CallOf(Owner).path
  <2>1. disk' = [disk EXCEPT ![p] = [conv |-> LFRIC, data |-> <<>>, exists |-> TRUE]]
    BY <1>2 DEF BeginWrite, openFile
  <2>2. /\ p \in Path /\ p \in DOMAIN disk
        /\ disk'[p] = [conv |-> LFRIC, data |-> <<>>, exists |-> TRUE]
        /\ \A q \in Path \ {p} : disk'[q] = disk[q]
        /\ DOMAIN disk' = Path
    BY <1>0, <1>2, <2>1 DEF TypeOK
  <2>3. DiskTypes'
    <3>1. DiskTypes /\ DOMAIN <<>> = {}
      BY <1>0, DiskTypesFrame
    <3>2. /\ disk'[p].exists = TRUE /\ disk'[p].conv = LFRIC /\ disk'[p].data = <<>>
      BY <2>2
    <3> HIDE DEF p
    <3>3. ASSUME NEW q \in Path
          PROVE  /\ disk'[q].exists \in BOOLEAN /\ disk'[q].conv \in {LFRIC, JEDI}
                 /\ \A f \in DOMAIN disk'[q].data : disk'[q].data[f] \in [Rank -> Version]
      <4>1. CASE q = p
        BY <3>1, <3>2, <4>1
      <4>2. CASE q # p
        <5>1. disk'[q] = disk[q]
          BY <2>2, <4>2
        <5> QED
          BY <3>1, <5>1 DEF DiskTypes
      <4> QED
        BY <4>1, <4>2
    <3> QED
      BY <2>2, <3>3 DEF DiskTypes
  <2>4. at'[Owner] = at[Owner] /\ fld'[Owner] = 1 /\ pc'[Owner] = "sendHalo"
    BY <1>0, <1>2, GotoPlaces DEF LocalAt, PC
  <2>5. \A q : (Writing(q)' <=> q = p) /\ ~ Writing(q)
    BY <1>0, <1>2, <2>4 DEF Writing, CallOf, Collective
  <2>6. \A q \in Path \ {p} : disk'[q].data = FileAfter(at[Owner] - 1, q)'
    <3>1. \A q : FileAfter(at[Owner] - 1, q)' = FileAfter(at[Owner] - 1, q)
      BY <1>0, <2>4, SequentialFrame DEF FileAfter
    <3> QED
      BY <1>0, <1>2, <2>2, <2>5, <3>1 DEF OwnerHas, DiskValues
  <2>7. disk'[p].data = FirstFields(at[Owner] - 1, fld[Owner] - 1)'
    <3>1. FirstFields(at[Owner] - 1, fld[Owner] - 1)' = FirstFields(at[Owner] - 1, 0)'
      BY <2>4
    <3>2. FirstFields(at[Owner] - 1, 0)' = FirstFields(at[Owner] - 1, 0)
      BY <1>0, <2>4, SequentialFrame DEF FirstFields
    <3> QED
      BY <2>2, <3>1, <3>2, NoFieldYet
  <2>8. DiskValues'
    BY <2>4, <2>5, <2>6, <2>7 DEF DiskValues
  <2> QED
    BY <1>0, <1>2, <2>3, <2>8, BeginStep
<1> QED
  BY <1>1, <1>2

\* A PE that goes on with a field: what it must have at its next step.
LEMMA OnwardsStep ==
    ASSUME IInv, UNCHANGED <<program, at, fld, disk>>, NEW r \in Rank, NEW next \in Collective,
           pc[r] \in Collective, Goto(r, next),
           next \in InRead => CallOf(r).op = "read", next = "file" => r = Owner,
           \A f \in Fields :
              own'[r][f] = Val(IF \/ f < fld[r]
                                  \/ f = fld[r] /\ next \in {"sendHalo2", "recvHalo2"}
                               THEN at[r] ELSE at[r] - 1, f),
           \A f \in Fields :
              (\/ f < fld[r]
               \/ f = fld[r] /\ CallOf(r).op = "write" /\ next \in {"gather", "file"}) =>
                  \A s \in Neighbours(r) : ghost'[r][f][s] = Val(at[r], f),
           \A q \in Rank \ {r} : SameValues(q),
           PlaceTypes' => TypeOK', Channels',
           r = Owner => GlobalValues', r # Owner => UNCHANGED global
    PROVE  IInv'
<1>0. TypeOK /\ LocalAt(r) /\ OwnerHas
  BY InvariantPerPE
<1>1. /\ PlaceTypes' /\ at'[r] = at[r] /\ fld'[r] = fld[r] /\ pc'[r] = next
      /\ \A q \in Rank \ {r} : SamePlace(q)
  BY <1>0, GotoPlaces DEF PC, Collective
<1>2. LocalAt(r)'
  <2>1. Running(r)' /\ CallOf(r)' = CallOf(r) /\ Running(r) /\ CallOf(r).op \in {"read", "write"}
    BY <1>0, <1>1 DEF Running, CallOf, LocalAt
  <2>2. \A f \in Fields :
          /\ FieldDone(r, f)' <=> \/ f < fld[r]
                                  \/ f = fld[r] /\ next \in {"sendHalo2", "recvHalo2"}
          /\ HaloDone(r, f)' <=> \/ f < fld[r]
                                 \/ /\ f = fld[r] /\ CallOf(r).op = "write"
                                    /\ next \in {"gather", "file"}
    BY <1>1, <2>1 DEF FieldDone, HaloDone
  <2>3. \A f \in Fields :
          own'[r][f] = Val(IF FieldDone(r, f) THEN at[r] ELSE at[r] - 1, f)'
    BY <1>1, <2>2, SequentialFrame
  <2>4. \A f \in Fields : HaloDone(r, f)' =>
          \A s \in Neighbours(r) : ghost'[r][f][s] = Val(at[r], f)'
    BY <1>1, <2>2, SequentialFrame
  <2>5. Neighbours(r)' = Neighbours(r)
    BY DEF Neighbours
  <2> QED
    BY <1>1, <2>1, <2>3, <2>4, <2>5 DEF LocalAt, Collective
<1>3. OwnerHas'
  <2>1. CASE r = Owner
    BY <1>0, <1>1, <2>1, WritingKept DEF OwnerHas
  <2>2. CASE r # Owner
    BY <1>0, <1>1, <2>2, OwnerFrame, RanksAssumption
  <2> QED
    BY <2>1, <2>2
<1> QED
  BY <1>1, <1>2, <1>3, StepOf

\* What a PE has during the steps before the scatter, and after it.
LEMMA HasDuringField ==
    ASSUME TypeOK, NEW r \in Rank, LocalAt(r), pc[r] \in Collective
    PROVE  /\ Running(r) /\ CallOf(r).op \in {"read", "write"}
           /\ \A f \in Fields : own[r][f] =
                 Val(IF f < fld[r] \/ (f = fld[r] /\ pc[r] \in {"sendHalo2", "recvHalo2"})
                     THEN at[r] ELSE at[r] - 1, f)
           /\ \A f \in Fields :
                 (\/ f < fld[r]
                  \/ f = fld[r] /\ CallOf(r).op = "write" /\ pc[r] \in {"gather", "file"}) =>
                     \A s \in Neighbours(r) : ghost[r][f][s] = Val(at[r], f)
BY DEF LocalAt, FieldDone, HaloDone, Collective

LEMMA SendHaloType ==
    ASSUME TypeOK, NEW r \in Rank, NEW step, SendHalo(r, step),
           Stamp(r, step, own[r][fld[r]]) \in Message
    PROVE  haloBox' \in [Rank -> [Rank -> Seq(Message)]]
<1> DEFINE m0 == Stamp(r, step, own[r][fld[r]])
<1>1. haloBox \in [Rank -> [Rank -> Seq(Message)]] /\ m0 \in Message
  BY DEF TypeOK
<1>2. haloBox' = [haloBox EXCEPT ![r] = [s \in Rank |-> IF s \in Neighbours(r)
                                                        THEN Append(haloBox[r][s], m0)
                                                        ELSE haloBox[r][s]]]
  BY DEF SendHalo
<1> HIDE DEF m0
<1>3. \A s \in Rank : haloBox[r][s] \in Seq(Message) /\ Append(haloBox[r][s], m0) \in Seq(Message)
  BY <1>1
<1> QED
  BY <1>1, <1>2, <1>3

LEMMA RecvHaloType ==
    ASSUME TypeOK, NEW r \in Rank, RecvHalo(r)
    PROVE  haloBox' \in [Rank -> [Rank -> Seq(Message)]]
<1>1. haloBox \in [Rank -> [Rank -> Seq(Message)]]
  BY DEF TypeOK
<1>2. \A s \in Neighbours(r) : s \in Rank /\ haloBox[s][r] \in Seq(Message) /\ haloBox[s][r] # <<>>
  BY <1>1 DEF RecvHalo, HaloArrived, Neighbours
<1>3. \A s \in Neighbours(r) : Tail(haloBox[s][r]) \in Seq(Message)
  BY <1>2
<1> QED
  BY <1>1, <1>2, <1>3 DEF RecvHalo

\* Before a gather the PE still has the field as the call found it.
LEMMA SendBefore == ASSUME IInv, NEW r \in Rank, HaloBeforeGather(r) PROVE IInv'
<1>0. /\ TypeOK /\ LocalAt(r) /\ OwnerHas /\ pc[r] = "sendHalo" /\ pc[r] \in Collective
      /\ SendHalo(r, "before") /\ Goto(r, "recvHalo") /\ "recvHalo" \in Collective
      /\ UNCHANGED <<program, at, fld, own, ghost, result, global, disk, gatherBox, scatterBox>>
  BY InvariantPerPE DEF HaloBeforeGather, SendHalo, data, Collective
<1>1. PICK ph \in [Rank -> Phase] :
        InPhase(ph) /\ HaloChannels(ph) /\ GatherChannels(ph) /\ ScatterChannels(ph)
  BY DEF IInv, Channels
<1>2. /\ PlaceTypes' /\ at'[r] = at[r] /\ fld'[r] = fld[r] /\ pc'[r] = "recvHalo"
      /\ \A q \in Rank \ {r} : SamePlace(q)
  BY <1>0, GotoPlaces DEF PC
<1>3. /\ Running(r) /\ CallOf(r).op \in {"read", "write"} /\ fld[r] \in Fields
      /\ own[r][fld[r]] = Val(at[r] - 1, fld[r])
  BY <1>0, HasDuringField, PositionTypes DEF Fields
<1>4. Stamp(r, "before", own[r][fld[r]]) \in HaloMessage
  BY <1>0, <1>3, MessageHere
<1>5. PlaceTypes' => TypeOK'
  <2>1. haloBox' \in [Rank -> [Rank -> Seq(Message)]]
    BY <1>0, <1>4, SendHaloType, HaloMessageTypes
  <2> QED
    BY <1>0, <2>1 DEF TypeOK, PlaceTypes, Neighbours
<1>6. Channels'
  <2>1. ph[r] = 0 /\ PhaseIs(pc'[r], 1)
    BY <1>0, <1>1, <1>2 DEF InPhase, PhaseIs
  <2>2. PICK ph2 \in [Rank -> Phase] : Does(ph, ph2, r, 0) /\ InPhase(ph2)'
    BY <1>0, <1>1, <1>2, <2>1, OnwardsPhase
  <2>3. HaloChannels(ph2)'
    BY <1>0, <1>1, <1>3, <1>4, <2>1, <2>2, HaloSendStep
  <2>4. GatherChannels(ph2)' /\ ScatterChannels(ph2)'
    <3>1. 0 \in Phase \ {2} /\ 0 \in Phase \ {4}
      BY DEF Phase
    <3> QED
      BY <1>0, <1>1, <2>2, <3>1, GatherFrame, ScatterFrame
  <2> QED
    BY <2>2, <2>3, <2>4 DEF Channels
<1>7. r = Owner => GlobalValues'
  BY <1>2 DEF GlobalValues
<1> QED
  BY <1>0, <1>2, <1>5, <1>6, <1>7, HasDuringField, OnwardsStep DEF SameValues, InRead

LEMMA ReceiveBefore == ASSUME IInv, NEW r \in Rank, HaloGathered(r) PROVE IInv'
<1>0. /\ TypeOK /\ LocalAt(r) /\ OwnerHas /\ pc[r] = "recvHalo" /\ pc[r] \in Collective
      /\ RecvHalo(r) /\ Goto(r, "gather") /\ "gather" \in Collective
      /\ UNCHANGED <<program, at, fld, own, result, global, disk, gatherBox, scatterBox>>
  BY InvariantPerPE DEF HaloGathered, RecvHalo, Collective
<1>1. PICK ph \in [Rank -> Phase] :
        InPhase(ph) /\ HaloChannels(ph) /\ GatherChannels(ph) /\ ScatterChannels(ph)
  BY DEF IInv, Channels
<1>2. /\ PlaceTypes' /\ at'[r] = at[r] /\ fld'[r] = fld[r] /\ pc'[r] = "gather"
      /\ \A q \in Rank \ {r} : SamePlace(q)
  BY <1>0, GotoPlaces DEF PC
<1>3. Running(r) /\ CallOf(r).op \in {"read", "write"} /\ fld[r] \in Fields
  BY <1>0, HasDuringField, PositionTypes
<1> DEFINE v == Val(at[r] - 1, fld[r])
<1>4. Stamp(r, "before", v) \in HaloMessage /\ v \in Version
  BY <1>0, <1>3, MessageHere, CallFacts
<1>5. PICK ph2 \in [Rank -> Phase] : Does(ph, ph2, r, 1) /\ InPhase(ph2)'
  <2>1. ph[r] = 1 /\ PhaseIs(pc'[r], 2)
    BY <1>0, <1>1, <1>2 DEF InPhase, PhaseIs
  <2> QED
    BY <1>0, <1>1, <1>2, <2>1, OnwardsPhase
<1>6. /\ HaloChannels(ph2)'
      /\ ghost' = [ghost EXCEPT ![r][fld[r]] = AtNeighbours(r, v)]
  <2>1. ph[r] = 1
    BY <1>0, <1>1 DEF InPhase
  <2> HIDE DEF v
  <2> QED
    BY <1>0, <1>1, <1>3, <1>4, <1>5, <2>1, HaloReceiveStep
<1> HIDE DEF v
<1>7. /\ \A q \in Rank \ {r} : ghost'[q] = ghost[q]
      /\ \A f \in Fields \ {fld[r]} : ghost'[r][f] = ghost[r][f]
      /\ ghost'[r][fld[r]] = AtNeighbours(r, v)
      /\ DOMAIN ghost' = Rank
      /\ ghost'[r] \in [Fields -> [Neighbours(r) -> Version]]
  <2>1. DOMAIN ghost = Rank /\ ghost[r] \in [Fields -> [Neighbours(r) -> Version]]
    BY <1>0 DEF TypeOK
  <2>2. AtNeighbours(r, v) \in [Neighbours(r) -> Version]
    BY <1>4 DEF AtNeighbours
  <2> QED
    BY <1>3, <1>6, <2>1, <2>2
<1>8. PlaceTypes' => TypeOK'
  <2>1. haloBox' \in [Rank -> [Rank -> Seq(Message)]]
    BY <1>0, RecvHaloType
  <2>2. \A q \in Rank : ghost'[q] \in [Fields -> [Neighbours(q) -> Version]]
    BY <1>0, <1>7 DEF TypeOK
  <2> QED
    BY <1>0, <1>7, <2>1, <2>2 DEF TypeOK, PlaceTypes, Neighbours
<1>9. Channels'
  <2>1. 1 \in Phase \ {2} /\ 1 \in Phase \ {4}
    BY DEF Phase
  <2>2. GatherChannels(ph2)' /\ ScatterChannels(ph2)'
    BY <1>0, <1>1, <1>5, <2>1, GatherFrame, ScatterFrame
  <2> QED
    BY <1>5, <1>6, <2>2 DEF Channels
<1>10. \A f \in Fields :
         (\/ f < fld[r]
          \/ f = fld[r] /\ CallOf(r).op = "write" /\ "gather" \in {"gather", "file"}) =>
             \A s \in Neighbours(r) : ghost'[r][f][s] = Val(at[r], f)
  <2> TAKE f \in Fields
  <2>1. CASE f # fld[r]
    BY <1>0, <1>7, <2>1, HasDuringField
  <2>2. CASE f = fld[r]
    <3>1. ~ (f < fld[r])
      BY <1>0, <2>2, PositionTypes
    <3>2. CallOf(r).op = "write" => v = Val(at[r], f)
      BY <1>0, <1>3, <2>2, WriteKeepsValues DEF v
    <3> QED
      BY <1>7, <2>2, <3>1, <3>2 DEF AtNeighbours
  <2> QED
    BY <2>1, <2>2
<1>11. r = Owner => GlobalValues'
  BY <1>2 DEF GlobalValues
<1>12. \A f \in Fields :
         own'[r][f] = Val(IF f < fld[r] \/ (f = fld[r] /\ "gather" \in {"sendHalo2", "recvHalo2"})
                          THEN at[r] ELSE at[r] - 1, f)
  BY <1>0, HasDuringField
<1> QED
  BY <1>0, <1>2, <1>7, <1>8, <1>9, <1>10, <1>11, <1>12, OnwardsStep DEF SameValues, InRead

\* After a scatter the PE has the field as the call leaves it.
LEMMA SendAfter == ASSUME IInv, NEW r \in Rank, HaloSentAfter(r) PROVE IInv'
<1>0. /\ TypeOK /\ LocalAt(r) /\ OwnerHas /\ pc[r] = "sendHalo2" /\ pc[r] \in Collective
      /\ SendHalo(r, "after") /\ Goto(r, "recvHalo2") /\ "recvHalo2" \in Collective
      /\ UNCHANGED <<program, at, fld, own, ghost, result, global, disk, gatherBox, scatterBox>>
  BY InvariantPerPE DEF HaloSentAfter, SendHalo, data, Collective
<1>1. PICK ph \in [Rank -> Phase] :
        InPhase(ph) /\ HaloChannels(ph) /\ GatherChannels(ph) /\ ScatterChannels(ph)
  BY DEF IInv, Channels
<1>2. /\ PlaceTypes' /\ at'[r] = at[r] /\ fld'[r] = fld[r] /\ pc'[r] = "recvHalo2"
      /\ \A q \in Rank \ {r} : SamePlace(q)
  BY <1>0, GotoPlaces DEF PC
<1>3. /\ Running(r) /\ CallOf(r).op = "read" /\ fld[r] \in Fields
      /\ own[r][fld[r]] = Val(at[r], fld[r])
  BY <1>0, HasDuringField, PositionTypes DEF Fields, LocalAt, InRead
<1>4. Stamp(r, "after", own[r][fld[r]]) \in HaloMessage
  BY <1>0, <1>3, MessageHere
<1>5. PlaceTypes' => TypeOK'
  <2>1. haloBox' \in [Rank -> [Rank -> Seq(Message)]]
    BY <1>0, <1>4, SendHaloType, HaloMessageTypes
  <2> QED
    BY <1>0, <2>1 DEF TypeOK, PlaceTypes, Neighbours
<1>6. Channels'
  <2>1. ph[r] = 5 /\ PhaseIs(pc'[r], 6)
    BY <1>0, <1>1, <1>2 DEF InPhase, PhaseIs
  <2>2. PICK ph2 \in [Rank -> Phase] : Does(ph, ph2, r, 5) /\ InPhase(ph2)'
    BY <1>0, <1>1, <1>2, <2>1, OnwardsPhase
  <2>3. HaloChannels(ph2)'
    BY <1>0, <1>1, <1>3, <1>4, <2>1, <2>2, HaloSendStep
  <2>4. GatherChannels(ph2)' /\ ScatterChannels(ph2)'
    <3>1. 5 \in Phase \ {2} /\ 5 \in Phase \ {4}
      BY DEF Phase
    <3> QED
      BY <1>0, <1>1, <2>2, <3>1, GatherFrame, ScatterFrame
  <2> QED
    BY <2>2, <2>3, <2>4 DEF Channels
<1>7. r = Owner => GlobalValues'
  BY <1>2 DEF GlobalValues
<1> QED
  BY <1>0, <1>2, <1>3, <1>5, <1>6, <1>7, HasDuringField, OnwardsStep DEF SameValues

LEMMA FieldEndsPhase ==
    ASSUME TypeOK, NEW ph \in [Rank -> Phase], InPhase(ph), NEW r \in Rank, Running(r),
           NextField(r), NEW e, ph[r] = e,
           \/ CallOf(r).op = "read" /\ e = 6
           \/ CallOf(r).op = "write" /\ e \in {2, 3}
    PROVE  \E ph2 \in [Rank -> Phase] : Does(ph, ph2, r, e) /\ InPhase(ph2)'
<1>1. [ph EXCEPT ![r] = 0] \in [Rank -> Phase] /\ Does(ph, [ph EXCEPT ![r] = 0], r, e)
  BY FieldEnds
<1>2. 0 \in Phase /\ PhaseIs(pc'[r], 0) /\ \A q \in Rank \ {r} : SamePlace(q)
  BY NextFieldPlaces DEF Phase, PhaseIs
<1>3. InPhase([ph EXCEPT ![r] = 0])'
  BY <1>2, InPhaseNext
<1> QED
  BY <1>1, <1>3, Zenon

\* The last step of a field of a read: the halo as the call leaves it.
LEMMA ReceiveAfter == ASSUME IInv, NEW r \in Rank, HaloReceivedAfter(r) PROVE IInv'
<1>0. /\ TypeOK /\ LocalAt(r) /\ OwnerHas /\ pc[r] = "recvHalo2" /\ pc[r] \in Collective
      /\ RecvHalo(r) /\ NextField(r)
      /\ UNCHANGED <<program, own, result, global, disk, gatherBox, scatterBox>>
  BY InvariantPerPE DEF HaloReceivedAfter, RecvHalo, Collective
<1>1. PICK ph \in [Rank -> Phase] :
        InPhase(ph) /\ HaloChannels(ph) /\ GatherChannels(ph) /\ ScatterChannels(ph)
  BY DEF IInv, Channels
<1>2. Running(r) /\ CallOf(r).op = "read" /\ fld[r] \in Fields
  BY <1>0, HasDuringField, PositionTypes DEF LocalAt, InRead
<1>3. /\ PlaceTypes' /\ \A q \in Rank \ {r} : SamePlace(q)
      /\ \/ at'[r] = at[r] + 1 /\ pc'[r] = "ready"
         \/ at'[r] = at[r] /\ pc'[r] = "sendHalo"
  BY <1>0, <1>2, NextFieldPlaces
<1> DEFINE v == Val(at[r], fld[r])
<1>4. Stamp(r, "after", v) \in HaloMessage /\ v \in Version
  BY <1>0, <1>2, MessageHere, CallFacts
<1>5. PICK ph2 \in [Rank -> Phase] : Does(ph, ph2, r, 6) /\ InPhase(ph2)'
  <2>1. ph[r] = 6
    BY <1>0, <1>1 DEF InPhase
  <2> QED
    BY <1>0, <1>1, <1>2, <2>1, FieldEndsPhase
<1>6. /\ HaloChannels(ph2)'
      /\ ghost' = [ghost EXCEPT ![r][fld[r]] = AtNeighbours(r, v)]
  <2>1. ph[r] = 6
    BY <1>0, <1>1 DEF InPhase
  <2> HIDE DEF v
  <2> QED
    BY <1>0, <1>1, <1>2, <1>4, <1>5, <2>1, HaloReceiveStep
<1> HIDE DEF v
<1>7. /\ \A q \in Rank \ {r} : ghost'[q] = ghost[q]
      /\ \A f \in Fields \ {fld[r]} : ghost'[r][f] = ghost[r][f]
      /\ ghost'[r][fld[r]] = AtNeighbours(r, v)
      /\ DOMAIN ghost' = Rank
      /\ ghost'[r] \in [Fields -> [Neighbours(r) -> Version]]
  <2>1. DOMAIN ghost = Rank /\ ghost[r] \in [Fields -> [Neighbours(r) -> Version]]
    BY <1>0 DEF TypeOK
  <2>2. AtNeighbours(r, v) \in [Neighbours(r) -> Version]
    BY <1>4 DEF AtNeighbours
  <2> QED
    BY <1>2, <1>6, <2>1, <2>2
<1>8. TypeOK'
  <2>1. haloBox' \in [Rank -> [Rank -> Seq(Message)]]
    BY <1>0, RecvHaloType
  <2>2. \A q \in Rank : ghost'[q] \in [Fields -> [Neighbours(q) -> Version]]
    BY <1>0, <1>7 DEF TypeOK
  <2> QED
    BY <1>0, <1>3, <1>7, <2>1, <2>2 DEF TypeOK, PlaceTypes, Neighbours
<1>9. Channels'
  <2>1. 6 \in Phase \ {2} /\ 6 \in Phase \ {4}
    BY DEF Phase
  <2>2. GatherChannels(ph2)' /\ ScatterChannels(ph2)'
    BY <1>0, <1>1, <1>5, <2>1, GatherFrame, ScatterFrame
  <2> QED
    BY <1>5, <1>6, <2>2 DEF Channels
<1>10. LocalAt(r)'
  <2>1. \A f \in Fields : f \in Nat /\ fld[r] \in Nat /\ (f <= fld[r] <=> f < fld[r] \/ f = fld[r])
    BY <1>0, PositionTypes, BoundTypes DEF Fields
  <2>2. \A f \in Fields : own'[r][f] = Val(IF f <= fld[r] THEN at[r] ELSE at[r] - 1, f)
    BY <1>0, <2>1, HasDuringField
  <2>3. \A f \in Fields : f <= fld[r] => \A s \in Neighbours(r) : ghost'[r][f][s] = Val(at[r], f)
    <3> TAKE f \in Fields
    <3>1. CASE f = fld[r]
      BY <1>7, <3>1 DEF AtNeighbours, v
    <3>2. CASE f # fld[r]
      BY <1>0, <1>7, <2>1, <3>2, HasDuringField
    <3> QED
      BY <3>1, <3>2
  <2> QED
    BY <1>0, <1>2, <2>2, <2>3, FieldEndsLocal
<1>11. OwnerHas'
  <2>1. CASE r = Owner
    <3>1. DiskValues'
      BY <1>0, <1>2, <1>3, <2>1, FilesKept DEF OwnerHas, Collective
    <3> QED
      BY <1>3, <2>1, <3>1 DEF OwnerHas, GlobalValues
  <2>2. CASE r # Owner
    BY <1>0, <1>3, <2>2, OwnerFrame, RanksAssumption
  <2> QED
    BY <2>1, <2>2
<1> QED
  BY <1>0, <1>3, <1>7, <1>8, <1>9, <1>10, <1>11, StepOf DEF SameValues

\* A write ends a field with what it had: its values are those of before the call.
LEMMA WriteEndsLocal ==
    ASSUME TypeOK, UNCHANGED <<program, own, ghost>>, NEW r \in Rank, LocalAt(r), NextField(r),
           CallOf(r).op = "write", pc[r] \in {"gather", "file"}
    PROVE  LocalAt(r)'
<1>1. pc[r] \in Collective /\ Running(r)
  BY HasDuringField DEF Collective
<1>2. \A f \in Fields : f \in Nat /\ fld[r] \in Nat /\ (f <= fld[r] <=> f < fld[r] \/ f = fld[r])
  BY PositionTypes, BoundTypes DEF Fields
<1>3. \A f \in Fields : own'[r][f] = Val(IF f <= fld[r] THEN at[r] ELSE at[r] - 1, f)
  <2> TAKE f \in Fields
  <2>1. Val(at[r], f) = Val(at[r] - 1, f)
    BY <1>1, WriteKeepsValues
  <2>2. own[r][f] = Val(IF f < fld[r] \/ (f = fld[r] /\ pc[r] \in {"sendHalo2", "recvHalo2"})
                        THEN at[r] ELSE at[r] - 1, f)
    BY <1>1, HasDuringField
  <2> QED
    BY <2>1, <2>2
<1>4. \A f \in Fields : f <= fld[r] => \A s \in Neighbours(r) : ghost'[r][f][s] = Val(at[r], f)
  BY <1>1, <1>2, HasDuringField
<1> QED
  BY <1>1, <1>3, <1>4, FieldEndsLocal

LEMMA GatherSendKeeps == ASSUME IInv, NEW r \in Rank, GatherSend(r) PROVE IInv'
<1>0. /\ TypeOK /\ LocalAt(r) /\ OwnerHas /\ pc[r] = "gather" /\ pc[r] \in Collective
      /\ r \in Others /\ r # Owner
      /\ gatherBox' = [gatherBox EXCEPT ![r] = Append(@, Stamp(r, "root", own[r][fld[r]]))]
      /\ UNCHANGED <<program, own, ghost, result, global, disk, haloBox, scatterBox>>
  BY InvariantPerPE DEF GatherSend, data, Collective, Others
<1>1. PICK ph \in [Rank -> Phase] :
        InPhase(ph) /\ HaloChannels(ph) /\ GatherChannels(ph) /\ ScatterChannels(ph)
  BY DEF IInv, Channels
<1>2. /\ Running(r) /\ CallOf(r).op \in {"read", "write"} /\ fld[r] \in Fields /\ ph[r] = 2
      /\ own[r][fld[r]] = Val(at[r] - 1, fld[r])
  BY <1>0, <1>1, HasDuringField, PositionTypes DEF Fields, InPhase
<1>3. Stamp(r, "root", own[r][fld[r]]) \in GatherMessage
  BY <1>0, <1>2, MessageHere
<1>4. PlaceTypes' => TypeOK'
  <2>1. gatherBox' \in [Others -> Seq(Message)]
    <3>1. /\ gatherBox \in [Others -> Seq(Message)] /\ gatherBox[r] \in Seq(Message)
          /\ Stamp(r, "root", own[r][fld[r]]) \in Message
      BY <1>0, <1>3 DEF TypeOK, GatherMessage
    <3>2. Append(gatherBox[r], Stamp(r, "root", own[r][fld[r]])) \in Seq(Message)
      BY <3>1
    <3> QED
      BY <1>0, <3>1, <3>2
  <2> QED
    BY <1>0, <2>1 DEF TypeOK, PlaceTypes, Neighbours
<1>5. ASSUME NEW ph2 \in [Rank -> Phase], Does(ph, ph2, r, 2), InPhase(ph2)'
      PROVE  Channels'
  <2>1. GatherChannels(ph2)'
    BY <1>0, <1>1, <1>2, <1>3, <1>5, GatherSendStep
  <2>2. 2 \in {2, 3, 4} /\ 2 \in Phase \ {4}
    BY DEF Phase
  <2>3. HaloChannels(ph2)' /\ ScatterChannels(ph2)'
    BY <1>0, <1>1, <1>5, <2>2, HaloFrame, ScatterFrame
  <2> QED
    BY <1>5, <2>1, <2>3 DEF Channels
<1>6. CASE CallOf(r).op = "read"
  <2>1. Goto(r, "scatter") /\ UNCHANGED <<at, fld>> /\ "scatter" \in Collective
    BY <1>6 DEF GatherSend, Collective
  <2>2. pc'[r] = "scatter" /\ \A q \in Rank \ {r} : SamePlace(q)
    BY <1>0, <2>1, GotoPlaces DEF PC
  <2>3. PICK ph2 \in [Rank -> Phase] : Does(ph, ph2, r, 2) /\ InPhase(ph2)'
    <3>1. PhaseIs(pc'[r], 4)
      BY <2>2 DEF PhaseIs
    <3> QED
      BY <1>0, <1>1, <1>2, <2>1, <2>2, <3>1, OnwardsPhase
  <2>4. Channels'
    BY <1>5, <2>3
  <2> QED
    BY <1>0, <1>4, <1>6, <2>1, <2>4, HasDuringField, OnwardsStep DEF SameValues
<1>7. CASE CallOf(r).op # "read"
  <2>1. NextField(r) /\ CallOf(r).op = "write"
    BY <1>2, <1>7 DEF GatherSend
  <2>2. PlaceTypes' /\ \A q \in Rank \ {r} : SamePlace(q)
    BY <1>0, <1>2, <2>1, NextFieldPlaces
  <2>3. PICK ph2 \in [Rank -> Phase] : Does(ph, ph2, r, 2) /\ InPhase(ph2)'
    BY <1>0, <1>1, <1>2, <2>1, FieldEndsPhase
  <2>4. Channels'
    BY <1>5, <2>3
  <2>5. LocalAt(r)'
    BY <1>0, <2>1, WriteEndsLocal
  <2>6. OwnerHas'
    BY <1>0, <2>2, OwnerFrame, RanksAssumption
  <2> QED
    BY <1>0, <1>4, <2>2, <2>4, <2>5, <2>6, StepOf DEF SameValues
<1> QED
  BY <1>6, <1>7

\* The global field is the field as one process would have it before the call.
LEMMA GatherReceiveKeeps == ASSUME IInv, GatherReceive PROVE IInv'
<1>0. /\ TypeOK /\ LocalAt(Owner) /\ OwnerHas /\ Owner \in Rank
      /\ pc[Owner] = "gather" /\ pc[Owner] \in Collective /\ "file" \in Collective
      /\ \A r \in Others : gatherBox[r] # <<>>
      /\ global' = [r \in Rank |-> gathered(r)]
      /\ gatherBox' = [r \in Others |-> Tail(gatherBox[r])] /\ Goto(Owner, "file")
      /\ UNCHANGED <<program, at, fld, own, ghost, result, disk, haloBox, scatterBox>>
  BY InvariantPerPE, RanksAssumption DEF GatherReceive, Collective
<1>1. PICK ph \in [Rank -> Phase] :
        InPhase(ph) /\ HaloChannels(ph) /\ GatherChannels(ph) /\ ScatterChannels(ph)
  BY DEF IInv, Channels
<1> DEFINE v == Val(at[Owner] - 1, fld[Owner])
<1>2. /\ Running(Owner) /\ CallOf(Owner).op \in {"read", "write"} /\ fld[Owner] \in Fields
      /\ ph[Owner] = 2 /\ own[Owner][fld[Owner]] = v
  BY <1>0, <1>1, HasDuringField, PositionTypes DEF Fields, InPhase
<1>3. Stamp(Owner, "root", v) \in GatherMessage /\ v \in Version
  BY <1>0, <1>2, MessageHere, CallFacts
<1>4. /\ PlaceTypes' /\ at'[Owner] = at[Owner] /\ fld'[Owner] = fld[Owner] /\ pc'[Owner] = "file"
      /\ \A q \in Rank \ {Owner} : SamePlace(q)
  BY <1>0, GotoPlaces DEF PC
<1>5. PICK ph2 \in [Rank -> Phase] : Does(ph, ph2, Owner, 2) /\ InPhase(ph2)'
  <2>1. PhaseIs(pc'[Owner], 3)
    BY <1>4 DEF PhaseIs
  <2> QED
    BY <1>0, <1>1, <1>2, <1>4, <2>1, OnwardsPhase
<1>6. GatherChannels(ph2)' /\ \A r \in Others : Head(gatherBox[r]) = Stamp(Owner, "root", v)
  <2> HIDE DEF v
  <2> QED
    BY <1>0, <1>1, <1>2, <1>3, <1>5, GatherReceiveStep
<1>7. \A r \in Rank : global'[r] = v
  <2> TAKE r \in Rank
  <2>1. CASE r = Owner
    BY <1>0, <1>2, <2>1 DEF gathered
  <2>2. CASE r # Owner
    <3>1. r \in Others /\ Head(gatherBox[r]).val = v
      BY <1>6, <2>2 DEF Others, Stamp
    <3> QED
      BY <1>0, <2>2, <3>1 DEF gathered
  <2> QED
    BY <2>1, <2>2
<1>8. PlaceTypes' => TypeOK'
  <2>1. gatherBox' \in [Others -> Seq(Message)]
    <3>1. \A r \in Others : gatherBox[r] \in Seq(Message) /\ gatherBox[r] # <<>>
      BY <1>0 DEF TypeOK
    <3>2. \A r \in Others : Tail(gatherBox[r]) \in Seq(Message)
      BY <3>1
    <3> QED
      BY <1>0, <3>2
  <2>2. global' \in [Rank -> Version]
    <3> HIDE DEF v
    <3> QED BY <1>0, <1>3, <1>7
  <2> QED
    BY <1>0, <2>1, <2>2 DEF TypeOK, PlaceTypes, Neighbours
<1>9. Channels'
  <2>1. 2 \in {2, 3, 4} /\ 2 \in Phase \ {4}
    BY DEF Phase
  <2>2. HaloChannels(ph2)' /\ ScatterChannels(ph2)'
    BY <1>0, <1>1, <1>5, <2>1, HaloFrame, ScatterFrame
  <2> QED
    BY <1>5, <1>6, <2>2 DEF Channels
<1>10. GlobalValues'
  <2>1. v = Val(at[Owner] - 1, fld[Owner])'
    BY <1>0, <1>4, SequentialFrame
  <2> HIDE DEF v
  <2> QED
    BY <1>4, <1>7, <2>1 DEF GlobalValues
<1> QED
  BY <1>0, <1>8, <1>9, <1>10, HasDuringField, OnwardsStep DEF SameValues, InRead

\* The owner reads into the global field what the read makes of it, or skips it.
LEMMA ReadFieldKeeps == ASSUME IInv, FileNames, ReadField PROVE IInv'
<1> DEFINE f0 == fld[Owner]
           p0 == CallOf(Owner).path
           missing == nameMissing(f0, disk[p0].conv)
<1>0. /\ TypeOK /\ LocalAt(Owner) /\ OwnerHas /\ Owner \in Rank
      /\ pc[Owner] = "file" /\ pc[Owner] \in Collective /\ "scatter" \in Collective
      /\ CallOf(Owner).op = "read" /\ (missing \/ f0 \in DOMAIN disk[p0].data)
      /\ global' = IF missing THEN global ELSE disk[p0].data[f0]
      /\ Goto(Owner, "scatter")
      /\ UNCHANGED <<program, at, fld, own, ghost, result, disk, boxes>>
  BY InvariantPerPE, RanksAssumption DEF ReadField, Scattered, Collective
<1>1. PICK ph \in [Rank -> Phase] :
        InPhase(ph) /\ HaloChannels(ph) /\ GatherChannels(ph) /\ ScatterChannels(ph)
  BY DEF IInv, Channels
<1>2. /\ Running(Owner) /\ at[Owner] \in 1..ProgramLength /\ at[Owner] - 1 \in 0..ProgramLength
      /\ f0 \in Fields /\ p0 \in Path /\ ph[Owner] = 3
  BY <1>0, <1>1, HasDuringField, CallFacts DEF InPhase
<1>3. /\ PlaceTypes' /\ at'[Owner] = at[Owner] /\ fld'[Owner] = fld[Owner]
      /\ pc'[Owner] = "scatter" /\ \A q \in Rank \ {Owner} : SamePlace(q)
  BY <1>0, GotoPlaces DEF PC
<1> DEFINE before == Sequential[at[Owner] - 1].file[p0]
<1>4. disk[p0].data = [f \in DOMAIN before |-> [r \in Rank |-> before[f]]]
  <2>1. ~ Writing(p0)
    BY <1>0 DEF Writing
  <2> QED
    BY <1>0, <1>2, <2>1 DEF OwnerHas, DiskValues, FileAfter
<1>5. Val(at[Owner], f0) = IF f0 \in DOMAIN before THEN before[f0]
                           ELSE Val(at[Owner] - 1, f0)
  BY <1>0, <1>2, SequentialCalls DEF TypeOK, CallOf
<1>n. missing <=> f0 \notin DOMAIN before
  <2>1. DOMAIN disk[p0].data = DOMAIN before
    BY <1>4
  <2>2. missing => f0 \notin DOMAIN disk[p0].data
    BY <1>2 DEF FileNames, nameMissing
  <2> QED
    BY <1>0, <2>1, <2>2
<1>6. \A r \in Rank : global'[r] = Val(at[Owner], f0)
  <2> TAKE r \in Rank
  <2>1. CASE missing
    <3>1. global[r] = Val(at[Owner] - 1, f0)
      BY <1>0 DEF OwnerHas, GlobalValues
    <3> QED
      BY <1>0, <1>5, <1>n, <2>1, <3>1
  <2>2. CASE ~ missing
    <3>1. f0 \in DOMAIN before
      BY <1>n, <2>2
    <3>2. global'[r] = before[f0]
      BY <1>0, <1>4, <2>2, <3>1
    <3> QED
      BY <1>5, <2>2, <3>1, <3>2
  <2> QED
    BY <2>1, <2>2
<1>7. PlaceTypes' => TypeOK'
  <2>1. global' \in [Rank -> Version]
    <3>1. global \in [Rank -> Version]
      BY <1>0 DEF TypeOK
    <3>2. ~ missing => disk[p0].data[f0] \in [Rank -> Version]
      BY <1>0, <1>2 DEF TypeOK
    <3> QED
      BY <1>0, <3>1, <3>2
  <2> QED
    BY <1>0, <2>1 DEF TypeOK, PlaceTypes, Neighbours, boxes
<1>8. Channels'
  <2>1. PhaseIs(pc'[Owner], 4)
    BY <1>3 DEF PhaseIs
  <2>2. PICK ph2 \in [Rank -> Phase] : Does(ph, ph2, Owner, 3) /\ InPhase(ph2)'
    BY <1>0, <1>1, <1>2, <1>3, <2>1, OnwardsPhase
  <2> QED
    BY <1>0, <1>1, <2>2, QuietChannels DEF DoesNothing
<1>9. GlobalValues'
  <2>1. \A f : Val(at[Owner], f)' = Val(at[Owner], f)
    BY <1>0, <1>3, SequentialFrame
  <2>2. Val(at[Owner], fld[Owner])' = Val(at[Owner], f0)
    BY <1>3, <2>1
  <2> QED
    BY <1>3, <1>6, <2>2 DEF GlobalValues
<1>10. \A f \in Fields :
         own'[Owner][f] = Val(IF f < fld[Owner] \/ (f = fld[Owner] /\ "scatter" \in {"sendHalo2", "recvHalo2"})
                              THEN at[Owner] ELSE at[Owner] - 1, f)
  BY <1>0, HasDuringField
<1>11. \A f \in Fields :
         (\/ f < fld[Owner]
          \/ f = fld[Owner] /\ CallOf(Owner).op = "write" /\ "scatter" \in {"gather", "file"}) =>
             \A s \in Neighbours(Owner) : ghost'[Owner][f][s] = Val(at[Owner], f)
  BY <1>0, HasDuringField
<1> HIDE DEF f0, p0
<1> QED
  BY <1>0, <1>7, <1>8, <1>9, <1>10, <1>11, OnwardsStep DEF SameValues

LEMMA ScatterTypes ==
    ASSUME TypeOK, NEW r \in Rank, NEW v \in Version
    PROVE  /\ [own EXCEPT ![r][fld[r]] = v] \in [Rank -> [Fields -> Version]]
           /\ [own EXCEPT ![r][fld[r]] = v][r][fld[r]] = v
           /\ \A f \in Fields \ {fld[r]} : [own EXCEPT ![r][fld[r]] = v][r][f] = own[r][f]
           /\ \A q \in Rank \ {r} : [own EXCEPT ![r][fld[r]] = v][q] = own[q]
<1>1. own \in [Rank -> [Fields -> Version]] /\ fld[r] \in Fields
  BY PositionTypes DEF TypeOK
<1> QED
  BY <1>1

\* What a scatter does to the PE that sends it or takes it.
LEMMA ScatterStep ==
    ASSUME IInv, NEW r \in Rank, pc[r] = "scatter", Goto(r, "sendHalo2"),
           UNCHANGED <<program, at, fld, ghost, result, global, disk, haloBox, gatherBox>>,
           own' = [own EXCEPT ![r][fld[r]] = Val(at[r], fld[r])],
           scatterBox' \in [Others -> Seq(Message)],
           \A ph, ph2 \in [Rank -> Phase] :
              /\ ScatterChannels(ph) /\ ph[r] = 4 /\ Does(ph, ph2, r, 4)
              => ScatterChannels(ph2)'
    PROVE  IInv'
<1>0. /\ TypeOK /\ LocalAt(r) /\ OwnerHas /\ pc[r] \in Collective /\ "sendHalo2" \in Collective
  BY InvariantPerPE DEF Collective
<1>1. PICK ph \in [Rank -> Phase] :
        InPhase(ph) /\ HaloChannels(ph) /\ GatherChannels(ph) /\ ScatterChannels(ph)
  BY DEF IInv, Channels
<1>2. Running(r) /\ CallOf(r).op = "read" /\ fld[r] \in Fields /\ ph[r] = 4
  BY <1>0, <1>1, HasDuringField, PositionTypes DEF LocalAt, InRead, InPhase
<1>3. /\ PlaceTypes' /\ at'[r] = at[r] /\ fld'[r] = fld[r] /\ pc'[r] = "sendHalo2"
      /\ \A q \in Rank \ {r} : SamePlace(q)
  BY <1>0, GotoPlaces DEF PC
<1>4. Val(at[r], fld[r]) \in Version
  BY <1>0, <1>2, CallFacts
<1>5. /\ own' \in [Rank -> [Fields -> Version]] /\ own'[r][fld[r]] = Val(at[r], fld[r])
      /\ \A f \in Fields \ {fld[r]} : own'[r][f] = own[r][f]
      /\ \A q \in Rank \ {r} : own'[q] = own[q]
  BY <1>0, <1>4, ScatterTypes
<1>6. TypeOK'
  BY <1>0, <1>3, <1>5 DEF TypeOK, PlaceTypes, Neighbours
<1>7. Channels'
  <2>1. PhaseIs(pc'[r], 5)
    BY <1>3 DEF PhaseIs
  <2>2. PICK ph2 \in [Rank -> Phase] : Does(ph, ph2, r, 4) /\ InPhase(ph2)'
    BY <1>0, <1>1, <1>2, <1>3, <2>1, OnwardsPhase
  <2>3. 4 \in {2, 3, 4} /\ 4 \in Phase \ {2}
    BY DEF Phase
  <2>4. HaloChannels(ph2)' /\ GatherChannels(ph2)'
    BY <1>1, <2>2, <2>3, HaloFrame, GatherFrame
  <2>5. ScatterChannels(ph2)'
    BY <1>1, <1>2, <2>2
  <2> QED
    BY <2>2, <2>4, <2>5 DEF Channels
<1>8. \A f \in Fields :
        own'[r][f] = Val(IF f < fld[r] \/ (f = fld[r] /\ "sendHalo2" \in {"sendHalo2", "recvHalo2"})
                         THEN at[r] ELSE at[r] - 1, f)
  <2> TAKE f \in Fields
  <2>1. CASE f = fld[r]
    BY <1>5, <2>1
  <2>2. CASE f # fld[r]
    <3>1. own[r][f] = Val(IF f < fld[r] \/ (f = fld[r] /\ pc[r] \in {"sendHalo2", "recvHalo2"})
                          THEN at[r] ELSE at[r] - 1, f)
      BY <1>0, HasDuringField
    <3> QED
      BY <1>5, <2>2, <3>1
  <2> QED
    BY <2>1, <2>2
<1>9. \A f \in Fields :
        (\/ f < fld[r]
         \/ f = fld[r] /\ CallOf(r).op = "write" /\ "sendHalo2" \in {"gather", "file"}) =>
            \A s \in Neighbours(r) : ghost'[r][f][s] = Val(at[r], f)
  BY <1>0, HasDuringField
<1>10. r = Owner => GlobalValues'
  BY <1>3 DEF GlobalValues
<1> QED
  BY <1>0, <1>2, <1>5, <1>6, <1>7, <1>8, <1>9, <1>10, OnwardsStep DEF SameValues

LEMMA ScatterSendKeeps == ASSUME IInv, ScatterSend PROVE IInv'
<1> DEFINE v == Val(at[Owner], fld[Owner])
           m0 == Stamp(Owner, "root", v)
<1>0. /\ TypeOK /\ LocalAt(Owner) /\ OwnerHas /\ Owner \in Rank
      /\ pc[Owner] = "scatter" /\ pc[Owner] \in Collective /\ Goto(Owner, "sendHalo2")
      /\ scatterBox' = [r \in Others |-> Append(scatterBox[r], Stamp(Owner, "root", global[r]))]
      /\ own' = [own EXCEPT ![Owner][fld[Owner]] = global[Owner]]
      /\ UNCHANGED <<program, at, fld, ghost, result, global, disk, haloBox, gatherBox>>
  BY InvariantPerPE, RanksAssumption DEF ScatterSend, AfterScatter, HaloAfterScatter, Collective
<1>1. Running(Owner) /\ CallOf(Owner).op = "read"
  BY <1>0, HasDuringField DEF LocalAt, InRead
<1>2. m0 \in ScatterMessage /\ m0 \in Message
  BY <1>0, <1>1, MessageHere DEF ScatterMessage
<1>3. \A r \in Rank : global[r] = v
  BY <1>0 DEF OwnerHas, GlobalValues
<1> HIDE DEF m0, v
<1>4. scatterBox' = [r \in Others |-> Append(scatterBox[r], m0)]
  <2>1. \A r \in Others : Stamp(Owner, "root", global[r]) = m0
    BY <1>3 DEF Others, m0
  <2> QED
    BY <1>0, <2>1
<1>5. scatterBox' \in [Others -> Seq(Message)]
  <2>1. \A r \in Others : scatterBox[r] \in Seq(Message)
    BY <1>0 DEF TypeOK
  <2>2. \A r \in Others : Append(scatterBox[r], m0) \in Seq(Message)
    BY <1>2, <2>1
  <2> QED
    BY <1>4, <2>2
<1>6. ASSUME NEW ph \in [Rank -> Phase], NEW ph2 \in [Rank -> Phase],
             ScatterChannels(ph), ph[Owner] = 4, Does(ph, ph2, Owner, 4)
      PROVE  ScatterChannels(ph2)'
  BY <1>0, <1>1, <1>2, <1>4, <1>6, ScatterSendStep DEF m0
<1>7. own' = [own EXCEPT ![Owner][fld[Owner]] = Val(at[Owner], fld[Owner])]
  BY <1>0, <1>3 DEF v
<1> QED
  BY <1>0, <1>5, <1>6, <1>7, ScatterStep

LEMMA ScatterReceiveKeeps == ASSUME IInv, NEW r \in Rank, ScatterReceive(r) PROVE IInv'
<1> DEFINE v == Val(at[r], fld[r])
<1>0. /\ TypeOK /\ LocalAt(r) /\ OwnerHas /\ r \in Others
      /\ pc[r] = "scatter" /\ pc[r] \in Collective /\ Goto(r, "sendHalo2")
      /\ scatterBox[r] # <<>> /\ scatterBox' = [scatterBox EXCEPT ![r] = Tail(@)]
      /\ own' = [own EXCEPT ![r][fld[r]] = Head(scatterBox[r]).val]
      /\ UNCHANGED <<program, at, fld, ghost, result, global, disk, haloBox, gatherBox>>
  BY InvariantPerPE DEF ScatterReceive, AfterScatter, HaloAfterScatter, Collective, Others
<1>1. Running(r) /\ CallOf(r).op = "read"
  BY <1>0, HasDuringField DEF LocalAt, InRead
<1>2. Stamp(r, "root", v) \in ScatterMessage
  BY <1>0, <1>1, MessageHere
<1> HIDE DEF v
<1>3. scatterBox' \in [Others -> Seq(Message)]
  <2>1. scatterBox \in [Others -> Seq(Message)] /\ scatterBox[r] \in Seq(Message)
    BY <1>0 DEF TypeOK
  <2>2. Tail(scatterBox[r]) \in Seq(Message)
    BY <1>0, <2>1
  <2> QED
    BY <1>0, <2>1, <2>2
<1>4. ASSUME NEW ph \in [Rank -> Phase], NEW ph2 \in [Rank -> Phase],
             ScatterChannels(ph), ph[r] = 4, Does(ph, ph2, r, 4)
      PROVE  ScatterChannels(ph2)'
  BY <1>0, <1>1, <1>2, <1>4, ScatterReceiveStep
<1>5. Head(scatterBox[r]).val = v
  <2>1. PICK ph \in [Rank -> Phase] : InPhase(ph) /\ ScatterChannels(ph)
    BY DEF IInv, Channels
  <2>2. ph[r] = 4
    BY <1>0, <2>1 DEF InPhase
  <2>3. Head(scatterBox[r]) = Stamp(r, "root", v)
    BY <1>0, <1>1, <1>2, <2>1, <2>2, ScatterHead
  <2> QED
    BY <2>3 DEF Stamp
<1>6. own' = [own EXCEPT ![r][fld[r]] = Val(at[r], fld[r])]
  BY <1>0, <1>5 DEF v
<1> QED
  BY <1>0, <1>3, <1>4, <1>6, ScatterStep

\* The file that a write makes of the fields, after its last one.
LEMMA FileAfterWrite ==
    ASSUME TypeOK, Running(Owner), CallOf(Owner).op = "write"
    PROVE  /\ FileAfter(at[Owner], CallOf(Owner).path) = FirstFields(at[Owner] - 1, NField)
           /\ \A q \in Path \ {CallOf(Owner).path} :
                 FileAfter(at[Owner], q) = FileAfter(at[Owner] - 1, q)
<1> DEFINE k == at[Owner]
           p == CallOf(Owner).path
<1>1. /\ k \in 1..ProgramLength /\ k \in 0..ProgramLength /\ k - 1 \in 0..ProgramLength
      /\ p \in Path /\ Owner \in Rank
  BY CallFacts, RanksAssumption
<1>2. /\ Sequential[k].val = Sequential[k - 1].val
      /\ Sequential[k].file = [Sequential[k - 1].file EXCEPT ![p] = Sequential[k].val]
  BY <1>1, SequentialCalls DEF TypeOK, CallOf
<1>3. DOMAIN Sequential[k].val = Fields /\ Path = DOMAIN Sequential[k - 1].file
  <2>1. Sequential[k] \in SequentialState /\ Sequential[k - 1] \in SequentialState
    BY <1>1, SequentialType DEF TypeOK
  <2> QED
    BY <2>1 DEF SequentialState
<1> HIDE DEF k, p
<1>4. Sequential[k].file[p] = Sequential[k].val
  BY <1>1, <1>2, <1>3
<1>5. FileAfter(k, p) = [f \in Fields |-> [r \in Rank |-> Sequential[k - 1].val[f]]]
  BY <1>2, <1>3, <1>4 DEF FileAfter
<1>6. FirstFields(k - 1, NField) = [f \in Fields |-> [r \in Rank |-> Sequential[k - 1].val[f]]]
  BY DEF FirstFields, Fields, Val
<1>7. \A q \in Path \ {p} : FileAfter(k, q) = FileAfter(k - 1, q)
  <2>1. \A q \in Path \ {p} : Sequential[k].file[q] = Sequential[k - 1].file[q]
    BY <1>1, <1>2, <1>3
  <2> QED
    BY <2>1 DEF FileAfter
<1> QED
  BY <1>5, <1>6, <1>7 DEF k, p

\* The owner writes the global field behind the fields that it has written.
LEMMA WriteFieldKeeps == ASSUME IInv, WriteField PROVE IInv'
<1> DEFINE f0 == fld[Owner]
           p0 == CallOf(Owner).path
           written == disk[p0].data
           more == [g \in DOMAIN written \cup {f0} |-> IF g = f0 THEN global ELSE written[g]]
           file == [conv |-> CallOf(Owner).conv, exists |-> TRUE, data |-> more]
<1>0. /\ TypeOK /\ LocalAt(Owner) /\ OwnerHas /\ Owner \in Rank
      /\ pc[Owner] = "file" /\ pc[Owner] \in Collective /\ CallOf(Owner).op = "write"
      /\ disk' = [disk EXCEPT ![p0] = file] /\ NextField(Owner)
      /\ UNCHANGED <<program, own, ghost, result, global, boxes>>
  BY InvariantPerPE, RanksAssumption DEF WriteField, Collective
<1>1. PICK ph \in [Rank -> Phase] :
        InPhase(ph) /\ HaloChannels(ph) /\ GatherChannels(ph) /\ ScatterChannels(ph)
  BY DEF IInv, Channels
<1>2. /\ Running(Owner) /\ at[Owner] \in 1..ProgramLength /\ f0 \in 1..NField
      /\ NField \in Nat \ {0} /\ p0 \in Path /\ CallOf(Owner).conv \in {LFRIC, JEDI}
      /\ ph[Owner] = 3 /\ \A q : Writing(q) <=> q = p0
  BY <1>0, <1>1, HasDuringField, CallFacts, BoundTypes DEF InPhase, Fields, Writing
<1>3. /\ PlaceTypes' /\ \A q \in Rank \ {Owner} : SamePlace(q)
      /\ \/ fld[Owner] = NField /\ at'[Owner] = at[Owner] + 1 /\ pc'[Owner] = "ready"
         \/ /\ fld[Owner] < NField /\ at'[Owner] = at[Owner] /\ fld'[Owner] = fld[Owner] + 1
            /\ pc'[Owner] = "sendHalo"
  BY <1>0, <1>2, NextFieldPlaces
<1>4. written = FirstFields(at[Owner] - 1, f0 - 1)
  BY <1>0, <1>2 DEF OwnerHas, DiskValues
<1>5. global = [r \in Rank |-> Val(at[Owner] - 1, f0)]
  <2>1. global = [r \in Rank |-> global[r]]
    BY <1>0 DEF TypeOK
  <2> QED
    BY <1>0, <2>1 DEF OwnerHas, GlobalValues
<1>6. more = FirstFields(at[Owner] - 1, f0)
  <2>1. DOMAIN written = 1..(f0 - 1) /\ (1..(f0 - 1)) \cup {f0} = 1..f0
    BY <1>2, <1>4 DEF FirstFields
  <2>2. \A g \in 1..f0 : (IF g = f0 THEN global ELSE written[g]) = [r \in Rank |-> Val(at[Owner] - 1, g)]
    <3> TAKE g \in 1..f0
    <3>1. CASE g = f0
      BY <1>5, <3>1
    <3>2. CASE g # f0
      <4>1. g \in 1..(f0 - 1)
        BY <1>2, <3>2
      <4>2. written[g] = [r \in Rank |-> Val(at[Owner] - 1, g)]
        BY <1>4, <4>1 DEF FirstFields
      <4> QED
        BY <3>2, <4>2
    <3> QED
      BY <3>1, <3>2
  <2>3. more = [g \in 1..f0 |-> IF g = f0 THEN global ELSE written[g]]
    BY <2>1
  <2> HIDE DEF more, f0, written
  <2> QED
    BY <2>2, <2>3 DEF FirstFields
<1>7. /\ disk'[p0] = file /\ \A q \in Path \ {p0} : disk'[q] = disk[q]
      /\ DOMAIN disk' = Path
  <2>1. DOMAIN disk = Path
    BY <1>0 DEF TypeOK
  <2> HIDE DEF file, p0
  <2> QED
    BY <1>0, <1>2, <2>1
<1>8. DiskTypes'
  <2>1. file.exists = TRUE /\ file.conv \in {LFRIC, JEDI} /\ file.data = more
    BY <1>2
  <2>2. \A g \in DOMAIN more : more[g] \in [Rank -> Version]
    <3>1. global \in [Rank -> Version] /\ \A g \in DOMAIN written : written[g] \in [Rank -> Version]
      BY <1>0, <1>2 DEF TypeOK
    <3> QED
      BY <3>1
  <2> HIDE DEF file, more, p0
  <2>3. ASSUME NEW q \in Path
        PROVE  /\ disk'[q].exists \in BOOLEAN /\ disk'[q].conv \in {LFRIC, JEDI}
               /\ \A g \in DOMAIN disk'[q].data : disk'[q].data[g] \in [Rank -> Version]
    <3>1. CASE q = p0
      BY <1>7, <2>1, <2>2, <3>1
    <3>2. CASE q # p0
      <4>1. disk'[q] = disk[q]
        BY <1>7, <3>2
      <4> QED
        BY <1>0, <4>1 DEF TypeOK
    <3> QED
      BY <3>1, <3>2
  <2> QED
    BY <1>7, <2>3 DEF DiskTypes
<1>9. DiskValues'
  <2>1. Sequential' = Sequential /\ \A k, f : Val(k, f)' = Val(k, f)
    BY <1>0, SequentialFrame
  <2>2. disk'[p0].data = FirstFields(at[Owner] - 1, f0)
    BY <1>6, <1>7
  <2>3. \A q \in Path \ {p0} : disk'[q].data = FileAfter(at[Owner] - 1, q)
    BY <1>0, <1>2, <1>7 DEF OwnerHas, DiskValues
  <2>4. \A k, q : FileAfter(k, q)' = FileAfter(k, q)
    BY <2>1 DEF FileAfter
  <2>5. \A k, n : FirstFields(k, n)' = FirstFields(k, n)
    BY <2>1 DEF FirstFields
  <2>6. CASE fld[Owner] = NField /\ at'[Owner] = at[Owner] + 1 /\ pc'[Owner] = "ready"
    <3>1. at'[Owner] - 1 = at[Owner] /\ \A q : ~ Writing(q)'
      BY <1>2, <2>6 DEF Writing, Collective
    <3>2. \A q \in Path : disk'[q].data = FileAfter(at[Owner], q)
      BY <1>0, <1>2, <2>2, <2>3, <2>6, FileAfterWrite
    <3>3. \A q : FileAfter(at[Owner] - 1, q)' = FileAfter(at[Owner], q)
      BY <2>1, <3>1 DEF FileAfter
    <3> HIDE DEF f0, p0
    <3> QED
      BY <3>1, <3>2, <3>3 DEF DiskValues
  <2>7. CASE /\ fld[Owner] < NField /\ at'[Owner] = at[Owner] /\ fld'[Owner] = fld[Owner] + 1
             /\ pc'[Owner] = "sendHalo"
    <3>1. fld'[Owner] - 1 = f0
      BY <1>2, <2>7
    <3>2. \A q : Writing(q)' <=> q = p0
      BY <1>0, <2>7 DEF Writing, CallOf, Collective
    <3>3. FirstFields(at[Owner] - 1, fld[Owner] - 1)' = FirstFields(at[Owner] - 1, f0)
      BY <2>1, <2>7, <3>1 DEF FirstFields
    <3>4. \A q : FileAfter(at[Owner] - 1, q)' = FileAfter(at[Owner] - 1, q)
      BY <2>1, <2>7 DEF FileAfter
    <3> HIDE DEF f0, p0
    <3> QED
      BY <2>2, <2>3, <3>2, <3>3, <3>4 DEF DiskValues
  <2> QED
    BY <1>3, <2>6, <2>7
<1>10. OwnerHas'
  BY <1>3, <1>9 DEF OwnerHas, GlobalValues
<1>11. TypeOK'
  BY <1>0, <1>3, <1>8 DEF TypeOK, PlaceTypes, Neighbours, boxes, DiskTypes
<1>12. Channels'
  <2>1. PICK ph2 \in [Rank -> Phase] : Does(ph, ph2, Owner, 3) /\ InPhase(ph2)'
    BY <1>0, <1>1, <1>2, FieldEndsPhase
  <2> QED
    BY <1>0, <1>1, <2>1, QuietChannels DEF DoesNothing
<1>13. LocalAt(Owner)'
  BY <1>0, WriteEndsLocal
<1> QED
  BY <1>0, <1>3, <1>10, <1>11, <1>12, <1>13, StepOf DEF SameValues
----------------------------------------------------------------------------
(* The invariant holds at the start, and every step keeps it. *)

\* Nobody has done anything, so nothing is under way.
LEMMA NothingSent ==
    ASSUME Init
    PROVE  Channels
<1> DEFINE ph == [r \in Rank |-> 0]
<1>1. ph \in [Rank -> Phase] /\ InPhase(ph)
  BY DEF Init, Phase, InPhase
<1>2. \A r \in Rank, a \in 1..ProgramLength, f \in Fields, k \in Phase : ~ Past(ph, r, a, f, k)
  BY BoundTypes DEF Init, Past, Phase, Fields
<1> HIDE DEF ph
<1>3. \A m \in HaloMessage, r \in Rank : ~ HaloSent(ph, r, m) /\ ~ HaloReceived(ph, r, m)
  BY <1>2, HaloMessageTypes DEF HaloSent, HaloReceived, Phase
<1>4. /\ \A m \in GatherMessage, r \in Rank : ~ GatherPast(ph, r, m)
      /\ \A m \in ScatterMessage, r \in Rank : ~ ScatterPast(ph, r, m)
  BY <1>2 DEF GatherPast, ScatterPast, GatherMessage, ScatterMessage, Message, Phase
<1>5. /\ \A s, r \in Rank : HaloUnderWay(ph, s, r) = {}
      /\ \A r \in Others : GatherUnderWay(ph, r) = {} /\ ScatterUnderWay(ph, r) = {}
  <2>1. \A s, r \in Rank : HaloUnderWay(ph, s, r) = {}
    BY <1>3 DEF HaloUnderWay
  <2>2. \A r \in Others : GatherUnderWay(ph, r) = {} /\ ScatterUnderWay(ph, r) = {}
    BY <1>4, RanksAssumption DEF GatherUnderWay, ScatterUnderWay, Others
  <2> QED
    BY <2>1, <2>2
<1>6. HaloChannels(ph)
  BY <1>3, <1>5, EmptyCarriesNothing DEF Init, HaloChannels, Neighbours
<1>7. GatherChannels(ph) /\ ScatterChannels(ph)
  BY <1>4, <1>5, EmptyCarriesNothing, RanksAssumption DEF Init, GatherChannels, ScatterChannels, Others
<1> QED
  BY <1>1, <1>6, <1>7 DEF Channels

LEMMA InitIInv == Init => IInv
<1> SUFFICES ASSUME Init PROVE IInv
  OBVIOUS
<1>1. TypeOK
  <2>1. /\ program \in [1..ProgramLength -> Calls] /\ at \in [Rank -> 1..ProgramLength + 1]
        /\ pc \in [Rank -> PC] /\ fld \in [Rank -> Fields]
        /\ own \in [Rank -> [Fields -> Version]] /\ result \in [Rank -> {LFRIC, JEDI}]
        /\ global \in [Rank -> Version]
    <3>1. 0 \in Version /\ 1 \in 1..ProgramLength + 1 /\ 1 \in Fields
      BY BoundTypes DEF Version
    <3> QED
      BY <3>1 DEF Init, PC
  <2>2. DOMAIN ghost = Rank /\ \A r \in Rank : ghost[r] \in [Fields -> [Neighbours(r) -> Version]]
    <3>1. 0 \in Version
      BY BoundTypes DEF Version
    <3> QED
      BY <3>1 DEF Init
  <2>3. /\ DOMAIN disk = Path
        /\ \A p \in Path :
             /\ disk[p].exists \in BOOLEAN /\ disk[p].conv \in {LFRIC, JEDI}
             /\ \A f \in DOMAIN disk[p].data : disk[p].data[f] \in [Rank -> Version]
    <3>1. \A p \in Path : disk[p] = InputFile \/ disk[p] = NoFile
      BY DEF Init
    <3>2. DOMAIN disk = Path
      BY DEF Init
    <3>3. \A f \in DOMAIN InputFile.data : InputFile.data[f] \in [Rank -> Version]
      BY BoundTypes DEF InputFile
    <3>4. DOMAIN NoFile.data = {}
      BY DEF NoFile
    <3>5. /\ InputFile.exists \in BOOLEAN /\ InputFile.conv \in {LFRIC, JEDI}
          /\ NoFile.exists \in BOOLEAN /\ NoFile.conv \in {LFRIC, JEDI}
      BY DEF InputFile, NoFile
    <3> QED
      BY <3>1, <3>2, <3>3, <3>4, <3>5
  <2>4. /\ haloBox \in [Rank -> [Rank -> Seq(Message)]]
        /\ gatherBox \in [Others -> Seq(Message)] /\ scatterBox \in [Others -> Seq(Message)]
    BY DEF Init
  <2> QED
    BY <2>1, <2>2, <2>3, <2>4 DEF TypeOK
<1>2. Control
  BY DEF Init, Control, Collective, InRead
<1>3. Channels
  BY NothingSent
<1>4. OwnValues /\ GhostValues /\ HaloCoherent /\ GlobalValues
  <2>1. \A f \in Fields : Val(0, f) = 0
    BY SequentialUnfolds DEF SequentialStart, Val
  <2>2. \A r \in Rank, f \in Fields : ~ FieldDone(r, f)
    BY DEF Init, FieldDone, Fields
  <2>3. OwnValues
    BY <2>1, <2>2 DEF Init, OwnValues
  <2> QED
    BY <2>3, RanksAssumption DEF Init, GhostValues, HaloCoherent, GlobalValues, Collective
<1>5. DiskValues
  <2> SUFFICES ASSUME NEW p \in Path PROVE disk[p].data = FileAfter(0, p)
    BY RanksAssumption DEF Init, DiskValues, Writing, Collective
  <2>1. Sequential[0].file[p] = IF p \in InputFiles
                                THEN [f \in Fields \ Skipped |-> InputValue] ELSE <<>>
    BY SequentialUnfolds DEF SequentialStart
  <2>2. CASE p \in InputFiles
    BY <2>1, <2>2 DEF Init, FileAfter, InputFile
  <2>3. CASE p \notin InputFiles
    <3>1. disk[p].data = <<>> /\ Sequential[0].file[p] = <<>>
      BY <2>1, <2>3 DEF Init, NoFile
    <3> QED
      BY <3>1 DEF FileAfter
  <2> QED
    BY <2>2, <2>3
<1> QED
  BY <1>1, <1>2, <1>3, <1>4, <1>5 DEF IInv, Values

LEMMA StutterIInv == ASSUME IInv, UNCHANGED vars PROVE IInv'
<1>0. UNCHANGED <<program, at, pc, fld, own, ghost, result, global, disk, boxes>>
  BY DEF vars, data
<1>1. PICK ph \in [Rank -> Phase] :
        InPhase(ph) /\ HaloChannels(ph) /\ GatherChannels(ph) /\ ScatterChannels(ph)
  BY DEF IInv, Channels
<1>2. Owner \in Rank
  BY RanksAssumption
<1>3. Channels'
  <2>1. DoesNothing(ph, ph, Owner) /\ InPhase(ph)'
    BY <1>0, <1>1, <1>2, NoMove DEF IInv, InPhase
  <2> QED
    BY <1>0, <1>1, <1>2, <2>1, QuietChannels
<1>4. TypeOK'
  BY <1>0 DEF IInv, TypeOK, boxes, Neighbours
<1>5. \A q \in Rank : SamePlace(q) /\ SameValues(q)
  BY <1>0 DEF SamePlace, SameValues
<1>6. LocalAt(Owner)'
  BY <1>0, <1>2, <1>5, LocalFrame, InvariantPerPE
<1>7. OwnerHas'
  BY <1>0, <1>2, <1>5, OwnerFrame, InvariantPerPE
<1> QED
  BY <1>0, <1>2, <1>3, <1>4, <1>5, <1>6, <1>7, StepOf

LEMMA NextIInv == ASSUME IInv, FileNames, Next PROVE IInv'
<1>1. PICK r \in Rank : Step(r) \/ Die(r)
  BY DEF Next
<1>2. Owner \in Rank
  BY RanksAssumption
<1>3. CASE Die(r)
  BY <1>3, DeathStep DEF Die
<1>4. CASE Step(r)
  <2>1. CASE Compute(r)
    BY <2>1, ComputeStep
  <2>2. CASE BeginRead(r)
    BY <2>2, BeginReadStep
  <2>3. CASE BeginWrite(r)
    BY <2>3, BeginWriteStep
  <2>4. CASE initialiseFile(r)
    BY <2>4, InitialiseStep
  <2>5. CASE HaloBeforeGather(r)
    BY <2>5, SendBefore
  <2>6. CASE HaloGathered(r)
    BY <2>6, ReceiveBefore
  <2>7. CASE GatherSend(r)
    BY <2>7, GatherSendKeeps
  <2>8. CASE ScatterReceive(r)
    BY <2>8, ScatterReceiveKeeps
  <2>9. CASE HaloSentAfter(r)
    BY <2>9, SendAfter
  <2>10. CASE HaloReceivedAfter(r)
    BY <2>10, ReceiveAfter
  <2>11. CASE GatherReceive
    BY <2>11, GatherReceiveKeeps
  <2>12. CASE ReadField
    BY <2>12, ReadFieldKeeps
  <2>13. CASE WriteField
    BY <2>13, WriteFieldKeeps
  <2>14. CASE ScatterSend
    BY <2>14, ScatterSendKeeps
  <2>15. CASE CreateFails
    BY <1>2, <2>15, DeathStep DEF CreateFails
  <2>16. CASE FileFails
    BY <1>2, <2>16, DeathStep DEF FileFails, catchNcException
  <2> QED
    BY <1>4, <2>1, <2>2, <2>3, <2>4, <2>5, <2>6, <2>7, <2>8, <2>9, <2>10, <2>11, <2>12,
       <2>13, <2>14, <2>15, <2>16 DEF Step
<1> QED
  BY <1>1, <1>3, <1>4
----------------------------------------------------------------------------
(* Which files are there, and with which fields. *)

\* The files stay where they are, and the owner does not begin to write one.
LEMMA FilesFrame ==
    ASSUME OwnerFiles, UNCHANGED disk,
           \A p \in Path : Writing(p)' => Writing(p) /\ CallOf(Owner)' = CallOf(Owner)
    PROVE  OwnerFiles'
BY DEF OwnerFiles, FilesExist, FileNames

\* A PE that dies or ends its call is not writing; in the same call, it goes on writing.
LEMMA WritingFrame ==
    ASSUME UNCHANGED program,
           \/ pc'[Owner] \notin Collective
           \/ at'[Owner] = at[Owner] /\ (pc[Owner] \in Collective \/ CallOf(Owner).op # "write")
    PROVE  \A p \in Path : Writing(p)' => Writing(p) /\ CallOf(Owner)' = CallOf(Owner)
BY DEF Writing, CallOf

LEMMA NextFiles ==
    ASSUME IInv, OwnerFiles, Next
    PROVE  OwnerFiles'
<1>1. PICK r \in Rank : Step(r) \/ Die(r)
  BY DEF Next
<1>0. Owner \in Rank /\ TypeOK /\ Control /\ DOMAIN disk = Path
  BY RanksAssumption DEF IInv, TypeOK
<1>2. ASSUME throwException(r)
      PROVE  OwnerFiles'
  <2>1. UNCHANGED <<program, at, disk>> /\ pc'[Owner] \in {pc[Owner], "dead"}
    BY <1>0, <1>2 DEF throwException, Goto, TypeOK, data
  <2>2. pc'[Owner] \notin Collective \/ pc[Owner] \in Collective
    BY <2>1 DEF Collective
  <2> QED
    BY <2>1, <2>2, FilesFrame, WritingFrame
<1>3. ASSUME UNCHANGED <<program, disk>>, NEW next \in PC, Goto(r, next), UNCHANGED <<at, fld>>,
             pc[r] \in Collective \/ CallOf(r).op # "write"
      PROVE  OwnerFiles'
  <2>1. at'[Owner] = at[Owner]
    BY <1>3
  <2>2. CASE r = Owner
    BY <1>3, <2>1, <2>2, FilesFrame, WritingFrame
  <2>3. CASE r # Owner
    <3>1. pc'[Owner] = pc[Owner]
      BY <1>0, <1>3, <2>3 DEF Goto, TypeOK
    <3> QED
      BY <1>3, <2>1, <3>1, FilesFrame, WritingFrame
  <2> QED
    BY <2>2, <2>3
<1>4. ASSUME UNCHANGED <<program, disk>>, Running(r), Return(r) \/ NextField(r),
             pc[r] \in Collective \/ Return(r)
      PROVE  OwnerFiles'
  <2>1. CASE r = Owner
    <3>1. \/ pc'[Owner] = "ready"
          \/ pc'[Owner] = "sendHalo" /\ at'[Owner] = at[Owner] /\ pc[Owner] \in Collective
      BY <1>0, <1>4, <2>1, ReturnPlaces, NextFieldPlaces
    <3>2. \/ pc'[Owner] \notin Collective
          \/ at'[Owner] = at[Owner] /\ pc[Owner] \in Collective
      BY <3>1 DEF Collective
    <3> QED
      BY <1>4, <3>2, FilesFrame, WritingFrame
  <2>2. CASE r # Owner
    <3>1. SamePlace(Owner)
      BY <1>0, <1>4, <2>2, ReturnPlaces, NextFieldPlaces
    <3>2. \A p : (Writing(p)' = Writing(p)) /\ CallOf(Owner)' = CallOf(Owner)
      BY <1>4, <3>1 DEF Writing, CallOf, SamePlace
    <3> QED
      BY <1>4, <3>2, FilesFrame
  <2> QED
    BY <2>1, <2>2
<1>5. ASSUME NEW file, file.exists = TRUE, UNCHANGED program, r = Owner,
             file.conv = LFRIC => DOMAIN file.data \cap Skipped = {},
             CallOf(Owner).conv = LFRIC => file.conv = LFRIC,
             disk' = [disk EXCEPT ![CallOf(Owner).path] = file],
             at'[Owner] # at[Owner] => pc'[Owner] \notin Collective
      PROVE  OwnerFiles'
  <2>1. ASSUME NEW p \in Path, p # CallOf(Owner).path
        PROVE  disk'[p] = disk[p] /\ ~ Writing(p)'
    BY <1>0, <1>5, <2>1 DEF Writing, CallOf
  <2>2. ASSUME NEW p \in Path, p = CallOf(Owner).path
        PROVE  /\ disk'[p] = file
               /\ Writing(p)' => CallOf(Owner)' = CallOf(Owner)
    BY <1>0, <1>5, <2>2 DEF Writing, CallOf
  <2> QED
    BY <1>5, <2>1, <2>2 DEF OwnerFiles, FilesExist, FileNames
<1>6. CASE Die(r)
  BY <1>2, <1>6 DEF Die
<1>7. CASE Step(r)
  <2>1. CASE Compute(r)
    BY <1>4, <2>1 DEF Compute
  <2>2. CASE BeginRead(r)
    <3>1. throwException(r) \/ (Goto(r, "sendHalo") /\ UNCHANGED <<program, disk, at, fld>>)
      BY <2>2 DEF BeginRead, data
    <3> QED
      BY <1>2, <1>3, <2>2, <3>1 DEF BeginRead, PC
  <2>3. CASE BeginWrite(r)
    <3>1. CASE r = Owner
      <4> DEFINE file == openFile(CallOf(Owner).path)
      <4>1. file.exists = TRUE /\ file.conv = LFRIC /\ DOMAIN file.data = {}
        BY DEF openFile
      <4>2. UNCHANGED <<program, at>>
            /\ disk' = [disk EXCEPT ![CallOf(Owner).path] = file]
        BY <2>3, <3>1 DEF BeginWrite
      <4> HIDE DEF file
      <4> QED
        BY <1>5, <3>1, <4>1, <4>2
    <3>2. CASE r # Owner
      <4>1. SamePlace(Owner) /\ UNCHANGED <<program, disk>>
        BY <1>0, <2>3, <3>2 DEF BeginWrite, Goto, SamePlace, TypeOK
      <4>2. \A p : (Writing(p)' = Writing(p)) /\ CallOf(Owner)' = CallOf(Owner)
        BY <4>1 DEF Writing, CallOf, SamePlace
      <4> QED
        BY <4>1, <4>2, FilesFrame
    <3> QED
      BY <3>1, <3>2
  <2>4. CASE initialiseFile(r)
    <3>1. throwException(r) \/ (Return(r) /\ UNCHANGED <<program, disk>>)
      BY <2>4 DEF initialiseFile
    <3> QED
      BY <1>2, <1>4, <2>4, <3>1 DEF initialiseFile
  <2>5. CASE HaloBeforeGather(r)
    BY <1>3, <2>5 DEF HaloBeforeGather, PC, Collective, data
  <2>6. CASE HaloGathered(r)
    BY <1>3, <2>6 DEF HaloGathered, PC, Collective
  <2>7. CASE GatherSend(r)
    <3>1. /\ UNCHANGED <<program, disk>> /\ pc[r] \in Collective /\ Running(r)
          /\ \/ Goto(r, "scatter") /\ UNCHANGED <<at, fld>>
             \/ NextField(r)
      BY <1>0, <2>7 DEF GatherSend, Collective, Control, data
    <3> QED
      BY <1>3, <1>4, <3>1 DEF PC
  <2>8. CASE ScatterReceive(r)
    BY <1>3, <2>8 DEF ScatterReceive, AfterScatter, HaloAfterScatter, PC, Collective
  <2>9. CASE HaloSentAfter(r)
    BY <1>3, <2>9 DEF HaloSentAfter, PC, Collective, data
  <2>10. CASE HaloReceivedAfter(r)
    <3>1. /\ UNCHANGED <<program, disk>> /\ pc[r] \in Collective /\ Running(r) /\ NextField(r)
      BY <1>0, <2>10 DEF HaloReceivedAfter, Collective, Control
    <3> QED
      BY <1>4, <3>1
  <2>11. CASE r = Owner /\ GatherReceive
    BY <1>3, <2>11 DEF GatherReceive, PC, Collective
  <2>12. CASE r = Owner /\ ReadField
    BY <1>3, <2>12 DEF ReadField, Scattered, PC, Collective
  <2>13. CASE r = Owner /\ WriteField
    <3> DEFINE c == CallOf(Owner)
               old == disk[c.path].data
               new == [g \in DOMAIN old \cup {fld[Owner]} |->
                         IF g = fld[Owner] THEN global ELSE old[g]]
               file == [conv |-> c.conv, exists |-> TRUE, data |-> new]
    <3>1. /\ UNCHANGED program /\ Running(Owner) /\ NextField(Owner)
          /\ disk' = [disk EXCEPT ![c.path] = file]
          /\ ~ nameMissing(fld[Owner], c.conv)
      BY <1>0, <2>13 DEF WriteField, Collective, Control
    <3>3. file.exists = TRUE /\ file.conv = c.conv /\ DOMAIN file.data = DOMAIN old \cup {fld[Owner]}
      OBVIOUS
    <3>4. c.conv = LFRIC => DOMAIN file.data \cap Skipped = {}
      <4>1. Writing(c.path) /\ c.path \in Path
        BY <1>0, <2>13, <3>1, CallFacts DEF Writing, WriteField, Collective
      <4>2. c.conv = LFRIC => DOMAIN old \cap Skipped = {}
        BY <4>1 DEF OwnerFiles, FileNames
      <4> QED
        BY <3>1, <3>3, <4>2 DEF nameMissing
    <3> HIDE DEF file, c
    <3>2. at'[Owner] # at[Owner] => pc'[Owner] \notin Collective
      <4>1. at'[Owner] = at[Owner] \/ pc'[Owner] = "ready"
        BY <1>0, <3>1, NextFieldPlaces
      <4> QED
        BY <4>1 DEF Collective
    <3> QED
      BY <1>5, <2>13, <3>1, <3>2, <3>3, <3>4 DEF c
  <2>14. CASE r = Owner /\ ScatterSend
    BY <1>3, <2>14 DEF ScatterSend, AfterScatter, HaloAfterScatter, PC, Collective
  <2>15. CASE r = Owner /\ CreateFails
    BY <1>2, <2>15 DEF CreateFails
  <2>16. CASE r = Owner /\ FileFails
    BY <1>2, <2>16 DEF FileFails, catchNcException
  <2> QED
    BY <1>7, <2>1, <2>2, <2>3, <2>4, <2>5, <2>6, <2>7, <2>8, <2>9, <2>10, <2>11, <2>12,
       <2>13, <2>14, <2>15, <2>16 DEF Step
<1> QED
  BY <1>1, <1>6, <1>7

LEMMA InitFiles == Init => OwnerFiles
<1> SUFFICES ASSUME Init, NEW p \in Path
             PROVE  /\ (disk[p].data # <<>> \/ Writing(p)) => disk[p].exists
                    /\ disk[p].conv = LFRIC => DOMAIN disk[p].data \cap Skipped = {}
                    /\ ~ Writing(p)
  BY DEF OwnerFiles, FilesExist, FileNames
<1>1. ~ Writing(p)
  BY RanksAssumption DEF Init, Writing, Collective
<1>2. disk[p] = InputFile \/ disk[p] = NoFile
  BY DEF Init
<1> QED
  BY <1>1, <1>2 DEF InputFile, NoFile

LEMMA StutterFiles == ASSUME OwnerFiles, UNCHANGED vars PROVE OwnerFiles'
<1>1. \A p : (Writing(p)' = Writing(p)) /\ CallOf(Owner)' = CallOf(Owner)
  BY DEF vars, data, Writing, CallOf
<1> QED
  BY <1>1, FilesFrame DEF vars, data
----------------------------------------------------------------------------
(* The theorems. *)

\* In every state the program can reach, for any number of PEs, fields, files and calls,
\* each message that is under way follows from where its sender and its receiver are, and
\* each value that a PE holds is the one that a single process would have there.
THEOREM Invariance == Spec => [](IInv /\ OwnerFiles)
<1>1. IInv /\ OwnerFiles /\ [Next]_vars => IInv' /\ OwnerFiles'
  BY NextIInv, StutterIInv, NextFiles, StutterFiles DEF OwnerFiles
<1> QED
  BY <1>1, InitIInv, InitFiles, PTL DEF Spec

\* Every variable keeps its type: no PE leaves its calls, its fields or its phases, and
\* no message or file holds anything but fields of known versions.
THEOREM TypeCorrect == Spec => []TypeOK
<1>1. IInv => TypeOK
  BY DEF IInv
<1> QED
  BY <1>1, Invariance, PTL

\* However the PEs interleave, a PE between two calls of Monio (readState, writeIncrements
\* and so on) has the fields that one process running the same program would have, and the
\* files on disk are, between two calls of the owner, those that it would have written.
THEOREM SameAsOneProcess == Spec => []SequentialEquivalence
<1>1. IInv => SequentialEquivalence
  <2> SUFFICES ASSUME IInv PROVE SequentialEquivalence
    OBVIOUS
  <2>1. ASSUME NEW r \in Rank, NEW f \in Fields, pc[r] = "ready"
        PROVE  own[r][f] = Sequential[at[r] - 1].val[f]
    <3>1. fld[r] = 1
      BY <2>1 DEF IInv, Control
    <3>2. ~ FieldDone(r, f)
      BY <2>1, <3>1 DEF FieldDone, Fields
    <3> QED
      BY <2>1, <3>2 DEF IInv, Values, OwnValues, Val
  <2>2. ASSUME NEW p \in Path, pc[Owner] = "ready"
        PROVE  disk[p].data = FileAfter(at[Owner] - 1, p)
    BY <2>2 DEF IInv, Values, DiskValues, Writing, Collective
  <2> QED
    BY <2>1, <2>2 DEF SequentialEquivalence, FileAfter
<1> QED
  BY <1>1, Invariance, PTL

\* After a read or a write the halo of a PE holds what its neighbours have at their points:
\* the last halo exchange of the call is never one of another field, call or version.
THEOREM HalosAreCoherent == Spec => []HaloCoherent
<1>1. IInv => HaloCoherent
  BY DEF IInv, Values
<1> QED
  BY <1>1, Invariance, PTL

LEMMA HeadExpected ==
    ASSUME NEW box, NEW r \in Rank, NEW step, NEW v,
           box # <<>> => Head(box) = Stamp(r, step, v)
    PROVE  Expected(box, r, step)
BY DEF Expected, Stamp

\* When every PE has come to the end of its program, nothing is under way.
LEMMA NothingLeft ==
    ASSUME IInv, \A r \in Rank : ~ Running(r)
    PROVE  /\ \A r, s \in Rank : haloBox[r][s] = <<>>
           /\ \A r \in Others : gatherBox[r] = <<>> /\ scatterBox[r] = <<>>
<1>1. PICK ph \in [Rank -> Phase] :
        InPhase(ph) /\ HaloChannels(ph) /\ GatherChannels(ph) /\ ScatterChannels(ph)
  BY DEF IInv, Channels
<1>2. /\ Owner \in Rank /\ Others \subseteq Rank
      /\ haloBox \in [Rank -> [Rank -> Seq(Message)]]
      /\ gatherBox \in [Others -> Seq(Message)] /\ scatterBox \in [Others -> Seq(Message)]
  BY RanksAssumption DEF IInv, TypeOK, Others
<1>3. \A q \in Rank, a \in 1..ProgramLength : \A f, k : Past(ph, q, a, f, k)
  BY PositionTypes DEF IInv, Running, Past
<1>4. \A m \in Message : m.at \in 1..ProgramLength
  BY DEF Message
<1>5. \A s \in Rank : Neighbours(s) \subseteq Rank
  BY DEF Neighbours
<1>6. \A s, r \in Rank : HaloUnderWay(ph, s, r) = {}
  BY <1>3, <1>4 DEF HaloUnderWay, HaloReceived, HaloMessage
<1>7. \A r \in Others : GatherUnderWay(ph, r) = {} /\ ScatterUnderWay(ph, r) = {}
  BY <1>2, <1>3, <1>4
     DEF GatherUnderWay, ScatterUnderWay, GatherPast, ScatterPast, GatherMessage, ScatterMessage
<1>8. ASSUME NEW s \in Rank, NEW r \in Rank PROVE haloBox[s][r] = <<>>
  <2>1. CASE r \in Neighbours(s)
    <3>1. haloBox[s][r] \in Seq(Message) /\ Carries(haloBox[s][r], {})
      BY <1>1, <1>2, <1>6, <2>1 DEF HaloChannels
    <3> QED
      BY <3>1, CarriesNothing
  <2>2. CASE r \notin Neighbours(s)
    BY <1>1, <2>2 DEF HaloChannels
  <2> QED
    BY <2>1, <2>2
<1>9. ASSUME NEW r \in Others PROVE gatherBox[r] = <<>> /\ scatterBox[r] = <<>>
  <2>1. /\ gatherBox[r] \in Seq(Message) /\ Carries(gatherBox[r], {})
        /\ scatterBox[r] \in Seq(Message) /\ Carries(scatterBox[r], {})
    BY <1>1, <1>2, <1>7 DEF GatherChannels, ScatterChannels
  <2> QED
    BY <2>1, CarriesNothing
<1> QED
  BY <1>8, <1>9

\* What a PE in an exchange finds first was sent in the same exchange.
LEMMA ExchangeMatches ==
    ASSUME IInv, NEW r \in Rank, NEW s \in Rank
    PROVE  /\ pc[r] = "recvHalo"  => Expected(haloBox[s][r], r, "before")
           /\ pc[r] = "recvHalo2" => Expected(haloBox[s][r], r, "after")
<1>1. PICK ph \in [Rank -> Phase] : InPhase(ph) /\ HaloChannels(ph)
  BY DEF IInv, Channels
<1>2. CASE s \notin Neighbours(r)
  <2>1. r \notin Neighbours(s)
    BY <1>2, NeighboursSymmetric
  <2>2. haloBox[s][r] = <<>>
    BY <1>1, <2>1 DEF HaloChannels
  <2> QED
    BY <2>2 DEF Expected
<1>3. CASE s \in Neighbours(r)
  <2>1. ASSUME pc[r] = "recvHalo"
        PROVE  Expected(haloBox[s][r], r, "before")
    <3> DEFINE v == Val(at[r] - 1, fld[r])
    <3>1. Running(r) /\ CallOf(r).op \in {"read", "write"} /\ ph[r] = 1
      BY <1>1, <2>1 DEF IInv, Control, Collective, InPhase
    <3>2. TypeOK /\ Stamp(r, "before", v) \in HaloMessage
      BY <3>1, MessageHere DEF IInv
    <3> HIDE DEF v
    <3>3. haloBox[s][r] # <<>> => Head(haloBox[s][r]) = Stamp(r, "before", v)
      BY <1>1, <1>3, <3>1, <3>2, HaloHead
    <3> QED
      BY <3>3, HeadExpected
  <2>2. ASSUME pc[r] = "recvHalo2"
        PROVE  Expected(haloBox[s][r], r, "after")
    <3> DEFINE v == Val(at[r], fld[r])
    <3>1. Running(r) /\ CallOf(r).op = "read" /\ ph[r] = 6
      BY <1>1, <2>2 DEF IInv, Control, Collective, InRead, InPhase
    <3>2. TypeOK /\ Stamp(r, "after", v) \in HaloMessage
      BY <3>1, MessageHere DEF IInv
    <3> HIDE DEF v
    <3>3. haloBox[s][r] # <<>> => Head(haloBox[s][r]) = Stamp(r, "after", v)
      BY <1>1, <1>3, <3>1, <3>2, HaloHead
    <3> QED
      BY <3>3, HeadExpected
  <2> QED
    BY <2>1, <2>2
<1> QED
  BY <1>2, <1>3

\* So was what the owner gathers, and what it scatters.
LEMMA RootMatches ==
    ASSUME IInv, NEW r \in Others
    PROVE  /\ pc[Owner] = "gather" => Expected(gatherBox[r], Owner, "root")
           /\ pc[r] = "scatter"    => Expected(scatterBox[r], r, "root")
<1>1. PICK ph \in [Rank -> Phase] : InPhase(ph) /\ GatherChannels(ph) /\ ScatterChannels(ph)
  BY DEF IInv, Channels
<1>2. Owner \in Rank /\ r \in Rank /\ TypeOK
  BY RanksAssumption DEF Others, IInv
<1>3. ASSUME pc[Owner] = "gather"
      PROVE  Expected(gatherBox[r], Owner, "root")
  <2> DEFINE v == Val(at[Owner] - 1, fld[Owner])
  <2>1. Running(Owner) /\ CallOf(Owner).op \in {"read", "write"} /\ ph[Owner] = 2
    BY <1>1, <1>2, <1>3 DEF IInv, Control, Collective, InPhase
  <2>2. Stamp(Owner, "root", v) \in GatherMessage
    BY <1>2, <2>1, MessageHere
  <2> HIDE DEF v
  <2>3. gatherBox[r] # <<>> => Head(gatherBox[r]) = Stamp(Owner, "root", v)
    BY <1>1, <1>2, <2>1, <2>2, GatherHead
  <2> QED
    BY <1>2, <2>3, HeadExpected
<1>4. ASSUME pc[r] = "scatter"
      PROVE  Expected(scatterBox[r], r, "root")
  <2> DEFINE v == Val(at[r], fld[r])
  <2>1. Running(r) /\ CallOf(r).op = "read" /\ ph[r] = 4
    BY <1>1, <1>2, <1>4 DEF IInv, Control, Collective, InRead, InPhase
  <2>2. Stamp(r, "root", v) \in ScatterMessage
    BY <1>2, <2>1, MessageHere
  <2> HIDE DEF v
  <2>3. scatterBox[r] # <<>> => Head(scatterBox[r]) = Stamp(r, "root", v)
    BY <1>1, <1>2, <2>1, <2>2, ScatterHead
  <2> QED
    BY <1>2, <2>3, HeadExpected
<1> QED
  BY <1>3, <1>4

\* No PE takes a message of Atlas for another: haloExchange, gather and scatter each find
\* what the other PEs sent in the same call of Monio, for the same field and step, however
\* far ahead those are by then; and at the end of the program no message is left.
THEOREM MessagesMatch == Spec => []CollectivesMatch
<1>1. IInv => CollectivesMatch
  BY ExchangeMatches, RootMatches, NothingLeft DEF CollectivesMatch
<1> QED
  BY <1>1, Invariance, PTL
----------------------------------------------------------------------------
(* Files that an earlier call has written. *)

\* Where a file of the sequential run comes from: a call that writes it, or the call before.
LEMMA FileOfCall ==
    ASSUME TypeOK, NEW p \in Path, NEW k \in 1..ProgramLength
    PROVE  IF program[k].op = "write" /\ program[k].path = p
           THEN Sequential[k].file[p] # <<>>
           ELSE Sequential[k].file[p] = Sequential[k - 1].file[p]
<1>1. k \in 0..ProgramLength /\ k - 1 \in 0..ProgramLength
  BY BoundTypes
<1>2. Sequential[k - 1].file \in
         [Path -> [Fields -> Version] \cup [Fields \ Skipped -> Version] \cup {<<>>}]
  BY <1>1, SequentialType DEF TypeOK, SequentialState
<1>3. /\ program[k].op \in {"read", "write", "initialise", "compute"}
      /\ program[k].path \in Path
  BY CallTypes DEF TypeOK
<1>4. CASE program[k].op = "write"
  <2>1. Sequential[k].file = [Sequential[k - 1].file EXCEPT ![program[k].path] = Sequential[k].val]
    BY <1>4, SequentialCalls DEF TypeOK
  <2>2. DOMAIN Sequential[k].val = Fields /\ 1 \in Fields
    BY <1>1, ValType, BoundTypes
  <2>3. Sequential[k].val # <<>>
    BY <2>2
  <2> QED
    BY <1>2, <1>3, <1>4, <2>1, <2>3
<1>5. CASE program[k].op # "write"
  BY <1>3, <1>5, SequentialCalls DEF TypeOK
<1> QED
  BY <1>4, <1>5

\* No call takes a file away.
LEMMA FileStays ==
    ASSUME TypeOK, NEW p \in Path, NEW j \in 0..ProgramLength, NEW k \in 0..ProgramLength,
           j <= k, Sequential[j].file[p] # <<>>
    PROVE  Sequential[k].file[p] # <<>>
<1> DEFINE There == {i \in 0..ProgramLength : j <= i => Sequential[i].file[p] # <<>>}
<1>1. ProgramLength \in Nat
  BY BoundTypes
<1>2. 0 \in There
  BY <1>1
<1>3. ASSUME NEW i \in 1..ProgramLength, i - 1 \in There
      PROVE  i \in There
  <2>1. i = j \/ (j <= i => j <= i - 1)
    OBVIOUS
  <2> QED
    BY <1>3, <2>1, FileOfCall
<1> HIDE DEF There
<1>4. k \in There
  BY <1>1, <1>2, <1>3, Induction
<1> QED
  BY <1>4 DEF There

\* A file that was not there has been written since.
LEMMA FileWritten ==
    ASSUME TypeOK, NEW p \in Path, NEW j \in 0..ProgramLength, NEW k \in 0..ProgramLength,
           j <= k, Sequential[j].file[p] = <<>>, Sequential[k].file[p] # <<>>
    PROVE  \E i \in (j + 1)..k : program[i].op = "write" /\ program[i].path = p
<1> DEFINE Unwritten(n) == \A i \in (j + 1)..n : ~ (program[i].op = "write" /\ program[i].path = p)
           Gone == {n \in 0..ProgramLength : j <= n /\ Unwritten(n) => Sequential[n].file[p] = <<>>}
<1>1. ProgramLength \in Nat
  BY BoundTypes
<1>2. 0 \in Gone
  BY <1>1
<1>3. ASSUME NEW n \in 1..ProgramLength, n - 1 \in Gone
      PROVE  n \in Gone
  <2> SUFFICES ASSUME j <= n, Unwritten(n), n # j
               PROVE  Sequential[n].file[p] = <<>>
    OBVIOUS
  <2>1. j <= n - 1 /\ n \in (j + 1)..n /\ (j + 1)..(n - 1) \subseteq (j + 1)..n
    OBVIOUS
  <2>2. Sequential[n - 1].file[p] = <<>>
    BY <1>3, <2>1
  <2>3. ~ (program[n].op = "write" /\ program[n].path = p)
    BY <2>1
  <2> QED
    BY <2>2, <2>3, FileOfCall
<1>4. k \in Gone
  <2> HIDE DEF Gone
  <2> QED BY <1>1, <1>2, <1>3, Induction
<1> QED
  BY <1>4

\* A PE that is past a write has taken part in all of its halo exchanges: so has, but for
\* the last, a neighbour nearer to the owner, and so on to the owner, who sends in an
\* exchange only after it has opened the file.
LEMMA OwnerHasOpened ==
    ASSUME IInv, NearOwner, ~ Aborted, NEW k \in 1..ProgramLength, program[k].op = "write",
           NEW r \in Others, at[r] > k
    PROVE  at[Owner] > k \/ (at[Owner] = k /\ pc[Owner] \in Collective)
<1> DEFINE Opened == at[Owner] > k \/ (at[Owner] = k /\ pc[Owner] \in Collective)
<1>1. PICK hops \in [Rank -> 0..NField] : \A q \in Others : \E s \in Neighbours(q) : hops[s] < hops[q]
  BY DEF NearOwner
<1>2. PICK ph \in [Rank -> Phase] : InPhase(ph) /\ HaloChannels(ph)
  BY DEF IInv, Channels
<1> DEFINE Beyond(q, f) == hops[q] <= f /\ Past(ph, q, k, f, 1)
           Hops == {hops[q] : q \in {o \in Others : \E f \in Fields : Beyond(o, f)}}
<1> SUFFICES ASSUME ~ Opened PROVE FALSE
  OBVIOUS
<1>3. TypeOK /\ Owner \in Rank /\ Others \subseteq Rank /\ NField \in Nat \ {0}
  BY RanksAssumption, BoundTypes DEF IInv, Others
<1>4. Hops \subseteq Nat
  BY <1>1, <1>3
<1>5. hops[r] \in Hops
  <2>1. NField \in Fields /\ hops[r] <= NField /\ Past(ph, r, k, NField, 1)
    BY <1>1, <1>3 DEF Fields, Past
  <2> QED
    BY <2>1
<1>6. PICK n \in Hops : \A h \in Hops : n <= h
  <2> HIDE DEF Hops
  <2> QED BY <1>4, <1>5, LeastNumber
<1>7. PICK q \in Others, f \in Fields : n = hops[q] /\ Beyond(q, f)
  BY <1>6
<1>8. PICK s \in Neighbours(q) : hops[s] < hops[q]
  BY <1>1
<1>9. s \in Rank /\ q \in Rank /\ q \in Neighbours(s)
  BY <1>3, <1>8, NeighboursSymmetric DEF Neighbours
<1>10. Past(ph, s, k, f, 0)
  <2> DEFINE m == [at |-> k, fld |-> f, step |-> "before", val |-> Val(k - 1, f)]
  <2>1. m \in HaloMessage
    <3>1. k - 1 \in 0..ProgramLength
      BY BoundTypes
    <3>2. Val(k - 1, f) \in Version
      BY <1>3, <3>1, ValType
    <3> QED
      BY <3>2 DEF HaloMessage, Message
  <2>2. HaloReceived(ph, q, m)
    BY <1>7 DEF HaloReceived
  <2>3. HaloSent(ph, s, m)
    BY <1>2, <1>9, <2>1, <2>2 DEF HaloChannels
  <2> QED
    BY <2>3 DEF HaloSent
<1>11. s # Owner
  <2> SUFFICES ASSUME s = Owner PROVE FALSE
    OBVIOUS
  <2>1. at[Owner] = k /\ (fld[Owner] > f \/ (fld[Owner] = f /\ ph[Owner] > 0))
    BY <1>10 DEF Past
  <2>2. pc[Owner] \in PC /\ pc[Owner] # "dead"
    BY <1>3, PositionTypes DEF Aborted
  <2>3. pc[Owner] = "ready" => fld[Owner] = 1 /\ ph[Owner] = 0
    BY <1>2, <1>3 DEF IInv, Control, InPhase
  <2>4. pc[Owner] # "ready"
    BY <2>1, <2>3 DEF Fields
  <2> QED
    BY <2>1, <2>2, <2>4 DEF PC, Collective
<1>12. s \in Others /\ hops[s] > 0
  <2>1. s \in Others
    BY <1>9, <1>11 DEF Others
  <2>2. PICK t \in Neighbours(s) : hops[t] < hops[s]
    BY <1>1, <2>1
  <2>3. hops[t] \in Nat /\ hops[s] \in Nat
    BY <1>1, <1>3, <1>9 DEF Neighbours
  <2> QED
    BY <2>1, <2>2, <2>3
<1>13. f - 1 \in Fields /\ Beyond(s, f - 1)
  <2>1. hops[s] \in Nat /\ hops[q] \in Nat /\ hops[q] <= f /\ f \in 1..NField /\ NField \in Nat
    BY <1>1, <1>3, <1>7, <1>9 DEF Fields
  <2>2. hops[s] <= f - 1 /\ f - 1 \in 1..NField
    BY <1>8, <1>12, <2>1
  <2>3. fld[s] \in Nat /\ (fld[s] > f => fld[s] > f - 1) /\ (fld[s] = f => fld[s] > f - 1)
    BY <1>3, <1>9, <2>1, PositionTypes
  <2>4. Past(ph, s, k, f - 1, 1)
    BY <1>10, <2>3 DEF Past
  <2> QED
    BY <2>2, <2>4 DEF Fields
<1>14. hops[s] \in Hops /\ ~ (n <= hops[s])
  <2>1. hops[s] \in Nat /\ hops[q] \in Nat
    BY <1>1, <1>3, <1>9
  <2>2. hops[s] \in Hops
    BY <1>12, <1>13
  <2> HIDE DEF Hops
  <2> QED
    BY <1>7, <1>8, <2>1, <2>2
<1> QED
  BY <1>6, <1>14

\* With FilesExist, the state before a read tells that its file is there.
LEMMA FileIsVisible ==
    ASSUME IInv, FilesExist, NearOwner
    PROVE  WrittenFileVisible
<1> SUFFICES ASSUME NEW r \in Rank, pc[r] = "ready", Running(r), ~ Aborted,
                    CallOf(r).op = "read", Sequential[at[r] - 1].file[CallOf(r).path] # <<>>
             PROVE  disk[CallOf(r).path].exists
  BY DEF WrittenFileVisible
<1> DEFINE p == CallOf(r).path
           a == at[r] - 1
           b == at[Owner] - 1
<1>1. TypeOK /\ Owner \in Rank
  BY RanksAssumption DEF IInv
<1>2. /\ at[r] \in Nat /\ at[Owner] \in Nat /\ a \in 0..ProgramLength /\ p \in Path
      /\ b \in 0..ProgramLength
  <2>1. a \in 0..ProgramLength /\ p \in Path
    BY <1>1, CallFacts
  <2>2. at[r] \in Nat /\ at[Owner] \in Nat \ {0} /\ at[Owner] <= ProgramLength + 1
    BY <1>1, PositionTypes
  <2> QED
    BY <2>1, <2>2, BoundTypes
<1>3. Writing(p) \/ Sequential[b].file[p] # <<>>
  <2>1. CASE a <= b
    BY <1>1, <1>2, <2>1, FileStays
  <2>2. CASE b < a /\ Sequential[b].file[p] = <<>>
    <3>1. PICK i \in (b + 1)..a : program[i].op = "write" /\ program[i].path = p
      <4> HIDE DEF a, b, p
      <4>1. b <= a
        BY <1>2, <2>2
      <4> QED
        BY <1>1, <1>2, <2>2, <4>1, FileWritten DEF a, p
    <3>2. i \in 1..ProgramLength /\ at[r] > i /\ ~ (at[Owner] > i)
      <4>1. i \in Nat /\ b + 1 <= i /\ i <= a
        BY <1>2, <3>1
      <4>2. at[Owner] \in Nat /\ at[r] \in Nat /\ at[Owner] <= i /\ i < at[r]
        BY <1>2, <4>1
      <4> QED
        BY <1>2, <4>1, <4>2, BoundTypes
    <3>3. r \in Others
      BY <1>2, <3>2 DEF Others
    <3>4. at[Owner] = i /\ pc[Owner] \in Collective
      BY <3>1, <3>2, <3>3, OwnerHasOpened
    <3> QED
      BY <3>1, <3>4 DEF Writing, CallOf
  <2> QED
    BY <1>2, <2>1, <2>2
<1>4. CASE Writing(p)
  BY <1>2, <1>4 DEF FilesExist
<1>5. CASE ~ Writing(p)
  <2>1. disk[p].data = FileAfter(b, p)
    <3>1. pc[Owner] # "dead"
      BY <1>1 DEF Aborted
    <3> QED
      BY <1>2, <1>5, <3>1 DEF IInv, Values, DiskValues
  <2> DEFINE file == Sequential[b].file[p]
  <2>2. DOMAIN file # {}
    <3>1. file \in [DOMAIN file -> Version]
      BY <1>1, <1>2, <1>3, <1>5, ValType
    <3>2. file # <<>>
      BY <1>3, <1>5
    <3> HIDE DEF file
    <3>3. CASE DOMAIN file = {}
      <4>1. file = [x \in {} |-> file[x]]
        BY <3>1, <3>3
      <4> QED
        BY <3>2, <4>1
    <3> QED
      BY <3>3
  <2>3. FileAfter(b, p) # <<>>
    <3>1. DOMAIN FileAfter(b, p) = DOMAIN file
      BY DEF FileAfter
    <3> HIDE DEF file
    <3> QED
      BY <2>2, <3>1
  <2> QED
    BY <1>2, <2>1, <2>3 DEF FilesExist
<1> QED
  BY <1>4, <1>5

\* A file that an earlier call of writeState, writeIncrements or writeFieldSet wrote is
\* there when a PE is about to read it (utils::fileExists), although the owner may be
\* calls behind: in every program, where no PE is more neighbours away from the owner
\* than a write has fields.  The halo exchanges of the write see to it; a PE further away
\* may not find the file.
THEOREM FilesAreVisible ==
    ASSUME NearOwner
    PROVE  Spec => []WrittenFileVisible
<1>1. IInv /\ OwnerFiles => WrittenFileVisible
  BY FileIsVisible DEF OwnerFiles
<1> QED
  BY <1>1, Invariance, PTL
----------------------------------------------------------------------------
(* Waiting. *)

\* Of PEs that have not finished, one is not ahead of any PE: the others are in a later
\* call, or in a later field of its call, or no earlier in its field.
LEMMA LastPE ==
    ASSUME TypeOK, NEW ph \in [Rank -> Phase], NEW r0 \in Rank, Running(r0)
    PROVE  \E r \in Rank :
              /\ Running(r)
              /\ \A s \in Rank : \/ at[s] > at[r]
                                 \/ at[s] = at[r] /\ fld[s] > fld[r]
                                 \/ at[s] = at[r] /\ fld[s] = fld[r] /\ ph[s] >= ph[r]
<1> DEFINE Ats == {at[s] : s \in Rank}
<1>1. \A s \in Rank : at[s] \in Nat /\ fld[s] \in Nat /\ ph[s] \in Nat
  BY PositionTypes DEF Phase
<1>2. PICK a \in Ats : \A b \in Ats : a <= b
  <2>1. Ats \subseteq Nat /\ Ats # {}
    BY <1>1
  <2> HIDE DEF Ats
  <2> QED BY <2>1, LeastNumber
<1> DEFINE Flds == {fld[s] : s \in {q \in Rank : at[q] = a}}
<1>3. PICK f \in Flds : \A g \in Flds : f <= g
  <2>1. Flds \subseteq Nat /\ Flds # {}
    BY <1>1, <1>2
  <2> HIDE DEF Flds
  <2> QED BY <2>1, LeastNumber
<1> DEFINE Phs == {ph[s] : s \in {q \in Rank : at[q] = a /\ fld[q] = f}}
<1>4. PICK k \in Phs : \A j \in Phs : k <= j
  <2>1. Phs \subseteq Nat /\ Phs # {}
    BY <1>1, <1>3
  <2> HIDE DEF Phs
  <2> QED BY <2>1, LeastNumber
<1>5. PICK r \in Rank : at[r] = a /\ fld[r] = f /\ ph[r] = k
  BY <1>4
<1>6. \A s \in Rank : /\ a <= at[s]
                      /\ at[s] = a => f <= fld[s]
                      /\ at[s] = a /\ fld[s] = f => k <= ph[s]
  BY <1>2, <1>3, <1>4
<1>7. a <= at[r0]
  BY <1>6
<1>8. Running(r)
  <2>1. a \in Nat /\ at[r0] \in Nat /\ ProgramLength \in Nat /\ at[r0] <= ProgramLength
    BY <1>1, <1>5, BoundTypes DEF Running
  <2> QED
    BY <1>5, <1>7, <2>1 DEF Running
<1>9. ASSUME NEW s \in Rank
      PROVE  \/ at[s] > at[r]
             \/ at[s] = at[r] /\ fld[s] > fld[r]
             \/ at[s] = at[r] /\ fld[s] = fld[r] /\ ph[s] >= ph[r]
  <2>1. /\ at[s] \in Nat /\ fld[s] \in Nat /\ ph[s] \in Nat
        /\ a \in Nat /\ f \in Nat /\ k \in Nat
    BY <1>1, <1>5
  <2>2. a <= at[s] /\ (at[s] = a => f <= fld[s]) /\ (at[s] = a /\ fld[s] = f => k <= ph[s])
    BY <1>6
  <2> HIDE DEF Ats, Flds, Phs
  <2> QED
    BY <1>5, <2>1, <2>2
<1> QED
  BY <1>8, <1>9

LEMMA CarriesSomething ==
    ASSUME NEW box, NEW messages, Carries(box, messages), messages # {}
    PROVE  box # <<>>
<1>1. PICK m \in messages : \E i \in 1..Len(box) : box[i] = m
  BY DEF Carries
<1> QED
  BY <1>1

\* Whatever a PE waits for is sent by one that is not ahead of it, or has been sent.
LEMMA SomePEGoesOn ==
    ASSUME IInv
    PROVE  NotAllWaiting
<1> SUFFICES ASSUME NEW r0 \in Rank, Running(r0), ~ Aborted,
                    \A r \in Rank : Running(r) => Waiting(r)
             PROVE  FALSE
  BY DEF NotAllWaiting
<1>0. TypeOK /\ Control /\ Owner \in Rank /\ Others = Rank \ {Owner}
  BY RanksAssumption DEF IInv, Others
<1>1. PICK ph \in [Rank -> Phase] :
        InPhase(ph) /\ HaloChannels(ph) /\ GatherChannels(ph) /\ ScatterChannels(ph)
  BY DEF IInv, Channels
<1>2. PICK r \in Rank : /\ Running(r)
                        /\ \A s \in Rank : \/ at[s] > at[r]
                                           \/ at[s] = at[r] /\ fld[s] > fld[r]
                                           \/ at[s] = at[r] /\ fld[s] = fld[r] /\ ph[s] >= ph[r]
  BY <1>0, LastPE
<1> DEFINE a == at[r]
           f == fld[r]
           Here(s) == at[s] = a /\ fld[s] = f /\ ph[s] = ph[r]
<1>3. Waiting(r) /\ a \in 1..ProgramLength /\ f \in Fields
  BY <1>0, <1>2, CallFacts
<1>4. ASSUME NEW s \in Rank, NEW k \in Phase, ph[r] > k \/ (ph[r] = k /\ ~ Here(s))
      PROVE  Past(ph, s, a, f, k)
  <2>1. /\ ph[s] \in Nat /\ ph[r] \in Nat /\ k \in Nat
        /\ at[s] \in Nat /\ a \in Nat /\ fld[s] \in Nat /\ f \in Nat
    BY <1>0, PositionTypes DEF Phase
  <2> QED
    BY <1>2, <1>4, <2>1 DEF Past
<1>5. \A k \in Phase : k >= ph[r] => ~ Past(ph, r, a, f, k)
  <2>1. ph[r] \in Nat /\ a \in Nat /\ f \in Nat
    BY <1>0, PositionTypes DEF Phase
  <2> QED
    BY <2>1 DEF Past, Phase
<1>6. ASSUME NEW s \in Rank, Here(s)
      PROVE  Running(s) /\ Waiting(s) /\ CallOf(s) = CallOf(r)
  <2>1. Running(s) /\ CallOf(s) = CallOf(r)
    BY <1>2, <1>6 DEF Running, CallOf
  <2> QED
    BY <2>1
<1>7. \A s \in Rank : pc[s] \in PC /\ pc[s] # "dead"
  BY <1>0 DEF TypeOK, Aborted
<1>8. pc[r] \in Collective => CallOf(r).op \in {"read", "write"}
  BY <1>0 DEF Control
<1> HIDE DEF a, f, Here
<1>9. CASE pc[r] \in {"recvHalo", "recvHalo2"}
  <2> DEFINE step == IF pc[r] = "recvHalo" THEN "before" ELSE "after"
             m == Stamp(r, step, IF pc[r] = "recvHalo" THEN Val(at[r] - 1, fld[r])
                                 ELSE Val(at[r], fld[r]))
  <2>1. m \in HaloMessage /\ m.at = a /\ m.fld = f /\ m.step = step
    <3>1. CallOf(r).op \in {"read", "write"} /\ (pc[r] = "recvHalo2" => CallOf(r).op = "read")
      BY <1>0, <1>8, <1>9 DEF Control, Collective, InRead
    <3> QED
      BY <1>0, <1>2, <1>9, <3>1, MessageHere DEF Stamp, a, f
  <2> HIDE DEF m
  <2>2. ~ HaloReceived(ph, r, m)
    <3>1. ph[r] = IF step = "before" THEN 1 ELSE 6
      BY <1>1, <1>9 DEF InPhase
    <3> QED
      BY <1>5, <2>1, <3>1 DEF HaloReceived, Phase
  <2>3. PICK s \in Neighbours(r) : haloBox[s][r] = <<>>
    <3>1. ~ HaloArrived(r)
      BY <1>3, <1>9 DEF Waiting
    <3> QED
      BY <3>1 DEF HaloArrived
  <2>4. s \in Rank /\ r \in Neighbours(s)
    BY <2>3, NeighboursSymmetric DEF Neighbours
  <2>5. HaloSent(ph, s, m)
    <3>1. ph[r] = IF step = "before" THEN 1 ELSE 6
      BY <1>1, <1>9 DEF InPhase
    <3> QED
      BY <1>4, <2>1, <2>4, <3>1 DEF HaloSent, Phase
  <2>6. m \in HaloUnderWay(ph, s, r) /\ Carries(haloBox[s][r], HaloUnderWay(ph, s, r))
    BY <1>1, <2>1, <2>2, <2>4, <2>5 DEF HaloUnderWay, HaloChannels
  <2> QED
    BY <2>3, <2>6, CarriesSomething
<1>10. CASE pc[r] = "gather"
  <2> DEFINE m == Stamp(Owner, "root", Val(at[Owner] - 1, fld[Owner]))
  <2>1. r = Owner /\ \E s \in Others : gatherBox[s] = <<>>
    BY <1>3, <1>10 DEF Waiting
  <2>2. m \in GatherMessage /\ m.at = a /\ m.fld = f
    <3>1. CallOf(r).op \in {"read", "write"}
      BY <1>8, <1>10 DEF Collective
    <3> QED
      BY <1>0, <1>2, <2>1, <3>1, MessageHere DEF Stamp, a, f
  <2> HIDE DEF m
  <2>3. PICK s \in Others : gatherBox[s] = <<>>
    BY <2>1
  <2>4. ph[r] = 2 /\ s \in Rank /\ s # Owner /\ 2 \in Phase
    BY <1>0, <1>1, <1>10, <2>3 DEF InPhase, Phase
  <2>5. ~ Here(s)
    <3> SUFFICES ASSUME Here(s) PROVE FALSE
      OBVIOUS
    <3>1. ph[s] = 2 /\ Waiting(s)
      BY <1>6, <2>4 DEF Here
    <3>2. pc[s] = "gather"
      BY <1>1, <1>7, <2>4, <3>1 DEF InPhase, PC
    <3> QED
      BY <2>4, <3>1, <3>2 DEF Waiting
  <2>6. GatherPast(ph, s, m) /\ ~ GatherPast(ph, Owner, m)
    BY <1>4, <1>5, <2>1, <2>2, <2>4, <2>5 DEF GatherPast
  <2>7. m \in GatherUnderWay(ph, s) /\ Carries(gatherBox[s], GatherUnderWay(ph, s))
    BY <1>1, <2>2, <2>3, <2>6 DEF GatherUnderWay, GatherChannels
  <2> QED
    BY <2>3, <2>7, CarriesSomething
<1>11. CASE pc[r] = "scatter"
  <2> DEFINE m == Stamp(r, "root", Val(at[r], fld[r]))
  <2>1. r \in Others /\ scatterBox[r] = <<>> /\ r # Owner
    BY <1>0, <1>3, <1>11 DEF Waiting
  <2>2. m \in ScatterMessage /\ m.at = a /\ m.fld = f
    <3>1. CallOf(r).op = "read"
      BY <1>0, <1>11 DEF Control, InRead
    <3> QED
      BY <1>0, <1>2, <3>1, MessageHere DEF Stamp, a, f
  <2> HIDE DEF m
  <2>3. ph[r] = 4 /\ 4 \in Phase
    BY <1>1, <1>11 DEF InPhase, Phase
  <2>4. ~ Here(Owner)
    <3> SUFFICES ASSUME Here(Owner) PROVE FALSE
      OBVIOUS
    <3>1. ph[Owner] = 4 /\ Waiting(Owner)
      BY <1>0, <1>6, <2>3 DEF Here
    <3>2. pc[Owner] = "scatter"
      BY <1>0, <1>1, <1>7, <3>1 DEF InPhase, PC
    <3> QED
      BY <3>1, <3>2 DEF Waiting
  <2>5. ScatterPast(ph, Owner, m) /\ ~ ScatterPast(ph, r, m)
    BY <1>0, <1>4, <1>5, <2>2, <2>3, <2>4 DEF ScatterPast
  <2>6. m \in ScatterUnderWay(ph, r) /\ Carries(scatterBox[r], ScatterUnderWay(ph, r))
    BY <1>1, <2>1, <2>2, <2>5 DEF ScatterUnderWay, ScatterChannels
  <2> QED
    BY <2>1, <2>6, CarriesSomething
<1> QED
  BY <1>3, <1>9, <1>10, <1>11 DEF Waiting

\* The PEs never wait for one another for ever in haloExchange, gather and scatter: while no
\* PE has called MPI abort, one of those that have not finished has what it waits for or
\* waits for nothing.  So it is for any number of PEs and any neighbours, in every program
\* of reads, writes and computations, with skipped fields and with files that fail.
THEOREM NoDeadlock == Spec => []NotAllWaiting
<1>1. IInv => NotAllWaiting
  BY SomePEGoesOn
<1> QED
  BY <1>1, Invariance, PTL
=============================================================================
