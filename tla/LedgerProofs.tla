---------------------------- MODULE LedgerProofs ----------------------------
(***************************************************************************)
(* The ledger is whole and counts nothing twice, for any number of         *)
(* attempts, machines, repairs and tries, and batches of any size.  Of the *)
(* cost snapshots of JobCosts, in the parts at the end: a price once final *)
(* is never changed again, whatever usage and rates come later; the time   *)
(* billed is the time something was going on; and the price is the least   *)
(* that earns what it has to.                                              *)
(*                                                                         *)
(* A request is found again by its run and by the place of its batch, so   *)
(* what it carries must not move while it is under way.  The invariant     *)
(* says when a run is still measuring (it has nothing in the API then),    *)
(* what a delivery has seen of the table, and that the batches of a run    *)
(* have no place in common.  A run that repairs no build makes no key      *)
(* twice, and of such a run the API refuses nothing it does not have.      *)
(***************************************************************************)
EXTENDS Metering, JobCosts, DataLemmas, SequenceTheorems, TLAPS

Kind == {"transfer:input", "ai:drawing_analysis", "cad:session", "cad:operation:document_build",
         "ai:build_repair", "transfer:artifact"} \X Nat
Measurement == [key : (1..Attempts) \X Kind, id : Nat \X Nat]

Stages == {"off", "read", "build", "upload", "ship", "over", "thrown"}
Run == [worker : Workers, stage : Stages, events : Seq(Measurement), repairs : Nat,
        batch : Nat \ {0}, try : Nat, booked : BOOLEAN]

Answers == {"accepted", "rejected", "broken"}

JobRow == [status |-> job.status, attempt |-> job.attempt, owner |-> job.owner]

Types ==
  /\ job = JobRow
  /\ job.attempt \in Int
  /\ runs \in [1..Attempts -> Run]
  /\ requests = [r \in DOMAIN requests |->
                   [phase |-> requests[r].phase, seen |-> requests[r].seen,
                    answer |-> requests[r].answer]]
  /\ DOMAIN requests \subseteq (1..Attempts) \X (Nat \ {0}) \X Nat
  /\ \A r \in DOMAIN requests : requests[r].phase = "over" => requests[r].answer \in Answers

\* A measurement is what stands at its place in the run that made it.
IdsArePlaces ==
  \A a \in 1..Attempts : \A i \in DOMAIN runs[a].events : runs[a].events[i].id = <<a, i>>

OffIsUntouched ==
  \A a \in 1..Attempts :
     /\ a > job.attempt => runs[a].stage = "off"
     /\ runs[a].stage = "off" => runs[a].events = <<>>

\* A run that may still measure has sent nothing.
Before == {"off", "read", "build", "upload"}

NothingSentBefore ==
  \A a \in 1..Attempts : runs[a].stage \in Before =>
     /\ runs[a].batch = 1
     /\ \A r \in DOMAIN requests : r[1] # a
     /\ \A e \in rows : e.id[1] # a

RowsAreMeasured ==
  \A e \in rows :
     \/ e = Normalized
     \/ \E a \in 1..Attempts : \E i \in DOMAIN runs[a].events : e = Row(runs[a].events[i], e.by)

KeysAreUnique == \A e, f \in rows : e.key = f.key => e = f

\* What a delivery has been let in with, and what it has seen.
HeldAreUnique ==
  \A r \in DOMAIN requests : requests[r].phase \in {"held", "read"} => Unique(Events(r))

SeenAreRows ==
  \A r \in DOMAIN requests : requests[r].phase = "read" =>
     \A s \in requests[r].seen : \E e \in rows : s = [key |-> e.key, id |-> e.id]

AcceptedAreBooked ==
  \A r \in DOMAIN requests : requests[r].answer = "accepted" => Booked(Events(r))

Ledger == RowsAreMeasured /\ KeysAreUnique
Deliveries == HeldAreUnique /\ SeenAreRows /\ AcceptedAreBooked

IInv ==
  /\ Types /\ IdsArePlaces /\ OffIsUntouched /\ NothingSentBefore
  /\ Ledger /\ Deliveries /\ BatchesAreWhole

-----------------------------------------------------------------------------
(* Batches.                                                                *)

LEMMA LimitsAreNumbers ==
  Attempts \in Nat /\ BatchSize \in Nat /\ BatchSize > 0 /\ Tries \in Nat /\ Repairs \in Nat
BY MeteringAssumption

LEMMA Multiples ==
  ASSUME NEW b \in Nat, NEW c \in Nat, NEW n \in Nat, b < c
  PROVE  b * n <= (c - 1) * n
<1> DEFINE d == c - 1 - b
<1>1. d \in Nat /\ c - 1 = b + d
  OBVIOUS
<1>2. (b + d) * n = b * n + d * n /\ d * n \in Nat /\ b * n \in Nat
  BY <1>1
<1> QED BY <1>1, <1>2

\* The places in its run of the measurements of a batch.
Span(a, b) ==
  {i \in DOMAIN runs[a].events : (b - 1) * BatchSize < i /\ i <= b * BatchSize}

LEMMA RunsAreTyped ==
  ASSUME Types, NEW a \in 1..Attempts
  PROVE  /\ runs[a] \in Run
         /\ runs[a].events \in Seq(Measurement)
         /\ DOMAIN runs[a].events = 1..Len(runs[a].events)
         /\ Len(runs[a].events) \in Nat
         /\ runs[a].batch \in Nat \ {0}
         /\ runs[a].stage \in Stages
<1>1. runs[a] \in Run
  BY DEF Types
<1> QED BY <1>1 DEF Run

\* What SubSeq takes, by the places it takes it from.
LEMMA Slices ==
  ASSUME NEW S, NEW list \in Seq(S), NEW m \in Nat, NEW n \in Nat, n <= Len(list)
  PROVE  LET part == SubSeq(list, m + 1, n)
         IN  /\ DOMAIN part \subseteq Nat \ {0}
             /\ \A i \in DOMAIN part :
                  /\ m + i \in DOMAIN list /\ m + i <= n
                  /\ part[i] = list[m + i]
             /\ \A j \in DOMAIN list : m < j /\ j <= n => j - m \in DOMAIN part
<1> DEFINE part == SubSeq(list, m + 1, n)
<1>1. \A i \in (m + 1)..n : list[i] \in S
  <2> TAKE i \in (m + 1)..n
  <2>1. i \in 1..Len(list)
    OBVIOUS
  <2> QED BY <2>1
<1>2. /\ part \in Seq(S)
      /\ Len(part) = IF m + 1 <= n THEN n - (m + 1) + 1 ELSE 0
      /\ \A i \in 1..(n - (m + 1) + 1) : part[i] = list[m + 1 + i - 1]
  <2>1. m + 1 \in Int /\ n \in Int
    OBVIOUS
  <2> QED BY ONLY <1>1, <2>1, SubSeqProperties
<1> HIDE DEF part
<1>3. DOMAIN part = 1..Len(part) /\ Len(part) \in Nat /\ DOMAIN list = 1..Len(list)
  BY <1>2
<1>4. Len(part) = IF m < n THEN n - m ELSE 0
  BY <1>2
<1>5. ASSUME NEW i \in DOMAIN part
      PROVE  /\ i \in Nat \ {0} /\ m + i \in DOMAIN list /\ m + i <= n
             /\ part[i] = list[m + i]
  <2>1. i \in Nat /\ 0 < i /\ i <= n - m
    BY <1>3, <1>4
  <2>2. m + 1 + i - 1 = m + i /\ i \in 1..(n - (m + 1) + 1)
    BY <2>1
  <2>3. part[i] = list[m + i]
    BY ONLY <1>2, <2>2
  <2> QED BY <1>3, <2>1, <2>3
<1>6. ASSUME NEW j \in DOMAIN list, m < j, j <= n
      PROVE  j - m \in DOMAIN part
  BY <1>3, <1>4, <1>6
<1> QED BY <1>5, <1>6 DEF part

LEMMA BatchIsASpan ==
  ASSUME Types, NEW a \in 1..Attempts, NEW b \in Nat \ {0}
  PROVE  ToSet(Batch(a, b)) = {runs[a].events[i] : i \in Span(a, b)}
<1> DEFINE m == (b - 1) * BatchSize
           top == b * BatchSize
           n == Least(top, Len(runs[a].events))
<1>1. m \in Nat /\ top \in Nat
  BY LimitsAreNumbers
<1>2. n \in Nat /\ \A k \in Int : k <= n <=> k <= top /\ k <= Len(runs[a].events)
  BY <1>1, RunsAreTyped DEF Least
<1>3. \A i \in DOMAIN runs[a].events : i \in Int /\ i <= Len(runs[a].events)
  BY RunsAreTyped
<1>4. Span(a, b) = {j \in DOMAIN runs[a].events : m < j /\ j <= top}
  BY DEF Span
<1>5. Batch(a, b) = SubSeq(runs[a].events, m + 1, n)
  BY DEF Batch
<1> HIDE DEF m, top, n
<1>6. n <= Len(runs[a].events)
  BY <1>2
<1>7. /\ DOMAIN Batch(a, b) \subseteq Nat \ {0}
      /\ \A i \in DOMAIN Batch(a, b) :
           /\ m + i \in DOMAIN runs[a].events /\ m + i <= n
           /\ Batch(a, b)[i] = runs[a].events[m + i]
      /\ \A j \in DOMAIN runs[a].events : m < j /\ j <= n => j - m \in DOMAIN Batch(a, b)
  <2> DEFINE list == runs[a].events
  <2>1. list \in Seq(Measurement) /\ m \in Nat /\ n \in Nat /\ n <= Len(list)
    BY <1>1, <1>2, <1>6, RunsAreTyped
  <2>2. Batch(a, b) = SubSeq(list, m + 1, n)
    BY <1>5
  <2> HIDE DEF list
  <2> DEFINE part == SubSeq(list, m + 1, n)
  <2>3. /\ DOMAIN part \subseteq Nat \ {0}
        /\ \A i \in DOMAIN part :
             /\ m + i \in DOMAIN list /\ m + i <= n
             /\ part[i] = list[m + i]
        /\ \A j \in DOMAIN list : m < j /\ j <= n => j - m \in DOMAIN part
    BY ONLY <2>1, Slices
  <2> HIDE DEF part
  <2>4. Batch(a, b) = part
    BY <2>2 DEF part
  <2> QED BY <2>3, <2>4 DEF list
<1>8. ASSUME NEW i \in DOMAIN Batch(a, b)
      PROVE  m + i \in Span(a, b)
  BY <1>1, <1>2, <1>3, <1>4, <1>7
<1>9. ASSUME NEW j \in Span(a, b)
      PROVE  j - m \in DOMAIN Batch(a, b) /\ m + (j - m) = j
  BY <1>1, <1>2, <1>3, <1>4, <1>7
<1> QED BY <1>7, <1>8, <1>9 DEF ToSet

\* The ids of a batch are the places of its span, and two batches share none.
LEMMA IdsOfABatch ==
  ASSUME Types, IdsArePlaces, NEW a \in 1..Attempts, NEW b \in Nat \ {0}
  PROVE  Ids(ToSet(Batch(a, b))) = {<<a, i>> : i \in Span(a, b)}
<1>1. \A i \in Span(a, b) : runs[a].events[i].id = <<a, i>>
  BY DEF IdsArePlaces, Span
<1> DEFINE places == Span(a, b)
           at(i) == runs[a].events[i]
<1> HIDE DEF places
<1>2. Ids({at(i) : i \in places}) = {at(i).id : i \in places}
  BY DEF Ids
<1> QED BY <1>1, <1>2, BatchIsASpan DEF places

LEMMA SpansAreDisjoint ==
  ASSUME Types, NEW a \in 1..Attempts, NEW b \in Nat \ {0}, NEW c \in Nat \ {0},
         NEW i \in Span(a, b), i \in Span(a, c)
  PROVE  b = c
<1>1. /\ (b - 1) * BatchSize < i /\ i <= b * BatchSize
      /\ (c - 1) * BatchSize < i /\ i <= c * BatchSize
  BY DEF Span
<1>2. i \in Int
  BY RunsAreTyped DEF Span
<1>3. b * BatchSize \in Int /\ (b - 1) * BatchSize \in Int
      /\ c * BatchSize \in Int /\ (c - 1) * BatchSize \in Int
  BY LimitsAreNumbers
<1>4. CASE b < c
  BY <1>1, <1>2, <1>3, <1>4, Multiples, LimitsAreNumbers
<1>5. CASE c < b
  BY <1>1, <1>2, <1>3, <1>5, Multiples, LimitsAreNumbers
<1> QED BY <1>4, <1>5

\* Whatever the run, what a batch takes from it was measured in it.
LEMMA PartsAreOfTheirRun ==
  ASSUME NEW a, NEW list \in Seq(Measurement), NEW b \in Nat \ {0},
         \A i \in DOMAIN list : list[i].id = <<a, i>>
  PROVE  \A e \in ToSet(SubSeq(list, (b - 1) * BatchSize + 1,
                                Least(b * BatchSize, Len(list)))) : e.id[1] = a
<1> DEFINE m == (b - 1) * BatchSize
           n == Least(b * BatchSize, Len(list))
<1>1. m \in Nat /\ b * BatchSize \in Nat
  BY LimitsAreNumbers
<1>2. n \in Nat /\ n <= Len(list)
  BY <1>1 DEF Least
<1> HIDE DEF m, n
<1>3. \A i \in DOMAIN SubSeq(list, m + 1, n) :
         m + i \in DOMAIN list /\ SubSeq(list, m + 1, n)[i] = list[m + i]
  BY <1>1, <1>2, Slices
<1>4. ASSUME NEW i \in DOMAIN SubSeq(list, m + 1, n)
      PROVE  SubSeq(list, m + 1, n)[i].id[1] = a
  <2>1. list[m + i].id = <<a, m + i>>
    BY <1>3
  <2>2. <<a, m + i>>[1] = a
    OBVIOUS
  <2> QED BY <1>3, <2>1, <2>2
<1>5. \A e \in ToSet(SubSeq(list, m + 1, n)) : e.id[1] = a
  BY <1>4 DEF ToSet
<1> QED BY <1>5 DEF m, n

LEMMA BatchesAreNumbers ==
  ASSUME Types, NEW a \in 1..Attempts
  PROVE  Batches(a) \in Int /\ \A b \in 1..Batches(a) : b \in Nat \ {0}
<1>1. Batches(a) \in Int
  BY RunsAreTyped, LimitsAreNumbers DEF Batches
<1> QED BY <1>1

\* A run that has measured nothing has nothing to ship.
LEMMA NothingToShip ==
  ASSUME Types, NEW a \in 1..Attempts, runs[a].events = <<>>
  PROVE  1..Batches(a) = {}
<1>1. Batches(a) = (BatchSize - 1) \div BatchSize
  BY LimitsAreNumbers DEF Batches
<1>2. (BatchSize - 1) \div BatchSize = 0
  BY LimitsAreNumbers
<1> QED BY <1>1, <1>2

-----------------------------------------------------------------------------
(* What stands while a run's measurements stand.                           *)

EventsStand == \A a \in 1..Attempts : runs'[a].events = runs[a].events

LEMMA BatchesStand ==
  ASSUME EventsStand
  PROVE  \A a \in 1..Attempts :
            Batches(a)' = Batches(a) /\ \A b : Batch(a, b)' = Batch(a, b)
BY DEF EventsStand, Batches, Batch, Least

LEMMA BookedStays ==
  ASSUME rows \subseteq rows', NEW batch
  PROVE  Booked(batch) => (Ids(ToSet(batch)) \subseteq Ids(rows'))
BY DEF Booked, Ids

LEMMA LedgerStands ==
  ASSUME Ledger, EventsStand, UNCHANGED rows
  PROVE  Ledger'
BY DEF Ledger, RowsAreMeasured, KeysAreUnique, EventsStand

LEMMA PlacesStand ==
  ASSUME IdsArePlaces, EventsStand
  PROVE  IdsArePlaces'
BY DEF IdsArePlaces, EventsStand

\* Deliveries that are over, or gone, or as they were.
LEMMA DeliveriesStand ==
  ASSUME Types, Deliveries, EventsStand, rows \subseteq rows',
         DOMAIN requests' \subseteq DOMAIN requests,
         \A r \in DOMAIN requests' :
            /\ requests'[r].phase \in {requests[r].phase, "over"}
            /\ requests'[r].seen = requests[r].seen
            /\ requests'[r].answer = "accepted" /\ requests[r].answer # "accepted" =>
                  Booked(Events(r))'
  PROVE  Deliveries'
<1>1. \A r \in DOMAIN requests' : r[1] \in 1..Attempts
  BY DEF Types
<1>2. \A r \in DOMAIN requests' : Events(r)' = Events(r)
  BY <1>1, BatchesStand DEF Events
<1>3. HeldAreUnique'
  <2> SUFFICES ASSUME NEW r \in DOMAIN requests', requests'[r].phase \in {"held", "read"}
               PROVE  Unique(Events(r))'
    BY DEF HeldAreUnique
  <2>1. Unique(Events(r))
    BY DEF Deliveries, HeldAreUnique
  <2> QED BY <1>2, <2>1 DEF Unique
<1>4. SeenAreRows'
  BY DEF Deliveries, SeenAreRows
<1>5. AcceptedAreBooked'
  <2> SUFFICES ASSUME NEW r \in DOMAIN requests', requests'[r].answer = "accepted",
                      requests[r].answer = "accepted"
               PROVE  Booked(Events(r))'
    BY DEF AcceptedAreBooked
  <2>1. Booked(Events(r))
    BY DEF Deliveries, AcceptedAreBooked
  <2> QED BY <1>2, <2>1, BookedStays DEF Booked
<1> QED BY <1>3, <1>4, <1>5 DEF Deliveries

BookedSoFar(a) == \A b \in 1..(runs[a].batch - 1) : Booked(Batch(a, b))

\* A run that has measured everything moves on with its shipping.
LEMMA ShippingKeeps ==
  ASSUME IInv, NEW a \in 1..Attempts, NEW run \in Run,
         runs' = [runs EXCEPT ![a] = run],
         run.events = runs[a].events,
         runs[a].stage \notin Before, run.stage \notin Before,
         job' = JobRow', job'.attempt = job.attempt, rows' = rows,
         requests' = Restrict(requests, DOMAIN requests'),
         DOMAIN requests' \subseteq DOMAIN requests,
         run.stage = "ship" /\ run.booked =>
           \A b \in 1..(run.batch - 1) : Booked(Batch(a, b))
  PROVE  IInv'
<1>1. \A c \in 1..Attempts : runs'[c] = IF c = a THEN run ELSE runs[c]
  BY DEF IInv, Types
<1>2. EventsStand
  BY <1>1 DEF EventsStand
<1>3. \A r \in DOMAIN requests' : requests'[r] = requests[r]
  BY DEF Restrict
<1>4. Types'
  <2>1. runs' \in [1..Attempts -> Run] /\ job'.attempt \in Int
    BY DEF IInv, Types
  <2>2. \A r \in DOMAIN requests' :
           requests'[r].phase = "over" => requests'[r].answer \in Answers
    BY <1>3 DEF IInv, Types
  <2>3. requests' = [r \in DOMAIN requests' |->
                       [phase |-> requests'[r].phase, seen |-> requests'[r].seen,
                        answer |-> requests'[r].answer]]
    <3>1. \A r \in DOMAIN requests' :
            requests'[r] = [phase |-> requests'[r].phase, seen |-> requests'[r].seen,
                            answer |-> requests'[r].answer]
      BY <1>3 DEF IInv, Types
    <3> QED BY <3>1 DEF Restrict
  <2> QED BY <2>1, <2>2, <2>3 DEF IInv, Types
<1>5. IdsArePlaces' /\ Ledger'
  BY <1>2, PlacesStand, LedgerStands DEF IInv
<1>6. OffIsUntouched'
  BY <1>1 DEF IInv, OffIsUntouched, Before
<1>7. NothingSentBefore'
  BY <1>1 DEF IInv, NothingSentBefore
<1>8. Deliveries'
  BY <1>2, <1>3, DeliveriesStand DEF IInv
<1>9. BatchesAreWhole'
  <2> SUFFICES ASSUME NEW c \in 1..Attempts
               PROVE  /\ runs'[c].stage \notin {"read", "build", "upload"} =>
                            \A b \in 1..Batches(c)' : Booked(Batch(c, b))' \/ Absent(Batch(c, b))'
                      /\ runs'[c].stage = "ship" /\ runs'[c].booked =>
                            \A b \in 1..(runs'[c].batch - 1) : Booked(Batch(c, b))'
    BY DEF BatchesAreWhole
  <2>1. /\ Batches(c)' = Batches(c)
        /\ \A b : Booked(Batch(c, b))' = Booked(Batch(c, b))
                  /\ Absent(Batch(c, b))' = Absent(Batch(c, b))
    BY <1>2, BatchesStand DEF Booked, Absent
  <2>2. CASE c = a
    BY <1>1, <2>1, <2>2 DEF IInv, BatchesAreWhole, Before
  <2>3. CASE c # a
    BY <1>1, <2>1, <2>3 DEF IInv, BatchesAreWhole
  <2> QED BY <2>2, <2>3
<1> QED BY <1>4, <1>5, <1>6, <1>7, <1>8, <1>9 DEF IInv

\* A run measures: what it has measured so far is nowhere in the API.
LEMMA MeasuringKeeps ==
  ASSUME IInv, NEW a \in 1..Attempts, NEW run \in Run,
         runs' = [runs EXCEPT ![a] = run],
         \A i \in DOMAIN run.events : run.events[i].id = <<a, i>>,
         runs[a].stage \in Before, run.batch = 1,
         run.stage \in {"read", "build", "upload", "ship", "over"},
         job' = JobRow', job'.attempt \in Int,
         \A c \in 1..Attempts : c > job'.attempt => c > job.attempt /\ c # a,
         UNCHANGED <<requests, rows>>
  PROVE  IInv'
<1>1. \A c \in 1..Attempts : runs'[c] = IF c = a THEN run ELSE runs[c]
  BY DEF IInv, Types
<1>2. Types'
  BY DEF IInv, Types
<1>3. IdsArePlaces'
  BY <1>1 DEF IInv, IdsArePlaces
<1>4. OffIsUntouched'
  BY <1>1 DEF IInv, OffIsUntouched
<1>5. (\A r \in DOMAIN requests : r[1] # a) /\ (\A e \in rows : e.id[1] # a)
  BY DEF IInv, NothingSentBefore
<1>6. NothingSentBefore'
  BY <1>1, <1>5 DEF IInv, NothingSentBefore
<1>7. Ledger'
  <2>1. KeysAreUnique'
    BY DEF IInv, Ledger, KeysAreUnique
  <2>2. ASSUME NEW e \in rows, e # Normalized
        PROVE  \E c \in 1..Attempts : \E i \in DOMAIN runs'[c].events :
                  e = Row(runs'[c].events[i], e.by)
    <3>1. PICK c \in 1..Attempts : \E i \in DOMAIN runs[c].events :
                  e = Row(runs[c].events[i], e.by)
      BY <2>2 DEF IInv, Ledger, RowsAreMeasured
    <3>2. PICK i \in DOMAIN runs[c].events : e = Row(runs[c].events[i], e.by)
      BY <3>1
    <3>3. e.id = <<c, i>>
      BY <3>2 DEF IInv, IdsArePlaces, Row
    <3>4. c # a
      <4>1. <<c, i>>[1] = c
        OBVIOUS
      <4> QED BY <1>5, <3>3, <4>1
    <3> QED BY <1>1, <3>2, <3>4
  <2> QED BY <2>1, <2>2 DEF Ledger, RowsAreMeasured
<1>8. \A c \in 1..Attempts : c # a =>
         Batches(c)' = Batches(c) /\ \A b : Batch(c, b)' = Batch(c, b)
  <2> SUFFICES ASSUME NEW c \in 1..Attempts, c # a
               PROVE  Batches(c)' = Batches(c) /\ \A b : Batch(c, b)' = Batch(c, b)
    OBVIOUS
  <2>1. runs'[c] = runs[c]
    BY <1>1
  <2> QED BY ONLY <2>1 DEF Batches, Batch, Least
<1>9. Deliveries'
  <2>1. \A r \in DOMAIN requests : Events(r)' = Events(r)
    BY <1>5, <1>8 DEF Events, IInv, Types
  <2>2. HeldAreUnique'
    BY <2>1 DEF IInv, Deliveries, HeldAreUnique, Unique
  <2>3. SeenAreRows'
    BY DEF IInv, Deliveries, SeenAreRows
  <2>4. AcceptedAreBooked'
    BY <2>1 DEF IInv, Deliveries, AcceptedAreBooked, Booked
  <2> QED BY <2>2, <2>3, <2>4 DEF Deliveries
<1>10. ASSUME NEW b \in 1..Batches(a)'
       PROVE  Absent(Batch(a, b))'
  <2>1. run.events \in Seq(Measurement) /\ runs'[a].events = run.events
    BY <1>1 DEF Run
  <2>2. b \in Nat \ {0}
    <3>1. Batches(a)' \in Int
      BY <2>1, LimitsAreNumbers DEF Batches
    <3> QED BY <3>1
  <2>3. \A e \in ToSet(Batch(a, b)') : e.id[1] = a
    <3>1. Batch(a, b)' = SubSeq(run.events, (b - 1) * BatchSize + 1,
                                Least(b * BatchSize, Len(run.events)))
      BY ONLY <2>1 DEF Batch, Least
    <3>2. \A e \in ToSet(SubSeq(run.events, (b - 1) * BatchSize + 1,
                                Least(b * BatchSize, Len(run.events)))) : e.id[1] = a
      BY <2>1, <2>2, PartsAreOfTheirRun
    <3> QED BY ONLY <3>1, <3>2
  <2> QED BY <1>5, <2>3 DEF Absent, Ids
<1>11. BatchesAreWhole'
  <2> SUFFICES ASSUME NEW c \in 1..Attempts
               PROVE  /\ runs'[c].stage \notin {"read", "build", "upload"} =>
                            \A b \in 1..Batches(c)' : Booked(Batch(c, b))' \/ Absent(Batch(c, b))'
                      /\ runs'[c].stage = "ship" /\ runs'[c].booked =>
                            \A b \in 1..(runs'[c].batch - 1) : Booked(Batch(c, b))'
    BY DEF BatchesAreWhole
  <2>1. CASE c = a
    <3>1. 1..(runs'[c].batch - 1) = {}
      BY <1>1, <2>1
    <3> QED BY <1>10, <2>1, <3>1
  <2>2. CASE c # a
    <3>1. /\ Batches(c)' = Batches(c) /\ runs'[c] = runs[c]
          /\ \A b : Booked(Batch(c, b))' = Booked(Batch(c, b))
                    /\ Absent(Batch(c, b))' = Absent(Batch(c, b))
      BY <1>1, <1>8, <2>2 DEF Booked, Absent
    <3> QED BY <3>1 DEF IInv, BatchesAreWhole
  <2> QED BY <2>1, <2>2
<1> QED BY <1>2, <1>3, <1>4, <1>6, <1>7, <1>9, <1>11 DEF IInv

-----------------------------------------------------------------------------
(* The steps of a run.                                                     *)

LEMMA NotedInPlace ==
  ASSUME Types, IdsArePlaces, NEW a \in 1..Attempts, NEW whats \in Seq(Kind)
  PROVE  /\ Noted(a, whats) \in Seq(Measurement)
         /\ \A i \in DOMAIN Noted(a, whats) : Noted(a, whats)[i].id = <<a, i>>
<1> DEFINE old == runs[a].events
           n == Len(old)
           new == [i \in DOMAIN whats |-> [key |-> Key(a, whats[i]), id |-> <<a, n + i>>]]
<1>1. old \in Seq(Measurement) /\ n \in Nat /\ DOMAIN old = 1..n
  BY RunsAreTyped
<1>2. a \in Nat /\ DOMAIN whats = 1..Len(whats) /\ Len(whats) \in Nat
  BY LimitsAreNumbers
<1>3. ASSUME NEW i \in DOMAIN whats
      PROVE  [key |-> Key(a, whats[i]), id |-> <<a, n + i>>] \in Measurement
  <2>1. whats[i] \in Kind /\ n + i \in Nat
    BY <1>1, <1>2
  <2> QED BY <1>2, <2>1 DEF Measurement, Key
<1>4. new \in Seq(Measurement) /\ Len(new) = Len(whats)
  BY <1>2, <1>3
<1>5. \A i \in DOMAIN old : old[i].id = <<a, i>>
  BY DEF IdsArePlaces
<1>6. \A i \in 1..Len(whats) : new[i].id = <<a, n + i>>
  BY <1>2
<1>7. Noted(a, whats) = old \o new
  BY DEF Noted
<1> HIDE DEF old, n, new
<1>8. /\ old \o new \in Seq(Measurement)
      /\ Len(old \o new) = Len(old) + Len(new)
      /\ \A i \in 1..(Len(old) + Len(new)) :
           (old \o new)[i] = IF i <= Len(old) THEN old[i] ELSE new[i - Len(old)]
  BY <1>1, <1>4, ConcatProperties
<1>9. ASSUME NEW i \in DOMAIN (old \o new)
      PROVE  (old \o new)[i].id = <<a, i>>
  <2>1. i \in 1..(Len(old) + Len(new)) /\ Len(old) = n
    BY <1>1, <1>4, <1>8 DEF n
  <2>2. CASE i <= n
    BY <1>1, <1>5, <1>8, <2>1, <2>2
  <2>3. CASE i > n
    <3>1. i - n \in 1..Len(whats) /\ n + (i - n) = i
      BY <1>1, <1>2, <1>4, <2>1, <2>3
    <3>2. (old \o new)[i] = new[i - n]
      BY <1>1, <1>8, <2>1, <2>3
    <3> QED BY <1>6, <3>1, <3>2
  <2> QED BY <1>1, <2>1, <2>2, <2>3
<1> QED BY <1>7, <1>8, <1>9

LEMMA KindsOfMeasurements ==
  /\ <<<<"transfer:input", 1>>, <<"ai:drawing_analysis", 1>>>> \in Seq(Kind)
  /\ BuildMeasures \in Seq(Kind)
  /\ <<<<"transfer:artifact", 1>>>> \in Seq(Kind)
  /\ \A n \in Nat : Append(BuildMeasures, <<"ai:build_repair", n + 1>>) \in Seq(Kind)
<1>1. /\ <<"transfer:input", 1>> \in Kind /\ <<"ai:drawing_analysis", 1>> \in Kind
      /\ <<"cad:session", 1>> \in Kind /\ <<"cad:operation:document_build", 1>> \in Kind
      /\ <<"transfer:artifact", 1>> \in Kind
  BY DEF Kind
<1>2. ASSUME NEW n \in Nat
      PROVE  <<"ai:build_repair", n + 1>> \in Kind
  BY DEF Kind
<1>3. BuildMeasures \in Seq(Kind)
  BY <1>1 DEF BuildMeasures
<1>4. ASSUME NEW n \in Nat
      PROVE  Append(BuildMeasures, <<"ai:build_repair", n + 1>>) \in Seq(Kind)
  BY <1>2, <1>3, AppendProperties
<1> QED BY <1>1, <1>3, <1>4

LEMMA MoveKeeps ==
  ASSUME IInv, NEW a \in 1..Attempts, NEW whats \in Seq(Kind), NEW stage,
         stage \in {"build", "upload", "ship", "over"}, runs[a].stage \in Before \ {"off"},
         Move(a, stage, whats), UNCHANGED <<job, requests, rows>>
  PROVE  IInv'
<1> DEFINE run == [runs[a] EXCEPT !.stage = stage, !.events = Noted(a, whats)]
<1>1. Noted(a, whats) \in Seq(Measurement)
      /\ \A i \in DOMAIN Noted(a, whats) : Noted(a, whats)[i].id = <<a, i>>
  BY NotedInPlace DEF IInv
<1>2. runs[a] \in Run /\ runs[a].batch = 1
  BY RunsAreTyped DEF IInv, NothingSentBefore
<1>3. run \in Run /\ run.events = Noted(a, whats) /\ run.batch = 1 /\ run.stage = stage
  BY <1>1, <1>2 DEF Run, Stages
<1>4. runs' = [runs EXCEPT ![a] = run]
  BY DEF Move, IInv, Types
<1>5. job'.attempt \in Int /\ job' = JobRow'
      /\ \A c \in 1..Attempts : c > job'.attempt => c > job.attempt /\ c # a
  BY DEF IInv, Types, OffIsUntouched, JobRow
<1> HIDE DEF run
<1>6. \A i \in DOMAIN run.events : run.events[i].id = <<a, i>>
  BY <1>1, <1>3
<1> QED BY <1>3, <1>4, <1>5, <1>6, MeasuringKeeps

LEMMA StartKeeps ==
  ASSUME IInv, NEW a \in 1..Attempts, Start(a)
  PROVE  IInv'
<1> DEFINE run == [runs[a] EXCEPT !.stage = "read"]
<1>1. job.attempt = a - 1 /\ job'.attempt = a /\ job.attempt \in Int
  BY DEF Start, IInv, Types
<1>2. runs[a].stage = "off"
  BY <1>1 DEF IInv, OffIsUntouched
<1>3. runs[a] \in Run /\ runs[a].batch = 1
  BY <1>2, RunsAreTyped DEF IInv, NothingSentBefore, Before
<1>4. run \in Run /\ run.events = runs[a].events /\ run.batch = 1 /\ run.stage = "read"
  BY <1>3 DEF Run, Stages
<1>5. runs' = [runs EXCEPT ![a] = run] /\ UNCHANGED <<requests, rows>>
  BY DEF Start, IInv, Types
<1>6. job'.attempt \in Int /\ job' = JobRow'
      /\ \A c \in 1..Attempts : c > job'.attempt => c > job.attempt /\ c # a
  BY <1>1 DEF Start, JobRow
<1>7. \A i \in DOMAIN run.events : run.events[i].id = <<a, i>>
  BY <1>4 DEF IInv, IdsArePlaces
<1> HIDE DEF run
<1> QED BY <1>2, <1>4, <1>5, <1>6, <1>7, MeasuringKeeps DEF Before

LEMMA RepairBuildKeeps ==
  ASSUME IInv, NEW a \in 1..Attempts, RepairBuild(a)
  PROVE  IInv'
<1> DEFINE whats == Append(BuildMeasures, <<"ai:build_repair", runs[a].repairs + 1>>)
           run == [runs[a] EXCEPT !.repairs = @ + 1, !.events = Noted(a, whats)]
<1>1. runs[a] \in Run /\ runs[a].stage = "build" /\ runs[a].batch = 1
  BY RunsAreTyped DEF RepairBuild, IInv, NothingSentBefore, Before
<1>2. runs[a].repairs \in Nat
  BY <1>1 DEF Run
<1>3. whats \in Seq(Kind)
  BY <1>2, KindsOfMeasurements
<1>4. Noted(a, whats) \in Seq(Measurement)
      /\ \A i \in DOMAIN Noted(a, whats) : Noted(a, whats)[i].id = <<a, i>>
  BY <1>3, NotedInPlace DEF IInv
<1>5. runs' = [runs EXCEPT ![a] = run] /\ UNCHANGED <<job, requests, rows>>
  BY DEF RepairBuild, IInv, Types
<1> HIDE DEF whats
<1>6. run \in Run /\ run.events = Noted(a, whats) /\ run.batch = 1 /\ run.stage = "build"
  <2>1. runs[a].repairs + 1 \in Nat
    BY <1>2
  <2> QED BY <1>1, <1>4, <2>1 DEF Run, Stages
<1> HIDE DEF run
<1>7. job'.attempt \in Int /\ job' = JobRow'
      /\ \A c \in 1..Attempts : c > job'.attempt => c > job.attempt /\ c # a
  BY <1>1, <1>5 DEF IInv, Types, OffIsUntouched, JobRow
<1>8. \A i \in DOMAIN run.events : run.events[i].id = <<a, i>>
  BY <1>4, <1>6
<1> QED BY <1>1, <1>5, <1>6, <1>7, <1>8, MeasuringKeeps DEF Before

LEMMA MeasurementsKeep ==
  ASSUME IInv, NEW a \in 1..Attempts, Read(a) \/ Build(a) \/ GiveUp(a) \/ Upload(a)
  PROVE  IInv'
<1>1. CASE Read(a)
  BY <1>1, KindsOfMeasurements, MoveKeeps DEF Read, Before
<1>2. CASE Build(a)
  BY <1>2, KindsOfMeasurements, MoveKeeps DEF Build, Before
<1>3. CASE GiveUp(a)
  BY <1>3, KindsOfMeasurements, MoveKeeps DEF GiveUp, Before
<1>4. CASE Upload(a)
  BY <1>4, KindsOfMeasurements, MoveKeeps DEF Upload, Before
<1> QED BY <1>1, <1>2, <1>3, <1>4

\* On to the next batch, which counts as booked if this one was.
LEMMA NextBatchKeeps ==
  ASSUME IInv, NEW a \in 1..Attempts, NEW booked \in BOOLEAN, runs[a].stage = "ship",
         NextBatch(a, booked), booked => Booked(Batch(a, runs[a].batch)),
         job' = job, rows' = rows, DOMAIN requests' \subseteq DOMAIN requests,
         requests' = Restrict(requests, DOMAIN requests')
  PROVE  IInv'
<1> DEFINE both == runs[a].booked /\ booked
           run == [runs[a] EXCEPT !.batch = @ + 1, !.try = 1, !.booked = both]
<1>1. runs[a] \in Run /\ runs[a].batch \in Nat \ {0}
  BY RunsAreTyped DEF IInv
<1>2. both \in BOOLEAN /\ runs[a].batch + 1 \in Nat \ {0}
  BY <1>1
<1>3. runs' = [runs EXCEPT ![a] = run]
  BY DEF NextBatch, IInv, Types
<1> HIDE DEF both
<1>4. /\ run.stage = runs[a].stage /\ run.events = runs[a].events
      /\ run.batch = runs[a].batch + 1 /\ run.booked = both
  BY <1>1 DEF Run
<1>5. run \in Run
  BY <1>1, <1>2 DEF Run
<1> HIDE DEF run
<1>6. ASSUME run.booked
      PROVE  \A b \in 1..(run.batch - 1) : Booked(Batch(a, b))
  <2>1. runs[a].booked /\ booked
    BY <1>4, <1>6 DEF both
  <2>2. \A b \in 1..(runs[a].batch - 1) : Booked(Batch(a, b))
    BY <2>1 DEF IInv, BatchesAreWhole
  <2> QED BY <1>1, <1>4, <2>1, <2>2
<1>7. job' = JobRow'
  BY DEF IInv, Types, JobRow
<1> QED BY <1>4, <1>5, <1>3, <1>6, <1>7, ShippingKeeps DEF Before

LEMMA AgainKeeps ==
  ASSUME IInv, NEW a \in 1..Attempts, runs[a].stage = "ship", Again(a),
         job' = job, rows' = rows, DOMAIN requests' \subseteq DOMAIN requests,
         requests' = Restrict(requests, DOMAIN requests')
  PROVE  IInv'
<1>1. CASE NextBatch(a, FALSE)
  BY <1>1, NextBatchKeeps
<1>2. CASE runs' = [runs EXCEPT ![a].try = @ + 1]
  <2> DEFINE run == [runs[a] EXCEPT !.try = @ + 1]
  <2>1. runs[a] \in Run
    BY RunsAreTyped DEF IInv
  <2>2. /\ run \in Run /\ run.stage = "ship" /\ run.events = runs[a].events
        /\ run.batch = runs[a].batch /\ run.booked = runs[a].booked
    BY <2>1 DEF Run
  <2>3. runs' = [runs EXCEPT ![a] = run]
    BY <1>2 DEF IInv, Types
  <2> HIDE DEF run
  <2>4. run.booked => \A b \in 1..(run.batch - 1) : Booked(Batch(a, b))
    BY <2>2 DEF IInv, BatchesAreWhole
  <2>5. job' = JobRow'
    BY DEF IInv, Types, JobRow
  <2> QED BY <2>2, <2>3, <2>4, <2>5, ShippingKeeps DEF Before
<1> QED BY <1>1, <1>2 DEF Again

LEMMA UntouchedRequests ==
  ASSUME IInv, requests' = requests
  PROVE  DOMAIN requests' \subseteq DOMAIN requests
         /\ requests' = Restrict(requests, DOMAIN requests')
BY DEF IInv, Types, Restrict

\* A run that ships ends, well or by the exception.
LEMMA EndKeeps ==
  ASSUME IInv, NEW a \in 1..Attempts, NEW stage \in {"over", "thrown"},
         runs[a].stage = "ship", runs' = [runs EXCEPT ![a].stage = stage],
         job' = JobRow', job'.attempt = job.attempt, UNCHANGED <<requests, rows>>
  PROVE  IInv'
<1> DEFINE run == [runs[a] EXCEPT !.stage = stage]
<1>1. runs[a] \in Run
  BY RunsAreTyped DEF IInv
<1>2. run \in Run /\ run.stage = stage /\ run.events = runs[a].events
  BY <1>1 DEF Run, Stages
<1>3. runs' = [runs EXCEPT ![a] = run]
  BY DEF IInv, Types
<1> HIDE DEF run
<1> QED BY <1>2, <1>3, UntouchedRequests, ShippingKeeps DEF Before

LEMMA ShippingStepsKeep ==
  ASSUME IInv, NEW a \in 1..Attempts,
         Answered(a) \/ Disconnect(a) \/ TimeOut(a) \/ Complete(a)
  PROVE  IInv'
<1>1. CASE Answered(a)
  <2>1. runs[a].stage = "ship" /\ Current(a) \in DOMAIN requests
    BY <1>1 DEF Answered, Waiting
  <2>2. /\ job' = job /\ rows' = rows /\ DOMAIN requests' \subseteq DOMAIN requests
        /\ requests' = Restrict(requests, DOMAIN requests')
    BY <1>1 DEF Answered, Restrict
  <2>3. CASE requests[Current(a)].answer = "accepted" /\ NextBatch(a, TRUE)
    <3>1. Booked(Events(Current(a)))
      BY <2>1, <2>3 DEF IInv, Deliveries, AcceptedAreBooked
    <3>2. Events(Current(a)) = Batch(a, runs[a].batch)
      BY DEF Events, Current
    <3> QED BY <2>1, <2>2, <2>3, <3>1, <3>2, NextBatchKeeps
  <2>4. CASE NextBatch(a, FALSE)
    BY <2>1, <2>2, <2>4, NextBatchKeeps
  <2>5. CASE Again(a)
    BY <2>1, <2>2, <2>5, AgainKeeps
  <2>6. requests[Current(a)].answer \in Answers
    BY <1>1, <2>1 DEF Answered, IInv, Types
  <2> QED BY <1>1, <2>3, <2>4, <2>5, <2>6 DEF Answered, Answers
<1>2. CASE Disconnect(a)
  <2>1. runs[a].stage = "ship" /\ Again(a) /\ UNCHANGED <<job, requests, rows>>
    BY <1>2 DEF Disconnect, Waiting
  <2> QED BY <2>1, UntouchedRequests, AgainKeeps
<1>3. CASE TimeOut(a)
  <2>1. job' = JobRow' /\ job'.attempt = job.attempt
    BY <1>3 DEF TimeOut, IInv, Types, JobRow
  <2> QED BY <1>3, <2>1, EndKeeps DEF TimeOut, Waiting
<1>4. CASE Complete(a)
  <2>1. job' = JobRow' /\ job'.attempt = job.attempt
    BY <1>4 DEF Complete, IInv, Types, JobRow
  <2> QED BY <1>4, <2>1, EndKeeps DEF Complete
<1> QED BY <1>1, <1>2, <1>3, <1>4

-----------------------------------------------------------------------------
(* The steps of a request.                                                 *)

\* The deliveries a step leaves are of runs that have measured everything.
LEMMA SendersHaveMeasured ==
  ASSUME IInv, NEW r \in DOMAIN requests
  PROVE  r[1] \in 1..Attempts /\ r[2] \in Nat \ {0} /\ runs[r[1]].stage \notin Before
<1>1. r[1] \in 1..Attempts /\ r[2] \in Nat \ {0}
  BY DEF IInv, Types
<1> QED BY <1>1 DEF IInv, NothingSentBefore

\* Only the requests change.
LEMMA RequestsKeep ==
  ASSUME IInv, UNCHANGED <<job, runs, rows>>, Types', Deliveries',
         \A r \in DOMAIN requests' : runs[r[1]].stage \notin Before
  PROVE  IInv'
<1>1. EventsStand
  BY DEF EventsStand
<1>2. IdsArePlaces' /\ Ledger'
  BY <1>1, PlacesStand, LedgerStands DEF IInv
<1>3. OffIsUntouched'
  BY DEF IInv, OffIsUntouched
<1>4. NothingSentBefore'
  BY DEF IInv, NothingSentBefore
<1>5. BatchesAreWhole'
  BY DEF IInv, BatchesAreWhole, Booked, Absent, Batches, Batch, Least
<1> QED BY <1>2, <1>3, <1>4, <1>5 DEF IInv

LEMMA SendKeeps ==
  ASSUME IInv, NEW a \in 1..Attempts, Send(a)
  PROVE  IInv'
<1> DEFINE r == Current(a)
           sent == [phase |-> "sent", seen |-> {}, answer |-> "none"]
<1>1. /\ DOMAIN requests' = DOMAIN requests \cup {r} /\ requests'[r] = sent
      /\ \A q \in DOMAIN requests : requests'[q] = requests[q]
      /\ requests' = [q \in DOMAIN requests' |-> requests'[q]]
      /\ UNCHANGED <<job, runs, rows>>
  BY DEF Send
<1>2. r \in (1..Attempts) \X (Nat \ {0}) \X Nat /\ r[1] = a
  <2>1. runs[a] \in Run
    BY RunsAreTyped DEF IInv
  <2> QED BY <2>1 DEF Current, Run
<1> HIDE DEF r
<1>3. Types'
  <2>1. \A q \in DOMAIN requests' :
          /\ requests'[q] = [phase |-> requests'[q].phase, seen |-> requests'[q].seen,
                             answer |-> requests'[q].answer]
          /\ requests'[q].phase = "over" => requests'[q].answer \in Answers
    BY <1>1 DEF IInv, Types
  <2>2. requests' = [q \in DOMAIN requests' |->
                       [phase |-> requests'[q].phase, seen |-> requests'[q].seen,
                        answer |-> requests'[q].answer]]
    BY <1>1, <2>1
  <2>3. DOMAIN requests' \subseteq (1..Attempts) \X (Nat \ {0}) \X Nat
    BY <1>1, <1>2 DEF IInv, Types
  <2>4. job' = JobRow' /\ job'.attempt \in Int /\ runs' \in [1..Attempts -> Run]
    BY <1>1 DEF IInv, Types, JobRow
  <2> QED BY <2>1, <2>2, <2>3, <2>4 DEF Types
<1>4. \A q : Events(q)' = Events(q)
  BY <1>1 DEF Events, Batch, Least
<1>5. Deliveries'
  <2>1. HeldAreUnique'
    BY <1>1, <1>4 DEF IInv, Deliveries, HeldAreUnique, Unique
  <2>2. SeenAreRows'
    BY <1>1 DEF IInv, Deliveries, SeenAreRows
  <2>3. AcceptedAreBooked'
    BY <1>1, <1>4 DEF IInv, Deliveries, AcceptedAreBooked, Booked
  <2> QED BY <2>1, <2>2, <2>3 DEF Deliveries
<1>6. \A q \in DOMAIN requests' : runs[q[1]].stage \notin Before
  <2>1. runs[a].stage \notin Before
    BY DEF Send, Before
  <2> QED BY <1>1, <1>2, <2>1, SendersHaveMeasured
<1> QED BY <1>1, <1>3, <1>5, <1>6, RequestsKeep

\* One delivery takes another state.
Becomes(r, delivery) == requests' = [requests EXCEPT ![r] = delivery]

LEMMA DeliveryKeeps ==
  ASSUME IInv, NEW r \in DOMAIN requests, NEW phase \in {"held", "read"}, NEW seen,
         Becomes(r, [phase |-> phase, seen |-> seen, answer |-> requests[r].answer]),
         Unique(Events(r)),
         phase = "read" => \A s \in seen : \E e \in rows : s = [key |-> e.key, id |-> e.id],
         UNCHANGED <<job, runs, rows>>
  PROVE  IInv'
<1>1. /\ DOMAIN requests' = DOMAIN requests
      /\ requests'[r] = [phase |-> phase, seen |-> seen, answer |-> requests[r].answer]
      /\ \A q \in DOMAIN requests : q # r => requests'[q] = requests[q]
      /\ requests' = [q \in DOMAIN requests' |-> requests'[q]]
  BY DEF Becomes, IInv, Types
<1>2. Types'
  <2>1. \A q \in DOMAIN requests' :
          /\ requests'[q] = [phase |-> requests'[q].phase, seen |-> requests'[q].seen,
                             answer |-> requests'[q].answer]
          /\ requests'[q].phase = "over" => requests'[q].answer \in Answers
    <3> TAKE q \in DOMAIN requests'
    <3>1. CASE q = r
      BY <1>1, <3>1
    <3>2. CASE q # r
      BY <1>1, <3>2 DEF IInv, Types
    <3> QED BY <3>1, <3>2
  <2>2. requests' = [q \in DOMAIN requests' |->
                       [phase |-> requests'[q].phase, seen |-> requests'[q].seen,
                        answer |-> requests'[q].answer]]
    BY <1>1, <2>1
  <2>3. job' = JobRow' /\ job'.attempt \in Int /\ runs' \in [1..Attempts -> Run]
    BY DEF IInv, Types, JobRow
  <2> QED BY <1>1, <2>1, <2>2, <2>3 DEF IInv, Types
<1>3. \A q : Events(q)' = Events(q)
  BY DEF Events, Batch, Least
<1>4. Deliveries'
  <2>1. HeldAreUnique'
    BY <1>1, <1>3 DEF IInv, Deliveries, HeldAreUnique, Unique
  <2>2. SeenAreRows'
    BY <1>1 DEF IInv, Deliveries, SeenAreRows
  <2>3. AcceptedAreBooked'
    BY <1>1, <1>3 DEF IInv, Deliveries, AcceptedAreBooked, Booked
  <2> QED BY <2>1, <2>2, <2>3 DEF Deliveries
<1>5. \A q \in DOMAIN requests' : runs[q[1]].stage \notin Before
  BY <1>1, SendersHaveMeasured
<1> QED BY <1>2, <1>4, <1>5, RequestsKeep

\* An answer ends a delivery, or the delivery is forgotten.
LEMMA RepliesAreLast ==
  ASSUME Types, NEW r \in DOMAIN requests, NEW answer \in Answers, Reply(r, answer),
         UNCHANGED <<job, runs>>
  PROVE  /\ Types'
         /\ DOMAIN requests' \subseteq DOMAIN requests
         /\ \A q \in DOMAIN requests' :
              /\ requests'[q].phase \in {requests[q].phase, "over"}
              /\ requests'[q].seen = requests[q].seen
              /\ requests'[q].answer = requests[q].answer \/ (q = r /\ requests'[q].answer = answer)
<1> DEFINE over == [phase |-> "over", seen |-> requests[r].seen, answer |-> answer]
<1>1. \A q \in DOMAIN requests :
         requests[q] = [phase |-> requests[q].phase, seen |-> requests[q].seen,
                        answer |-> requests[q].answer]
  BY DEF Types
<1>2. [[requests[r] EXCEPT !.phase = "over"] EXCEPT !.answer = answer] = over
  <2> DEFINE mid == [phase |-> "over", seen |-> requests[r].seen,
                     answer |-> requests[r].answer]
  <2>1. [requests[r] EXCEPT !.phase = "over"] = mid
    BY <1>1
  <2>2. [mid EXCEPT !.answer = answer] = over
    OBVIOUS
  <2> QED BY <2>1, <2>2
<1>3. /\ DOMAIN requests' \subseteq DOMAIN requests
      /\ \A q \in DOMAIN requests' : requests'[q] = requests[q] \/ (q = r /\ requests'[q] = over)
      /\ requests' = [q \in DOMAIN requests' |-> requests'[q]]
  <2>1. CASE requests' = [requests EXCEPT ![r].phase = "over", ![r].answer = answer]
    <3>1. requests' = [requests EXCEPT ![r] = over]
      BY <1>2, <2>1
    <3> HIDE DEF over
    <3>2. requests = [q \in DOMAIN requests |-> requests[q]]
      BY DEF Types
    <3> QED BY <3>1, <3>2
  <2>2. CASE requests' = Restrict(requests, DOMAIN requests \ {r})
    <3> HIDE DEF over
    <3>1. requests' = [q \in DOMAIN requests \ {r} |-> requests[q]]
      BY <2>2 DEF Restrict
    <3>2. DOMAIN requests' = DOMAIN requests \ {r}
      BY <3>1
    <3>3. \A q \in DOMAIN requests' : requests'[q] = requests[q]
      BY <3>1, <3>2
    <3>4. requests' = [q \in DOMAIN requests' |-> requests'[q]]
      BY <3>1, <3>2, <3>3
    <3> QED BY <3>2, <3>3, <3>4
  <2> QED BY <2>1, <2>2 DEF Reply
<1>4. \A q \in DOMAIN requests' :
        /\ requests'[q] = [phase |-> requests'[q].phase, seen |-> requests'[q].seen,
                           answer |-> requests'[q].answer]
        /\ requests'[q].phase = "over" => requests'[q].answer \in Answers
        /\ requests'[q].phase \in {requests[q].phase, "over"}
        /\ requests'[q].seen = requests[q].seen
        /\ requests'[q].answer = requests[q].answer \/ (q = r /\ requests'[q].answer = answer)
  BY <1>1, <1>3 DEF Types
<1>5. requests' = [q \in DOMAIN requests' |->
                     [phase |-> requests'[q].phase, seen |-> requests'[q].seen,
                      answer |-> requests'[q].answer]]
  BY <1>3, <1>4
<1>6. job' = JobRow' /\ job'.attempt \in Int /\ runs' \in [1..Attempts -> Run]
  BY DEF Types, JobRow
<1>7. Types'
  BY <1>3, <1>4, <1>5, <1>6 DEF Types
<1> QED BY <1>3, <1>4, <1>7

\* A refusal, or a failure before anything is committed.
LEMMA RefusalKeeps ==
  ASSUME IInv, NEW r \in DOMAIN requests, NEW answer \in {"rejected", "broken"},
         Reply(r, answer), UNCHANGED <<job, runs, rows>>
  PROVE  IInv'
<1>1. /\ Types' /\ DOMAIN requests' \subseteq DOMAIN requests
      /\ \A q \in DOMAIN requests' :
           /\ requests'[q].phase \in {requests[q].phase, "over"}
           /\ requests'[q].seen = requests[q].seen
           /\ requests'[q].answer = requests[q].answer \/ requests'[q].answer = answer
  BY RepliesAreLast DEF IInv, Answers
<1>2. EventsStand
  BY DEF EventsStand
<1>3. Deliveries'
  BY <1>1, <1>2, DeliveriesStand DEF IInv
<1>4. \A q \in DOMAIN requests' : runs[q[1]].stage \notin Before
  BY <1>1, SendersHaveMeasured
<1> QED BY <1>1, <1>3, <1>4, RequestsKeep

LEMMA CheckLeaseKeeps ==
  ASSUME IInv, NEW r \in DOMAIN requests, CheckLease(r)
  PROVE  IInv'
<1>1. UNCHANGED <<job, runs, rows>>
  BY DEF CheckLease
<1>2. CASE Unique(Events(r)) /\ requests' = [requests EXCEPT ![r].phase = "held"]
  <2>1. requests[r] = [phase |-> requests[r].phase, seen |-> requests[r].seen,
                       answer |-> requests[r].answer]
    BY DEF IInv, Types
  <2>2. [requests[r] EXCEPT !.phase = "held"] =
          [phase |-> "held", seen |-> requests[r].seen, answer |-> requests[r].answer]
    BY <2>1
  <2>3. Becomes(r, [phase |-> "held", seen |-> requests[r].seen,
                    answer |-> requests[r].answer])
    BY <1>2, <2>2 DEF Becomes
  <2> QED BY <1>1, <1>2, <2>3, DeliveryKeeps
<1>3. CASE Reply(r, "rejected")
  BY <1>1, <1>3, RefusalKeeps
<1> QED BY <1>2, <1>3 DEF CheckLease

LEMMA ReadRowsKeeps ==
  ASSUME IInv, NEW r \in DOMAIN requests, ReadRows(r)
  PROVE  IInv'
<1> DEFINE keys == KeysOf(ToSet(Events(r)))
           seen == {[key |-> e.key, id |-> e.id] : e \in {f \in rows : f.key \in keys}}
<1>1. UNCHANGED <<job, runs, rows>> /\ requests[r].phase = "held"
  BY DEF ReadRows
<1>2. \A s \in seen : \E e \in rows : s = [key |-> e.key, id |-> e.id]
  OBVIOUS
<1>3. requests' = [requests EXCEPT ![r].phase = "read", ![r].seen = seen]
  BY DEF ReadRows
<1> HIDE DEF seen
<1>4. requests[r] = [phase |-> requests[r].phase, seen |-> requests[r].seen,
                     answer |-> requests[r].answer]
  BY DEF IInv, Types
<1>5. [[requests[r] EXCEPT !.phase = "read"] EXCEPT !.seen = seen] =
        [phase |-> "read", seen |-> seen, answer |-> requests[r].answer]
  <2> DEFINE mid == [phase |-> "read", seen |-> requests[r].seen,
                     answer |-> requests[r].answer]
  <2>1. [requests[r] EXCEPT !.phase = "read"] = mid
    BY <1>4
  <2>2. [mid EXCEPT !.seen = seen] =
          [phase |-> "read", seen |-> seen, answer |-> requests[r].answer]
    OBVIOUS
  <2> QED BY <2>1, <2>2
<1>6. Becomes(r, [phase |-> "read", seen |-> seen, answer |-> requests[r].answer])
  BY <1>3, <1>5 DEF Becomes
<1>7. Unique(Events(r))
  BY <1>1 DEF IInv, Deliveries, HeldAreUnique
<1> QED BY <1>1, <1>2, <1>6, <1>7, DeliveryKeeps

-----------------------------------------------------------------------------
(* Recording.                                                              *)

\* What a delivery adds has a place in its batch, and of its batch it adds all
\* the table does not have.
LEMMA FreshIsOfTheBatch ==
  ASSUME IInv, NEW r \in DOMAIN requests
  PROVE  /\ Ids(Fresh(r)) \subseteq Ids(ToSet(Events(r)))
         /\ \A e \in Fresh(r) : e.id[1] = r[1]
         /\ \A e \in Fresh(r) : \E i \in DOMAIN runs[r[1]].events :
               e = Row(runs[r[1]].events[i], e.by)
<1>1. r[1] \in 1..Attempts /\ r[2] \in Nat \ {0}
  BY SendersHaveMeasured
<1>2. ToSet(Events(r)) = {runs[r[1]].events[i] : i \in Span(r[1], r[2])}
  BY <1>1, BatchIsASpan DEF IInv, Events
<1>3. \A e \in Fresh(r) : \E f \in ToSet(Events(r)) : e = Row(f, r)
  BY DEF Fresh
<1>4. ASSUME NEW e \in Fresh(r)
      PROVE  \E i \in DOMAIN runs[r[1]].events :
                e = Row(runs[r[1]].events[i], e.by) /\ e.id = <<r[1], i>>
  <2>1. PICK f \in ToSet(Events(r)) : e = Row(f, r)
    BY <1>3
  <2>2. PICK i \in Span(r[1], r[2]) : f = runs[r[1]].events[i]
    BY <1>2
  <2>3. i \in DOMAIN runs[r[1]].events
    BY DEF Span
  <2>4. runs[r[1]].events[i].id = <<r[1], i>>
    BY <1>1, <2>3 DEF IInv, IdsArePlaces
  <2>5. e.id = f.id /\ e.by = r
    BY <2>1 DEF Row
  <2> QED BY <2>1, <2>2, <2>3, <2>4, <2>5
<1>5. Ids(Fresh(r)) \subseteq Ids(ToSet(Events(r)))
  BY <1>3 DEF Ids, Row
<1>6. \A e \in Fresh(r) : e.id[1] = r[1]
  <2> TAKE e \in Fresh(r)
  <2>1. PICK i \in DOMAIN runs[r[1]].events : e.id = <<r[1], i>>
    BY <1>4
  <2>2. <<r[1], i>>[1] = r[1]
    OBVIOUS
  <2> QED BY <2>1, <2>2
<1> QED BY <1>4, <1>5, <1>6

\* What the table has already it has as the batch has it.
LEMMA TheBatchIsBooked ==
  ASSUME IInv, NEW r \in DOMAIN requests, requests[r].phase = "read", ~Clashes(r),
         rows' = rows \cup Fresh(r), UNCHANGED runs
  PROVE  Booked(Events(r))'
<1>1. Unique(Events(r))
  BY DEF IInv, Deliveries, HeldAreUnique
<1>2. \A e, f \in ToSet(Events(r)) : e.key = f.key => e = f
  BY <1>1 DEF Unique, ToSet
<1>3. ASSUME NEW e \in ToSet(Events(r))
      PROVE  e.id \in Ids(rows')
  <2>1. CASE e.key \notin KeysOf(requests[r].seen)
    <3>1. Row(e, r) \in rows'
      BY <2>1 DEF Fresh
    <3> QED BY <3>1 DEF Ids, Row
  <2>2. CASE e.key \in KeysOf(requests[r].seen)
    <3>1. PICK s \in requests[r].seen : s.key = e.key
      BY <2>2 DEF KeysOf
    <3>2. s = e
      BY <1>2, <3>1 DEF Clashes
    <3>3. PICK f \in rows : s = [key |-> f.key, id |-> f.id]
      BY DEF IInv, Deliveries, SeenAreRows
    <3> QED BY <3>2, <3>3 DEF Ids
  <2> QED BY <2>1, <2>2
<1>4. Events(r)' = Events(r)
  BY DEF Events, Batch, Least
<1> QED BY <1>3, <1>4 DEF Booked, Ids

LEMMA KeysStayUnique ==
  ASSUME IInv, NEW r \in DOMAIN requests, requests[r].phase = "read",
         Admits(Fresh(r)), rows' = rows \cup Fresh(r)
  PROVE  KeysAreUnique'
<1>1. Unique(Events(r))
  BY DEF IInv, Deliveries, HeldAreUnique
<1>2. \A e, f \in ToSet(Events(r)) : e.key = f.key => e = f
  BY <1>1 DEF Unique, ToSet
<1>3. \A e \in Fresh(r) : \E f \in ToSet(Events(r)) : e = Row(f, r) /\ e.key = f.key
  BY DEF Fresh, Row
<1>4. \A e, f \in Fresh(r) : e.key = f.key => e = f
  BY <1>2, <1>3
<1>5. \A e \in rows, f \in Fresh(r) : e.key # f.key
  BY DEF Admits, KeysOf
<1>6. \A e, f \in rows : e.key = f.key => e = f
  BY DEF IInv, Ledger, KeysAreUnique
<1> QED BY <1>4, <1>5, <1>6 DEF KeysAreUnique

\* Another batch neither gains nor loses by it.
LEMMA OtherBatchesStand ==
  ASSUME IInv, NEW r \in DOMAIN requests, rows' = rows \cup Fresh(r), UNCHANGED runs,
         NEW a \in 1..Attempts, NEW b \in Nat \ {0}, <<a, b>> # <<r[1], r[2]>>
  PROVE  /\ Booked(Batch(a, b)) => Booked(Batch(a, b))'
         /\ Absent(Batch(a, b)) => Absent(Batch(a, b))'
<1>1. r[1] \in 1..Attempts /\ r[2] \in Nat \ {0}
  BY SendersHaveMeasured
<1>2. Ids(ToSet(Batch(a, b))) = {<<a, i>> : i \in Span(a, b)}
  BY IdsOfABatch DEF IInv
<1>3. Ids(ToSet(Events(r))) = {<<r[1], i>> : i \in Span(r[1], r[2])}
  BY <1>1, IdsOfABatch DEF IInv, Events
<1>4. ASSUME NEW id \in Ids(ToSet(Batch(a, b))), id \in Ids(ToSet(Events(r)))
      PROVE  FALSE
  <2>1. PICK i \in Span(a, b) : id = <<a, i>>
    BY <1>2
  <2>2. PICK j \in Span(r[1], r[2]) : id = <<r[1], j>>
    BY <1>3, <1>4
  <2>3. a = r[1] /\ i = j
    BY <2>1, <2>2
  <2>4. b = r[2]
    BY <1>1, <2>3, SpansAreDisjoint DEF IInv
  <2> QED BY <2>3, <2>4
<1>5. Ids(ToSet(Batch(a, b))) \cap Ids(Fresh(r)) = {}
  BY <1>4, FreshIsOfTheBatch
<1>6. Batch(a, b)' = Batch(a, b)
  BY DEF Batch, Least
<1>7. Ids(rows') = Ids(rows) \cup Ids(Fresh(r))
  BY DEF Ids
<1>8. Booked(Batch(a, b)) => Booked(Batch(a, b))'
  BY <1>6, <1>7 DEF Booked, Ids
<1>9. Absent(Batch(a, b))' <=> Ids(ToSet(Batch(a, b))) \cap Ids(rows') = {}
  BY <1>6 DEF Absent, Ids
<1> QED BY <1>5, <1>7, <1>8, <1>9 DEF Absent

LEMMA RecordingKeeps ==
  ASSUME IInv, NEW r \in DOMAIN requests, requests[r].phase = "read", ~Clashes(r),
         Admits(Fresh(r)), rows' = rows \cup Fresh(r), Reply(r, "accepted"),
         UNCHANGED <<job, runs>>
  PROVE  IInv'
<1>1. EventsStand
  BY DEF EventsStand
<1>2. /\ Types' /\ DOMAIN requests' \subseteq DOMAIN requests
      /\ \A q \in DOMAIN requests' :
           /\ requests'[q].phase \in {requests[q].phase, "over"}
           /\ requests'[q].seen = requests[q].seen
           /\ \/ requests'[q].answer = requests[q].answer
              \/ q = r
  BY RepliesAreLast DEF IInv, Answers
<1>3. Booked(Events(r))'
  BY TheBatchIsBooked
<1>4. r[1] \in 1..Attempts /\ r[2] \in Nat \ {0} /\ runs[r[1]].stage \notin Before
  BY SendersHaveMeasured
<1>5. IdsArePlaces' /\ OffIsUntouched'
  BY <1>1, PlacesStand DEF IInv, OffIsUntouched
<1>6. NothingSentBefore'
  BY <1>2, <1>4, FreshIsOfTheBatch DEF IInv, NothingSentBefore
<1>7. RowsAreMeasured'
  <2> SUFFICES ASSUME NEW e \in rows', e # Normalized
               PROVE  \E a \in 1..Attempts : \E i \in DOMAIN runs[a].events :
                         e = Row(runs[a].events[i], e.by)
    BY DEF RowsAreMeasured
  <2>1. CASE e \in rows
    BY <2>1 DEF IInv, Ledger, RowsAreMeasured
  <2>2. CASE e \in Fresh(r)
    BY <1>4, <2>2, FreshIsOfTheBatch
  <2> QED BY <2>1, <2>2
<1>8. Ledger'
  BY <1>7, KeysStayUnique DEF Ledger
<1>9. Deliveries'
  <2>1. \A q \in DOMAIN requests' :
           requests'[q].answer = "accepted" /\ requests[q].answer # "accepted" =>
              Booked(Events(q))'
    BY <1>2, <1>3
  <2> QED BY <1>1, <1>2, <2>1, DeliveriesStand DEF IInv
<1>10. ASSUME NEW a \in 1..Attempts, NEW b \in Nat \ {0}
       PROVE  /\ Booked(Batch(a, b)) => Booked(Batch(a, b))'
              /\ Absent(Batch(a, b)) => Booked(Batch(a, b))' \/ Absent(Batch(a, b))'
  <2>1. CASE a = r[1] /\ b = r[2]
    BY <1>3, <2>1 DEF Events
  <2>2. CASE <<a, b>> # <<r[1], r[2]>>
    BY <2>2, OtherBatchesStand
  <2> QED BY <2>1, <2>2
<1>11. BatchesAreWhole'
  <2> SUFFICES ASSUME NEW a \in 1..Attempts
               PROVE  /\ runs[a].stage \notin {"read", "build", "upload"} =>
                            \A b \in 1..Batches(a) : Booked(Batch(a, b))' \/ Absent(Batch(a, b))'
                      /\ runs[a].stage = "ship" /\ runs[a].booked =>
                            \A b \in 1..(runs[a].batch - 1) : Booked(Batch(a, b))'
    BY <1>1, BatchesStand DEF BatchesAreWhole
  <2>1. \A b \in 1..Batches(a) : b \in Nat \ {0}
    BY BatchesAreNumbers DEF IInv
  <2>2. \A b \in 1..(runs[a].batch - 1) : b \in Nat \ {0}
    BY RunsAreTyped DEF IInv
  <2> QED BY <1>10, <2>1, <2>2 DEF IInv, BatchesAreWhole
<1> QED BY <1>2, <1>5, <1>6, <1>8, <1>9, <1>11 DEF IInv

LEMMA RequestStepsKeep ==
  ASSUME IInv, NEW r \in DOMAIN requests,
         CheckLease(r) \/ ReadRows(r) \/ Record(r) \/ Break(r)
  PROVE  IInv'
<1>1. CASE Record(r)
  <2>1. CASE Clashes(r) \/ ~Admits(Fresh(r))
    BY <1>1, <2>1, RefusalKeeps DEF Record, Flush
  <2>2. CASE ~Clashes(r) /\ Admits(Fresh(r))
    BY <1>1, <2>2, RecordingKeeps DEF Record, Flush
  <2> QED BY <2>1, <2>2
<1>2. CASE Break(r)
  BY <1>2, RefusalKeeps DEF Break
<1> QED BY <1>1, <1>2, CheckLeaseKeeps, ReadRowsKeeps

-----------------------------------------------------------------------------
(* The specification.                                                      *)

LEMMA InitIsSound == Init => IInv
<1> SUFFICES ASSUME Init
             PROVE  IInv
  OBVIOUS
<1>1. PICK on \in [1..Attempts -> Workers] : runs = [a \in 1..Attempts |-> Idle(on[a])]
  BY DEF Init
<1>2. \A a \in 1..Attempts : runs[a] = Idle(on[a]) /\ on[a] \in Workers
  BY <1>1
<1>3. ASSUME NEW w \in Workers
      PROVE  Idle(w) \in Run
  <2>1. TRUE \in BOOLEAN /\ <<>> \in Seq(Measurement)
    OBVIOUS
  <2> QED BY <2>1 DEF Idle, Run, Stages
<1>4. \A a \in 1..Attempts :
        runs[a].stage = "off" /\ runs[a].events = <<>> /\ runs[a].batch = 1
  <2>1. \A w : Idle(w).stage = "off" /\ Idle(w).events = <<>> /\ Idle(w).batch = 1
    BY DEF Idle
  <2> QED BY <1>2, <2>1
<1>5. requests = <<>> /\ DOMAIN requests = {} /\ rows = {Normalized} /\ job.attempt = 0
  BY DEF Init
<1>6. Types
  <2>1. job = JobRow
    BY DEF Init, JobRow
  <2>2. runs \in [1..Attempts -> Run]
    BY <1>1, <1>2, <1>3
  <2>3. requests = [r \in DOMAIN requests |->
                      [phase |-> requests[r].phase, seen |-> requests[r].seen,
                       answer |-> requests[r].answer]]
    BY <1>5
  <2> QED BY <1>5, <2>1, <2>2, <2>3 DEF Types
<1>7. IdsArePlaces /\ OffIsUntouched
  BY <1>4 DEF IdsArePlaces, OffIsUntouched
<1>8. \A e \in rows : e.id[1] = 0
  <2>1. Normalized.id = <<0, 1>>
    BY DEF Normalized, Row
  <2> QED BY <1>5, <2>1
<1>9. NothingSentBefore
  BY <1>4, <1>5, <1>8 DEF NothingSentBefore
<1>10. Ledger /\ Deliveries
  BY <1>5 DEF Ledger, RowsAreMeasured, KeysAreUnique, Deliveries, HeldAreUnique,
              SeenAreRows, AcceptedAreBooked
<1>11. BatchesAreWhole
  BY <1>4, <1>6, NothingToShip DEF BatchesAreWhole
<1> QED BY <1>6, <1>7, <1>9, <1>10, <1>11 DEF IInv

LEMMA LapseKeeps ==
  ASSUME IInv, Lapse
  PROVE  IInv'
<1>1. UNCHANGED <<runs, requests, rows>> /\ job' = JobRow' /\ job'.attempt = job.attempt
  BY DEF Lapse, IInv, Types, JobRow
<1>2. EventsStand
  BY <1>1 DEF EventsStand
<1>3. Types' /\ IdsArePlaces' /\ OffIsUntouched' /\ NothingSentBefore'
  BY <1>1 DEF IInv, Types, IdsArePlaces, OffIsUntouched, NothingSentBefore
<1>4. Ledger'
  BY <1>1, <1>2, LedgerStands DEF IInv
<1>5. Deliveries'
  BY <1>1, <1>2, DeliveriesStand DEF IInv
<1>6. BatchesAreWhole'
  BY <1>1 DEF IInv, BatchesAreWhole, Booked, Absent, Batches, Batch, Least
<1> QED BY <1>3, <1>4, <1>5, <1>6 DEF IInv

LEMMA NextKeeps == IInv /\ [Next]_vars => IInv'
<1> SUFFICES ASSUME IInv, [Next]_vars
             PROVE  IInv'
  OBVIOUS
<1>1. CASE \E a \in 1..Attempts :
              \/ Start(a) \/ Read(a) \/ Build(a) \/ RepairBuild(a) \/ GiveUp(a) \/ Upload(a)
              \/ Send(a) \/ Answered(a) \/ Disconnect(a) \/ TimeOut(a) \/ Complete(a)
  BY <1>1, StartKeeps, MeasurementsKeep, RepairBuildKeeps, SendKeeps, ShippingStepsKeep
<1>2. CASE \E r \in DOMAIN requests : CheckLease(r) \/ ReadRows(r) \/ Record(r) \/ Break(r)
  BY <1>2, RequestStepsKeep
<1>3. CASE Lapse
  BY <1>3, LapseKeeps
<1>4. CASE UNCHANGED vars
  <2>1. UNCHANGED <<job, runs, rows>> /\ UNCHANGED requests
    BY <1>4 DEF vars
  <2>2. Types'
    BY <2>1 DEF IInv, Types, JobRow
  <2>3. Deliveries'
    <3>1. EventsStand
      BY <2>1 DEF EventsStand
    <3> QED BY <2>1, <3>1, DeliveriesStand DEF IInv
  <2> QED BY <2>1, <2>2, <2>3, SendersHaveMeasured, RequestsKeep
<1> QED BY <1>1, <1>2, <1>3, <1>4 DEF Next

\* A row stands for one place of one run, and no other row has its key.
LEMMA TheLedgerCountsOnce == IInv => NothingCountedTwice
<1> SUFFICES ASSUME IInv
             PROVE  NothingCountedTwice
  OBVIOUS
<1>1. DOMAIN runs = 1..Attempts
  BY DEF IInv, Types
<1>2. ASSUME NEW e \in rows, e # Normalized
      PROVE  \E a \in 1..Attempts : \E i \in DOMAIN runs[a].events :
                /\ e = Row(runs[a].events[i], e.by)
                /\ e.id = <<a, i>> /\ e.key = runs[a].events[i].key
  <2>1. PICK a \in 1..Attempts : \E i \in DOMAIN runs[a].events :
                e = Row(runs[a].events[i], e.by)
    BY <1>2 DEF IInv, Ledger, RowsAreMeasured
  <2>2. PICK i \in DOMAIN runs[a].events : e = Row(runs[a].events[i], e.by)
    BY <2>1
  <2>3. e.id = <<a, i>> /\ e.key = runs[a].events[i].key
    BY <2>2 DEF Row, IInv, IdsArePlaces
  <2> QED BY <2>2, <2>3
<1>3. Normalized.id = <<0, 1>>
  BY DEF Normalized, Row
<1>4. Ids(rows) \subseteq Measured
  <2> SUFFICES ASSUME NEW e \in rows
               PROVE  e.id \in Measured
    BY DEF Ids
  <2>1. CASE e = Normalized
    BY <2>1 DEF Measured, Ids
  <2>2. CASE e # Normalized
    <3>1. PICK a \in 1..Attempts : \E i \in DOMAIN runs[a].events :
                  e = Row(runs[a].events[i], e.by)
      BY <1>2, <2>2
    <3>2. PICK i \in DOMAIN runs[a].events : e = Row(runs[a].events[i], e.by)
      BY <3>1
    <3>3. e.id = runs[a].events[i].id
      BY <3>2 DEF Row
    <3>4. e.id \in Ids(ToSet(runs[a].events))
      BY <3>2, <3>3 DEF Ids, ToSet
    <3> QED BY <1>1, <3>4 DEF Measured
  <2> QED BY <2>1, <2>2
<1>5. ASSUME NEW e \in rows, NEW f \in rows, e.id = f.id
      PROVE  e.key = f.key
  <2>1. CASE e = Normalized /\ f = Normalized
    BY <2>1
  <2>2. CASE e # Normalized /\ f # Normalized
    <3>1. PICK a \in 1..Attempts : \E i \in DOMAIN runs[a].events :
             e.id = <<a, i>> /\ e.key = runs[a].events[i].key
      BY <1>2, <2>2
    <3>2. PICK b \in 1..Attempts : \E j \in DOMAIN runs[b].events :
             f.id = <<b, j>> /\ f.key = runs[b].events[j].key
      BY <1>2, <2>2
    <3>3. PICK i \in DOMAIN runs[a].events :
             e.id = <<a, i>> /\ e.key = runs[a].events[i].key
      BY <3>1
    <3>4. PICK j \in DOMAIN runs[b].events :
             f.id = <<b, j>> /\ f.key = runs[b].events[j].key
      BY <3>2
    <3>5. <<a, i>> = <<b, j>>
      BY <1>5, <3>3, <3>4
    <3>6. a = b /\ i = j
      BY ONLY <3>5
    <3> QED BY <3>3, <3>4, <3>6
  <2>3. ASSUME NEW g \in rows, g # Normalized
        PROVE  g.id # Normalized.id
    <3>1. PICK a \in 1..Attempts : \E i \in DOMAIN runs[a].events : g.id = <<a, i>>
      BY <1>2, <2>3
    <3>2. PICK i \in DOMAIN runs[a].events : g.id = <<a, i>>
      BY <3>1
    <3>3. <<a, i>>[1] = a /\ <<0, 1>>[1] = 0 /\ a # 0
      OBVIOUS
    <3> QED BY <1>3, <3>2, <3>3
  <2> QED BY <1>5, <2>1, <2>2, <2>3
<1> QED BY <1>4, <1>5 DEF NothingCountedTwice, IInv, Ledger, KeysAreUnique

\* What the worker keeps, what it holds back and what the ledger took fit together
\* at every step.
THEOREM LedgerIsSound == Spec => []IInv
<1> QED BY InitIsSound, NextKeeps, PTL DEF Spec

\* However often a batch is sent, and whatever its deliveries overtake, no
\* measurement is in the ledger twice, and none that no run made
\* (ledger/service.py:5).
THEOREM TheLedgerNeverCountsTwice == Spec => []NothingCountedTwice
<1> QED BY LedgerIsSound, TheLedgerCountsOnce, PTL

\* A batch is in the ledger whole or not at all, and whole once the worker was
\* told so of every batch it has sent.
THEOREM TheLedgerTakesWholeBatches == Spec => []BatchesAreWhole
<1>1. IInv => BatchesAreWhole
  BY DEF IInv
<1> QED BY <1>1, LedgerIsSound, PTL

-----------------------------------------------------------------------------
(* A run that repairs no build makes no key twice, and then the API        *)
(* refuses it nothing it has not booked, as long as it holds the job.      *)

\* What a run has measured before it measures at its next stage.
MeasuredBy(stage) ==
  CASE stage = "build"  -> {<<"transfer:input", 1>>, <<"ai:drawing_analysis", 1>>}
    [] stage = "upload" -> {<<"transfer:input", 1>>, <<"ai:drawing_analysis", 1>>,
                            <<"cad:session", 1>>, <<"cad:operation:document_build", 1>>}
    [] OTHER -> {}

KeysAreOwn(a, list) == \A i \in DOMAIN list : list[i].key[1] = a

KeysAreNew(list, at) ==
  /\ Unique(list)
  /\ at \in Before => \A i \in DOMAIN list : list[i].key[2] \in MeasuredBy(at)

OwnKeys ==
  \A a \in 1..Attempts :
     /\ KeysAreOwn(a, runs[a].events)
     /\ runs[a].repairs = 0 => KeysAreNew(runs[a].events, runs[a].stage)

\* A delivery is of a batch there is and has seen rows of that batch's keys; if it
\* was refused, its run is waiting for that answer.
Kept(r) ==
  /\ r[2] <= Batches(r[1])
  /\ requests[r].phase = "read" =>
        \A s \in requests[r].seen : s.key \in KeysOf(ToSet(Events(r)))
  /\ requests[r].answer = "rejected" =>
        /\ requests[r].phase = "over"
        /\ runs[r[1]].stage = "ship" /\ r = Current(r[1])
        /\ runs[r[1]].repairs = 0 /\ Owns(r[1]) => Booked(Events(r))

HInv == IInv /\ OwnKeys /\ \A r \in DOMAIN requests : Kept(r)

LEMMA UniqueParts ==
  ASSUME NEW S, NEW list \in Seq(S), NEW m \in Nat, NEW n \in Nat, n <= Len(list),
         Unique(list)
  PROVE  Unique(SubSeq(list, m + 1, n))
<1> DEFINE part == SubSeq(list, m + 1, n)
<1>1. /\ DOMAIN part \subseteq Nat \ {0}
      /\ \A i \in DOMAIN part : m + i \in DOMAIN list /\ part[i] = list[m + i]
  BY Slices
<1> HIDE DEF part
<1>2. ASSUME NEW i \in DOMAIN part, NEW j \in DOMAIN part, part[i].key = part[j].key
      PROVE  i = j
  <2>1. m + i = m + j
    BY <1>1, <1>2 DEF Unique
  <2> QED BY <1>1, <2>1
<1> QED BY <1>2 DEF Unique, part

LEMMA BatchesAreUnique ==
  ASSUME Types, OwnKeys, NEW a \in 1..Attempts, NEW b \in Nat \ {0}, runs[a].repairs = 0
  PROVE  Unique(Batch(a, b))
<1> DEFINE list == runs[a].events
           m == (b - 1) * BatchSize
           n == Least(b * BatchSize, Len(list))
<1>1. m \in Nat /\ b * BatchSize \in Nat
  BY LimitsAreNumbers
<1>2. list \in Seq(Measurement) /\ Len(list) \in Nat /\ Unique(list)
  BY RunsAreTyped DEF OwnKeys, KeysAreNew
<1>3. n \in Nat /\ n <= Len(list)
  BY <1>1, <1>2 DEF Least
<1>4. Batch(a, b) = SubSeq(list, m + 1, n)
  BY DEF Batch
<1> HIDE DEF list, m, n
<1> QED BY <1>1, <1>2, <1>3, <1>4, UniqueParts

\* Two rows of one key are one row, so what has the key of a measurement is it.
LEMMA KeysTellMeasurements ==
  ASSUME IInv, OwnKeys, NEW e \in rows, NEW a \in 1..Attempts,
         NEW i \in DOMAIN runs[a].events, e.key = runs[a].events[i].key,
         runs[a].repairs = 0
  PROVE  e.id = runs[a].events[i].id
<1>1. runs[a].events[i] \in Measurement /\ runs[a].events[i].key[1] = a
  BY RunsAreTyped DEF IInv, OwnKeys, KeysAreOwn
<1>2. e # Normalized
  <2>1. Normalized.key[2] = <<"normalize:cad_ir", 1>>
    BY DEF Normalized, Row, Key
  <2>2. runs[a].events[i].key[2] \in Kind
    BY <1>1 DEF Measurement
  <2>3. <<"normalize:cad_ir", 1>> \notin Kind
    BY DEF Kind
  <2> QED BY <2>1, <2>2, <2>3
<1>3. PICK c \in 1..Attempts : \E j \in DOMAIN runs[c].events : e = Row(runs[c].events[j], e.by)
  BY <1>2 DEF IInv, Ledger, RowsAreMeasured
<1>4. PICK j \in DOMAIN runs[c].events : e = Row(runs[c].events[j], e.by)
  BY <1>3
<1>5. e.key = runs[c].events[j].key /\ e.id = runs[c].events[j].id
  BY <1>4 DEF Row
<1>6. c = a
  BY <1>1, <1>5 DEF OwnKeys, KeysAreOwn
<1>7. i = j
  BY <1>5, <1>6 DEF OwnKeys, KeysAreNew, Unique
<1> QED BY <1>5, <1>6, <1>7

LEMMA EventsHavePlaces ==
  ASSUME IInv, NEW r \in DOMAIN requests, NEW f \in ToSet(Events(r))
  PROVE  \E i \in DOMAIN runs[r[1]].events :
            f = runs[r[1]].events[i] /\ f = [key |-> f.key, id |-> f.id]
<1>1. r[1] \in 1..Attempts /\ r[2] \in Nat \ {0}
  BY SendersHaveMeasured
<1>2. PICK i \in Span(r[1], r[2]) : f = runs[r[1]].events[i]
  BY <1>1, BatchIsASpan DEF IInv, Events
<1>3. i \in DOMAIN runs[r[1]].events
  BY DEF Span
<1>4. f \in Measurement
  BY <1>1, <1>2, <1>3, RunsAreTyped DEF IInv
<1> QED BY <1>2, <1>3, <1>4 DEF Measurement

\* What a delivery has seen is as it would have written it.
LEMMA NothingClashes ==
  ASSUME IInv, OwnKeys, NEW r \in DOMAIN requests, Kept(r), requests[r].phase = "read",
         runs[r[1]].repairs = 0
  PROVE  ~Clashes(r)
<1> SUFFICES ASSUME NEW s \in requests[r].seen
             PROVE  s \in ToSet(Events(r))
  BY DEF Clashes
<1>1. PICK e \in rows : s = [key |-> e.key, id |-> e.id]
  BY DEF IInv, Deliveries, SeenAreRows
<1>2. PICK f \in ToSet(Events(r)) : s.key = f.key
  BY DEF Kept, KeysOf
<1>3. PICK i \in DOMAIN runs[r[1]].events :
        f = runs[r[1]].events[i] /\ f = [key |-> f.key, id |-> f.id]
  BY EventsHavePlaces
<1>4. e.id = f.id
  BY <1>1, <1>2, <1>3, SendersHaveMeasured, KeysTellMeasurements
<1> QED BY <1>1, <1>2, <1>3, <1>4

\* What the table does not admit, it has: all of the batch.
LEMMA RefusedIsBooked ==
  ASSUME IInv, OwnKeys, NEW r \in DOMAIN requests, Kept(r), ~Admits(Fresh(r)),
         runs[r[1]].repairs = 0
  PROVE  Booked(Events(r))
<1>1. r[1] \in 1..Attempts /\ r[2] \in Nat \ {0} /\ runs[r[1]].stage \notin Before
  BY SendersHaveMeasured
<1>2. PICK n \in Fresh(r), e \in rows : n.key = e.key
  BY DEF Admits, KeysOf
<1>3. PICK f \in ToSet(Events(r)) : n = Row(f, r)
  BY DEF Fresh
<1>4. PICK i \in DOMAIN runs[r[1]].events : f = runs[r[1]].events[i]
  BY EventsHavePlaces
<1>5. e.id = f.id
  BY <1>1, <1>2, <1>3, <1>4, KeysTellMeasurements DEF Row
<1>6. ~Absent(Events(r))
  BY <1>5 DEF Absent, Ids
<1>7. r[2] \in 1..Batches(r[1])
  BY <1>1, BatchesAreNumbers DEF Kept, IInv
<1> QED BY <1>1, <1>6, <1>7 DEF IInv, BatchesAreWhole, Events, Before

\* A delivery that nothing happens to, and whose run goes on waiting.
LEMMA KeptStays ==
  ASSUME IInv, NEW r \in DOMAIN requests, Kept(r), r \in DOMAIN requests',
         requests'[r] = requests[r], runs'[r[1]].events = runs[r[1]].events,
         rows \subseteq rows',
         requests[r].answer = "rejected" =>
            runs'[r[1]] = runs[r[1]] /\ (Owns(r[1])' => Owns(r[1]))
  PROVE  Kept(r)'
<1>1. Batches(r[1])' = Batches(r[1]) /\ Events(r)' = Events(r)
  BY DEF Batches, Events, Batch, Least
<1>2. requests'[r].phase = "read" =>
         \A s \in requests'[r].seen : s.key \in KeysOf(ToSet(Events(r)'))
  BY <1>1 DEF Kept
<1>3. ASSUME requests'[r].answer = "rejected"
      PROVE  /\ requests'[r].phase = "over"
             /\ runs'[r[1]].stage = "ship" /\ r = Current(r[1])'
             /\ runs'[r[1]].repairs = 0 /\ Owns(r[1])' => Booked(Events(r))'
  <2>1. /\ requests[r].phase = "over" /\ runs[r[1]].stage = "ship" /\ r = Current(r[1])
        /\ runs[r[1]].repairs = 0 /\ Owns(r[1]) => Booked(Events(r))
    BY <1>3 DEF Kept
  <2>2. Current(r[1])' = Current(r[1])
    BY <1>3 DEF Current
  <2>3. Booked(Events(r)) => Booked(Events(r))'
    BY <1>1 DEF Booked, Ids
  <2> QED BY <1>3, <2>1, <2>2, <2>3
<1> QED BY <1>1, <1>2, <1>3 DEF Kept, KeysOf

LEMMA OwnKeysStay ==
  ASSUME OwnKeys, EventsStand,
         \A a \in 1..Attempts : runs'[a].repairs = runs[a].repairs,
         \A a \in 1..Attempts : runs'[a].stage \in Before =>
            runs[a].stage \in Before /\ MeasuredBy(runs[a].stage) \subseteq MeasuredBy(runs'[a].stage)
  PROVE  OwnKeys'
<1> SUFFICES ASSUME NEW a \in 1..Attempts
             PROVE  /\ KeysAreOwn(a, runs'[a].events)
                    /\ runs'[a].repairs = 0 => KeysAreNew(runs'[a].events, runs'[a].stage)
  BY DEF OwnKeys, KeysAreOwn, KeysAreNew
<1>1. runs'[a].events = runs[a].events
  BY DEF EventsStand
<1>2. KeysAreOwn(a, runs[a].events)
  BY DEF OwnKeys
<1>3. ASSUME runs'[a].repairs = 0
      PROVE  KeysAreNew(runs[a].events, runs'[a].stage)
  <2>1. KeysAreNew(runs[a].events, runs[a].stage)
    BY <1>3 DEF OwnKeys
  <2> QED BY <2>1 DEF KeysAreNew
<1> QED BY <1>1, <1>2, <1>3

\* What is noted comes after what was.
LEMMA NotedAfter ==
  ASSUME Types, NEW a \in 1..Attempts, NEW whats \in Seq(Kind)
  PROVE  LET n == Len(runs[a].events)
         IN  \A k \in DOMAIN Noted(a, whats) :
               /\ k \in Int /\ n \in Int
               /\ \/ k \in DOMAIN runs[a].events /\ Noted(a, whats)[k] = runs[a].events[k]
                  \/ k - n \in DOMAIN whats /\ Noted(a, whats)[k].key = Key(a, whats[k - n])
<1> DEFINE old == runs[a].events
           n == Len(old)
           new == [i \in DOMAIN whats |-> [key |-> Key(a, whats[i]), id |-> <<a, n + i>>]]
<1>1. old \in Seq(Measurement) /\ n \in Nat /\ DOMAIN old = 1..n
  BY RunsAreTyped
<1>2. a \in Nat /\ DOMAIN whats = 1..Len(whats) /\ Len(whats) \in Nat
  BY LimitsAreNumbers
<1>3. ASSUME NEW i \in DOMAIN whats
      PROVE  [key |-> Key(a, whats[i]), id |-> <<a, n + i>>] \in Measurement
  <2>1. whats[i] \in Kind /\ n + i \in Nat
    BY <1>1, <1>2
  <2> QED BY <1>2, <2>1 DEF Measurement, Key
<1>4. new \in Seq(Measurement) /\ Len(new) = Len(whats)
  BY <1>2, <1>3
<1>5. \A i \in DOMAIN whats : new[i].key = Key(a, whats[i])
  OBVIOUS
<1>6. Noted(a, whats) = old \o new
  BY DEF Noted
<1> HIDE DEF old, n, new
<1>7. /\ old \o new \in Seq(Measurement)
      /\ Len(old \o new) = Len(old) + Len(new)
      /\ \A i \in 1..(Len(old) + Len(new)) :
           (old \o new)[i] = IF i <= Len(old) THEN old[i] ELSE new[i - Len(old)]
  BY <1>1, <1>4, ConcatProperties
<1>8. ASSUME NEW k \in DOMAIN (old \o new)
      PROVE  /\ k \in Int
             /\ \/ k \in DOMAIN old /\ (old \o new)[k] = old[k]
                \/ k - n \in DOMAIN whats /\ (old \o new)[k].key = Key(a, whats[k - n])
  <2>1. k \in 1..(Len(old) + Len(new)) /\ Len(old) = n /\ Len(new) = Len(whats)
    BY <1>1, <1>4, <1>7 DEF n
  <2>2. CASE k <= n
    BY <1>1, <1>7, <2>1, <2>2
  <2>3. CASE k > n
    <3>1. k - n \in DOMAIN whats
      BY <1>1, <1>2, <2>1, <2>3
    <3>2. (old \o new)[k] = new[k - n]
      BY <1>1, <1>7, <2>1, <2>3
    <3> QED BY <1>5, <2>1, <3>1, <3>2
  <2> QED BY <1>1, <2>1, <2>2, <2>3
<1> QED BY <1>1, <1>6, <1>8 DEF old, n

Distinct(whats) == \A i, j \in DOMAIN whats : whats[i] = whats[j] => i = j

\* A run that measures what it has not measured keeps its keys apart.
LEMMA MoveKeepsKeys ==
  ASSUME IInv, OwnKeys, NEW a \in 1..Attempts, NEW whats \in Seq(Kind), NEW stage \in Stages,
         runs[a].stage \in Before, Move(a, stage, whats), Distinct(whats),
         ToSet(whats) \cap MeasuredBy(runs[a].stage) = {},
         stage \in Before =>
            MeasuredBy(runs[a].stage) \cup ToSet(whats) \subseteq MeasuredBy(stage)
  PROVE  OwnKeys' /\ \A c \in 1..Attempts : c # a => runs'[c] = runs[c]
<1> DEFINE old == runs[a].events
           new == Noted(a, whats)
           n == Len(old)
<1>1. \A k \in DOMAIN new :
         /\ k \in Int /\ n \in Int
         /\ \/ k \in DOMAIN old /\ new[k] = old[k]
            \/ k - n \in DOMAIN whats /\ new[k].key = Key(a, whats[k - n])
  BY NotedAfter DEF IInv
<1>2. /\ \A i \in DOMAIN old : old[i].key[1] = a
      /\ runs[a].repairs = 0 =>
           Unique(old) /\ \A i \in DOMAIN old : old[i].key[2] \in MeasuredBy(runs[a].stage)
  BY DEF OwnKeys, KeysAreOwn, KeysAreNew
<1>3. \A j \in DOMAIN whats : /\ Key(a, whats[j])[1] = a /\ Key(a, whats[j])[2] = whats[j]
                              /\ whats[j] \in ToSet(whats)
  BY DEF Key, ToSet
<1>4. /\ runs'[a].events = new /\ runs'[a].stage = stage /\ runs'[a].repairs = runs[a].repairs
      /\ \A c \in 1..Attempts : c # a => runs'[c] = runs[c]
  <2>1. runs[a] \in Run /\ runs = [c \in 1..Attempts |-> runs[c]]
    BY RunsAreTyped DEF IInv, Types
  <2> DEFINE run == [runs[a] EXCEPT !.stage = stage, !.events = new]
  <2>2. run.events = new /\ run.stage = stage /\ run.repairs = runs[a].repairs
    BY <2>1 DEF Run
  <2>3. runs' = [runs EXCEPT ![a] = run]
    BY DEF Move, IInv, Types
  <2> HIDE DEF run, new
  <2> QED BY <2>1, <2>2, <2>3
<1> HIDE DEF old, new, n
<1>5. ASSUME runs[a].repairs = 0
      PROVE  Unique(new)
  <2> SUFFICES ASSUME NEW i \in DOMAIN new, NEW j \in DOMAIN new, new[i].key = new[j].key
               PROVE  i = j
    BY DEF Unique
  <2>1. CASE i \in DOMAIN old /\ new[i] = old[i] /\ j \in DOMAIN old /\ new[j] = old[j]
    BY <1>2, <1>5, <2>1 DEF Unique
  <2>2. CASE /\ i - n \in DOMAIN whats /\ new[i].key = Key(a, whats[i - n])
             /\ j - n \in DOMAIN whats /\ new[j].key = Key(a, whats[j - n])
    <3>1. whats[i - n] = whats[j - n]
      BY <1>3, <2>2
    <3>2. i - n = j - n
      BY <2>2, <3>1 DEF Distinct
    <3> QED BY <1>1, <3>2
  <2>3. \A k \in DOMAIN old, m \in DOMAIN whats : old[k].key # Key(a, whats[m])
    BY <1>2, <1>3, <1>5
  <2> QED BY <1>1, <2>1, <2>2, <2>3
<1>6. \A i \in DOMAIN new : new[i].key[1] = a
  BY <1>1, <1>2, <1>3
<1>7. runs[a].repairs = 0 /\ stage \in Before => \A i \in DOMAIN new : new[i].key[2] \in MeasuredBy(stage)
  BY <1>1, <1>2, <1>3
<1>8. KeysAreOwn(a, new) /\ (runs[a].repairs = 0 => KeysAreNew(new, stage))
  BY <1>5, <1>6, <1>7 DEF KeysAreOwn, KeysAreNew
<1>9. ASSUME NEW c \in 1..Attempts
      PROVE  /\ KeysAreOwn(c, runs'[c].events)
             /\ runs'[c].repairs = 0 => KeysAreNew(runs'[c].events, runs'[c].stage)
  <2>1. CASE c = a
    BY <1>4, <1>8, <2>1
  <2>2. CASE c # a
    BY <1>4, <2>2 DEF OwnKeys
  <2> QED BY <2>1, <2>2
<1> QED BY <1>4, <1>9 DEF OwnKeys, KeysAreOwn, KeysAreNew, Unique

\* A repair is measured too; it is of this run, whatever keys it repeats.
LEMMA RepairKeepsKeys ==
  ASSUME IInv, OwnKeys, NEW a \in 1..Attempts, RepairBuild(a)
  PROVE  OwnKeys' /\ \A c \in 1..Attempts : c # a => runs'[c] = runs[c]
<1> DEFINE whats == Append(BuildMeasures, <<"ai:build_repair", runs[a].repairs + 1>>)
           new == Noted(a, whats)
           run == [runs[a] EXCEPT !.repairs = @ + 1, !.events = new]
<1>1. runs[a] \in Run /\ runs[a].repairs \in Nat /\ runs = [c \in 1..Attempts |-> runs[c]]
  BY RunsAreTyped DEF IInv, Types, Run
<1>2. whats \in Seq(Kind)
  BY <1>1, KindsOfMeasurements
<1>3. runs' = [runs EXCEPT ![a] = run]
  BY DEF RepairBuild, IInv, Types
<1> HIDE DEF whats
<1>4. \A k \in DOMAIN new : new[k].key[1] = a
  <2>1. \A i \in DOMAIN runs[a].events : runs[a].events[i].key[1] = a
    BY DEF OwnKeys, KeysAreOwn
  <2>2. \A what : Key(a, what)[1] = a
    BY DEF Key
  <2> QED BY <1>2, <2>1, <2>2, NotedAfter DEF IInv
<1> HIDE DEF new
<1>5. run.events = new /\ run.repairs = runs[a].repairs + 1
  BY <1>1 DEF Run
<1> HIDE DEF run
<1>6. /\ runs'[a] = run /\ run.repairs # 0
      /\ \A c \in 1..Attempts : c # a => runs'[c] = runs[c]
  BY <1>1, <1>3, <1>5
<1>7. ASSUME NEW c \in 1..Attempts
      PROVE  /\ KeysAreOwn(c, runs'[c].events)
             /\ runs'[c].repairs = 0 => KeysAreNew(runs'[c].events, runs'[c].stage)
  <2>1. CASE c = a
    BY <1>4, <1>5, <1>6, <2>1 DEF KeysAreOwn
  <2>2. CASE c # a
    BY <1>6, <2>2 DEF OwnKeys
  <2> QED BY <2>1, <2>2
<1> QED BY <1>6, <1>7 DEF OwnKeys, KeysAreOwn, KeysAreNew, Unique

\* What is measured stage by stage differs.
LEMMA StagesDiffer ==
  LET input == <<<<"transfer:input", 1>>, <<"ai:drawing_analysis", 1>>>>
      artifact == <<<<"transfer:artifact", 1>>>>
  IN  /\ Distinct(input) /\ ToSet(input) = MeasuredBy("build")
      /\ Distinct(BuildMeasures) /\ ToSet(BuildMeasures) \cap MeasuredBy("build") = {}
      /\ MeasuredBy("build") \cup ToSet(BuildMeasures) = MeasuredBy("upload")
      /\ Distinct(artifact) /\ ToSet(artifact) \cap MeasuredBy("upload") = {}
      /\ MeasuredBy("off") = {} /\ MeasuredBy("read") = {}
<1> DEFINE input == <<<<"transfer:input", 1>>, <<"ai:drawing_analysis", 1>>>>
           artifact == <<<<"transfer:artifact", 1>>>>
<1>1. /\ MeasuredBy("build") = {<<"transfer:input", 1>>, <<"ai:drawing_analysis", 1>>}
      /\ MeasuredBy("upload") = {<<"transfer:input", 1>>, <<"ai:drawing_analysis", 1>>,
                                 <<"cad:session", 1>>, <<"cad:operation:document_build", 1>>}
      /\ MeasuredBy("off") = {} /\ MeasuredBy("read") = {}
  BY DEF MeasuredBy
<1>2. /\ DOMAIN input = {1, 2} /\ input[1] = <<"transfer:input", 1>>
      /\ input[2] = <<"ai:drawing_analysis", 1>>
      /\ DOMAIN BuildMeasures = {1, 2} /\ BuildMeasures[1] = <<"cad:session", 1>>
      /\ BuildMeasures[2] = <<"cad:operation:document_build", 1>>
      /\ DOMAIN artifact = {1} /\ artifact[1] = <<"transfer:artifact", 1>>
  BY DEF BuildMeasures
<1> HIDE DEF input, artifact
<1>3. /\ ToSet(input) = {<<"transfer:input", 1>>, <<"ai:drawing_analysis", 1>>}
      /\ ToSet(BuildMeasures) = {<<"cad:session", 1>>, <<"cad:operation:document_build", 1>>}
      /\ ToSet(artifact) = {<<"transfer:artifact", 1>>}
  BY <1>2 DEF ToSet
<1>4. \A x, y : <<x, 1>> = <<y, 1>> => x = y
  OBVIOUS
<1>5. /\ <<"transfer:input", 1>> # <<"ai:drawing_analysis", 1>>
      /\ <<"cad:session", 1>> # <<"cad:operation:document_build", 1>>
      /\ <<"cad:session", 1>> \notin MeasuredBy("build")
      /\ <<"cad:operation:document_build", 1>> \notin MeasuredBy("build")
      /\ <<"transfer:artifact", 1>> \notin MeasuredBy("upload")
  BY <1>1, <1>4
<1>6. Distinct(input) /\ Distinct(BuildMeasures) /\ Distinct(artifact)
  BY <1>2, <1>5 DEF Distinct
<1> QED BY <1>1, <1>3, <1>5, <1>6 DEF input, artifact

AllKept == \A r \in DOMAIN requests : Kept(r)

\* The steps of a run that measures: it has nothing in the API.
LEMMA MeasuringKeepsAll ==
  ASSUME HInv, NEW a \in 1..Attempts,
         Read(a) \/ Build(a) \/ RepairBuild(a) \/ GiveUp(a) \/ Upload(a)
  PROVE  OwnKeys' /\ AllKept'
<1>1. /\ runs[a].stage \in Before /\ UNCHANGED <<job, requests, rows>>
      /\ OwnKeys' /\ \A c \in 1..Attempts : c # a => runs'[c] = runs[c]
  <2>1. IInv /\ OwnKeys
    BY DEF HInv
  <2>2. CASE Read(a)
    <3> DEFINE input == <<<<"transfer:input", 1>>, <<"ai:drawing_analysis", 1>>>>
    <3>1. /\ input \in Seq(Kind) /\ Distinct(input) /\ ToSet(input) = MeasuredBy("build")
          /\ MeasuredBy("read") = {}
      BY KindsOfMeasurements, StagesDiffer
    <3>2. runs[a].stage = "read" /\ Move(a, "build", input) /\ UNCHANGED <<job, requests, rows>>
      BY <2>2 DEF Read
    <3> HIDE DEF input
    <3>3. "build" \in Stages /\ "read" \in Before
      BY DEF Stages, Before
    <3> QED BY <2>1, <3>1, <3>2, <3>3, MoveKeepsKeys
  <2>3. CASE Build(a) \/ GiveUp(a)
    <3>1. /\ BuildMeasures \in Seq(Kind) /\ Distinct(BuildMeasures)
          /\ ToSet(BuildMeasures) \cap MeasuredBy("build") = {}
          /\ MeasuredBy("build") \cup ToSet(BuildMeasures) = MeasuredBy("upload")
      BY KindsOfMeasurements, StagesDiffer
    <3>2. PICK stage \in {"upload", "over"} : Move(a, stage, BuildMeasures)
      BY <2>3 DEF Build, GiveUp
    <3>3. runs[a].stage = "build" /\ UNCHANGED <<job, requests, rows>>
      BY <2>3 DEF Build, GiveUp
    <3>4. stage \in Stages /\ "build" \in Before /\ (stage \in Before => stage = "upload")
      BY DEF Stages, Before
    <3> QED BY <2>1, <3>1, <3>2, <3>3, <3>4, MoveKeepsKeys
  <2>4. CASE Upload(a)
    <3> DEFINE artifact == <<<<"transfer:artifact", 1>>>>
    <3>1. /\ artifact \in Seq(Kind) /\ Distinct(artifact)
          /\ ToSet(artifact) \cap MeasuredBy("upload") = {}
      BY KindsOfMeasurements, StagesDiffer
    <3>2. runs[a].stage = "upload" /\ Move(a, "ship", artifact) /\ UNCHANGED <<job, requests, rows>>
      BY <2>4 DEF Upload
    <3> HIDE DEF artifact
    <3>3. "ship" \in Stages /\ "upload" \in Before /\ "ship" \notin Before
      BY DEF Stages, Before
    <3> QED BY <2>1, <3>1, <3>2, <3>3, MoveKeepsKeys
  <2>5. CASE RepairBuild(a)
    BY <2>1, <2>5, RepairKeepsKeys DEF RepairBuild, Before
  <2> QED BY <2>2, <2>3, <2>4, <2>5
<1>2. ASSUME NEW r \in DOMAIN requests
      PROVE  Kept(r)'
  <2>1. r[1] \in 1..Attempts /\ r[1] # a
    BY <1>1, SendersHaveMeasured DEF HInv
  <2>2. runs'[r[1]] = runs[r[1]] /\ Owns(r[1])' = Owns(r[1])
    BY <1>1, <2>1 DEF Owns
  <2> QED BY <1>1, <2>2, KeptStays DEF HInv
<1> QED BY <1>1, <1>2 DEF AllKept

\* A machine starts on the job again only when its earlier runs of it have ended.
LEMMA StartKeepsAll ==
  ASSUME HInv, NEW a \in 1..Attempts, Start(a)
  PROVE  OwnKeys' /\ AllKept'
<1>1. job.attempt = a - 1 /\ job.attempt \in Int /\ UNCHANGED <<requests, rows>>
  BY DEF Start, HInv, IInv, Types
<1>2. \A c \in 1..Attempts : c >= a => runs[c].stage = "off"
  BY <1>1 DEF HInv, IInv, OffIsUntouched
<1>3. /\ \A c \in 1..Attempts : c # a => runs'[c] = runs[c]
      /\ runs'[a].stage = "read"
      /\ \A c \in 1..Attempts :
           /\ runs'[c].events = runs[c].events /\ runs'[c].worker = runs[c].worker
           /\ runs'[c].repairs = runs[c].repairs
  <2>1. runs[a] \in Run /\ runs = [c \in 1..Attempts |-> runs[c]]
    BY RunsAreTyped DEF HInv, IInv, Types
  <2> DEFINE run == [runs[a] EXCEPT !.stage = "read"]
  <2>2. /\ run.events = runs[a].events /\ run.stage = "read"
        /\ run.worker = runs[a].worker /\ run.repairs = runs[a].repairs
    BY <2>1 DEF Run
  <2>3. runs' = [runs EXCEPT ![a] = run]
    BY DEF Start, HInv, IInv, Types
  <2> HIDE DEF run
  <2> QED BY <2>1, <2>2, <2>3
<1>4. OwnKeys'
  <2>1. EventsStand
    BY <1>3 DEF EventsStand
  <2>2. \A c \in 1..Attempts : runs'[c].stage \in Before =>
           runs[c].stage \in Before /\ MeasuredBy(runs[c].stage) \subseteq MeasuredBy(runs'[c].stage)
    <3>1. runs[a].stage = "off" /\ "off" \in Before /\ MeasuredBy("off") = {}
      BY <1>2, StagesDiffer DEF Before
    <3> QED BY <1>3, <3>1
  <2> QED BY <1>3, <2>1, <2>2, OwnKeysStay DEF HInv
<1>5. ASSUME NEW r \in DOMAIN requests
      PROVE  Kept(r)'
  <2>1. r[1] \in 1..Attempts /\ runs[r[1]].stage \notin Before
    BY SendersHaveMeasured DEF HInv
  <2>2. r[1] \in 1..(a - 1)
    BY <1>1, <1>2, <2>1 DEF Before
  <2>3. ASSUME requests[r].answer = "rejected"
        PROVE  ~Owns(r[1])'
    <3>1. runs[r[1]].stage \notin Ended
      BY <2>3 DEF HInv, Kept, Ended
    <3>2. runs[r[1]].worker # runs[a].worker
      BY <2>2, <3>1 DEF Start
    <3>3. job'.owner = runs[a].worker
      BY DEF Start
    <3> QED BY <1>3, <2>1, <3>2, <3>3 DEF Owns
  <2>4. runs'[r[1]] = runs[r[1]]
    BY <1>2, <1>3, <2>1 DEF Before
  <2> QED BY <1>1, <2>3, <2>4, KeptStays DEF HInv
<1> QED BY <1>1, <1>4, <1>5 DEF AllKept

LEMMA SendKeepsAll ==
  ASSUME HInv, NEW a \in 1..Attempts, Send(a)
  PROVE  OwnKeys' /\ AllKept'
<1> PICK r : r = Current(a)
  OBVIOUS
<1> DEFINE sent == [phase |-> "sent", seen |-> {}, answer |-> "none"]
<1>1. /\ UNCHANGED <<job, runs, rows>> /\ r \notin DOMAIN requests
      /\ DOMAIN requests' = DOMAIN requests \cup {r}
      /\ \A q \in DOMAIN requests : requests'[q] = requests[q]
      /\ requests'[r] = sent
  BY DEF Send
<1>2. OwnKeys'
  BY <1>1 DEF HInv, OwnKeys, KeysAreOwn, KeysAreNew, Unique
<1>3. \A q \in DOMAIN requests : Kept(q)'
  <2> TAKE q \in DOMAIN requests
  <2>1. q \in DOMAIN requests' /\ requests'[q] = requests[q] /\ runs'[q[1]] = runs[q[1]]
        /\ Owns(q[1])' = Owns(q[1])
    BY <1>1 DEF Owns
  <2> QED BY <1>1, <2>1, KeptStays DEF HInv
<1>4. Kept(r)'
  <2>1. r[1] = a /\ r[2] = runs[a].batch /\ runs[a].batch <= Batches(a)
    BY DEF Send, Current
  <2>2. Batches(r[1])' = Batches(r[1])
    BY <1>1 DEF Batches
  <2> QED BY <1>1, <2>1, <2>2 DEF Kept
<1> QED BY <1>1, <1>2, <1>3, <1>4 DEF AllKept

\* A run that ships changes nothing it has measured, and no other run.
LEMMA OneRunMoves ==
  ASSUME HInv, NEW a \in 1..Attempts, NEW run, runs' = [runs EXCEPT ![a] = run],
         run.events = runs[a].events, run.repairs = runs[a].repairs, run.stage \notin Before
  PROVE  /\ OwnKeys'
         /\ \A c \in 1..Attempts : runs'[c].events = runs[c].events /\ (c # a => runs'[c] = runs[c])
<1>1. runs = [c \in 1..Attempts |-> runs[c]]
  BY DEF HInv, IInv, Types
<1>2. \A c \in 1..Attempts :
         runs'[c].events = runs[c].events /\ (c # a => runs'[c] = runs[c])
  BY <1>1
<1>3. runs'[a] = run
  BY <1>1
<1>4. EventsStand
  BY <1>2 DEF EventsStand
<1>5. \A c \in 1..Attempts : runs'[c].stage \in Before =>
         runs[c].stage \in Before /\ MeasuredBy(runs[c].stage) \subseteq MeasuredBy(runs'[c].stage)
  BY <1>2, <1>3
<1>6. \A c \in 1..Attempts : runs'[c].repairs = runs[c].repairs
  BY <1>2, <1>3
<1> QED BY <1>2, <1>4, <1>5, <1>6, OwnKeysStay DEF HInv

\* What a shipping run becomes.
Shipped(a, run) ==
  run.events = runs[a].events /\ run.repairs = runs[a].repairs /\ run.stage \notin Before

MovesOn(a) == \E run : runs' = [runs EXCEPT ![a] = run] /\ Shipped(a, run)

LEMMA ShippersMove ==
  ASSUME HInv, NEW a \in 1..Attempts,
         Answered(a) \/ Disconnect(a) \/ TimeOut(a) \/ Complete(a)
  PROVE  /\ OwnKeys'
         /\ \A c \in 1..Attempts : runs'[c].events = runs[c].events /\ (c # a => runs'[c] = runs[c])
<1>1. runs[a] \in Run /\ runs[a].stage = "ship"
  BY RunsAreTyped DEF HInv, IInv, Answered, Disconnect, TimeOut, Complete, Waiting
<1>2. MovesOn(a)
  <2>1. ASSUME NEW booked, NextBatch(a, booked)
        PROVE  MovesOn(a)
    <3> DEFINE both == runs[a].booked /\ booked
               run == [runs[a] EXCEPT !.batch = @ + 1, !.try = 1, !.booked = both]
    <3>1. runs' = [runs EXCEPT ![a] = run]
      BY <2>1 DEF NextBatch, HInv, IInv, Types
    <3> HIDE DEF both
    <3>2. run.events = runs[a].events /\ run.repairs = runs[a].repairs /\ run.stage = "ship"
      BY <1>1 DEF Run
    <3> HIDE DEF run
    <3> QED BY <3>1, <3>2 DEF Before, MovesOn, Shipped
  <2>2. ASSUME runs' = [runs EXCEPT ![a].try = @ + 1]
        PROVE  MovesOn(a)
    <3> DEFINE run == [runs[a] EXCEPT !.try = @ + 1]
    <3>1. runs' = [runs EXCEPT ![a] = run]
      BY <2>2 DEF HInv, IInv, Types
    <3>2. run.events = runs[a].events /\ run.repairs = runs[a].repairs /\ run.stage = "ship"
      BY <1>1 DEF Run
    <3> HIDE DEF run
    <3> QED BY <3>1, <3>2 DEF Before, MovesOn, Shipped
  <2>3. ASSUME NEW stage \in Ended, runs' = [runs EXCEPT ![a].stage = stage]
        PROVE  MovesOn(a)
    <3> DEFINE run == [runs[a] EXCEPT !.stage = stage]
    <3>1. runs' = [runs EXCEPT ![a] = run]
      BY <2>3 DEF HInv, IInv, Types
    <3>2. run.events = runs[a].events /\ run.repairs = runs[a].repairs /\ run.stage = stage
      BY <1>1 DEF Run
    <3>3. stage \notin Before
      BY DEF Ended, Before
    <3> HIDE DEF run
    <3> QED BY <3>1, <3>2, <3>3 DEF MovesOn, Shipped
  <2>4. ASSUME Again(a)
        PROVE  MovesOn(a)
    BY <2>1, <2>2, <2>4 DEF Again
  <2>5. CASE Answered(a)
    <3>1. requests[Current(a)].answer \in Answers
      BY <2>5 DEF Answered, Waiting, HInv, IInv, Types
    <3>2. NextBatch(a, TRUE) \/ NextBatch(a, FALSE) \/ Again(a)
      BY <2>5, <3>1 DEF Answered, Answers
    <3> QED BY <2>1, <2>4, <3>2
  <2>6. CASE Disconnect(a)
    BY <2>4, <2>6 DEF Disconnect
  <2>7. CASE TimeOut(a)
    BY <2>3, <2>7 DEF TimeOut, Ended
  <2>8. CASE Complete(a)
    BY <2>3, <2>8 DEF Complete, Ended
  <2> QED BY <2>5, <2>6, <2>7, <2>8
<1>3. PICK run : runs' = [runs EXCEPT ![a] = run] /\ Shipped(a, run)
  BY <1>2 DEF MovesOn
<1> QED BY <1>3, OneRunMoves DEF Shipped

\* A run whose request was refused takes no step before it has heard so.
LEMMA ShippersKeepAll ==
  ASSUME HInv, NEW a \in 1..Attempts,
         Answered(a) \/ Disconnect(a) \/ TimeOut(a) \/ Complete(a)
  PROVE  OwnKeys' /\ AllKept'
<1>1. /\ OwnKeys'
      /\ \A c \in 1..Attempts : runs'[c].events = runs[c].events /\ (c # a => runs'[c] = runs[c])
  BY ShippersMove
<1>2. /\ rows' = rows
      /\ DOMAIN requests' \subseteq DOMAIN requests
      /\ \A r \in DOMAIN requests' : requests'[r] = requests[r]
      /\ Answered(a) => Current(a) \notin DOMAIN requests'
  BY DEF Answered, Disconnect, TimeOut, Complete, Restrict
<1>3. job' = job \/ job'.status = "done"
  <2>1. job = JobRow
    BY DEF HInv, IInv, Types
  <2> QED BY <2>1 DEF Answered, Disconnect, TimeOut, Complete, JobRow
<1>4. ASSUME NEW r \in DOMAIN requests'
      PROVE  Kept(r)'
  <2>1. r \in DOMAIN requests /\ r[1] \in 1..Attempts /\ Kept(r)
    BY <1>2, SendersHaveMeasured DEF HInv
  <2>2. ASSUME requests[r].answer = "rejected"
        PROVE  r[1] # a
    <3> SUFFICES ASSUME r[1] = a
                 PROVE  FALSE
      OBVIOUS
    <3>1. r = Current(a) /\ requests[r].phase = "over" /\ r[2] <= Batches(a)
      BY <2>1, <2>2 DEF Kept
    <3>2. r[2] = runs[a].batch
      BY <3>1 DEF Current
    <3>3. r[2] \in Int /\ Batches(a) \in Int
      BY <2>1, SendersHaveMeasured, BatchesAreNumbers DEF HInv, IInv
    <3>4. CASE Answered(a)
      BY <1>2, <3>1, <3>4
    <3>5. CASE Disconnect(a) \/ TimeOut(a)
      BY <3>1, <3>5 DEF Disconnect, TimeOut
    <3>6. CASE Complete(a)
      BY <3>1, <3>2, <3>3, <3>6 DEF Complete
    <3> QED BY <3>4, <3>5, <3>6
  <2>3. requests[r].answer = "rejected" =>
           runs'[r[1]] = runs[r[1]] /\ (Owns(r[1])' => Owns(r[1]))
    BY <1>1, <1>3, <2>1, <2>2 DEF Owns
  <2> QED BY <1>1, <1>2, <2>1, <2>3, KeptStays DEF HInv
<1> QED BY <1>1, <1>4 DEF AllKept

LEMMA LapseKeepsAll ==
  ASSUME HInv, Lapse
  PROVE  OwnKeys' /\ AllKept'
<1>1. UNCHANGED <<runs, requests, rows>>
  BY DEF Lapse
<1>2. job'.status # "leased"
  <2>1. job = JobRow
    BY DEF HInv, IInv, Types
  <2>2. job'.status \in {"pending", "failed"}
    BY <2>1 DEF Lapse, JobRow
  <2> QED BY <2>2
<1>3. OwnKeys'
  BY <1>1 DEF HInv, OwnKeys, KeysAreOwn, KeysAreNew, Unique
<1>4. \A r \in DOMAIN requests : Kept(r)'
  <2> TAKE r \in DOMAIN requests
  <2>1. ~Owns(r[1])'
    BY <1>2 DEF Owns
  <2> QED BY <1>1, <2>1, KeptStays DEF HInv
<1> QED BY <1>1, <1>3, <1>4 DEF AllKept

\* One delivery changes, and the rest stays.
LEMMA OneDeliveryMoves ==
  ASSUME HInv, NEW r \in DOMAIN requests, UNCHANGED <<job, runs>>, rows \subseteq rows',
         DOMAIN requests' \subseteq DOMAIN requests,
         \A q \in DOMAIN requests' : q # r => requests'[q] = requests[q],
         r \in DOMAIN requests' => Kept(r)'
  PROVE  OwnKeys' /\ AllKept'
<1>1. OwnKeys'
  BY DEF HInv, OwnKeys, KeysAreOwn, KeysAreNew, Unique
<1>2. ASSUME NEW q \in DOMAIN requests', q # r
      PROVE  Kept(q)'
  <2>1. requests'[q] = requests[q] /\ q \in DOMAIN requests /\ (Owns(q[1])' => Owns(q[1]))
    BY <1>2 DEF Owns
  <2> QED BY <2>1, KeptStays DEF HInv
<1> QED BY <1>1, <1>2 DEF AllKept

\* What is refused by an answer is refused to a run that waits for it.
LEMMA RepliesAreKept ==
  ASSUME HInv, NEW r \in DOMAIN requests, NEW answer \in Answers, Reply(r, answer),
         UNCHANGED <<job, runs>>, rows \subseteq rows',
         answer = "rejected" /\ runs[r[1]].repairs = 0 /\ Owns(r[1]) => Booked(Events(r))
  PROVE  OwnKeys' /\ AllKept'
<1> DEFINE over == [phase |-> "over", seen |-> requests[r].seen, answer |-> answer]
<1>1. requests[r] = [phase |-> requests[r].phase, seen |-> requests[r].seen,
                     answer |-> requests[r].answer]
  BY DEF HInv, IInv, Types
<1>2. [[requests[r] EXCEPT !.phase = "over"] EXCEPT !.answer = answer] = over
  <2> DEFINE mid == [phase |-> "over", seen |-> requests[r].seen,
                     answer |-> requests[r].answer]
  <2>1. [requests[r] EXCEPT !.phase = "over"] = mid
    BY <1>1
  <2>2. [mid EXCEPT !.answer = answer] = over
    OBVIOUS
  <2> QED BY <2>1, <2>2
<1>3. /\ DOMAIN requests' \subseteq DOMAIN requests
      /\ \A q \in DOMAIN requests' : q # r => requests'[q] = requests[q]
      /\ r \in DOMAIN requests' =>
            requests'[r] = over /\ Waiting(r[1]) /\ r = Current(r[1])
  <2>1. CASE /\ Waiting(r[1]) /\ r = Current(r[1])
             /\ requests' = [requests EXCEPT ![r].phase = "over", ![r].answer = answer]
    <3>1. requests' = [requests EXCEPT ![r] = over]
      BY <1>2, <2>1
    <3> HIDE DEF over
    <3>2. requests = [q \in DOMAIN requests |-> requests[q]]
      BY DEF HInv, IInv, Types
    <3> QED BY <2>1, <3>1, <3>2
  <2>2. CASE requests' = Restrict(requests, DOMAIN requests \ {r})
    BY <2>2 DEF Restrict
  <2> QED BY <2>1, <2>2 DEF Reply
<1>4. over.phase = "over" /\ over.answer = answer
  OBVIOUS
<1> HIDE DEF over
<1>5. ASSUME r \in DOMAIN requests'
      PROVE  Kept(r)'
  <2>1. Events(r)' = Events(r) /\ Batches(r[1])' = Batches(r[1]) /\ Owns(r[1])' = Owns(r[1])
        /\ Current(r[1])' = Current(r[1])
    BY DEF Events, Batch, Least, Batches, Owns, Current
  <2>2. r[2] <= Batches(r[1])
    BY DEF HInv, Kept
  <2>3. answer = "rejected" /\ runs'[r[1]].repairs = 0 /\ Owns(r[1])' => Booked(Events(r))'
    BY <2>1 DEF Booked, Ids
  <2>4. requests'[r].phase = "over" /\ requests'[r].answer = answer
    BY <1>3, <1>4, <1>5
  <2>5. runs'[r[1]].stage = "ship" /\ r = Current(r[1])'
    BY <1>3, <1>5, <2>1 DEF Waiting
  <2> QED BY <2>1, <2>2, <2>3, <2>4, <2>5 DEF Kept
<1> QED BY <1>3, <1>5, OneDeliveryMoves

LEMMA CheckLeaseKeepsAll ==
  ASSUME HInv, NEW r \in DOMAIN requests, CheckLease(r)
  PROVE  OwnKeys' /\ AllKept'
<1>1. UNCHANGED <<job, runs, rows>> /\ requests[r].phase = "sent"
  BY DEF CheckLease
<1>2. r[1] \in 1..Attempts /\ r[2] \in Nat \ {0}
  BY SendersHaveMeasured DEF HInv
<1>3. runs[r[1]].repairs = 0 => Unique(Events(r))
  BY <1>2, BatchesAreUnique DEF HInv, IInv, Events
<1>4. CASE requests' = [requests EXCEPT ![r].phase = "held"]
  <2>1. requests[r] = [phase |-> requests[r].phase, seen |-> requests[r].seen,
                       answer |-> requests[r].answer]
        /\ requests = [q \in DOMAIN requests |-> requests[q]]
    BY DEF HInv, IInv, Types
  <2> DEFINE held == [phase |-> "held", seen |-> requests[r].seen, answer |-> requests[r].answer]
  <2>2. [requests[r] EXCEPT !.phase = "held"] = held
    BY <2>1
  <2>3. requests' = [requests EXCEPT ![r] = held]
    BY <1>4, <2>2
  <2>4. held.phase = "held" /\ held.answer = requests[r].answer
    OBVIOUS
  <2> HIDE DEF held
  <2>5. /\ DOMAIN requests' = DOMAIN requests /\ requests'[r] = held
        /\ \A q \in DOMAIN requests : q # r => requests'[q] = requests[q]
    BY <2>1, <2>3
  <2>6. Kept(r)'
    <3>1. r[2] <= Batches(r[1]) /\ Batches(r[1])' = Batches(r[1])
      BY <1>1 DEF HInv, Kept, Batches
    <3>2. requests[r].answer # "rejected"
      BY <1>1 DEF HInv, Kept
    <3> QED BY <2>4, <2>5, <3>1, <3>2 DEF Kept
  <2> QED BY <1>1, <2>5, <2>6, OneDeliveryMoves
<1>5. CASE ~(Unique(Events(r)) /\ Owns(r[1])) /\ Reply(r, "rejected")
  BY <1>1, <1>3, <1>5, RepliesAreKept DEF Answers
<1> QED BY <1>3, <1>4, <1>5 DEF CheckLease

LEMMA ReadRowsKeepsAll ==
  ASSUME HInv, NEW r \in DOMAIN requests, ReadRows(r)
  PROVE  OwnKeys' /\ AllKept'
<1> DEFINE keys == KeysOf(ToSet(Events(r)))
           found == {[key |-> e.key, id |-> e.id] : e \in {f \in rows : f.key \in keys}}
<1>1. UNCHANGED <<job, runs, rows>> /\ requests[r].phase = "held"
  BY DEF ReadRows
<1>2. \A s \in found : s.key \in keys
  OBVIOUS
<1>3. requests' = [requests EXCEPT ![r].phase = "read", ![r].seen = found]
  BY DEF ReadRows
<1>4. keys' = keys
  BY <1>1 DEF Events, Batch, Least, KeysOf
<1> HIDE DEF found, keys
<1>5. requests[r] = [phase |-> requests[r].phase, seen |-> requests[r].seen,
                     answer |-> requests[r].answer]
      /\ requests = [q \in DOMAIN requests |-> requests[q]]
  BY DEF HInv, IInv, Types
<1> DEFINE read == [phase |-> "read", seen |-> found, answer |-> requests[r].answer]
<1>6. [[requests[r] EXCEPT !.phase = "read"] EXCEPT !.seen = found] = read
  <2> DEFINE mid == [phase |-> "read", seen |-> requests[r].seen,
                     answer |-> requests[r].answer]
  <2>1. [requests[r] EXCEPT !.phase = "read"] = mid
    BY <1>5
  <2>2. [mid EXCEPT !.seen = found] = read
    OBVIOUS
  <2> QED BY <2>1, <2>2
<1>7. requests' = [requests EXCEPT ![r] = read]
  BY <1>3, <1>6
<1>8. read.phase = "read" /\ read.answer = requests[r].answer /\ read.seen = found
  OBVIOUS
<1> HIDE DEF read
<1>9. /\ DOMAIN requests' = DOMAIN requests /\ requests'[r] = read
      /\ \A q \in DOMAIN requests : q # r => requests'[q] = requests[q]
  BY <1>5, <1>7
<1>10. Kept(r)'
  <2>1. r[2] <= Batches(r[1]) /\ Batches(r[1])' = Batches(r[1])
    BY <1>1 DEF HInv, Kept, Batches
  <2>2. requests[r].answer # "rejected"
    BY <1>1 DEF HInv, Kept
  <2>3. \A s \in requests'[r].seen : s.key \in KeysOf(ToSet(Events(r)))'
    BY <1>2, <1>4, <1>8, <1>9 DEF keys
  <2> QED BY <1>8, <1>9, <2>1, <2>2, <2>3 DEF Kept
<1> QED BY <1>1, <1>9, <1>10, OneDeliveryMoves

LEMMA DeliveriesKeepAll ==
  ASSUME HInv, NEW r \in DOMAIN requests,
         CheckLease(r) \/ ReadRows(r) \/ Record(r) \/ Break(r)
  PROVE  OwnKeys' /\ AllKept'
<1>1. CASE Record(r)
  <2>1. UNCHANGED <<job, runs>> /\ requests[r].phase = "read" /\ Flush(r)
    BY <1>1 DEF Record
  <2>2. CASE Clashes(r) \/ ~Admits(Fresh(r))
    <3>1. runs[r[1]].repairs = 0 => Booked(Events(r))
      BY <2>1, <2>2, NothingClashes, RefusedIsBooked DEF HInv
    <3> QED BY <2>1, <2>2, <3>1, RepliesAreKept DEF Flush, Answers
  <2>3. CASE ~Clashes(r) /\ Admits(Fresh(r))
    BY <2>1, <2>3, RepliesAreKept DEF Flush, Answers
  <2> QED BY <2>2, <2>3
<1>2. CASE Break(r)
  BY <1>2, RepliesAreKept DEF Break, Answers
<1> QED BY <1>1, <1>2, CheckLeaseKeepsAll, ReadRowsKeepsAll

LEMMA HoldersNextKeeps ==
  ASSUME HInv, [Next]_vars
  PROVE  HInv'
<1>1. IInv'
  BY NextKeeps DEF HInv
<1>2. CASE \E a \in 1..Attempts :
              \/ Start(a) \/ Read(a) \/ Build(a) \/ RepairBuild(a) \/ GiveUp(a) \/ Upload(a)
              \/ Send(a) \/ Answered(a) \/ Disconnect(a) \/ TimeOut(a) \/ Complete(a)
  <2>1. PICK a \in 1..Attempts :
              \/ Start(a) \/ Read(a) \/ Build(a) \/ RepairBuild(a) \/ GiveUp(a) \/ Upload(a)
              \/ Send(a) \/ Answered(a) \/ Disconnect(a) \/ TimeOut(a) \/ Complete(a)
    BY <1>2
  <2>2. OwnKeys' /\ AllKept'
    BY <2>1, StartKeepsAll, MeasuringKeepsAll, SendKeepsAll, ShippersKeepAll
  <2> QED BY <1>1, <2>2 DEF HInv, AllKept
<1>3. CASE \E r \in DOMAIN requests : CheckLease(r) \/ ReadRows(r) \/ Record(r) \/ Break(r)
  BY <1>1, <1>3, DeliveriesKeepAll DEF HInv, AllKept
<1>4. CASE Lapse
  BY <1>1, <1>4, LapseKeepsAll DEF HInv, AllKept
<1>5. CASE UNCHANGED vars
  <2>1. UNCHANGED <<job, runs, rows>> /\ UNCHANGED requests
    BY <1>5 DEF vars
  <2>2. OwnKeys'
    BY <2>1 DEF HInv, OwnKeys, KeysAreOwn, KeysAreNew, Unique
  <2>3. ASSUME NEW r \in DOMAIN requests
        PROVE  Kept(r)'
    <3>1. Owns(r[1])' = Owns(r[1])
      BY <2>1 DEF Owns
    <3> QED BY <2>1, <3>1, KeptStays DEF HInv
  <2> QED BY <1>1, <2>1, <2>2, <2>3 DEF HInv
<1> QED BY <1>2, <1>3, <1>4, <1>5 DEF Next

LEMMA HoldersStartSound == Init => HInv
<1> SUFFICES ASSUME Init
             PROVE  HInv
  OBVIOUS
<1>1. IInv /\ requests = <<>>
  BY InitIsSound DEF Init
<1>2. \A a \in 1..Attempts : runs[a].events = <<>>
  BY DEF Init, Idle
<1>3. OwnKeys
  BY <1>2 DEF OwnKeys, KeysAreOwn, KeysAreNew, Unique
<1> QED BY <1>1, <1>3 DEF HInv

UnrepairedAreBooked ==
  \A r \in DOMAIN requests :
     requests[r].answer = "rejected" /\ runs[r[1]].repairs = 0 /\ Owns(r[1]) =>
        Booked(Events(r))

\* The API refuses the run that holds the job no batch but one it has already, as
\* long as the run has repaired no build: it is only the second CAD session that
\* gives a key a second meaning (ResourceLedger.cs:132).
THEOREM UnrepairedRunsAreBooked == Spec => []UnrepairedAreBooked
<1>1. HInv /\ [Next]_vars => HInv'
  BY HoldersNextKeeps
<1>2. HInv => UnrepairedAreBooked
  BY DEF HInv, Kept, UnrepairedAreBooked
<1> QED BY <1>1, <1>2, HoldersStartSound, PTL DEF Spec

-----------------------------------------------------------------------------
(* What a job is charged.                                                  *)

\* What a caller is about to delete was a draft when it looked, and a row never
\* changes its status.
DraftsAreDrafts ==
  /\ callers = [c \in Callers |-> callers[c]]
  /\ \A c \in Callers : Saving(c) =>
        \A draft \in callers[c].drafts : draft.status = "DRAFT"

LEMMA DraftsStayDrafts == DraftsAreDrafts /\ [CostNext]_costVars => DraftsAreDrafts'
<1> SUFFICES ASSUME DraftsAreDrafts, [CostNext]_costVars
             PROVE  DraftsAreDrafts'
  OBVIOUS
<1>1. CASE UNCHANGED callers
  BY <1>1 DEF DraftsAreDrafts, Saving
<1>2. ASSUME NEW c \in Callers, NEW status \in {"DRAFT", "FINAL"}, Begin(c, status)
      PROVE  DraftsAreDrafts'
  <2>1. callers' = [callers EXCEPT ![c] =
          [doing |-> status, breakdown |-> callers[c].breakdown, drafts |-> Rows("DRAFT")]]
    BY <1>2 DEF Begin
  <2>2. \A draft \in Rows("DRAFT") : draft.status = "DRAFT"
    BY DEF Rows
  <2> QED BY <2>1, <2>2 DEF DraftsAreDrafts, Saving
<1>3. ASSUME NEW c \in Callers, callers' = [callers EXCEPT ![c] = Resting]
      PROVE  DraftsAreDrafts'
  BY <1>3 DEF DraftsAreDrafts, Saving, Resting
<1>4. ASSUME NEW c \in Callers, Calculate(c)
      PROVE  DraftsAreDrafts'
  <2>1. PICK b : callers' = [callers EXCEPT ![c] = [doing |-> "calculated", breakdown |-> b]]
    BY <1>4 DEF Calculate
  <2> QED BY <2>1 DEF DraftsAreDrafts, Saving
<1> QED BY <1>1, <1>2, <1>3, <1>4
        DEF CostNext, costVars, RecordEvent, Publish, Commit, Abandon

\* A commit beside a final snapshot deletes drafts and adds one.
LEMMA CommitsKeepTheFinal ==
  ASSUME DraftsAreDrafts, NEW c \in Callers, Commit(c), Rows("FINAL") # {}
  PROVE  Rows("FINAL")' = Rows("FINAL")
<1> DEFINE new == [id |-> saved, status |-> callers[c].doing, price |-> callers[c].breakdown.price]
<1>1. callers[c].doing = "DRAFT"
  BY DEF Commit, MayInsert, Saving
<1>2. new.status = "DRAFT"
  BY <1>1
<1>3. snapshots' = (snapshots \ callers[c].drafts) \cup {new}
  BY DEF Commit
<1>4. \A draft \in callers[c].drafts : draft.status = "DRAFT"
  BY DEF Commit, DraftsAreDrafts
<1> HIDE DEF new
<1> QED BY <1>2, <1>3, <1>4 DEF Rows

\* Whatever callers overlap, a final price is stored once and for good, and from
\* then on it is the one that is shown (costing/service.py:3).
THEOREM FinalPricesStand == CostSpec => FinalPriceStands
<1>1. CostInit => DraftsAreDrafts
  BY DEF CostInit, DraftsAreDrafts, Saving, Resting
<1>2. DraftsAreDrafts /\ [CostNext]_costVars =>
        [Rows("FINAL") # {} => Rows("FINAL")' = Rows("FINAL") /\ Show' = Show]_costVars
  <2> SUFFICES ASSUME DraftsAreDrafts, CostNext, Rows("FINAL") # {}
               PROVE  Rows("FINAL")' = Rows("FINAL") /\ Show' = Show
    BY DEF costVars
  <2>1. Rows("FINAL")' = Rows("FINAL")
    <3>1. CASE UNCHANGED snapshots
      BY <3>1 DEF Rows
    <3>2. CASE \E c \in Callers : Commit(c)
      BY <3>2, CommitsKeepTheFinal
    <3> QED BY <3>1, <3>2 DEF CostNext, RecordEvent, Publish, Calculate, Begin, Abandon
  <2>2. Show = {s.price : s \in Rows("FINAL")}
    BY DEF Show
  <2>3. Show' = {s.price : s \in Rows("FINAL")'}
    BY <2>1 DEF Show
  <2> QED BY <2>1, <2>2, <2>3
<1> QED BY <1>1, <1>2, DraftsStayDrafts, PTL DEF CostSpec, FinalPriceStands

----------------------------------------------------------------------------
(* What there is to price: a finite ledger of events that the contracts    *)
(* accept, and profiles that were offered.                                 *)

CostTypes ==
  /\ IsFiniteSet(events) /\ events \subseteq Measurable
  /\ published \subseteq Offered

LEMMA CostTypesHold == CostInit => CostTypes
BY FS_EmptySet DEF CostInit, CostTypes

LEMMA CostTypesKeep == CostTypes /\ [CostNext]_costVars => CostTypes'
<1> SUFFICES ASSUME CostTypes, [CostNext]_costVars
             PROVE  CostTypes'
  OBVIOUS
<1>1. CASE RecordEvent
  <2>1. PICK e \in Measurable : events' = events \cup {e}
    BY <1>1 DEF RecordEvent
  <2>2. IsFiniteSet(events \cup {e})
    BY FS_AddElement DEF CostTypes
  <2> QED BY <1>1, <2>1, <2>2 DEF RecordEvent, CostTypes
<1>2. CASE Publish
  BY <1>2 DEF Publish, CostTypes
<1>3. CASE UNCHANGED <<events, published>>
  BY <1>3 DEF CostTypes
<1> QED BY <1>1, <1>2, <1>3 DEF CostNext, costVars, Calculate, Begin, Commit, Abandon

\* What the contracts accept of an event.
WellMeasured(E) ==
  /\ IsFiniteSet(E)
  /\ \A e \in E : /\ e.start \in Nat /\ e.tokens \in Nat /\ e.minutes \in Nat
                  /\ e.finish = Never \/ (e.finish \in Nat /\ e.finish >= e.start)

LEMMA EventsAreMeasured == CostTypes => WellMeasured(events)
BY CostsAssumption DEF CostTypes, WellMeasured

-----------------------------------------------------------------------------
(* The time billed.  The spans of a ledger can be put in order, so the list *)
(* that is chosen has each of them once and in order; while it is merged,  *)
(* what has been added up and the stretch still open are the seconds the   *)
(* spans so far cover.                                                     *)

Pairs == Nat \X Nat

LEMMA PairsAreTotallyOrdered ==
  /\ \A s \in Pairs : s[1] \in Nat /\ s[2] \in Nat /\ s = <<s[1], s[2]>> /\ InOrder(s, s)
  /\ \A s, t \in Pairs : InOrder(s, t) \/ InOrder(t, s)
  /\ \A s, t, u \in Pairs : InOrder(s, t) /\ InOrder(t, u) => InOrder(s, u)
BY DEF Pairs, InOrder

LEMMA LastSpan ==
  ASSUME NEW S \in SUBSET Pairs, IsFiniteSet(S), S # {}
  PROVE  \E last \in S : \A s \in S : InOrder(s, last)
<1> DEFINE Latest(s, x) == x \in s /\ \A y \in s : InOrder(y, x)
           T == {s \in SUBSET S : s # {} => \E x \in s : Latest(s, x)}
<1>1. {} \in T
  OBVIOUS
<1>2. ASSUME NEW s \in SUBSET S, s # {}
      PROVE  \E x \in s : s \ {x} \in T => s \in T
  <2>1. PICK x \in s : TRUE
    BY <1>2
  <2>2. ASSUME s \ {x} \in T
        PROVE  \E z \in s : Latest(s, z)
    <3>1. CASE s \ {x} = {}
      <4>1. Latest(s, x)
        BY <3>1, PairsAreTotallyOrdered
      <4> QED BY <4>1
    <3>2. CASE s \ {x} # {}
      <4>1. PICK y \in s \ {x} : Latest(s \ {x}, y)
        BY <2>2, <3>2
      <4>2. x \in Pairs /\ y \in Pairs /\ s \subseteq Pairs
        OBVIOUS
      <4>3. CASE InOrder(x, y)
        <5>1. Latest(s, y)
          BY <4>1, <4>3
        <5> QED BY <4>1, <5>1
      <4>4. CASE InOrder(y, x)
        <5>1. \A z \in s : InOrder(z, x)
          BY <4>1, <4>2, <4>4, PairsAreTotallyOrdered
        <5> QED BY <5>1
      <4> QED BY <4>2, <4>3, <4>4, PairsAreTotallyOrdered
    <3> QED BY <3>1, <3>2
  <2> QED BY <2>2
<1> HIDE DEF T
<1>3. S \in T
  BY <1>1, <1>2, SetsByInduction
<1> QED BY <1>3 DEF T

\* The list has every element of S, in order.
InTurn(list, S) ==
  /\ list \in [1 .. Cardinality(S) -> S]
  /\ \A i, j \in 1 .. Cardinality(S) : i < j => InOrder(list[i], list[j]) /\ list[i] # list[j]

\* The last span goes behind the others put in order.
LEMMA SpansCanBeSorted ==
  ASSUME NEW S \in SUBSET Pairs, IsFiniteSet(S)
  PROVE  \E list : InTurn(list, S)
<1> DEFINE T == {s \in SUBSET S : \E list : InTurn(list, s)}
<1>0. \A s \in SUBSET S : IsFiniteSet(s) /\ Cardinality(s) \in Nat
  BY FS_Subset, FS_CardinalityType
<1>1. {} \in T
  <2>1. Cardinality({}) = 0 /\ 1 .. 0 = {}
    BY FS_EmptySet
  <2>2. InTurn([i \in 1 .. 0 |-> i], {})
    BY <2>1 DEF InTurn
  <2> QED BY <2>2
<1>2. ASSUME NEW s \in SUBSET S, s # {}
      PROVE  \E x \in s : s \ {x} \in T => s \in T
  <2>1. PICK x \in s : \A y \in s : InOrder(y, x)
    BY <1>0, <1>2, LastSpan
  <2>2. ASSUME s \ {x} \in T
        PROVE  s \in T
    <3> DEFINE n == Cardinality(s \ {x})
    <3>1. n \in Nat /\ Cardinality(s) = n + 1
      BY <1>0, CardinalityOfRest
    <3>2. PICK list : InTurn(list, s \ {x})
      BY <2>2
    <3>3. list \in [1 .. n -> s \ {x}]
      BY <3>2 DEF InTurn
    <3>4. \A i, j \in 1 .. n : i < j => InOrder(list[i], list[j]) /\ list[i] # list[j]
      BY <3>2 DEF InTurn
    <3> HIDE DEF n
    <3> DEFINE longer == [i \in 1 .. (n + 1) |-> IF i = n + 1 THEN x ELSE list[i]]
    <3>5. \A i \in 1 .. (n + 1) : i = n + 1 \/ i \in 1 .. n
      BY <3>1
    <3>6. longer \in [1 .. (n + 1) -> s]
      BY <3>3, <3>5
    <3>7. longer[n + 1] = x /\ \A i \in 1 .. n : longer[i] = list[i] /\ list[i] \in s \ {x}
      BY <3>1, <3>3
    <3> HIDE DEF longer
    <3>8. ASSUME NEW i \in 1 .. (n + 1), NEW j \in 1 .. (n + 1), i < j
          PROVE  InOrder(longer[i], longer[j]) /\ longer[i] # longer[j]
      <4>1. i \in 1 .. n
        BY <3>1, <3>8
      <4>2. CASE j = n + 1
        BY <2>1, <3>7, <4>1, <4>2
      <4>3. CASE j \in 1 .. n
        BY <3>4, <3>7, <3>8, <4>1, <4>3
      <4> QED BY <3>5, <4>2, <4>3
    <3>9. InTurn(longer, s)
      BY <3>1, <3>6, <3>8 DEF InTurn
    <3> QED BY <3>9
  <2> QED BY <2>2
<1> HIDE DEF T
<1>3. S \in T
  BY <1>1, <1>2, SetsByInduction
<1> QED BY <1>3 DEF T

\* n different elements of a set of n are all of it.
LEMMA AllInTurn ==
  ASSUME NEW S, IsFiniteSet(S), NEW list \in [1 .. Cardinality(S) -> S],
         \A i, j \in 1 .. Cardinality(S) : i < j => list[i] # list[j]
  PROVE  \A s \in S : \E i \in 1 .. Cardinality(S) : list[i] = s
<1> DEFINE n == Cardinality(S)
           R == {list[i] : i \in 1 .. n}
<1>1. n \in Nat
  BY FS_CardinalityType
<1>2. list \in Bijection(1 .. n, R)
  BY <1>1 DEF Bijection, Injection, Surjection, IsInjective
<1> HIDE DEF n
<1>3. Cardinality(R) = n
  BY <1>1, <1>2, FS_CountingElements DEF ExistsBijection
<1>4. R \in SUBSET S
  BY DEF n
<1>5. R = S
  BY <1>3, <1>4, FS_Subset DEF n
<1> QED BY <1>5 DEF n

LEMMA SortedIsInTurn ==
  ASSUME NEW S \in SUBSET Pairs, IsFiniteSet(S)
  PROVE  /\ InTurn(Sorted(S), S)
         /\ \A s \in S : \E i \in 1 .. Cardinality(S) : Sorted(S)[i] = s
<1> DEFINE n == Cardinality(S)
           Good(list) == \A i, j \in DOMAIN list :
                            i < j => InOrder(list[i], list[j]) /\ list[i] # list[j]
<1>1. \E list \in [1 .. n -> S] : Good(list)
  <2>1. PICK list : InTurn(list, S)
    BY SpansCanBeSorted
  <2>2. list \in [1 .. n -> S] /\ Good(list)
    BY <2>1 DEF InTurn
  <2> QED BY <2>2
<1>2. Sorted(S) \in [1 .. n -> S] /\ Good(Sorted(S))
  <2>1. Sorted(S) = CHOOSE list \in [1 .. n -> S] : Good(list)
    BY DEF Sorted
  <2> HIDE DEF Good, n
  <2> QED BY <1>1, <2>1
<1>3. InTurn(Sorted(S), S)
  BY <1>2 DEF InTurn
<1>4. Sorted(S) \in [1 .. n -> S] /\ \A i, j \in 1 .. n : i < j => Sorted(S)[i] # Sorted(S)[j]
  BY <1>3 DEF InTurn
<1>5. \A s \in S : \E i \in 1 .. n : Sorted(S)[i] = s
  BY ONLY <1>4, IsFiniteSet(S), AllInTurn
<1> QED BY <1>3, <1>5

State == [total : Int, begin : Int, end : Int]
NoSpan == [total |-> 0, begin |-> Never, end |-> Never]

\* fold[k] is what the first k spans come to.
Merges(fold, list, n) ==
  /\ fold \in [0 .. n -> State]
  /\ fold[0] = NoSpan
  /\ \A k \in 1 .. n : fold[k] = Merged(fold[k - 1], list[k])
  /\ fold[n] = MergedAll(list)

LEMMA MergesInTurn ==
  ASSUME NEW n \in Nat, NEW list \in [1 .. n -> Pairs]
  PROVE  \E fold : Merges(fold, list, n)
<1> DEFINE step == [x \in (1 .. n) \X State |-> Merged(x[2], list[x[1]])]
           New(f) == [s \in SUBSET (1 .. n) |->
                       IF s = {} THEN NoSpan ELSE Merged(f[s \ {Max(s)}], list[Max(s)])]
           iter == CHOOSE f : f = New(f)
           fold == [k \in 0 .. n |-> iter[1 .. k]]
<1>1. \A s \in State, x \in Pairs : Merged(s, x) \in State
  <2> SUFFICES ASSUME NEW s \in State, NEW x \in Pairs
               PROVE  Merged(s, x) \in State
    OBVIOUS
  <2>1. x[1] \in Int /\ x[2] \in Int /\ s.total \in Int /\ s.begin \in Int /\ s.end \in Int
    BY PairsAreTotallyOrdered DEF State
  <2>2. [total |-> s.total + s.end - s.begin, begin |-> x[1], end |-> x[2]] \in State
    BY <2>1 DEF State
  <2>3. [s EXCEPT !.end = x[2]] \in State
    BY <2>1 DEF State
  <2> QED BY <2>2, <2>3 DEF Merged
<1>2. step \in [(1 .. n) \X State -> State]
  BY <1>1
<1>3. NoSpan \in State
  BY DEF NoSpan, State, Never
<1>4. \A k \in 1 .. n, s \in State : step[<<k, s>>] = Merged(s, list[k])
  OBVIOUS
<1> HIDE DEF step
<1>5. PICK g : FoldTable(g, n, State, NoSpan, step)
  BY <1>2, <1>3, FoldTableExists
<1>6. g = New(g)
  <2>1. g \in [SUBSET (1 .. n) -> State]
    BY <1>5 DEF FoldTable
  <2>2. ASSUME NEW s \in SUBSET (1 .. n), s # {}
        PROVE  g[s] = Merged(g[s \ {Max(s)}], list[Max(s)])
    <3>1. s \in SUBSET (0 .. n)
      OBVIOUS
    <3>2. Max(s) \in 1 .. n /\ s \ {Max(s)} \in SUBSET (1 .. n)
      BY <2>2, <3>1, MaxIsGreatest
    <3>3. g[s] = step[<<Max(s), g[s \ {Max(s)}]>>]
      BY <1>5, <2>2 DEF FoldTable
    <3> QED BY <1>4, <2>1, <3>2, <3>3
  <2>3. {} \in SUBSET (1 .. n) => g[{}] = NoSpan
    BY <1>5 DEF FoldTable
  <2> QED BY <2>1, <2>2, <2>3
<1>7. MergedAll(list) = iter[1 .. n]
  <2>1. DOMAIN list = 1 .. n
    OBVIOUS
  <2> QED BY <2>1 DEF MergedAll, FoldLeft, MapThenFoldSet, NoSpan
<1> HIDE DEF New
<1>8. iter = New(iter)
  BY <1>6
<1> HIDE DEF iter
<1>9. \A s \in SUBSET (1 .. n) :
         iter[s] = IF s = {} THEN NoSpan ELSE Merged(iter[s \ {Max(s)}], list[Max(s)])
  BY <1>8 DEF New
<1>10. fold[0] = NoSpan
  <2>1. 1 .. 0 = {} /\ 0 \in 0 .. n
    OBVIOUS
  <2> QED BY <1>9, <2>1
<1>11. \A k \in 1 .. n : fold[k] = Merged(fold[k - 1], list[k])
  <2> SUFFICES ASSUME NEW k \in 1 .. n
               PROVE  fold[k] = Merged(fold[k - 1], list[k])
    OBVIOUS
  <2>1. 1 .. k # {} /\ Max(1 .. k) = k /\ (1 .. k) \ {k} = 1 .. (k - 1)
    <3>1. k \in Nat \ {0}
      OBVIOUS
    <3> QED BY <3>1, PlacesInTurn
  <2>2. k \in 0 .. n /\ k - 1 \in 0 .. n /\ 1 .. k \in SUBSET (1 .. n)
    OBVIOUS
  <2> QED BY <1>9, <2>1, <2>2
<1>12. fold[n] = MergedAll(list)
  BY <1>7
<1> HIDE DEF fold
<1>13. \A k \in Nat : k \in {j \in Nat : j <= n => fold[j] \in State}
  <2> DEFINE T == {j \in Nat : j <= n => fold[j] \in State}
  <2>1. 0 \in T
    BY <1>3, <1>10
  <2>2. ASSUME NEW k \in Nat, k \in T
        PROVE  k + 1 \in T
    <3> SUFFICES ASSUME k + 1 <= n
                 PROVE  fold[k + 1] \in State
      OBVIOUS
    <3>1. k + 1 \in 1 .. n /\ (k + 1) - 1 = k
      OBVIOUS
    <3>2. fold[k] \in State /\ list[k + 1] \in Pairs
      BY <2>2, <3>1
    <3> QED BY <1>1, <1>11, <3>1, <3>2
  <2> HIDE DEF T
  <2>3. Nat \subseteq T
    BY <2>1, <2>2, NumbersByInduction
  <2> QED BY <2>3 DEF T
<1>14. fold \in [0 .. n -> State]
  <2>1. \A k \in 0 .. n : k \in Nat /\ k <= n
    OBVIOUS
  <2>2. \A k \in 0 .. n : fold[k] \in State
    BY <1>13, <2>1
  <2> QED BY <2>2 DEF fold
<1> QED BY <1>10, <1>11, <1>12, <1>14 DEF Merges

Seconds(span) == span[1] .. (span[2] - 1)
Covered(list, k) == UNION {Seconds(list[i]) : i \in 1 .. k}

\* What has been added up and the stretch still open are the seconds the first k
\* spans cover, and no span to come begins before that stretch.
SoFar(state, list, k, n) ==
  /\ IsFiniteSet(Covered(list, k))
  /\ state.total + state.end - state.begin = Cardinality(Covered(list, k))
  /\ IF k = 0 THEN state = NoSpan
     ELSE /\ 0 <= state.begin /\ state.begin < state.end
          /\ \A i \in 1 .. k : list[i][2] <= state.end
          /\ \A i \in k .. n : state.begin <= list[i][1]
          /\ state.begin .. (state.end - 1) \subseteq Covered(list, k)

LEMMA CoveredGrows ==
  ASSUME NEW list, NEW k \in Nat
  PROVE  Covered(list, k + 1) = Covered(list, k) \cup Seconds(list[k + 1])
<1>1. 1 .. (k + 1) = (1 .. k) \cup {k + 1}
  OBVIOUS
<1> QED BY <1>1 DEF Covered

\* Seconds beyond a set are that many more.
LEMMA SecondsMore ==
  ASSUME NEW C, IsFiniteSet(C), NEW a \in Int, NEW b \in Int, a < b, C \cap (a .. (b - 1)) = {}
  PROVE  /\ IsFiniteSet(C \cup (a .. (b - 1)))
         /\ Cardinality(C \cup (a .. (b - 1))) = Cardinality(C) + (b - a)
<1> DEFINE J == a .. (b - 1)
<1>1. IsFiniteSet(J) /\ Cardinality(J) = b - a
  <2>1. b - 1 \in Int /\ ~(a > b - 1) /\ (b - 1) - a + 1 = b - a
    OBVIOUS
  <2> QED BY <2>1, FS_Interval
<1>2. C \cap J = {}
  OBVIOUS
<1> HIDE DEF J
<1>3. /\ IsFiniteSet(C \cup J)
      /\ Cardinality(C \cup J) = Cardinality(C) + Cardinality(J) - Cardinality(C \cap J)
  BY <1>1, FS_Union
<1>4. Cardinality(C \cap J) = 0 /\ Cardinality(C) \in Nat
  BY <1>2, FS_EmptySet, FS_CardinalityType
<1>5. IsFiniteSet(C \cup J) /\ Cardinality(C \cup J) = Cardinality(C) + (b - a)
  BY <1>1, <1>3, <1>4
<1> QED BY <1>5 DEF J

\* Spans that come in order, each of them a second or more.
Ordered(list, n) ==
  /\ list \in [1 .. n -> Pairs]
  /\ \A i \in 1 .. n : list[i][1] < list[i][2]
  /\ \A i, j \in 1 .. n : i < j => list[i][1] <= list[j][1]

LEMMA MergedStep ==
  ASSUME NEW n \in Nat, NEW list, Ordered(list, n), NEW k \in Nat, k + 1 <= n,
         NEW state \in State, SoFar(state, list, k, n)
  PROVE  SoFar(Merged(state, list[k + 1]), list, k + 1, n)
<1> DEFINE a == list[k + 1][1]
           b == list[k + 1][2]
           next == Merged(state, list[k + 1])
           C == Covered(list, k)
           D == Covered(list, k + 1)
<1>1. /\ a \in Nat /\ b \in Nat /\ a < b
      /\ \A i \in 1 .. n : list[i][1] \in Int /\ list[i][2] \in Int
  <2>1. k + 1 \in 1 .. n
    OBVIOUS
  <2>2. \A i \in 1 .. n : list[i][1] \in Nat /\ list[i][2] \in Nat
    BY PairsAreTotallyOrdered DEF Ordered
  <2> QED BY <2>1, <2>2 DEF Ordered
<1>2. \A i \in (k + 1) .. n : a <= list[i][1]
  <2>1. k + 1 \in 1 .. n /\ \A i \in (k + 1) .. n : i \in 1 .. n /\ (i = k + 1 \/ k + 1 < i)
    OBVIOUS
  <2> QED BY <1>1, <2>1 DEF Ordered
<1>3. D = C \cup (a .. (b - 1))
  BY CoveredGrows DEF Seconds
<1>4. IsFiniteSet(C) /\ Cardinality(C) \in Nat
  BY FS_CardinalityType DEF SoFar
<1>5. state.total \in Int /\ state.begin \in Int /\ state.end \in Int
  BY DEF State
<1>6. state.total + state.end - state.begin = Cardinality(C)
  BY DEF SoFar
<1>7. \A i \in 1 .. (k + 1) : i = k + 1 \/ i \in 1 .. k
  OBVIOUS
<1>8. next = IF state.end = Never \/ a > state.end
             THEN [total |-> state.total + state.end - state.begin, begin |-> a, end |-> b]
             ELSE IF b > state.end THEN [state EXCEPT !.end = b] ELSE state
  BY DEF Merged
<1>9. k # 0 => /\ 0 <= state.begin /\ state.begin < state.end
               /\ \A i \in 1 .. k : list[i][2] <= state.end
               /\ \A i \in k .. n : state.begin <= list[i][1]
               /\ state.begin .. (state.end - 1) \subseteq C
  BY DEF SoFar
<1>10. k = 0 => state.end = Never /\ C = {}
  BY DEF SoFar, NoSpan, Covered
<1>11. C \subseteq Int /\ (k # 0 => \A t \in C : t < state.end)
  <2>1. ASSUME NEW t \in C
        PROVE  t \in Int /\ (k # 0 => t < state.end)
    <3>1. PICK i \in 1 .. k : t \in Seconds(list[i])
      BY <2>1 DEF Covered
    <3>2. i \in 1 .. n
      BY <3>1
    <3>3. list[i][1] \in Int /\ list[i][2] \in Int /\ t \in list[i][1] .. (list[i][2] - 1)
      BY <1>1, <3>1, <3>2 DEF Seconds
    <3>4. t \in Int /\ t < list[i][2]
      BY <3>3
    <3> QED BY <1>5, <1>9, <3>1, <3>3, <3>4
  <2> QED BY <2>1
<1>12. SoFar(next, list, k + 1, n) <=>
         /\ IsFiniteSet(D)
         /\ next.total + next.end - next.begin = Cardinality(D)
         /\ 0 <= next.begin /\ next.begin < next.end
         /\ \A i \in 1 .. (k + 1) : list[i][2] <= next.end
         /\ \A i \in (k + 1) .. n : next.begin <= list[i][1]
         /\ next.begin .. (next.end - 1) \subseteq D
  BY DEF SoFar
<1>13. a = list[k + 1][1] /\ b = list[k + 1][2]
  OBVIOUS
<1>14. k # 0 => state.begin <= a
  <2>1. k # 0 => k + 1 \in k .. n
    OBVIOUS
  <2> QED BY <1>9, <2>1
<1> SUFFICES SoFar(next, list, k + 1, n)
  OBVIOUS
<1> HIDE DEF a, b, next, C, D
\* Nothing before it, or a gap.
<1>15. CASE k = 0 \/ a > state.end
  <2>1. next.total = state.total + state.end - state.begin /\ next.begin = a /\ next.end = b
    BY <1>8, <1>10, <1>15
  <2>2. C \cap (a .. (b - 1)) = {}
    BY <1>1, <1>5, <1>10, <1>11, <1>15
  <2>3. IsFiniteSet(D) /\ Cardinality(D) = Cardinality(C) + (b - a)
    BY <1>1, <1>3, <1>4, <2>2, SecondsMore
  <2>4. next.total + next.end - next.begin = Cardinality(D)
    BY <1>1, <1>4, <1>5, <1>6, <2>1, <2>3
  <2>5. \A i \in 1 .. (k + 1) : list[i][2] <= b
    <3> SUFFICES ASSUME NEW i \in 1 .. k
                 PROVE  list[i][2] <= b
      BY <1>1, <1>7, <1>13
    <3>1. k # 0 /\ i \in 1 .. n
      OBVIOUS
    <3>2. list[i][2] <= state.end /\ list[i][2] \in Int
      BY <1>1, <1>9, <3>1
    <3> QED BY <1>1, <1>5, <1>15, <3>1, <3>2
  <2> QED BY <1>1, <1>2, <1>3, <1>12, <2>1, <2>3, <2>4, <2>5
\* It overlaps the stretch, or follows it at once.
<1>16. CASE k # 0 /\ ~(a > state.end)
  <2>1. state.end # Never
    BY <1>5, <1>9, <1>16 DEF Never
  <2>2. CASE b > state.end
    <3>1. next = [state EXCEPT !.end = b]
      BY <1>8, <1>16, <2>1, <2>2
    <3>2. next.total = state.total /\ next.begin = state.begin /\ next.end = b
      BY <3>1 DEF State
    <3>3. D = C \cup (state.end .. (b - 1))
      <4>1. a .. (b - 1) = (a .. (state.end - 1)) \cup (state.end .. (b - 1))
        BY <1>1, <1>5, <1>16, <2>2
      <4>2. a .. (state.end - 1) \subseteq state.begin .. (state.end - 1)
        BY <1>1, <1>5, <1>14, <1>16
      <4> QED BY <1>3, <1>9, <1>16, <4>1, <4>2
    <3>4. C \cap (state.end .. (b - 1)) = {}
      BY <1>5, <1>1, <1>11, <1>16
    <3>5. IsFiniteSet(D) /\ Cardinality(D) = Cardinality(C) + (b - state.end)
      BY <1>1, <1>4, <1>5, <2>2, <3>3, <3>4, SecondsMore
    <3>6. next.total + next.end - next.begin = Cardinality(D)
      BY <1>1, <1>4, <1>5, <1>6, <3>2, <3>5
    <3>7. \A i \in 1 .. (k + 1) : list[i][2] <= b
      <4> SUFFICES ASSUME NEW i \in 1 .. k
                   PROVE  list[i][2] <= b
        BY <1>1, <1>7, <1>13
      <4>1. list[i][2] <= state.end /\ list[i][2] \in Int
        BY <1>1, <1>9, <1>16
      <4> QED BY <1>1, <1>5, <2>2, <4>1
    <3>8. state.begin .. (b - 1) \subseteq D
      <4>1. state.begin .. (b - 1) = (state.begin .. (state.end - 1)) \cup (state.end .. (b - 1))
        BY <1>1, <1>5, <1>9, <1>16, <2>2
      <4> QED BY <1>9, <1>16, <3>3, <4>1
    <3>9. \A i \in (k + 1) .. n : state.begin <= list[i][1]
      BY <1>9, <1>16
    <3>10. 0 <= state.begin /\ state.begin < b
      BY <1>1, <1>5, <1>9, <1>16, <2>2
    <3> QED BY <1>12, <3>2, <3>5, <3>6, <3>7, <3>8, <3>9, <3>10
  <2>3. CASE ~(b > state.end)
    <3>1. next = state
      BY <1>8, <1>16, <2>1, <2>3
    <3>2. a .. (b - 1) \subseteq state.begin .. (state.end - 1)
      BY <1>1, <1>5, <1>14, <1>16, <2>3
    <3>3. D = C
      BY <1>3, <1>9, <1>16, <3>2
    <3>4. \A i \in 1 .. (k + 1) : list[i][2] <= state.end
      BY <1>1, <1>5, <1>7, <1>9, <1>13, <1>16, <2>3
    <3>5. \A i \in (k + 1) .. n : state.begin <= list[i][1]
      BY <1>9, <1>16
    <3> QED BY <1>4, <1>6, <1>9, <1>12, <1>16, <3>1, <3>3, <3>4, <3>5
  <2> QED BY <2>2, <2>3
<1> QED BY <1>15, <1>16

LEMMA MergedCountsOnce ==
  ASSUME NEW n \in Nat, NEW list, Ordered(list, n)
  PROVE  SoFar(MergedAll(list), list, n, n) /\ MergedAll(list) \in State
<1> list \in [1 .. n -> Pairs]
  BY DEF Ordered
<1>1. PICK fold : Merges(fold, list, n)
  BY MergesInTurn
<1> DEFINE T == {k \in Nat : k <= n => SoFar(fold[k], list, k, n)}
<1>2. 0 \in T
  <2>1. Covered(list, 0) = {} /\ IsFiniteSet({}) /\ Cardinality({}) = 0
    BY FS_EmptySet DEF Covered
  <2>2. NoSpan.total + NoSpan.end - NoSpan.begin = 0
    BY DEF NoSpan, Never
  <2>3. fold[0] = NoSpan
    BY <1>1 DEF Merges
  <2> QED BY <2>1, <2>2, <2>3 DEF SoFar
<1>3. ASSUME NEW k \in Nat, k \in T
      PROVE  k + 1 \in T
  <2> SUFFICES ASSUME k + 1 <= n
               PROVE  SoFar(fold[k + 1], list, k + 1, n)
    OBVIOUS
  <2>1. fold[k] \in State /\ SoFar(fold[k], list, k, n)
    <3>1. k \in 0 .. n
      OBVIOUS
    <3> QED BY <1>1, <1>3, <3>1 DEF Merges
  <2>2. k + 1 \in 1 .. n /\ (k + 1) - 1 = k
    OBVIOUS
  <2>3. fold[k + 1] = Merged(fold[k], list[k + 1])
    BY <1>1, <2>2 DEF Merges
  <2> QED BY <2>1, <2>3, MergedStep
<1> HIDE DEF T
<1>4. n \in T
  BY <1>2, <1>3, NumbersByInduction
<1>5. n \in 0 .. n
  OBVIOUS
<1>6. SoFar(fold[n], list, n, n) /\ fold[n] \in State /\ fold[n] = MergedAll(list)
  BY <1>1, <1>4, <1>5 DEF T, Merges
<1> QED BY <1>6

Busy(E) == UNION {Seconds(s) : s \in Spans(E)}

\* The time billed is the time at least one event was going on.
LEMMA TimeIsBilledOnce ==
  ASSUME NEW E, WellMeasured(E)
  PROVE  /\ IsFiniteSet(Busy(E))
         /\ BillableSeconds(E) \in Nat
         /\ BillableSeconds(E) = Cardinality(Busy(E))
<1> DEFINE S == Spans(E)
           n == Cardinality(S)
           list == Sorted(S)
<1>1. S \in SUBSET Pairs /\ \A s \in S : s[1] < s[2]
  BY DEF WellMeasured, Spans, Closed, Pairs, Never
<1>2. IsFiniteSet(S)
  <2>1. IsFiniteSet({x \in E : x.finish # Never /\ x.finish > x.start})
    BY FS_Subset DEF WellMeasured
  <2> DEFINE R == {x \in E : x.finish # Never /\ x.finish > x.start}
             f == [x \in R |-> <<x.start, x.finish>>]
  <2>2. f \in Surjection(R, S)
    BY DEF Surjection, Spans, Closed
  <2> QED BY <2>1, <2>2, FS_Surjection
<1> HIDE DEF S
<1>3. InTurn(list, S) /\ \A s \in S : \E i \in 1 .. n : list[i] = s
  BY <1>1, <1>2, SortedIsInTurn
<1>4. n \in Nat
  BY <1>2, FS_CardinalityType
<1>5. list \in [1 .. n -> S] /\ \A i, j \in 1 .. n : i < j => InOrder(list[i], list[j])
  BY <1>3 DEF InTurn
<1>6. Ordered(list, n)
  <2>1. \A i \in 1 .. n : list[i] \in Pairs /\ list[i][1] < list[i][2]
    BY <1>1, <1>5
  <2>2. list \in [1 .. n -> Pairs]
    BY <1>1, <1>5
  <2>3. \A i \in 1 .. n : list[i][1] \in Nat
    BY <2>1, PairsAreTotallyOrdered
  <2>4. \A i, j \in 1 .. n : i < j => list[i][1] <= list[j][1]
    BY <1>5, <2>3 DEF InOrder
  <2> QED BY <2>1, <2>2, <2>4 DEF Ordered
<1>7. BillableSeconds(E) = MergedAll(list).total + MergedAll(list).end - MergedAll(list).begin
  BY DEF BillableSeconds, S
<1>8. Covered(list, n) = Busy(E)
  BY <1>3, <1>5 DEF Covered, Busy, S
<1> HIDE DEF list, n
<1>9. SoFar(MergedAll(list), list, n, n)
  BY <1>4, <1>6, MergedCountsOnce
<1> QED BY <1>7, <1>8, <1>9, FS_CardinalityType DEF SoFar

LEMMA BilledTimeIsOnTheClock == CostTypes => BilledOnce
<1> SUFFICES ASSUME CostTypes
             PROVE  BilledOnce
  OBVIOUS
<1>1. WellMeasured(events)
  BY EventsAreMeasured
<1>2. \A s \in Spans(events) : s[1] \in Nat /\ s[2] \in Nat
  BY <1>1 DEF WellMeasured, Spans, Closed, Never
<1>3. \A s \in Spans(events) : s[1] .. s[2] \subseteq Clock
  BY DEF Spans, Closed, Clock
<1>4. {t \in Clock : \E s \in Spans(events) : s[1] <= t /\ t < s[2]} = Busy(events)
  <2>1. ASSUME NEW t \in Clock
        PROVE  t \in Int
    <3>1. PICK e \in events : t \in e.start .. e.finish
      BY <2>1 DEF Clock
    <3>2. e.start \in Int /\ e.finish \in Int
      BY <1>1 DEF WellMeasured, Never
    <3> QED BY <3>1, <3>2
  <2>2. ASSUME NEW s \in Spans(events), NEW t \in Int
        PROVE  s[1] <= t /\ t < s[2] <=> t \in Seconds(s)
    BY <1>2 DEF Seconds
  <2>3. \A s \in Spans(events) : Seconds(s) \subseteq s[1] .. s[2] /\ Seconds(s) \subseteq Int
    BY <1>2 DEF Seconds
  <2> QED BY <1>3, <2>1, <2>2, <2>3 DEF Busy
<1>5. ASSUME NEW from \in Clock, NEW to \in Clock, Clock \subseteq from .. to
      PROVE  "BILLABLE_EXCEEDS_WALL_CLOCK" \notin Audit(events, from, to, {})
  <2>0. from \in Int /\ to \in Int /\ from <= to
    <3>1. ASSUME NEW t \in Clock
          PROVE  t \in Int
      <4>1. PICK e \in events : t \in e.start .. e.finish
        BY <3>1 DEF Clock
      <4>2. e.start \in Int /\ e.finish \in Int
        BY <1>1 DEF WellMeasured, Never
      <4> QED BY <4>1, <4>2
    <3>2. from \in Int /\ to \in Int
      BY <3>1
    <3>3. from \in from .. to
      BY <1>5
    <3> QED BY <3>2, <3>3
  <2>1. Busy(events) \subseteq from .. (to - 1)
    <3> SUFFICES ASSUME NEW s \in Spans(events), NEW t \in Seconds(s)
                 PROVE  t \in from .. (to - 1)
      BY DEF Busy
    <3>1. s[1] \in Int /\ s[2] \in Int /\ t \in s[1] .. (s[2] - 1)
      BY <1>2 DEF Seconds
    <3>2. s[1] \in s[1] .. s[2] /\ s[2] \in s[1] .. s[2]
      BY <3>1
    <3>3. s[1] \in from .. to /\ s[2] \in from .. to
      BY <1>3, <1>5, <3>2
    <3> QED BY <2>0, <3>1, <3>3
  <2>2. IsFiniteSet(from .. (to - 1)) /\ Cardinality(from .. (to - 1)) = to - from
    <3>1. to - 1 \in Int /\ (from > to - 1 => to - from = 0) /\ (to - 1) - from + 1 = to - from
      BY <2>0
    <3> QED BY <2>0, <3>1, FS_Interval
  <2>3. Cardinality(Busy(events)) <= to - from
    BY <2>1, <2>2, FS_Subset
  <2>4. ~(BillableSeconds(events) > to - from)
    BY <1>1, <2>0, <2>3, TimeIsBilledOnce
  <2> QED BY <2>4 DEF Audit
<1> QED BY <1>1, <1>4, <1>5, TimeIsBilledOnce DEF BilledOnce

\* Whatever events a job records, however they overlap or enclose one another, the
\* time billed is the time at least one of them was going on, and an audit over the
\* time of the job finds it no longer than that (costing/engine.py:175 and
\* ledger/audit.py:156).
THEOREM NoSecondIsBilledTwice == CostSpec => []BilledOnce
<1> QED BY CostTypesHold, CostTypesKeep, BilledTimeIsOnTheClock, PTL DEF CostSpec

-----------------------------------------------------------------------------
(* The price.  It earns what it has to when it is no less than a fraction   *)
(* whose parts do not depend on it, and rounding takes it up to the first  *)
(* whole step that is.                                                     *)

LEMMA Division ==
  ASSUME NEW n \in Int, NEW w \in Nat \ {0}
  PROVE  /\ n \div w \in Int
         /\ (n \div w) * w <= n /\ n < (n \div w) * w + w
OBVIOUS

\* A step that is a whole number of hundredths is not disturbed by rounding to them:
\* the price is the first step that does not fall short.
LEMMA WholeStepsRoundUp ==
  ASSUME NEW n \in Int, NEW d \in Nat \ {0}, NEW step \in Nat \ {0}, Whole(step)
  PROVE  /\ RoundUp(n, d, step) \in Int
         /\ RoundUp(n, d, step) * d >= n
         /\ (RoundUp(n, d, step) - step) * d < n
<1> DEFINE w == d * step
           c == (n + w - 1) \div w
           k == step \div 10
<1>1. w \in Nat \ {0}
  OBVIOUS
<1>2. k \in Int /\ step = 10 * k
  BY DEF Whole
<1> HIDE DEF w
<1>3. c \in Int /\ c * w <= n + w - 1 /\ n + w - 1 < c * w + w
  <2>1. n + w - 1 \in Int
    BY <1>1
  <2> QED BY <1>1, <2>1, Division
<1>4. c * w >= n /\ c * w - w < n
  <2>1. c * w \in Int
    BY <1>1, <1>3
  <2> QED BY <1>1, <1>3, <2>1
<1>5. RoundUp(n, d, step) = ((c * step + 5) \div 10) * 10
  BY DEF RoundUp, CeilDiv, w
<1> HIDE DEF c, k
<1>6. ((c * step + 5) \div 10) * 10 = c * step
  <2>1. c * k \in Int /\ c * step = 10 * (c * k)
    BY <1>2, <1>3
  <2>2. \A x \in Int : ((10 * x + 5) \div 10) * 10 = 10 * x
    OBVIOUS
  <2> QED BY <2>1, <2>2
<1>7. (c * step) * d = c * w /\ (c * step - step) * d = c * w - w
  BY <1>3 DEF w
<1>8. c * step \in Int
  BY <1>3
<1> QED BY <1>4, <1>5, <1>6, <1>7, <1>8

\* With N the numerator and D the denominator, a price earns what it has to when
\* price * D is no less than 4 * N.
LEMMA EarnsIsLinear ==
  ASSUME NEW price \in Int, NEW p, {p.percent, p.fixed, p.risk, p.margin} \subseteq Int,
         BaseCost(events, p) \in Int, Surcharge(events, p) \in Int
  PROVE  Earns(price, p) <=> price * Denominator(p) >= 4 * Numerator(events, p)
<1> DEFINE r == p.risk
           q == p.percent
           f == p.fixed
           m == p.margin
           B == BaseCost(events, p)
           S == Surcharge(events, p)
<1>1. r \in Int /\ q \in Int /\ f \in Int /\ m \in Int /\ B \in Int /\ S \in Int
  OBVIOUS
<1>2. Earns(price, p) <=>
        4 * (16 * price - ((4 * B + q * price + 4 * f) * (4 + r) + 16 * S)) >= 16 * m * price
  BY DEF Earns, PreMargin
<1>3. /\ Denominator(p) = 4 * (4 - m) - q * (4 + r)
      /\ Numerator(events, p) = (B + f) * (4 + r) + 4 * S
  BY DEF Denominator, Numerator
<1> HIDE DEF r, q, f, m, B, S
<1> DEFINE Q == q * price
           Z == Q * (4 + r)
           X == (B + f) * (4 + r)
           Y == m * price
<1>4. Q \in Int /\ Z \in Int /\ X \in Int /\ Y \in Int
  BY <1>1
<1>5. (4 * B + q * price + 4 * f) * (4 + r) = 4 * X + Z
  BY <1>1
<1>6. price * (4 * (4 - m) - q * (4 + r)) = 16 * price - 4 * Y - Z
  BY <1>1
<1>7. 16 * m * price = 16 * Y
  BY <1>1
<1> HIDE DEF Q, Z, X, Y
<1> QED BY <1>1, <1>2, <1>3, <1>4, <1>5, <1>6, <1>7 DEF X

LEMMA MinutesAreANumber ==
  ASSUME NEW E, IsFiniteSet(E), \A e \in E : e.minutes \in Nat
  PROVE  Counters(E).human_review_minutes \in Nat
<1> DEFINE New(f) == [s \in SUBSET E |->
                        IF s = {} THEN 0 ELSE Some(s).minutes + f[s \ {Some(s)}]]
           iter == CHOOSE f : f = New(f)
           amount == [e \in E |-> e.minutes]
<1>1. Counters(E).human_review_minutes = iter[E]
  BY DEF Counters, Total, FoldSet, MapThenFoldSet, Some
<1>2. amount \in [E -> Nat]
  OBVIOUS
<1>3. \A f : f = New(f) <=> SumTable(f, amount, E)
  <2>1. \A s \in SUBSET E : s # {} => Some(s).minutes = amount[Some(s)]
    BY DEF Some
  <2> HIDE DEF amount
  <2> QED BY <2>1 DEF SumTable
<1> HIDE DEF amount, New
<1>4. iter = New(iter)
  BY <1>2, <1>3, SumOfNumbers
<1> HIDE DEF iter
<1> QED BY <1>1, <1>2, <1>3, <1>4, SumOfNumbers

LEMMA CountsAreNumbers ==
  ASSUME NEW E, IsFiniteSet(E)
  PROVE  /\ Counters(E).analysis_runs \in Nat
         /\ Counters(E).cad_build_attempts \in Nat
         /\ Counters(E).repair_runs \in Nat
BY FS_CardinalityType, FS_Subset DEF Counters, Runs, Count

Units(E, p) == Total(LAMBDA e : RunUnits(e, p), E)

LEMMA UnitsAreANumber ==
  ASSUME NEW E, IsFiniteSet(E), NEW p, \A e \in E : RunUnits(e, p) \in Nat
  PROVE  Units(E, p) \in Nat
<1> DEFINE New(f) == [s \in SUBSET E |->
                        IF s = {} THEN 0 ELSE RunUnits(Some(s), p) + f[s \ {Some(s)}]]
           iter == CHOOSE f : f = New(f)
           amount == [e \in E |-> RunUnits(e, p)]
<1>1. Units(E, p) = iter[E]
  BY DEF Units, Total, FoldSet, MapThenFoldSet, Some
<1>2. amount \in [E -> Nat]
  OBVIOUS
<1>3. \A f : f = New(f) <=> SumTable(f, amount, E)
  <2>1. \A s \in SUBSET E : s # {} => RunUnits(Some(s), p) = amount[Some(s)]
    BY DEF Some
  <2> HIDE DEF amount
  <2> QED BY <2>1 DEF SumTable
<1> HIDE DEF amount, New
<1>4. iter = New(iter)
  BY <1>2, <1>3, SumOfNumbers
<1> HIDE DEF iter
<1> QED BY <1>1, <1>2, <1>3, <1>4, SumOfNumbers

LEMMA CostsAreNumbers ==
  ASSUME CostTypes, NEW p \in published
  PROVE  BaseCost(events, p) \in Int /\ Surcharge(events, p) \in Int
<1>1. WellMeasured(events)
  BY EventsAreMeasured
<1>2. /\ p.default_model \in Nat /\ p.model \in Nat /\ p.unit \in Nat /\ p.worker \in Nat
      /\ p.licence \in Nat /\ p.vps \in Nat /\ p.minute \in Nat /\ p.included \in Nat
      /\ p.analysis_fee \in Nat /\ p.cad_fee \in Nat /\ p.repair_fee \in Nat
  BY CostsAssumption DEF CostTypes
<1>3. \A e \in events : RunUnits(e, p) \in Nat
  BY <1>1, <1>2 DEF RunUnits, WellMeasured
<1>4. Units(events, p) \in Nat
  BY <1>1, <1>3, UnitsAreANumber DEF WellMeasured
<1>5. Counters(events).human_review_minutes \in Nat
  BY <1>1, MinutesAreANumber DEF WellMeasured
<1>6. BillableSeconds(events) \in Nat
  BY <1>1, TimeIsBilledOnce
<1>7. BaseCost(events, p) \in Int
  BY <1>2, <1>4, <1>5, <1>6 DEF BaseCost, Units
<1>8. \A n, m \in Nat : Excess(n, m) \in Nat
  BY DEF Excess
<1>9. Surcharge(events, p) \in Int
  <2> DEFINE a == Counters(events).analysis_runs
             b == Counters(events).cad_build_attempts
             c == Counters(events).repair_runs
  <2>1. a \in Nat /\ b \in Nat /\ c \in Nat
    BY <1>1, CountsAreNumbers DEF WellMeasured
  <2>2. Surcharge(events, p) =
          Excess(a, p.included) * p.analysis_fee + Excess(b, p.included) * p.cad_fee
            + Excess(c, p.included) * p.repair_fee
    BY DEF Surcharge
  <2> HIDE DEF a, b, c
  <2>3. /\ Excess(a, p.included) \in Nat /\ Excess(b, p.included) \in Nat
        /\ Excess(c, p.included) \in Nat
    BY <1>2, <1>8, <2>1
  <2> QED BY <1>2, <2>2, <2>3
<1> QED BY <1>7, <1>9

LEMMA PricesAreLeast == CostTypes => PriceIsTheLeast
<1> SUFFICES ASSUME CostTypes, NEW p \in published, Whole(p.step)
             PROVE  LeastPrice(p)
  BY DEF PriceIsTheLeast
<1> DEFINE N == Numerator(events, p)
           D == Denominator(p)
           M == Bigger(4 * N, p.minimum * D)
           price == Price(events, p)
<1>1. /\ {p.percent, p.fixed, p.risk, p.margin} \subseteq Int
      /\ p.minimum \in Nat /\ p.step \in Nat \ {0} /\ D > 0
  BY CostsAssumption DEF CostTypes
<1>2. BaseCost(events, p) \in Int /\ Surcharge(events, p) \in Int
  BY CostsAreNumbers
<1>3. N \in Int
  BY <1>1, <1>2 DEF Numerator
<1>4. D \in Nat \ {0}
  <2>1. D \in Int
    BY <1>1 DEF Denominator
  <2> QED BY <1>1, <2>1
<1>5. price = RoundUp(M, D, p.step)
  BY DEF Price
<1>6. \A x \in Int : Earns(x, p) <=> x * D >= 4 * N
  BY <1>1, <1>2, EarnsIsLinear
<1> HIDE DEF N, D, price
<1>7. /\ M \in Int /\ M >= 4 * N /\ M >= p.minimum * D
      /\ M = 4 * N \/ M = p.minimum * D
  <2>1. 4 * N \in Int /\ p.minimum * D \in Int
    BY <1>1, <1>3, <1>4
  <2> QED BY <2>1 DEF Bigger
<1> HIDE DEF M
<1>8. price \in Int /\ price * D >= M /\ (price - p.step) * D < M
  BY <1>1, <1>4, <1>5, <1>7, WholeStepsRoundUp
<1>9. \A x \in Int : x * D >= p.minimum * D <=> x >= p.minimum
  BY <1>1, <1>4
<1>10. price >= p.minimum /\ Earns(price, p)
  <2>1. price * D \in Int /\ p.minimum * D \in Int /\ 4 * N \in Int
    BY <1>1, <1>3, <1>4, <1>8
  <2>2. price * D >= p.minimum * D /\ price * D >= 4 * N
    BY <1>7, <1>8, <2>1
  <2> QED BY <1>6, <1>8, <1>9, <2>2
<1>11. price - p.step < p.minimum \/ ~Earns(price - p.step, p)
  <2>1. price - p.step \in Int /\ (price - p.step) * D \in Int
    BY <1>1, <1>4, <1>8
  <2>2. CASE M = 4 * N
    BY <1>6, <1>3, <1>8, <2>1, <2>2
  <2>3. CASE M = p.minimum * D
    <3>1. ~((price - p.step) * D >= p.minimum * D)
      BY <1>1, <1>4, <1>8, <2>1, <2>3
    <3> QED BY <1>1, <1>9, <2>1, <3>1
  <2> QED BY <1>7, <2>2, <2>3
<1> QED BY <1>10, <1>11 DEF LeastPrice, price

\* Whatever was measured and whatever rates a profile names, the price of a job is
\* the least whole number of steps that is no less than the minimum and leaves the
\* margin after the costs, the reserve and the commission on the price itself, as
\* long as a step is a whole number of hundredths (costing/engine.py:82 and 274).
THEOREM TheLeastPriceIsCharged == CostSpec => []PriceIsTheLeast
<1> QED BY CostTypesHold, CostTypesKeep, PricesAreLeast, PTL DEF CostSpec
=============================================================================
