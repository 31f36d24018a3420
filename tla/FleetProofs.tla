---------------------------- MODULE FleetProofs ----------------------------
(***************************************************************************)
(* A fleet and the service it asks do together only what JobProtocol says  *)
(* a service may do, whatever becomes of the machines: what is proved of   *)
(* JobProtocol is proved of the service in use.  The machines matter in    *)
(* one place: the words they send and the job a run works on are words and *)
(* jobs the service knows (MachinesAreSound), in every state they reach.   *)
(* The last part draws the promise of JobLifecycle from it, for a job      *)
(* among any number of machines.                                           *)
(***************************************************************************)
EXTENDS Fleet, TLAPS

Renewals == {"on", "thrown", "timed_out"}

SoundMachine(m) ==
  \/ m = Down
  \/ m \in [at : {"asking"}, good : BOOLEAN, codex : Words]
  \/ m \in [at : {"running"}, good : BOOLEAN, codex : Words, job : Jobs,
            attempt : {m.attempt}, renewal : Renewals]

MachinesAreSound ==
  /\ machines = [w \in Workers |-> machines[w]]
  /\ \A w \in Workers : SoundMachine(machines[w])

-----------------------------------------------------------------------------
(* What a machine says.                                                    *)

LEMMA WordsOfALoop ==
  /\ Available \in Words
  /\ \A code \in {Quota, Absent} : HealthFrom(code) \in Words
BY FleetAssumption
   DEF Words, HealthFrom, Available, ModelNeedsAPerson, PauseFor, Quota, Absent

LEMMA OlderIsAWord ==
  ASSUME NEW word \in Words
  PROVE  Older(word) \in Words
<1>1. CASE word = Available \/ word = HealthFrom(Absent)
  BY <1>1 DEF Older, Available, HealthFrom, ModelNeedsAPerson, Absent
<1>2. CASE word \in [state : {"PAUSED"}, retry_after : 0 .. Horizon]
  BY <1>2, FleetAssumption DEF Older, Words
<1> QED BY <1>1, <1>2 DEF Words

\* What a sound machine that is up says is a word.
LEMMA SoundWord ==
  ASSUME NEW m, SoundMachine(m), m # Down
  PROVE  m.codex \in Words /\ m.good \in BOOLEAN
BY DEF SoundMachine, Down

LEMMA SoundRun ==
  ASSUME NEW m, SoundMachine(m), m.at = "running"
  PROVE  /\ m \in [at : {"running"}, good : BOOLEAN, codex : Words, job : Jobs,
                   attempt : {m.attempt}, renewal : Renewals]
         /\ m.codex \in Words /\ m.good \in BOOLEAN /\ m.job \in Jobs
BY DEF SoundMachine, Down

LEMMA AskingIsSound ==
  ASSUME NEW good \in BOOLEAN, NEW word \in Words
  PROVE  SoundMachine(Asking(good, word))
BY DEF SoundMachine, Asking

\* One machine changes, to a sound one.
LEMMA SetKeepsSound ==
  ASSUME MachinesAreSound, NEW w \in Workers, NEW m, SoundMachine(m), Set(w, m)
  PROVE  MachinesAreSound'
BY DEF MachinesAreSound, Set

-----------------------------------------------------------------------------
(* The machines stay sound.                                                *)

LEMMA StepKeepsSound ==
  ASSUME MachinesAreSound, NEW w \in Workers, Step(w)
  PROVE  MachinesAreSound'
<1> USE DEF MachinesAreSound
<1>0. SoundMachine(machines[w])
  OBVIOUS
<1>1. CASE Enrol(w)
  <2>1. machines' = [machines EXCEPT ![w] =
          IF @.at = "down" THEN @ ELSE [@ EXCEPT !.good = FALSE]]
    BY <1>1 DEF Enrol
  <2>2. SoundMachine(IF machines[w].at = "down" THEN machines[w]
                     ELSE [machines[w] EXCEPT !.good = FALSE])
    BY <1>0 DEF SoundMachine, Down
  <2> QED BY <2>1, <2>2
<1>2. CASE Start(w)
  BY <1>2, SetKeepsSound, AskingIsSound, WordsOfALoop DEF Start, WordOnStart
<1>3. CASE Stop(w) \/ ShutOut(w)
  BY <1>3, SetKeepsSound DEF Stop, ShutOut, SoundMachine
<1>4. CASE Break(w) \/ Mend(w) \/ FindNothing(w) \/ Renew(w)
             \/ \E j \in Jobs : TakeUnheard(w, j)
  BY <1>4 DEF Break, Mend, FindNothing, Renew, TakeUnheard
<1>5. ASSUME NEW j \in Jobs, Take(w, j)
      PROVE  MachinesAreSound'
  <2>1. machines[w].codex \in Words
    BY <1>0, <1>5, SoundWord DEF Take, Ready, Down
  <2>2. SoundMachine([at |-> "running", good |-> TRUE, codex |-> machines[w].codex, job |-> j,
                      attempt |-> jobs[j].attempt + 1, renewal |-> "on"])
    BY <2>1 DEF SoundMachine, Renewals
  <2> QED BY <1>5, <2>2, SetKeepsSound DEF Take
<1>6. CASE RenewalEnds(w)
  <2> PICK end \in {"thrown", "timed_out"} : Set(w, [machines[w] EXCEPT !.renewal = end])
    BY <1>6 DEF RenewalEnds
  <2> DEFINE m == machines[w]
             n == [m EXCEPT !.renewal = end]
  <2>0. m \in [at : {"running"}, good : BOOLEAN, codex : Words, job : Jobs,
               attempt : {m.attempt}, renewal : Renewals]
    BY <1>0, <1>6, SoundRun DEF RenewalEnds, Running
  <2>1. SoundMachine(n)
    <3>1. n.attempt = m.attempt
      BY <2>0
    <3>2. n \in [at : {"running"}, good : BOOLEAN, codex : Words, job : Jobs,
                attempt : {m.attempt}, renewal : Renewals]
      BY <2>0 DEF Renewals
    <3> QED BY <3>1, <3>2 DEF SoundMachine
  <2> QED BY <1>6, <2>1, SetKeepsSound DEF RenewalEnds
<1>7. CASE End(w)
  <2>1. machines[w].codex \in Words /\ machines[w].good \in BOOLEAN
    BY <1>0, <1>7, SoundRun DEF End, Finish, FinishUnheard, Fail, FailUnheard, Running
  <2>2. \A code \in Failures(w) : HealthAfter(w, code) \in Words
    BY <2>1, WordsOfALoop DEF HealthAfter, ModelCouldNotBeReached
  <2>3. \E word \in Words : AskAgain(w, word)
    BY <1>7, <2>1, <2>2, WordsOfALoop DEF End, Finish, FinishUnheard, Fail, FailUnheard
  <2> QED BY <2>1, <2>3, AskingIsSound, SetKeepsSound DEF AskAgain
<1> QED BY <1>1, <1>2, <1>3, <1>4, <1>5, <1>6, <1>7 DEF Step, Ask

LEMMA SecondKeepsSound ==
  ASSUME MachinesAreSound, Second
  PROVE  MachinesAreSound'
<1>1. \A w \in Workers :
        machines'[w] = IF machines[w] = Down THEN Down
                       ELSE [machines[w] EXCEPT !.codex = Older(@)]
  BY DEF Second
<1>2. ASSUME NEW w \in Workers
      PROVE  SoundMachine(machines'[w])
  <2>1. CASE machines[w] = Down
    BY <1>1, <2>1 DEF SoundMachine
  <2>2. CASE machines[w] # Down
    <3>1. Older(machines[w].codex) \in Words
      BY <2>2, SoundWord, OlderIsAWord DEF MachinesAreSound
    <3>2. machines'[w] = [machines[w] EXCEPT !.codex = Older(machines[w].codex)]
      BY <1>1, <2>2
    <3> QED BY <2>2, <3>1, <3>2 DEF SoundMachine, MachinesAreSound
  <2> QED BY <2>1, <2>2
<1> QED BY <1>2 DEF MachinesAreSound, Second

LEMMA MovesKeepSound == MachinesAreSound /\ [Moves]_vars => MachinesAreSound'
<1> SUFFICES ASSUME MachinesAreSound, [Moves]_vars
             PROVE  MachinesAreSound'
  OBVIOUS
<1>1. CASE Sweep \/ (\E j \in Jobs : Order(j)) \/ UNCHANGED vars
  BY <1>1 DEF Sweep, Order, vars, MachinesAreSound
<1> QED BY <1>1, StepKeepsSound, SecondKeepsSound DEF Moves

-----------------------------------------------------------------------------
(* Every step of the fleet is a step of the service, or leaves it alone.   *)

LEMMA TheServiceIsAlone == UNCHANGED service => UNCHANGED P!vars
BY DEF service, P!vars

\* What a machine that asks says is a report the service may be sent.
LEMMA WordsAreReports ==
  ASSUME MachinesAreSound, NEW w \in Workers, machines[w].at = "asking"
  PROVE  Saying(machines[w].codex) \in {Saying(word) : word \in Words}
BY SoundWord DEF MachinesAreSound, Down

LEMMA ClaimsAreClaims ==
  ASSUME MachinesAreSound, NEW w \in Workers, Ready(w),
         \/ P!Heartbeat(w, Saying(machines[w].codex))
         \/ \E j \in Jobs : P!Claim(w, Saying(machines[w].codex), j, 0)
  PROVE  P!Next
<1>1. Saying(machines[w].codex) \in {Saying(word) : word \in Words}
  BY WordsAreReports DEF Ready
<1>2. 0 \in P!Lags
  BY DEF P!Lags
<1> QED BY <1>1, <1>2 DEF P!Next

LEMMA EndsAreReports ==
  ASSUME MachinesAreSound, NEW w \in Workers, End(w) \/ Renew(w)
  PROVE  P!Next \/ UNCHANGED service
<1>1. JobOf(w) \in Jobs
  BY SoundRun DEF MachinesAreSound, JobOf, Running, End, Renew, Finish, FinishUnheard,
                  Fail, FailUnheard
<1>2. CASE Renew(w)
  BY <1>1, <1>2 DEF Renew, P!Next, P!HolderActs
<1>3. CASE Finish(w)
  BY <1>1, <1>3 DEF Finish, Delivered, P!Next, P!HolderActs
<1>4. CASE FinishUnheard(w) \/ FailUnheard(w)
  BY <1>4 DEF FinishUnheard, FailUnheard
<1>5. CASE Fail(w)
  <2>1. PICK code \in Failures(w) :
          Report(w, code) \/ UNCHANGED service
    BY <1>5 DEF Fail
  <2>2. code \in Codes
    BY DEF Failures, Codes
  <2>3. (IF WillBeTheSameNextTime(code) THEN PauseFor ELSE None) \in P!Countdown \cup {None}
    BY FleetAssumption DEF PauseFor, P!Countdown
  <2> QED BY <1>1, <2>1, <2>2, <2>3 DEF Report, P!Next, P!HolderActs
<1> QED BY <1>2, <1>3, <1>4, <1>5 DEF End

LEMMA MovesAreTheServices ==
  ASSUME MachinesAreSound, [Moves]_vars
  PROVE  P!Next \/ UNCHANGED service
<1>1. CASE Second
  BY <1>1 DEF Second, P!Next
<1>2. CASE Sweep
  <2>1. {} \in SUBSET Jobs /\ 0 \in P!Lags
    BY DEF P!Lags
  <2> QED BY <1>2, <2>1 DEF Sweep, P!Next, P!Reaper
<1>3. CASE \E j \in Jobs : Order(j)
  BY <1>3 DEF Order, P!Next
<1>4. ASSUME NEW w \in Workers, Step(w)
      PROVE  P!Next \/ UNCHANGED service
  <2>1. CASE Enrol(w)
    BY <2>1 DEF Enrol, P!Next
  <2>2. CASE Start(w) \/ Stop(w) \/ Break(w) \/ Mend(w) \/ ShutOut(w) \/ RenewalEnds(w)
    BY <2>2 DEF Start, Stop, Break, Mend, ShutOut, RenewalEnds
  <2>3. CASE Ask(w) \/ FindNothing(w) \/ \E j \in Jobs : TakeUnheard(w, j)
    BY <2>3, ClaimsAreClaims DEF Ask, Take, FindNothing, TakeUnheard
  <2>4. CASE Renew(w) \/ End(w)
    BY <2>4, EndsAreReports
  <2> QED BY <1>4, <2>1, <2>2, <2>3, <2>4 DEF Step
<1>5. CASE UNCHANGED vars
  BY <1>5 DEF vars, service
<1> QED BY <1>1, <1>2, <1>3, <1>4, <1>5 DEF Moves

\* Whatever its machines go through, a fleet uses the service as JobProtocol
\* describes it.
THEOREM TheFleetUsesTheService == Spec => P!Spec
<1>1. Init => P!Init /\ MachinesAreSound
  BY DEF Init, MachinesAreSound, SoundMachine
<1>2. MachinesAreSound /\ [Moves]_vars => [P!Next]_(P!vars)
  BY MovesAreTheServices, TheServiceIsAlone
<1> QED BY <1>1, <1>2, MovesKeepSound, PTL DEF Spec, P!Spec

-----------------------------------------------------------------------------
(* What is proved of JobProtocol holds of the service the fleet uses.      *)
(* (order is a variable of the in-memory service, which is not used here.) *)

Service == INSTANCE ServiceProofs WITH
             ClockLag <- 0, Builds <- {TRUE}, order <- <<>>,
             Reports <- {Saying(word) : word \in Words}

\* A fleet's constants are constants JobProtocol allows.
LEMMA ServiceConstants == Service!ConstantsAssumption
BY FleetAssumption DEF Service!ConstantsAssumption

LEMMA ServiceReports == Service!ReportsAssumption
<1>1. Words \subseteq Service!CodexWords
  BY FleetAssumption
     DEF Words, Available, HealthFrom, ModelNeedsAPerson, Absent, PauseFor,
         Service!CodexWords, Service!Countdown
<1>2. Version \in Service!Versions
  <2>1. PICK j \in Jobs : TRUE
    BY FleetAssumption
  <2>2. Needs[j].cad_ir = Version
    BY DEF Needs
  <2> QED BY <2>1, <2>2 DEF Service!Versions
<1>3. AiDrawing \in Service!Declared
  BY DEF Service!Declared
<1>4. ASSUME NEW word \in Words
      PROVE  Saying(word) \in [capabilities : SUBSET Service!Declared,
                               cad_ir : SUBSET Service!Versions,
                               manifest : (SUBSET Service!Keys) \cup {None},
                               codex : Service!CodexWords \cup {None},
                               slots : BOOLEAN]
  BY <1>1, <1>2, <1>3 DEF Saying
<1> QED BY <1>4 DEF Service!ReportsAssumption

LEMMA ServiceCauses == Service!CausesAssumption
BY FleetAssumption DEF Service!CausesAssumption, Service!Causes

\* The two instances define one service, operator by operator.
LEMMA OneService ==
  /\ P!Init => Service!Init
  /\ P!Next => Service!Next
  /\ P!vars = Service!vars
<1>1. P!Init => Service!Init
  BY DEF P!Init, Service!Init, P!NoJob, Service!NoJob, P!NoWorker, Service!NoWorker
<1>2. P!Lags = Service!Lags /\ P!Countdown = Service!Countdown
  BY DEF P!Lags, Service!Lags, P!Countdown, Service!Countdown
<1>3. \A w \in Workers, j \in Jobs : P!Owned(w, j) <=> Service!Owned(w, j)
  BY DEF P!Owned, Service!Owned
<1>4. \A row, lag : P!Expired(row, lag) <=> Service!Expired(row, lag)
  BY DEF P!Expired, Service!Expired
<1>5. \A left : P!Older(left) = Service!Older(left)
  BY DEF P!Older, Service!Older
<1>6. ASSUME NEW w \in Workers, NEW report
      PROVE  /\ P!Heard(w, report) = Service!Heard(w, report)
             /\ P!Hear(w, report) <=> Service!Hear(w, report)
             /\ P!Heartbeat(w, report) <=> Service!Heartbeat(w, report)
  BY DEF P!Heard, Service!Heard, P!Hear, Service!Hear, P!Heartbeat, Service!Heartbeat
<1>7. ASSUME NEW j \in Jobs, P!Enqueue(j)
      PROVE  Service!Enqueue(j)
  BY <1>7 DEF P!Enqueue, Service!Enqueue, P!NoJob, Service!NoJob
<1>8. ASSUME NEW w \in Workers, NEW accepted, P!Register(w, accepted)
      PROVE  Service!Register(w, accepted)
  BY <1>8 DEF P!Register, Service!Register, P!NoWorker, Service!NoWorker
<1>9. ASSUME NEW w \in Workers, NEW report, NEW j \in Jobs, NEW lag, P!Claim(w, report, j, lag)
      PROVE  Service!Claim(w, report, j, lag)
  <2>1. \A row : P!Candidate(row, lag) <=> Service!Candidate(row, lag)
    BY <1>4 DEF P!Candidate, Service!Candidate
  <2>2. \A row : P!Serves(row, j, lag) <=> Service!Serves(row, j, lag)
    BY DEF P!Serves, Service!Serves, P!UnmetCapabilities, Service!UnmetCapabilities,
           P!CodexIsReachable, Service!CodexIsReachable
  <2>3. \A row : P!Granted(row, w, lag) = Service!Granted(row, w, lag)
    BY DEF P!Granted, Service!Granted
  <2> QED BY <1>6, <1>9, <2>1, <2>2, <2>3 DEF P!Claim, Service!Claim
<1>10. P!HolderActs => Service!HolderActs
  <2>1. ASSUME NEW w \in Workers, NEW j \in Jobs
        PROVE  /\ P!RenewLease(w, j) <=> Service!RenewLease(w, j)
               /\ P!CompleteWithArtifacts(w, j) <=> Service!CompleteWithArtifacts(w, j)
               /\ \A code, retry_after :
                    P!Fail(w, j, code, retry_after) <=> Service!Fail(w, j, code, retry_after)
    BY <1>3 DEF P!RenewLease, Service!RenewLease, P!Renewed, Service!Renewed,
                P!CompleteWithArtifacts, Service!CompleteWithArtifacts,
                P!Completed, Service!Completed, P!Fail, Service!Fail, P!Failed, Service!Failed
  <2> QED BY <1>2, <2>1 DEF P!HolderActs, Service!HolderActs
<1>11. P!Reaper => Service!Reaper
  <2>1. \A row, lag : P!Woken(row, lag) = Service!Woken(row, lag)
    BY DEF P!Woken, Service!Woken
  <2>2. \A row, lag : P!Unstuck(row, lag) = Service!Unstuck(row, lag)
    BY <1>4 DEF P!Unstuck, Service!Unstuck, P!Stuck, Service!Stuck
  <2>3. \A locked, lag : P!Reap(locked, lag) <=> Service!Reap(locked, lag)
    BY <2>1, <2>2 DEF P!Reap, Service!Reap
  <2> QED BY <1>2, <2>3 DEF P!Reaper, Service!Reaper
<1>12. P!Tick => Service!Tick
  <2>1. \A row : P!OlderRow(row) = Service!OlderRow(row)
    BY <1>5 DEF P!OlderRow, Service!OlderRow
  <2>2. \A codex : P!OlderWord(codex) = Service!OlderWord(codex)
    BY <1>5 DEF P!OlderWord, Service!OlderWord
  <2> QED BY <2>1, <2>2 DEF P!Tick, Service!Tick
<1>13. P!vars = Service!vars
  BY DEF P!vars, Service!vars
<1> QED
  BY <1>1, <1>2, <1>6, <1>7, <1>8, <1>9, <1>10, <1>11, <1>12, <1>13 DEF P!Next, Service!Next

\* The rows stay what ServiceProofs says rows are.
LEMMA TheServiceIsSound ==
  /\ Init => Service!IInv
  /\ MachinesAreSound /\ Service!IInv /\ [Moves]_vars => Service!IInv'
<1>1. Init => Service!IInv
  BY OneService, ServiceConstants, ServiceReports, ServiceCauses, Service!ConstantsAssumption,
     Service!ReportsAssumption, Service!CausesAssumption, Service!InitIInv DEF Init
<1>2. ASSUME MachinesAreSound, Service!IInv, [Moves]_vars
      PROVE  Service!IInv'
  <2>1. [Service!Next]_(Service!vars)
    <3>1. UNCHANGED service => UNCHANGED Service!vars
      BY DEF service, Service!vars
    <3> QED BY <1>2, <3>1, MovesAreTheServices, OneService
  <2> QED BY <1>2, <2>1, ServiceConstants, ServiceReports, ServiceCauses,
             Service!ConstantsAssumption, Service!ReportsAssumption, Service!CausesAssumption,
             Service!NextIInv
<1> QED BY <1>1, <1>2
-----------------------------------------------------------------------------
(* A CLI that is gone costs one run.  A machine that has failed for want of *)
(* it says UNAVAILABLE, without a date, until it is mended or started      *)
(* again, and to such a word the service gives no drawing.                 *)

TalliesAreCounts == tally \in [Workers -> [heard : Nat, unheard : Nat, sound : BOOLEAN]]

Heeded(w) ==
  tally[w].heard = 0
    \/ /\ tally[w].heard = 1
       /\ \/ machines[w] = Down
          \/ machines[w].codex = HealthFrom(Absent) /\ (Running(w) => ~Drew(w))

AbsenceIsHeeded == \A w \in Workers : Heeded(w)

\* What holds of the fleet whenever a step begins.
FleetInv ==
  MachinesAreSound /\ TalliesAreCounts /\ Service!IInv /\ AbsenceIsHeeded

\* No drawing is given to a machine that says its CLI is gone.
LEMMA TheAbsentAreNotServed ==
  ASSUME Service!TypeOK, NEW w \in Workers, NEW j \in Drawings, NEW health,
         health = HealthFrom(Absent), P!Claim(w, Saying(health), j, 0)
  PROVE  FALSE
<1> DEFINE heard == P!Heard(w, Saying(health))
<1>1. health = [state |-> "UNAVAILABLE", retry_after |-> None] /\ health # None
  <2>1. health = [state |-> "UNAVAILABLE", retry_after |-> None]
    BY DEF HealthFrom, ModelNeedsAPerson, Absent
  <2> QED BY <2>1, FleetAssumption, WordsOfALoop DEF Absent, Codes
<1>2. workers[w] \in Service!WorkerRow
  BY DEF Service!TypeOK
<1>3. heard.codex = health
  BY <1>1, <1>2 DEF P!Heard, Saying, Service!WorkerRow
<1>4. AiDrawing \in Needs[j].capabilities
  BY FleetAssumption DEF Needs
<1>5. P!CodexIsReachable(health, 0)
  BY <1>3, <1>4 DEF P!Claim, P!Serves
<1> QED BY <1>1, <1>5 DEF P!CodexIsReachable

\* A machine whose word did not change while nothing was added to its tally, and
\* which is not working on another drawing, heeds as before.
LEMMA StillHeeded ==
  ASSUME NEW w \in Workers, Heeded(w), tally'[w].heard = tally[w].heard,
         \/ machines'[w] = machines[w]
         \/ machines'[w] = Down
         \/ /\ machines[w] # Down /\ machines'[w].codex = machines[w].codex
            /\ Running(w)' => /\ Running(w) /\ JobOf(w)' = JobOf(w)
  PROVE  Heeded(w)'
BY DEF Heeded, Running, Drew, JobOf

LEMMA StepIsHeeded ==
  ASSUME FleetInv, NEW w \in Workers, Step(w)
  PROVE  TalliesAreCounts' /\ AbsenceIsHeeded'
<1> USE DEF FleetInv
<1>1. SoundMachine(machines[w]) /\ machines = [v \in Workers |-> machines[v]]
  BY DEF MachinesAreSound
<1> SUFFICES /\ TalliesAreCounts'
             /\ Heeded(w)'
             /\ \A v \in Workers \ {w} : machines'[v] = machines[v] /\ tally'[v] = tally[v]
  <2>1. ASSUME NEW v \in Workers \ {w}, machines'[v] = machines[v], tally'[v] = tally[v]
        PROVE  Heeded(v)'
    BY <2>1, StillHeeded DEF AbsenceIsHeeded
  <2> QED BY <2>1 DEF AbsenceIsHeeded
<1> USE DEF TalliesAreCounts, AbsenceIsHeeded
<1>2. CASE Enrol(w) \/ Stop(w) \/ ShutOut(w) \/ RenewalEnds(w)
  <2>1. UNCHANGED tally
    BY <1>2 DEF Enrol, Stop, ShutOut, RenewalEnds
  <2>2. \A v \in Workers \ {w} : machines'[v] = machines[v]
    BY <1>1, <1>2 DEF Enrol, Stop, ShutOut, RenewalEnds, Set
  <2>3. \/ machines'[w] = machines[w]
        \/ machines'[w] = Down
        \/ /\ machines[w] # Down /\ machines'[w].codex = machines[w].codex
           /\ Running(w)' => Running(w) /\ JobOf(w)' = JobOf(w)
    <3>1. CASE Enrol(w)
      BY <1>1, <3>1 DEF Enrol, Running, JobOf, SoundMachine, Down
    <3>2. CASE Stop(w) \/ ShutOut(w)
      BY <1>1, <3>2 DEF Stop, ShutOut, Set
    <3>3. CASE RenewalEnds(w)
      BY <1>1, <3>3 DEF RenewalEnds, Set, Running, JobOf, SoundMachine, Down
    <3> QED BY <1>2, <3>1, <3>2, <3>3
  <2> QED BY <1>1, <2>1, <2>2, <2>3, StillHeeded
<1>3. CASE Start(w) \/ Mend(w)
  <2>1. tally'[w].heard = 0 /\ tally' \in [Workers -> [heard : Nat, unheard : Nat, sound : BOOLEAN]]
    <3>1. PICK sound : tally' = [tally EXCEPT ![w] = [Clean EXCEPT !.sound = sound]]
                       /\ sound \in BOOLEAN
      BY <1>3 DEF Start, Mend
    <3> DEFINE count == [Clean EXCEPT !.sound = sound]
    <3>2. count = [heard |-> 0, unheard |-> 0, sound |-> sound]
      BY DEF Clean
    <3>3. count \in [heard : Nat, unheard : Nat, sound : BOOLEAN] /\ count.heard = 0
      BY <3>1, <3>2
    <3> HIDE DEF count
    <3>4. tally' = [tally EXCEPT ![w] = count]
      BY <3>1 DEF count
    <3> QED BY <3>3, <3>4
  <2>2. \A v \in Workers \ {w} : machines'[v] = machines[v] /\ tally'[v] = tally[v]
    BY <1>1, <1>3 DEF Start, Mend, Set
  <2> QED BY <2>1, <2>2 DEF Heeded
<1>4. CASE Break(w)
  BY <1>1, <1>4, StillHeeded, ZenonT(60) DEF Break
<1>5. CASE FindNothing(w) \/ Renew(w) \/ \E j \in Jobs : TakeUnheard(w, j)
  BY <1>1, <1>5, StillHeeded DEF FindNothing, Renew, TakeUnheard
<1>6. ASSUME NEW j \in Jobs, Take(w, j)
      PROVE  TalliesAreCounts' /\ Heeded(w)'
             /\ \A v \in Workers \ {w} : machines'[v] = machines[v] /\ tally'[v] = tally[v]
  <2>1. UNCHANGED tally /\ machines[w] # Down
        /\ machines'[w].codex = machines[w].codex /\ JobOf(w)' = j
        /\ \A v \in Workers \ {w} : machines'[v] = machines[v]
    BY <1>1, <1>6 DEF Take, Set, Ready, Down, JobOf
  <2>2. Heeded(w)'
    <3>1. CASE tally[w].heard = 0
      BY <2>1, <3>1 DEF Heeded
    <3>2. CASE tally[w].heard = 1 /\ machines[w].codex = HealthFrom(Absent)
      <4>1. j \notin Drawings
        BY <1>6, <3>2, TheAbsentAreNotServed DEF Take, Service!IInv
      <4> QED BY <2>1, <3>2, <4>1 DEF Heeded, Drew, Running
    <3> QED BY <2>1, <3>1, <3>2 DEF Heeded
  <2> QED BY <2>1, <2>2
<1>7. CASE Finish(w) \/ FinishUnheard(w) \/ Fail(w) \/ FailUnheard(w)
  <2>1. PICK health : AskAgain(w, health)
    BY <1>7 DEF Finish, FinishUnheard, Fail, FailUnheard
  <2>2. /\ machines'[w].codex = health /\ ~Running(w)' /\ machines[w] # Down /\ Running(w)
        /\ \A v \in Workers \ {w} : machines'[v] = machines[v]
    BY <1>1, <1>7, <2>1 DEF AskAgain, Set, Asking, Running, Down, Finish, FinishUnheard, Fail,
                            FailUnheard
  <2>3. Heeded(w) /\ tally[w].heard \in Nat
    OBVIOUS
  <2>4. CASE Finish(w) \/ FinishUnheard(w)
    <3>1. UNCHANGED tally /\ (~Drew(w) => machines'[w].codex = machines[w].codex)
      BY <1>1, <2>4 DEF Finish, FinishUnheard, AskAgain, Set, Asking
    <3> QED BY <2>2, <2>3, <3>1 DEF Heeded
  <2>5. CASE Fail(w)
    <3>1. PICK code \in Failures(w) :
            AskAgain(w, HealthAfter(w, code)) /\ tally' = Wasted(w, code, "heard")
      BY <2>5 DEF Fail
    <3>2. machines'[w].codex = HealthAfter(w, code)
      BY <1>1, <3>1 DEF AskAgain, Set, Asking
    <3>3. CASE code = Absent
      <4>1. Drew(w)
        BY <3>1, <3>3 DEF Failures, Absent, Refused, Broke, Quota
      <4>2. tally[w].heard = 0
        BY <2>2, <2>3, <4>1 DEF Heeded
      <4>3. tally' = [tally EXCEPT ![w].heard = @ + 1]
        BY <3>1, <3>3 DEF Wasted
      <4>4. HealthAfter(w, code) = HealthFrom(Absent)
        BY <3>3 DEF HealthAfter, ModelCouldNotBeReached
      <4> QED BY <2>2, <3>2, <4>2, <4>3, <4>4 DEF Heeded
    <3>4. CASE code # Absent
      <4>1. UNCHANGED tally
        BY <3>1, <3>4 DEF Wasted
      <4>2. code = Quota => Drew(w)
        BY <3>1 DEF Failures, Absent, Refused, Broke, Quota
      <4>3. code # Quota => machines'[w].codex = machines[w].codex
        BY <3>2, <3>4 DEF HealthAfter, ModelCouldNotBeReached
      <4> QED BY <2>2, <2>3, <4>1, <4>2, <4>3 DEF Heeded
    <3> QED BY <3>3, <3>4
  <2>6. CASE FailUnheard(w)
    <3>1. PICK code \in Failures(w) : tally' = Wasted(w, code, "unheard")
      BY <2>6 DEF FailUnheard
    <3>2. TalliesAreCounts' /\ tally'[w].heard = tally[w].heard
          /\ \A v \in Workers \ {w} : tally'[v] = tally[v]
      BY <3>1 DEF Wasted
    <3>3. machines'[w].codex = machines[w].codex
      BY <1>1, <2>6 DEF FailUnheard, AskAgain, Set, Asking
    <3> QED BY <2>2, <2>3, <3>2, <3>3 DEF Heeded
  <2> QED BY <1>7, <2>4, <2>5, <2>6
<1> QED BY <1>2, <1>3, <1>4, <1>5, <1>6, <1>7 DEF Step, Ask, End

LEMMA MovesAreHeeded == FleetInv /\ [Moves]_vars => TalliesAreCounts' /\ AbsenceIsHeeded'
<1> SUFFICES ASSUME FleetInv, [Moves]_vars
             PROVE  TalliesAreCounts' /\ AbsenceIsHeeded'
  OBVIOUS
<1>1. CASE Sweep \/ (\E j \in Jobs : Order(j)) \/ UNCHANGED vars
  <2>1. UNCHANGED <<machines, tally>>
    BY <1>1 DEF Sweep, Order, vars
  <2> QED BY <2>1 DEF FleetInv, TalliesAreCounts, AbsenceIsHeeded, Heeded, Running, Drew, JobOf
<1>2. CASE Second
  <2>1. TalliesAreCounts' /\ tally' = tally
    BY <1>2 DEF Second, FleetInv, TalliesAreCounts
  <2>2. ASSUME NEW w \in Workers
        PROVE  Heeded(w)'
    <3>1. SoundMachine(machines[w]) /\ Heeded(w)
      BY DEF FleetInv, MachinesAreSound, AbsenceIsHeeded
    <3>2. machines'[w] = IF machines[w] = Down THEN Down
                         ELSE [machines[w] EXCEPT !.codex = Older(@)]
      BY <1>2 DEF Second
    <3>3. Older(HealthFrom(Absent)) = HealthFrom(Absent)
      BY DEF Older, HealthFrom, ModelNeedsAPerson
    <3>4. CASE machines[w] = Down
      BY <2>1, <3>1, <3>2, <3>4, StillHeeded
    <3>5. CASE machines[w] # Down
      <4>1. /\ machines'[w].codex = Older(machines[w].codex)
            /\ Running(w)' <=> Running(w)
            /\ Running(w) => JobOf(w)' = JobOf(w)
        BY <3>1, <3>2, <3>5 DEF SoundMachine, Running, JobOf
      <4> QED BY <2>1, <3>1, <3>3, <3>5, <4>1 DEF Heeded, Drew
    <3> QED BY <3>4, <3>5
  <2> QED BY <2>1, <2>2 DEF AbsenceIsHeeded
<1> QED BY <1>1, <1>2, StepIsHeeded DEF Moves

LEMMA FleetInvHolds == Spec => []FleetInv
<1>1. Init => FleetInv
  <2> SUFFICES ASSUME Init
               PROVE  FleetInv
    OBVIOUS
  <2>1. MachinesAreSound
    BY DEF Init, MachinesAreSound, SoundMachine
  <2>2. TalliesAreCounts /\ AbsenceIsHeeded
    BY DEF Init, Clean, TalliesAreCounts, AbsenceIsHeeded, Heeded
  <2> QED BY <2>1, <2>2, TheServiceIsSound DEF FleetInv
<1>2. FleetInv /\ [Moves]_vars => FleetInv'
  BY MovesKeepSound, MovesAreHeeded, TheServiceIsSound DEF FleetInv
<1> QED BY <1>1, <1>2, PTL DEF Spec

\* However often machines are enrolled, stopped and started and their CLIs come
\* and go, a CLI that is gone wastes one heard run of its machine.
THEOREM AbsenceStaysToldOnce == Spec => []AbsenceIsToldOnce
<1>1. FleetInv => AbsenceIsToldOnce
  BY DEF FleetInv, TalliesAreCounts, AbsenceIsHeeded, Heeded, AbsenceIsToldOnce
<1> QED BY <1>1, FleetInvHolds, PTL
-----------------------------------------------------------------------------
(* Only silence loses a job.  A job on its last attempt, or ended for      *)
(* silence, was cut off from the service or is still in the hands of the   *)
(* machine that took that attempt and renews its lease: a machine that     *)
(* gives it up with a code reports the code.                               *)

LastAttempt(j) ==
  \/ jobs[j].failure_code = LeaseLost
  \/ jobs[j].status = "LEASED" /\ jobs[j].attempt = MaxAttempts

OnItsLast(w, j) ==
  /\ Running(w) /\ JobOf(w) = j
  /\ machines[w].attempt = MaxAttempts /\ machines[w].renewal = "on"

Watched(j) == LastAttempt(j) => j \in muted \/ \E w \in Workers : OnItsLast(w, j)

LastIsWatched == \A j \in Jobs : Watched(j)

\* A row keeps its watch while its machine does, or is cut off.
LEMMA StillWatched ==
  ASSUME NEW j \in Jobs, Watched(j),
         \/ ~LastAttempt(j)'
         \/ /\ LastAttempt(j)' => LastAttempt(j)
            /\ j \in muted => j \in muted'
            /\ \A w \in Workers : OnItsLast(w, j) => OnItsLast(w, j)' \/ j \in muted'
  PROVE  Watched(j)'
BY DEF Watched

\* What a step of the service does to a row that is on its last attempt or was
\* ended for silence.
LEMMA RowsOnTheirLast ==
  ASSUME Service!IInv, NEW k \in Jobs
  PROVE  /\ jobs[k].status # "FAILED" => jobs[k].failure_code # LeaseLost
         /\ jobs[k].status = "PENDING" => jobs[k].attempt < MaxAttempts
         /\ jobs[k].attempt \in 0 .. MaxAttempts
         /\ jobs[k] \in Service!JobRow
         /\ jobs = [j \in Jobs |-> jobs[j]]
<1>1. jobs[k] \in Service!JobRow /\ Service!WholeRow(jobs[k]) /\ Service!Unstranded(jobs[k])
      /\ (jobs[k].failure_code = LeaseLost => jobs[k].attempt = MaxAttempts)
  BY DEF Service!IInv, Service!TypeOK, Service!RowsAreWhole, Service!NothingStranded,
         Service!EndsAreEarned
<1>2. LeaseLost # None
  BY FleetAssumption
<1> QED BY <1>1, <1>2, FleetAssumption
        DEF Service!JobRow, Service!WholeRow, Service!Unstranded, Service!IInv, Service!TypeOK

LEMMA SweepsAreWatched ==
  ASSUME Service!IInv, NEW k \in Jobs, P!Reap({}, 0), LastAttempt(k)'
  PROVE  LastAttempt(k)
<1> DEFINE row == jobs[k]
           woken == P!Woken(row, 0)
<1>1. jobs'[k] = P!Unstuck(woken, 0)
  BY DEF P!Reap
<1>2. row \in Service!JobRow /\ row.attempt \in 0 .. MaxAttempts
      /\ (row.status = "PENDING" => row.attempt < MaxAttempts)
  BY RowsOnTheirLast
<1>3. CASE woken = row
  <2>1. CASE P!Stuck(row, 0) /\ row.attempt < MaxAttempts
    <3>1. jobs'[k].status = "PENDING" /\ jobs'[k].failure_code = row.failure_code
      BY <1>1, <1>2, <1>3, <2>1 DEF P!Unstuck, Service!JobRow
    <3> QED BY <3>1 DEF LastAttempt
  <2>2. CASE P!Stuck(row, 0) /\ ~(row.attempt < MaxAttempts)
    <3>1. row.status = "LEASED"
      BY <1>2, <2>2 DEF P!Stuck, P!Expired
    <3> QED BY <1>2, <2>2, <3>1, FleetAssumption DEF LastAttempt
  <2>3. CASE ~P!Stuck(row, 0)
    BY <1>1, <1>3, <2>3 DEF P!Unstuck, LastAttempt
  <2> QED BY <2>1, <2>2, <2>3
<1>4. CASE woken # row
  <2>1. row.status = "PAUSED" /\ row.attempt < MaxAttempts
    BY <1>4 DEF P!Woken, Service!IInv, Service!NothingStranded, Service!Unstranded
  <2>2. woken.status = "PENDING" /\ woken.attempt = row.attempt /\ woken.failure_code = None
    BY <1>2, <1>4 DEF P!Woken, Service!JobRow
  <2>3. ~P!Stuck(woken, 0)
    BY <1>2, <2>1, <2>2, FleetAssumption DEF P!Stuck, P!Expired
  <2> QED BY <1>1, <2>2, <2>3, FleetAssumption DEF P!Unstuck, LastAttempt
<1> QED BY <1>3, <1>4

\* A machine that is not running a job, or runs another, watches nothing of it:
\* what it does with its own job leaves every other job's watch alone.
LEMMA OthersAreWatched ==
  ASSUME NEW w \in Workers, NEW j \in Jobs, NEW k \in Jobs, Watched(k), k # j,
         k \in muted => k \in muted', jobs'[k] = jobs[k],
         ~Running(w) \/ JobOf(w) = j,
         \A v \in Workers \ {w} : machines'[v] = machines[v]
  PROVE  Watched(k)'
BY StillWatched DEF LastAttempt, OnItsLast, Running, JobOf

LEMMA StepIsWatched ==
  ASSUME FleetInv, LastIsWatched, NEW w \in Workers, Step(w)
  PROVE  LastIsWatched'
<1> USE DEF FleetInv
<1>1. SoundMachine(machines[w]) /\ machines = [v \in Workers |-> machines[v]]
  BY DEF MachinesAreSound
<1> SUFFICES ASSUME NEW k \in Jobs
             PROVE  Watched(k)'
  BY DEF LastIsWatched
<1>2. Watched(k)
  BY DEF LastIsWatched
<1>3. CASE Break(w) \/ Mend(w) \/ FindNothing(w) \/ Enrol(w) \/ Start(w) \/ ShutOut(w)
  <2>1. jobs' = jobs /\ muted' = muted
    BY <1>3 DEF Break, Mend, FindNothing, Enrol, Start, ShutOut, P!Heartbeat, P!Register, service
  <2>2. \A v \in Workers : OnItsLast(v, k) => OnItsLast(v, k)'
    <3>1. CASE Break(w) \/ Mend(w)
      BY <2>1, <3>1 DEF Break, Mend, OnItsLast, Running, JobOf
    <3>2. CASE FindNothing(w) \/ Start(w) \/ ShutOut(w)
      BY <1>1, <2>1, <3>2 DEF FindNothing, Start, ShutOut, Set, OnItsLast, Running, JobOf, Down,
                              SoundMachine
    <3>3. CASE Enrol(w)
      BY <1>1, <2>1, <3>3 DEF Enrol, OnItsLast, Running, JobOf, Down, SoundMachine
    <3> QED BY <1>3, <3>1, <3>2, <3>3
  <2> QED BY <1>2, <2>1, <2>2, StillWatched DEF LastAttempt
<1>4. CASE Stop(w) \/ RenewalEnds(w) \/ FinishUnheard(w)
  <2>1. jobs' = jobs
        /\ muted' = IF Running(w) THEN muted \cup {JobOf(w)} ELSE muted
    BY <1>4 DEF Stop, RenewalEnds, FinishUnheard, service, Running, JobOf
  <2>2. \A v \in Workers \ {w} : OnItsLast(v, k) => OnItsLast(v, k)'
    BY <1>1, <1>4 DEF Stop, RenewalEnds, FinishUnheard, AskAgain, Set, OnItsLast, Running, JobOf
  <2>3. OnItsLast(w, k) => k \in muted'
    BY <2>1 DEF OnItsLast
  <2> QED BY <1>2, <2>1, <2>2, <2>3, StillWatched DEF LastAttempt
<1>5. CASE FailUnheard(w)
  <2>1. jobs' = jobs /\ muted' = muted /\ ~OnItsLast(w, k)
    BY <1>5 DEF FailUnheard, service, OnItsLast
  <2>2. \A v \in Workers \ {w} : OnItsLast(v, k) => OnItsLast(v, k)'
    BY <1>1, <1>5 DEF FailUnheard, AskAgain, Set, OnItsLast, Running, JobOf
  <2> QED BY <1>2, <2>1, <2>2, StillWatched DEF LastAttempt
<1>6. CASE Renew(w)
  <2>1. machines' = machines /\ muted' = muted
    BY <1>6 DEF Renew
  <2>2. LastAttempt(k)' => LastAttempt(k)
    BY <1>6, RowsOnTheirLast DEF Renew, P!RenewLease, P!Renewed, LastAttempt, Service!JobRow
  <2> QED BY <1>2, <2>1, <2>2, StillWatched DEF OnItsLast, Running, JobOf
<1>7. ASSUME NEW j \in Jobs, Take(w, j)
      PROVE  Watched(k)'
  <2>1. jobs' = [jobs EXCEPT ![j] = P!Granted(@, w, 0)] /\ P!Candidate(jobs[j], 0)
        /\ muted' = muted \ {j} /\ machines[w].at = "asking"
        /\ machines' = [machines EXCEPT ![w] =
             [at |-> "running", good |-> TRUE, codex |-> machines[w].codex, job |-> j,
              attempt |-> jobs[j].attempt + 1, renewal |-> "on"]]
    BY <1>7 DEF Take, P!Claim, Set, Ready
  <2>2. CASE k # j
    BY <1>1, <1>2, <2>1, <2>2, OthersAreWatched DEF Running
  <2>3. CASE k = j
    <3>1. jobs'[k].attempt = jobs[k].attempt + 1 /\ jobs'[k].failure_code = jobs[k].failure_code
      BY <2>1, <2>3, RowsOnTheirLast DEF P!Granted, Service!JobRow
    <3>2. jobs'[k].failure_code # LeaseLost
      BY <2>1, <2>3, <3>1, RowsOnTheirLast DEF P!Candidate, P!Expired
    <3>3. LastAttempt(k)' => OnItsLast(w, k)'
      BY <1>1, <2>1, <2>3, <3>1, <3>2 DEF LastAttempt, OnItsLast, Running, JobOf
    <3> QED BY <3>3 DEF Watched
  <2> QED BY <2>2, <2>3
<1>8. ASSUME NEW j \in Jobs, TakeUnheard(w, j)
      PROVE  Watched(k)'
  <2>1. machines' = machines /\ muted' = muted \cup {j}
        /\ jobs' = [jobs EXCEPT ![j] = P!Granted(@, w, 0)]
    BY <1>8 DEF TakeUnheard, P!Claim
  <2>2. CASE k = j
    BY <2>1, <2>2 DEF Watched
  <2>3. CASE k # j
    BY <1>2, <2>1, <2>3, RowsOnTheirLast, StillWatched DEF LastAttempt, OnItsLast, Running, JobOf
  <2> QED BY <2>2, <2>3
<1>9. CASE Finish(w)
  <2>1. muted' = muted /\ Delivered(w) /\ Running(w) /\ JobOf(w) \in Jobs
        /\ \A v \in Workers \ {w} : machines'[v] = machines[v]
    BY <1>1, <1>9, SoundRun DEF Finish, AskAgain, Set, Running, JobOf
  <2>2. CASE k # JobOf(w)
    <3>1. jobs'[k] = jobs[k]
      BY <2>1, <2>2, RowsOnTheirLast DEF Delivered, P!CompleteWithArtifacts, service
    <3> QED BY <1>2, <2>1, <2>2, <3>1, OthersAreWatched
  <2>3. CASE k = JobOf(w)
    <3>1. jobs[k].status \in {"LEASED", "COMPLETED"} /\ jobs'[k].status = "COMPLETED"
          /\ jobs'[k].failure_code = jobs[k].failure_code
      <4>1. CASE Holds(w) /\ P!CompleteWithArtifacts(w, JobOf(w))
        <5>1. jobs'[k] = P!Completed(jobs[k]) /\ jobs[k].status = "LEASED"
          BY <2>3, <4>1, RowsOnTheirLast DEF Holds, P!Owned, P!CompleteWithArtifacts
        <5> QED BY <5>1, RowsOnTheirLast DEF P!Completed, Service!JobRow
      <4>2. CASE jobs[k].status = "COMPLETED" /\ UNCHANGED service
        BY <4>2 DEF service
      <4> QED BY <2>1, <2>3, <4>1, <4>2 DEF Delivered
    <3>2. ~LastAttempt(k)'
      BY <3>1, RowsOnTheirLast DEF LastAttempt
    <3> QED BY <3>2 DEF Watched
  <2> QED BY <2>2, <2>3
<1>10. CASE Fail(w)
  <2>1. PICK code \in Failures(w) :
          IF EndsTheJob(code, machines[w].attempt) THEN Report(w, code)
          ELSE UNCHANGED <<service, trouble, muted>>
    BY <1>10 DEF Fail
  <2>2. Running(w) /\ JobOf(w) \in Jobs
        /\ \A v \in Workers \ {w} : machines'[v] = machines[v]
    BY <1>1, <1>10, SoundRun DEF Fail, AskAgain, Set, Running, JobOf
  <2>3. CASE ~EndsTheJob(code, machines[w].attempt)
    <3>1. ~OnItsLast(w, k)
      BY <2>3, FleetAssumption DEF EndsTheJob, OnItsLast
    <3>2. \A v \in Workers \ {w} : OnItsLast(v, k) => OnItsLast(v, k)'
      BY <2>2 DEF OnItsLast, Running, JobOf
    <3> QED BY <1>2, <2>1, <2>3, <3>1, <3>2, StillWatched DEF LastAttempt, service
  <2>4. CASE Report(w, code)
    <3>1. k \in muted => k \in muted'
      BY <2>4 DEF Report
    <3>2. CASE k # JobOf(w)
      <4>1. jobs'[k] = jobs[k]
        BY <2>2, <2>4, <3>2, RowsOnTheirLast DEF Report, P!Fail, service
      <4> QED BY <1>2, <2>2, <3>1, <3>2, <4>1, OthersAreWatched
    <3>3. CASE k = JobOf(w) /\ k \notin muted'
      <4>1. jobs'[k].failure_code = code /\ jobs'[k].status # "LEASED"
        <5>1. PICK retry_after : P!Fail(w, k, code, retry_after)
          BY <2>4, <3>3 DEF Report
        <5>2. jobs'[k] = P!Failed(jobs[k], code, retry_after)
          BY <5>1, RowsOnTheirLast DEF P!Fail
        <5> QED BY <5>2, RowsOnTheirLast DEF P!Failed, Service!JobRow
      <4>2. code # LeaseLost
        BY FleetAssumption DEF Failures, Codes
      <4> QED BY <4>1, <4>2 DEF Watched, LastAttempt
    <3> QED BY <3>2, <3>3 DEF Watched
  <2> QED BY <2>1, <2>3, <2>4
<1> QED BY <1>3, <1>4, <1>5, <1>6, <1>7, <1>8, <1>9, <1>10 DEF Step, Ask, End

LEMMA MovesAreWatched == FleetInv /\ LastIsWatched /\ [Moves]_vars => LastIsWatched'
<1> SUFFICES ASSUME FleetInv, LastIsWatched, [Moves]_vars, NEW k \in Jobs
             PROVE  Watched(k)'
  BY DEF LastIsWatched
<1>0. Watched(k) /\ Service!IInv
  BY DEF LastIsWatched, FleetInv
<1>1. CASE Sweep \/ (\E j \in Jobs : Order(j)) \/ UNCHANGED vars
  <2>1. UNCHANGED <<machines, muted>>
    BY <1>1 DEF Sweep, Order, vars
  <2>2. LastAttempt(k)' => LastAttempt(k)
    <3>1. CASE Sweep
      BY <1>0, <3>1, SweepsAreWatched DEF Sweep
    <3>2. CASE UNCHANGED vars
      BY <3>2 DEF vars, LastAttempt
    <3>3. ASSUME NEW j \in Jobs, Order(j), LastAttempt(k)'
          PROVE  LastAttempt(k)
      <4>1. jobs' = [jobs EXCEPT ![j] = [P!NoJob EXCEPT !.status = "PENDING"]]
        BY <3>3 DEF Order, P!Enqueue
      <4>2. k # j
        BY <1>0, <3>3, <4>1, RowsOnTheirLast, FleetAssumption DEF LastAttempt, P!NoJob
      <4> QED BY <1>0, <3>3, <4>1, <4>2, RowsOnTheirLast DEF LastAttempt
    <3> QED BY <1>1, <3>1, <3>2, <3>3
  <2> QED BY <1>0, <2>1, <2>2, StillWatched DEF OnItsLast, Running, JobOf
<1>2. CASE Second
  <2>1. muted' = muted /\ (LastAttempt(k)' => LastAttempt(k))
    <3>1. jobs'[k] = P!OlderRow(jobs[k])
      BY <1>2 DEF Second, P!Tick
    <3> QED BY <1>0, <1>2, <3>1, RowsOnTheirLast DEF Second, P!OlderRow, LastAttempt, Service!JobRow
  <2>2. ASSUME NEW w \in Workers, OnItsLast(w, k)
        PROVE  OnItsLast(w, k)'
    <3>1. SoundMachine(machines[w])
      BY DEF FleetInv, MachinesAreSound
    <3>2. machines'[w] = [machines[w] EXCEPT !.codex = Older(@)]
      BY <1>2, <2>2 DEF Second, OnItsLast, Running, Down
    <3> QED BY <2>2, <3>1, <3>2 DEF SoundMachine, OnItsLast, Running, JobOf, Down
  <2> QED BY <1>0, <2>1, <2>2, StillWatched
<1>3. ASSUME NEW w \in Workers, Step(w)
      PROVE  Watched(k)'
  BY <1>3, StepIsWatched DEF LastIsWatched
<1> QED BY <1>1, <1>2, <1>3 DEF Moves

\* The service gives a job up for silence only if its last attempt lost a
\* request, its credential, its process or its lease; while the machine that
\* took it is heard, it ends under the code the machine reports.
THEOREM LostStaysSilent == Spec => []LostMeansSilent
<1>1. Init => LastIsWatched
  BY FleetAssumption DEF Init, P!Init, P!NoJob, LastIsWatched, Watched, LastAttempt
<1>2. LastIsWatched => LostMeansSilent
  BY DEF LastIsWatched, Watched, LastAttempt, OnItsLast, LostMeansSilent
<1> QED BY <1>1, <1>2, MovesAreWatched, FleetInvHolds, PTL DEF Spec
-----------------------------------------------------------------------------
(* What the service promises of any use, for this one.                     *)

\* The fleet is one of the uses ServiceProofs speaks of.
LEMMA TheFleetIsAUse == Spec => Service!Spec
<1>1. P!Init => Service!Init
  BY OneService
<1>2. [P!Next]_(P!vars) => [Service!Next]_(Service!vars)
  BY OneService DEF P!vars, Service!vars
<1> QED BY <1>1, <1>2, TheFleetUsesTheService, PTL DEF P!Spec, Service!Spec

\* Among machines that are stopped, restarted, shut out and cut off, each job still
\* lives the life of JobLifecycle.
THEOREM TheFleetKeepsThePromise == Spec => Service!EveryJobKeepsThePromise
<1>1. Service!Spec => Service!EveryJobKeepsThePromise
  BY ServiceConstants, ServiceReports, ServiceCauses, Service!ConstantsAssumption,
     Service!ReportsAssumption, Service!CausesAssumption, Service!ServiceKeepsThePromise
<1> QED BY <1>1, TheFleetIsAUse, PTL

\* What became of a job stays what its machine is told, whatever it sends late.
THEOREM TheFleetEndsJobsOnce == Spec => [][Service!EndStep]_(Service!vars)
<1>1. Service!Spec => [][Service!EndStep]_(Service!vars)
  BY ServiceConstants, ServiceReports, ServiceCauses, Service!ConstantsAssumption,
     Service!ReportsAssumption, Service!CausesAssumption, Service!EndsAreFinal
<1> QED BY <1>1, TheFleetIsAUse, PTL
=============================================================================
