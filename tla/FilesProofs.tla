----------------------------- MODULE FilesProofs -----------------------------
(***************************************************************************)
(* What the API keeps of the files it is sent, and how many it lets in.    *)
(*                                                                         *)
(* Artifacts: what the customer of a finished job downloads is what its    *)
(* completion was verified against, but for the files an upload of another *)
(* run replaced in between, for any number of kinds, workers and runs and  *)
(* with requests that outlive the hold they were sent under.  The property *)
(* says nothing of the completions still under way, so it is not           *)
(* inductive; what is: each of them can say the same of the files it has   *)
(* compared (ComparedOrOvertaken).                                         *)
(*                                                                         *)
(* Uploads: what a customer can get past the quota, and what is left of    *)
(* the files they sent, for any number of uploads at once, any limits and  *)
(* any number of crashes.  An upload that was let in is counted only when  *)
(* its order is written.  The inductive invariant counts it from the       *)
(* moment it was let in: the orders that count and the uploads under way   *)
(* together never exceed what one less than the limit and one upload per   *)
(* request come to (Shared).                                               *)
(***************************************************************************)
EXTENDS ArtifactDelivery, Uploads, FiniteSetTheorems, TLAPS

-----------------------------------------------------------------------------
(* Artifacts.                                                              *)

\* A job is held by somebody, in a run that was granted, with silences to spare.
HoldsAreWhole ==
  /\ stage = "held" <=> holder # None
  /\ stage = "held" => silences < MaxSilences /\ run # 0

\* What a completion under way has compared is as it found it, or was overtaken.
ComparedOrOvertaken ==
  \A completion \in completions : \A k \in Kinds \ completion.left :
    files[k] = completion.run \/ k \in completion.overtaken

-----------------------------------------------------------------------------
(* The job, as JobLifecycle moves it.                                      *)

Job == /\ stage \in Life!Stages /\ holder \in Workers \cup {None} /\ quiet \in BOOLEAN
       /\ silences \in 0 .. MaxSilences /\ delivered \in Seq(Workers)
       /\ stage = "held" <=> holder # None
       /\ stage = "held" => silences < MaxSilences

LEMMA LifeKeepsJob ==
  ASSUME Job, [Life!Next]_life
  PROVE  Job'
<1> USE DeliveryAssumption DEF Job, Life!Stages
<1>1. CASE Life!Submit \/ Life!Wake \/ Life!FallSilent \/ Life!Rest \/ Life!GiveUp
  BY <1>1 DEF Life!Submit, Life!Wake, Life!FallSilent, Life!Rest, Life!GiveUp
<1>2. CASE Life!Exhaust
  BY <1>2 DEF Life!Exhaust
<1>3. ASSUME NEW w \in Workers, Life!Grant(w)
      PROVE  Job'
  BY <1>3 DEF Life!Grant
<1>4. CASE Life!EndSilence
  <2>1. quiet' \in BOOLEAN
    BY <1>4 DEF Life!EndSilence
  <2>2. \/ stage' = "waiting" /\ holder' = None
        \/ stage' = "held" /\ holder' \in Workers /\ silences' < MaxSilences
        \/ stage' = "dead" /\ holder' = None
    BY <1>4 DEF Life!EndSilence
  <2>3. silences' \in 0 .. MaxSilences /\ delivered' = delivered
    BY <1>4 DEF Life!EndSilence
  <2> QED BY <2>1, <2>2, <2>3
<1>5. CASE Life!Deliver
  <2>1. delivered' \in Seq(Workers)
    BY <1>5 DEF Life!Deliver
  <2> QED BY <1>5, <2>1 DEF Life!Deliver
<1>6. CASE UNCHANGED life
  BY <1>6 DEF life
<1> QED BY <1>1, <1>2, <1>3, <1>4, <1>5, <1>6 DEF Life!Next

\* Every step of the delivery is a step of the job or leaves it alone.
LEMMA NextIsLife == [DeliveryNext]_deliveryVars => [Life!Next]_life
<1> SUFFICES ASSUME [DeliveryNext]_deliveryVars
             PROVE  [Life!Next]_life
  OBVIOUS
<1>1. CASE Granted \/ JobMoves
  BY <1>1 DEF Granted, JobMoves, Life!Next
<1>2. CASE \E completion \in completions : Commit(completion)
  BY <1>2 DEF Commit, Life!Next
<1> QED BY <1>1, <1>2
        DEF DeliveryNext, deliveryVars, BeginUpload, EndUpload, DropUpload, BeginCompletion, Verify, ApiDies

-----------------------------------------------------------------------------
(* The types.                                                              *)

Data == /\ run \in 0 .. MaxRuns /\ sent \subseteq Kinds
        /\ files \in [Kinds -> Runs \cup {None}]
        /\ uploads \subseteq [kind : Kinds, run : Runs]
        /\ completions \subseteq [worker : Workers, run : Runs, left : SUBSET Kinds,
                                   overtaken : SUBSET Kinds]
        /\ rows \in Runs \cup {None} /\ overtaken \subseteq Kinds

Begun == stage = "held" => run # 0

LEMMA TypeIsJobAndData == TypeOK /\ HoldsAreWhole <=> Job /\ Data /\ Begun
BY DEF TypeOK, HoldsAreWhole, Job, Data, Begun

LEMMA InitIsTyped == DeliveryInit => Job /\ Data /\ Begun
<1> SUFFICES ASSUME DeliveryInit
             PROVE  Job /\ Data /\ Begun
  OBVIOUS
<1>1. << >> \in Seq(Workers)
  OBVIOUS
<1>2. Job
  <2>1. quiet \in BOOLEAN
    BY DEF DeliveryInit, Life!Init
  <2> QED BY <1>1, <2>1, DeliveryAssumption DEF DeliveryInit, Life!Init, Job, Life!Stages
<1>3. Data /\ Begun
  BY DeliveryAssumption DEF DeliveryInit, Life!Init, Data, Begun, Runs
<1> QED BY <1>2, <1>3

LEMMA NextKeepsTypes == Job /\ Data /\ Begun /\ [DeliveryNext]_deliveryVars => Job' /\ Data' /\ Begun'
<1> SUFFICES ASSUME Job, Data, Begun, [DeliveryNext]_deliveryVars
             PROVE  Job' /\ Data' /\ Begun'
  OBVIOUS
<1> SUFFICES Data' /\ Begun'
  BY NextIsLife, LifeKeepsJob
<1>1. stage = "held" => run \in Runs /\ holder \in Workers
  BY DeliveryAssumption DEF Job, Data, Begun, Runs
<1>2. CASE Granted
  BY <1>2, DeliveryAssumption DEF Granted, Data, Begun, Runs
<1>3. CASE JobMoves
  BY <1>3 DEF JobMoves, Data, Begun, Life!Submit, Life!Wake, Life!Exhaust,
              Life!FallSilent, Life!Rest, Life!GiveUp
<1>4. ASSUME NEW k \in Kinds, BeginUpload(k)
      PROVE  Data' /\ Begun'
  BY <1>1, <1>4 DEF BeginUpload, Owns, Data, Begun, life
<1>5. ASSUME NEW upload \in uploads, EndUpload(upload) \/ DropUpload(upload)
      PROVE  Data' /\ Begun'
  <2>1. upload.kind \in Kinds /\ upload.run \in Runs
    BY DEF Data
  <2>2. CASE EndUpload(upload)
    <3>1. \A completion \in completions :
            Overtake(completion, upload) \in [worker : Workers, run : Runs, left : SUBSET Kinds,
                                              overtaken : SUBSET Kinds]
      BY <2>1 DEF Data, Overtake
    <3> QED BY <2>1, <2>2, <3>1 DEF EndUpload, Data, Begun, life
  <2>3. CASE DropUpload(upload)
    BY <2>3 DEF DropUpload, Data, Begun, life
  <2> QED BY <1>5, <2>2, <2>3
<1>6. CASE BeginCompletion
  BY <1>1, <1>6 DEF BeginCompletion, Data, Begun, life
<1>7. ASSUME NEW completion \in completions, NEW k \in Kinds, Verify(completion, k)
      PROVE  Data' /\ Begun'
  <2>1. [completion EXCEPT !.left = @ \ {k}] \in [worker : Workers, run : Runs, left : SUBSET Kinds,
                                                 overtaken : SUBSET Kinds]
    BY DEF Data
  <2> QED BY <1>7, <2>1 DEF Verify, Data, Begun, life
<1>8. ASSUME NEW completion \in completions, Commit(completion)
      PROVE  Data' /\ Begun'
  <2>1. completion.run \in Runs /\ completion.overtaken \subseteq Kinds
    BY DEF Data
  <2>2. Data'
    BY <1>8, <2>1 DEF Commit, Data
  <2>3. Begun'
    BY <1>8 DEF Commit, Begun, Life!Deliver, life
  <2> QED BY <2>2, <2>3
<1>9. CASE ApiDies \/ UNCHANGED deliveryVars
  BY <1>9 DEF ApiDies, deliveryVars, Data, Begun, life
<1> QED BY <1>2, <1>3, <1>4, <1>5, <1>6, <1>7, <1>8, <1>9 DEF DeliveryNext

\* The tables, the store and the handlers hold what they may, whatever is late
\* or lost.
THEOREM TypeCorrect == DeliverySpec => []TypeOK
<1>1. DeliverySpec => [](Job /\ Data /\ Begun)
  BY InitIsTyped, NextKeepsTypes, PTL DEF DeliverySpec
<1> QED BY <1>1, TypeIsJobAndData, PTL

-----------------------------------------------------------------------------
(* The requests under way.                                                 *)

Verified == ComparedOrOvertaken /\ OnlyLateBytesDiffer

LEMMA InitVerified == DeliveryInit => Verified
BY DEF DeliveryInit, Life!Init, Verified, ComparedOrOvertaken, OnlyLateBytesDiffer

\* The job alone never enters "done", and touches neither files nor rows.
LEMMA MovesKeepVerified ==
  ASSUME Verified, Granted \/ JobMoves
  PROVE  Verified'
<1>1. stage' = "done" => stage = "done"
  BY DEF Granted, JobMoves, Life!Grant, Life!EndSilence, Life!Submit, Life!Wake, Life!Exhaust,
         Life!FallSilent, Life!Rest, Life!GiveUp
<1>2. UNCHANGED <<files, completions, rows, overtaken>>
  BY DEF Granted, JobMoves
<1> QED BY <1>1, <1>2 DEF Verified, ComparedOrOvertaken, OnlyLateBytesDiffer

\* An upload replaces one file, and every completion that has compared it, done
\* or under way, either is of the same run or counts it as overtaken.
LEMMA UploadsKeepVerified ==
  ASSUME Data, Verified, NEW upload \in uploads, EndUpload(upload)
  PROVE  Verified'
<1>1. upload.kind \in Kinds /\ upload.run \in Runs
  BY DEF Data
<1>2. files' = [files EXCEPT ![upload.kind] = upload.run] /\ stage' = stage /\ rows' = rows
  BY DEF EndUpload, life
<1>3. \A k \in Kinds : files'[k] = IF k = upload.kind THEN upload.run ELSE files[k]
  BY <1>2 DEF Data
<1>4. ComparedOrOvertaken'
  <2>1. SUFFICES ASSUME NEW completion \in completions, NEW k \in Kinds,
                        k \notin Overtake(completion, upload).left
                 PROVE  \/ files'[k] = Overtake(completion, upload).run
                        \/ k \in Overtake(completion, upload).overtaken
    BY DEF EndUpload, ComparedOrOvertaken
  <2>2. completion \in [worker : Workers, run : Runs, left : SUBSET Kinds, overtaken : SUBSET Kinds]
    BY DEF Data
  <2>3. /\ Overtake(completion, upload).left = completion.left
        /\ Overtake(completion, upload).run = completion.run
        /\ completion.overtaken \subseteq Overtake(completion, upload).overtaken
    BY <2>2 DEF Overtake
  <2>4. CASE k # upload.kind
    BY <1>3, <2>1, <2>3, <2>4 DEF Verified, ComparedOrOvertaken
  <2>5. CASE k = upload.kind /\ upload.run = completion.run
    BY <1>3, <2>3, <2>5
  <2>6. CASE k = upload.kind /\ upload.run # completion.run
    BY <2>1, <2>2, <2>3, <2>6 DEF Overtake
  <2> QED BY <2>4, <2>5, <2>6
<1>5. OnlyLateBytesDiffer'
  <2>1. overtaken \subseteq overtaken' /\ (stage = "done" /\ upload.run # rows => upload.kind \in overtaken')
    BY DEF EndUpload
  <2> QED BY <1>2, <1>3, <2>1 DEF Verified, OnlyLateBytesDiffer
<1> QED BY <1>4, <1>5 DEF Verified

LEMMA NextKeepsVerified ==
  ASSUME Data, Verified, [DeliveryNext]_deliveryVars
  PROVE  Verified'
<1> USE DEF Verified, ComparedOrOvertaken, OnlyLateBytesDiffer
<1>1. CASE Granted \/ JobMoves
  BY <1>1, MovesKeepVerified DEF Verified
<1>2. ASSUME NEW k \in Kinds, BeginUpload(k)
      PROVE  Verified'
  BY <1>2 DEF BeginUpload, life
<1>3. ASSUME NEW upload \in uploads, EndUpload(upload)
      PROVE  Verified'
  BY <1>3, UploadsKeepVerified DEF Verified
<1>4. ASSUME NEW upload \in uploads, DropUpload(upload)
      PROVE  Verified'
  BY <1>4 DEF DropUpload, life
<1>5. CASE BeginCompletion
  BY <1>5 DEF BeginCompletion, life
<1>6. ASSUME NEW completion \in completions, NEW k \in Kinds, Verify(completion, k)
      PROVE  Verified'
  <2> DEFINE compared == [completion EXCEPT !.left = @ \ {k}]
  <2>1. /\ compared.run = completion.run /\ compared.left = completion.left \ {k}
        /\ compared.overtaken = completion.overtaken
    BY DEF Data
  <2>2. files[k] = completion.run =>
          \A l \in Kinds \ compared.left : files[l] = compared.run \/ l \in compared.overtaken
    BY <2>1
  <2>3. \A c \in completions' : c \in completions \/ (c = compared /\ files[k] = completion.run)
    BY <1>6 DEF Verify
  <2> HIDE DEF compared
  <2> QED BY <1>6, <2>2, <2>3 DEF Verify, life
<1>7. ASSUME NEW completion \in completions, Commit(completion)
      PROVE  Verified'
  <2>1. \A k \in Kinds : files[k] = completion.run \/ k \in completion.overtaken
    BY <1>7 DEF Commit
  <2>2. CASE Owns(completion.worker)
    BY <1>7, <2>1, <2>2 DEF Commit, Life!Deliver
  <2>3. CASE ~Owns(completion.worker)
    BY <1>7, <2>3 DEF Commit, life
  <2> QED BY <2>2, <2>3
<1>8. CASE ApiDies \/ UNCHANGED deliveryVars
  BY <1>8 DEF ApiDies, deliveryVars, life
<1> QED BY <1>1, <1>2, <1>3, <1>4, <1>5, <1>6, <1>7, <1>8 DEF DeliveryNext

\* The files of a finished job have the checksums its rows state, but for those an
\* upload of another run replaced after they were compared, whatever uploads,
\* retries and crashes came before, whichever of them outlived the hold they were
\* sent under, and whatever is still under way.
THEOREM OnlyLateUploadsReplaceFiles == DeliverySpec => []OnlyLateBytesDiffer
<1>1. DeliveryInit => Job /\ Data /\ Begun /\ Verified
  BY InitIsTyped, InitVerified
<1>2. /\ Job /\ Data /\ Begun /\ Verified
      /\ [DeliveryNext]_deliveryVars
      => (Job /\ Data /\ Begun /\ Verified)'
  BY NextKeepsTypes, NextKeepsVerified
<1>3. Verified => OnlyLateBytesDiffer
  BY DEF Verified
<1> QED BY <1>1, <1>2, <1>3, PTL DEF DeliverySpec

-----------------------------------------------------------------------------
(* Uploads.                                                                *)

Request == [at : {"rest", "receiving", "cleaning", "created"}, order : Orders \cup {"none"}]

UnderWay(r) == At(r, "receiving") \/ At(r, "cleaning")
Admitted == {r \in Requests : UnderWay(r)}

\* The orders that count on the customer's own account.
Own == {o \in Counted : ~orders[o].back}

Types ==
  /\ orders = [o \in Orders |-> orders[o]]
  /\ requests \in [Requests -> Request]
  /\ raw \in [Requests -> Int]
  /\ started \in Seq(Nat)
  /\ crashes \in Nat

Shared ==
  /\ Cardinality(Own) + Cardinality(Admitted) < InFlightLimit + Cardinality(Requests)
  /\ Len(started) + Cardinality(Admitted) < PerDay + Cardinality(Requests)

IInv == Types /\ Shared /\ RawFilesAreDiscarded

-----------------------------------------------------------------------------
(* Counting.                                                               *)

LEMMA LimitsAreNumbers ==
  InFlightLimit \in Nat /\ InFlightLimit > 0 /\ PerDay \in Nat /\ PerDay > 0
    /\ Window \in Nat
BY UploadsAssumption

LEMMA NoLarger ==
  ASSUME NEW a \in Int, NEW b \in Int, NEW c \in Int, NEW d \in Int, NEW limit \in Int,
         a + b < limit, c + d <= a + b
  PROVE  c + d < limit
OBVIOUS

LEMMA FirstNumbers ==
  ASSUME NEW n \in Nat
  PROVE  IsFiniteSet(1..n) /\ Cardinality(1..n) = n
<1>1. 1 \in Int /\ n \in Int
  OBVIOUS
<1>2. IsFiniteSet(1..n) /\ Cardinality(1..n) = IF 1 > n THEN 0 ELSE n - 1 + 1
  BY <1>1, FS_Interval
<1> QED BY <1>2

LEMMA ListsOfNumbers ==
  ASSUME NEW n \in Nat, NEW list \in [1..n -> Nat]
  PROVE  list \in Seq(Nat) /\ Len(list) = n
OBVIOUS

LEMMA Places ==
  /\ [Resting EXCEPT !.at = "receiving"] = [at |-> "receiving", order |-> "none"]
  /\ [Resting EXCEPT !.at = "cleaning"] = [at |-> "cleaning", order |-> "none"]
BY DEF Resting

LEMMA CountsAreNumbers ==
  /\ IsFiniteSet(Own) /\ Cardinality(Own) \in Nat
  /\ IsFiniteSet(Counted) /\ Cardinality(Counted) \in Nat
  /\ IsFiniteSet(Admitted) /\ Cardinality(Admitted) \in Nat
  /\ Cardinality(Requests) \in Nat
  /\ Cardinality(Own) <= Cardinality(Counted)
  /\ Cardinality(Admitted) <= Cardinality(Requests)
<1>1. IsFiniteSet(Orders) /\ IsFiniteSet(Requests)
  BY UploadsAssumption
<1>2. Own \subseteq Counted /\ Counted \subseteq Orders /\ Admitted \subseteq Requests
  BY DEF Own, Counted, Admitted
<1>3. IsFiniteSet(Counted) /\ IsFiniteSet(Admitted)
  BY <1>1, <1>2, FS_Subset
<1> QED BY <1>1, <1>2, <1>3, FS_Subset, FS_CardinalityType

\* A set that lost nothing but gained at most one element, and one that gained
\* nothing.
LEMMA OneMore ==
  ASSUME NEW S, IsFiniteSet(S), NEW x, NEW T, T \subseteq S \cup {x}
  PROVE  IsFiniteSet(T) /\ Cardinality(T) \in Nat /\ Cardinality(T) <= Cardinality(S) + 1
<1>1. IsFiniteSet(S \cup {x}) /\ Cardinality(S \cup {x}) <= Cardinality(S) + 1
  <2>1. IsFiniteSet(S \cup {x}) /\ Cardinality(S) \in Nat
        /\ Cardinality(S \cup {x}) \in {Cardinality(S), Cardinality(S) + 1}
    BY FS_AddElement, FS_CardinalityType
  <2> QED BY <2>1
<1> QED BY <1>1, FS_Subset, FS_CardinalityType

LEMMA OneLess ==
  ASSUME NEW S, IsFiniteSet(S), NEW x \in S, NEW T, T \subseteq S \ {x}
  PROVE  IsFiniteSet(T) /\ Cardinality(T) \in Nat /\ Cardinality(T) <= Cardinality(S) - 1
<1>1. IsFiniteSet(S \ {x}) /\ Cardinality(S \ {x}) = Cardinality(S) - 1
  BY FS_RemoveElement
<1> QED BY <1>1, FS_Subset, FS_CardinalityType

LEMMA NoMore ==
  ASSUME NEW S, IsFiniteSet(S), NEW T, T \subseteq S
  PROVE  IsFiniteSet(T) /\ Cardinality(T) \in Nat /\ Cardinality(T) <= Cardinality(S)
BY FS_Subset, FS_CardinalityType

\* Neither count grows, and no upload was let in.
LEMMA StillShared ==
  ASSUME Types, Shared, Own' \subseteq Own, Admitted' \subseteq Admitted,
         Len(started)' \in Nat, Len(started)' <= Len(started)
  PROVE  Shared'
<1>1. Cardinality(Own)' \in Nat /\ Cardinality(Own)' <= Cardinality(Own)
      /\ Cardinality(Admitted)' \in Nat /\ Cardinality(Admitted)' <= Cardinality(Admitted)
  <2>1. Cardinality(Own') \in Nat /\ Cardinality(Own') <= Cardinality(Own)
    BY CountsAreNumbers, NoMore
  <2>2. Cardinality(Admitted') \in Nat /\ Cardinality(Admitted') <= Cardinality(Admitted)
    BY CountsAreNumbers, NoMore
  <2> QED BY <2>1, <2>2
<1>2. Len(started) \in Nat
  BY DEF Types
<1> QED BY <1>1, <1>2, CountsAreNumbers, LimitsAreNumbers DEF Shared

-----------------------------------------------------------------------------
(* An upload.                                                              *)

LEMMA AskKeeps ==
  ASSUME IInv, NEW r \in Requests, Ask(r)
  PROVE  IInv'
<1> USE DEF IInv, Types
<1>1. UNCHANGED <<orders, started, crashes>>
  BY DEF Ask
<1>2. CASE UNCHANGED <<requests, raw>>
  <2>1. Own' = Own /\ Admitted' = Admitted
    BY <1>1, <1>2 DEF Own, Counted, Admitted, UnderWay, At
  <2> QED BY <1>1, <1>2, <2>1, StillShared DEF RawFilesAreDiscarded, At
<1>3. CASE /\ Verdict = "in"
           /\ Set(r, [Resting EXCEPT !.at = "receiving"])
           /\ raw' = [raw EXCEPT ![r] = @ + 1]
  <2>1. requests' = [requests EXCEPT ![r] = [at |-> "receiving", order |-> "none"]]
    BY <1>3, Places DEF Set
  <2>2. Types'
    BY <1>1, <1>3, <2>1 DEF Request
  <2>3. Own' = Own
    BY <1>1 DEF Own, Counted
  <2>4. Cardinality(Admitted)' \in Nat /\ Cardinality(Admitted)' <= Cardinality(Requests)
    <3>1. Admitted' \subseteq Requests
      BY DEF Admitted
    <3> QED BY <3>1, NoMore, UploadsAssumption
  <2>5. Cardinality(Own) < InFlightLimit /\ Len(started) < PerDay
    <3>1. Cardinality(Counted) < InFlightLimit /\ Len(started) < PerDay
      BY <1>3, CountsAreNumbers, LimitsAreNumbers DEF Verdict, Recent
    <3> QED BY <3>1, CountsAreNumbers, UploadsAssumption
  <2>6. Shared'
    <3>1. Cardinality(Own') = Cardinality(Own) /\ started' = started
      BY <1>1, <2>3
    <3> QED BY <2>4, <2>5, <3>1, CountsAreNumbers, LimitsAreNumbers, SMTT(30) DEF Shared
  <2>7. RawFilesAreDiscarded'
    BY <1>1, <1>3, <2>1 DEF RawFilesAreDiscarded, Ask, At
  <2> QED BY <2>2, <2>6, <2>7
<1> QED BY <1>2, <1>3 DEF Ask

LEMMA UploadKeeps ==
  ASSUME IInv, NEW r \in Requests, Upload(r)
  PROVE  IInv'
<1> USE DEF IInv, Types
<1>0. Resting \in Request /\ [at |-> "cleaning", order |-> "none"] \in Request
  BY DEF Resting, Request
<1>1. CASE RefuseBody(r) \/ RefusePage(r)
  <2>1. /\ requests' = [requests EXCEPT ![r] = Resting] /\ raw' = [raw EXCEPT ![r] = @ - 1]
        /\ UnderWay(r) /\ UNCHANGED <<orders, started, crashes>>
    BY <1>1 DEF RefuseBody, RefusePage, Set, Discard, UnderWay
  <2>2. Types'
    BY <1>0, <2>1
  <2>3. Own' = Own /\ Admitted' \subseteq Admitted
    BY <2>1 DEF Own, Counted, Admitted, UnderWay, At, Resting
  <2>4. Shared'
    BY <2>1, <2>3, StillShared
  <2>5. RawFilesAreDiscarded'
    BY <2>1 DEF RawFilesAreDiscarded, UnderWay, At, Resting
  <2> QED BY <2>2, <2>4, <2>5
<1>2. CASE Receive(r)
  <2>1. requests' = [requests EXCEPT ![r] = [at |-> "cleaning", order |-> "none"]]
        /\ At(r, "receiving") /\ UNCHANGED <<orders, started, raw, crashes>>
    BY <1>2, Places DEF Receive, Set
  <2>2. Types'
    BY <1>0, <2>1
  <2>3. Own' = Own /\ Admitted' \subseteq Admitted
    BY <2>1 DEF Own, Counted, Admitted, UnderWay, At
  <2>4. Shared'
    BY <2>1, <2>3, StillShared
  <2>5. RawFilesAreDiscarded'
    BY <2>1 DEF RawFilesAreDiscarded, At
  <2> QED BY <2>2, <2>4, <2>5
<1>3. CASE Clean(r)
  <2>1. PICK o \in Orders :
          /\ orders' = [orders EXCEPT ![o] = Row("WAITING_FOR_LOCAL_WORKER", "none", FALSE)]
          /\ requests' = [requests EXCEPT ![r] = [at |-> "created", order |-> o]]
    BY <1>3 DEF Clean, Free, Set
  <2>2. /\ At(r, "cleaning") /\ raw' = [raw EXCEPT ![r] = @ - 1] /\ UNCHANGED crashes
        /\ started' = <<0>> \o started
    BY <1>3 DEF Clean, Discard
  <2>3. started' \in Seq(Nat) /\ Len(started') = Len(started) + 1 /\ Len(started) \in Nat
    BY <2>2
  <2>4. [at |-> "created", order |-> o] \in Request
    BY DEF Request
  <2>5. Types'
    <3>1. raw' \in [Requests -> Int] /\ requests' \in [Requests -> Request]
      BY <2>1, <2>2, <2>4
    <3>2. orders' = [p \in Orders |-> orders'[p]]
      BY <2>1
    <3> QED BY <2>2, <2>3, <3>1, <3>2
  <2>6. Own' \subseteq Own \cup {o}
    BY <2>1 DEF Own, Counted
  <2>7. r \in Admitted /\ Admitted' \subseteq Admitted \ {r}
    BY <2>1, <2>2 DEF Admitted, UnderWay, At
  <2>8. Cardinality(Own') \in Nat /\ Cardinality(Own') <= Cardinality(Own) + 1
    BY <2>6, CountsAreNumbers, OneMore
  <2>9. Cardinality(Admitted') \in Nat /\ Cardinality(Admitted') <= Cardinality(Admitted) - 1
    BY <2>7, CountsAreNumbers, OneLess
  <2>10. Shared'
    <3>1. Cardinality(Own') + Cardinality(Admitted') <= Cardinality(Own) + Cardinality(Admitted)
      BY <2>8, <2>9, CountsAreNumbers
    <3>2. Len(started') + Cardinality(Admitted') <= Len(started) + Cardinality(Admitted)
      BY <2>3, <2>9, CountsAreNumbers
    <3>3. Cardinality(Own') + Cardinality(Admitted') < InFlightLimit + Cardinality(Requests)
      <4> HIDE DEF IInv, Types
      <4>1. Cardinality(Own) + Cardinality(Admitted) < InFlightLimit + Cardinality(Requests)
        BY DEF IInv, Shared
      <4>2. InFlightLimit + Cardinality(Requests) \in Int
        BY CountsAreNumbers, LimitsAreNumbers
      <4> QED BY <2>8, <2>9, <3>1, <4>1, <4>2, CountsAreNumbers, NoLarger
    <3>4. Len(started') + Cardinality(Admitted') < PerDay + Cardinality(Requests)
      <4> HIDE DEF IInv, Types
      <4>1. Len(started) + Cardinality(Admitted) < PerDay + Cardinality(Requests)
        BY DEF IInv, Shared
      <4>2. PerDay + Cardinality(Requests) \in Int
        BY CountsAreNumbers, LimitsAreNumbers
      <4>3. Len(started) \in Nat /\ Len(started') \in Nat
        BY <2>3 DEF IInv, Types
      <4> QED BY ONLY <2>9, <3>2, <4>1, <4>2, <4>3, CountsAreNumbers, NoLarger
    <3> QED BY <3>3, <3>4 DEF Shared
  <2>11. RawFilesAreDiscarded'
    BY <2>1, <2>2 DEF RawFilesAreDiscarded, At
  <2> QED BY <2>5, <2>10, <2>11
<1>4. CASE Enqueue(r)
  <2>1. requests' = [requests EXCEPT ![r] = Resting] /\ At(r, "created")
        /\ UNCHANGED <<started, raw, crashes>>
    BY <1>4 DEF Enqueue, Set
  <2>2. /\ orders' = [o \in Orders |-> orders'[o]]
        /\ \A o \in Orders : orders'[o] = orders[o]
                               \/ orders'[o] = [orders[o] EXCEPT !.job = "live"]
    BY <1>4 DEF Enqueue
  <2>3. Types'
    BY <1>0, <2>1, <2>2
  <2>4. Own' \subseteq Own /\ Admitted' \subseteq Admitted
    <3>1. \A o \in Orders : orders'[o].status = orders[o].status
                             /\ orders'[o].back = orders[o].back
      BY <1>4 DEF Enqueue, NoOrder
    <3> QED BY <2>1, <3>1 DEF Own, Counted, Admitted, UnderWay, At, Resting
  <2>5. Shared'
    BY <2>1, <2>4, StillShared
  <2>6. RawFilesAreDiscarded'
    BY <2>1 DEF RawFilesAreDiscarded, At, Resting
  <2> QED BY <2>3, <2>5, <2>6
<1> QED BY <1>1, <1>2, <1>3, <1>4 DEF Upload

-----------------------------------------------------------------------------
(* What becomes of an order, of the process and of the day.                *)

\* An order that already counted, or was moved by the staff, or no longer counts.
LEMMA BecomesKeeps ==
  ASSUME IInv, NEW o \in Orders, NEW status, NEW job, NEW back, Becomes(o, status, job, back),
         \/ status = orders[o].status /\ back = orders[o].back
         \/ back = TRUE
         \/ status \notin InFlightStatuses
  PROVE  IInv'
<1> USE DEF IInv, Types
<1>1. orders' = [orders EXCEPT ![o] = Row(status, job, back)]
      /\ UNCHANGED <<started, requests, raw, crashes>>
  BY DEF Becomes
<1>2. Row(status, job, back).status \in InFlightStatuses =>
        status \in InFlightStatuses /\ Row(status, job, back).status = status
        /\ Row(status, job, back).back = back
  BY DEF Row, NoOrder, InFlightStatuses
<1>3. Own' \subseteq Own /\ Admitted' = Admitted
  BY <1>1, <1>2 DEF Own, Counted, Admitted, UnderWay, At
<1>4. Shared'
  BY <1>1, <1>3, StillShared
<1> QED BY <1>1, <1>4 DEF RawFilesAreDiscarded, At

LEMMA ProgressKeeps ==
  ASSUME IInv, NEW o \in Orders, Progress(o)
  PROVE  IInv'
<1>1. \E status, job, back :
        /\ Becomes(o, status, job, back)
        /\ \/ status = orders[o].status /\ back = orders[o].back
           \/ back = TRUE
           \/ status \notin InFlightStatuses
  <2>1. CASE FailJob(o) \/ AskCustomer(o) \/ Answer(o)
    BY <2>1 DEF FailJob, AskCustomer, Answer
  <2>2. CASE DeliverModel(o)
    BY <2>2 DEF DeliverModel, InFlightStatuses
  <2>3. CASE Cancel(o)
    BY <2>3 DEF Cancel, InFlightStatuses
  <2>4. CASE Decide(o)
    <3>1. \/ Becomes(o, "READY", orders[o].job, orders[o].back)
          \/ Becomes(o, "FAILED", orders[o].job, orders[o].back)
          \/ Becomes(o, "DRAWING_ANALYSIS", "live", TRUE)
      BY <2>4 DEF Decide
    <3>2. "READY" \notin InFlightStatuses /\ "FAILED" \notin InFlightStatuses
      BY DEF InFlightStatuses
    <3> QED BY <3>1, <3>2
  <2>5. CASE Move(o)
    BY <2>5 DEF Move
  <2> QED BY <2>1, <2>2, <2>3, <2>4, <2>5 DEF Progress
<1> QED BY <1>1, BecomesKeeps

LEMMA CrashKeeps ==
  ASSUME IInv, Crash
  PROVE  IInv'
<1> USE DEF IInv, Types
<1>1. /\ requests' = [r \in Requests |-> Resting] /\ crashes' = crashes + 1
      /\ UNCHANGED <<orders, started, raw>>
  BY DEF Crash
<1>2. Types'
  BY <1>1 DEF Resting, Request
<1>3. Own' = Own /\ Admitted' \subseteq Admitted
  BY <1>1 DEF Own, Counted, Admitted, UnderWay, At, Resting
<1>4. Shared'
  BY <1>1, <1>3, StillShared
<1>5. RawFilesAreDiscarded'
  BY <1>1 DEF RawFilesAreDiscarded, At, Resting
<1> QED BY <1>2, <1>4, <1>5

LEMMA TickKeeps ==
  ASSUME IInv, Tick
  PROVE  IInv'
<1> USE DEF IInv, Types
<1> DEFINE young == {i \in DOMAIN started : started[i] + 1 < Window}
<1>1. started' = [i \in 1..Cardinality(young) |-> started[i] + 1]
      /\ UNCHANGED <<orders, requests, raw, crashes>>
  BY DEF Tick
<1>2. Cardinality(young) \in Nat /\ Cardinality(young) <= Len(started)
  <2>1. young \subseteq 1..Len(started)
    OBVIOUS
  <2>2. IsFiniteSet(1..Len(started)) /\ Cardinality(1..Len(started)) = Len(started)
    <3>1. Len(started) \in Nat
      OBVIOUS
    <3> QED BY <3>1, FirstNumbers
  <2> QED BY <2>1, <2>2, NoMore
<1> HIDE DEF young
<1>3. started' \in Seq(Nat) /\ Len(started') = Cardinality(young)
  <2>1. \A i \in 1..Cardinality(young) : started[i] + 1 \in Nat
    BY <1>2
  <2>2. started' \in [1..Cardinality(young) -> Nat]
    BY <1>1, <2>1
  <2> QED BY <1>2, <2>2, ListsOfNumbers
<1>4. Own' = Own /\ Admitted' = Admitted
  BY <1>1 DEF Own, Counted, Admitted, UnderWay, At
<1>5. Shared'
  BY <1>2, <1>3, <1>4, StillShared
<1> QED BY <1>1, <1>3, <1>5 DEF RawFilesAreDiscarded, At

LEMMA Invariant == Spec => []IInv
<1>1. Init => IInv
  <2> SUFFICES ASSUME Init
               PROVE  IInv
    OBVIOUS
  <2>1. Types
    BY DEF Init, Types, Resting, Request
  <2>2. Own = {} /\ Admitted = {} /\ Len(started) = 0
    BY DEF Init, Own, Counted, NoOrder, InFlightStatuses, Admitted, UnderWay, At, Resting
  <2>3. Shared
    BY <2>2, FS_EmptySet, CountsAreNumbers, LimitsAreNumbers DEF Shared
  <2> QED BY <2>1, <2>3 DEF IInv, RawFilesAreDiscarded, Init, At, Resting
<1>2. IInv /\ [Next]_vars => IInv'
  <2> SUFFICES ASSUME IInv, [Next]_vars
               PROVE  IInv'
    OBVIOUS
  <2>1. CASE UNCHANGED vars
    BY <2>1 DEF vars, IInv, Types, Shared, Own, Counted, Admitted, UnderWay, At,
                RawFilesAreDiscarded
  <2> QED BY <2>1, AskKeeps, UploadKeeps, ProgressKeeps, CrashKeeps, TickKeeps DEF Next
<1> QED BY <1>1, <1>2, PTL DEF Spec

\* Uploads that overlap pass the quota by no more than their number, however they
\* interleave with each other, with cancellations and with the staff; the day's
\* count likewise.
THEOREM TheQuotaIsShared == Spec => []QuotaIsShared
<1>1. IInv => QuotaIsShared
  BY CountsAreNumbers, LimitsAreNumbers DEF IInv, Types, Shared, Own, QuotaIsShared
<1> QED BY <1>1, Invariant, PTL

\* A file that a customer sent stays in the quarantine only while its request
\* works on it, or if the process died under it.
THEOREM FilesAreDiscarded == Spec => []RawFilesAreDiscarded
<1>1. IInv => RawFilesAreDiscarded
  BY DEF IInv
<1> QED BY <1>1, Invariant, PTL
=============================================================================
