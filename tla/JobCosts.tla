------------------------------ MODULE JobCosts ------------------------------
(***************************************************************************)
(* The price of one job: profiles are published, events are recorded, and  *)
(* callers calculate a breakdown and save it as the draft or as the final  *)
(* snapshot (app/costing/service.py).  A save is a transaction that reads, *)
(* deletes and inserts; two of them may read before either writes.         *)
(*                                                                         *)
(* Nothing under src/ but the tests calls the two services yet; what the   *)
(* callers may do is what the services let them.                           *)
(***************************************************************************)
EXTENDS Costing

CONSTANTS Callers,
          Offered,         \* the versions of a profile that may be published
          Measurable,      \* the events a job may record
          MostEvents,      \* bound: events recorded
          MostWatched,     \* bound: events recorded once somebody calculates
          MostDrafts       \* bound: drafts saved

VARIABLES events,          \* the rows of the ledger
          published,       \* the rows of pricing_profiles, by version
          snapshots,       \* the rows of job_cost_snapshots
          callers,         \* what each caller is doing
          saved            \* saves so far: the id of the next snapshot

costVars == <<events, published, snapshots, callers, saved>>

\* Profiles and events are what the contracts accept (contracts.py:753 and 935), and
\* a profile is one that can yield a price.
ASSUME CostsAssumption ==
  /\ {MostEvents, MostWatched, MostDrafts} \subseteq Nat
  /\ \A p \in Offered :
        /\ {p.default_model, p.model, p.unit, p.worker, p.licence, p.vps, p.minute, p.included,
            p.analysis_fee, p.cad_fee, p.repair_fee, p.fixed, p.risk, p.minimum} \subseteq Nat
        /\ p.step \in Nat \ {0} /\ p.percent \in 0..4 /\ p.margin \in 0..3
        /\ Denominator(p) > 0
  /\ \A e \in Measurable :
        /\ {e.start, e.tokens, e.minutes} \subseteq Nat
        /\ e.finish = Never \/ (e.finish \in Nat /\ e.finish >= e.start)

Resting == [doing |-> "nothing"]

Saving(c) == callers[c].doing \in {"DRAFT", "FINAL"}

NobodyCalculates == snapshots = {} /\ \A c \in Callers : callers[c] = Resting

\* Whatever has been calculated or is being saved meanwhile.
RecordEvent ==
  /\ Cardinality(events) < IF NobodyCalculates THEN MostEvents ELSE MostWatched
  /\ \E e \in Measurable \ events : events' = events \cup {e}
  /\ UNCHANGED <<published, snapshots, callers, saved>>

\* A version is stored once.
Publish ==
  /\ \E p \in Offered : p \notin published /\ published' = published \cup {p}
  /\ UNCHANGED <<events, snapshots, callers, saved>>

Breakdown(p) ==
  [price |-> Price(events, p), status |-> AiCostStatus(events)]

Rows(status) == {s \in snapshots : s.status = status}

\* A caller works out a breakdown, of the events there are by then.
Calculate(c) ==
  /\ callers[c] = Resting /\ Cardinality(events) <= MostWatched
  /\ \E p \in published :
        callers' = [callers EXCEPT ![c] = [doing |-> "calculated", breakdown |-> Breakdown(p)]]
  /\ UNCHANGED <<events, published, snapshots, saved>>

\* It asks for the breakdown to be saved, and the transaction reads whether there
\* is a final snapshot and which drafts there are to delete.
Begin(c, status) ==
  /\ callers[c].doing = "calculated"
  /\ saved < MostDrafts
  /\ \E allow_unverifiable \in BOOLEAN :
        status = "FINAL" /\ callers[c].breakdown.status = "UNVERIFIABLE" => allow_unverifiable
  /\ Rows("FINAL") = {}
  /\ callers' = [callers EXCEPT ![c] =
       [doing |-> status, breakdown |-> @.breakdown, drafts |-> Rows("DRAFT")]]
  /\ UNCHANGED <<events, published, snapshots, saved>>

\* One that finds the final snapshot is refused, or is given it back: either
\* way nothing changes.

\* uq_job_cost_snapshots_final.
MayInsert(status) == status = "FINAL" => Rows("FINAL") = {}

\* The drafts it saw are deleted, its own row is inserted.
Commit(c) ==
  /\ Saving(c) /\ MayInsert(callers[c].doing)
  /\ snapshots' = (snapshots \ callers[c].drafts)
       \cup {[id |-> saved, status |-> callers[c].doing, price |-> callers[c].breakdown.price]}
  /\ saved' = saved + 1
  /\ callers' = [callers EXCEPT ![c] = Resting]
  /\ UNCHANGED <<events, published>>

\* It gives up what it has calculated, or its transaction is rolled back: the index
\* refuses it, or the database is gone.
Abandon(c) ==
  /\ callers[c] # Resting
  /\ callers' = [callers EXCEPT ![c] = Resting]
  /\ UNCHANGED <<events, published, snapshots, saved>>

\* Wrong on purpose: whichever snapshot comes first.
ShowAny == {s.price : s \in snapshots}

\* CostSnapshotService.get: the final snapshot before any draft.
Show == {s.price : s \in IF Rows("FINAL") # {} THEN Rows("FINAL") ELSE snapshots}

CostInit ==
  /\ events = {} /\ published = {} /\ snapshots = {} /\ saved = 0
  /\ callers = [c \in Callers |-> Resting]

CostNext ==
  \/ RecordEvent \/ Publish
  \/ \E c \in Callers :
        \/ Calculate(c)
        \/ Begin(c, "DRAFT") \/ Begin(c, "FINAL") \/ Commit(c) \/ Abandon(c)

CostSpec == CostInit /\ [][CostNext]_costVars
-----------------------------------------------------------------------------

\* Once a price is final it is the one that is shown, whatever drafts are saved
\* around it and however often it is finalised again (costing/service.py:3).
FinalPriceStands ==
  [][Rows("FINAL") # {} => Rows("FINAL")' = Rows("FINAL") /\ Show' = Show]_costVars

\* A job that has its final price has no draft beside it (costing/service.py:95,
\* "Refused once the job has been finalised").
FinalIsAlone == Rows("FINAL") # {} => Rows("DRAFT") = {}

Clock == UNION {e.start..e.finish : e \in events}

\* The time billed is the time at least one event was going on, so no second is
\* billed twice and none that nobody measured, and an audit over the time of the
\* job has nothing to say against it.
BilledOnce ==
  /\ BillableSeconds(events) =
       Cardinality({t \in Clock : \E s \in Spans(events) : s[1] <= t /\ t < s[2]})
  /\ \A from, to \in Clock :
        Clock \subseteq from..to =>
          "BILLABLE_EXCEEDS_WALL_CLOCK" \notin Audit(events, from, to, {})

Earns(price, p) ==         \* the costs, the reserve, the commission and the margin
  4 * (16 * price - PreMargin(events, p, price)) >= 16 * p.margin * price

Whole(step) == step % 10 = 0

\* The price is the least whole number of steps that is no less than the minimum
\* and leaves the margin after everything the price itself pays for
\* (engine.py:82 and 274).
LeastPrice(p) ==
  LET price == Price(events, p)
  IN  /\ price >= p.minimum /\ Earns(price, p)
      /\ price >= p.step => price - p.step < p.minimum \/ ~Earns(price - p.step, p)

PriceIsTheLeast == \A p \in published : Whole(p.step) => LeastPrice(p)

\* The same of any step a profile may name.
EveryPriceIsTheLeast == \A p \in published : Earns(Price(events, p), p)
=============================================================================
