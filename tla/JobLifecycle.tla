--------------------------- MODULE JobLifecycle ---------------------------
(***************************************************************************)
(* What the worker protocol promises about ONE job, whatever implements    *)
(* it.  A job is submitted once, is held by one worker at a time, may be   *)
(* rested until a stated date, and ends once: delivered or given up.  A    *)
(* hold is lost in one way only: its holder falls silent for the length of *)
(* a lease, and only silence is counted against the job.  Both services of *)
(* the API, SqlWorkerProtocolService and WorkerProtocolService, are shown  *)
(* to implement this module.                                               *)
(***************************************************************************)
EXTENDS Integers, Sequences

CONSTANTS Workers,        \* the machines that may hold the job
          MaxSilences,    \* how many silent holds a job survives
          None            \* no worker

VARIABLES stage,          \* where the job is
          holder,         \* the worker holding it
          quiet,          \* the holder's lease has run out
          silences,       \* holds that ended in silence
          delivered       \* the workers whose delivery was accepted

vars == <<stage, holder, quiet, silences, delivered>>

Stages == {"absent", "waiting", "held", "resting", "done", "dead"}

Init ==
  /\ stage = "absent"
  /\ holder = None
  /\ quiet = FALSE
  /\ silences = 0
  /\ delivered = << >>

Submit ==
  /\ stage = "absent"
  /\ stage' = "waiting"
  /\ UNCHANGED <<holder, quiet, silences, delivered>>

Grant(w) ==
  /\ stage = "waiting" /\ silences < MaxSilences
  /\ stage' = "held" /\ holder' = w
  /\ UNCHANGED <<quiet, silences, delivered>>

\* The holder has said nothing for the length of its lease.  It cannot speak
\* for the job again.
FallSilent ==
  /\ stage = "held" /\ ~quiet
  /\ quiet' = TRUE
  /\ UNCHANGED <<stage, holder, silences, delivered>>

\* A silent hold is ended, and counted: the job waits again, goes straight to
\* the next worker, or is given up.
EndSilence ==
  /\ stage = "held" /\ quiet
  /\ quiet' = FALSE /\ silences' = silences + 1
  /\ \/ stage' = "waiting" /\ holder' = None
     \/ silences' < MaxSilences /\ stage' = "held" /\ holder' \in Workers
     \/ silences' = MaxSilences /\ stage' = "dead" /\ holder' = None
  /\ UNCHANGED delivered

Rest ==
  /\ stage = "held" /\ ~quiet
  /\ stage' = "resting" /\ holder' = None
  /\ UNCHANGED <<quiet, silences, delivered>>

Wake ==
  /\ stage = "resting"
  /\ stage' = "waiting"
  /\ UNCHANGED <<holder, quiet, silences, delivered>>

Deliver ==
  /\ stage = "held" /\ ~quiet
  /\ stage' = "done" /\ holder' = None
  /\ delivered' = Append(delivered, holder)
  /\ UNCHANGED <<quiet, silences>>

\* The holder says the next attempt would fail the same way.
GiveUp ==
  /\ stage = "held" /\ ~quiet
  /\ stage' = "dead" /\ holder' = None
  /\ UNCHANGED <<quiet, silences, delivered>>

\* Nobody holds the job and no attempt is left.
Exhaust ==
  /\ stage = "waiting" /\ silences = MaxSilences
  /\ stage' = "dead"
  /\ UNCHANGED <<holder, quiet, silences, delivered>>

Next ==
  \/ Submit
  \/ \E w \in Workers : Grant(w)
  \/ FallSilent
  \/ EndSilence
  \/ Rest
  \/ Wake
  \/ Deliver
  \/ GiveUp
  \/ Exhaust

Spec == Init /\ [][Next]_vars
=============================================================================
