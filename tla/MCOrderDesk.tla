---------------------------- MODULE MCOrderDesk ----------------------------
(***************************************************************************)
(* Constants for checking OrderDesk.                                       *)
(***************************************************************************)
EXTENDS OrderDesk, TLC

CONSTANTS upload, j1, j2, A, B

\* One submission at a time, no crash, decisions through the review endpoint.
Gentle ==
  [drawing |-> TRUE, hold |-> TRUE, submissions |-> 1, replays |-> FALSE,
   crashes |-> FALSE, outlast |-> TRUE, staff |-> {}, versions |-> 9]

\* hold_for_review switched off.
Unheld == [Gentle EXCEPT !.hold = FALSE]

\* An order with a document of its own and no drawing.
Manual == [Gentle EXCEPT !.drawing = FALSE]

\* Two answers at once, an API that dies, builds that outrun their handlers.
Racing ==
  [Gentle EXCEPT !.submissions = 2, !.crashes = TRUE, !.outlast = FALSE, !.versions = 1]

\* Completions delivered twice, around an order that is cancelled or expires.
Repeated == [Gentle EXCEPT !.replays = TRUE, !.staff = {"EXPIRED"}, !.versions = 1]

\* Everything at once, of an order that has one round.
Rough ==
  [drawing |-> FALSE, hold |-> TRUE, submissions |-> 2, replays |-> TRUE, crashes |-> TRUE,
   outlast |-> FALSE, staff |-> {"EXPIRED", "MANUAL_REVIEW"}, versions |-> 3]

EveryUse == {Gentle, Unheld, Manual, Racing, Repeated, Rough}
GentleOrManual == {Gentle, Manual}

\* For Studio: a desk at which people work, and one that only takes answers.
Quiet == [Unheld EXCEPT !.versions = 0]
QuietOrGentle == {Quiet, Gentle}
=============================================================================
