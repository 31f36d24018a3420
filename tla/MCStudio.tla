------------------------------ MODULE MCStudio ------------------------------
(***************************************************************************)
(* Constants for checking Studio.                                          *)
(***************************************************************************)
EXTENDS Studio, MCOrderDesk

\* The page's own token, its next, another tab's and that of a recovery; beside
\* a busy desk two.
FewerWhenBusy == [use \in QuietOrGentle |-> IF use = Quiet THEN 4 ELSE 2]
=============================================================================
