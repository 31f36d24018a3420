--------------------------- MODULE MCDrawingRun ---------------------------
(***************************************************************************)
(* Constants for checking DrawingRun: a first upload, answers to a reading *)
(* that settled the shape and to one that did not, and a round an operator *)
(* sent back.                                                              *)
(***************************************************************************)
EXTENDS DrawingRun

MCUpload == [answers |-> FALSE, note |-> FALSE, carried |-> "none"]

MCRounds == {MCUpload,
             [answers |-> TRUE, note |-> FALSE, carried |-> "settled"],
             [answers |-> TRUE, note |-> FALSE, carried |-> "unsettled"],
             [answers |-> TRUE, note |-> TRUE, carried |-> "settled"]}

MCFirstRounds == {MCUpload}
=============================================================================
