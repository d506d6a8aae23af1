------------------------------ MODULE MCZtnaSdk ------------------------------
(***************************************************************************)
(* Scores around every threshold of the SDK and of the example routes.     *)
(***************************************************************************)
EXTENDS ZtnaSdk

MCScores == {0, 399, 400, 500, 750, 799, 800, 899, 900, 1000}
=============================================================================
