------------------------- MODULE MCPositionAmounts -------------------------
(* Constants that a configuration file cannot write. *)
EXTENDS PositionAmounts
Rate_10 == <<1, 10>>
Rate_100 == <<1, 100>>
Fees_Both == {8, -3}
=============================================================================
