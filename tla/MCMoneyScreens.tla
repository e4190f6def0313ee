--------------------------- MODULE MCMoneyScreens ---------------------------
(* Small instances of MoneyScreens for TLC. *)
EXTENDS MoneyScreens

EveryFault == {"lost", "error", "twice"}
=============================================================================
