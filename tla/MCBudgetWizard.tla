---------------------------- MODULE MCBudgetWizard ----------------------------
(* A small instance of BudgetWizard for TLC. *)
EXTENDS BudgetWizard

EveryFault == {"lost", "error", "twice"}
=============================================================================
