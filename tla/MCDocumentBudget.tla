-------------------------- MODULE MCDocumentBudget --------------------------
(* DocumentBudget for TLC: transfers and openers are interchangeable.      *)
EXTENDS DocumentBudget, TLC

BudgetSymmetry == Permutations(Transfers) \cup Permutations(Openers)
=============================================================================
