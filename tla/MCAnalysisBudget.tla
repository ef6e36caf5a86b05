--------------------------- MODULE MCAnalysisBudget ---------------------------
(* Small instances of AnalysisBudget for TLC. *)
EXTENDS AnalysisBudget

CONSTANTS market, news, critic

Canonical == <<market, news, critic>>
=============================================================================
