-------------------------- MODULE MCAutomationEngine --------------------------
(* Small instances of AutomationEngine for TLC. *)
EXTENDS AutomationEngine

=============================================================================
