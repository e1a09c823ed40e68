------------------------ MODULE MCInvestigationStart ------------------------
(* Small instances of InvestigationStart for TLC. Processes and exceptions *)
(* are interchangeable.                                                    *)
EXTENDS InvestigationStart, TLC

Symmetry == Permutations(Process) \cup Permutations(Exception)
=============================================================================
