----------------------- MODULE MCExceptionInvestigation -----------------------
(* A small instance of ExceptionInvestigation for TLC. Processes, keys and *)
(* results are interchangeable.                                            *)
EXTENDS ExceptionInvestigation, TLC

Symmetric == Permutations(Process) \cup Permutations(Key) \cup Permutations(Result)
=============================================================================
