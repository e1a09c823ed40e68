----------------------------- MODULE MCApprovals -----------------------------
(* A small organization: a finance manager and two controllers, and an      *)
(* exception on each side of the policy's limits. Processes, keys,          *)
(* requests and the controllers are interchangeable.                        *)
EXTENDS Approvals, TLC

CONSTANTS fin, con1, con2, small, large, double, review

MCRoleOf == [a \in Actor |-> IF a = fin THEN "FINANCE_MANAGER" ELSE "CONTROLLER"]
MCTypeOf == [e \in Exception |-> IF e = double THEN "DUPLICATE_PAYMENT"
                                 ELSE "MISSING_SETTLEMENT"]
MCStatusOf == [e \in Exception |-> "OPEN"]
MCExposureOf == [e \in Exception |-> IF e = small THEN 10000 ELSE 100001]
MCAllowed == [e \in Exception |-> {review}]

Symmetry == Permutations(Process) \cup Permutations(Key) \cup Permutations(Request)
              \cup Permutations({con1, con2})

(* audit is only ever written: states that differ in it alone are the same *)
(* to every property of the run.                                           *)
Unaudited == <<requests, decisions, ledger, proc, disturbed>>
=============================================================================
