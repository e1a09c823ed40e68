---------------------------- MODULE MCEvidenceLoop ----------------------------
(* Two groups of types: without a baseline, and with one of two tools, one *)
(* of which is not among the tools of the loop (as get_invoice_for_order   *)
(* for the inventory types).                                               *)
EXTENDS EvidenceLoop, TLC

CONSTANTS t1, t2, t3, other, ids

MCTool      == {t1, t2, t3}
MCBaselines == {{}, {t1, Foreign}}
MCArguments == {Empty, other, ids}
=============================================================================
