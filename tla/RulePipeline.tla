------------------------------ MODULE RulePipeline ------------------------------
(***************************************************************************)
(* The deterministic core put together: a dataset version is reconciled    *)
(* (reconciliation/service.py), and an exception of the run is             *)
(* investigated (financial_exception_investigations/service.py) with the   *)
(* evidence of the tools. The provider's candidate is a SUPPORTED one with *)
(* any root cause and action, which cites the tools' evidence, less what   *)
(* they say of one source or plus one citation of its own, and nothing     *)
(* contradictory. Requests, retries and storage are in DatasetPipeline and *)
(* in ExceptionInvestigation; here the data has its content.               *)
(***************************************************************************)
EXTENDS LifecycleConstruction, ReconciliationEngine, EvidenceTools

CONSTANTS
  Datasets,          \* the sequences of rows that a version may hold
  Roots,             \* root causes and actions that a candidate may name
  Actions,
  Doubtful           \* citations that a provider may add to those of the tools

(* domain/schemas.py                                                       *)
ExceptionType ==
  {"REFUND_WITHOUT_INVENTORY_RETURN", "MISSING_SETTLEMENT", "DUPLICATE_PAYMENT",
   "AMBIGUOUS_ASSOCIATION", "ERP_INVOICE_MISSING", "ERP_AMOUNT_MISMATCH",
   "SETTLEMENT_TIMING", "SETTLEMENT_FEE_VARIANCE", "MANUAL_WORKFLOW_ANOMALY",
   "REFUND_WITHOUT_ERP_REVERSAL", "PARTIAL_REFUND_MISMATCH", "PAYMENT_FEE_MISSING",
   "SETTLEMENT_FEE_MISSING", "INVENTORY_VALUE_MISMATCH", "INVENTORY_QUANTITY_MISMATCH",
   "INVENTORY_RESTORED_WITHOUT_REFUND"}

(* The words that are compared with null somewhere.                        *)
Words ==
  ExceptionType \cup {"SUPPORTED", "RETURN", "equals", "not_equals", "missing", "exists"}
    \cup {IdOf[source] : source \in Source} \cup UNION {FieldsOf[source] : source \in Source}

(* Null is none of them; int() reads integers, and Decimal() reads other   *)
(* texts as other numbers or as NaN; and what the sources and the tools    *)
(* write in upper case stays itself.                                       *)
ASSUME TextAssumption ==
  /\ None \notin Words
  /\ {None, "RETURN"} \cap (DOMAIN Amount \cup DOMAIN Decimals) = {}
  /\ {None, "RETURN"} \cap (NotANumber \cup DOMAIN Cased) = {}
  /\ \A text \in DOMAIN Amount : Amount[text] \in Int
  /\ \A text \in DOMAIN Decimals : Decimals[text] \in Int \X Nat
  /\ DOMAIN Amount \cap DOMAIN Decimals = {}
  /\ (DOMAIN Amount \cup DOMAIN Decimals) \cap NotANumber = {}

(* What normalization leaves in a row: money is an integer, a row has the  *)
(* canonical fields of its type only, and every product has a text.        *)
MoneyFields ==
  {"amount_minor", "gross_minor", "fees_minor", "gateway_fee_minor", "tax_minor", "net_minor",
   "unit_cost_minor", "inventory_value_minor"}

Normalized(row) ==
  /\ \A field \in MoneyFields : Present(row, field) => row[field] \in DOMAIN Amount
  /\ row.kind = "settlements" => ~Present(row, "refund_id")
  /\ row.kind = "refunds" => ~Present(row, "settlement_id")
  /\ Get(row, "unit_cost_minor") \in DOMAIN Amount /\ Get(row, "quantity") \in DOMAIN Amount =>
       \E text \in DOMAIN Amount :
         Amount[text] = Minor(row, "unit_cost_minor") * Minor(row, "quantity")

ASSUME DatasetsAssumption ==
  \A data \in Datasets :
    /\ data \in Seq(ToSet(data))
    /\ \A i \in DOMAIN data : Normalized(data[i])
    /\ \A i, j \in DOMAIN data : data[i].row = data[j].row => i = j

VARIABLES
  rows,              \* the rows of the dataset version, never changed
  run,               \* the latest run: its status and its result per order
  answer             \* the latest investigation: the order, its type, what is left of the
                     \* candidate after verification, and whether that is clean and cites
                     \* the tools only
vars == <<rows, run, answer>>

NoRun    == [status |-> "NONE", results |-> <<>>]
NoAnswer == [order |-> None, type |-> None, root |-> None, status |-> None, own |-> FALSE]

Init == rows \in Datasets /\ run = NoRun /\ answer = NoAnswer

(* The lifecycle of the order among those constructed.                     *)
LifecycleFor(order) == LifecycleOf(rows, order)

(* ReconciliationService.run: a dataset that forms no lifecycles, or whose *)
(* rows are not all consumed, fails; rules that raise leave no run behind. *)
Failed == [status |-> "FAILED", results |-> <<>>]
Raised == [status |-> "RAISED", results |-> <<>>]

Outcome ==
  IF ~Constructible(rows) THEN Failed
  ELSE IF ConsumedCount(Lifecycles(rows)) # Len(rows) THEN Failed
  ELSE IF \E l \in Lifecycles(rows) : Raises(l) THEN Raised
  ELSE [status  |-> "COMPLETED",
        results |-> [o \in Orders(rows) |-> Reconcile(LifecycleFor(o))]]

(* The rows stay, so that a run is the same again: one is followed, and    *)
(* one investigation of it.                                                *)
Run == run = NoRun /\ run' = Outcome /\ UNCHANGED <<rows, answer>>

-----------------------------------------------------------------------------
(* _exception_type                                                         *)
TypeFor(result) == IF result.type \in ExceptionType THEN result.type ELSE "AMBIGUOUS_ASSOCIATION"

(* What the provider cites, of all that the schema lets it: the evidence   *)
(* collected, one source of it left out, or one citation of its own        *)
(* besides; the limit of 30 citations is not imposed.                      *)
Cited(l) ==
  LET all == Evidence(l)
  IN {all} \cup {{item \in all : item.source # source} : source \in Source}
           \cup {all \cup {item} : item \in Doubtful}

(* Verification makes no candidate SUPPORTED, so that others are left out. *)
Candidate(root, action, supporting) ==
  [status |-> "SUPPORTED", root |-> root, action |-> action, supporting |-> supporting,
   contradictory |-> {}, missing |-> FALSE]

(* What an investigation of the order may end in.                          *)
Answers(order) ==
  LET l    == LifecycleFor(order)
      type == TypeFor(run.results[order])
      all  == Evidence(l)
      Answer(root, action, supporting) ==
        LET verified == Verification(Candidate(root, action, supporting), type, l)
        IN [order |-> order, type |-> type, root |-> root,
            status |-> verified.candidate.status,
            own |-> verified.clean /\ supporting \subseteq all]
  IN {Answer(root, action, supporting) :
        root \in Roots, action \in Actions, supporting \in Cited(l) \ {{}}}

Investigate(order) ==
  /\ run.status = "COMPLETED" /\ answer = NoAnswer /\ order \in DOMAIN run.results
  /\ answer' \in Answers(order)
  /\ UNCHANGED <<rows, run>>

Next == Run \/ \E order \in Orders(rows) : Investigate(order)

Spec == Init /\ [][Next]_vars

-----------------------------------------------------------------------------
(* The sum of money a row states, when it does.                            *)
Same(row, field, other, theirs) ==
  Present(row, field) /\ Present(other, theirs) => Minor(row, field) = Minor(other, theirs)

(* The root causes that no rule states: of the quality of data, and of an  *)
(* association that is not unique.                                         *)
Unstated == {"DATA_QUALITY_ERROR", "AMBIGUOUS_ASSOCIATION"}

(* Two findings of the rules that are one type of exception.               *)
ValueRoots == {"INVENTORY_VALUE_MISMATCH", "INVENTORY_VALUE_CALCULATION_ERROR"}

(* What each other root cause says of the order.                           *)
Fact(root, l) ==
  LET returned == Movements(l, "RETURN")
      sold     == Movements(l, "SALE")
  IN CASE root \in {"INCOMPLETE_REFUND_WORKFLOW", "INVENTORY_REVERSAL_MISSING"} ->
            l.refunds # <<>> /\ returned = <<>>
       [] root = "ERP_REVERSAL_MISSING" ->
            l.refunds # <<>> /\ ~Some(l.invoices, LAMBDA i : Get(i, "status") = "REVERSED")
       [] root = "DUPLICATE_PAYMENT"   -> Len(l.payments) > 1
       [] root = "SETTLEMENT_MISSING"  -> l.settlements = <<>>
       [] root = "ERP_INVOICE_MISSING" -> l.invoices = <<>>
       [] root = "ERP_AMOUNT_MISMATCH" -> ~Same(l.invoices[1], "gross_minor", l.order, "amount_minor")
       [] root = "PAYMENT_FEE_MISSING" -> Some(l.payments, LAMBDA p : ~Present(p, "gateway_fee_minor"))
       [] root = "SETTLEMENT_FEE_MISSING" -> Some(l.settlements, LAMBDA s : ~Present(s, "fees_minor"))
       [] root = "INVENTORY_QUANTITY_MISMATCH" -> Total(sold, Quantity) # Total(returned, Quantity)
       [] root = "INVENTORY_RESTORED_WITHOUT_REFUND" -> returned # <<>> /\ l.refunds = <<>>
       [] root = "INVENTORY_VALUE_CALCULATION_ERROR" -> Some(l.inventory_movements, Misvalued)
       [] root = "INVENTORY_VALUE_MISMATCH" ->
            /\ IsKnown(sold, "unit_cost_minor") /\ IsKnown(returned, "inventory_value_minor")
            /\ TotalCost(sold) # TotalValue(returned)

(* A SUPPORTED answer for a type that names its root causes.               *)
IsStated == answer.status = "SUPPORTED" /\ answer.type \in DOMAIN Expected
              /\ answer.root \notin Unstated

(* An answer marked SUPPORTED states a fact of the order's rows, whatever  *)
(* the provider proposed and cited. Of an inventory value either the one   *)
(* or the other of its root causes is a fact; a calculation error is one   *)
(* when the provider cites the tools only, since the multiplication that   *)
(* they report as wrong is wrong to the rules too.                         *)
(* (reconcile_lifecycle, _exception_type and verify_candidate together)    *)
SupportedIsFact ==
  IsStated =>
    LET l == LifecycleFor(answer.order)
    IN /\ answer.root \notin ValueRoots => Fact(answer.root, l)
       /\ answer.root \in ValueRoots => \E root \in ValueRoots : Fact(root, l)
       /\ answer.root = "INVENTORY_VALUE_CALCULATION_ERROR" /\ answer.own => Fact(answer.root, l)

(* The same of the two root causes of an inventory value. It does not      *)
(* hold: "require a cited unit-cost multiplication mismatch"               *)
(* (verifier.py:300) is met by any citation that a value is not some other *)
(* one, and the other root cause needs no citation of a value.             *)
EverySupportedIsFact == IsStated => Fact(answer.root, LifecycleFor(answer.order))

(* The records of a source have ids of their own, and state something but  *)
(* nothing that the verifier reads as NaN.                                 *)
Citable(l, source) ==
  LET records == RowsFor(l, source)
  IN /\ \A i \in DOMAIN records :
          /\ Given(records[i], IdOf[source])
          /\ \E field \in FieldsOf[source] : Present(records[i], field)
          /\ \A field \in FieldsOf[source] : Get(records[i], field) \notin NotANumber
     /\ \A i, j \in DOMAIN records :
          Get(records[i], IdOf[source]) = Get(records[j], IdOf[source]) => i = j

(* The return of goods is written as the tools expect it.                  *)
ReturnsInUpperCase(l) ==
  \A i \in DOMAIN l.inventory_movements :
    OfType(l.inventory_movements[i], "RETURN")
      => Get(l.inventory_movements[i], "movement_type") = "RETURN"

(* Nothing the tools report of an order whose records can be cited is      *)
(* rejected by the verifier, which would turn an honest answer into        *)
(* UNRESOLVED: both read the rows alike, the claims of absence and the     *)
(* miscalculated values included. (tools.py against verifier.py)           *)
ToolEvidenceVerifies ==
  run.status = "COMPLETED" =>
    \A order \in DOMAIN run.results :
      LET l == LifecycleFor(order)
      IN (\A source \in Source : Citable(l, source)) /\ ReturnsInUpperCase(l) =>
           \A item \in Evidence(l) : Verified(item, l)

(* The same of every order. It does not hold: the second of two records    *)
(* with one id, a record that states nothing, a text that reads as NaN and *)
(* a return in lower case are cited in ways that the verifier rejects.     *)
EveryToolFactVerifies ==
  run.status = "COMPLETED" =>
    \A order \in DOMAIN run.results :
      \A item \in Evidence(LifecycleFor(order)) : Verified(item, LifecycleFor(order))

(* What a balanced order is, said of the rows of the dataset.              *)
Balanced(order) ==
  LET Of(kind)  == {r \in ToSet(rows) : r.kind = kind /\ Get(r, "order_id") = order}
      Paying(kind) == {r \in ToSet(rows) :
                         /\ r.kind = kind
                         /\ Get(r, "order_id") = order \/ ~Present(r, "order_id")
                         /\ \E p \in Of("payments") : Get(r, "payment_id") = Get(p, "payment_id")}
      sold     == Pick(rows, {r \in Of("inventory_movements") : OfType(r, "SALE")})
      returned == Pick(rows, {r \in Of("inventory_movements") : OfType(r, "RETURN")})
      sale     == CHOOSE r \in Of("orders") : TRUE
  IN /\ Cardinality(Of("payments")) = 1 /\ Cardinality(Paying("settlements")) = 1
     /\ \A p \in Of("payments"), s \in Paying("settlements") :
          /\ Same(p, "amount_minor", sale, "amount_minor")
          /\ Same(s, "gross_minor", p, "amount_minor")
          /\ (\A field \in NetFields : Present(s, field)) =>
               Minor(s, "net_minor")
                 = Minor(s, "gross_minor") - Minor(s, "fees_minor") - Minor(s, "tax_minor")
     /\ \E i \in Of("invoices") : Same(i, "gross_minor", sale, "amount_minor")
     /\ \/ Paying("refunds") = {} /\ returned = <<>>
        \/ /\ Cardinality(Paying("refunds")) = 1
           /\ \A r \in Paying("refunds") : Minor(r, "amount_minor") >= Minor(sale, "amount_minor")
           /\ returned # <<>>
           /\ sold # <<>> =>
                /\ Total(sold, Quantity) = Total(returned, Quantity)
                /\ IsKnown(sold, "unit_cost_minor") /\ IsKnown(returned, "inventory_value_minor")
                     => TotalCost(sold) = TotalValue(returned)
           /\ \/ \A i \in Of("invoices") : Get(i, "status") # "ACTIVE"
              \/ \E i \in Of("invoices") : Get(i, "status") = "REVERSED"

(* An order that a completed run calls reconciled, or reconciled with a    *)
(* variance, balances in the rows of the dataset: one payment, settled     *)
(* once and to the amount, invoiced, and a refund that is complete.        *)
(* (construct_lifecycles and reconcile_lifecycle together)                 *)
ReconciledIsBalanced ==
  run.status = "COMPLETED" =>
    \A order \in DOMAIN run.results :
      run.results[order].status \in {"RECONCILED", "RECONCILED_WITH_VARIANCE"} => Balanced(order)

(* A blank cell is a finding and not a failure: "Settlement has no fee     *)
(* evidence." (engine.py:165-171). The run of a dataset never raises.      *)
ReconcileIsTotal == run.status # "RAISED"

(* Relationships are not guessed: a completed run has no row in the        *)
(* lifecycles of two orders. (lifecycle_construction/service.py:51)        *)
OneLifecyclePerRecord ==
  run.status = "COMPLETED" =>
    \A l, other \in Lifecycles(rows) : l # other => RowsOf(l) \cap RowsOf(other) = {}
=============================================================================
