------------------------- MODULE ReconciliationEngine -------------------------
(***************************************************************************)
(* reconciliation/engine.py: one lifecycle is reconciled by rules that     *)
(* each add a finding. The order of the findings matters, since the first  *)
(* one gives the type of the exception. Messages are left out; times are   *)
(* numbers of days.                                                        *)
(***************************************************************************)
EXTENDS CanonicalRows

Finding(code, exposure, category) ==
  [code |-> code, exposure |-> exposure, category |-> category]

When(test, finding) == IF test THEN <<finding>> ELSE <<>>

Distance(m, n) == IF m >= n THEN m - n ELSE n - m

OrderAmount(l) == Minor(l.order, "amount_minor")

(* A field of the row is not what the rule expects.                        *)
Differs(row, field, value) == Present(row, field) /\ Minor(row, field) # value

Captured  == {"CAPTURED", "SUCCESS", "SUCCESSFUL", "COMPLETED", "PAID", "SETTLED"}
Cancelled == {"CANCELLED", "CANCELED", "FAILED", "VOID"}
Refunded  == {"PROCESSED", "COMPLETED", "SUCCESS", "SUCCESSFUL", "REFUNDED"}

StatusOutside(row, statuses) ==
  Present(row, "status") /\ Upper(row.status) \notin statuses

-----------------------------------------------------------------------------
NetFields == {"gross_minor", "fees_minor", "tax_minor", "net_minor"}

NetFindings(settlement) ==
  LET Value(field) == Minor(settlement, field)
      expected == Value("gross_minor") - Value("fees_minor") - Value("tax_minor")
  IN When(/\ \A field \in NetFields : Present(settlement, field)
          /\ expected # Value("net_minor"),
          Finding("SETTLEMENT_NET_MISMATCH", Distance(expected, Value("net_minor")),
                  "POTENTIAL_EXPOSURE"))

GrossFindings(payment, settlement) ==
  When(Present(payment, "amount_minor")
         /\ Differs(settlement, "gross_minor", Minor(payment, "amount_minor")),
       Finding("SETTLEMENT_GROSS_MISMATCH",
               Distance(Minor(settlement, "gross_minor"), Minor(payment, "amount_minor")),
               "POTENTIAL_EXPOSURE"))

CurrencyFindings(l, row) ==
  When(Present(l.order, "currency") /\ Present(row, "currency")
         /\ row.currency # l.order.currency,
       Finding("CURRENCY_MISMATCH", 0, "DATA_QUALITY"))

(* The payment, and the rows beside it.                                    *)
PaymentFindings(l) ==
  LET payment == l.payments[1]
      amount  == OrderAmount(l)
  IN ForEach(<<l.order>> \o l.payments \o l.refunds \o l.settlements,
             LAMBDA row : CurrencyFindings(l, row))
     \o When(Present(l.order, "status") /\ Upper(l.order.status) \in Cancelled,
             Finding("ORDER_STATUS_MISMATCH", amount, "CONTROL_RISK"))
     \o When(StatusOutside(payment, Captured),
             Finding("PAYMENT_STATUS_MISMATCH", amount, "CONTROL_RISK"))
     \o When(Differs(payment, "amount_minor", amount),
             Finding("PAYMENT_AMOUNT_MISMATCH",
                     Distance(Minor(payment, "amount_minor"), amount), "POTENTIAL_EXPOSURE"))
     \o ForEach(l.refunds,
                LAMBDA row : When(StatusOutside(row, Refunded),
                                  Finding("REFUND_STATUS_MISMATCH", 0, "CONTROL_RISK")))
     \o When(Len(l.settlements) > 1, Finding("MULTIPLE_SETTLEMENTS_REVIEW", 0, "DATA_QUALITY"))
     \o When(Len(l.refunds) > 1, Finding("MULTIPLE_REFUNDS_REVIEW", 0, "DATA_QUALITY"))
     \o ForEach(l.settlements,
                LAMBDA row : GrossFindings(payment, row) \o NetFindings(row))

(* The first settlement: its day and its fee.                              *)
SettlementFindings(l) ==
  LET settlement == l.settlements[1]
      payment    == l.payments[1]
      fee        == Minor(settlement, "fees_minor")
      gateway    == Minor(payment, "gateway_fee_minor")
  IN When(Present(settlement, "settled_at") /\ Present(payment, "captured_at")
            /\ Minor(settlement, "settled_at") - Minor(payment, "captured_at") > 2,
          Finding("SETTLEMENT_OUTSIDE_WINDOW", 0, "TIMING_VARIANCE"))
     \o When(~Present(settlement, "fees_minor"),
             Finding("SETTLEMENT_FEE_MISSING", 0, "DATA_QUALITY"))
     \o When(~Present(payment, "gateway_fee_minor"),
             Finding("PAYMENT_FEE_MISSING", 0, "DATA_QUALITY"))
     \o When(/\ Present(settlement, "fees_minor") /\ Present(payment, "gateway_fee_minor")
             /\ fee # gateway,
             Finding("SETTLEMENT_FEE_VARIANCE", Distance(fee, gateway), "TIMING_VARIANCE"))

InvoiceFindings(l) ==
  LET gross == Minor(l.invoices[1], "gross_minor")
  IN IF l.invoices = <<>>
     THEN <<Finding("ERP_INVOICE_MISSING", OrderAmount(l), "POTENTIAL_EXPOSURE")>>
     ELSE When(gross # OrderAmount(l),
               Finding("ERP_AMOUNT_MISMATCH", Distance(gross, OrderAmount(l)), "DATA_QUALITY"))

-----------------------------------------------------------------------------
(* A quantity that is not mapped counts as none.                           *)
Quantity(row) == IF "quantity" \in DOMAIN row THEN Minor(row, "quantity") ELSE 0
Cost(row)     == Minor(row, "unit_cost_minor") * Quantity(row)

(* A sum of values is known when there are rows and each has the field.    *)
IsKnown(rows, field) == rows # <<>> /\ \A i \in DOMAIN rows : Present(rows[i], field)

TotalCost(rows)  == Total(rows, Cost)
TotalValue(rows) == Total(rows, LAMBDA row : Minor(row, "inventory_value_minor"))

(* The value of the movement is not its cost.                              *)
Misvalued(row) ==
  Present(row, "unit_cost_minor") /\ Differs(row, "inventory_value_minor", Cost(row))

MiscalculatedFindings(row) ==
  When(Misvalued(row),
       Finding("INVENTORY_VALUE_CALCULATION_ERROR",
               Distance(Minor(row, "inventory_value_minor"), Cost(row)), "DATA_QUALITY"))

InventoryFindings(l) ==
  LET returned == Movements(l, "RETURN")
  IN ForEach(l.inventory_movements, MiscalculatedFindings)
     \o When(returned # <<>> /\ l.refunds = <<>>,
             Finding("INVENTORY_RESTORED_WITHOUT_REFUND",
                     IF IsKnown(returned, "inventory_value_minor") THEN TotalValue(returned)
                     ELSE 0, "CONTROL_RISK"))

(* What a full refund has to give back to the inventory.                   *)
ReturnFindings(l) ==
  LET sold     == Movements(l, "SALE")
      returned == Movements(l, "RETURN")
      known    == IsKnown(sold, "unit_cost_minor") /\ IsKnown(returned, "inventory_value_minor")
      gap      == IF known THEN Distance(TotalCost(sold), TotalValue(returned)) ELSE 0
  IN IF returned = <<>>
     THEN <<Finding("INVENTORY_RETURN_MISSING",
                    IF IsKnown(sold, "unit_cost_minor") THEN TotalCost(sold) ELSE 0,
                    "CONTROL_RISK")>>
     ELSE IF sold # <<>> /\ Total(sold, Quantity) # Total(returned, Quantity)
     THEN <<Finding("INVENTORY_QUANTITY_MISMATCH", gap, "CONTROL_RISK")>>
     ELSE When(sold # <<>> /\ gap # 0, Finding("INVENTORY_VALUE_MISMATCH", gap, "CONTROL_RISK"))

(* The first refund.                                                       *)
RefundFindings(l) ==
  LET amount == Minor(l.refunds[1], "amount_minor")
  IN IF l.refunds = <<>> THEN <<>>
     ELSE When(Some(l.employee_actions,
                    LAMBDA row : Get(row, "action") = "MANUAL_REFUND_APPROVED"),
               Finding("MANUAL_WORKFLOW_ANOMALY", 0, "CONTROL_RISK"))
          \o (IF amount < OrderAmount(l)
              THEN <<Finding("PARTIAL_REFUND_MISMATCH", amount, "POTENTIAL_EXPOSURE")>>
              ELSE ReturnFindings(l))
          \o When(/\ l.invoices # <<>> /\ Get(l.invoices[1], "status") = "ACTIVE"
                  /\ ~Some(l.invoices, LAMBDA row : Get(row, "status") = "REVERSED"),
                  Finding("ERP_REVERSAL_MISSING", amount, "CONTROL_RISK"))

(* Mutant: the findings of the payment are left out.                       *)
FindingsAfterPayment(l) ==
  SettlementFindings(l) \o InvoiceFindings(l) \o InventoryFindings(l) \o RefundFindings(l)

Findings(l) ==
  PaymentFindings(l) \o SettlementFindings(l) \o InvoiceFindings(l)
    \o InventoryFindings(l) \o RefundFindings(l)

-----------------------------------------------------------------------------
Result(status, type, severity, exposure, findings, category) ==
  [status |-> status, type |-> type, severity |-> severity, exposure |-> exposure,
   findings |-> findings, category |-> category]

(* Several payments are duplicates when each is settled, or when each has  *)
(* a processor reference of its own.                                       *)
IsDuplicate(l) ==
  LET Ids(rows) == {Get(rows[i], "payment_id") : i \in DOMAIN rows}
      Reference(row) == IF Present(row, "gateway_reference") THEN row.gateway_reference
                        ELSE IF Present(row, "merchant_ref") THEN row.merchant_ref
                        ELSE None
  IN \/ Ids(l.payments) \subseteq Ids(l.settlements)
     \/ \A i, j \in DOMAIN l.payments :
          /\ Reference(l.payments[i]) # None
          /\ i # j => Reference(l.payments[i]) # Reference(l.payments[j])

(* A result of one finding, from before the other rules.                   *)
Single(status, type, code, severity, l, category) ==
  Result(status, type, severity, OrderAmount(l),
         <<Finding(code, OrderAmount(l), category)>>, "POTENTIAL_EXPOSURE")

Renamed(code) ==
  CASE code = "INVENTORY_RETURN_MISSING" -> "REFUND_WITHOUT_INVENTORY_RETURN"
    [] code = "ERP_REVERSAL_MISSING" -> "REFUND_WITHOUT_ERP_REVERSAL"
    [] code = "INVENTORY_VALUE_CALCULATION_ERROR" -> "INVENTORY_VALUE_MISMATCH"
    [] OTHER -> code

Severe == {"REFUND_WITHOUT_INVENTORY_RETURN", "REFUND_WITHOUT_ERP_REVERSAL",
           "DUPLICATE_PAYMENT", "INVENTORY_VALUE_MISMATCH", "INVENTORY_QUANTITY_MISMATCH",
           "INVENTORY_RESTORED_WITHOUT_REFUND"}

Gravest(findings) ==
  LET has(category) == Some(findings, LAMBDA f : f.category = category)
  IN CASE has("POTENTIAL_EXPOSURE") -> "POTENTIAL_EXPOSURE"
       [] ~has("POTENTIAL_EXPOSURE") /\ has("CONTROL_RISK") -> "CONTROL_RISK"
       [] OTHER -> IF has("DATA_QUALITY") THEN "DATA_QUALITY" ELSE "TIMING_VARIANCE"

Variance == {"SETTLEMENT_OUTSIDE_WINDOW", "SETTLEMENT_FEE_VARIANCE"}

Exposures(findings) == {findings[i].exposure : i \in DOMAIN findings}

Concluded(findings) ==
  IF findings = <<>> THEN Result("RECONCILED", None, "LOW", 0, <<>>, "NONE")
  ELSE IF \A i \in DOMAIN findings : findings[i].code \in Variance
  THEN Result("RECONCILED_WITH_VARIANCE",
              IF Some(findings, LAMBDA f : f.code = "SETTLEMENT_FEE_VARIANCE")
              THEN "SETTLEMENT_FEE_VARIANCE" ELSE "SETTLEMENT_TIMING",
              "LOW", Total(findings, LAMBDA f : f.exposure), findings, "TIMING_VARIANCE")
  ELSE LET type == Renamed(findings[1].code)
       IN Result("EXCEPTION", type, IF type \in Severe THEN "HIGH" ELSE "MEDIUM",
                 CHOOSE e \in Exposures(findings) : \A f \in Exposures(findings) : f <= e,
                 findings, Gravest(findings))

(* Where int() gets no number: a field that is read without a test, or one *)
(* that is tested for null only and blank; and where a day is none. The    *)
(* rules end with an exception.                                            *)
Raises(l) ==
  LET payment == l.payments[1]
  IN \/ ~Present(l.order, "amount_minor")
     \/ /\ Len(l.payments) = 1
        /\ \/ Blank(payment, "amount_minor")
           \/ Some(l.settlements, LAMBDA s : Given(payment, "amount_minor")
                                               /\ Blank(s, "gross_minor"))
           \/ Some(l.settlements,
                   LAMBDA s : /\ \A field \in NetFields : Given(s, field)
                              /\ \E field \in NetFields : Blank(s, field))
           \/ /\ l.settlements # <<>>
              /\ \/ /\ Present(l.settlements[1], "settled_at") /\ Present(payment, "captured_at")
                    /\ ~({l.settlements[1].settled_at, payment.captured_at} \subseteq DOMAIN Amount)
                 \/ Blank(l.settlements[1], "fees_minor") /\ Present(payment, "gateway_fee_minor")
                 \/ l.invoices # <<>> /\ ~Present(l.invoices[1], "gross_minor")
                 \/ Some(l.inventory_movements,
                         LAMBDA m : "quantity" \in DOMAIN m /\ m.quantity \notin DOMAIN Amount)
                 \/ l.refunds # <<>> /\ ~Present(l.refunds[1], "amount_minor")

(* reconcile_lifecycle, when it does not raise.                            *)
Reconcile(l) ==
  CASE Len(l.payments) > 1 /\ IsDuplicate(l) ->
         Single("EXCEPTION", "DUPLICATE_PAYMENT", "DUPLICATE_PAYMENT", "HIGH", l,
                "POTENTIAL_EXPOSURE")
    [] Len(l.payments) > 1 /\ ~IsDuplicate(l) ->
         Single("AMBIGUOUS", "AMBIGUOUS_ASSOCIATION", "AMBIGUOUS_ASSOCIATION", "HIGH", l,
                "POTENTIAL_EXPOSURE")
    [] Len(l.payments) = 0 ->
         Single("EXCEPTION", "PAYMENT_MISSING", "PAYMENT_MISSING", "HIGH", l, "DATA_QUALITY")
    [] Len(l.payments) = 1 /\ l.settlements = <<>> ->
         Single("EXCEPTION", "MISSING_SETTLEMENT", "SETTLEMENT_MISSING", "MEDIUM", l,
                "DATA_QUALITY")
    [] OTHER -> Concluded(Findings(l))
=============================================================================
