----------------------------- MODULE MCRulePipeline -----------------------------
(* Datasets for TLC: those that differ from one of two balanced datasets   *)
(* of two orders, without and with a refund, in at most two rows.          *)
EXTENDS RulePipeline, TLC

MCAmount ==
  "1" :> 1 @@ "2" :> 2 @@ "3" :> 3 @@ "4" :> 4 @@ "5" :> 5 @@ "6" :> 6 @@ "7" :> 7
    @@ "8" :> 8 @@ "9" :> 9 @@ "10" :> 10 @@ "20" :> 20

MCCased == [return |-> "RETURN"]

MCDecimals == "1.5" :> <<1, 5>> @@ "1.50" :> <<1, 5>>

MCRoots ==
  (UNION {Expected[type] : type \in DOMAIN Expected})
    \ {"DATA_QUALITY_ERROR", "AMBIGUOUS_ASSOCIATION", "INVENTORY_REVERSAL_MISSING"}

MCActions == {None, "REQUEST_INVENTORY_VERIFICATION"}

Order   == [kind |-> "orders", order_id |-> "O1", amount_minor |-> "10", status |-> "PAID",
            currency |-> "INR"]
Payment == [kind |-> "payments", order_id |-> "O1", payment_id |-> "P1", amount_minor |-> "10",
            gateway_fee_minor |-> "2", status |-> "CAPTURED", currency |-> "INR",
            captured_at |-> "1"]
Settlement == [kind |-> "settlements", settlement_id |-> "S1", payment_id |-> "P1",
               gross_minor |-> "10", fees_minor |-> "2", tax_minor |-> "1", net_minor |-> "7",
               settled_at |-> "2"]
Invoice  == [kind |-> "invoices", order_id |-> "O1", invoice_id |-> "I1", gross_minor |-> "10",
             status |-> "ACTIVE"]
Reversal == [Invoice EXCEPT !.invoice_id = "I2", !.status = "REVERSED"]
Refund   == [kind |-> "refunds", refund_id |-> "R1", payment_id |-> "P1", amount_minor |-> "10",
             status |-> "PROCESSED"]
Sale     == [kind |-> "inventory_movements", order_id |-> "O1", movement_id |-> "M1",
             movement_type |-> "SALE", sku |-> "1.50", quantity |-> "2", unit_cost_minor |-> "3",
             inventory_value_minor |-> "6"]
Return   == [Sale EXCEPT !.movement_id = "M2", !.movement_type = "RETURN"]
Approval == [kind |-> "employee_actions", action_id |-> "A1", entity_type |-> "REFUND",
             entity_id |-> "R1", action |-> "REFUND_CHECKED"]

Order2   == [kind |-> "orders", order_id |-> "O2", amount_minor |-> "20"]
Payment2 == [kind |-> "payments", order_id |-> "O2", payment_id |-> "P2", amount_minor |-> "20",
             gateway_fee_minor |-> "1", captured_at |-> "1"]
Settlement2 == [kind |-> "settlements", settlement_id |-> "S2", payment_id |-> "P2",
                gross_minor |-> "20", fees_minor |-> "1", net_minor |-> None]
Invoice2 == [kind |-> "invoices", order_id |-> "O2", invoice_id |-> "I2", gross_minor |-> "20"]

(* A slot for every row; Absent for no row.                                *)
Absent == [kind |-> None]
Plain ==
  <<Order, Payment, Settlement, Invoice, Absent, Absent, Sale, Absent, Absent,
    Order2, Payment2, Settlement2, Invoice2>>
WithRefund ==
  <<Order, Payment, Settlement, Invoice, Reversal, Refund, Sale, Return, Approval,
    Order2, Payment2, Settlement2, Invoice2>>

Variants ==
  <<{[Order EXCEPT !.status = "CANCELLED"], [Order EXCEPT !.amount_minor = "9"]},
    {[Payment EXCEPT !.gateway_fee_minor = ""], [Payment EXCEPT !.amount_minor = "9"],
     [Payment EXCEPT !.amount_minor = None], [Payment EXCEPT !.status = "PENDING"],
     [Payment EXCEPT !.payment_id = "P2"], [Payment EXCEPT !.currency = "USD"],
     [Payment EXCEPT !.captured_at = "soon"],
     [gateway_reference |-> "NaN"] @@ Payment, Absent},
    {[Settlement EXCEPT !.fees_minor = ""], [Settlement EXCEPT !.fees_minor = None],
     [Settlement EXCEPT !.fees_minor = "3"], [Settlement EXCEPT !.settled_at = "5"],
     [Settlement EXCEPT !.gross_minor = "9"], [Settlement EXCEPT !.payment_id = "P2"], Absent},
    {[Invoice EXCEPT !.gross_minor = "9"], [Invoice EXCEPT !.status = "REVERSED"], Absent},
    {Reversal, [Reversal EXCEPT !.status = "ACTIVE"], Absent},
    {Refund, [Refund EXCEPT !.amount_minor = "4"], [Refund EXCEPT !.status = "PENDING"],
     [Refund EXCEPT !.payment_id = "P2"], [order_id |-> "O1"] @@ Refund, Absent},
    {[Sale EXCEPT !.inventory_value_minor = "5"], [Sale EXCEPT !.unit_cost_minor = None],
     [Sale EXCEPT !.quantity = "two"], Absent},
    {Return, [Return EXCEPT !.quantity = "1", !.inventory_value_minor = "3"],
     [Return EXCEPT !.inventory_value_minor = "5"],
     [Return EXCEPT !.unit_cost_minor = "4", !.inventory_value_minor = "8"],
     [Return EXCEPT !.movement_type = "return"], [Return EXCEPT !.movement_id = "M1"], Absent},
    {Approval, [Approval EXCEPT !.action = "MANUAL_REFUND_APPROVED"],
     [Approval EXCEPT !.entity_type = "ORDER", !.entity_id = "O2"],
     [Refund EXCEPT !.refund_id = "R2"], Absent},
    {Absent},
    {[Payment2 EXCEPT !.payment_id = "P1"], [Payment2 EXCEPT !.order_id = "O1"]},
    {[Settlement2 EXCEPT !.payment_id = "P1"], Absent},
    {[Invoice2 EXCEPT !.order_id = "O1"]}>>

Changed(tables) ==
  tables \cup UNION {{[table EXCEPT ![i] = row] : row \in Variants[i]} :
                       i \in DOMAIN Variants, table \in tables}

Numbered(table) == [i \in DOMAIN table |-> [row |-> i] @@ table[i]]

MCDatasets ==
  {SelectSeq(Numbered(table), LAMBDA r : r.kind # None) :
     table \in Changed(Changed({Plain, WithRefund}))}

MCDoubtful ==
  {Citation("settlement", None, "settlement_id", "missing", None),
   Citation("inventory", None, "movement_type", "missing", "RETURN"),
   Citation("inventory", "M1", "inventory_value_minor", "not_equals", "1"),
   Citation("inventory", "M1", "sku", "equals", "1.5")}
=============================================================================
