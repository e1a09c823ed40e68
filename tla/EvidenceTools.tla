----------------------------- MODULE EvidenceTools -----------------------------
(***************************************************************************)
(* investigations/tools.py: what each evidence tool says of a lifecycle,   *)
(* as citations with a field, an operator and a value. A tool that needs a *)
(* single record refuses when there are none or several.                   *)
(***************************************************************************)
EXTENDS EvidenceVerifier

Citation(source, record, field, operator, expected) ==
  [source |-> source, record |-> record, field |-> field, operator |-> operator,
   expected |-> expected]

Absence(source, field, expected) == {Citation(source, None, field, "missing", expected)}

(* field_specs of _record_evidence                                         *)
FieldsOf ==
  [order      |-> {"amount_minor", "created_at", "status"},
   payment    |-> {"order_id", "amount_minor", "captured_at", "status", "gateway_reference"},
   settlement |-> {"payment_id", "gross_minor", "fees_minor", "tax_minor", "net_minor",
                   "settled_at", "status"},
   invoice    |-> {"order_id", "gross_minor", "created_at", "status"},
   refund     |-> {"payment_id", "amount_minor", "processed_at", "status"},
   inventory  |-> {"order_id", "movement_type", "sku", "quantity", "unit_cost_minor",
                   "inventory_value_minor", "occurred_at"},
   employee_action |-> {"entity_id", "employee_id", "action", "occurred_at"}]

TextOf(number) == CHOOSE text \in DOMAIN Amount : Amount[text] = number

Priced(row) ==
  \A field \in {"unit_cost_minor", "quantity", "inventory_value_minor"} : Present(row, field)

(* A movement whose value is not its cost times its quantity.              *)
Miscalculated(row) ==
  /\ Priced(row)
  /\ Minor(row, "inventory_value_minor") # Minor(row, "unit_cost_minor") * Minor(row, "quantity")

(* _record_evidence, of a record that is cited under the id.               *)
RecordFacts(source, row, id) ==
  LET stated == {Citation(source, id, field, "equals", row[field]) :
                   field \in {f \in FieldsOf[source] : Present(row, f)}}
      wrong  == IF source = "inventory" /\ Miscalculated(row)
                THEN {Citation(source, id, "inventory_value_minor", "not_equals",
                        TextOf(Minor(row, "unit_cost_minor") * Minor(row, "quantity")))}
                ELSE {}
  IN IF stated \cup wrong = {} THEN {Citation(source, id, None, "exists", None)}
     ELSE stated \cup wrong

(* Mutant: every record is cited under the id of the first one.            *)
FactsUnderFirst(l, source) ==
  LET rows == RowsFor(l, source)
  IN UNION {RecordFacts(source, rows[i], rows[1][IdOf[source]]) : i \in DOMAIN rows}

Facts(l, source) ==
  LET rows == RowsFor(l, source)
  IN UNION {RecordFacts(source, rows[i], rows[i][IdOf[source]]) : i \in DOMAIN rows}

(* The tool that lists a source says so when there is nothing to list.     *)
FactsOrAbsence(l, source) ==
  IF RowsFor(l, source) = <<>> THEN Absence(source, IdOf[source], None) ELSE Facts(l, source)

Tools == {"get_order", "get_payment", "get_payments_for_order", "get_settlement",
          "get_settlements_for_payment", "get_settlements_for_order",
          "get_refunds_for_payment", "get_refunds_for_order", "get_invoice_for_order",
          "get_inventory_movements", "get_employee_action_logs"}

(* A tool that names one record needs one; int() needs a number.           *)
Refuses(tool, l) ==
  \/ /\ tool \in {"get_payment", "get_settlements_for_payment", "get_refunds_for_payment"}
     /\ Len(l.payments) # 1
  \/ tool = "get_settlement" /\ Len(l.settlements) # 1
  \/ /\ tool = "get_inventory_movements"
     /\ Some(l.inventory_movements,
             LAMBDA row : Priced(row) /\ row.quantity \notin DOMAIN Amount)

(* EvidenceToolRegistry.invoke, of a tool that does not refuse; the tools  *)
(* on other exceptions and on the audit trail return no evidence.          *)
Invoke(tool, l) ==
  CASE tool = "get_order" -> Facts(l, "order")
    [] tool \in {"get_payment", "get_payments_for_order"} -> Facts(l, "payment")
    [] tool = "get_settlement" -> Facts(l, "settlement")
    [] tool \in {"get_settlements_for_payment", "get_settlements_for_order"} ->
         FactsOrAbsence(l, "settlement")
    [] tool = "get_refunds_for_payment" -> Facts(l, "refund")
    [] tool = "get_refunds_for_order" -> FactsOrAbsence(l, "refund")
    [] tool = "get_invoice_for_order" -> FactsOrAbsence(l, "invoice")
    [] tool = "get_inventory_movements" ->
         Facts(l, "inventory")
           \cup IF Some(l.inventory_movements,
                        LAMBDA row : Get(row, "movement_type") = "RETURN")
                THEN {} ELSE Absence("inventory", "movement_type", "RETURN")
    [] tool = "get_employee_action_logs" -> Facts(l, "employee_action")

(* Everything the tools can say of a lifecycle.                            *)
Evidence(l) == UNION {Invoke(tool, l) : tool \in {t \in Tools : ~Refuses(t, l)}}
=============================================================================
