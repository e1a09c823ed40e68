--------------------------- MODULE EvidenceVerifier ---------------------------
(***************************************************************************)
(* investigations/verifier.py: the candidate of a provider is checked      *)
(* against the lifecycle of the exception. A citation names a source, a    *)
(* record of it or none, and a field with an operator and a value.         *)
(*                                                                         *)
(* Citations are sets and issues are a truth value: their order, their     *)
(* number and their wording are left out, and so is the score, on which    *)
(* nothing is decided. Two texts of one number, or of one word in different*)
(* case, are equal to _normal_value and different to str(). Decimal() reads*)
(* more texts than int() does, and reads NaN, which equals nothing. Where  *)
(* comparing with NaN raises, the code gives no answer; here the two are   *)
(* unlike, and not less, so that there are more answers than in the code.  *)
(***************************************************************************)
EXTENDS CanonicalRows

CONSTANTS
  Decimals,          \* texts of other numbers to Decimal(): <<whole part, fraction>>
  NotANumber         \* the texts that it reads as NaN

Source == {"order", "payment", "settlement", "invoice", "refund", "inventory",
           "employee_action"}

IdOf == [order |-> "order_id", payment |-> "payment_id", settlement |-> "settlement_id",
         invoice |-> "invoice_id", refund |-> "refund_id", inventory |-> "movement_id",
         employee_action |-> "action_id"]

(* _rows_for_source *)
RowsFor(l, source) ==
  CASE source = "order"           -> <<l.order>>
    [] source = "payment"         -> l.payments
    [] source = "settlement"      -> l.settlements
    [] source = "invoice"         -> l.invoices
    [] source = "refund"          -> l.refunds
    [] source = "inventory"       -> l.inventory_movements
    [] source = "employee_action" -> l.employee_actions

(* Decimal(str(text)), of the texts that are numbers                       *)
Number ==
  [text \in DOMAIN Amount \cup DOMAIN Decimals |->
     IF text \in DOMAIN Amount THEN <<Amount[text], 0>> ELSE Decimals[text]]

IsNumber(value) == value \in DOMAIN Number

(* _normal_value, of a value that is not NaN                               *)
Normal(value) ==
  IF IsNumber(value) THEN <<"number", Number[value]>> ELSE <<"text", Upper(value)>>

(* _normal_value(one) == _normal_value(other): NaN is not even itself.     *)
Alike(one, other) ==
  one \notin NotANumber /\ other \notin NotANumber /\ Normal(one) = Normal(other)

(* left < right, of two numbers                                            *)
Less(one, other) ==
  /\ IsNumber(one) /\ IsNumber(other)
  /\ LET left == Number[one] right == Number[other]
     IN left[1] < right[1] \/ (left[1] = right[1] /\ left[2] < right[2])

(* _compare *)
Compare(actual, operator, expected) ==
  CASE operator = "exists"     -> actual # None
    [] operator = "missing"    -> actual = None \/ actual # expected
    [] operator = "equals"     -> actual # None /\ Alike(actual, expected)
    [] operator = "not_equals" -> actual # None /\ ~Alike(actual, expected)
    [] operator = "greater_than" -> Less(expected, actual)
    [] operator = "less_than"    -> Less(actual, expected)

(* A claim that the source has no such record.                             *)
NoneSuch(item, l) ==
  /\ item.operator = "missing" /\ item.field # None
  /\ ~Some(RowsFor(l, item.source),
           LAMBDA row : IF item.expected = None THEN Get(row, item.field) # None
                        ELSE Alike(Get(row, item.field), item.expected))

(* A claim about a record: the first one with its id.                      *)
OfRecord(item, l) ==
  LET rows  == RowsFor(l, item.source)
      cited == Pick(rows, {row \in ToSet(rows) : Get(row, IdOf[item.source]) = item.record})
  IN /\ cited # <<>>
     /\ \/ item.operator = None
        \/ item.field # None
             /\ Compare(Get(cited[1], item.field), item.operator, item.expected)

(* _verify_evidence *)
Verified(item, l) == IF item.record = None THEN NoneSuch(item, l) ELSE OfRecord(item, l)

-----------------------------------------------------------------------------
(* The root causes that a type of exception admits; other types admit all. *)
Expected ==
  [REFUND_WITHOUT_INVENTORY_RETURN |-> {"INCOMPLETE_REFUND_WORKFLOW",
                                        "INVENTORY_REVERSAL_MISSING"},
   REFUND_WITHOUT_ERP_REVERSAL |-> {"ERP_REVERSAL_MISSING"},
   DUPLICATE_PAYMENT           |-> {"DUPLICATE_PAYMENT", "AMBIGUOUS_ASSOCIATION"},
   MISSING_SETTLEMENT          |-> {"SETTLEMENT_MISSING"},
   ERP_INVOICE_MISSING         |-> {"ERP_INVOICE_MISSING"},
   ERP_AMOUNT_MISMATCH         |-> {"ERP_AMOUNT_MISMATCH"},
   PAYMENT_FEE_MISSING         |-> {"PAYMENT_FEE_MISSING", "DATA_QUALITY_ERROR"},
   SETTLEMENT_FEE_MISSING      |-> {"SETTLEMENT_FEE_MISSING", "DATA_QUALITY_ERROR"},
   INVENTORY_VALUE_MISMATCH    |-> {"INVENTORY_VALUE_MISMATCH",
                                    "INVENTORY_VALUE_CALCULATION_ERROR"},
   INVENTORY_QUANTITY_MISMATCH |-> {"INVENTORY_QUANTITY_MISMATCH"},
   INVENTORY_RESTORED_WITHOUT_REFUND |-> {"INVENTORY_RESTORED_WITHOUT_REFUND"}]

(* _action_allowed *)
ActionFor ==
  [INCOMPLETE_REFUND_WORKFLOW        |-> "REQUEST_INVENTORY_VERIFICATION",
   INVENTORY_REVERSAL_MISSING        |-> "REQUEST_INVENTORY_VERIFICATION",
   ERP_REVERSAL_MISSING              |-> "REQUEST_ERP_REVERSAL_REVIEW",
   DUPLICATE_PAYMENT                 |-> "REQUEST_PAYMENT_REVIEW",
   AMBIGUOUS_ASSOCIATION             |-> "REQUEST_MANUAL_REVIEW",
   INVENTORY_VALUE_MISMATCH          |-> "REQUEST_INVENTORY_VERIFICATION",
   INVENTORY_VALUE_CALCULATION_ERROR |-> "REQUEST_INVENTORY_VERIFICATION",
   INVENTORY_QUANTITY_MISMATCH       |-> "REQUEST_INVENTORY_VERIFICATION",
   INVENTORY_RESTORED_WITHOUT_REFUND |-> "REQUEST_PAYMENT_REVIEW"]

ActionAllowed(action, root) ==
  action = None \/ root \notin DOMAIN ActionFor \/ ActionFor[root] = action

Cites(items, source) == \E item \in items : item.source = source

(* A movement of the kind is cited by its type.                            *)
CitesMovement(items, kind) ==
  \E item \in items :
    /\ item.source = "inventory" /\ item.field = "movement_type"
    /\ item.operator = "equals" /\ Upper(item.expected) = kind

(* What a root cause needs among the supporting evidence.                  *)
Substantiated(root, items) ==
  CASE root \in {"INCOMPLETE_REFUND_WORKFLOW", "INVENTORY_REVERSAL_MISSING"} ->
         /\ Cites(items, "refund")
         /\ \E item \in items : item.source = "inventory" /\ item.record = None
    [] root = "INVENTORY_VALUE_CALCULATION_ERROR" ->
         /\ Cites(items, "order") /\ CitesMovement(items, "SALE")
         /\ \E item \in items : /\ item.source = "inventory"
                                /\ item.field = "inventory_value_minor"
                                /\ item.operator = "not_equals"
    [] root \in {"INVENTORY_VALUE_MISMATCH", "INVENTORY_QUANTITY_MISMATCH"} ->
         /\ Cites(items, "order") /\ CitesMovement(items, "SALE")
         /\ CitesMovement(items, "RETURN") /\ Cites(items, "refund")
    [] root = "INVENTORY_RESTORED_WITHOUT_REFUND" ->
         /\ CitesMovement({item \in items : item.record # None}, "SALE")
         /\ CitesMovement({item \in items : item.record # None}, "RETURN")
         /\ \E item \in items :
              item.source = "refund" /\ item.record = None /\ item.operator = "missing"
    [] OTHER -> TRUE

(* Mutant: the root cause is not matched with the type.                    *)
CompatibleIfCited(candidate, type) ==
  IF candidate.root = None THEN candidate.status # "SUPPORTED"
  ELSE /\ ActionAllowed(candidate.action, candidate.root)
       /\ Substantiated(candidate.root, candidate.supporting)

(* _compatibility_issues *)
Compatible(candidate, type) ==
  /\ ~(type = "AMBIGUOUS_ASSOCIATION" /\ candidate.status = "SUPPORTED")
  /\ IF candidate.root = None THEN candidate.status # "SUPPORTED"
     ELSE /\ type \in DOMAIN Expected => candidate.root \in Expected[type]
          /\ ActionAllowed(candidate.action, candidate.root)
          /\ Substantiated(candidate.root, candidate.supporting)

(* For an ambiguous association: the order, each payment and a settlement, *)
(* or its absence, are cited.                                              *)
Compared(items, l) ==
  LET CitesRecord(source, row) ==
        \E item \in items : /\ item.source = source
                            /\ item.record = Get(row, IdOf[source])
                            /\ item.field # None /\ item.operator # None
  IN /\ CitesRecord("order", l.order)
     /\ \A i \in DOMAIN l.payments : CitesRecord("payment", l.payments[i])
     /\ \E item \in items :
          /\ item.source = "settlement"
          /\ \/ item.field = "payment_id" /\ item.operator = "equals"
             \/ item.record = None /\ item.field = "settlement_id" /\ item.operator = "missing"

-----------------------------------------------------------------------------
(* verify_candidate: the candidate keeps what is verified, and is forced   *)
(* to UNRESOLVED by any issue.                                             *)
Verification(candidate, type, l) ==
  LET Kept(items) == {item \in items : Verified(item, l)}
      kept  == [candidate EXCEPT !.supporting = Kept(@), !.contradictory = Kept(@)]
      clean == /\ kept = candidate
               /\ Compatible(kept, type)
               /\ type = "AMBIGUOUS_ASSOCIATION" =>
                    Compared(kept.supporting \cup kept.contradictory, l)
               /\ ~(kept.status = "SUPPORTED" /\ kept.supporting = {})
  IN [candidate |-> IF clean THEN kept
                    ELSE [kept EXCEPT !.status = "UNRESOLVED", !.action = None,
                                      !.missing = TRUE],
      clean |-> clean]
=============================================================================
