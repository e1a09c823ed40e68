------------------------- MODULE LifecycleConstruction -------------------------
(***************************************************************************)
(* lifecycle_construction: a dataset, a sequence of rows with the type of  *)
(* their source, becomes one lifecycle per order, or an error. Rows belong *)
(* to an order by their order_id, or else by the payment, the order or the *)
(* refund they name.                                                       *)
(*                                                                         *)
(* A row has its position in the dataset as "row" (the internal marker     *)
(* __normalized_record_id) and its collection as "kind". Amounts are       *)
(* integers since normalization, so their conversion cannot fail here.     *)
(***************************************************************************)
EXTENDS CanonicalRows, FiniteSets

OfOrder(rows, order, kind) ==
  Pick(rows, {r \in ToSet(rows) : r.kind = kind /\ Get(r, "order_id") = order})

ByPayment(r) ==
  ~Present(r, "order_id") /\ r.kind \in {"settlements", "refunds"} /\ Present(r, "payment_id")

ByEntity(r) ==
  ~Present(r, "order_id") /\ r.kind = "employee_actions" /\ Present(r, "entity_id")

IsRefundAction(r) == Upper(Get(r, "entity_type")) \in {"REFUND", "REFUNDS"}

Known(r) == r.kind \in Collection \cup {"orders"}
Keyed(r) == ByPayment(r) \/ ByEntity(r)

Orders(rows) == {r.order_id : r \in {x \in ToSet(rows) : Known(x) /\ Present(x, "order_id")}}

(* Invoices of an order: at most one, or one that is active before those   *)
(* that reverse it.                                                        *)
Invoices(rows, order, status) ==
  Pick(OfOrder(rows, order, "invoices"), {r \in ToSet(rows) : Get(r, "status") = status})

SingleInvoice(rows, order) == Len(OfOrder(rows, order, "invoices")) <= 1

InvoicesFit(rows, order) ==
  \/ SingleInvoice(rows, order)
  \/ /\ Len(Invoices(rows, order, "ACTIVE")) = 1
     /\ 1 + Len(Invoices(rows, order, "REVERSED")) = Len(OfOrder(rows, order, "invoices"))

InvoicesOf(rows, order) ==
  IF SingleInvoice(rows, order) THEN OfOrder(rows, order, "invoices")
  ELSE Invoices(rows, order, "ACTIVE") \o Invoices(rows, order, "REVERSED")

PaymentIds(rows, order) ==
  {Get(r, "payment_id") : r \in ToSet(OfOrder(rows, order, "payments"))}

(* Rows keyed by a payment of the order, whatever their source.            *)
KeyedByPayment(rows, order) ==
  Pick(rows, {r \in ToSet(rows) : ByPayment(r) /\ r.payment_id \in PaymentIds(rows, order)})

(* Settlements and refunds: those of the order that name a payment of it,  *)
(* and the keyed rows that have an id of the kind.                         *)
OfPayments(rows, order, kind, id) ==
  Pick(OfOrder(rows, order, kind),
       {r \in ToSet(rows) : Get(r, "payment_id") \in PaymentIds(rows, order)})
  \o Pick(KeyedByPayment(rows, order), {r \in ToSet(rows) : Present(r, id)})

Refunds(rows, order) == OfPayments(rows, order, "refunds", "refund_id")

KeyedActions(rows, order) ==
  LET refunds == {Get(r, "refund_id") : r \in ToSet(Refunds(rows, order))} \ {None}
      actions == {r \in ToSet(rows) : ByEntity(r)}
  IN Pick(rows, {r \in actions : ~IsRefundAction(r) /\ r.entity_id = order})
     \o Pick(rows, {r \in actions : IsRefundAction(r) /\ r.entity_id \in refunds})

LifecycleOf(rows, order) ==
  [order               |-> OfOrder(rows, order, "orders")[1],
   payments            |-> OfOrder(rows, order, "payments"),
   settlements         |-> OfPayments(rows, order, "settlements", "settlement_id"),
   invoices            |-> InvoicesOf(rows, order),
   refunds             |-> Refunds(rows, order),
   inventory_movements |-> OfOrder(rows, order, "inventory_movements"),
   employee_actions    |-> OfOrder(rows, order, "employee_actions") \o KeyedActions(rows, order)]

Attached(rows) ==
  UNION {ToSet(KeyedByPayment(rows, o)) \cup ToSet(KeyedActions(rows, o)) : o \in Orders(rows)}

(* construct_lifecycles returns, and what it returns then; otherwise it    *)
(* raises LifecycleConstructionError.                                      *)
Constructible(rows) ==
  /\ \A r \in ToSet(rows) : Known(r) /\ (Present(r, "order_id") \/ Keyed(r))
  /\ Orders(rows) # {}
  /\ \A o \in Orders(rows) : Len(OfOrder(rows, o, "orders")) = 1 /\ InvoicesFit(rows, o)
  /\ Attached(rows) = {r \in ToSet(rows) : Keyed(r)}

Lifecycles(rows) == {LifecycleOf(rows, o) : o \in Orders(rows)}

RowsOf(lifecycle) ==
  {lifecycle.order} \cup UNION {ToSet(lifecycle[collection]) : collection \in Collection}

(* _consumed_record_count counts the rows of all lifecycles once.          *)
ConsumedCount(lifecycles) == Cardinality({r.row : r \in UNION {RowsOf(l) : l \in lifecycles}})
=============================================================================
