----------------------------- MODULE CanonicalRows -----------------------------
(***************************************************************************)
(* The rows of a normalized dataset, as the deterministic core reads them: *)
(* a record of the mapped fields, each a text, the empty one of a blank    *)
(* CSV cell among them, or None, the null of a spreadsheet or a JSON file. *)
(* What a text amounts to as a number, and what it is in upper case, are   *)
(* functions.                                                              *)
(***************************************************************************)
EXTENDS Integers, Sequences, SequencesExt

CONSTANTS
  None,              \* what row.get(field) returns for a field without value
  Amount,            \* the numeric texts and their values
  Cased              \* the texts not in upper case and their upper-case forms

Get(row, field) == IF field \in DOMAIN row THEN row[field] ELSE None

(* Not null; blank; neither null nor blank.                                *)
Given(row, field)   == Get(row, field) # None
Blank(row, field)   == Given(row, field) /\ row[field] = ""
Present(row, field) == Given(row, field) /\ row[field] # ""

(* int(row[field]) *)
Minor(row, field) == Amount[row[field]]

Upper(text) == IF text \in DOMAIN Cased THEN Cased[text] ELSE text

Some(rows, Test(_)) == \E i \in DOMAIN rows : Test(rows[i])

(* What F yields for each row, one after another.                          *)
ForEach(rows, F(_)) == FlattenSeq([i \in DOMAIN rows |-> F(rows[i])])

(* The rows that are in the set, in their order.                           *)
Pick(rows, set) ==
  LET pick[n \in 0..Len(rows)] ==
        IF n = 0 THEN <<>>
        ELSE IF rows[n] \in set THEN Append(pick[n - 1], rows[n]) ELSE pick[n - 1]
  IN pick[Len(rows)]

SumOf(numbers) ==
  LET sum[n \in 0..Len(numbers)] == IF n = 0 THEN 0 ELSE sum[n - 1] + numbers[n]
  IN sum[Len(numbers)]

Total(rows, Value(_)) == SumOf([i \in DOMAIN rows |-> Value(rows[i])])

(* A lifecycle: the rows of one order.                                     *)
Collection == {"payments", "settlements", "invoices", "refunds",
               "inventory_movements", "employee_actions"}

OfType(row, kind) == Upper(Get(row, "movement_type")) = kind

Movements(lifecycle, kind) ==
  Pick(lifecycle.inventory_movements,
       {row \in ToSet(lifecycle.inventory_movements) : OfType(row, kind)})
=============================================================================
