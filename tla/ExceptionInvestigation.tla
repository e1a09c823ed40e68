------------------------ MODULE ExceptionInvestigation ------------------------
(***************************************************************************)
(* FinancialExceptionInvestigationService.investigate over PostgreSQL: one *)
(* assessment per reconciliation result, refreshed by a new POST while the *)
(* one that is there did not settle. The idempotency key is the only       *)
(* guard: two calls on one result under two keys interleave freely, and a  *)
(* call can raise or its process die between any two transactions.         *)
(*                                                                         *)
(* A response is abstracted to what this service tells apart: its id, which*)
(* response it is (serial), whether it settled (refresh_legacy does not    *)
(* hold of it) and whether it carries tool calls (traced). A new id is the *)
(* serial of the response it was made for.                                 *)
(***************************************************************************)
EXTENDS Naturals

CONSTANTS
  Process, Key,
  Result,            \* exceptions of the latest reconciliation run
  None,              \* no key, result or response
  MaxResponses,      \* bound: responses the investigator makes
  MaxCalls           \* bound: calls begun

ASSUME InvestigationAssumption ==
  /\ None \notin Result \cup Key
  /\ MaxResponses \in Nat /\ MaxCalls \in Nat

VARIABLES
  rows,        \* financial_exception_investigations, by result
  traces,      \* financial_exception_investigation_tool_calls: by the id they are
               \* filed under, the response they belong to; 0 where there are none
  ledger,      \* idempotency_keys, by key
  begun,       \* calls begun so far
  made,        \* responses made so far
  proc,        \* the call each process is serving
  contended,   \* history: results that two calls worked on at once
  disturbed,   \* history: keys whose lease lapsed or whose row vanished mid-reserve
  saved        \* history: responses that have been in a row of their result

tables == <<rows, traces>>
history == <<contended, disturbed, saved>>
vars == <<rows, traces, ledger, begun, made, proc, contended, disturbed, saved>>

Id == 1 .. MaxResponses
Response == [id : Id, serial : Id, settled : BOOLEAN, traced : BOOLEAN]

(* ON CONFLICT DO UPDATE leaves the id column of a row alone.              *)
Row == [id : Id, body : Response]

Ledger == INSTANCE IdempotencyLedger
            WITH Hash <- Result, Body <- Response, NoHash <- None, NoBody <- None

Phase == {"idle", "reading", "putting", "reserving", "readback", "investigating",
          "saving", "completing", "releasing"}
Call == [phase : Phase, result : Result \cup {None}, key : Key \cup {None},
         existing : Response \cup {None}, answer : Response \cup {None}]
Idle == [phase |-> "idle", result |-> None, key |-> None, existing |-> None, answer |-> None]

TypeOK ==
  /\ rows \in [Result -> Row \cup {None}]
  /\ traces \in [Id -> Id \cup {0}]
  /\ ledger \in [Key -> Ledger!Row]
  /\ begun \in Nat
  /\ made \in 0 .. MaxResponses
  /\ proc \in [Process -> Call]
  /\ contended \subseteq Result
  /\ disturbed \subseteq Key
  /\ saved \subseteq Result \X Response

Init ==
  /\ rows = [r \in Result |-> None]
  /\ traces = [i \in Id |-> 0]
  /\ ledger = [k \in Key |-> Ledger!Absent]
  /\ begun = 0
  /\ made = 0
  /\ proc = [p \in Process |-> Idle]
  /\ contended = {} /\ disturbed = {} /\ saved = {}

At(p, phase)    == proc[p].phase = phase
Enter(p, phase) == proc' = [proc EXCEPT ![p].phase = phase]
Return(p)       == proc' = [proc EXCEPT ![p] = Idle]

-----------------------------------------------------------------------------
(* A key that is in the table replays its row or is refused, and changes   *)
(* nothing.                                                                *)
Begin(p, k, r) ==
  /\ At(p, "idle")
  /\ begun < MaxCalls
  /\ begun' = begun + 1
  /\ Ledger!Unused(ledger[k])
  /\ proc' = [proc EXCEPT ![p] = [Idle EXCEPT !.phase = "reading", !.key = k, !.result = r]]
  /\ UNCHANGED <<tables, ledger, made, history>>

(* A call past its look at the row and before its own save.                *)
InFlight(q, r) ==
  proc[q].result = r /\ proc[q].phase \in {"reserving", "readback", "investigating", "saving"}

(* Mutant: every assessment that is there is refreshed.                    *)
ReadToRefresh(p) ==
  LET r == proc[p].result IN
  /\ At(p, "reading")
  /\ proc' = [proc EXCEPT ![p].existing = IF rows[r] = None THEN None ELSE rows[r].body,
                          ![p].phase = "reserving"]
  /\ contended' = IF \E q \in Process \ {p} : InFlight(q, r) THEN contended \cup {r} ELSE contended
  /\ UNCHANGED <<tables, ledger, begun, made, disturbed, saved>>

(* The assessment that is there; a settled one is the answer. The lookups  *)
(* of the run, the result and its lifecycle change nothing, and end the    *)
(* call when one of them fails (Abandon).                                  *)
Read(p) ==
  LET r == proc[p].result
      settled == rows[r] # None /\ rows[r].body.settled
  IN
  /\ At(p, "reading")
  /\ IF settled
     THEN proc' = [proc EXCEPT ![p].answer = rows[r].body, ![p].phase = "putting"]
     ELSE proc' = [proc EXCEPT ![p].existing = IF rows[r] = None THEN None ELSE rows[r].body,
                               ![p].phase = "reserving"]
  /\ contended' = IF ~ settled /\ \E q \in Process \ {p} : InFlight(q, r)
                  THEN contended \cup {r} ELSE contended
  /\ UNCHANGED <<tables, ledger, begun, made, disturbed, saved>>

(* put_idempotency                                                         *)
PutAnswer(p) ==
  LET k == proc[p].key IN
  /\ At(p, "putting")
  /\ ledger' = [ledger EXCEPT ![k] = Ledger!Put(ledger[k], proc[p].result, proc[p].answer)]
  /\ Return(p)
  /\ UNCHANGED <<tables, begun, made, history>>

Reserve(p) ==
  LET k == proc[p].key IN
  /\ At(p, "reserving")
  /\ Ledger!Reservable(ledger[k])
  /\ ledger' = [ledger EXCEPT ![k] = Ledger!Pending(proc[p].result)]
  /\ Enter(p, "investigating")
  /\ UNCHANGED <<tables, begun, made, history>>

ReserveLost(p) ==
  /\ At(p, "reserving")
  /\ ~ Ledger!Reservable(ledger[proc[p].key])
  /\ Enter(p, "readback")
  /\ UNCHANGED <<tables, ledger, begun, made, history>>

(* The row is read by a later statement; one released meanwhile is taken   *)
(* for a reservation.                                                      *)
ReadBack(p) ==
  LET k == proc[p].key IN
  /\ At(p, "readback")
  /\ IF Ledger!Unused(ledger[k])
     THEN Enter(p, "investigating") /\ disturbed' = disturbed \cup {k}
     ELSE Return(p) /\ disturbed' = disturbed
  /\ UNCHANGED <<tables, ledger, begun, made, contended, saved>>

(* Mutant: the id is only taken from the assessment that is refreshed.     *)
InvestigateUnnamed(p, settled, traced) ==
  /\ At(p, "investigating")
  /\ made < MaxResponses
  /\ made' = made + 1
  /\ proc' = [proc EXCEPT
       ![p].answer = [id |-> IF proc[p].existing = None THEN 0 ELSE proc[p].existing.id,
                      serial |-> made + 1, settled |-> settled, traced |-> traced],
       ![p].phase = "saving"]
  /\ UNCHANGED <<tables, ledger, begun, history>>

(* investigate_lifecycle, and the id of the assessment that it refreshes.  *)
(* A response of the provider stub settles without any tool call.          *)
Investigate(p, settled, traced) ==
  /\ At(p, "investigating")
  /\ made < MaxResponses
  /\ made' = made + 1
  /\ proc' = [proc EXCEPT
       ![p].answer = [id |-> IF proc[p].existing = None THEN made + 1 ELSE proc[p].existing.id,
                      serial |-> made + 1, settled |-> settled, traced |-> traced],
       ![p].phase = "saving"]
  /\ UNCHANGED <<tables, ledger, begun, history>>

(* The row as the upsert leaves it.                                        *)
Upserted(r, b) == [id |-> IF rows[r] = None THEN b.id ELSE rows[r].id, body |-> b]

(* The tool calls refer to the row by its id: fk_fin_exc_tool_call_org.    *)
Referable(r, b) == b.traced => Upserted(r, b).id = b.id

(* Mutant: the tool calls of an earlier response stay.                     *)
SaveKeepsTrace(p) ==
  LET r == proc[p].result  b == proc[p].answer IN
  /\ At(p, "saving")
  /\ Referable(r, b)
  /\ rows' = [rows EXCEPT ![r] = Upserted(r, b)]
  /\ traces' = IF b.traced THEN [traces EXCEPT ![b.id] = b.serial] ELSE traces
  /\ saved' = saved \cup {<<r, b>>}
  /\ Enter(p, "completing")
  /\ UNCHANGED <<ledger, begun, made, contended, disturbed>>

(* save_financial_exception_investigation_with_tool_calls: the upsert, the *)
(* deletion and the insertions are one transaction.                        *)
Save(p) ==
  LET r == proc[p].result  b == proc[p].answer IN
  /\ At(p, "saving")
  /\ Referable(r, b)
  /\ rows' = [rows EXCEPT ![r] = Upserted(r, b)]
  /\ traces' = [traces EXCEPT ![b.id] = IF b.traced THEN b.serial ELSE 0]
  /\ saved' = saved \cup {<<r, b>>}
  /\ Enter(p, "completing")
  /\ UNCHANGED <<ledger, begun, made, contended, disturbed>>

(* The investigator or the save raises; a save always does without a row   *)
(* to refer to.                                                            *)
Fails(p) ==
  /\ proc[p].phase \in {"investigating", "saving"}
  /\ Enter(p, "releasing")
  /\ UNCHANGED <<tables, ledger, begun, made, history>>

(* Mutant: the key is completed when the save raised as well.              *)
ReleaseCompletes(p) ==
  LET k == proc[p].key IN
  /\ At(p, "releasing")
  /\ ledger' = [ledger EXCEPT ![k] =
                  IF proc[p].answer = None THEN Ledger!Release(@)
                                           ELSE Ledger!Complete(@, proc[p].answer)]
  /\ Return(p)
  /\ UNCHANGED <<tables, begun, made, history>>

ReleaseLease(p) ==
  LET k == proc[p].key IN
  /\ At(p, "releasing")
  /\ ledger' = [ledger EXCEPT ![k] = Ledger!Release(@)]
  /\ Return(p)
  /\ UNCHANGED <<tables, begun, made, history>>

(* complete_idempotency; the audit events follow.                          *)
Complete(p) ==
  LET k == proc[p].key IN
  /\ At(p, "completing")
  /\ ledger' = [ledger EXCEPT ![k] = Ledger!Complete(@, proc[p].answer)]
  /\ Return(p)
  /\ UNCHANGED <<tables, begun, made, history>>

(* Any other exception, or the death of the process.                       *)
Abandon(p) ==
  /\ ~ At(p, "idle")
  /\ Return(p)
  /\ UNCHANGED <<tables, ledger, begun, made, history>>

(* idempotency_lease_seconds pass.                                         *)
LeaseEnds(k) ==
  /\ ledger[k].state = "pending"
  /\ ~ ledger[k].lapsed
  /\ ledger' = [ledger EXCEPT ![k] = Ledger!Lapse(@)]
  /\ disturbed' = disturbed \cup {k}
  /\ UNCHANGED <<tables, begun, made, proc, contended, saved>>

Next ==
  \/ \E p \in Process :
       \/ \E k \in Key, r \in Result : Begin(p, k, r)
       \/ Read(p) \/ PutAnswer(p)
       \/ Reserve(p) \/ ReserveLost(p) \/ ReadBack(p)
       \/ \E settled, traced \in BOOLEAN : Investigate(p, settled, traced)
       \/ Save(p) \/ Fails(p) \/ ReleaseLease(p) \/ Complete(p) \/ Abandon(p)
  \/ \E k \in Key : LeaseEnds(k)

Spec == Init /\ [][Next]_vars

-----------------------------------------------------------------------------
(* What get_tool_calls finds under the id of the assessment of a result is *)
(* the trace of this very response: never that of an earlier or a competing*)
(* one, and none where the response has none.                              *)
TraceIsOfResponse ==
  \A r \in Result : rows[r] # None =>
    LET b == rows[r].body IN traces[b.id] = IF b.traced THEN b.serial ELSE 0

(* An answer that a key replays was in the table, for the result that the  *)
(* request names. (A key whose lease lapsed may be completed by the worker *)
(* of another request.)                                                    *)
AnswerWasSaved ==
  \A k \in Key \ disturbed : ledger[k].state = "done" =>
    <<ledger[k].hash, ledger[k].body>> \in saved

(* An assessment that settled stands: no POST replaces it, unless two calls*)
(* worked on the result at once.                                           *)
SettledStands ==
  [][\A r \in Result :
       rows[r] # None /\ rows[r].body.settled /\ rows'[r] # rows[r] => r \in contended']_vars

-----------------------------------------------------------------------------
(* What the documents say and the code does not do.                        *)

(* financial_exception_investigations/service.py:58, "Old zero-lookup      *)
(* assessments can be refreshed by an explicit new POST": a refresh has the*)
(* id of the response, so its tool calls can be saved only if the row has  *)
(* this id too.                                                            *)
RefreshCanBeSaved ==
  \A r \in Result : rows[r] # None /\ ~ rows[r].body.settled => rows[r].id = rows[r].body.id
=============================================================================
