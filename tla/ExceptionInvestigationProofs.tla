-------------------- MODULE ExceptionInvestigationProofs --------------------
(***************************************************************************)
(* Proofs about ExceptionInvestigation for any number of processes, keys   *)
(* and results, and any bounds on calls and responses.                     *)
(***************************************************************************)
EXTENDS ExceptionInvestigation, TLAPS

CallInv ==
  \A p \in Process :
    /\ proc[p].phase # "idle" => proc[p].key \in Key /\ proc[p].result \in Result
    /\ proc[p].phase \in {"putting", "saving", "completing"} => proc[p].answer \in Response

(* What is in a row, and what is about to be stored for a key, was saved.  *)
SavedInv ==
  /\ \A r \in Result : rows[r] # None => <<r, rows[r].body>> \in saved
  /\ \A p \in Process : proc[p].phase \in {"putting", "completing"} =>
       <<proc[p].result, proc[p].answer>> \in saved

(* A reservation excludes others, unless the key is disturbed.             *)
Holds(p, k) ==
  /\ proc[p].key = k
  /\ proc[p].phase \in {"investigating", "saving", "completing", "releasing"}
Excl(k) ==
  \A p \in Process : Holds(p, k) =>
    /\ ledger[k].state = "pending" /\ ledger[k].hash = proc[p].result
    /\ \A q \in Process : Holds(q, k) => q = p
LeaseInv ==
  /\ \A k \in Key : ledger[k].lapsed => k \in disturbed
  /\ \A k \in Key \ disturbed : Excl(k)

(* The ids that belong to a result: of its row, of the assessment that a   *)
(* call refreshes, of the response that a call is about to save.           *)
Uses(r, i) ==
  \/ rows[r] # None /\ i \in {rows[r].id, rows[r].body.id}
  \/ \E p \in Process :
       /\ proc[p].result = r
       /\ \/ proc[p].existing # None /\ proc[p].existing.id = i
          \/ proc[p].phase = "saving" /\ proc[p].answer.id = i
IdInv ==
  /\ \A r \in Result, i \in Id : Uses(r, i) => i <= made
  /\ \A r, s \in Result, i \in Id : Uses(r, i) /\ Uses(s, i) => r = s

(* Of two calls in flight for a result, the later one saw the other; and   *)
(* what a lonely one saw is still so.                                      *)
FlightInv ==
  \A r \in Result \ contended, p \in Process : InFlight(p, r) =>
    /\ rows[r] # None => ~ rows[r].body.settled
    /\ \A q \in Process : InFlight(q, r) => q = p

IInv ==
  /\ TypeOK /\ CallInv /\ SavedInv /\ LeaseInv /\ AnswerWasSaved
  /\ IdInv /\ TraceIsOfResponse /\ FlightInv

-----------------------------------------------------------------------------
(* The statements of the ledger keep a row a row.                          *)
LEMMA RowTypes ==
  /\ Ledger!Absent \in Ledger!Row
  /\ \A r \in Result : Ledger!Pending(r) \in Ledger!Row
  /\ \A row \in Ledger!Row, b \in Response : Ledger!Complete(row, b) \in Ledger!Row
  /\ \A row \in Ledger!Row, r \in Result, b \in Response : Ledger!Put(row, r, b) \in Ledger!Row
  /\ \A row \in Ledger!Row : Ledger!Release(row) \in Ledger!Row
  /\ \A row \in Ledger!Row : Ledger!Lapse(row) \in Ledger!Row
  BY DEF Ledger!Row, Ledger!Absent, Ledger!Pending, Ledger!Done, Ledger!Complete,
         Ledger!Release, Ledger!Lapse, Ledger!Put

LEMMA IdleType ==
  /\ Idle \in Call /\ Idle.phase = "idle" /\ Idle.existing = None
  BY DEF Idle, Call, Phase

LEMMA InitInv == Init => IInv
  <1> SUFFICES ASSUME Init PROVE IInv
    OBVIOUS
  <1>1. TypeOK
    BY IdleType, RowTypes, InvestigationAssumption DEF Init, TypeOK
  <1>2. CallInv /\ SavedInv /\ FlightInv
    BY IdleType DEF Init, CallInv, SavedInv, FlightInv, InFlight
  <1>3. LeaseInv /\ AnswerWasSaved
    BY IdleType DEF Init, LeaseInv, Excl, Holds, AnswerWasSaved, Ledger!Absent
  <1>4. IdInv /\ TraceIsOfResponse
    BY IdleType DEF Init, IdInv, Uses, TraceIsOfResponse
  <1> QED
    BY <1>1, <1>2, <1>3, <1>4 DEF IInv

-----------------------------------------------------------------------------
(* How a step acts on the call of p: it moves on, ends, or learns what the *)
(* row says.                                                               *)
Others(p) == \A q \in Process \ {p} : proc'[q] = proc[q]
SameRequest(p) ==
  /\ proc'[p].key = proc[p].key /\ proc'[p].result = proc[p].result
  /\ proc'[p].existing = proc[p].existing /\ proc'[p].answer = proc[p].answer

LEMMA EnterEffect ==
  ASSUME TypeOK, NEW p \in Process, NEW phase \in Phase, Enter(p, phase)
  PROVE  /\ proc' \in [Process -> Call] /\ proc'[p].phase = phase
         /\ SameRequest(p) /\ Others(p)
  BY DEF TypeOK, Enter, Call, SameRequest, Others

LEMMA ReturnEffect ==
  ASSUME TypeOK, NEW p \in Process, Return(p)
  PROVE  /\ proc' \in [Process -> Call] /\ proc'[p].phase = "idle"
         /\ proc'[p].existing = None /\ Others(p)
  BY IdleType DEF TypeOK, Return, Others

(* A step that leaves the tables alone keeps what is said of ids, if the   *)
(* call of p has no id but one of the row or one it had.                   *)
LEMMA IdsKeep ==
  ASSUME TypeOK, IdInv, TraceIsOfResponse, NEW p \in Process, Others(p),
         UNCHANGED <<rows, traces, made>>,
         proc'[p].phase # "saving",
         \/ proc'[p].existing = None
         \/ proc'[p].result = proc[p].result /\ proc'[p].existing = proc[p].existing
         \/ /\ proc'[p].result \in Result /\ rows[proc'[p].result] # None
            /\ proc'[p].existing = rows[proc'[p].result].body
  PROVE  IdInv' /\ TraceIsOfResponse'
  <1>1. ASSUME NEW r \in Result, NEW i \in Id, Uses(r, i)' PROVE Uses(r, i)
    BY <1>1 DEF Uses, Others
  <1>2. IdInv'
    BY <1>1 DEF IdInv
  <1> QED
    BY <1>2 DEF TraceIsOfResponse

(* One that leaves the rows alone keeps what is said of calls in flight.   *)
LEMMA FlightKeeps ==
  ASSUME TypeOK, FlightInv, NEW p \in Process, Others(p), UNCHANGED rows,
         contended \subseteq contended',
         \A r \in Result \ contended' : InFlight(p, r)' =>
            \/ InFlight(p, r)
            \/ /\ rows[r] # None => ~ rows[r].body.settled
               /\ \A q \in Process \ {p} : ~ InFlight(q, r)
  PROVE  FlightInv'
  <1>1. \A r \in Result, q \in Process \ {p} : InFlight(q, r)' <=> InFlight(q, r)
    BY DEF InFlight, Others
  <1> QED
    BY <1>1 DEF FlightInv

(* One that leaves the ledger alone keeps what is said of leases.          *)
LEMMA LeasesKeep ==
  ASSUME TypeOK, LeaseInv, AnswerWasSaved, NEW p \in Process, Others(p), UNCHANGED ledger,
         disturbed \subseteq disturbed', saved \subseteq saved',
         \A k \in Key \ disturbed' : Holds(p, k)' =>
            Holds(p, k) /\ proc'[p].result = proc[p].result
  PROVE  LeaseInv' /\ AnswerWasSaved'
  <1>1. \A k \in Key, q \in Process \ {p} : Holds(q, k)' <=> Holds(q, k)
    BY DEF Holds, Others
  <1>2. ASSUME NEW k \in Key \ disturbed' PROVE Excl(k)'
    <2>1. Excl(k)
      BY DEF LeaseInv
    <2> QED
      BY <1>1, <2>1 DEF Excl, Others
  <1>3. LeaseInv'
    BY <1>2 DEF LeaseInv
  <1> QED
    BY <1>3 DEF AnswerWasSaved

-----------------------------------------------------------------------------
LEMMA BeginStep ==
  ASSUME IInv, NEW p \in Process, NEW k \in Key, NEW r \in Result, Begin(p, k, r) PROVE IInv'
  <1> USE DEF IInv
  <1> DEFINE c == [Idle EXCEPT !.phase = "reading", !.key = k, !.result = r]
  <1>1. c \in Call /\ c.phase = "reading" /\ c.key = k /\ c.result = r /\ c.existing = None
    BY DEF Idle, Call, Phase
  <1>2. proc' = [proc EXCEPT ![p] = c] /\ UNCHANGED <<tables, ledger, made, history>>
    BY DEF Begin
  <1> HIDE DEF c
  <1>3. proc'[p] = c /\ Others(p)
    BY <1>2 DEF TypeOK, Others
  <1>4. TypeOK'
    BY <1>1, <1>2 DEF TypeOK, tables, history, Begin
  <1>5. CallInv' /\ SavedInv'
    BY <1>1, <1>2, <1>3 DEF CallInv, SavedInv, Others, tables, history
  <1>6. LeaseInv' /\ AnswerWasSaved'
    BY <1>1, <1>2, <1>3, LeasesKeep DEF history, Holds
  <1>7. IdInv' /\ TraceIsOfResponse'
    BY <1>1, <1>2, <1>3, IdsKeep DEF tables
  <1>8. FlightInv'
    BY <1>1, <1>2, <1>3, FlightKeeps DEF tables, history, InFlight
  <1> QED
    BY <1>4, <1>5, <1>6, <1>7, <1>8

LEMMA ReadStep == ASSUME IInv, NEW p \in Process, Read(p) PROVE IInv'
  <1> USE DEF IInv
  <1> DEFINE r == proc[p].result
             settled == rows[r] # None /\ rows[r].body.settled
  <1>1. /\ proc[p] \in Call /\ proc[p].phase = "reading"
        /\ r \in Result /\ proc[p].key \in Key
        /\ UNCHANGED <<rows, traces, ledger, begun, made, disturbed, saved>>
        /\ contended \subseteq contended'
    BY DEF TypeOK, Read, At, CallInv, tables
  <1>2. rows[r] # None => rows[r].body \in Response
    BY <1>1 DEF TypeOK, Row
  <1>3. /\ proc'[p].key = proc[p].key /\ proc'[p].result = r /\ Others(p)
        /\ proc'[p] \in Call
        /\ settled => /\ proc'[p].phase = "putting" /\ proc'[p].answer = rows[r].body
                      /\ proc'[p].existing = proc[p].existing
        /\ ~ settled => /\ proc'[p].phase = "reserving"
                        /\ \/ proc'[p].existing = None
                           \/ rows[r] # None /\ proc'[p].existing = rows[r].body
        /\ proc' \in [Process -> Call]
    <2>1. CASE settled
      BY <1>1, <1>2, <2>1 DEF Read, TypeOK, Call, Phase, Others
    <2>2. CASE ~ settled
      BY <1>1, <1>2, <2>2 DEF Read, TypeOK, Call, Phase, Others
    <2> QED
      BY <2>1, <2>2
  <1>4. ~ settled /\ r \notin contended' => \A q \in Process \ {p} : ~ InFlight(q, r)
    BY DEF Read
  <1>5. TypeOK'
    <2>1. contended' \subseteq Result
      BY <1>1 DEF TypeOK, Read
    <2> QED
      BY <1>1, <1>3, <2>1 DEF TypeOK
  <1>6. CallInv'
    BY <1>1, <1>2, <1>3 DEF CallInv, Others
  <1>7. SavedInv'
    BY <1>1, <1>3 DEF SavedInv, Others
  <1>8. LeaseInv' /\ AnswerWasSaved'
    BY <1>1, <1>3, LeasesKeep DEF Holds
  <1>9. IdInv' /\ TraceIsOfResponse'
    BY <1>1, <1>3, IdsKeep
  <1>10. FlightInv'
    BY <1>1, <1>3, <1>4, FlightKeeps DEF InFlight
  <1> QED
    BY <1>5, <1>6, <1>7, <1>8, <1>9, <1>10

LEMMA LostStep ==
  ASSUME IInv, NEW p \in Process, ReserveLost(p) \/ ReadBack(p) PROVE IInv'
  <1> USE DEF IInv
  <1>1. /\ proc[p].phase \in {"reserving", "readback"}
        /\ proc[p].key \in Key /\ proc[p].result \in Result
        /\ UNCHANGED <<rows, traces, ledger, begun, made, contended, saved>>
        /\ disturbed \subseteq disturbed' /\ disturbed' \subseteq Key
        /\ \/ Enter(p, "readback")
           \/ Enter(p, "investigating") /\ proc[p].key \in disturbed'
           \/ Return(p)
    BY DEF ReserveLost, ReadBack, At, CallInv, tables, history, TypeOK
  <1>2. /\ proc' \in [Process -> Call] /\ Others(p)
        /\ \/ /\ SameRequest(p)
              /\ \/ proc'[p].phase = "readback"
                 \/ proc'[p].phase = "investigating" /\ proc[p].key \in disturbed'
           \/ proc'[p].phase = "idle" /\ proc'[p].existing = None
    <2>1. "readback" \in Phase /\ "investigating" \in Phase
      BY DEF Phase
    <2> QED
      BY <1>1, <2>1, EnterEffect, ReturnEffect
  <1>3. TypeOK'
    BY <1>1, <1>2 DEF TypeOK
  <1>4. CallInv' /\ SavedInv'
    BY <1>1, <1>2 DEF CallInv, SavedInv, Others, SameRequest
  <1>5. LeaseInv' /\ AnswerWasSaved'
    BY <1>1, <1>2, LeasesKeep DEF Holds, SameRequest
  <1>6. IdInv' /\ TraceIsOfResponse'
    BY <1>1, <1>2, IdsKeep DEF SameRequest
  <1>7. FlightInv'
    BY <1>1, <1>2, FlightKeeps DEF InFlight, SameRequest
  <1> QED
    BY <1>3, <1>4, <1>5, <1>6, <1>7

LEMMA LeavingStep ==
  ASSUME IInv, NEW p \in Process, Fails(p) \/ Abandon(p) PROVE IInv'
  <1> USE DEF IInv
  <1>1. /\ UNCHANGED <<rows, traces, ledger, begun, made, contended, disturbed, saved>>
        /\ \/ Enter(p, "releasing") /\ proc[p].phase \in {"investigating", "saving"}
           \/ Return(p)
    BY DEF Fails, Abandon, tables, history
  <1>2. /\ proc' \in [Process -> Call] /\ Others(p)
        /\ \/ /\ SameRequest(p) /\ proc'[p].phase = "releasing"
              /\ proc[p].phase \in {"investigating", "saving"}
           \/ proc'[p].phase = "idle" /\ proc'[p].existing = None
    <2>1. "releasing" \in Phase
      BY DEF Phase
    <2> QED
      BY <1>1, <2>1, EnterEffect, ReturnEffect
  <1>3. TypeOK'
    BY <1>1, <1>2 DEF TypeOK
  <1>4. CallInv' /\ SavedInv'
    BY <1>1, <1>2 DEF CallInv, SavedInv, Others, SameRequest
  <1>5. LeaseInv' /\ AnswerWasSaved'
    BY <1>1, <1>2, LeasesKeep DEF Holds, SameRequest
  <1>6. IdInv' /\ TraceIsOfResponse'
    BY <1>1, <1>2, IdsKeep DEF SameRequest
  <1>7. FlightInv'
    BY <1>1, <1>2, FlightKeeps DEF InFlight, SameRequest
  <1> QED
    BY <1>3, <1>4, <1>5, <1>6, <1>7

-----------------------------------------------------------------------------
(* The steps that write the row of a key.                                  *)
LEMMA LeaseChanges ==
  ASSUME TypeOK, LeaseInv, AnswerWasSaved, NEW p \in Process, Others(p), NEW k \in Key,
         \A j \in Key \ {k} : ledger'[j] = ledger[j], UNCHANGED <<disturbed, saved>>,
         \A j \in Key \ {k} : ~ Holds(p, j)',
         k \notin disturbed =>
           /\ ~ ledger'[k].lapsed
           /\ Excl(k)'
           /\ ledger'[k].state = "done" => <<ledger'[k].hash, ledger'[k].body>> \in saved
  PROVE  LeaseInv' /\ AnswerWasSaved'
  <1>1. \A j \in Key, q \in Process \ {p} : Holds(q, j)' <=> Holds(q, j)
    BY DEF Holds, Others
  <1>2. ASSUME NEW j \in Key \ {k}, j \notin disturbed PROVE Excl(j)'
    <2>1. Excl(j)
      BY <1>2 DEF LeaseInv
    <2> QED
      BY <1>1, <2>1 DEF Excl, Others
  <1>3. LeaseInv'
    BY <1>2 DEF LeaseInv
  <1> QED
    BY <1>3 DEF AnswerWasSaved

LEMMA ReserveStep == ASSUME IInv, NEW p \in Process, Reserve(p) PROVE IInv'
  <1> USE DEF IInv
  <1> DEFINE k == proc[p].key
  <1>1. /\ proc[p].phase = "reserving" /\ k \in Key /\ proc[p].result \in Result
        /\ UNCHANGED <<rows, traces, begun, made, contended, disturbed, saved>>
        /\ Enter(p, "investigating") /\ "investigating" \in Phase
    BY DEF Reserve, At, CallInv, tables, history, Phase
  <1>2. /\ proc' \in [Process -> Call] /\ proc'[p].phase = "investigating"
        /\ SameRequest(p) /\ Others(p)
    BY <1>1, EnterEffect
  <1>3. /\ ledger' \in [Key -> Ledger!Row]
        /\ ledger'[k] = Ledger!Pending(proc[p].result)
        /\ \A j \in Key \ {k} : ledger'[j] = ledger[j]
    BY <1>1, RowTypes DEF Reserve, TypeOK
  <1>4. /\ ledger'[k].state = "pending" /\ ledger'[k].hash = proc[p].result
        /\ ~ ledger'[k].lapsed
    BY <1>3 DEF Ledger!Pending
  <1>5. TypeOK'
    BY <1>1, <1>2, <1>3 DEF TypeOK
  <1>6. CallInv' /\ SavedInv'
    BY <1>1, <1>2 DEF CallInv, SavedInv, Others, SameRequest
  <1>7. k \notin disturbed => Excl(k)'
    <2>1. k \notin disturbed => ledger[k].state = "absent"
      BY <1>1 DEF Reserve, Ledger!Reservable, LeaseInv
    <2>2. k \notin disturbed => \A q \in Process : ~ Holds(q, k)
      BY <1>1, <2>1 DEF LeaseInv, Excl
    <2> QED
      BY <1>2, <1>4, <2>2 DEF Excl, Holds, Others, SameRequest
  <1>8. LeaseInv' /\ AnswerWasSaved'
    BY <1>1, <1>2, <1>3, <1>4, <1>7, LeaseChanges DEF Holds, SameRequest
  <1>9. IdInv' /\ TraceIsOfResponse'
    BY <1>1, <1>2, IdsKeep DEF SameRequest
  <1>10. FlightInv'
    BY <1>1, <1>2, FlightKeeps DEF InFlight, SameRequest
  <1> QED
    BY <1>5, <1>6, <1>8, <1>9, <1>10

LEMMA AnswerStep ==
  ASSUME IInv, NEW p \in Process, PutAnswer(p) \/ ReleaseLease(p) \/ Complete(p) PROVE IInv'
  <1> USE DEF IInv
  <1> DEFINE b == proc[p].answer
  <1>0. PICK k \in Key : k = proc[p].key
    BY DEF PutAnswer, ReleaseLease, Complete, At, CallInv
  <1>1. /\ proc[p].phase \in {"putting", "releasing", "completing"}
        /\ proc[p].result \in Result
        /\ UNCHANGED <<rows, traces, begun, made, contended, disturbed, saved>>
        /\ Return(p)
    BY DEF PutAnswer, ReleaseLease, Complete, At, CallInv, tables, history
  <1>2. /\ proc' \in [Process -> Call] /\ proc'[p].phase = "idle"
        /\ proc'[p].existing = None /\ Others(p)
    BY <1>1, ReturnEffect
  <1>3. /\ proc[p].phase = "putting" =>
             b \in Response /\ ledger'[k] = Ledger!Put(ledger[k], proc[p].result, b)
        /\ proc[p].phase = "releasing" => ledger'[k] = Ledger!Release(ledger[k])
        /\ proc[p].phase = "completing" =>
             b \in Response /\ ledger'[k] = Ledger!Complete(ledger[k], b)
        /\ \A j \in Key \ {k} : ledger'[j] = ledger[j]
        /\ ledger' \in [Key -> Ledger!Row]
    <2>1. CASE PutAnswer(p)
      BY <1>0, <1>1, <2>1, RowTypes DEF PutAnswer, At, CallInv, TypeOK
    <2>2. CASE ReleaseLease(p)
      BY <1>0, <1>1, <2>2, RowTypes DEF ReleaseLease, At, TypeOK
    <2>3. CASE Complete(p)
      BY <1>0, <1>1, <2>3, RowTypes DEF Complete, At, CallInv, TypeOK
    <2> QED
      BY <2>1, <2>2, <2>3
  <1>4. TypeOK'
    BY <1>1, <1>2, <1>3 DEF TypeOK
  <1>5. CallInv' /\ SavedInv'
    BY <1>1, <1>2 DEF CallInv, SavedInv, Others
  <1>6. ASSUME k \notin disturbed
        PROVE  /\ ~ ledger'[k].lapsed
               /\ Excl(k)'
               /\ ledger'[k].state = "done" => <<ledger'[k].hash, ledger'[k].body>> \in saved
    <2>1. ~ ledger[k].lapsed /\ Excl(k) /\ (ledger[k].state = "done" =>
            <<ledger[k].hash, ledger[k].body>> \in saved)
      BY <1>1, <1>6 DEF LeaseInv, AnswerWasSaved
    <2>2. CASE proc[p].phase = "putting"
      <3>1. <<proc[p].result, b>> \in saved
        BY <2>2 DEF SavedInv
      <3>2. CASE ledger[k].state = "absent"
        <4>1. \A q \in Process : ~ Holds(q, k)
          BY <2>1, <3>2 DEF Excl
        <4>2. ledger'[k] = Ledger!Done(proc[p].result, b)
          BY <1>3, <2>2, <3>2 DEF Ledger!Put
        <4> QED
          BY <1>2, <3>1, <4>1, <4>2 DEF Excl, Holds, Others, Ledger!Done
      <3>3. CASE ledger[k].state # "absent"
        <4>1. ledger'[k] = ledger[k]
          BY <1>3, <2>2, <3>3 DEF Ledger!Put
        <4> QED
          BY <1>2, <2>1, <4>1 DEF Excl, Holds, Others
      <3> QED
        BY <3>2, <3>3
    <2>3. CASE proc[p].phase \in {"releasing", "completing"}
      <3>1. /\ ledger[k].state = "pending" /\ ledger[k].hash = proc[p].result
            /\ \A q \in Process \ {p} : ~ Holds(q, k)
        BY <1>0, <2>1, <2>3 DEF Excl, Holds
      <3>2. Excl(k)'
        BY <1>2, <3>1 DEF Excl, Holds, Others
      <3>3. CASE proc[p].phase = "releasing"
        BY <1>3, <3>1, <3>2, <3>3 DEF Ledger!Release, Ledger!Absent
      <3>4. CASE proc[p].phase = "completing"
        <4>1. <<proc[p].result, b>> \in saved
          BY <3>4 DEF SavedInv
        <4> QED
          BY <1>3, <3>1, <3>2, <3>4, <4>1 DEF Ledger!Complete, Ledger!Done
      <3> QED
        BY <2>3, <3>3, <3>4
    <2> QED
      BY <1>1, <2>2, <2>3
  <1>7. LeaseInv' /\ AnswerWasSaved'
    <2>1. \A j \in Key \ {k} : ~ Holds(p, j)'
      BY <1>2 DEF Holds
    <2> QED
      BY <1>1, <1>2, <1>3, <1>6, <2>1, LeaseChanges
  <1>8. IdInv' /\ TraceIsOfResponse'
    BY <1>1, <1>2, IdsKeep
  <1>9. FlightInv'
    BY <1>1, <1>2, FlightKeeps DEF InFlight
  <1> QED
    BY <1>4, <1>5, <1>7, <1>8, <1>9

LEMMA LeaseEndsStep == ASSUME IInv, NEW k \in Key, LeaseEnds(k) PROVE IInv'
  <1> USE DEF IInv
  <1>1. /\ UNCHANGED <<rows, traces, begun, made, proc, contended, saved>>
        /\ disturbed' = disturbed \cup {k}
        /\ \A j \in Key \ {k} : ledger'[j] = ledger[j]
    BY DEF LeaseEnds, tables, TypeOK
  <1>2. TypeOK'
    BY <1>1, RowTypes DEF TypeOK, LeaseEnds
  <1>3. CallInv' /\ SavedInv' /\ IdInv' /\ TraceIsOfResponse' /\ FlightInv'
    BY <1>1 DEF CallInv, SavedInv, IdInv, Uses, TraceIsOfResponse, FlightInv, InFlight
  <1>4. ASSUME NEW j \in Key \ disturbed' PROVE Excl(j)'
    <2>1. Excl(j) /\ j # k
      BY <1>1 DEF LeaseInv
    <2> QED
      BY <1>1, <2>1 DEF Excl, Holds
  <1>5. LeaseInv' /\ AnswerWasSaved'
    BY <1>1, <1>4 DEF LeaseInv, AnswerWasSaved
  <1> QED
    BY <1>2, <1>3, <1>5

-----------------------------------------------------------------------------
(* A response takes the id of the assessment it refreshes, which belongs   *)
(* to its result, or one that belongs to none.                             *)
LEMMA InvestigateStep ==
  ASSUME IInv, NEW p \in Process, NEW settled \in BOOLEAN, NEW traced \in BOOLEAN,
         Investigate(p, settled, traced)
  PROVE  IInv'
  <1> USE DEF IInv
  <1> DEFINE n == IF proc[p].existing = None THEN made + 1 ELSE proc[p].existing.id
             b == [id |-> n, serial |-> made + 1, settled |-> settled, traced |-> traced]
  <1>1. /\ proc[p].phase = "investigating" /\ proc[p] \in Call
        /\ proc[p].result \in Result /\ proc[p].key \in Key
        /\ made < MaxResponses /\ made' = made + 1
        /\ UNCHANGED <<rows, traces, ledger, begun, contended, disturbed, saved>>
        /\ proc' = [proc EXCEPT ![p].answer = b, ![p].phase = "saving"]
    BY DEF Investigate, At, CallInv, TypeOK, tables, history
  <1>2. made \in Nat /\ made + 1 \in Id
    BY <1>1, InvestigationAssumption DEF TypeOK, Id
  <1>3. n \in Id
    BY <1>1, <1>2 DEF Call, Response
  <1>4. b \in Response /\ b.id = n
    BY <1>2, <1>3 DEF Response
  <1> HIDE DEF b, n
  <1>5. /\ proc'[p].phase = "saving" /\ proc'[p].answer = b
        /\ proc'[p].key = proc[p].key /\ proc'[p].result = proc[p].result
        /\ proc'[p].existing = proc[p].existing /\ Others(p)
        /\ proc' \in [Process -> Call]
    BY <1>1, <1>4 DEF TypeOK, Call, Phase, Others
  <1>6. TypeOK'
    BY <1>1, <1>2, <1>5 DEF TypeOK, Id
  <1>7. CallInv' /\ SavedInv'
    BY <1>1, <1>4, <1>5 DEF CallInv, SavedInv, Others
  <1>8. LeaseInv' /\ AnswerWasSaved'
    BY <1>1, <1>5, LeasesKeep DEF Holds
  <1>9. \/ n = made + 1
        \/ Uses(proc[p].result, n)
    BY <1>3 DEF n, Uses
  <1>10. ASSUME NEW r \in Result, NEW i \in Id, Uses(r, i)'
         PROVE  Uses(r, i) \/ (r = proc[p].result /\ i = n)
    BY <1>1, <1>4, <1>5, <1>10 DEF Uses, Others
  <1>11. IdInv'
    <2>1. \A r \in Result, i \in Id : Uses(r, i)' => i <= made'
      BY <1>1, <1>2, <1>9, <1>10 DEF IdInv, Id
    <2>2. ASSUME NEW r \in Result, NEW s \in Result, NEW i \in Id, Uses(r, i)', Uses(s, i)'
          PROVE  r = s
      <3>1. CASE n = made + 1
        <4>1. \A t \in Result : ~ Uses(t, n)
          BY <1>2, <1>3, <3>1 DEF IdInv
        <4> QED
          BY <1>10, <2>2, <4>1 DEF IdInv
      <3>2. CASE Uses(proc[p].result, n)
        BY <1>1, <1>3, <1>10, <2>2, <3>2 DEF IdInv
      <3> QED
        BY <1>9, <3>1, <3>2
    <2> QED
      BY <2>1, <2>2 DEF IdInv
  <1>12. TraceIsOfResponse'
    BY <1>1 DEF TraceIsOfResponse
  <1>13. FlightInv'
    BY <1>1, <1>5, FlightKeeps DEF InFlight
  <1> QED
    BY <1>6, <1>7, <1>8, <1>11, <1>12, <1>13

(* The tool calls filed under the id of the response belong to no other    *)
(* result, so the deletion takes none but those of the row it updates.     *)
LEMMA SaveStep == ASSUME IInv, NEW p \in Process, Save(p) PROVE IInv'
  <1> USE DEF IInv
  <1>0. PICK r \in Result, b \in Response : r = proc[p].result /\ b = proc[p].answer
    BY DEF Save, At, CallInv
  <1>1. /\ proc[p].phase = "saving"
        /\ rows' = [rows EXCEPT ![r] = Upserted(r, b)]
        /\ traces' = [traces EXCEPT ![b.id] = IF b.traced THEN b.serial ELSE 0]
        /\ saved' = saved \cup {<<r, b>>}
        /\ Enter(p, "completing") /\ "completing" \in Phase
        /\ UNCHANGED <<ledger, begun, made, contended, disturbed>>
    BY <1>0 DEF Save, At, Phase
  <1>2. /\ proc' \in [Process -> Call] /\ proc'[p].phase = "completing"
        /\ SameRequest(p) /\ Others(p)
    BY <1>1, EnterEffect
  <1>3. /\ b.id \in Id /\ b.serial \in Id
        /\ Upserted(r, b) \in Row /\ Upserted(r, b).body = b
        /\ Upserted(r, b).id = b.id \/ (rows[r] # None /\ Upserted(r, b).id = rows[r].id)
    BY DEF Upserted, Row, Response, TypeOK
  <1>4. TypeOK'
    BY <1>1, <1>2, <1>3 DEF TypeOK
  <1>5. CallInv'
    BY <1>0, <1>1, <1>2 DEF CallInv, Others, SameRequest
  <1>6. /\ rows'[r].body = b /\ rows'[r].id = Upserted(r, b).id
        /\ \A s \in Result \ {r} : rows'[s] = rows[s]
    BY <1>1, <1>3 DEF TypeOK
  <1>7. SavedInv'
    BY <1>0, <1>1, <1>2, <1>6 DEF SavedInv, Others, SameRequest
  <1>8. LeaseInv' /\ AnswerWasSaved'
    BY <1>1, <1>2, LeasesKeep DEF Holds, SameRequest
  <1>9. Uses(r, b.id)
    BY <1>0, <1>1 DEF Uses
  <1>10. ASSUME NEW s \in Result, NEW i \in Id, Uses(s, i)' PROVE Uses(s, i)
    <2>1. CASE s # r
      BY <1>1, <1>2, <1>6, <1>10, <2>1 DEF Uses, Others, SameRequest
    <2>2. CASE s = r
      <3>1. CASE rows'[r] # None /\ i \in {rows'[r].id, rows'[r].body.id}
        BY <1>3, <1>6, <1>9, <2>2, <3>1 DEF Uses
      <3>2. CASE ~ (rows'[r] # None /\ i \in {rows'[r].id, rows'[r].body.id})
        BY <1>2, <1>10, <2>2, <3>2 DEF Uses, Others, SameRequest
      <3> QED
        BY <3>1, <3>2
    <2> QED
      BY <2>1, <2>2
  <1>11. IdInv'
    BY <1>1, <1>10 DEF IdInv
  <1>12. TraceIsOfResponse'
    <2>1. ASSUME NEW s \in Result, rows'[s] # None
          PROVE  LET c == rows'[s].body IN traces'[c.id] = IF c.traced THEN c.serial ELSE 0
      <3>1. CASE s = r
        BY <1>1, <1>3, <1>6, <3>1 DEF TypeOK
      <3>2. CASE s # r
        <4>1. rows[s] # None /\ rows'[s] = rows[s] /\ rows[s].body.id \in Id
          BY <1>6, <2>1, <3>2 DEF TypeOK, Row, Response
        <4>2. Uses(s, rows[s].body.id)
          BY <4>1 DEF Uses
        <4>3. rows[s].body.id # b.id
          BY <1>3, <1>9, <3>2, <4>1, <4>2 DEF IdInv
        <4> QED
          BY <1>1, <4>1, <4>3 DEF TraceIsOfResponse, TypeOK
      <3> QED
        BY <3>1, <3>2
    <2> QED
      BY <2>1 DEF TraceIsOfResponse
  <1>13. FlightInv'
    <2>1. \A s \in Result, q \in Process \ {p} : InFlight(q, s)' <=> InFlight(q, s)
      BY <1>2 DEF InFlight, Others
    <2>2. \A s \in Result : ~ InFlight(p, s)'
      BY <1>2 DEF InFlight
    <2>3. InFlight(p, r)
      BY <1>0, <1>1 DEF InFlight
    <2>4. ASSUME NEW s \in Result \ contended, NEW q \in Process \ {p}, InFlight(q, s)
          PROVE  s # r
      BY <2>3, <2>4 DEF FlightInv
    <2> QED
      BY <1>1, <1>6, <2>1, <2>2, <2>4 DEF FlightInv
  <1> QED
    BY <1>4, <1>5, <1>7, <1>8, <1>11, <1>12, <1>13

-----------------------------------------------------------------------------
LEMMA StepInv == IInv /\ [Next]_vars => IInv'
  <1> SUFFICES ASSUME IInv, [Next]_vars PROVE IInv'
    OBVIOUS
  <1>1. ASSUME NEW p \in Process, NEW k \in Key, NEW r \in Result, Begin(p, k, r) PROVE IInv'
    BY <1>1, BeginStep
  <1>2. ASSUME NEW p \in Process, Read(p) PROVE IInv'
    BY <1>2, ReadStep
  <1>3. ASSUME NEW p \in Process, Reserve(p) PROVE IInv'
    BY <1>3, ReserveStep
  <1>4. ASSUME NEW p \in Process, ReserveLost(p) \/ ReadBack(p) PROVE IInv'
    BY <1>4, LostStep
  <1>5. ASSUME NEW p \in Process, NEW settled \in BOOLEAN, NEW traced \in BOOLEAN,
               Investigate(p, settled, traced)
        PROVE IInv'
    BY <1>5, InvestigateStep
  <1>6. ASSUME NEW p \in Process, Save(p) PROVE IInv'
    BY <1>6, SaveStep
  <1>7. ASSUME NEW p \in Process, Fails(p) \/ Abandon(p) PROVE IInv'
    BY <1>7, LeavingStep
  <1>8. ASSUME NEW p \in Process, PutAnswer(p) \/ ReleaseLease(p) \/ Complete(p) PROVE IInv'
    BY <1>8, AnswerStep
  <1>9. ASSUME NEW k \in Key, LeaseEnds(k) PROVE IInv'
    BY <1>9, LeaseEndsStep
  <1>10. CASE UNCHANGED vars
    BY <1>10 DEF vars, tables, history, IInv, TypeOK, CallInv, SavedInv, LeaseInv, Excl, Holds,
                 AnswerWasSaved, IdInv, Uses, TraceIsOfResponse, FlightInv, InFlight
  <1> QED
    BY <1>1, <1>2, <1>3, <1>4, <1>5, <1>6, <1>7, <1>8, <1>9, <1>10 DEF Next

LEMMA Invariance == Spec => []IInv
  BY InitInv, StepInv, PTL DEF Spec

-----------------------------------------------------------------------------
(* Every variable keeps its type: a call that is under way has its key, its*)
(* result and the response it is about to save.                            *)
THEOREM CallsKeepTheirTypes == Spec => []TypeOK
  BY Invariance, PTL DEF IInv

(* However calls interleave, fail or die, the tool calls filed under the id*)
(* of a stored assessment are those of this response (repository.py:1034). *)
THEOREM TracesBelongToResponses == Spec => []TraceIsOfResponse
  BY Invariance, PTL DEF IInv

(* What a key replays was saved for the result that its request names.     *)
THEOREM ReplayedAnswersWereSaved == Spec => []AnswerWasSaved
  BY Invariance, PTL DEF IInv

(* A settled assessment is replaced only when two calls overlapped.        *)
THEOREM SettledAssessmentsStand == Spec => SettledStands
  <1> DEFINE Stands == \A r \in Result :
               rows[r] # None /\ rows[r].body.settled /\ rows'[r] # rows[r] => r \in contended'
  <1>1. IInv /\ [Next]_vars => [Stands]_vars
    <2> SUFFICES ASSUME IInv, [Next]_vars, NEW r \in Result,
                        rows[r] # None, rows[r].body.settled, rows'[r] # rows[r]
                 PROVE  r \in contended'
      OBVIOUS
    <2>1. PICK p \in Process : Save(p)
      BY DEF Next, vars, tables, Begin, Read, PutAnswer, Reserve, ReserveLost, ReadBack,
             Investigate, Fails, ReleaseLease, Complete, Abandon, LeaseEnds
    <2>2. /\ proc[p].result = r /\ proc[p].phase = "saving" /\ UNCHANGED contended
      BY <2>1 DEF Save, At, IInv, TypeOK
    <2> QED
      BY <2>2 DEF IInv, FlightInv, InFlight
  <1> QED
    BY <1>1, Invariance, PTL DEF Spec, SettledStands
=============================================================================
