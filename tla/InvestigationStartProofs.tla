---------------------- MODULE InvestigationStartProofs ----------------------
(***************************************************************************)
(* Proofs about InvestigationStart for any number of processes, keys and   *)
(* exceptions, and any bound on the investigations.                        *)
(***************************************************************************)
EXTENDS InvestigationStart, TLAPS

(* A process is serving a request of some key and exception exactly when   *)
(* it is not idle, and it carries its own response from the investigation  *)
(* to the answer.                                                          *)
RequestsWellFormed ==
  \A p \in Process :
    /\ proc[p].phase # "idle" => proc[p].key \in Key /\ proc[p].subject \in Exception
    /\ proc[p].phase \in {"saving", "completing"}
         => /\ proc[p].response \in Response
            /\ proc[p].response.subject = proc[p].subject
    /\ proc[p].phase = "completing"
         => [key |-> proc[p].key, response |-> proc[p].response] \in saved

(* LeaseExcludes, for two processes at a time.                             *)
Excl(k) ==
  \A p \in Process :
    proc[p].key = k /\ proc[p].phase \in {"investigating", "saving", "completing", "releasing"}
      => /\ ledger[k].state = "pending"
         /\ ledger[k].hash = proc[p].subject
         /\ \A q \in Process :
              /\ proc[q].key = k
              /\ proc[q].phase \in {"investigating", "saving", "completing", "releasing"}
              => q = p

(* Once an investigation is saved for an undisturbed key, the key is taken *)
(* for good: its row stays, and nobody works for it except to complete it. *)
SavedTakesKey(k) ==
  \A x \in saved :
    x.key = k
      => /\ ledger[k].state \in {"pending", "done"}
         /\ \A p \in Process :
              proc[p].key = k => proc[p].phase \notin {"investigating", "saving", "releasing"}

Unique(k) == \A x, y \in saved : x.key = k /\ y.key = k => x = y

Compatible(k) == ledger[k].state = "done" => ledger[k].body.subject = ledger[k].hash

LapsedIsDisturbed == \A k \in Key : ledger[k].lapsed => k \in disturbed

Undisturbed ==
  \A k \in Key \ disturbed : Excl(k) /\ SavedTakesKey(k) /\ Unique(k) /\ Compatible(k)

IInv ==
  /\ TypeOK
  /\ RequestsWellFormed
  /\ LapsedIsDisturbed
  /\ CompletedIsSaved
  /\ Undisturbed

-----------------------------------------------------------------------------
(* The statements of the ledger keep a row a row.                          *)
LEMMA RowTypes ==
  /\ Ledger!Absent \in Ledger!Row
  /\ \A h \in Exception : Ledger!Pending(h) \in Ledger!Row
  /\ \A row \in Ledger!Row, b \in Response : Ledger!Complete(row, b) \in Ledger!Row
  /\ \A row \in Ledger!Row : Ledger!Release(row) \in Ledger!Row
  /\ \A row \in Ledger!Row : Ledger!Lapse(row) \in Ledger!Row
  /\ \A row \in Ledger!Row : row.body \in Response \cup {NoResponse}
  BY DEF Ledger!Row, Ledger!Absent, Ledger!Pending, Ledger!Done, Ledger!Complete,
         Ledger!Release, Ledger!Lapse

(* Changing the phase of a request changes nothing else of any request.    *)
LEMMA EnterEffect ==
  ASSUME NEW p \in Process, NEW phase \in Phase,
         proc \in [Process -> Request], Enter(p, phase)
  PROVE  /\ proc' \in [Process -> Request]
         /\ proc'[p].phase = phase
         /\ proc'[p].key = proc[p].key
         /\ proc'[p].subject = proc[p].subject
         /\ proc'[p].response = proc[p].response
         /\ \A q \in Process \ {p} : proc'[q] = proc[q]
  BY DEF Enter, Request

(* Answering ends the request of one process.                              *)
LEMMA AnsweredEffect ==
  ASSUME NEW p \in Process, NEW kind \in {"none", "ok", "conflict", "in_progress", "error"},
         NEW k \in Key, NEW r \in Response \cup {NoResponse},
         proc \in [Process -> Request], outcome \in [Process -> Answer],
         Answered(p, kind, k, r)
  PROVE  /\ proc' \in [Process -> Request]
         /\ outcome' \in [Process -> Answer]
         /\ proc'[p].phase = "idle"
         /\ \A q \in Process \ {p} : proc'[q] = proc[q]
  BY DEF Answered, Request, Answer, Idle, Phase

LEMMA IdleType == Idle \in Request /\ NoAnswer \in Answer
  BY DEF Idle, NoAnswer, Request, Answer, Phase

LEMMA InitType == Init => TypeOK
  BY IdleType, RowTypes DEF Init, TypeOK

(* An answer taken from the row of a key is well typed.                    *)
LEMMA FromRowEffect ==
  ASSUME NEW p \in Process, NEW k \in Key, NEW e \in Exception, TypeOK,
         AnswerFromRow(p, k, e)
  PROVE  /\ proc' \in [Process -> Request]
         /\ outcome' \in [Process -> Answer]
         /\ proc'[p].phase = "idle"
         /\ \A q \in Process \ {p} : proc'[q] = proc[q]
  <1>1. ledger[k].body \in Response \cup {NoResponse}
    BY RowTypes DEF TypeOK
  <1>2. PICK kind \in {"none", "ok", "conflict", "in_progress", "error"},
             r \in Response \cup {NoResponse} : Answered(p, kind, k, r)
    BY <1>1 DEF AnswerFromRow
  <1> QED
    BY <1>2, AnsweredEffect DEF TypeOK

(* Every action keeps every variable in its type.                          *)
LEMMA TypeStep == TypeOK /\ RequestsWellFormed /\ [Next]_vars => TypeOK'
  <1> SUFFICES ASSUME TypeOK, RequestsWellFormed, [Next]_vars PROVE TypeOK'
    OBVIOUS
  <1> USE DEF TypeOK
  <1>1. ASSUME NEW p \in Process, NEW k \in Key, NEW e \in Exception, BeginReplay(p, k, e)
        PROVE TypeOK'
    BY <1>1, FromRowEffect DEF BeginReplay
  <1>2. ASSUME NEW p \in Process, NEW k \in Key, NEW e \in Exception, BeginCached(p, k, e)
        PROVE TypeOK'
    <2>1. cache[p][k] \in Response \cup {NoResponse}
      OBVIOUS
    <2>2. \/ Answered(p, "ok", k, cache[p][k])
          \/ Answered(p, "conflict", k, NoResponse)
      BY <1>2 DEF BeginCached
    <2>3. proc' \in [Process -> Request] /\ outcome' \in [Process -> Answer]
      BY <2>1, <2>2, AnsweredEffect
    <2> QED
      BY <1>2, <2>3 DEF BeginCached
  <1>3. ASSUME NEW p \in Process, NEW k \in Key, NEW e \in Exception, Begin(p, k, e)
        PROVE TypeOK'
    <2>1. [phase |-> "reserving", key |-> k, subject |-> e, response |-> NoResponse] \in Request
      BY DEF Request, Phase
    <2> QED
      BY <1>3, <2>1, IdleType DEF Begin
  <1>4. ASSUME NEW p \in Process, Reserve(p) PROVE TypeOK'
    <2>1. proc[p].subject \in Exception
      BY <1>4 DEF Reserve, RequestsWellFormed
    <2>2. Enter(p, "investigating") /\ "investigating" \in Phase
      BY <1>4 DEF Reserve, Phase
    <2>3. proc' \in [Process -> Request]
      BY <2>2, EnterEffect
    <2>4. Ledger!Pending(proc[p].subject) \in Ledger!Row
      BY <2>1, RowTypes
    <2> QED
      BY <1>4, <2>3, <2>4 DEF Reserve
  <1>5. ASSUME NEW p \in Process, ReserveLost(p) PROVE TypeOK'
    <2>1. Enter(p, "readback") /\ "readback" \in Phase
      BY <1>5 DEF ReserveLost, Phase
    <2>2. proc' \in [Process -> Request]
      BY <2>1, EnterEffect
    <2> QED
      BY <1>5, <2>2 DEF ReserveLost
  <1>6. ASSUME NEW p \in Process, ReadBack(p) PROVE TypeOK'
    <2>1. proc[p].key \in Key /\ proc[p].subject \in Exception
      BY <1>6 DEF ReadBack, RequestsWellFormed
    <2> QED
      BY <1>6, <2>1, FromRowEffect DEF ReadBack
  <1>7. ASSUME NEW p \in Process, ReadBackNothing(p) PROVE TypeOK'
    <2>1. Enter(p, "investigating") /\ "investigating" \in Phase
      BY <1>7 DEF ReadBackNothing, Phase
    <2>2. proc' \in [Process -> Request]
      BY <2>1, EnterEffect
    <2>3. proc[p].key \in Key
      BY <1>7 DEF ReadBackNothing, RequestsWellFormed
    <2> QED
      BY <1>7, <2>2, <2>3 DEF ReadBackNothing
  <1>8. ASSUME NEW p \in Process, Investigate(p) PROVE TypeOK'
    <2> DEFINE r == [subject |-> proc[p].subject, id |-> nextId]
    <2>1. r \in Response
      BY <1>8 DEF Investigate, RequestsWellFormed, Response
    <2>2. proc' = [proc EXCEPT ![p].phase = "saving", ![p].response = r]
      BY <1>8 DEF Investigate
    <2>3. [proc[p] EXCEPT !.phase = "saving", !.response = r] \in Request
      BY <2>1 DEF Request, Phase
    <2>4. proc' \in [Process -> Request]
      BY <2>2, <2>3
    <2>5. cache' \in [Process -> [Key -> Response \cup {NoResponse}]]
      BY <1>8, <2>1 DEF Investigate
    <2> QED
      BY <1>8, <2>4, <2>5 DEF Investigate
  <1>9. ASSUME NEW p \in Process, Save(p) PROVE TypeOK'
    <2>1. Enter(p, "completing") /\ "completing" \in Phase
      BY <1>9 DEF Save, Phase
    <2>2. proc' \in [Process -> Request]
      BY <2>1, EnterEffect
    <2>3. proc[p].key \in Key /\ proc[p].response \in Response
      BY <1>9 DEF Save, RequestsWellFormed
    <2> QED
      BY <1>9, <2>2, <2>3 DEF Save
  <1>10. ASSUME NEW p \in Process, SaveFails(p) PROVE TypeOK'
    <2>1. Enter(p, "releasing") /\ "releasing" \in Phase
      BY <1>10 DEF SaveFails, Phase
    <2>2. proc' \in [Process -> Request]
      BY <2>1, EnterEffect
    <2> QED
      BY <1>10, <2>2 DEF SaveFails
  <1>11. ASSUME NEW p \in Process, ReleaseLease(p) PROVE TypeOK'
    <2>1. proc[p].key \in Key
      BY <1>11 DEF ReleaseLease, RequestsWellFormed
    <2>2. proc' \in [Process -> Request] /\ outcome' \in [Process -> Answer]
      BY <1>11, <2>1, AnsweredEffect DEF ReleaseLease
    <2>3. ledger' \in [Key -> Ledger!Row]
      BY <1>11, <2>1, RowTypes DEF ReleaseLease
    <2> QED
      BY <1>11, <2>2, <2>3 DEF ReleaseLease
  <1>12. ASSUME NEW p \in Process, CompleteKey(p) PROVE TypeOK'
    <2>1. proc[p].key \in Key /\ proc[p].response \in Response
      BY <1>12 DEF CompleteKey, RequestsWellFormed
    <2>2. proc' \in [Process -> Request] /\ outcome' \in [Process -> Answer]
      BY <1>12, <2>1, AnsweredEffect DEF CompleteKey
    <2>3. ledger' \in [Key -> Ledger!Row]
      BY <1>12, <2>1, RowTypes DEF CompleteKey
    <2> QED
      BY <1>12, <2>2, <2>3 DEF CompleteKey
  <1>13. ASSUME NEW p \in Process, Raise(p) PROVE TypeOK'
    <2>1. proc[p].key \in Key
      BY <1>13 DEF Raise, RequestsWellFormed
    <2> QED
      BY <1>13, <2>1, AnsweredEffect DEF Raise
  <1>14. ASSUME NEW p \in Process, Crash(p) PROVE TypeOK'
    BY <1>14, IdleType DEF Crash
  <1>15. ASSUME NEW k \in Key, LeaseEnds(k) PROVE TypeOK'
    BY <1>15, RowTypes DEF LeaseEnds
  <1>16. CASE UNCHANGED vars
    BY <1>16 DEF vars
  <1> QED
    BY <1>1, <1>2, <1>3, <1>4, <1>5, <1>6, <1>7, <1>8, <1>9, <1>10, <1>11, <1>12,
       <1>13, <1>14, <1>15, <1>16 DEF Next

-----------------------------------------------------------------------------
(* How a step acts on the state the invariant speaks of. Steps that end a  *)
(* request, or that start one, leave the tables alone.                     *)
Others(p) == \A q \in Process \ {p} : proc'[q] = proc[q]

EndsRequest(p) ==
  /\ proc'[p].phase = "idle"
  /\ Others(p)
  /\ ledger' = ledger /\ saved' = saved /\ disturbed' = disturbed

LEMMA EndingSteps ==
  ASSUME TypeOK, RequestsWellFormed, NEW p \in Process,
         \/ \E k \in Key, e \in Exception : BeginReplay(p, k, e) \/ BeginCached(p, k, e)
         \/ ReadBack(p) \/ Raise(p) \/ Crash(p)
  PROVE  EndsRequest(p)
  <1> USE DEF EndsRequest, Others, TypeOK
  <1>1. ASSUME NEW k \in Key, NEW e \in Exception, BeginReplay(p, k, e) PROVE EndsRequest(p)
    BY <1>1, FromRowEffect DEF BeginReplay
  <1>2. ASSUME NEW k \in Key, NEW e \in Exception, BeginCached(p, k, e) PROVE EndsRequest(p)
    <2>1. cache[p][k] \in Response \cup {NoResponse}
      OBVIOUS
    <2>2. \/ Answered(p, "ok", k, cache[p][k])
          \/ Answered(p, "conflict", k, NoResponse)
      BY <1>2 DEF BeginCached
    <2> QED
      BY <1>2, <2>1, <2>2, AnsweredEffect DEF BeginCached
  <1>3. CASE ReadBack(p)
    <2>1. proc[p].key \in Key /\ proc[p].subject \in Exception
      BY <1>3 DEF ReadBack, RequestsWellFormed
    <2> QED
      BY <1>3, <2>1, FromRowEffect DEF ReadBack
  <1>4. CASE Raise(p)
    <2>1. proc[p].key \in Key
      BY <1>4 DEF Raise, RequestsWellFormed
    <2> QED
      BY <1>4, <2>1, AnsweredEffect DEF Raise
  <1>5. CASE Crash(p)
    BY <1>5 DEF Crash, Idle
  <1> QED
    BY <1>1, <1>2, <1>3, <1>4, <1>5

LEMMA EndingKeeps ==
  ASSUME IInv, NEW p \in Process, EndsRequest(p), TypeOK'
  PROVE  IInv'
  <1> USE DEF IInv, EndsRequest, Others
  <1>1. RequestsWellFormed'
    BY DEF RequestsWellFormed
  <1>2. LapsedIsDisturbed' /\ CompletedIsSaved'
    BY DEF LapsedIsDisturbed, CompletedIsSaved
  <1>3. Undisturbed'
    BY DEF Undisturbed, Excl, SavedTakesKey, Unique, Compatible
  <1> QED
    BY <1>1, <1>2, <1>3

(* A new request has not touched anything yet.                             *)
LEMMA BeginKeeps ==
  ASSUME IInv, NEW p \in Process, NEW k \in Key, NEW e \in Exception,
         Begin(p, k, e), TypeOK'
  PROVE  IInv'
  <1> USE DEF IInv
  <1>0. /\ proc'[p].phase = "reserving" /\ proc'[p].key = k /\ proc'[p].subject = e
        /\ Others(p)
        /\ ledger' = ledger /\ saved' = saved /\ disturbed' = disturbed
    BY DEF Begin, TypeOK, Others
  <1>1. RequestsWellFormed'
    BY <1>0 DEF RequestsWellFormed, Others
  <1>2. LapsedIsDisturbed' /\ CompletedIsSaved'
    BY <1>0 DEF LapsedIsDisturbed, CompletedIsSaved
  <1>3. Undisturbed'
    BY <1>0 DEF Undisturbed, Excl, SavedTakesKey, Unique, Compatible, Others
  <1> QED
    BY <1>1, <1>2, <1>3

(* A reservation of an undisturbed key meets an absent row, so nobody      *)
(* works for the key and nothing was saved for it.                         *)
LEMMA ReserveKeeps ==
  ASSUME IInv, NEW p \in Process, Reserve(p), TypeOK'
  PROVE  IInv'
  <1> DEFINE k == proc[p].key
  <1> USE DEF IInv
  <1>0. /\ Enter(p, "investigating") /\ "investigating" \in Phase
        /\ proc[p].phase = "reserving"
        /\ k \in Key /\ proc[p].subject \in Exception
        /\ saved' = saved /\ disturbed' = disturbed
    BY DEF Reserve, RequestsWellFormed, Phase
  <1>1. /\ proc'[p].phase = "investigating" /\ proc'[p].key = k
        /\ proc'[p].subject = proc[p].subject
        /\ Others(p)
    BY <1>0, EnterEffect DEF TypeOK, Others
  <1>2. /\ ledger'[k].state = "pending" /\ ledger'[k].hash = proc[p].subject
        /\ ledger'[k].lapsed = FALSE
        /\ \A j \in Key \ {k} : ledger'[j] = ledger[j]
    BY <1>0 DEF Reserve, TypeOK, Ledger!Pending
  <1>3. k \notin disturbed => ledger[k].state = "absent"
    BY <1>0 DEF Reserve, Ledger!Reservable, LapsedIsDisturbed
  <1>4. RequestsWellFormed'
    BY <1>0, <1>1 DEF RequestsWellFormed, Others
  <1>5. LapsedIsDisturbed' /\ CompletedIsSaved'
    BY <1>0, <1>2 DEF LapsedIsDisturbed, CompletedIsSaved
  <1>6. ASSUME NEW j \in Key \ disturbed
        PROVE (Excl(j) /\ SavedTakesKey(j) /\ Unique(j) /\ Compatible(j))'
    <2>1. CASE j = k
      <3>1. /\ \A q \in Process : proc[q].key = k
                 => proc[q].phase \notin {"investigating", "saving", "completing", "releasing"}
            /\ \A x \in saved : x.key # k
        BY <1>3, <2>1, <1>6 DEF Undisturbed, Excl, SavedTakesKey
      <3> QED
        BY <3>1, <1>0, <1>1, <1>2, <2>1 DEF Excl, SavedTakesKey, Unique, Compatible, Others
    <2>2. CASE j # k
      BY <1>0, <1>1, <1>2, <1>6, <2>2
         DEF Undisturbed, Excl, SavedTakesKey, Unique, Compatible, Others
    <2> QED
      BY <2>1, <2>2
  <1>7. Undisturbed'
    BY <1>0, <1>6 DEF Undisturbed
  <1> QED
    BY <1>4, <1>5, <1>7

(* Losing a reservation, and finding the winner's row gone: the second     *)
(* disturbs the key, which is then out of the invariant.                   *)
LEMMA LostKeeps ==
  ASSUME IInv, NEW p \in Process, ReserveLost(p) \/ ReadBackNothing(p), TypeOK'
  PROVE  IInv'
  <1> USE DEF IInv
  <1>0. /\ proc[p].phase \in {"reserving", "readback"}
        /\ proc[p].key \in Key /\ proc[p].subject \in Exception
        /\ saved' = saved /\ ledger' = ledger /\ disturbed \subseteq disturbed'
        /\ \/ Enter(p, "readback")
           \/ Enter(p, "investigating") /\ proc[p].key \in disturbed'
    BY DEF ReserveLost, ReadBackNothing, RequestsWellFormed
  <1>1. /\ proc'[p].key = proc[p].key /\ proc'[p].subject = proc[p].subject
        /\ \/ proc'[p].phase = "readback"
           \/ proc'[p].phase = "investigating" /\ proc[p].key \in disturbed'
        /\ Others(p)
    <2>1. "readback" \in Phase /\ "investigating" \in Phase
      BY DEF Phase
    <2> QED
      BY <1>0, <2>1, EnterEffect DEF TypeOK, Others
  <1>2. RequestsWellFormed'
    BY <1>0, <1>1 DEF RequestsWellFormed, Others
  <1>3. LapsedIsDisturbed' /\ CompletedIsSaved'
    BY <1>0 DEF LapsedIsDisturbed, CompletedIsSaved
  <1>4. Undisturbed'
    BY <1>0, <1>1 DEF Undisturbed, Excl, SavedTakesKey, Unique, Compatible, Others
  <1> QED
    BY <1>2, <1>3, <1>4

LEMMA InvestigateKeeps ==
  ASSUME IInv, NEW p \in Process, Investigate(p), TypeOK'
  PROVE  IInv'
  <1> DEFINE r == [subject |-> proc[p].subject, id |-> nextId]
  <1> USE DEF IInv
  <1>0. /\ proc[p].phase = "investigating"
        /\ proc[p].key \in Key /\ proc[p].subject \in Exception
        /\ saved' = saved /\ ledger' = ledger /\ disturbed' = disturbed
        /\ r \in Response
    BY DEF Investigate, RequestsWellFormed, Response, TypeOK
  <1>1. proc' = [proc EXCEPT ![p].phase = "saving", ![p].response = r]
    BY DEF Investigate
  <1>2. /\ proc'[p].key = proc[p].key /\ proc'[p].subject = proc[p].subject
        /\ proc'[p].phase = "saving" /\ proc'[p].response = r
        /\ Others(p)
    BY <1>1 DEF TypeOK, Request, Others
  <1>3. RequestsWellFormed'
    BY <1>0, <1>2 DEF RequestsWellFormed, Others
  <1>4. LapsedIsDisturbed' /\ CompletedIsSaved'
    BY <1>0 DEF LapsedIsDisturbed, CompletedIsSaved
  <1>5. Undisturbed'
    BY <1>0, <1>2 DEF Undisturbed, Excl, SavedTakesKey, Unique, Compatible, Others
  <1> QED
    BY <1>3, <1>4, <1>5

(* The process that saves is the only one working for its key, and nothing *)
(* was saved for the key before.                                           *)
LEMMA SaveKeeps ==
  ASSUME IInv, NEW p \in Process, Save(p), TypeOK'
  PROVE  IInv'
  <1> DEFINE k == proc[p].key
             new == [key |-> k, response |-> proc[p].response]
  <1> USE DEF IInv
  <1>0. /\ Enter(p, "completing") /\ "completing" \in Phase
        /\ proc[p].phase = "saving"
        /\ k \in Key /\ proc[p].subject \in Exception
        /\ proc[p].response \in Response /\ proc[p].response.subject = proc[p].subject
        /\ ledger' = ledger /\ disturbed' = disturbed
        /\ saved' = saved \cup {new}
    BY DEF Save, RequestsWellFormed, Phase
  <1>1. /\ proc'[p].key = k /\ proc'[p].subject = proc[p].subject
        /\ proc'[p].phase = "completing" /\ proc'[p].response = proc[p].response
        /\ Others(p)
    BY <1>0, EnterEffect DEF TypeOK, Others
  <1>2. RequestsWellFormed'
    BY <1>0, <1>1 DEF RequestsWellFormed, Others
  <1>3. LapsedIsDisturbed' /\ CompletedIsSaved'
    BY <1>0 DEF LapsedIsDisturbed, CompletedIsSaved
  <1>4. ASSUME NEW j \in Key \ disturbed
        PROVE (Excl(j) /\ SavedTakesKey(j) /\ Unique(j) /\ Compatible(j))'
    <2>1. CASE j = k
      <3>1. \A x \in saved : x.key # k
        BY <1>0, <1>4, <2>1 DEF Undisturbed, SavedTakesKey
      <3>2. ledger[k].state = "pending" /\ ledger[k].hash = proc[p].subject
        BY <1>0, <1>4, <2>1 DEF Undisturbed, Excl
      <3>3. Excl(j)'
        BY <1>0, <1>1, <1>4, <2>1 DEF Undisturbed, Excl, Others
      <3>4. SavedTakesKey(j)'
        BY <1>0, <1>1, <1>4, <2>1, <3>1, <3>2 DEF Undisturbed, Excl, SavedTakesKey, Others
      <3>5. Unique(j)' /\ Compatible(j)'
        BY <1>0, <2>1, <3>1, <3>2 DEF Unique, Compatible
      <3> QED
        BY <3>3, <3>4, <3>5
    <2>2. CASE j # k
      BY <1>0, <1>1, <1>4, <2>2
         DEF Undisturbed, Excl, SavedTakesKey, Unique, Compatible, Others
    <2> QED
      BY <2>1, <2>2
  <1>5. Undisturbed'
    BY <1>0, <1>4 DEF Undisturbed
  <1> QED
    BY <1>2, <1>3, <1>5

LEMMA SaveFailsKeeps ==
  ASSUME IInv, NEW p \in Process, SaveFails(p), TypeOK'
  PROVE  IInv'
  <1> USE DEF IInv
  <1>0. /\ Enter(p, "releasing") /\ "releasing" \in Phase
        /\ proc[p].phase = "saving"
        /\ proc[p].key \in Key /\ proc[p].subject \in Exception
        /\ ledger' = ledger /\ disturbed' = disturbed /\ saved' = saved
    BY DEF SaveFails, RequestsWellFormed, Phase
  <1>1. /\ proc'[p].key = proc[p].key /\ proc'[p].subject = proc[p].subject
        /\ proc'[p].phase = "releasing"
        /\ Others(p)
    BY <1>0, EnterEffect DEF TypeOK, Others
  <1>2. RequestsWellFormed'
    BY <1>0, <1>1 DEF RequestsWellFormed, Others
  <1>3. LapsedIsDisturbed' /\ CompletedIsSaved'
    BY <1>0 DEF LapsedIsDisturbed, CompletedIsSaved
  <1>4. Undisturbed'
    BY <1>0, <1>1 DEF Undisturbed, Excl, SavedTakesKey, Unique, Compatible, Others
  <1> QED
    BY <1>2, <1>3, <1>4

(* A release ends the work of the only process working for the key.        *)
LEMMA ReleaseKeeps ==
  ASSUME IInv, NEW p \in Process, ReleaseLease(p), TypeOK'
  PROVE  IInv'
  <1> DEFINE k == proc[p].key
  <1> USE DEF IInv
  <1>0. /\ proc[p].phase = "releasing" /\ k \in Key
        /\ disturbed' = disturbed /\ saved' = saved
        /\ Answered(p, "error", k, NoResponse)
    BY DEF ReleaseLease, RequestsWellFormed
  <1>1. proc'[p].phase = "idle" /\ Others(p)
    BY <1>0, AnsweredEffect DEF TypeOK, Others
  <1>2. /\ ledger'[k] = Ledger!Release(ledger[k])
        /\ \A j \in Key \ {k} : ledger'[j] = ledger[j]
    BY <1>0 DEF ReleaseLease, TypeOK
  <1>3. \/ ledger'[k] = ledger[k]
        \/ ledger'[k].state = "absent" /\ ledger'[k].lapsed = FALSE
    BY <1>2 DEF Ledger!Release, Ledger!Absent
  <1>4. RequestsWellFormed'
    BY <1>0, <1>1 DEF RequestsWellFormed, Others
  <1>5. LapsedIsDisturbed' /\ CompletedIsSaved'
    BY <1>0, <1>2, <1>3 DEF LapsedIsDisturbed, CompletedIsSaved
  <1>6. ASSUME NEW j \in Key \ disturbed
        PROVE (Excl(j) /\ SavedTakesKey(j) /\ Unique(j) /\ Compatible(j))'
    <2>1. CASE j = k
      <3>1. /\ \A x \in saved : x.key # k
            /\ \A q \in Process \ {p} : proc[q].key = k
                 => proc[q].phase \notin {"investigating", "saving", "completing", "releasing"}
        BY <1>0, <1>6, <2>1 DEF Undisturbed, SavedTakesKey, Excl
      <3> QED
        BY <1>0, <1>1, <1>3, <1>6, <2>1, <3>1
           DEF Undisturbed, Excl, SavedTakesKey, Unique, Compatible, Others
    <2>2. CASE j # k
      BY <1>0, <1>1, <1>2, <1>6, <2>2
         DEF Undisturbed, Excl, SavedTakesKey, Unique, Compatible, Others
    <2> QED
      BY <2>1, <2>2
  <1>7. Undisturbed'
    BY <1>0, <1>6 DEF Undisturbed
  <1> QED
    BY <1>4, <1>5, <1>7

(* A completion stores a response that the table holds; for an undisturbed *)
(* key the row is still the one the process reserved.                      *)
LEMMA CompleteKeeps ==
  ASSUME IInv, NEW p \in Process, CompleteKey(p), TypeOK'
  PROVE  IInv'
  <1> DEFINE k == proc[p].key
             r == proc[p].response
  <1> USE DEF IInv
  <1>0. /\ proc[p].phase = "completing" /\ k \in Key
        /\ r \in Response /\ r.subject = proc[p].subject
        /\ [key |-> k, response |-> r] \in saved
        /\ disturbed' = disturbed /\ saved' = saved
        /\ Answered(p, "ok", k, r)
    BY DEF CompleteKey, RequestsWellFormed
  <1>1. proc'[p].phase = "idle" /\ Others(p)
    BY <1>0, AnsweredEffect DEF TypeOK, Others
  <1>2. /\ ledger'[k] = Ledger!Complete(ledger[k], r)
        /\ \A j \in Key \ {k} : ledger'[j] = ledger[j]
    BY <1>0 DEF CompleteKey, TypeOK
  <1>3. \/ ledger'[k] = ledger[k]
        \/ /\ ledger[k].state = "pending"
           /\ ledger'[k].state = "done" /\ ledger'[k].lapsed = FALSE
           /\ ledger'[k].hash = ledger[k].hash /\ ledger'[k].body = r
    BY <1>2 DEF Ledger!Complete, Ledger!Done
  <1>4. RequestsWellFormed'
    BY <1>0, <1>1 DEF RequestsWellFormed, Others
  <1>5. LapsedIsDisturbed' /\ CompletedIsSaved'
    BY <1>0, <1>2, <1>3 DEF LapsedIsDisturbed, CompletedIsSaved
  <1>6. ASSUME NEW j \in Key \ disturbed
        PROVE (Excl(j) /\ SavedTakesKey(j) /\ Unique(j) /\ Compatible(j))'
    <2>1. CASE j = k
      <3>1. /\ ledger[k].hash = proc[p].subject
            /\ \A q \in Process \ {p} : proc[q].key = k
                 => proc[q].phase \notin {"investigating", "saving", "completing", "releasing"}
        BY <1>0, <1>6, <2>1 DEF Undisturbed, Excl
      <3> QED
        BY <1>0, <1>1, <1>3, <1>6, <2>1, <3>1
           DEF Undisturbed, Excl, SavedTakesKey, Unique, Compatible, Others
    <2>2. CASE j # k
      BY <1>0, <1>1, <1>2, <1>6, <2>2
         DEF Undisturbed, Excl, SavedTakesKey, Unique, Compatible, Others
    <2> QED
      BY <2>1, <2>2
  <1>7. Undisturbed'
    BY <1>0, <1>6 DEF Undisturbed
  <1> QED
    BY <1>4, <1>5, <1>7

LEMMA LapseKeeps ==
  ASSUME IInv, NEW k \in Key, LeaseEnds(k), TypeOK'
  PROVE  IInv'
  <1> USE DEF IInv
  <1>0. /\ proc' = proc /\ saved' = saved /\ disturbed' = disturbed \cup {k}
        /\ ledger'[k].state = ledger[k].state /\ ledger'[k].state = "pending"
        /\ \A j \in Key \ {k} : ledger'[j] = ledger[j]
    BY DEF LeaseEnds, TypeOK, Ledger!Row, Ledger!Lapse
  <1>1. RequestsWellFormed'
    BY <1>0 DEF RequestsWellFormed
  <1>2. LapsedIsDisturbed' /\ CompletedIsSaved'
    BY <1>0 DEF LapsedIsDisturbed, CompletedIsSaved
  <1>3. Undisturbed'
    BY <1>0 DEF Undisturbed, Excl, SavedTakesKey, Unique, Compatible
  <1> QED
    BY <1>1, <1>2, <1>3

-----------------------------------------------------------------------------
LEMMA InitInv == Init => IInv
  <1> SUFFICES ASSUME Init PROVE IInv
    OBVIOUS
  <1>1. TypeOK
    BY InitType
  <1>2. /\ \A p \in Process : proc[p].phase = "idle"
        /\ \A k \in Key : ledger[k].state = "absent" /\ ledger[k].lapsed = FALSE
        /\ saved = {}
    BY DEF Init, Idle, Ledger!Absent
  <1> QED
    BY <1>1, <1>2 DEF IInv, RequestsWellFormed, LapsedIsDisturbed, CompletedIsSaved,
                      Undisturbed, Excl, SavedTakesKey, Unique, Compatible

LEMMA InvStep == IInv /\ [Next]_vars => IInv'
  <1> SUFFICES ASSUME IInv, [Next]_vars PROVE IInv'
    OBVIOUS
  <1>0. TypeOK' /\ TypeOK /\ RequestsWellFormed
    BY TypeStep DEF IInv
  <1>1. ASSUME NEW p \in Process,
               \/ \E k \in Key, e \in Exception : BeginReplay(p, k, e) \/ BeginCached(p, k, e)
               \/ ReadBack(p) \/ Raise(p) \/ Crash(p)
        PROVE IInv'
    <2>1. EndsRequest(p)
      BY <1>0, <1>1, EndingSteps
    <2> QED
      BY <1>0, <2>1, EndingKeeps
  <1>2. ASSUME NEW p \in Process, NEW k \in Key, NEW e \in Exception, Begin(p, k, e)
        PROVE IInv'
    BY <1>0, <1>2, BeginKeeps
  <1>3. ASSUME NEW p \in Process,
               \/ Reserve(p) \/ ReserveLost(p) \/ ReadBackNothing(p) \/ Investigate(p)
               \/ Save(p) \/ SaveFails(p) \/ ReleaseLease(p) \/ CompleteKey(p)
        PROVE IInv'
    BY <1>0, <1>3, ReserveKeeps, LostKeeps, InvestigateKeeps, SaveKeeps, SaveFailsKeeps,
       ReleaseKeeps, CompleteKeeps
  <1>4. ASSUME NEW k \in Key, LeaseEnds(k) PROVE IInv'
    BY <1>0, <1>4, LapseKeeps
  <1>5. CASE UNCHANGED vars
    BY <1>0, <1>5 DEF vars, IInv, RequestsWellFormed, LapsedIsDisturbed, CompletedIsSaved,
                      Undisturbed, Excl, SavedTakesKey, Unique, Compatible
  <1> QED
    BY <1>1, <1>2, <1>3, <1>4, <1>5 DEF Next

LEMMA Invariance == Spec => []IInv
  BY InitInv, InvStep, PTL DEF Spec

(* Every reachable state is well typed: InvestigationService.start never   *)
(* stores something else than a response under a key or in its memory.     *)
THEOREM TypeCorrect == Spec => []TypeOK
  <1>1. IInv => TypeOK
    BY DEF IInv
  <1> QED
    BY <1>1, Invariance, PTL

(* The reservation of an undisturbed key excludes other processes.         *)
THEOREM LeaseExclusion == Spec => []LeaseExcludes
  <1>1. IInv => LeaseExcludes
    BY DEF IInv, Undisturbed, Excl, LeaseExcludes, Working
  <1> QED
    BY <1>1, Invariance, PTL

(* An undisturbed key pays for at most one saved investigation.            *)
THEOREM SingleInvestigation == Spec => []OneInvestigationPerKey
  <1>1. IInv => OneInvestigationPerKey
    BY DEF IInv, Undisturbed, Unique, OneInvestigationPerKey
  <1> QED
    BY <1>1, Invariance, PTL

(* An undisturbed key replays a response to the request it was used for.   *)
THEOREM ReplayCompatibility == Spec => []ReplayCompatible
  <1>1. IInv => ReplayCompatible
    BY DEF IInv, Undisturbed, Compatible, ReplayCompatible
  <1> QED
    BY <1>1, Invariance, PTL

(* Whatever lapses or crashes, a completed key replays a saved response.   *)
THEOREM CompletionAfterSave == Spec => []CompletedIsSaved
  <1>1. IInv => CompletedIsSaved
    BY DEF IInv
  <1> QED
    BY <1>1, Invariance, PTL

(* Whatever lapses or crashes, a completed key is final: each statement    *)
(* that rewrites or deletes a row only finds pending ones.                 *)
THEOREM CompletionIsFinal == Spec => CompletedIsFinal
  <1>1. ASSUME IInv, [Next]_vars, NEW k \in Key, ledger[k].state = "done"
        PROVE  ledger'[k] = ledger[k]
    <2> USE DEF IInv
    <2>1. ASSUME NEW p \in Process, Reserve(p) PROVE ledger'[k] = ledger[k]
      BY <1>1, <2>1 DEF Reserve, Ledger!Reservable, RequestsWellFormed, TypeOK
    <2>2. ASSUME NEW p \in Process, ReleaseLease(p) PROVE ledger'[k] = ledger[k]
      BY <1>1, <2>2 DEF ReleaseLease, Ledger!Release, RequestsWellFormed, TypeOK
    <2>3. ASSUME NEW p \in Process, CompleteKey(p) PROVE ledger'[k] = ledger[k]
      BY <1>1, <2>3 DEF CompleteKey, Ledger!Complete, RequestsWellFormed, TypeOK
    <2>4. ASSUME NEW j \in Key, LeaseEnds(j) PROVE ledger'[k] = ledger[k]
      BY <1>1, <2>4 DEF LeaseEnds, TypeOK
    <2> QED
      BY <1>1, <2>1, <2>2, <2>3, <2>4
         DEF Next, vars, BeginReplay, BeginCached, Begin, ReserveLost, ReadBack,
             ReadBackNothing, Investigate, Save, SaveFails, Raise, Crash
  <1>2. IInv /\ [Next]_vars
          => [\A k \in Key : ledger[k].state = "done" => ledger'[k] = ledger[k]]_vars
    BY <1>1
  <1> QED
    BY <1>2, Invariance, PTL DEF Spec, CompletedIsFinal
=============================================================================
