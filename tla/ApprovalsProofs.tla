--------------------------- MODULE ApprovalsProofs ---------------------------
(***************************************************************************)
(* Proofs about Approvals for any number of processes, keys, requests and  *)
(* exceptions, and any finite set of actors.                               *)
(***************************************************************************)
EXTENDS Approvals, FiniteSetTheorems, TLAPS

(* What a call carries in each phase.                                      *)
CreationSound(p) ==
  proc[p].phase \in {"reserving", "readback", "saving", "releasing", "completing"}
    => /\ proc[p].key \in Key
       /\ proc[p].actor \in Actor
       /\ \E e \in Exception, act \in Action : proc[p].hash = RequestHash(e, act)
       /\ proc[p].response \in Response
       /\ proc[p].response.decision = None
       /\ proc[p].response.actor = proc[p].actor

(* A request id is drawn by one call, and is free until that call saves it *)
FreshIds ==
  \A p \in Process :
    proc[p].phase \in {"reserving", "readback", "saving"}
      => /\ requests[proc[p].response.request] = NoRequest
         /\ \A q \in Process :
              /\ proc[q].phase \in {"reserving", "readback", "saving"}
              /\ proc[q].response.request = proc[p].response.request
              => q = p

SavedByCall(p) ==
  proc[p].phase = "completing"
    => LET q == requests[proc[p].response.request] IN
       q.key = proc[p].key /\ q.requester = proc[p].actor

DecisionSound(p) ==
  proc[p].phase = "applying"
    => /\ proc[p].key \in Key
       /\ proc[p].actor \in Actor
       /\ \E r \in Request, d \in Decision :
            /\ proc[p].hash = ApprovalHash(r, d)
            /\ requests[r] # NoRequest
            /\ Authorized(proc[p].actor, r)

AppliedSound(p) ==
  proc[p].phase = "putting"
    => LET x == proc[p].response IN
       /\ proc[p].key \in Key
       /\ x \in Response /\ x.decision \in Decision
       /\ proc[p].hash = ApprovalHash(x.request, x.decision)
       /\ decisions[x.request][x.actor] = x.decision

CallsSound ==
  \A p \in Process :
    /\ CreationSound(p) /\ SavedByCall(p) /\ DecisionSound(p) /\ AppliedSound(p)
    /\ proc[p].phase = "auditing" => proc[p].response \in Response

(* What the tables say of a request.                                       *)
NotOpened(r) == requests[r] = NoRequest /\ \A a \in Actor : decisions[r][a] = None

OpenedSound(r) ==
  LET q == requests[r] IN
  /\ q.status \in Status
  /\ q.exception \in Exception /\ q.requester \in Actor /\ q.key \in Key
  /\ q.capability = ApprovalPlan(q.exception).capability
  /\ q.required = ApprovalPlan(q.exception).required
  /\ q.received = Cardinality(Approvers(r))
  /\ q.status = "APPROVED" => q.received = q.required /\ Rejecters(r) = {}
  /\ q.status # "APPROVED" => q.received < q.required
  /\ q.status = "PENDING_APPROVAL" => Rejecters(r) = {}
  /\ q.status = "REJECTED" => \E a \in Actor : Rejecters(r) = {a}
  /\ \A a \in Approvers(r) \cup Rejecters(r) :
       a # q.requester /\ q.capability \in Capabilities(a)

RequestsSound == \A r \in Request : NotOpened(r) \/ OpenedSound(r)

(* An undisturbed key is reserved for one creation at a time, and a        *)
(* request once saved takes it for good.                                   *)
Reserved(k) ==
  \A p \in Process :
    proc[p].key = k /\ proc[p].phase \in {"saving", "releasing", "completing"}
      => /\ ledger[k].state = "pending"
         /\ \A q \in Process :
              /\ proc[q].key = k
              /\ proc[q].phase \in {"saving", "releasing", "completing"}
              => q = p

Taken(k) ==
  \A r \in Request :
    requests[r].key = k
      => /\ ledger[k].state # "absent"
         /\ \A p \in Process :
              proc[p].key = k => proc[p].phase \notin {"saving", "releasing"}
         /\ \A s \in Request : requests[s].key = k => s = r

Recorded(k) ==
  ledger[k].state = "done"
    => LET x == ledger[k].body IN
       /\ x \in Response
       /\ x.decision = None =>
            requests[x.request].key = k /\ requests[x.request].requester = x.actor
       /\ x.decision # None =>
            /\ ledger[k].hash = ApprovalHash(x.request, x.decision)
            /\ decisions[x.request][x.actor] = x.decision

KeysSound ==
  /\ \A k \in Key \ disturbed : ~ ledger[k].lapsed /\ Reserved(k) /\ Taken(k)
  /\ \A k \in Key : Recorded(k)

IInv == TypeOK /\ CallsSound /\ FreshIds /\ RequestsSound /\ KeysSound

-----------------------------------------------------------------------------
(* The statements of the ledger keep a row a row.                          *)
LEMMA RowTypes ==
  /\ Ledger!Absent \in Ledger!Row
  /\ \A h \in Hash : Ledger!Pending(h) \in Ledger!Row
  /\ \A row \in Ledger!Row, b \in Response : Ledger!Complete(row, b) \in Ledger!Row
  /\ \A row \in Ledger!Row, h \in Hash, b \in Response : Ledger!Put(row, h, b) \in Ledger!Row
  /\ \A row \in Ledger!Row : Ledger!Release(row) \in Ledger!Row
  /\ \A row \in Ledger!Row : Ledger!Lapse(row) \in Ledger!Row
  BY DEF Ledger!Row, Ledger!Absent, Ledger!Pending, Ledger!Done, Ledger!Complete,
         Ledger!Put, Ledger!Release, Ledger!Lapse

LEMMA HashTypes ==
  /\ \A e \in Exception, act \in Action : RequestHash(e, act) \in Hash
  /\ \A r \in Request, d \in Decision : ApprovalHash(r, d) \in Hash
  BY DEF Hash, RequestHash, ApprovalHash

LEMMA IdleType == Idle \in Call /\ Idle.phase = "idle"
  BY DEF Idle, Call, Phase

LEMMA NoRequestType ==
  NoRequest \in RequestRow /\ NoRequest.status = "unopened" /\ NoRequest.key = None
  BY DEF NoRequest, RequestRow

LEMMA PlanType ==
  \A e \in Exception : /\ ApprovalPlan(e).capability \in {Low, High}
                       /\ ApprovalPlan(e).required \in 1 .. 2
  BY DEF ApprovalPlan, Plan

(* Entering a phase changes nothing else of any call.                      *)
Others(p) == \A q \in Process \ {p} : proc'[q] = proc[q]

LEMMA EnterEffect ==
  ASSUME NEW p \in Process, NEW phase \in Phase,
         proc \in [Process -> Call], Enter(p, phase)
  PROVE  /\ proc' \in [Process -> Call]
         /\ proc'[p].phase = phase
         /\ proc'[p].key = proc[p].key
         /\ proc'[p].hash = proc[p].hash
         /\ proc'[p].actor = proc[p].actor
         /\ proc'[p].response = proc[p].response
         /\ Others(p)
  BY DEF Enter, Call, Others

LEMMA ReturnEffect ==
  ASSUME NEW p \in Process, proc \in [Process -> Call], Return(p)
  PROVE  proc' \in [Process -> Call] /\ proc'[p].phase = "idle" /\ Others(p)
  BY IdleType DEF Return, Others

LEMMA InitInv == Init => IInv
  <1> SUFFICES ASSUME Init PROVE IInv
    OBVIOUS
  <1>1. TypeOK
    BY IdleType, NoRequestType, RowTypes DEF Init, TypeOK
  <1>2. \A p \in Process : proc[p].phase = "idle"
    BY IdleType DEF Init
  <1>3. CallsSound /\ FreshIds
    BY <1>2 DEF CallsSound, CreationSound, SavedByCall, DecisionSound, AppliedSound, FreshIds
  <1>4. RequestsSound
    BY DEF Init, RequestsSound, NotOpened
  <1>5. \A k \in Key : ledger[k].state = "absent" /\ ~ ledger[k].lapsed
    BY DEF Init, Ledger!Absent
  <1>6. \A r \in Request, k \in Key : requests[r].key # k
    BY NoRequestType, ApprovalsAssumption DEF Init
  <1>7. KeysSound
    BY <1>2, <1>5, <1>6 DEF KeysSound, Reserved, Taken, Recorded
  <1> QED
    BY <1>1, <1>3, <1>4, <1>7 DEF IInv

-----------------------------------------------------------------------------
(* Steps that give a call up, or end it, and touch no table the invariant  *)
(* speaks of.                                                              *)
EndsCall(p) ==
  /\ proc' \in [Process -> Call]
  /\ proc'[p].phase = "idle" /\ Others(p)
  /\ requests' = requests /\ decisions' = decisions /\ ledger' = ledger
  /\ audit' \subseteq Event /\ disturbed' = disturbed

LEMMA EventTypes ==
  \A x \in Response : [action |-> EventOf(x.decision), request |-> x.request,
                       actor |-> x.actor] \in Event
  BY DEF Response, EventOf, Event

LEMMA EndingSteps ==
  ASSUME IInv, NEW p \in Process,
         ReadBack(p) \/ ApplyRefused(p) \/ RecordAudit(p) \/ Abort(p)
  PROVE  EndsCall(p)
  <1> USE DEF IInv, TypeOK, EndsCall
  <1>1. /\ Return(p) /\ requests' = requests /\ decisions' = decisions
        /\ ledger' = ledger /\ disturbed' = disturbed
    BY DEF ReadBack, ApplyRefused, RecordAudit, Abort
  <1>2. audit' \subseteq Event
    <2>1. CASE RecordAudit(p)
      BY <2>1, EventTypes DEF RecordAudit, CallsSound
    <2> QED
      BY <2>1 DEF ReadBack, ApplyRefused, Abort
  <1> QED
    BY <1>1, <1>2, ReturnEffect

LEMMA EndingKeeps ==
  ASSUME IInv, NEW p \in Process, EndsCall(p)
  PROVE  IInv'
  <1> USE DEF IInv, EndsCall
  <1>1. TypeOK'
    BY DEF TypeOK
  <1>2. \A q \in Process : q # p => proc'[q] = proc[q]
    BY DEF Others
  <1>3. CallsSound'
    BY <1>2 DEF CallsSound, CreationSound, SavedByCall, DecisionSound, AppliedSound, Authorized
  <1>4. FreshIds'
    BY <1>2 DEF FreshIds
  <1>5. RequestsSound'
    BY DEF RequestsSound, NotOpened, OpenedSound, Approvers, Rejecters
  <1>6. KeysSound'
    BY <1>2 DEF KeysSound, Reserved, Taken, Recorded
  <1> QED
    BY <1>1, <1>3, <1>4, <1>5, <1>6

(* A call that begins has touched nothing yet.                             *)
LEMMA RequestResolutionKeeps ==
  ASSUME IInv, NEW p \in Process, NEW a \in Actor, NEW k \in Key, NEW e \in Exception,
         NEW act \in Action, NEW r \in Request, RequestResolution(p, a, k, e, act, r)
  PROVE  IInv'
  <1> DEFINE x == [request |-> r, actor |-> a, decision |-> None,
                   status |-> "PENDING_APPROVAL", received |-> 0]
  <1> DEFINE c == [phase |-> "reserving", key |-> k, hash |-> RequestHash(e, act),
                   actor |-> a, response |-> x]
  <1> USE DEF IInv
  <1>1. x \in Response
    BY DEF Response, Status
  <1>2. c \in Call
    BY <1>1, HashTypes DEF Call, Phase
  <1>3. /\ proc' = [proc EXCEPT ![p] = c]
        /\ requests' = requests /\ decisions' = decisions /\ ledger' = ledger
        /\ audit' = audit /\ disturbed' = disturbed
        /\ requests[r] = NoRequest
        /\ \A q \in Process : proc[q].response # None => proc[q].response.request # r
    BY DEF RequestResolution
  <1>4. proc'[p] = c /\ \A q \in Process : q # p => proc'[q] = proc[q]
    BY <1>3 DEF TypeOK
  <1>5. TypeOK'
    BY <1>2, <1>3 DEF TypeOK
  <1>6. CallsSound'
    BY <1>1, <1>3, <1>4
       DEF CallsSound, CreationSound, SavedByCall, DecisionSound, AppliedSound, Authorized
  <1>7. \A q \in Process : proc[q].phase \in {"reserving", "readback", "saving"}
                             => proc[q].response.request # r
    BY <1>3, ApprovalsAssumption DEF CallsSound, CreationSound
  <1>8. FreshIds'
    BY <1>3, <1>4, <1>7 DEF FreshIds
  <1>9. RequestsSound'
    BY <1>3, ZenonT(60) DEF RequestsSound, NotOpened, OpenedSound, Approvers, Rejecters
  <1>10. KeysSound'
    BY <1>3, <1>4 DEF KeysSound, Reserved, Taken, Recorded
  <1> QED
    BY <1>5, <1>6, <1>8, <1>9, <1>10

LEMMA DecideKeeps ==
  ASSUME IInv, NEW p \in Process, NEW a \in Actor, NEW k \in Key, NEW r \in Request,
         NEW d \in Decision, Decide(p, a, k, r, d)
  PROVE  IInv'
  <1> DEFINE c == [phase |-> "applying", key |-> k, hash |-> ApprovalHash(r, d),
                   actor |-> a, response |-> None]
  <1> USE DEF IInv
  <1>1. c \in Call
    BY HashTypes DEF Call, Phase
  <1>2. /\ proc' = [proc EXCEPT ![p] = c]
        /\ requests' = requests /\ decisions' = decisions /\ ledger' = ledger
        /\ audit' = audit /\ disturbed' = disturbed
        /\ requests[r] # NoRequest /\ Authorized(a, r)
    BY DEF Decide
  <1>3. proc'[p] = c /\ \A q \in Process : q # p => proc'[q] = proc[q]
    BY <1>2 DEF TypeOK
  <1>4. TypeOK'
    BY <1>1, <1>2 DEF TypeOK
  <1>5. CallsSound'
    BY <1>2, <1>3
       DEF CallsSound, CreationSound, SavedByCall, DecisionSound, AppliedSound, Authorized
  <1>6. FreshIds'
    BY <1>2, <1>3 DEF FreshIds
  <1>7. RequestsSound'
    BY <1>2, ZenonT(60) DEF RequestsSound, NotOpened, OpenedSound, Approvers, Rejecters
  <1>8. KeysSound'
    BY <1>2, <1>3 DEF KeysSound, Reserved, Taken, Recorded
  <1> QED
    BY <1>4, <1>5, <1>6, <1>7, <1>8

-----------------------------------------------------------------------------
(* A reservation of an undisturbed key meets an absent row: nobody works    *)
(* for the key, and no request was opened under it.                        *)
LEMMA ReserveKeeps ==
  ASSUME IInv, NEW p \in Process, Reserve(p)
  PROVE  IInv'
  <1> DEFINE k == proc[p].key
  <1> USE DEF IInv
  <1>1. /\ k \in Key /\ proc[p].phase = "reserving" /\ proc[p].hash \in Hash
        /\ Enter(p, "saving") /\ "saving" \in Phase
        /\ ledger' = [ledger EXCEPT ![k] = Ledger!Pending(proc[p].hash)]
        /\ requests' = requests /\ decisions' = decisions
        /\ audit' = audit /\ disturbed' = disturbed
    BY HashTypes DEF Reserve, CallsSound, CreationSound, Phase
  <1>2. /\ proc' \in [Process -> Call]
        /\ proc'[p].phase = "saving" /\ proc'[p].key = k
        /\ proc'[p].hash = proc[p].hash /\ proc'[p].actor = proc[p].actor
        /\ proc'[p].response = proc[p].response
        /\ \A q \in Process : q # p => proc'[q] = proc[q]
    BY <1>1, EnterEffect DEF TypeOK, Others
  <1>3. /\ ledger'[k].state = "pending" /\ ~ ledger'[k].lapsed
        /\ \A j \in Key : j # k => ledger'[j] = ledger[j]
    BY <1>1 DEF TypeOK, Ledger!Pending
  <1>4. k \notin disturbed => ledger[k].state = "absent"
    BY <1>1 DEF Reserve, KeysSound, Ledger!Reservable
  <1>5. TypeOK'
    BY <1>1, <1>2, RowTypes DEF TypeOK
  <1>6. CallsSound'
    BY <1>1, <1>2
       DEF CallsSound, CreationSound, SavedByCall, DecisionSound, AppliedSound, Authorized
  <1>7. FreshIds'
    BY <1>1, <1>2 DEF FreshIds
  <1>8. RequestsSound'
    BY <1>1, ZenonT(60) DEF RequestsSound, NotOpened, OpenedSound, Approvers, Rejecters
  <1>9. ASSUME NEW j \in Key \ disturbed
        PROVE  ~ ledger'[j].lapsed /\ Reserved(j)' /\ Taken(j)'
    BY <1>1, <1>2, <1>3, <1>4 DEF KeysSound, Reserved, Taken
  <1>10. ASSUME NEW j \in Key PROVE Recorded(j)'
    BY <1>1, <1>3 DEF KeysSound, Recorded
  <1>11. KeysSound'
    BY <1>1, <1>9, <1>10 DEF KeysSound
  <1> QED
    BY <1>5, <1>6, <1>7, <1>8, <1>11

(* Losing the race, like entering any phase that owns nothing.             *)
LEMMA ReserveLostKeeps ==
  ASSUME IInv, NEW p \in Process, ReserveLost(p)
  PROVE  IInv'
  <1> USE DEF IInv
  <1>1. /\ proc[p].phase = "reserving" /\ Enter(p, "readback") /\ "readback" \in Phase
        /\ ledger' = ledger /\ requests' = requests /\ decisions' = decisions
        /\ audit' = audit /\ disturbed' = disturbed
    BY DEF ReserveLost, Phase
  <1>2. /\ proc' \in [Process -> Call]
        /\ proc'[p].phase = "readback" /\ proc'[p].key = proc[p].key
        /\ proc'[p].hash = proc[p].hash /\ proc'[p].actor = proc[p].actor
        /\ proc'[p].response = proc[p].response
        /\ \A q \in Process : q # p => proc'[q] = proc[q]
    BY <1>1, EnterEffect DEF TypeOK, Others
  <1>3. TypeOK'
    BY <1>1, <1>2 DEF TypeOK
  <1>4. CallsSound'
    BY <1>1, <1>2
       DEF CallsSound, CreationSound, SavedByCall, DecisionSound, AppliedSound, Authorized
  <1>5. FreshIds'
    BY <1>1, <1>2 DEF FreshIds
  <1>6. RequestsSound'
    BY <1>1 DEF RequestsSound, NotOpened, OpenedSound, Approvers, Rejecters
  <1>7. KeysSound'
    BY <1>1, <1>2 DEF KeysSound, Reserved, Taken, Recorded
  <1> QED
    BY <1>3, <1>4, <1>5, <1>6, <1>7

(* A call that takes a vanished row for its reservation disturbs its key.  *)
LEMMA ReadBackNothingKeeps ==
  ASSUME IInv, NEW p \in Process, ReadBackNothing(p)
  PROVE  IInv'
  <1> DEFINE k == proc[p].key
  <1> USE DEF IInv
  <1>1. /\ k \in Key /\ proc[p].phase = "readback" /\ Enter(p, "saving") /\ "saving" \in Phase
        /\ ledger' = ledger /\ requests' = requests /\ decisions' = decisions
        /\ audit' = audit /\ disturbed' = disturbed \cup {k}
    BY DEF ReadBackNothing, CallsSound, CreationSound, Phase
  <1>2. /\ proc' \in [Process -> Call]
        /\ proc'[p].phase = "saving" /\ proc'[p].key = k
        /\ proc'[p].hash = proc[p].hash /\ proc'[p].actor = proc[p].actor
        /\ proc'[p].response = proc[p].response
        /\ \A q \in Process : q # p => proc'[q] = proc[q]
    BY <1>1, EnterEffect DEF TypeOK, Others
  <1>3. TypeOK'
    BY <1>1, <1>2 DEF TypeOK
  <1>4. CallsSound'
    BY <1>1, <1>2
       DEF CallsSound, CreationSound, SavedByCall, DecisionSound, AppliedSound, Authorized
  <1>5. FreshIds'
    BY <1>1, <1>2 DEF FreshIds
  <1>6. RequestsSound'
    BY <1>1 DEF RequestsSound, NotOpened, OpenedSound, Approvers, Rejecters
  <1>7. KeysSound'
    BY <1>1, <1>2 DEF KeysSound, Reserved, Taken, Recorded
  <1> QED
    BY <1>3, <1>4, <1>5, <1>6, <1>7

(* So does time, when it ends the lease of a pending row.                  *)
LEMMA LeaseEndsKeeps ==
  ASSUME IInv, NEW k \in Key, LeaseEnds(k)
  PROVE  IInv'
  <1> USE DEF IInv
  <1>1. /\ proc' = proc /\ requests' = requests /\ decisions' = decisions
        /\ audit' = audit /\ disturbed' = disturbed \cup {k}
        /\ ledger[k].state = "pending"
        /\ ledger' = [ledger EXCEPT ![k] = Ledger!Lapse(ledger[k])]
    BY DEF LeaseEnds
  <1>2. /\ ledger' \in [Key -> Ledger!Row] /\ ledger'[k].state = "pending"
        /\ \A j \in Key : j # k => ledger'[j] = ledger[j]
    BY <1>1, RowTypes DEF TypeOK, Ledger!Lapse, Ledger!Row
  <1>3. TypeOK'
    BY <1>1, <1>2 DEF TypeOK
  <1>4. CallsSound' /\ FreshIds'
    BY <1>1 DEF CallsSound, CreationSound, SavedByCall, DecisionSound, AppliedSound,
                Authorized, FreshIds
  <1>5. RequestsSound'
    BY <1>1, ZenonT(60) DEF RequestsSound, NotOpened, OpenedSound, Approvers, Rejecters
  <1>6. KeysSound'
    BY <1>1, <1>2 DEF KeysSound, Reserved, Taken, Recorded
  <1> QED
    BY <1>3, <1>4, <1>5, <1>6

LEMMA SaveFailsKeeps ==
  ASSUME IInv, NEW p \in Process, SaveRequestFails(p)
  PROVE  IInv'
  <1> DEFINE k == proc[p].key
  <1> USE DEF IInv
  <1>1. /\ k \in Key /\ proc[p].phase = "saving"
        /\ Enter(p, "releasing") /\ "releasing" \in Phase
        /\ ledger' = ledger
        /\ requests' = requests /\ decisions' = decisions
        /\ audit' = audit /\ disturbed' = disturbed
    BY DEF SaveRequestFails, CallsSound, CreationSound, Phase
  <1>2. /\ proc' \in [Process -> Call]
        /\ proc'[p].phase = "releasing" /\ proc'[p].key = k
        /\ proc'[p].hash = proc[p].hash /\ proc'[p].actor = proc[p].actor
        /\ proc'[p].response = proc[p].response
        /\ \A q \in Process : q # p => proc'[q] = proc[q]
    BY <1>1, EnterEffect DEF TypeOK, Others
  <1>3. TypeOK'
    BY <1>1, <1>2 DEF TypeOK
  <1>4. CallsSound'
    BY <1>1, <1>2
       DEF CallsSound, CreationSound, SavedByCall, DecisionSound, AppliedSound, Authorized
  <1>5. FreshIds'
    BY <1>1, <1>2 DEF FreshIds
  <1>6. RequestsSound'
    BY <1>1 DEF RequestsSound, NotOpened, OpenedSound, Approvers, Rejecters
  <1>7. KeysSound'
    BY <1>1, <1>2 DEF KeysSound, Reserved, Taken, Recorded
  <1> QED
    BY <1>3, <1>4, <1>5, <1>6, <1>7

(* What a completed key replays stays on record while its row does.        *)
LEMMA RecordedKept ==
  ASSUME NEW j \in Key, Recorded(j), ledger'[j] = ledger[j],
         requests' = requests, decisions' = decisions
  PROVE  Recorded(j)'
  BY DEF Recorded

(* Only a call whose request was not saved releases an undisturbed key.    *)
LEMMA ReleaseKeeps ==
  ASSUME IInv, NEW p \in Process, ReleaseLease(p)
  PROVE  IInv'
  <1> DEFINE k == proc[p].key
  <1> USE DEF IInv
  <1>1. /\ k \in Key /\ proc[p].phase = "releasing" /\ Return(p)
        /\ ledger' = [ledger EXCEPT ![k] = Ledger!Release(ledger[k])]
        /\ requests' = requests /\ decisions' = decisions
        /\ audit' = audit /\ disturbed' = disturbed
    BY DEF ReleaseLease, CallsSound, CreationSound
  <1>2. /\ proc' \in [Process -> Call] /\ proc'[p].phase = "idle"
        /\ \A q \in Process : q # p => proc'[q] = proc[q]
    BY <1>1, ReturnEffect DEF TypeOK, Others
  <1>3. k \notin disturbed => ledger[k].state = "pending"
    BY <1>1 DEF KeysSound, Reserved
  <1>4. /\ ledger[k].state = "pending" => ledger'[k].state = "absent" /\ ~ ledger'[k].lapsed
        /\ ledger[k].state # "pending" => ledger'[k] = ledger[k]
        /\ \A j \in Key : j # k => ledger'[j] = ledger[j]
    BY <1>1 DEF TypeOK, Ledger!Release, Ledger!Absent
  <1>5. TypeOK'
    BY <1>1, <1>2, RowTypes DEF TypeOK
  <1>6. CallsSound'
    BY <1>1, <1>2
       DEF CallsSound, CreationSound, SavedByCall, DecisionSound, AppliedSound, Authorized
  <1>7. FreshIds'
    BY <1>1, <1>2 DEF FreshIds
  <1>8. RequestsSound'
    BY <1>1, ZenonT(60) DEF RequestsSound, NotOpened, OpenedSound, Approvers, Rejecters
  <1>9. ASSUME NEW j \in Key \ disturbed
        PROVE  ~ ledger'[j].lapsed /\ Reserved(j)' /\ Taken(j)'
    BY <1>1, <1>2, <1>3, <1>4 DEF KeysSound, Reserved, Taken
  <1>10. ASSUME NEW j \in Key PROVE Recorded(j)'
    <2>1. CASE j = k /\ ledger[k].state = "pending"
      BY <2>1, <1>4 DEF Recorded
    <2>2. CASE ~ (j = k /\ ledger[k].state = "pending")
      BY <2>2, <1>1, <1>4, RecordedKept DEF KeysSound
    <2> QED
      BY <2>1, <2>2
  <1>11. KeysSound'
    BY <1>1, <1>9, <1>10 DEF KeysSound
  <1> QED
    BY <1>5, <1>6, <1>7, <1>8, <1>11

(* Completion replaces a pending row by the request saved under it.        *)
LEMMA CompleteKeeps ==
  ASSUME IInv, NEW p \in Process, CompleteRequest(p)
  PROVE  IInv'
  <1> DEFINE k == proc[p].key
  <1> DEFINE x == proc[p].response
  <1> USE DEF IInv
  <1>1. /\ k \in Key /\ proc[p].phase = "completing"
        /\ Enter(p, "auditing") /\ "auditing" \in Phase
        /\ ledger' = [ledger EXCEPT ![k] = Ledger!Complete(ledger[k], x)]
        /\ requests' = requests /\ decisions' = decisions
        /\ audit' = audit /\ disturbed' = disturbed
        /\ x \in Response /\ x.decision = None
        /\ requests[x.request].key = k /\ requests[x.request].requester = x.actor
    BY DEF CompleteRequest, CallsSound, CreationSound, SavedByCall, Phase
  <1>2. /\ proc' \in [Process -> Call]
        /\ proc'[p].phase = "auditing" /\ proc'[p].key = k
        /\ proc'[p].response = x
        /\ \A q \in Process : q # p => proc'[q] = proc[q]
    BY <1>1, EnterEffect DEF TypeOK, Others
  <1>3. k \notin disturbed => ledger[k].state = "pending"
    BY <1>1 DEF KeysSound, Reserved
  <1>4. /\ ledger[k].state = "pending"
             => ledger'[k].state = "done" /\ ledger'[k].body = x /\ ~ ledger'[k].lapsed
        /\ ledger[k].state # "pending" => ledger'[k] = ledger[k]
        /\ \A j \in Key : j # k => ledger'[j] = ledger[j]
    BY <1>1 DEF TypeOK, Ledger!Complete, Ledger!Done
  <1>5. TypeOK'
    BY <1>1, <1>2, RowTypes DEF TypeOK
  <1>6. CallsSound'
    BY <1>1, <1>2
       DEF CallsSound, CreationSound, SavedByCall, DecisionSound, AppliedSound, Authorized
  <1>7. FreshIds'
    BY <1>1, <1>2 DEF FreshIds
  <1>8. RequestsSound'
    BY <1>1, ZenonT(60) DEF RequestsSound, NotOpened, OpenedSound, Approvers, Rejecters
  <1>9. ASSUME NEW j \in Key \ disturbed
        PROVE  ~ ledger'[j].lapsed /\ Reserved(j)' /\ Taken(j)'
    BY <1>1, <1>2, <1>3, <1>4 DEF KeysSound, Reserved, Taken
  <1>10. ASSUME NEW j \in Key PROVE Recorded(j)'
    <2>1. CASE j = k /\ ledger[k].state = "pending"
      <3>1. ledger'[j].body = x
        BY <2>1, <1>4
      <3> QED
        BY <2>1, <3>1, <1>1 DEF Recorded
    <2>2. CASE ~ (j = k /\ ledger[k].state = "pending")
      BY <2>2, <1>1, <1>4, RecordedKept DEF KeysSound
    <2> QED
      BY <2>1, <2>2
  <1>11. KeysSound'
    BY <1>1, <1>9, <1>10 DEF KeysSound
  <1> QED
    BY <1>5, <1>6, <1>7, <1>8, <1>11

(* put_idempotency only fills an absent row, so it disturbs no reservation. *)
LEMMA PutKeeps ==
  ASSUME IInv, NEW p \in Process, PutKey(p)
  PROVE  IInv'
  <1> DEFINE k == proc[p].key
  <1> DEFINE x == proc[p].response
  <1> USE DEF IInv
  <1>1. /\ k \in Key /\ proc[p].phase = "putting"
        /\ Enter(p, "auditing") /\ "auditing" \in Phase
        /\ ledger' = [ledger EXCEPT ![k] = Ledger!Put(ledger[k], proc[p].hash, x)]
        /\ requests' = requests /\ decisions' = decisions
        /\ audit' = audit /\ disturbed' = disturbed
        /\ x \in Response /\ x.decision \in Decision
        /\ proc[p].hash = ApprovalHash(x.request, x.decision)
        /\ decisions[x.request][x.actor] = x.decision
    BY DEF PutKey, CallsSound, AppliedSound, Phase
  <1>2. /\ proc' \in [Process -> Call]
        /\ proc'[p].phase = "auditing" /\ proc'[p].key = k
        /\ proc'[p].response = x
        /\ \A q \in Process : q # p => proc'[q] = proc[q]
    BY <1>1, EnterEffect DEF TypeOK, Others
  <1>3. /\ \A j \in Key : j # k => ledger'[j] = ledger[j]
        /\ ledger[k].state # "absent" => ledger'[k] = ledger[k]
        /\ ledger[k].state = "absent"
             => /\ ledger'[k].state = "done" /\ ~ ledger'[k].lapsed
                /\ ledger'[k].body = x /\ ledger'[k].hash = proc[p].hash
    BY <1>1 DEF TypeOK, Ledger!Put, Ledger!Done
  <1>4. proc[p].hash \in Hash
    BY <1>1, HashTypes DEF Response
  <1>5. TypeOK'
    BY <1>1, <1>2, <1>4, RowTypes DEF TypeOK
  <1>6. CallsSound'
    BY <1>1, <1>2, SMTT(30)
       DEF CallsSound, CreationSound, SavedByCall, DecisionSound, AppliedSound, Authorized
  <1>7. FreshIds'
    BY <1>1, <1>2 DEF FreshIds
  <1>8. RequestsSound'
    BY <1>1, ZenonT(60) DEF RequestsSound, NotOpened, OpenedSound, Approvers, Rejecters
  <1>9. None \notin Decision
    BY ApprovalsAssumption
  <1>10. ASSUME NEW j \in Key \ disturbed
         PROVE  ~ ledger'[j].lapsed /\ Reserved(j)' /\ Taken(j)'
    <2>1. Reserved(j) /\ Taken(j) /\ ~ ledger[j].lapsed
      BY <1>1 DEF KeysSound
    <2>2. ledger[j].state # "absent" => ledger'[j] = ledger[j]
      BY <1>3
    <2>3. \A q \in Process :
            /\ proc'[q].key = proc[q].key
            /\ proc'[q].phase \in {"saving", "releasing", "completing"} => proc'[q] = proc[q]
      BY <1>1, <1>2
    <2>4. Reserved(j)'
      BY <2>1, <2>2, <2>3, SMTT(30) DEF Reserved
    <2>5. Taken(j)'
      BY <2>1, <2>2, <2>3, <1>1, SMTT(30) DEF Taken
    <2> QED
      BY <2>1, <2>4, <2>5, <1>3
  <1>11. ASSUME NEW j \in Key PROVE Recorded(j)'
    <2>1. CASE j = k /\ ledger[k].state = "absent"
      <3>1. /\ ledger'[j].body = x /\ ledger'[j].hash = ApprovalHash(x.request, x.decision)
            /\ x \in Response /\ x.decision # None
            /\ decisions'[x.request][x.actor] = x.decision
        BY <1>1, <1>3, <1>9, <2>1
      <3> QED
        BY <3>1 DEF Recorded
    <2>2. CASE ~ (j = k /\ ledger[k].state = "absent")
      <3>1. /\ ledger'[j] = ledger[j]
            /\ requests' = requests /\ decisions' = decisions
        BY <1>1, <1>3, <2>2
      <3>2. Recorded(j)
        BY DEF KeysSound
      <3> QED
        BY <3>1, <3>2 DEF Recorded
    <2> QED
      BY <2>1, <2>2
  <1>12. KeysSound'
    BY <1>1, <1>10, <1>11 DEF KeysSound
  <1> QED
    BY <1>5, <1>6, <1>7, <1>8, <1>12

-----------------------------------------------------------------------------
(* The request saved is new: no decision and no other key speaks of it.    *)
LEMMA SaveRequestKeeps ==
  ASSUME IInv, NEW p \in Process, SaveRequest(p)
  PROVE  IInv'
  <1> DEFINE k == proc[p].key
  <1> USE DEF IInv
  <1>1. /\ k \in Key /\ proc[p].phase = "saving" /\ proc[p].actor \in Actor
        /\ proc[p].response \in Response /\ proc[p].response.decision = None
        /\ proc[p].response.actor = proc[p].actor
        /\ Enter(p, "completing") /\ "completing" \in Phase
        /\ ledger' = ledger /\ decisions' = decisions /\ audit' = audit /\ disturbed' = disturbed
    BY DEF SaveRequest, CallsSound, CreationSound, Phase
  <1>2. /\ proc' \in [Process -> Call]
        /\ proc'[p].phase = "completing" /\ proc'[p].key = k
        /\ proc'[p].hash = proc[p].hash /\ proc'[p].actor = proc[p].actor
        /\ proc'[p].response = proc[p].response
        /\ \A q \in Process : q # p => proc'[q] = proc[q]
    BY <1>1, EnterEffect DEF TypeOK, Others
  <1>3. PICK e \in Exception, act \in Action : proc[p].hash = RequestHash(e, act)
    BY <1>1 DEF CallsSound, CreationSound
  <1>4. PICK r \in Request : r = proc[p].response.request /\ requests[r] = NoRequest
    BY <1>1 DEF FreshIds, Response
  <1>5. requests' = [requests EXCEPT ![r] = Opened(e, proc[p].actor, k)]
    BY <1>3, <1>4 DEF SaveRequest, RequestHash
  <1>6. /\ requests'[r] = Opened(e, proc[p].actor, k)
        /\ \A s \in Request : s # r => requests'[s] = requests[s]
    BY <1>4, <1>5 DEF TypeOK
  <1>7. Opened(e, proc[p].actor, k) \in RequestRow
    BY <1>1, PlanType DEF Opened, RequestRow, Status
  <1>8. requests'[r] # NoRequest /\ requests'[r].key = k
        /\ requests'[r].requester = proc[p].actor
    BY <1>6 DEF Opened, NoRequest
  <1>9. requests[r].key \notin Key
    BY <1>4, NoRequestType, ApprovalsAssumption
  <1>10. TypeOK'
    BY <1>1, <1>2, <1>5, <1>7 DEF TypeOK
  <1>11. CallsSound'
    <2>1. ASSUME NEW q \in Process PROVE CreationSound(q)'
      BY <1>1, <1>2 DEF CallsSound, CreationSound
    <2>2. ASSUME NEW q \in Process PROVE SavedByCall(q)'
      <3>1. CASE q = p
        BY <1>2, <1>4, <1>8, <3>1 DEF SavedByCall
      <3>2. CASE q # p /\ proc[q].phase = "completing"
        <4>1. proc[q].response.request \in Request /\ proc[q].key \in Key
              /\ requests[proc[q].response.request].key = proc[q].key
              /\ requests[proc[q].response.request].requester = proc[q].actor
          BY <3>2 DEF CallsSound, CreationSound, SavedByCall, Response
        <4>2. proc[q].response.request # r
          BY <4>1, <1>9
        <4> QED
          BY <1>2, <1>6, <3>2, <4>1, <4>2 DEF SavedByCall
      <3> QED
        BY <1>2, <3>1, <3>2 DEF SavedByCall
    <2>3. ASSUME NEW q \in Process PROVE DecisionSound(q)'
      BY <1>2, <1>4, <1>6 DEF CallsSound, DecisionSound, Authorized
    <2>4. ASSUME NEW q \in Process PROVE AppliedSound(q)'
      BY <1>1, <1>2 DEF CallsSound, AppliedSound
    <2> QED
      BY <1>1, <1>2, <2>1, <2>2, <2>3, <2>4 DEF CallsSound
  <1>12. FreshIds'
    <2>1. ASSUME NEW q \in Process, q # p, proc[q].phase \in {"reserving", "readback", "saving"}
          PROVE  proc[q].response.request \in Request /\ proc[q].response.request # r
      BY <1>1, <1>4, <2>1 DEF FreshIds, CallsSound, CreationSound, Response
    <2> QED
      BY <1>2, <1>6, <2>1 DEF FreshIds
  <1>13. RequestsSound'
    <2>1. NotOpened(r)
      <3>1. ~ OpenedSound(r)
        BY <1>4, NoRequestType DEF OpenedSound, Status
      <3> QED
        BY <1>4, <3>1 DEF RequestsSound
    <2>2. Approvers(r)' = {} /\ Rejecters(r)' = {}
      BY <1>1, <1>4, <2>1, ApprovalsAssumption
         DEF NotOpened, Approvers, Rejecters, Decision
    <2>3. Cardinality(Approvers(r)') = 0
      BY <2>2, FS_EmptySet
    <2>4. OpenedSound(r)'
      BY <1>1, <1>6, <2>2, <2>3, PlanType DEF OpenedSound, Opened, Status
    <2>5. ASSUME NEW s \in Request, s # r PROVE NotOpened(s)' \/ OpenedSound(s)'
      <3>1. requests'[s] = requests[s] /\ decisions'[s] = decisions[s]
        BY <1>1, <1>6, <2>5
      <3>2. Approvers(s)' = Approvers(s) /\ Rejecters(s)' = Rejecters(s)
        BY <3>1 DEF Approvers, Rejecters
      <3> QED
        BY <3>1, <3>2 DEF RequestsSound, NotOpened, OpenedSound
    <2> QED
      BY <2>4, <2>5 DEF RequestsSound
  <1>14. KeysSound'
    <2>1. k \notin disturbed => \A s \in Request : requests[s].key # k
      BY <1>1 DEF KeysSound, Taken
    <2>2. k \notin disturbed => ledger[k].state = "pending"
      BY <1>1 DEF KeysSound, Reserved
    <2>3. ASSUME NEW j \in Key \ disturbed PROVE ~ ledger'[j].lapsed /\ Reserved(j)'
      BY <1>1, <1>2 DEF KeysSound, Reserved
    <2>4. ASSUME NEW j \in Key \ disturbed PROVE Taken(j)'
      <3>1. CASE j = k
        <4>1. \A s \in Request : requests'[s].key = k => s = r
          BY <1>6, <2>1, <3>1
        <4>2. \A q \in Process : proc'[q].key = k => proc'[q].phase \notin {"saving", "releasing"}
          BY <1>1, <1>2, <3>1 DEF KeysSound, Reserved
        <4> QED
          BY <1>1, <2>2, <3>1, <4>1, <4>2 DEF Taken
      <3>2. CASE j # k
        BY <1>1, <1>2, <1>6, <1>8, <3>2 DEF KeysSound, Taken
      <3> QED
        BY <3>1, <3>2
    <2>5. ASSUME NEW j \in Key PROVE Recorded(j)'
      BY <1>1, <1>6, <1>9 DEF KeysSound, Recorded, Response
    <2> QED
      BY <1>1, <2>3, <2>4, <2>5 DEF KeysSound
  <1> QED
    BY <1>10, <1>11, <1>12, <1>13, <1>14

-----------------------------------------------------------------------------
(* The sets of decisions on a request are finite, with the actors.         *)
LEMMA ApproversFinite ==
  \A r \in Request : IsFiniteSet(Approvers(r)) /\ Cardinality(Approvers(r)) \in Nat
  <1> TAKE r \in Request
  <1>1. Approvers(r) \subseteq Actor
    BY DEF Approvers
  <1>2. IsFiniteSet(Approvers(r))
    BY <1>1, ApprovalsAssumption, FS_Subset
  <1> QED
    BY <1>2, FS_CardinalityType

(* What apply_approval_decision does to the request it locks.              *)
Applies(p, r, d, a, n) ==
  /\ proc[p].hash = ApprovalHash(r, d) /\ proc[p].actor = a
  /\ requests[r].status = "PENDING_APPROVAL" /\ decisions[r][a] = None
  /\ OpenedSound(r)
  /\ a # requests[r].requester /\ requests[r].capability \in Capabilities(a)
  /\ n = IF d = "APPROVED" THEN requests[r].received + 1 ELSE requests[r].received
  /\ n <= requests[r].required /\ requests[r].received < requests[r].required
  /\ decisions' = [decisions EXCEPT ![r][a] = d]
  /\ requests' = [requests EXCEPT ![r].status = Derived(r, d, n), ![r].received = n]
  /\ proc' = [proc EXCEPT ![p].phase = "putting",
                ![p].response = [request |-> r, actor |-> a, decision |-> d,
                                 status |-> Derived(r, d, n), received |-> n]]
  /\ ledger' = ledger /\ audit' = audit /\ disturbed' = disturbed

LEMMA ApplyEffect ==
  ASSUME IInv, NEW p \in Process, Apply(p)
  PROVE  \E r \in Request, d \in Decision, a \in Actor, n \in Nat : Applies(p, r, d, a, n)
  <1> USE DEF IInv
  <1>0. PICK r \in Request, d \in Decision, a \in Actor :
          proc[p].hash = ApprovalHash(r, d) /\ proc[p].actor = a /\ Authorized(a, r)
    BY DEF Apply, CallsSound, DecisionSound
  <1> DEFINE m == Cardinality(Approvers(r) \cup (IF d = "APPROVED" THEN {a} ELSE {}))
  <1>1. ApprovalHash(r, d).request = r /\ ApprovalHash(r, d).decision = d
    BY DEF ApprovalHash
  <1>2. /\ requests[r].status = "PENDING_APPROVAL" /\ decisions[r][a] = None
        /\ decisions' = [decisions EXCEPT ![r][a] = d]
        /\ requests' = [requests EXCEPT ![r].status = Derived(r, d, m), ![r].received = m]
        /\ proc' = [proc EXCEPT ![p].phase = "putting",
                      ![p].response = [request |-> r, actor |-> a, decision |-> d,
                                       status |-> Derived(r, d, m), received |-> m]]
        /\ ledger' = ledger /\ audit' = audit /\ disturbed' = disturbed
    BY <1>1, <1>0 DEF Apply
  <1>4. OpenedSound(r)
    BY <1>2, NoRequestType DEF RequestsSound, NotOpened
  <1>5. /\ requests[r].received = Cardinality(Approvers(r))
        /\ requests[r].received < requests[r].required
        /\ requests[r].required \in Nat /\ requests[r].received \in Nat
    BY <1>2, <1>4, SMTT(30) DEF OpenedSound, TypeOK, RequestRow
  <1>6. a \notin Approvers(r)
    BY <1>2, ApprovalsAssumption DEF Approvers, Decision
  <1>7. m = IF d = "APPROVED" THEN requests[r].received + 1 ELSE requests[r].received
    <2>1. CASE d = "APPROVED"
      BY <2>1, <1>5, <1>6, ApproversFinite, FS_AddElement
    <2>2. CASE d # "APPROVED"
      <3>1. Approvers(r) \cup (IF d = "APPROVED" THEN {a} ELSE {}) = Approvers(r)
        BY <2>2
      <3> QED
        BY <2>2, <3>1, <1>5
    <2> QED
      BY <2>1, <2>2
  <1>8. m \in Nat /\ m <= requests[r].required
    BY <1>5, <1>7
  <1>9. Applies(p, r, d, a, m)
    BY <1>0, <1>2, <1>4, <1>5, <1>7, <1>8 DEF Authorized, Applies
  <1> QED
    BY <1>8, <1>9

(* The decision goes to a pending request that its actor has not decided,  *)
(* and counts once.                                                        *)
LEMMA ApplyKeeps ==
  ASSUME IInv, NEW p \in Process, Apply(p)
  PROVE  IInv'
  <1>1. PICK r \in Request, d \in Decision, a \in Actor, n \in Nat : Applies(p, r, d, a, n)
    BY ApplyEffect
  <1> DEFINE status == Derived(r, d, n)
  <1> DEFINE x == [request |-> r, actor |-> a, decision |-> d, status |-> status,
                   received |-> n]
  <1>4. /\ proc[p].hash = ApprovalHash(r, d)
        /\ requests[r].status = "PENDING_APPROVAL" /\ decisions[r][a] = None
        /\ a # requests[r].requester /\ requests[r].capability \in Capabilities(a)
        /\ n = IF d = "APPROVED" THEN requests[r].received + 1 ELSE requests[r].received
        /\ n <= requests[r].required /\ requests[r].received < requests[r].required
        /\ ledger' = ledger /\ audit' = audit /\ disturbed' = disturbed
    BY <1>1 DEF Applies
  <1>5. requests' = [requests EXCEPT ![r].status = status, ![r].received = n]
    BY <1>1 DEF Applies
  <1>6. decisions' = [decisions EXCEPT ![r][a] = d]
    BY <1>1 DEF Applies
  <1>9. proc' = [proc EXCEPT ![p].phase = "putting", ![p].response = x]
    BY <1>1 DEF Applies
  <1> USE DEF IInv
  <1>7. /\ requests[r].status = "PENDING_APPROVAL" /\ OpenedSound(r)
        /\ requests[r].required \in 1 .. 2 /\ requests[r].received \in 0 .. 2
    BY <1>4, NoRequestType, PlanType DEF RequestsSound, NotOpened, OpenedSound, TypeOK, RequestRow
  <1>8. n \in 0 .. 2 /\ status \in Status
    BY <1>4, <1>7 DEF Derived, Status
  <1>10. x \in Response
    BY <1>8 DEF Response
  <1>11. /\ proc' \in [Process -> Call]
         /\ proc'[p].phase = "putting" /\ proc'[p].response = x
         /\ proc'[p].key = proc[p].key /\ proc'[p].hash = proc[p].hash
         /\ \A q \in Process : q # p => proc'[q] = proc[q]
    <2>1. \A c \in Call : /\ [c EXCEPT !.phase = "putting", !.response = x] \in Call
                          /\ [c EXCEPT !.phase = "putting", !.response = x].phase = "putting"
                          /\ [c EXCEPT !.phase = "putting", !.response = x].response = x
                          /\ [c EXCEPT !.phase = "putting", !.response = x].key = c.key
                          /\ [c EXCEPT !.phase = "putting", !.response = x].hash = c.hash
      BY <1>10 DEF Call, Phase
    <2>2. proc' = [proc EXCEPT ![p] = [proc[p] EXCEPT !.phase = "putting", !.response = x]]
      BY <1>9 DEF TypeOK
    <2> QED
      BY <2>1, <2>2 DEF TypeOK
  <1>12. /\ requests'[r].status = status /\ requests'[r].received = n
         /\ requests'[r].exception = requests[r].exception
         /\ requests'[r].requester = requests[r].requester
         /\ requests'[r].key = requests[r].key
         /\ requests'[r].capability = requests[r].capability
         /\ requests'[r].required = requests[r].required
         /\ requests' \in [Request -> RequestRow]
         /\ \A s \in Request : s # r => requests'[s] = requests[s]
    BY <1>5, <1>8 DEF TypeOK, RequestRow
  <1>13. /\ decisions'[r][a] = d
         /\ \A b \in Actor : b # a => decisions'[r][b] = decisions[r][b]
         /\ \A s \in Request : s # r => decisions'[s] = decisions[s]
         /\ decisions' \in [Request -> [Actor -> Decision \cup {None}]]
    BY <1>6 DEF TypeOK
  <1>14. requests[r] # NoRequest /\ requests'[r] # NoRequest
    BY <1>4, <1>8, <1>12, NoRequestType DEF Status
  <1>15. TypeOK'
    BY <1>4, <1>11, <1>12, <1>13 DEF TypeOK
  <1>16. \A s \in Request, b \in Actor :
           decisions[s][b] # None => decisions'[s][b] = decisions[s][b]
    BY <1>4, <1>13
  <1>17. \A s \in Request : /\ requests'[s].key = requests[s].key
                            /\ requests'[s].requester = requests[s].requester
                            /\ requests'[s].capability = requests[s].capability
                            /\ requests[s] = NoRequest <=> requests'[s] = NoRequest
    BY <1>12, <1>14
  <1>18. CallsSound'
    <2>1. ASSUME NEW q \in Process PROVE CreationSound(q)'
      BY <1>11 DEF CallsSound, CreationSound
    <2>2. ASSUME NEW q \in Process PROVE SavedByCall(q)'
      BY <1>11, <1>17 DEF CallsSound, SavedByCall, CreationSound, Response
    <2>3. ASSUME NEW q \in Process PROVE DecisionSound(q)'
      BY <1>11, <1>17 DEF CallsSound, DecisionSound, Authorized
    <2>4. ASSUME NEW q \in Process PROVE AppliedSound(q)'
      <3>1. CASE q = p
        <4>1. proc[p].key \in Key
          BY DEF Apply, CallsSound, DecisionSound
        <4> QED
          BY <1>4, <1>10, <1>11, <1>13, <3>1, <4>1 DEF AppliedSound
      <3>2. CASE q # p
        BY <1>11, <1>16, <3>2, ApprovalsAssumption DEF CallsSound, AppliedSound, Response
      <3> QED
        BY <3>1, <3>2
    <2>5. ASSUME NEW q \in Process, proc'[q].phase = "auditing"
          PROVE proc'[q].response \in Response
      BY <1>11, <2>5 DEF CallsSound
    <2> QED
      BY <2>1, <2>2, <2>3, <2>4, <2>5 DEF CallsSound
  <1>19. FreshIds'
    BY <1>11, <1>17 DEF FreshIds, CallsSound, CreationSound, Response
  <1>20. RequestsSound'
    <2>1. None \notin Decision
      BY ApprovalsAssumption
    <2>2. /\ Approvers(r)' = Approvers(r) \cup (IF d = "APPROVED" THEN {a} ELSE {})
          /\ Rejecters(r)' = Rejecters(r) \cup (IF d = "APPROVED" THEN {} ELSE {a})
      BY <1>4, <1>13, <2>1 DEF Approvers, Rejecters, Decision
    <2>3. Cardinality(Approvers(r)') = n
      <3>1. a \notin Approvers(r)
        BY <1>4, <2>1 DEF Approvers, Decision
      <3>2. CASE d = "APPROVED"
        BY <1>4, <1>7, <2>2, <3>1, <3>2, ApproversFinite, FS_AddElement, ZenonT(60) DEF OpenedSound
      <3>3. CASE d # "APPROVED"
        BY <1>4, <1>7, <2>2, <3>3 DEF OpenedSound
      <3> QED
        BY <3>2, <3>3
    <2>4. Rejecters(r) = {}
      BY <1>7 DEF OpenedSound
    <2>5. /\ status = "APPROVED" => n = requests[r].required /\ d = "APPROVED"
          /\ status # "APPROVED" => n < requests[r].required
          /\ status = "PENDING_APPROVAL" => d = "APPROVED"
          /\ status = "REJECTED" => d = "REJECTED"
      BY <1>4, <1>7 DEF Derived, Decision
    <2>6. \A b \in Approvers(r)' \cup Rejecters(r)' :
            b # requests[r].requester /\ requests[r].capability \in Capabilities(b)
      BY <1>4, <1>7, <2>2 DEF OpenedSound
    <2>7. OpenedSound(r)'
      BY <1>7, <1>8, <1>12, <2>2, <2>3, <2>4, <2>5, <2>6 DEF OpenedSound
    <2>8. ASSUME NEW s \in Request, s # r PROVE NotOpened(s)' \/ OpenedSound(s)'
      <3>1. requests'[s] = requests[s] /\ decisions'[s] = decisions[s]
        BY <1>12, <1>13, <2>8
      <3>2. Approvers(s)' = Approvers(s) /\ Rejecters(s)' = Rejecters(s)
        BY <3>1 DEF Approvers, Rejecters
      <3> QED
        BY <3>1, <3>2 DEF RequestsSound, NotOpened, OpenedSound
    <2> QED
      BY <2>7, <2>8 DEF RequestsSound
  <1>21. KeysSound'
    <2>1. ASSUME NEW k \in Key \ disturbed PROVE ~ ledger'[k].lapsed /\ Reserved(k)'
      BY <1>4, <1>11 DEF KeysSound, Reserved, Apply
    <2>2. ASSUME NEW k \in Key \ disturbed PROVE Taken(k)'
      BY <1>4, <1>11, <1>17 DEF KeysSound, Taken
    <2>3. ASSUME NEW k \in Key PROVE Recorded(k)'
      <3>1. PICK y : y = ledger[k].body
        OBVIOUS
      <3>2. CASE ledger[k].state = "done"
        <4>1. /\ y \in Response /\ y.request \in Request /\ y.actor \in Actor
              /\ y.decision = None => /\ requests[y.request].key = k
                                      /\ requests[y.request].requester = y.actor
              /\ y.decision # None =>
                   /\ ledger[k].hash = ApprovalHash(y.request, y.decision)
                   /\ decisions[y.request][y.actor] = y.decision
          BY <3>1, <3>2 DEF KeysSound, Recorded, Response
        <4> QED
          BY <1>4, <1>16, <1>17, <3>1, <4>1 DEF Recorded
      <3>3. CASE ledger[k].state # "done"
        BY <1>4, <3>3 DEF Recorded
      <3> QED
        BY <3>2, <3>3
    <2> QED
      BY <1>4, <2>1, <2>2, <2>3 DEF KeysSound
  <1> QED
    BY <1>15, <1>18, <1>19, <1>20, <1>21

-----------------------------------------------------------------------------
LEMMA InvStep == IInv /\ [Next]_vars => IInv'
  <1> SUFFICES ASSUME IInv, [Next]_vars PROVE IInv'
    OBVIOUS
  <1>1. ASSUME NEW p \in Process, NEW a \in Actor, NEW k \in Key, NEW e \in Exception,
               NEW act \in Action, NEW r \in Request, RequestResolution(p, a, k, e, act, r)
        PROVE  IInv'
    BY <1>1, RequestResolutionKeeps
  <1>2. ASSUME NEW p \in Process, NEW a \in Actor, NEW k \in Key, NEW r \in Request,
               NEW d \in Decision, Decide(p, a, k, r, d)
        PROVE  IInv'
    BY <1>2, DecideKeeps
  <1>3. ASSUME NEW p \in Process,
               \/ Reserve(p) \/ ReserveLost(p) \/ ReadBackNothing(p)
               \/ SaveRequest(p) \/ SaveRequestFails(p) \/ ReleaseLease(p)
               \/ CompleteRequest(p) \/ Apply(p) \/ PutKey(p)
        PROVE  IInv'
    BY <1>3, ReserveKeeps, ReserveLostKeeps, ReadBackNothingKeeps, SaveRequestKeeps,
       SaveFailsKeeps, ReleaseKeeps, CompleteKeeps, ApplyKeeps, PutKeeps
  <1>4. ASSUME NEW k \in Key, LeaseEnds(k) PROVE IInv'
    BY <1>4, LeaseEndsKeeps
  <1>5. ASSUME NEW p \in Process,
               ReadBack(p) \/ ApplyRefused(p) \/ RecordAudit(p) \/ Abort(p)
        PROVE  IInv'
    BY <1>5, EndingSteps, EndingKeeps
  <1>6. CASE UNCHANGED vars
    <2> USE <1>6 DEF vars, IInv
    <2>1. TypeOK' /\ FreshIds'
      BY DEF TypeOK, FreshIds
    <2>2. CallsSound'
      BY DEF CallsSound, CreationSound, SavedByCall, DecisionSound, AppliedSound, Authorized
    <2>3. RequestsSound'
      BY DEF RequestsSound, NotOpened, OpenedSound, Approvers, Rejecters
    <2>4. KeysSound'
      BY DEF KeysSound, Reserved, Taken, Recorded
    <2> QED
      BY <2>1, <2>2, <2>3, <2>4
  <1> QED
    BY <1>1, <1>2, <1>3, <1>4, <1>5, <1>6 DEF Next

LEMMA Invariance == Spec => []IInv
  BY InitInv, InvStep, PTL DEF Spec

(* Every reachable state is well typed: the approvals of a request never    *)
(* outnumber the two its plan can require.                                 *)
THEOREM TypeCorrect == Spec => []TypeOK
  <1>1. IInv => TypeOK
    BY DEF IInv
  <1> QED
    BY <1>1, Invariance, PTL

(* Whatever the interleaving, the state of a request is the one its        *)
(* recorded decisions imply.                                               *)
THEOREM StatusDerived == Spec => []StatusFollowsDecisions
  <1>1. IInv => StatusFollowsDecisions
    <2> SUFFICES ASSUME IInv, NEW r \in Request
                 PROVE  LET q == requests[r] IN
                        /\ q.received = Cardinality(Approvers(r))
                        /\ q.status = "APPROVED" <=> q.received > 0 /\ q.received = q.required
                        /\ q.status = "REJECTED" <=> Rejecters(r) # {}
                        /\ Cardinality(Rejecters(r)) <= 1
      BY DEF StatusFollowsDecisions
    <2>1. CASE NotOpened(r)
      <3>1. Approvers(r) = {} /\ Rejecters(r) = {}
        BY <2>1, ApprovalsAssumption DEF NotOpened, Approvers, Rejecters, Decision
      <3> QED
        BY <2>1, <3>1, FS_EmptySet DEF NotOpened, NoRequest
    <2>2. CASE OpenedSound(r)
      <3>1. requests[r].required \in 1 .. 2 /\ requests[r].received \in Nat
        BY <2>2, PlanType DEF OpenedSound, IInv, TypeOK, RequestRow
      <3>2. Rejecters(r) # {} => Cardinality(Rejecters(r)) = 1
        BY <2>2, FS_Singleton DEF OpenedSound, Status
      <3>3. Rejecters(r) = {} => Cardinality(Rejecters(r)) = 0
        BY FS_EmptySet
      <3>4. requests[r].status = "REJECTED" <=> Rejecters(r) # {}
        BY <2>2 DEF OpenedSound, Status
      <3>5. requests[r].status = "APPROVED"
              <=> requests[r].received > 0 /\ requests[r].received = requests[r].required
        BY <2>2, <3>1 DEF OpenedSound
      <3> QED
        BY <2>2, <3>2, <3>3, <3>4, <3>5 DEF OpenedSound
    <2> QED
      BY <2>1, <2>2 DEF IInv, RequestsSound
  <1> QED
    BY <1>1, Invariance, PTL

(* A finite set of two elements or more holds two that differ.             *)
LEMMA TwoElements ==
  ASSUME NEW S, IsFiniteSet(S), Cardinality(S) >= 2
  PROVE  \E a, b \in S : a # b
  <1>1. Cardinality(S) \in Nat /\ Cardinality(S) # 0 /\ Cardinality(S) # 1
    BY FS_CardinalityType
  <1>2. S # {}
    BY <1>1, FS_EmptySet
  <1>3. PICK a : a \in S
    BY <1>2
  <1>4. S # {a}
    BY <1>1, FS_Singleton
  <1> QED
    BY <1>3, <1>4

(* Only a controller holds the capability for high exposures.              *)
LEMMA HighIsController == \A a \in Actor : High \in Capabilities(a) => RoleOf[a] = "CONTROLLER"
  BY ApprovalsAssumption DEF Capabilities, High, Low, Role

(* Nobody decides a request of their own or above their capability, and    *)
(* the ordinary exposures above the limit take two controllers.            *)
THEOREM FourEyesKept == Spec => []FourEyes
  <1>1. IInv => FourEyes
    <2> SUFFICES ASSUME IInv, NEW r \in Request
                 PROVE  LET q == requests[r] IN
                        /\ \A a \in Approvers(r) \cup Rejecters(r) :
                             a # q.requester /\ q.capability \in Capabilities(a)
                        /\ q.status = "APPROVED" /\ ExposureOf[q.exception] > 100000
                             /\ TypeOf[q.exception]
                                  \notin {"DUPLICATE_PAYMENT", "AMBIGUOUS_ASSOCIATION"}
                             /\ StatusOf[q.exception] # "ESCALATED"
                             => \E a, b \in Approvers(r) \ {q.requester} :
                                  a # b /\ RoleOf[a] = "CONTROLLER" /\ RoleOf[b] = "CONTROLLER"
      BY DEF FourEyes
    <2>1. CASE NotOpened(r)
      <3>1. Approvers(r) = {} /\ Rejecters(r) = {}
        BY <2>1, ApprovalsAssumption DEF NotOpened, Approvers, Rejecters, Decision
      <3> QED
        BY <2>1, <3>1, NoRequestType DEF NotOpened
    <2>2. CASE OpenedSound(r)
      <3> DEFINE q == requests[r]
      <3>1. \A a \in Approvers(r) : a # q.requester /\ q.capability \in Capabilities(a)
        BY <2>2 DEF OpenedSound
      <3>2. ASSUME q.status = "APPROVED", ExposureOf[q.exception] > 100000,
                   TypeOf[q.exception] \notin {"DUPLICATE_PAYMENT", "AMBIGUOUS_ASSOCIATION"},
                   StatusOf[q.exception] # "ESCALATED"
            PROVE  \E a, b \in Approvers(r) \ {q.requester} :
                     a # b /\ RoleOf[a] = "CONTROLLER" /\ RoleOf[b] = "CONTROLLER"
        <4>1. ExposureOf[q.exception] \in Nat
          BY <2>2, ApprovalsAssumption DEF OpenedSound
        <4>2. ApprovalPlan(q.exception) = Plan(High, 2)
          BY <3>2, <4>1 DEF ApprovalPlan
        <4>3. q.capability = High /\ Cardinality(Approvers(r)) = 2
          BY <2>2, <3>2, <4>2 DEF OpenedSound, Plan
        <4>4. PICK a \in Approvers(r), b \in Approvers(r) : a # b
          BY <4>3, ApproversFinite, TwoElements
        <4>5. a \in Actor /\ b \in Actor
          BY DEF Approvers
        <4> QED
          BY <3>1, <4>3, <4>4, <4>5, HighIsController
      <3> QED
        BY <2>2, <3>2 DEF OpenedSound
    <2> QED
      BY <2>1, <2>2 DEF IInv, RequestsSound
  <1> QED
    BY <1>1, Invariance, PTL

(* A key that nothing disturbed opens at most one request.                 *)
THEOREM SingleRequest == Spec => []OneRequestPerKey
  <1>1. IInv => OneRequestPerKey
    <2> SUFFICES ASSUME IInv, NEW r \in Request, NEW s \in Request,
                        requests[r].key \notin disturbed \cup {None},
                        requests[r].key = requests[s].key
                 PROVE  r = s
      BY DEF OneRequestPerKey
    <2>1. requests[r].key \in Key
      BY DEF IInv, TypeOK, RequestRow
    <2> QED
      BY <2>1 DEF IInv, KeysSound, Taken
  <1> QED
    BY <1>1, Invariance, PTL

(* A retry is answered with what is on record.                             *)
THEOREM ReplayFaithful == Spec => []ReplayIsRecorded
  <1>1. IInv => ReplayIsRecorded
    BY DEF IInv, KeysSound, Recorded, ReplayIsRecorded
  <1> QED
    BY <1>1, Invariance, PTL

-----------------------------------------------------------------------------
(* What a step does to a request: it opens it, adds one decision of an     *)
(* entitled actor to it while it is pending, or leaves it alone.           *)
Opens(r) ==
  /\ NotOpened(r)
  /\ \E e \in Exception, a \in Actor, k \in Key : requests'[r] = Opened(e, a, k)
  /\ decisions' = decisions
  /\ \A s \in Request : s # r => requests'[s] = requests[s]

Tables == <<requests, decisions>>

LEMMA StepOnRequests ==
  ASSUME IInv, [Next]_vars
  PROVE  \/ \E r \in Request : Opens(r)
         \/ \E p \in Process, r \in Request, d \in Decision, a \in Actor, n \in Nat :
              Applies(p, r, d, a, n)
         \/ UNCHANGED Tables
  <1>1. ASSUME NEW p \in Process, SaveRequest(p) PROVE \E r \in Request : Opens(r)
    <2>1. /\ proc[p].phase = "saving" /\ proc[p].actor \in Actor /\ proc[p].key \in Key
          /\ proc[p].response \in Response
          /\ \E e \in Exception, act \in Action : proc[p].hash = RequestHash(e, act)
      BY <1>1 DEF SaveRequest, IInv, CallsSound, CreationSound
    <2>2. PICK e \in Exception : proc[p].hash.exception = e
      BY <2>1 DEF RequestHash
    <2>3. PICK r \in Request : r = proc[p].response.request /\ requests[r] = NoRequest
      BY <2>1 DEF IInv, FreshIds, Response
    <2>4. NotOpened(r)
      BY <2>3, NoRequestType DEF IInv, RequestsSound, OpenedSound, Status
    <2>5. /\ requests'[r] = Opened(e, proc[p].actor, proc[p].key)
          /\ \A s \in Request : s # r => requests'[s] = requests[s]
          /\ decisions' = decisions
      BY <1>1, <2>2, <2>3 DEF SaveRequest, IInv, TypeOK
    <2> QED
      BY <2>1, <2>4, <2>5 DEF Opens
  <1>2. ASSUME NEW p \in Process, Apply(p)
        PROVE  \E r \in Request, d \in Decision, a \in Actor, n \in Nat : Applies(p, r, d, a, n)
    BY <1>2, ApplyEffect
  <1>3. ASSUME NEW p \in Process, NEW a \in Actor, NEW k \in Key,
               \/ \E e \in Exception, act \in Action, r \in Request :
                    RequestResolution(p, a, k, e, act, r)
               \/ \E r \in Request, d \in Decision : Decide(p, a, k, r, d)
        PROVE  UNCHANGED Tables
    BY <1>3 DEF RequestResolution, Decide, Tables
  <1>4. ASSUME NEW p \in Process,
               \/ Reserve(p) \/ ReserveLost(p) \/ ReadBack(p) \/ ReadBackNothing(p)
               \/ SaveRequestFails(p) \/ ReleaseLease(p) \/ CompleteRequest(p)
               \/ ApplyRefused(p) \/ PutKey(p) \/ RecordAudit(p) \/ Abort(p)
        PROVE  UNCHANGED Tables
    BY <1>4 DEF Reserve, ReserveLost, ReadBack, ReadBackNothing, SaveRequestFails, ReleaseLease,
                CompleteRequest, ApplyRefused, PutKey, RecordAudit, Abort, Tables
  <1>5. ASSUME NEW k \in Key, LeaseEnds(k) PROVE UNCHANGED Tables
    BY <1>5 DEF LeaseEnds, Tables
  <1>6. CASE UNCHANGED vars
    BY <1>6 DEF vars, Tables
  <1> QED
    BY <1>1, <1>2, <1>3, <1>4, <1>5, <1>6 DEF Next

(* The tables after a decision is applied.                                 *)
LEMMA AppliesTables ==
  ASSUME IInv, NEW p \in Process, NEW r \in Request, NEW d \in Decision, NEW a \in Actor,
         NEW n \in Nat, Applies(p, r, d, a, n)
  PROVE  /\ \A s \in Request : s # r => requests'[s] = requests[s] /\ decisions'[s] = decisions[s]
         /\ decisions'[r][a] = d
         /\ \A b \in Actor : b # a => decisions'[r][b] = decisions[r][b]
         /\ requests'[r].status = Derived(r, d, n)
         /\ requests'[r].requester = requests[r].requester
         /\ requests'[r].capability = requests[r].capability
         /\ requests'[r].required = requests[r].required
  BY DEF Applies, IInv, TypeOK, RequestRow

(* A decided request, and every decision of an actor, is final.            *)
THEOREM DecisionIsFinal == Spec => DecidedIsFinal
  <1>1. ASSUME IInv, [Next]_vars, NEW r \in Request
        PROVE  /\ requests[r].status \in {"APPROVED", "REJECTED"}
                    => requests'[r] = requests[r] /\ decisions'[r] = decisions[r]
               /\ \A a \in Actor : decisions[r][a] # None => decisions'[r][a] = decisions[r][a]
    <2>1. ASSUME NEW s \in Request, Opens(s)
          PROVE  /\ requests[r].status \in {"APPROVED", "REJECTED"} => requests'[r] = requests[r]
                 /\ decisions' = decisions
      BY <2>1, NoRequestType DEF Opens, NotOpened
    <2>2. ASSUME NEW p \in Process, NEW s \in Request, NEW d \in Decision, NEW a \in Actor,
                 NEW n \in Nat, Applies(p, s, d, a, n)
          PROVE  /\ requests[r].status \in {"APPROVED", "REJECTED"}
                      => requests'[r] = requests[r] /\ decisions'[r] = decisions[r]
                 /\ \A b \in Actor :
                      decisions[r][b] # None => decisions'[r][b] = decisions[r][b]
      <3>1. requests[s].status = "PENDING_APPROVAL" /\ decisions[s][a] = None
        BY <2>2 DEF Applies
      <3> QED
        BY <1>1, <2>2, <3>1, AppliesTables
    <2>3. CASE UNCHANGED Tables
      BY <2>3 DEF Tables
    <2> QED
      BY <1>1, <2>1, <2>2, <2>3, StepOnRequests
  <1>2. IInv /\ [Next]_vars
          => [\A r \in Request :
                /\ requests[r].status \in {"APPROVED", "REJECTED"}
                     => requests'[r] = requests[r] /\ decisions'[r] = decisions[r]
                /\ \A a \in Actor :
                     decisions[r][a] # None => decisions'[r][a] = decisions[r][a]]_vars
    BY <1>1
  <1> QED
    BY <1>2, Invariance, PTL DEF Spec, DecidedIsFinal

-----------------------------------------------------------------------------
(* The refinement: the ballots of the contract, read off the tables.       *)
LEMMA ContractInit == Init => Contract!Init
  <1> SUFFICES ASSUME Init, NEW r \in Request PROVE BallotOf(r) = Contract!Unopened
    BY DEF Contract!Init, Ballots
  <1>1. requests[r] = NoRequest /\ Approvers(r) = {} /\ Rejecters(r) = {}
    BY ApprovalsAssumption DEF Init, Approvers, Rejecters, Decision
  <1> QED
    BY <1>1 DEF BallotOf, Contract!Unopened, NoRequest

LEMMA OpenRefines ==
  ASSUME IInv, NEW r \in Request, Opens(r)
  PROVE  Contract!Next
  <1>1. PICK e \in Exception, a \in Actor, k \in Key : requests'[r] = Opened(e, a, k)
    BY DEF Opens
  <1> DEFINE c == ApprovalPlan(e).capability
  <1> DEFINE n == ApprovalPlan(e).required
  <1>2. c \in {Low, High} /\ n \in 1 .. 2
    BY PlanType
  <1>3. /\ Approvers(r)' = {} /\ Rejecters(r)' = {}
    BY ApprovalsAssumption DEF Opens, NotOpened, Approvers, Rejecters, Decision
  <1>4. BallotOf(r)' = [state |-> "PENDING_APPROVAL", requester |-> a, capability |-> c,
                        required |-> n, yes |-> {}, no |-> {}]
    BY <1>1, <1>3 DEF BallotOf, Opened
  <1>5. \A s \in Request : s # r => BallotOf(s)' = BallotOf(s)
    BY DEF Opens, BallotOf, Approvers, Rejecters
  <1>6. Ballots[r].state = "unopened"
    BY DEF Ballots, BallotOf, Opens, NotOpened, NoRequest
  <1>7. Ballots' = [Ballots EXCEPT ![r] =
                      [state |-> "PENDING_APPROVAL", requester |-> a, capability |-> c,
                       required |-> n, yes |-> {}, no |-> {}]]
    BY <1>4, <1>5 DEF Ballots
  <1>8. Contract!Open(r, a, c, n)
    BY <1>6, <1>7 DEF Contract!Open
  <1> QED
    BY <1>2, <1>8 DEF Contract!Next

LEMMA ApplyRefines ==
  ASSUME IInv, NEW p \in Process, NEW r \in Request, NEW d \in Decision, NEW a \in Actor,
         NEW n \in Nat, Applies(p, r, d, a, n)
  PROVE  Contract!Next
  <1>1. /\ requests[r].status = "PENDING_APPROVAL" /\ decisions[r][a] = None
        /\ OpenedSound(r)
        /\ a # requests[r].requester /\ requests[r].capability \in Capabilities(a)
        /\ n = IF d = "APPROVED" THEN requests[r].received + 1 ELSE requests[r].received
    BY DEF Applies
  <1>2. None \notin Decision
    BY ApprovalsAssumption
  <1>3. a \notin Approvers(r) /\ Rejecters(r) = {}
    BY <1>1, <1>2 DEF Approvers, Decision, OpenedSound
  <1>4. requests[r].capability \in {Low, High}
    BY <1>1, PlanType DEF OpenedSound
  <1>5. /\ Approvers(r)' = Approvers(r) \cup (IF d = "APPROVED" THEN {a} ELSE {})
        /\ Rejecters(r)' = IF d = "APPROVED" THEN {} ELSE {a}
    BY <1>1, <1>2, <1>3, AppliesTables DEF Approvers, Rejecters, Decision
  <1>6. \A s \in Request : s # r => BallotOf(s)' = BallotOf(s)
    <2> TAKE s \in Request
    <2> HAVE s # r
    <2>1. requests'[s] = requests[s] /\ decisions'[s] = decisions[s]
      BY AppliesTables
    <2> QED
      BY <2>1 DEF BallotOf, Approvers, Rejecters
  <1>7. BallotOf(r)' = [state |-> Derived(r, d, n), requester |-> requests[r].requester,
                        capability |-> requests[r].capability,
                        required |-> requests[r].required,
                        yes |-> Approvers(r)', no |-> Rejecters(r)']
    BY AppliesTables DEF BallotOf
  <1>8. /\ Ballots[r].state = requests[r].status
        /\ Ballots[r].requester = requests[r].requester
        /\ Ballots[r].capability = requests[r].capability
        /\ Ballots[r].required = requests[r].required
        /\ Ballots[r].yes = Approvers(r) /\ Ballots[r].no = Rejecters(r)
    BY DEF Ballots, BallotOf
  <1>9. Contract!MayDecide(r, a)
    BY <1>1, <1>3, <1>4, <1>8 DEF Contract!MayDecide
  <1>10. CASE d = "APPROVED"
    <2>1. requests[r].received = Cardinality(Approvers(r))
      BY <1>1 DEF OpenedSound
    <2>2. Cardinality(Approvers(r) \cup {a}) = n
      BY <1>1, <1>3, <1>10, <2>1, ApproversFinite, FS_AddElement
    <2>3. Derived(r, d, n) = IF n >= requests[r].required THEN "APPROVED" ELSE "PENDING_APPROVAL"
      BY <1>10 DEF Derived
    <2>4. Approvers(r)' = Approvers(r) \cup {a} /\ Rejecters(r)' = Rejecters(r)
      BY <1>3, <1>5, <1>10
    <2>5. Ballots' = [Ballots EXCEPT ![r] =
                        [state |-> IF n >= requests[r].required
                                   THEN "APPROVED" ELSE "PENDING_APPROVAL",
                         requester |-> requests[r].requester,
                         capability |-> requests[r].capability,
                         required |-> requests[r].required,
                         yes |-> Approvers(r) \cup {a}, no |-> Rejecters(r)]]
      BY <1>6, <1>7, <2>3, <2>4 DEF Ballots
    <2>6. Contract!Approve(r, a)
      <3> DEFINE yes == Ballots[r].yes \cup {a}
      <3> DEFINE state == IF Cardinality(yes) >= Ballots[r].required
                          THEN "APPROVED" ELSE "PENDING_APPROVAL"
      <3>1. yes = Approvers(r) \cup {a} /\ Cardinality(yes) = n
        BY <1>8, <2>2
      <3>2. state = IF n >= requests[r].required THEN "APPROVED" ELSE "PENDING_APPROVAL"
        BY <1>8, <3>1
      <3> HIDE DEF yes, state
      <3>3. Contract!Cast(r, yes, Ballots[r].no, state)
        BY <1>8, <2>5, <3>1, <3>2 DEF Contract!Cast
      <3>4. Contract!Cardinality(yes) = Cardinality(yes)
        BY DEF Contract!Cardinality, Cardinality
      <3> QED
        BY <1>9, <3>3, <3>4 DEF Contract!Approve, yes, state
    <2> QED
      BY <2>6 DEF Contract!Next
  <1>11. CASE d = "REJECTED"
    <2>1. Derived(r, d, n) = "REJECTED"
      BY <1>11 DEF Derived
    <2>2. Approvers(r)' = Approvers(r) /\ Rejecters(r)' = {a}
      BY <1>5, <1>11
    <2>3. Ballots' = [Ballots EXCEPT ![r] =
                        [state |-> "REJECTED",
                         requester |-> requests[r].requester,
                         capability |-> requests[r].capability,
                         required |-> requests[r].required,
                         yes |-> Approvers(r), no |-> {a}]]
      BY <1>6, <1>7, <2>1, <2>2 DEF Ballots
    <2>4. Contract!Reject(r, a)
      BY <1>8, <1>9, <2>3 DEF Contract!Reject, Contract!Cast
    <2> QED
      BY <2>4 DEF Contract!Next
  <1> QED
    BY <1>10, <1>11 DEF Decision

(* The workflow over the tables implements the contract: crashes, failed   *)
(* saves, audits and idempotency rows are invisible to it, and every       *)
(* request is opened and decided as the contract says.                     *)
THEOREM ContractKept == Spec => KeepsContract
  <1>1. IInv /\ [Next]_vars => [Contract!Next]_Ballots
    <2> SUFFICES ASSUME IInv, [Next]_vars PROVE Contract!Next \/ Ballots' = Ballots
      OBVIOUS
    <2>1. CASE UNCHANGED Tables
      BY <2>1 DEF Tables, Ballots, BallotOf, Approvers, Rejecters
    <2> QED
      BY <2>1, StepOnRequests, OpenRefines, ApplyRefines
  <1> QED
    BY <1>1, ContractInit, Invariance, PTL DEF Spec, KeepsContract, Contract!Spec
=============================================================================
