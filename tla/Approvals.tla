------------------------------ MODULE Approvals ------------------------------
(***************************************************************************)
(* ControlsService over PostgreSQL: requests for resolution and decisions  *)
(* on them, served by several API processes that share the tables. Each    *)
(* process serves one request at a time (the service's RLock), and every   *)
(* repository call is a transaction of its own, so a process can die, or   *)
(* a call raise, between any two of them.                                  *)
(*                                                                         *)
(* The process-local copies in _requests and _request_idempotency are left *)
(* out. They are written after complete_idempotency and consulted only for *)
(* a key the table does not know; a completed key stays known, so they can *)
(* only answer for a key whose row a late worker deleted. There the model  *)
(* lets the call go on where the code may replay.                          *)
(***************************************************************************)
EXTENDS Naturals, FiniteSets

CONSTANTS
  Process, Key, Request, Actor, Exception, Action,
  RoleOf,            \* RoleOf[a]: the role in the actor's token
  TypeOf,            \* TypeOf[e], StatusOf[e], ExposureOf[e]: the exception
  StatusOf,
  ExposureOf,
  Allowed,           \* Allowed[e]: action_allowed, by exception
  None               \* no actor, request, key or value

Role == {"ANALYST", "FINANCE_MANAGER", "CONTROLLER", "AUDITOR"}
Low  == "resolution.approve.low"
High == "resolution.approve.high"
Decision == {"APPROVED", "REJECTED"}
Status   == {"PENDING_APPROVAL", "APPROVED", "REJECTED"}

-----------------------------------------------------------------------------
(* ActorContext.capabilities, as far as this service asks for them.        *)
Capabilities(a) ==
  CASE RoleOf[a] = "ANALYST"         -> {"resolution.request"}
    [] RoleOf[a] = "FINANCE_MANAGER" -> {"resolution.request", Low}
    [] RoleOf[a] = "CONTROLLER"      -> {"resolution.request", Low, High}
    [] OTHER                         -> {}

Plan(c, n) == [capability |-> c, required |-> n]

(* Mutant: the upper limit dropped.                                        *)
ApprovalPlanSingle(e) ==
  IF ExposureOf[e] <= 10000 THEN Plan(Low, 1) ELSE Plan(High, 1)

(* approval_plan                                                           *)
ApprovalPlan(e) ==
  CASE TypeOf[e] \in {"DUPLICATE_PAYMENT", "AMBIGUOUS_ASSOCIATION"}
         \/ StatusOf[e] = "ESCALATED" -> Plan(High, 1)
    [] OTHER -> IF ExposureOf[e] <= 10000 THEN Plan(Low, 1)
                ELSE IF ExposureOf[e] <= 100000 THEN Plan(High, 1)
                ELSE Plan(High, 2)

-----------------------------------------------------------------------------
VARIABLES
  requests,    \* approval_requests, by request
  decisions,   \* approval_decisions: unique by request and actor
  ledger,      \* idempotency_keys, by key
  audit,       \* audit_events
  proc,        \* the call each process is serving
  disturbed    \* history: keys whose lease lapsed or whose row vanished mid-reserve

vars == <<requests, decisions, ledger, audit, proc, disturbed>>

(* _request_hash and _approval_hash: one record shape for both.            *)
Hash == [exception : Exception \cup {None}, action : Action \cup {None},
         request : Request \cup {None}, decision : Decision \cup {None}]
RequestHash(e, act) == [exception |-> e, action |-> act, request |-> None, decision |-> None]
ApprovalHash(r, d)  == [exception |-> None, action |-> None, request |-> r, decision |-> d]

(* ResolutionRequestResponse (decision None) and ApprovalResponse.         *)
Response == [request : Request, actor : Actor, decision : Decision \cup {None},
             status : Status, received : 0 .. 2]

ASSUME ApprovalsAssumption ==
  /\ IsFiniteSet(Actor)
  /\ RoleOf \in [Actor -> Role]
  /\ ExposureOf \in [Exception -> Nat]
  /\ Allowed \in [Exception -> SUBSET Action]
  /\ None \notin Key \cup Request \cup Actor \cup Exception \cup Action
                    \cup Decision \cup {Low, High} \cup Response

Ledger == INSTANCE IdempotencyLedger
            WITH Body <- Response, NoHash <- None, NoBody <- None

NoRequest == [status |-> "unopened", exception |-> None, requester |-> None, key |-> None,
              capability |-> None, required |-> 0, received |-> 0]
RequestRow == [status : Status \cup {"unopened"}, exception : Exception \cup {None},
               requester : Actor \cup {None}, key : Key \cup {None},
               capability : {Low, High, None}, required : 0 .. 2, received : 0 .. 2]

Phase == {"idle", "reserving", "readback", "saving", "releasing", "completing",
          "applying", "putting", "auditing"}
Idle == [phase |-> "idle", key |-> None, hash |-> None, actor |-> None, response |-> None]
Call == [phase : Phase, key : Key \cup {None}, hash : Hash \cup {None},
         actor : Actor \cup {None}, response : Response \cup {None}]

Event == [action : {"APPROVAL_REQUESTED", "APPROVAL_GRANTED", "APPROVAL_REJECTED"},
          request : Request, actor : Actor]

TypeOK ==
  /\ requests \in [Request -> RequestRow]
  /\ decisions \in [Request -> [Actor -> Decision \cup {None}]]
  /\ ledger \in [Key -> Ledger!Row]
  /\ audit \subseteq Event
  /\ proc \in [Process -> Call]
  /\ disturbed \subseteq Key

Init ==
  /\ requests = [r \in Request |-> NoRequest]
  /\ decisions = [r \in Request |-> [a \in Actor |-> None]]
  /\ ledger = [k \in Key |-> Ledger!Absent]
  /\ audit = {}
  /\ proc = [p \in Process |-> Idle]
  /\ disturbed = {}

-----------------------------------------------------------------------------
Enter(p, phase) == proc' = [proc EXCEPT ![p].phase = phase]
Return(p)       == proc' = [proc EXCEPT ![p] = Idle]

(* A call that finds its key in the table is answered from the row or      *)
(* refused; either way it changes nothing, which is a stuttering step. The *)
(* calls below are those that find no row, and those a row stops later.    *)

(* request_resolution up to the reservation. The fresh REQ- id is drawn    *)
(* when the call begins.                                                   *)
RequestResolution(p, a, k, e, act, r) ==
  /\ proc[p].phase = "idle"
  /\ "resolution.request" \in Capabilities(a)
  /\ Ledger!Unused(ledger[k])
  /\ act \in Allowed[e]
  /\ requests[r] = NoRequest
  /\ \A q \in Process : proc[q].response # None => proc[q].response.request # r
  /\ proc' = [proc EXCEPT ![p] =
                [phase |-> "reserving", key |-> k, hash |-> RequestHash(e, act), actor |-> a,
                 response |-> [request |-> r, actor |-> a, decision |-> None,
                               status |-> "PENDING_APPROVAL", received |-> 0]]]
  /\ UNCHANGED <<requests, decisions, ledger, audit, disturbed>>

(* reserve_idempotency: the UPDATE of a lapsed row or the INSERT wins ...  *)
Reserve(p) ==
  LET k == proc[p].key IN
  /\ proc[p].phase = "reserving"
  /\ Ledger!Reservable(ledger[k])
  /\ ledger' = [ledger EXCEPT ![k] = Ledger!Pending(proc[p].hash)]
  /\ Enter(p, "saving")
  /\ UNCHANGED <<requests, decisions, audit, disturbed>>

(* ... or the INSERT conflicts and the row is read by a later statement:   *)
(* the call is answered from it or refused, ...                            *)
ReserveLost(p) ==
  /\ proc[p].phase = "reserving"
  /\ ~ Ledger!Reservable(ledger[proc[p].key])
  /\ Enter(p, "readback")
  /\ UNCHANGED <<requests, decisions, ledger, audit, disturbed>>

ReadBack(p) ==
  /\ proc[p].phase = "readback"
  /\ ~ Ledger!Unused(ledger[proc[p].key])
  /\ Return(p)
  /\ UNCHANGED <<requests, decisions, ledger, audit, disturbed>>

(* ... unless the row was released meanwhile, which the caller takes for a *)
(* reservation.                                                            *)
ReadBackNothing(p) ==
  /\ proc[p].phase = "readback"
  /\ Ledger!Unused(ledger[proc[p].key])
  /\ Enter(p, "saving")
  /\ disturbed' = disturbed \cup {proc[p].key}
  /\ UNCHANGED <<requests, decisions, ledger, audit>>

Opened(e, a, k) ==
  [status |-> "PENDING_APPROVAL", exception |-> e, requester |-> a, key |-> k,
   capability |-> ApprovalPlan(e).capability, required |-> ApprovalPlan(e).required,
   received |-> 0]

(* save_resolution_request; the key is kept in the row for the properties. *)
SaveRequest(p) ==
  LET r == proc[p].response.request IN
  /\ proc[p].phase = "saving"
  /\ requests' = [requests EXCEPT
                    ![r] = Opened(proc[p].hash.exception, proc[p].actor, proc[p].key)]
  /\ Enter(p, "completing")
  /\ UNCHANGED <<decisions, ledger, audit, disturbed>>

SaveRequestFails(p) ==
  /\ proc[p].phase = "saving"
  /\ Enter(p, "releasing")
  /\ UNCHANGED <<requests, decisions, ledger, audit, disturbed>>

ReleaseLease(p) ==
  LET k == proc[p].key IN
  /\ proc[p].phase = "releasing"
  /\ ledger' = [ledger EXCEPT ![k] = Ledger!Release(ledger[k])]
  /\ Return(p)
  /\ UNCHANGED <<requests, decisions, audit, disturbed>>

CompleteRequest(p) ==
  LET k == proc[p].key IN
  /\ proc[p].phase = "completing"
  /\ ledger' = [ledger EXCEPT ![k] = Ledger!Complete(ledger[k], proc[p].response)]
  /\ Enter(p, "auditing")
  /\ UNCHANGED <<requests, decisions, audit, disturbed>>

-----------------------------------------------------------------------------
(* Mutant: the requester is not turned away.                               *)
AuthorizedIfCapable(a, r) ==
  /\ RoleOf[a] \in {"FINANCE_MANAGER", "CONTROLLER"}
  /\ requests[r].capability \in Capabilities(a)

(* _validate_decision. It looks at columns of the request that never       *)
(* change; its status is only looked at under the row lock.                *)
Authorized(a, r) ==
  /\ RoleOf[a] \in {"FINANCE_MANAGER", "CONTROLLER"}
  /\ requests[r].capability \in Capabilities(a)
  /\ a # requests[r].requester

(* Mutant: the key is stored before the decision is applied.               *)
DecidePutsFirst(p, a, k, r, d) ==
  /\ proc[p].phase = "idle"
  /\ requests[r] # NoRequest
  /\ Ledger!Unused(ledger[k])
  /\ Authorized(a, r)
  /\ proc' = [proc EXCEPT ![p] =
                [phase |-> "applying", key |-> k, hash |-> ApprovalHash(r, d), actor |-> a,
                 response |-> None]]
  /\ ledger' = [ledger EXCEPT ![k] =
                  Ledger!Done(ApprovalHash(r, d),
                              [request |-> r, actor |-> a, decision |-> d,
                               status |-> "PENDING_APPROVAL", received |-> 0])]
  /\ UNCHANGED <<requests, decisions, audit, disturbed>>

(* approve and reject up to the decision.                                  *)
Decide(p, a, k, r, d) ==
  /\ proc[p].phase = "idle"
  /\ requests[r] # NoRequest
  /\ Ledger!Unused(ledger[k])
  /\ Authorized(a, r)
  /\ proc' = [proc EXCEPT ![p] =
                [phase |-> "applying", key |-> k, hash |-> ApprovalHash(r, d), actor |-> a,
                 response |-> None]]
  /\ UNCHANGED <<requests, decisions, ledger, audit, disturbed>>

Approvers(r) == {a \in Actor : decisions[r][a] = "APPROVED"}

(* The state of a request derived from its decisions.                      *)
Derived(r, d, received) ==
  IF d = "REJECTED" THEN "REJECTED"
  ELSE IF received >= requests[r].required THEN "APPROVED" ELSE "PENDING_APPROVAL"

(* Mutant: the decision is appended and the state derived without looking  *)
(* at the status under the lock.                                           *)
ApplyAnyStatus(p) ==
  LET r == proc[p].hash.request
      d == proc[p].hash.decision
      a == proc[p].actor
      received == Cardinality(Approvers(r) \cup (IF d = "APPROVED" THEN {a} ELSE {}))
      status == Derived(r, d, received)
  IN
  /\ proc[p].phase = "applying"
  /\ decisions[r][a] = None
  /\ decisions' = [decisions EXCEPT ![r][a] = d]
  /\ requests' = [requests EXCEPT ![r].status = status, ![r].received = received]
  /\ proc' = [proc EXCEPT ![p].phase = "putting",
                ![p].response = [request |-> r, actor |-> a, decision |-> d,
                                 status |-> status, received |-> received]]
  /\ UNCHANGED <<ledger, audit, disturbed>>

(* Mutant: the state is derived from the count read before the insert.     *)
ApplyStaleCount(p) ==
  LET r == proc[p].hash.request
      d == proc[p].hash.decision
      a == proc[p].actor
      received == Cardinality(Approvers(r))
      status == Derived(r, d, received)
  IN
  /\ proc[p].phase = "applying"
  /\ requests[r].status = "PENDING_APPROVAL"
  /\ decisions[r][a] = None
  /\ decisions' = [decisions EXCEPT ![r][a] = d]
  /\ requests' = [requests EXCEPT ![r].status = status, ![r].received = received]
  /\ proc' = [proc EXCEPT ![p].phase = "putting",
                ![p].response = [request |-> r, actor |-> a, decision |-> d,
                                 status |-> status, received |-> received]]
  /\ UNCHANGED <<ledger, audit, disturbed>>

(* apply_approval_decision: one transaction under the lock of the request. *)
Apply(p) ==
  LET r == proc[p].hash.request
      d == proc[p].hash.decision
      a == proc[p].actor
      received == Cardinality(Approvers(r) \cup (IF d = "APPROVED" THEN {a} ELSE {}))
      status == Derived(r, d, received)
  IN
  /\ proc[p].phase = "applying"
  /\ requests[r].status = "PENDING_APPROVAL"
  /\ decisions[r][a] = None
  /\ decisions' = [decisions EXCEPT ![r][a] = d]
  /\ requests' = [requests EXCEPT ![r].status = status, ![r].received = received]
  /\ proc' = [proc EXCEPT ![p].phase = "putting",
                ![p].response = [request |-> r, actor |-> a, decision |-> d,
                                 status |-> status, received |-> received]]
  /\ UNCHANGED <<ledger, audit, disturbed>>

(* ... which refuses a request that is decided, and an actor's second      *)
(* decision on one.                                                        *)
ApplyRefused(p) ==
  LET r == proc[p].hash.request IN
  /\ proc[p].phase = "applying"
  /\ \/ requests[r].status # "PENDING_APPROVAL"
     \/ decisions[r][proc[p].actor] # None
  /\ Return(p)
  /\ UNCHANGED <<requests, decisions, ledger, audit, disturbed>>

(* Mutant: the fingerprint and the response change places.                 *)
PutKeySwapped(p) ==
  LET k == proc[p].key IN
  /\ proc[p].phase = "putting"
  /\ ledger' = [ledger EXCEPT ![k] = Ledger!Put(ledger[k], proc[p].response, proc[p].hash)]
  /\ Enter(p, "auditing")
  /\ UNCHANGED <<requests, decisions, audit, disturbed>>

(* put_idempotency, which leaves a row that came first alone.              *)
PutKey(p) ==
  LET k == proc[p].key IN
  /\ proc[p].phase = "putting"
  /\ ledger' = [ledger EXCEPT ![k] = Ledger!Put(ledger[k], proc[p].hash, proc[p].response)]
  /\ Enter(p, "auditing")
  /\ UNCHANGED <<requests, decisions, audit, disturbed>>

EventOf(d) == CASE d = "APPROVED" -> "APPROVAL_GRANTED"
                [] d = "REJECTED" -> "APPROVAL_REJECTED"
                [] OTHER          -> "APPROVAL_REQUESTED"

RecordAudit(p) ==
  LET x == proc[p].response IN
  /\ proc[p].phase = "auditing"
  /\ audit' = audit \cup {[action |-> EventOf(x.decision), request |-> x.request,
                           actor |-> x.actor]}
  /\ Return(p)
  /\ UNCHANGED <<requests, decisions, ledger, disturbed>>

(* The process dies, or the next repository call raises.                   *)
Abort(p) ==
  /\ proc[p].phase # "idle"
  /\ Return(p)
  /\ UNCHANGED <<requests, decisions, ledger, audit, disturbed>>

(* idempotency_lease_seconds pass.                                         *)
LeaseEnds(k) ==
  /\ ledger[k].state = "pending"
  /\ ~ ledger[k].lapsed
  /\ ledger' = [ledger EXCEPT ![k] = Ledger!Lapse(ledger[k])]
  /\ disturbed' = disturbed \cup {k}
  /\ UNCHANGED <<requests, decisions, audit, proc>>

Next ==
  \/ \E p \in Process :
       \/ \E a \in Actor, k \in Key :
            \/ \E e \in Exception, act \in Action, r \in Request :
                 RequestResolution(p, a, k, e, act, r)
            \/ \E r \in Request, d \in Decision : Decide(p, a, k, r, d)
       \/ Reserve(p) \/ ReserveLost(p) \/ ReadBack(p) \/ ReadBackNothing(p)
       \/ SaveRequest(p) \/ SaveRequestFails(p) \/ ReleaseLease(p) \/ CompleteRequest(p)
       \/ Apply(p) \/ ApplyRefused(p) \/ PutKey(p)
       \/ RecordAudit(p) \/ Abort(p)
  \/ \E k \in Key : LeaseEnds(k)

Spec == Init /\ [][Next]_vars

-----------------------------------------------------------------------------
Rejecters(r) == {a \in Actor : decisions[r][a] = "REJECTED"}

(* The state of a request is the one its recorded decisions imply, however *)
(* the decisions of several processes interleave: no approval is lost or   *)
(* counted twice, and approvals that came before a rejection stay counted. *)
StatusFollowsDecisions ==
  \A r \in Request :
    LET q == requests[r] IN
    /\ q.received = Cardinality(Approvers(r))
    /\ q.status = "APPROVED" <=> q.received > 0 /\ q.received = q.required
    /\ q.status = "REJECTED" <=> Rejecters(r) # {}
    /\ Cardinality(Rejecters(r)) <= 1

(* Four eyes: nobody decides a request of their own, or one above their    *)
(* capability, and an ordinary exposure above 100000 is only approved by   *)
(* two controllers.                                                        *)
FourEyes ==
  \A r \in Request :
    LET q == requests[r] IN
    /\ \A a \in Approvers(r) \cup Rejecters(r) :
         a # q.requester /\ q.capability \in Capabilities(a)
    /\ q.status = "APPROVED" /\ ExposureOf[q.exception] > 100000
         /\ TypeOf[q.exception] \notin {"DUPLICATE_PAYMENT", "AMBIGUOUS_ASSOCIATION"}
         /\ StatusOf[q.exception] # "ESCALATED"
         => \E a, b \in Approvers(r) \ {q.requester} :
              a # b /\ RoleOf[a] = "CONTROLLER" /\ RoleOf[b] = "CONTROLLER"

(* While no lease of a key lapses and no row vanishes under a reservation, *)
(* the key opens at most one request, through races of two processes on    *)
(* the key, crashes, failed saves and retries.                             *)
OneRequestPerKey ==
  \A r, s \in Request :
    requests[r].key \notin disturbed \cup {None} /\ requests[r].key = requests[s].key
      => r = s

(* What a retry is answered with is what happened: a completed key holds   *)
(* the request it opened, or a decision that is on record for that actor.  *)
ReplayIsRecorded ==
  \A k \in Key :
    ledger[k].state = "done"
      => LET x == ledger[k].body IN
         IF x.decision = None
         THEN requests[x.request].key = k /\ requests[x.request].requester = x.actor
         ELSE /\ ledger[k].hash = ApprovalHash(x.request, x.decision)
              /\ decisions[x.request][x.actor] = x.decision

(* A decided request and its decisions are final, and no decision of an    *)
(* actor is ever changed or withdrawn.                                     *)
DecidedIsFinal ==
  [][\A r \in Request :
       /\ requests[r].status \in {"APPROVED", "REJECTED"}
            => requests'[r] = requests[r] /\ decisions'[r] = decisions[r]
       /\ \A a \in Actor :
            decisions[r][a] # None => decisions'[r][a] = decisions[r][a]]_vars

(* The tables, read as ballots, follow ApprovalContract.                   *)
BallotOf(r) ==
  [state |-> requests[r].status, requester |-> requests[r].requester,
   capability |-> requests[r].capability, required |-> requests[r].required,
   yes |-> Approvers(r), no |-> Rejecters(r)]

Ballots == [r \in Request |-> BallotOf(r)]

Contract == INSTANCE ApprovalContract
              WITH Capability <- {Low, High},
                   Holder <- [c \in {Low, High} |-> {a \in Actor : c \in Capabilities(a)}],
                   NoActor <- None, NoCapability <- None,
                   ballot <- Ballots

KeepsContract == Contract!Spec

-----------------------------------------------------------------------------
(* What the documents say and the code does not do.                        *)

(* docs/data_api.md:225: approve "validates ... in one transaction, then   *)
(* writes an approval decision and audit event". With no call under way,   *)
(* every recorded decision has its audit event.                            *)
DecisionIsAudited ==
  (\A p \in Process : proc[p] = Idle)
    => \A r \in Request, a \in Actor :
         decisions[r][a] # None
           => [action |-> EventOf(decisions[r][a]), request |-> r, actor |-> a] \in audit

(* docs/PRD.md:1450: above 100000, "Controller + secondary approval".      *)
LargeExposureHasTwoApprovers ==
  \A r \in Request :
    requests[r].status = "APPROVED" /\ ExposureOf[requests[r].exception] > 100000
      => Cardinality(Approvers(r)) >= 2
=============================================================================
