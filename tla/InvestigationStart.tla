------------------------- MODULE InvestigationStart -------------------------
(***************************************************************************)
(* InvestigationService.start over PostgreSQL: several API processes, each *)
(* serving one request at a time (the service's RLock is held for the      *)
(* whole call), share the idempotency_keys and investigations tables. A    *)
(* request looks the key up, reserves it, runs the investigation, saves    *)
(* it and completes the key, each in a transaction of its own; the process *)
(* can die, or the step can raise, between any two of them.                *)
(*                                                                         *)
(* A response is abstracted to the exception it is about and its           *)
(* investigation_id. Audit events are not modelled here.                   *)
(***************************************************************************)
EXTENDS Naturals, FiniteSets

CONSTANTS
  Process,            \* API server processes
  Key,                \* idempotency keys of one organization
  Exception,          \* exception ids: the request fingerprint is the id
  NoKey, NoException, NoResponse,
  MaxInvestigations   \* bound: investigation ids drawn

ASSUME StartAssumption ==
  /\ NoKey \notin Key
  /\ NoException \notin Exception
  /\ NoResponse \notin [subject : Exception, id : Nat]
  /\ MaxInvestigations \in Nat

VARIABLES
  ledger,      \* idempotency_keys, by key
  saved,       \* the investigations table, with the key each row was made for
  nextId,      \* next fresh investigation_id
  proc,        \* the request each process is serving
  cache,       \* InvestigationService._idempotency of each process
  outcome,     \* what each process last answered
  disturbed    \* history: keys whose lease lapsed or whose row vanished mid-reserve

vars == <<ledger, saved, nextId, proc, cache, outcome, disturbed>>

Response == [subject : Exception, id : Nat]

Ledger == INSTANCE IdempotencyLedger
            WITH Hash <- Exception, Body <- Response,
                 NoHash <- NoException, NoBody <- NoResponse

Phase == {"idle", "reserving", "readback", "investigating", "saving",
          "completing", "releasing"}
Request == [phase : Phase, key : Key \cup {NoKey},
            subject : Exception \cup {NoException},
            response : Response \cup {NoResponse}]
Idle == [phase |-> "idle", key |-> NoKey, subject |-> NoException,
         response |-> NoResponse]
Answer == [kind : {"none", "ok", "conflict", "in_progress", "error"},
           key : Key \cup {NoKey}, response : Response \cup {NoResponse}]
NoAnswer == [kind |-> "none", key |-> NoKey, response |-> NoResponse]

TypeOK ==
  /\ ledger \in [Key -> Ledger!Row]
  /\ saved \subseteq [key : Key, response : Response]
  /\ nextId \in Nat
  /\ proc \in [Process -> Request]
  /\ cache \in [Process -> [Key -> Response \cup {NoResponse}]]
  /\ outcome \in [Process -> Answer]
  /\ disturbed \subseteq Key

Init ==
  /\ ledger = [k \in Key |-> Ledger!Absent]
  /\ saved = {}
  /\ nextId = 0
  /\ proc = [p \in Process |-> Idle]
  /\ cache = [p \in Process |-> [k \in Key |-> NoResponse]]
  /\ outcome = [p \in Process |-> NoAnswer]
  /\ disturbed = {}

-----------------------------------------------------------------------------
Enter(p, phase) == proc' = [proc EXCEPT ![p].phase = phase]

Answered(p, kind, k, r) ==
  /\ outcome' = [outcome EXCEPT ![p] = [kind |-> kind, key |-> k, response |-> r]]
  /\ proc' = [proc EXCEPT ![p] = Idle]

(* The three ways an existing row ends a request, in get_idempotency's     *)
(* caller and after a lost reservation alike.                              *)
AnswerFromRow(p, k, e) ==
  \/ /\ Ledger!Mismatch(ledger[k], e)
     /\ Answered(p, "conflict", k, NoResponse)
  \/ /\ Ledger!InProgress(ledger[k], e)
     /\ Answered(p, "in_progress", k, NoResponse)
  \/ /\ Ledger!Replayable(ledger[k], e)
     /\ Answered(p, "ok", k, ledger[k].body)

(* The key is known to the table.                                          *)
BeginReplay(p, k, e) ==
  /\ proc[p].phase = "idle"
  /\ AnswerFromRow(p, k, e)
  /\ UNCHANGED <<ledger, saved, nextId, cache, disturbed>>

(* The table has no row, but this process remembers the key.               *)
BeginCached(p, k, e) ==
  /\ proc[p].phase = "idle"
  /\ Ledger!Unused(ledger[k])
  /\ cache[p][k] # NoResponse
  /\ IF cache[p][k].subject = e
     THEN Answered(p, "ok", k, cache[p][k])
     ELSE Answered(p, "conflict", k, NoResponse)
  /\ UNCHANGED <<ledger, saved, nextId, cache, disturbed>>

(* Neither knows it, and the exception exists.                             *)
Begin(p, k, e) ==
  /\ proc[p].phase = "idle"
  /\ Ledger!Unused(ledger[k])
  /\ cache[p][k] = NoResponse
  /\ proc' = [proc EXCEPT ![p] = [phase |-> "reserving", key |-> k, subject |-> e,
                                  response |-> NoResponse]]
  /\ outcome' = [outcome EXCEPT ![p] = NoAnswer]
  /\ UNCHANGED <<ledger, saved, nextId, cache, disturbed>>

(* reserve_idempotency: the UPDATE of a lapsed row or the INSERT wins ...  *)
Reserve(p) ==
  LET k == proc[p].key IN
  /\ proc[p].phase = "reserving"
  /\ Ledger!Reservable(ledger[k])
  /\ ledger' = [ledger EXCEPT ![k] = Ledger!Pending(proc[p].subject)]
  /\ Enter(p, "investigating")
  /\ UNCHANGED <<saved, nextId, cache, outcome, disturbed>>

(* ... or the INSERT conflicts and the row is read by a later statement,   *)
ReserveLost(p) ==
  /\ proc[p].phase = "reserving"
  /\ ~ Ledger!Reservable(ledger[proc[p].key])
  /\ Enter(p, "readback")
  /\ UNCHANGED <<ledger, saved, nextId, cache, outcome, disturbed>>

ReadBack(p) ==
  /\ proc[p].phase = "readback"
  /\ AnswerFromRow(p, proc[p].key, proc[p].subject)
  /\ UNCHANGED <<ledger, saved, nextId, cache, disturbed>>

(* which may find the row released meanwhile: reserve_idempotency returns  *)
(* None, and the caller takes that for a reservation.                      *)
ReadBackNothing(p) ==
  /\ proc[p].phase = "readback"
  /\ Ledger!Unused(ledger[proc[p].key])
  /\ Enter(p, "investigating")
  /\ disturbed' = disturbed \cup {proc[p].key}
  /\ UNCHANGED <<ledger, saved, nextId, cache, outcome>>

(* Mutants: the investigation remembered is not the response; the key is   *)
(* completed before the save.                                              *)
InvestigateCachesSubject(p) ==
  LET r == [subject |-> proc[p].subject, id |-> nextId] IN
  /\ proc[p].phase = "investigating"
  /\ nextId < MaxInvestigations
  /\ nextId' = nextId + 1
  /\ proc' = [proc EXCEPT ![p].phase = "saving", ![p].response = r]
  /\ cache' = [cache EXCEPT ![p][proc[p].key] = proc[p].subject]
  /\ UNCHANGED <<ledger, saved, outcome, disturbed>>

InvestigateSkipsSave(p) ==
  LET r == [subject |-> proc[p].subject, id |-> nextId] IN
  /\ proc[p].phase = "investigating"
  /\ nextId < MaxInvestigations
  /\ nextId' = nextId + 1
  /\ proc' = [proc EXCEPT ![p].phase = "completing", ![p].response = r]
  /\ cache' = [cache EXCEPT ![p][proc[p].key] = r]
  /\ UNCHANGED <<ledger, saved, outcome, disturbed>>

(* _investigate returns; the response is remembered before it is saved.    *)
Investigate(p) ==
  LET r == [subject |-> proc[p].subject, id |-> nextId] IN
  /\ proc[p].phase = "investigating"
  /\ nextId < MaxInvestigations
  /\ nextId' = nextId + 1
  /\ proc' = [proc EXCEPT ![p].phase = "saving", ![p].response = r]
  /\ cache' = [cache EXCEPT ![p][proc[p].key] = r]
  /\ UNCHANGED <<ledger, saved, outcome, disturbed>>

Save(p) ==
  /\ proc[p].phase = "saving"
  /\ saved' = saved \cup {[key |-> proc[p].key, response |-> proc[p].response]}
  /\ Enter(p, "completing")
  /\ UNCHANGED <<ledger, nextId, cache, outcome, disturbed>>

SaveFails(p) ==
  /\ proc[p].phase = "saving"
  /\ Enter(p, "releasing")
  /\ UNCHANGED <<ledger, saved, nextId, cache, outcome, disturbed>>

ReleaseLease(p) ==
  LET k == proc[p].key IN
  /\ proc[p].phase = "releasing"
  /\ ledger' = [ledger EXCEPT ![k] = Ledger!Release(ledger[k])]
  /\ Answered(p, "error", k, NoResponse)
  /\ UNCHANGED <<saved, nextId, cache, disturbed>>

CompleteKey(p) ==
  LET k == proc[p].key IN
  /\ proc[p].phase = "completing"
  /\ ledger' = [ledger EXCEPT ![k] = Ledger!Complete(ledger[k], proc[p].response)]
  /\ Answered(p, "ok", k, proc[p].response)
  /\ UNCHANGED <<saved, nextId, cache, disturbed>>

(* Mutant: every failure releases the key, after the save too.             *)
RaiseReleases(p) ==
  LET k == proc[p].key IN
  /\ proc[p].phase \in {"investigating", "completing", "releasing"}
  /\ ledger' = [ledger EXCEPT ![k] = Ledger!Release(ledger[k])]
  /\ Answered(p, "error", k, NoResponse)
  /\ UNCHANGED <<saved, nextId, cache, disturbed>>

(* Outside the try around save_investigation an exception (no evidence for *)
(* the order, a lost connection) leaves the lease where it is.             *)
Raise(p) ==
  /\ proc[p].phase \in {"reserving", "readback", "investigating", "completing",
                         "releasing"}
  /\ Answered(p, "error", proc[p].key, NoResponse)
  /\ UNCHANGED <<ledger, saved, nextId, cache, disturbed>>

(* The process dies and restarts with empty memory.                        *)
Crash(p) ==
  /\ proc' = [proc EXCEPT ![p] = Idle]
  /\ outcome' = [outcome EXCEPT ![p] = NoAnswer]
  /\ cache' = [cache EXCEPT ![p] = [k \in Key |-> NoResponse]]
  /\ UNCHANGED <<ledger, saved, nextId, disturbed>>

(* idempotency_lease_seconds pass.                                         *)
LeaseEnds(k) ==
  /\ ledger[k].state = "pending"
  /\ ~ ledger[k].lapsed
  /\ ledger' = [ledger EXCEPT ![k] = Ledger!Lapse(ledger[k])]
  /\ disturbed' = disturbed \cup {k}
  /\ UNCHANGED <<saved, nextId, proc, cache, outcome>>

Next ==
  \/ \E p \in Process :
       \/ \E k \in Key, e \in Exception :
            BeginReplay(p, k, e) \/ BeginCached(p, k, e) \/ Begin(p, k, e)
       \/ Reserve(p) \/ ReserveLost(p) \/ ReadBack(p) \/ ReadBackNothing(p)
       \/ Investigate(p) \/ Save(p) \/ SaveFails(p) \/ ReleaseLease(p)
       \/ CompleteKey(p) \/ Raise(p) \/ Crash(p)
  \/ \E k \in Key : LeaseEnds(k)

Spec == Init /\ [][Next]_vars

-----------------------------------------------------------------------------
(* The processes between a reservation of k and their answer.              *)
Working(k) == {p \in Process :
                 /\ proc[p].phase \in {"investigating", "saving", "completing", "releasing"}
                 /\ proc[p].key = k}

(* While no lease of a key lapses and no row vanishes under a reservation, *)
(* the reservation is a lock: one process at a time works for the key, and *)
(* the row it reserved is still its own when it completes or releases it,  *)
(* whatever requests of other processes are doing to the key meanwhile.    *)
LeaseExcludes ==
  \A k \in Key \ disturbed :
    \A p \in Working(k) :
      /\ Working(k) = {p}
      /\ ledger[k].state = "pending"
      /\ ledger[k].hash = proc[p].subject

(* Under the same condition a key never pays for two saved investigations, *)
(* through crashes, failed saves and retries on other processes.           *)
OneInvestigationPerKey ==
  \A k \in Key \ disturbed :
    \A x, y \in saved : x.key = k /\ y.key = k => x = y

(* Under the same condition the response a key replays answers the request *)
(* whose fingerprint the key carries.                                      *)
ReplayCompatible ==
  \A k \in Key \ disturbed :
    ledger[k].state = "done" => ledger[k].body.subject = ledger[k].hash

(* A completed key only ever replays an investigation that the table holds *)
(* for it: completion never overtakes the save, and a late worker whose    *)
(* lease another process took over does not break it.                      *)
CompletedIsSaved ==
  \A k \in Key :
    ledger[k].state = "done" => [key |-> k, response |-> ledger[k].body] \in saved

(* A completed key is final: no late worker, release or takeover changes   *)
(* or removes the response that clients were promised on a retry.          *)
CompletedIsFinal ==
  [][\A k \in Key : ledger[k].state = "done" => ledger'[k] = ledger[k]]_vars

-----------------------------------------------------------------------------
(* What the documents say and the code does not do.                        *)

(* docs/architecture.md:99, "PostgreSQL leases reclaim expired pending     *)
(* work": a retry is turned away as in progress only while the lease runs. *)
ExpiredLeaseIsReclaimed ==
  [][\A p \in Process :
       outcome'[p].kind = "in_progress" /\ outcome'[p] # outcome[p]
         => ~ ledger[outcome'[p].key].lapsed]_vars

(* docs/decisions.md:33, investigations "must survive API process          *)
(* restarts": a response that a client received is in the table.           *)
AnsweredIsSaved ==
  \A p \in Process :
    outcome[p].kind = "ok"
      => [key |-> outcome[p].key, response |-> outcome[p].response] \in saved
=============================================================================
