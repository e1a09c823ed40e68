--------------------------- MODULE DatasetPipeline ---------------------------
(***************************************************************************)
(* From confirmed mappings to a reconciliation run, for one financial      *)
(* investigation over PostgreSQL: RelationshipDiscoveryService.discover    *)
(* and decide, NormalizationService.normalize and ReconciliationService.run.*)
(* None of the services has a lock. A process serves a call at a time; a   *)
(* step is one transaction of the repository, so calls interleave between  *)
(* any two, and a call can raise or its process die at any of them.        *)
(*                                                                         *)
(* A pair of sources stands for its proposal, whose id is a hash of it. A  *)
(* dataset is abstracted to sound: whether all its rows find their place   *)
(* in a lifecycle (construct_lifecycles, _consumed_record_count). The      *)
(* evidence of a proposal and the audit events are left out.               *)
(***************************************************************************)
EXTENDS Naturals, FiniteSets

CONSTANTS
  Process, Key,
  Pair,              \* pairs of sources
  Decision,          \* ACCEPTED, REJECTED, EDITED
  None,              \* no operation, key, answer, pair or decision
  Operation,         \* names of the operations that clients ask for
  MaxVersions,       \* bound: version numbers drawn
  MaxClock,          \* bound: readings of the clock
  MaxCalls           \* bound: calls begun

ASSUME PipelineAssumption ==
  /\ Operation \subseteq {"discover", "decide", "normalize", "reconcile"}
  /\ {"absent", "PROPOSED"} \cap Decision = {}
  /\ None \notin Key \cup Pair \cup Decision
  /\ MaxVersions \in Nat /\ MaxClock \in Nat /\ MaxCalls \in Nat

VARIABLES
  proposals,   \* relationship_proposals.status, by pair
  versions,    \* dataset_versions
  runs,        \* financial_reconciliation_runs
  status,      \* financial_investigations.status
  clock,       \* datetime.now, as far as runs read it
  ledger,      \* idempotency_keys, by key
  begun,       \* calls begun so far
  proc,        \* the call each process is serving
  contended,   \* history: pairs that two decisions found PROPOSED together
  disturbed    \* history: keys whose lease lapsed or whose row vanished mid-reserve

tables == <<proposals, versions, runs, status>>
history == <<contended, disturbed>>
vars == <<proposals, versions, runs, status, clock, ledger, begun, proc, contended, disturbed>>

(* The request a key stands for; version 0 is "the latest".                *)
Op == [op : {"discover", "decide", "normalize", "reconcile"},
       pair : Pair \cup {None}, decision : Decision \cup {None}, version : Nat]
Discover     == [op |-> "discover",  pair |-> None, decision |-> None, version |-> 0]
Decide(r, d) == [op |-> "decide",    pair |-> r,    decision |-> d,    version |-> 0]
Normalize    == [op |-> "normalize", pair |-> None, decision |-> None, version |-> 0]
Reconcile(n) == [op |-> "reconcile", pair |-> None, decision |-> None, version |-> n]

(* A response: the version it is about, the start of its run, a decision.  *)
Response == [version : Nat, started : Nat, decision : Decision \cup {None, "absent", "PROPOSED"}]
Answer(n, t, d) == [version |-> n, started |-> t, decision |-> d]

Ledger == INSTANCE IdempotencyLedger
            WITH Hash <- Op, Body <- Response, NoHash <- None, NoBody <- None

(* reviewed: the proposals normalize listed; by: the key of the call that  *)
(* wrote the row. Both are history.                                        *)
Version == [no : Nat, sound : BOOLEAN, reviewed : SUBSET Pair, by : Key]
Run == [started : Nat, version : Nat, status : {"COMPLETED", "INCOMPLETE"}, by : Key]

Phase == {"idle", "reserving", "readback", "profiling", "looking", "deciding", "counting",
          "preparing", "numbering", "loading", "stamping", "saving", "rereading",
          "completing", "publishing", "releasing"}
Call == [phase : Phase, op : Op \cup {None}, key : Key \cup {None}, seen : SUBSET Pair,
         sound : BOOLEAN, no : Nat, started : Nat, answer : Response \cup {None}]
Idle == [phase |-> "idle", op |-> None, key |-> None, seen |-> {}, sound |-> FALSE,
         no |-> 0, started |-> 0, answer |-> None]

Status == {"RELATIONSHIP_REVIEW", "READY_TO_BUILD", "PROCESSING", "RECONCILED", "FAILED"}

TypeOK ==
  /\ proposals \in [Pair -> {"absent", "PROPOSED"} \cup Decision]
  /\ versions \subseteq Version
  /\ runs \subseteq Run
  /\ status \in Status
  /\ clock \in Nat
  /\ ledger \in [Key -> Ledger!Row]
  /\ begun \in Nat
  /\ proc \in [Process -> Call]
  /\ contended \subseteq Pair
  /\ disturbed \subseteq Key

(* Every source is READY: the last confirmation left the investigation in  *)
(* RELATIONSHIP_REVIEW.                                                    *)
Init ==
  /\ proposals = [r \in Pair |-> "absent"]
  /\ versions = {}
  /\ runs = {}
  /\ status = "RELATIONSHIP_REVIEW"
  /\ clock = 0
  /\ ledger = [k \in Key |-> Ledger!Absent]
  /\ begun = 0
  /\ proc = [p \in Process |-> Idle]
  /\ contended = {}
  /\ disturbed = {}

Open     == {r \in Pair : proposals[r] = "PROPOSED"}
Decided  == {r \in Pair : proposals[r] \in Decision}
Proposed == Open \cup Decided
Numbers  == {v.no : v \in versions}

(* latest_dataset_version, latest_reconciliation_run: 0 when there is none.*)
Latest(S) == CHOOSE n \in S \cup {0} : \A m \in S : m <= n
LatestRun == CHOOSE x \in runs : \A y \in runs : y.started <= x.started

At(p, phase)    == proc[p].phase = phase
Enter(p, phase) == proc' = [proc EXCEPT ![p].phase = phase]
Return(p)       == proc' = [proc EXCEPT ![p] = Idle]

-----------------------------------------------------------------------------
(* A call that finds its key in the table is answered from the row or      *)
(* refused, and changes nothing. The others begin here: discover and       *)
(* decide reserve the key at once, normalize and run read first.           *)
FirstPhase(o) == CASE o.op = "normalize" -> "preparing"
                   [] o.op = "reconcile" -> "loading"
                   [] OTHER              -> "reserving"

Begin(p, k, o) ==
  /\ At(p, "idle")
  /\ begun < MaxCalls
  /\ begun' = begun + 1
  /\ Ledger!Unused(ledger[k])
  /\ proc' = [proc EXCEPT ![p] = [Idle EXCEPT !.phase = FirstPhase(o), !.op = o, !.key = k]]
  /\ UNCHANGED <<tables, clock, ledger, history>>

(* Mutant: normalize without the look at the proposals.                    *)
PrepareUnreviewed(p, sound) ==
  /\ At(p, "preparing")
  /\ proc' = [proc EXCEPT ![p].phase = "reserving", ![p].seen = Proposed, ![p].sound = sound]
  /\ UNCHANGED <<tables, clock, ledger, begun, history>>

(* normalize up to the reservation: no proposal is open, and the sources   *)
(* give rows. Otherwise NormalizationBlocked ends the call (Abandon).      *)
Prepare(p, sound) ==
  /\ At(p, "preparing")
  /\ Open = {}
  /\ proc' = [proc EXCEPT ![p].phase = "reserving", ![p].seen = Proposed, ![p].sound = sound]
  /\ UNCHANGED <<tables, clock, ledger, begun, history>>

(* run up to the reservation: the version and its rows. What they amount   *)
(* to decides whether started_at is read now (the results are there) or in *)
(* _persist_incomplete, after the reservation.                             *)
Load(p) ==
  /\ At(p, "loading")
  /\ \E v \in versions :
       /\ v.no = IF proc[p].op.version = 0 THEN Latest(Numbers) ELSE proc[p].op.version
       /\ proc' = [proc EXCEPT ![p].phase = IF v.sound THEN "stamping" ELSE "reserving",
                               ![p].no = v.no, ![p].sound = v.sound]
  /\ UNCHANGED <<tables, clock, ledger, begun, history>>

Stamp(p) ==
  /\ At(p, "stamping")
  /\ clock < MaxClock
  /\ clock' = clock + 1
  /\ proc' = [proc EXCEPT ![p].phase = IF proc[p].sound THEN "reserving" ELSE "saving",
                          ![p].started = clock + 1]
  /\ UNCHANGED <<tables, ledger, begun, history>>

(* What a call does once the key is its own.                               *)
Work(c) == CASE c.op.op = "discover"  -> "profiling"
             [] c.op.op = "decide"    -> "looking"
             [] c.op.op = "normalize" -> "numbering"
             [] OTHER                 -> IF c.sound THEN "saving" ELSE "stamping"

Reserve(p) ==
  LET k == proc[p].key IN
  /\ At(p, "reserving")
  /\ Ledger!Reservable(ledger[k])
  /\ ledger' = [ledger EXCEPT ![k] = Ledger!Pending(proc[p].op)]
  /\ Enter(p, Work(proc[p]))
  /\ UNCHANGED <<tables, clock, begun, history>>

ReserveLost(p) ==
  /\ At(p, "reserving")
  /\ ~ Ledger!Reservable(ledger[proc[p].key])
  /\ Enter(p, "readback")
  /\ UNCHANGED <<tables, clock, ledger, begun, history>>

(* The row is read by a later statement; one released meanwhile is taken   *)
(* for a reservation.                                                      *)
ReadBack(p) ==
  LET k == proc[p].key IN
  /\ At(p, "readback")
  /\ IF Ledger!Unused(ledger[k])
     THEN Enter(p, Work(proc[p])) /\ disturbed' = disturbed \cup {k}
     ELSE Return(p) /\ disturbed' = disturbed
  /\ UNCHANGED <<tables, clock, ledger, begun, contended>>

-----------------------------------------------------------------------------
(* Mutant: the upsert writes the status too.                               *)
UpsertResets(p, found) ==
  /\ At(p, "profiling")
  /\ proposals' = [r \in Pair |-> IF r \in found THEN "PROPOSED" ELSE proposals[r]]
  /\ Enter(p, "publishing")
  /\ UNCHANGED <<versions, runs, status, clock, ledger, begun, history>>

(* _discover: the pairs that share a confirmed join field, as the mappings *)
(* are now; ON CONFLICT updates all of a row but its status.               *)
Upsert(p, found) ==
  /\ At(p, "profiling")
  /\ proposals' = [r \in Pair |-> IF r \in found \ Proposed THEN "PROPOSED" ELSE proposals[r]]
  /\ Enter(p, "publishing")
  /\ UNCHANGED <<versions, runs, status, clock, ledger, begun, history>>

(* decide lists the proposals; one that is unknown or decided ends the     *)
(* call with a release of the key.                                         *)
Look(p) ==
  LET r == proc[p].op.pair IN
  /\ At(p, "looking")
  /\ Enter(p, IF r \in Open THEN "deciding" ELSE "releasing")
  /\ contended' = IF \E q \in Process \ {p} : At(q, "deciding") /\ proc[q].op.pair = r
                  THEN contended \cup {r} ELSE contended
  /\ UNCHANGED <<tables, clock, ledger, begun, disturbed>>

(* update_relationship_proposal writes whatever the status is by now.      *)
Apply(p) ==
  /\ At(p, "deciding")
  /\ proposals' = [proposals EXCEPT ![proc[p].op.pair] = proc[p].op.decision]
  /\ Enter(p, "rereading")
  /\ UNCHANGED <<versions, runs, status, clock, ledger, begun, history>>

(* The last decision leads to READY_TO_BUILD.                              *)
CountOpen(p) ==
  /\ At(p, "counting")
  /\ Enter(p, IF Open = {} THEN "publishing" ELSE "completing")
  /\ UNCHANGED <<tables, clock, ledger, begun, history>>

-----------------------------------------------------------------------------
(* next_dataset_version                                                    *)
Number(p) ==
  /\ At(p, "numbering")
  /\ Latest(Numbers) < MaxVersions
  /\ proc' = [proc EXCEPT ![p].no = Latest(Numbers) + 1, ![p].phase = "saving"]
  /\ UNCHANGED <<tables, clock, ledger, begun, history>>

(* Mutant: no unique constraint on the number.                             *)
SaveVersionAnyway(p) ==
  LET c == proc[p] IN
  /\ At(p, "saving")
  /\ c.op.op = "normalize"
  /\ versions' = versions \cup {[no |-> c.no, sound |-> c.sound, reviewed |-> c.seen,
                                 by |-> c.key]}
  /\ Enter(p, "rereading")
  /\ UNCHANGED <<proposals, runs, status, clock, ledger, begun, history>>

(* save_dataset_version: version and records in one transaction. The       *)
(* number is unique: a call whose number was taken fails (Fails).          *)
SaveVersion(p) ==
  LET c == proc[p] IN
  /\ At(p, "saving")
  /\ c.op.op = "normalize"
  /\ c.no \notin Numbers
  /\ versions' = versions \cup {[no |-> c.no, sound |-> c.sound, reviewed |-> c.seen,
                                 by |-> c.key]}
  /\ Enter(p, "rereading")
  /\ UNCHANGED <<proposals, runs, status, clock, ledger, begun, history>>

(* save_reconciliation_run: run and results in one transaction.            *)
SaveRun(p) ==
  LET c == proc[p] IN
  /\ At(p, "saving")
  /\ c.op.op = "reconcile"
  /\ runs' = runs \cup {[started |-> c.started, version |-> c.no,
                         status |-> IF c.sound THEN "COMPLETED" ELSE "INCOMPLETE",
                         by |-> c.key]}
  /\ Enter(p, "rereading")
  /\ UNCHANGED <<proposals, versions, status, clock, ledger, begun, history>>

(* Mutant: the listing is in ascending order.                              *)
RereadFirst(p) ==
  LET o == proc[p].op
      first == CHOOSE x \in runs : \A y \in runs : x.started <= y.started
  IN
  /\ At(p, "rereading")
  /\ proc' = [proc EXCEPT
       ![p].phase = IF o.op = "decide" THEN "counting" ELSE "completing",
       ![p].answer = CASE o.op = "decide"    -> Answer(0, 0, proposals[o.pair])
                       [] o.op = "normalize" -> Answer(1, 0, None)
                       [] OTHER              -> Answer(first.version, first.started, None)]
  /\ UNCHANGED <<tables, clock, ledger, begun, history>>

(* What the repository returns is read in a transaction of its own: the    *)
(* proposal as it is now, the latest version, the latest run.              *)
Reread(p) ==
  LET o == proc[p].op IN
  /\ At(p, "rereading")
  /\ proc' = [proc EXCEPT
       ![p].phase = IF o.op = "decide" THEN "counting" ELSE "completing",
       ![p].answer = CASE o.op = "decide"    -> Answer(0, 0, proposals[o.pair])
                       [] o.op = "normalize" -> Answer(Latest(Numbers), 0, None)
                       [] OTHER -> Answer(LatestRun.version, LatestRun.started, None)]
  /\ UNCHANGED <<tables, clock, ledger, begun, history>>

(* complete_idempotency. normalize and run publish the status after it,    *)
(* discover and decide before it.                                          *)
Complete(p) ==
  LET c == proc[p] IN
  /\ At(p, "completing")
  /\ ledger' = [ledger EXCEPT ![c.key] = Ledger!Complete(@,
                  IF c.op.op = "discover" THEN Answer(0, 0, None) ELSE c.answer)]
  /\ IF c.op.op \in {"normalize", "reconcile"} THEN Enter(p, "publishing") ELSE Return(p)
  /\ UNCHANGED <<tables, clock, begun, history>>

(* Mutants: an incomplete run ends like a complete one; the status of the  *)
(* run is written to the investigation.                                    *)
OutcomeOptimistic(c) == CASE c.op.op = "discover"  -> "RELATIONSHIP_REVIEW"
                          [] c.op.op = "decide"    -> "READY_TO_BUILD"
                          [] c.op.op = "normalize" -> "PROCESSING"
                          [] OTHER                 -> "RECONCILED"
OutcomeOfRun(c) == CASE c.op.op = "discover"  -> "RELATIONSHIP_REVIEW"
                     [] c.op.op = "decide"    -> "READY_TO_BUILD"
                     [] c.op.op = "normalize" -> "PROCESSING"
                     [] OTHER                 -> IF c.sound THEN "RECONCILED" ELSE "INCOMPLETE"

Outcome(c) == CASE c.op.op = "discover"  -> "RELATIONSHIP_REVIEW"
                [] c.op.op = "decide"    -> "READY_TO_BUILD"
                [] c.op.op = "normalize" -> "PROCESSING"
                [] OTHER                 -> IF c.sound THEN "RECONCILED" ELSE "FAILED"

(* update_financial_investigation_status, whatever the status is by now.   *)
Publish(p) ==
  LET c == proc[p] IN
  /\ At(p, "publishing")
  /\ status' = Outcome(c)
  /\ IF c.op.op \in {"normalize", "reconcile"} THEN Return(p) ELSE Enter(p, "completing")
  /\ UNCHANGED <<proposals, versions, runs, clock, ledger, begun, history>>

(* The exceptions that release the key: of discover anywhere after the     *)
(* reservation, of normalize and run those of the repository's save, which *)
(* reads the latest row once it has committed. A retry then writes again.  *)
Fails(p) ==
  /\ \/ /\ proc[p].phase \in {"profiling", "publishing", "completing"}
        /\ proc[p].op.op = "discover"
     \/ At(p, "saving")
     \/ At(p, "rereading") /\ proc[p].op.op # "decide"
  /\ Enter(p, "releasing")
  /\ UNCHANGED <<tables, clock, ledger, begun, history>>

ReleaseLease(p) ==
  LET k == proc[p].key IN
  /\ At(p, "releasing")
  /\ ledger' = [ledger EXCEPT ![k] = Ledger!Release(ledger[k])]
  /\ Return(p)
  /\ UNCHANGED <<tables, clock, begun, history>>

(* Any other exception, or the death of the process.                       *)
Abandon(p) ==
  /\ ~ At(p, "idle")
  /\ Return(p)
  /\ UNCHANGED <<tables, clock, ledger, begun, history>>

(* idempotency_lease_seconds pass.                                         *)
LeaseEnds(k) ==
  /\ ledger[k].state = "pending"
  /\ ~ ledger[k].lapsed
  /\ ledger' = [ledger EXCEPT ![k] = Ledger!Lapse(ledger[k])]
  /\ disturbed' = disturbed \cup {k}
  /\ UNCHANGED <<tables, clock, begun, proc, contended>>

Request == {o \in {Discover, Normalize} \cup {Decide(r, d) : r \in Pair, d \in Decision}
                    \cup {Reconcile(n) : n \in 0 .. MaxVersions} : o.op \in Operation}

Next ==
  \/ \E p \in Process :
       \/ \E k \in Key, o \in Request : Begin(p, k, o)
       \/ \E sound \in BOOLEAN : Prepare(p, sound)
       \/ \E found \in SUBSET Pair : Upsert(p, found)
       \/ Load(p) \/ Stamp(p)
       \/ Reserve(p) \/ ReserveLost(p) \/ ReadBack(p)
       \/ Look(p) \/ Apply(p) \/ CountOpen(p)
       \/ Number(p) \/ SaveVersion(p) \/ SaveRun(p) \/ Reread(p)
       \/ Complete(p) \/ Publish(p)
       \/ Fails(p) \/ ReleaseLease(p) \/ Abandon(p)
  \/ \E k \in Key : LeaseEnds(k)

Spec == Init /\ [][Next]_vars

-----------------------------------------------------------------------------
(* Version numbers are 1, 2, ... without a gap and without a repetition,   *)
(* however many normalizations draw the same number at the same time.      *)
VersionsAreDense ==
  /\ \A v, w \in versions : v.no = w.no => v = w
  /\ \A v \in versions : \A n \in 1 .. v.no : n \in Numbers

(* A decision on a proposal stands: neither a later decision nor a repeated*)
(* discovery changes it, unless two decisions found it open together.      *)
DecisionStands ==
  [][\A r \in Decided : proposals'[r] # proposals[r] => r \in contended']_vars

(* Every relationship a dataset was prepared beside stays decided: no call *)
(* reopens what a version was built on.                                    *)
VersionsAreReviewed == \A v \in versions : v.reviewed \subseteq Decided

(* The answer stored for a key is a version or run of the table, and not   *)
(* older than any that a call with this key wrote: neither than the write  *)
(* of the call that is answered nor than one whose call failed after it,   *)
(* whatever other calls write meanwhile (unless a lease of the key lapsed: *)
(* then a late worker of another operation may complete it).               *)
OwnVersions(k) == {v \in versions : v.by = k}
OwnRuns(k)     == {x \in runs : x.by = k}

AnswerCoversWrite ==
  \A k \in Key \ disturbed :
    LET row == ledger[k] IN
    row.state = "done" =>
      /\ row.hash.op = "normalize" =>
           /\ OwnVersions(k) # {}
           /\ \E v \in versions : /\ v.no = row.body.version
                                 /\ \A own \in OwnVersions(k) : own.no <= v.no
      /\ row.hash.op = "reconcile" =>
           /\ OwnRuns(k) # {}
           /\ \E x \in runs : /\ x.started = row.body.started
                             /\ x.version = row.body.version
                             /\ \A own \in OwnRuns(k) : own.started <= x.started

(* The status never runs ahead of the tables: PROCESSING needs a dataset,  *)
(* RECONCILED a completed run of a sound one, FAILED an incomplete run,    *)
(* READY_TO_BUILD a decision.                                              *)
StatusIsBacked ==
  /\ status = "PROCESSING" => versions # {}
  /\ status = "RECONCILED" => \E x \in runs, v \in versions :
                                x.status = "COMPLETED" /\ x.version = v.no /\ v.sound
  /\ status = "FAILED" => \E x \in runs, v \in versions :
                            x.status = "INCOMPLETE" /\ x.version = v.no /\ ~ v.sound
  /\ status = "READY_TO_BUILD" => Decided # {}

-----------------------------------------------------------------------------
(* What the documents say and the code does not do.                        *)

(* relationship_discovery/service.py:201, "Only proposed relationships can *)
(* be decided".                                                            *)
DecidedIsNotDecidedAgain ==
  [][\A r \in Decided : proposals'[r] = proposals[r]]_vars

(* docs/security.md:84, "Replay with the same idempotency key is harmless":*)
(* the calls with one key write one version and one run, unless a lease of *)
(* the key lapsed.                                                         *)
KeyWritesOnce ==
  \A k \in Key \ disturbed :
    Cardinality(OwnVersions(k)) <= 1 /\ Cardinality(OwnRuns(k)) <= 1
=============================================================================
