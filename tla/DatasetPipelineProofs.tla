------------------------ MODULE DatasetPipelineProofs ------------------------
(***************************************************************************)
(* Proofs about DatasetPipeline for any processes, keys, pairs, decisions  *)
(* and operations, and any bounds on versions, clock and calls.            *)
(***************************************************************************)
EXTENDS DatasetPipeline, TLAPS

(* What answers a request o of key k: a row of the table that is not older *)
(* than one this key wrote; Newest: than any that it wrote. A later write  *)
(* cannot end the first; that it does not end the second needs the lease.  *)
Covers(k, o, b) ==
  /\ o.op = "normalize" =>
       \E v, own \in versions : v.no = b.version /\ own.by = k /\ own.no <= v.no
  /\ o.op = "reconcile" =>
       \E x, own \in runs : /\ x.started = b.started /\ x.version = b.version
                            /\ own.by = k /\ own.started <= x.started

Newest(k, o, b) ==
  /\ o.op = "normalize" => \A own \in OwnVersions(k) : own.no <= b.version
  /\ o.op = "reconcile" => \A own \in OwnRuns(k) : own.started <= b.started

(* The operations whose calls pass through a phase.                        *)
PhaseOfOp(phase, op) ==
  /\ phase = "profiling" => op = "discover"
  /\ phase \in {"looking", "deciding", "counting"} => op = "decide"
  /\ phase \in {"preparing", "numbering"} => op = "normalize"
  /\ phase \in {"loading", "stamping"} => op = "reconcile"
  /\ phase = "saving" => op \in {"normalize", "reconcile"}
  /\ phase = "rereading" => op # "discover"

Shaped(c) ==
  /\ c.phase # "idle" => /\ c.key \in Key /\ c.op \in Op
                         /\ PhaseOfOp(c.phase, c.op.op)
                         /\ c.op.op = "decide" => c.op.pair \in Pair /\ c.op.decision \in Decision
  /\ c.phase \in {"counting", "publishing"} /\ c.op.op = "decide" => c.answer \in Response
  /\ c.phase = "completing" /\ c.op.op # "discover" => c.answer \in Response

(* What a call has read or written, and that it is still so.               *)
Backed(c) ==
  \E v \in versions : v.no = c.no /\ v.sound = c.sound
Wrote(c) ==
  /\ c.op.op = "decide" => c.op.pair \in Decided
  /\ c.op.op = "normalize" => \E own \in versions : own.by = c.key
  /\ c.op.op = "reconcile" =>
       \E own \in runs : /\ own.by = c.key /\ own.version = c.no
                         /\ own.status = IF c.sound THEN "COMPLETED" ELSE "INCOMPLETE"
Knows(c) ==
  /\ c.seen \subseteq Decided
  /\ c.phase \notin {"idle", "loading", "releasing"} /\ c.op.op = "reconcile" => Backed(c)
  /\ c.phase = "saving" /\ c.op.op = "normalize" =>
       c.no # 0 /\ \A n \in 1 .. c.no : n # c.no => n \in Numbers
  /\ c.phase \in {"rereading", "counting", "completing", "publishing"} => Wrote(c)
  /\ c.phase = "completing" => Covers(c.key, c.op, c.answer)

CallsSound == \A p \in Process : Shaped(proc[p]) /\ Knows(proc[p])

(* The tables: the versions count up, and some run is the latest.          *)
TablesSound ==
  /\ \E m \in Nat : Numbers = 1 .. m
  /\ \A v, w \in versions : v.no = w.no => v = w
  /\ runs # {} => \E x \in runs : \A y \in runs : y.started <= x.started
  /\ VersionsAreReviewed
  /\ StatusIsBacked

(* A reservation excludes others, unless the key is disturbed.             *)
Holding(c) ==
  \/ c.phase \in {"profiling", "looking", "deciding", "counting", "numbering", "saving",
                  "rereading", "completing", "releasing"}
  \/ c.phase = "stamping" /\ ~ c.sound
  \/ c.phase = "publishing" /\ c.op.op \in {"discover", "decide"}
Holds(p, k) == proc[p].key = k /\ Holding(proc[p])
Excl(k) ==
  \A p \in Process : Holds(p, k) =>
    /\ ledger[k].state = "pending" /\ ledger[k].hash = proc[p].op
    /\ \A q \in Process : Holds(q, k) => q = p
Completing(p, k) == proc[p].key = k /\ proc[p].phase = "completing"
LeasesSound ==
  /\ \A k \in Key : ledger[k].lapsed => k \in disturbed
  /\ \A k \in Key \ disturbed :
       /\ Excl(k)
       /\ \A p \in Process : Completing(p, k) => Newest(k, proc[p].op, proc[p].answer)
       /\ ledger[k].state = "done" => /\ Covers(k, ledger[k].hash, ledger[k].body)
                                      /\ Newest(k, ledger[k].hash, ledger[k].body)

(* Of two decisions on an open proposal, the later one saw the other.      *)
Deciding(p, r) == proc[p].phase = "deciding" /\ proc[p].op.pair = r
DecisionsSound ==
  \A r \in Pair \ contended, p \in Process : Deciding(p, r) =>
    /\ proposals[r] = "PROPOSED"
    /\ \A q \in Process : Deciding(q, r) => q = p

IInv == TypeOK /\ CallsSound /\ TablesSound /\ LeasesSound /\ DecisionsSound

-----------------------------------------------------------------------------
(* The statements of the ledger keep a row a row.                          *)
LEMMA RowTypes ==
  /\ Ledger!Absent \in Ledger!Row
  /\ \A o \in Op : Ledger!Pending(o) \in Ledger!Row
  /\ \A row \in Ledger!Row, b \in Response : Ledger!Complete(row, b) \in Ledger!Row
  /\ \A row \in Ledger!Row : Ledger!Release(row) \in Ledger!Row
  /\ \A row \in Ledger!Row : Ledger!Lapse(row) \in Ledger!Row
  BY DEF Ledger!Row, Ledger!Absent, Ledger!Pending, Ledger!Done, Ledger!Complete,
         Ledger!Release, Ledger!Lapse

LEMMA AnswerType ==
  ASSUME NEW n \in Nat, NEW t \in Nat,
         NEW d \in Decision \cup {None, "absent", "PROPOSED"}
  PROVE  /\ Answer(n, t, d) \in Response
         /\ Answer(n, t, d).version = n /\ Answer(n, t, d).started = t
  BY DEF Answer, Response

LEMMA IdleType == Idle \in Call /\ Idle.phase = "idle" /\ Idle.seen = {}
  BY DEF Idle, Call, Phase

(* An idle call knows nothing.                                             *)
LEMMA IdleSound ==
  ASSUME NEW c, c.phase = "idle", c.seen = {} PROVE Shaped(c) /\ Knows(c) /\ ~ Holding(c)
  BY DEF Shaped, Knows, Holding

(* The latest of the versions 1 .. m is m.                                 *)
LEMMA LatestIsLast ==
  ASSUME NEW m \in Nat, Numbers = 1 .. m PROVE Latest(Numbers) = m
  <1> DEFINE P(n) == \A k \in 1 .. m : k <= n
  <1>1. m \in 1 .. m \cup {0} /\ P(m)
    OBVIOUS
  <1>2. \A n \in 1 .. m \cup {0} : P(n) => n = m
    <2> TAKE n \in 1 .. m \cup {0}
    <2>1. P(n) => m = 0 \/ m <= n
      BY <1>1
    <2> QED
      BY <2>1
  <1>3. Latest(Numbers) = CHOOSE n \in 1 .. m \cup {0} : P(n)
    BY DEF Latest
  <1> QED
    BY <1>1, <1>2, <1>3

LEMMA InitInv == Init => IInv
  <1> SUFFICES ASSUME Init PROVE IInv
    OBVIOUS
  <1>1. TypeOK
    BY IdleType, RowTypes DEF Init, TypeOK, Status
  <1>2. CallsSound
    BY IdleType, IdleSound DEF Init, CallsSound
  <1>3. TablesSound
    <2>1. Numbers = 1 .. 0
      BY DEF Init, Numbers
    <2> QED
      BY <2>1 DEF Init, TablesSound, VersionsAreReviewed, StatusIsBacked
  <1>4. LeasesSound
    BY IdleType, IdleSound DEF Init, LeasesSound, Excl, Holds, Completing, Ledger!Absent
  <1>5. DecisionsSound
    BY IdleType DEF Init, DecisionsSound, Deciding
  <1> QED
    BY <1>1, <1>2, <1>3, <1>4, <1>5 DEF IInv

-----------------------------------------------------------------------------
(* How a step acts on the call of p and on the tables.                     *)
Others(p) == \A q \in Process \ {p} : proc'[q] = proc[q]
SameCall(c, d) ==
  /\ c.op = d.op /\ c.key = d.key /\ c.seen = d.seen /\ c.sound = d.sound
  /\ c.no = d.no /\ c.started = d.started /\ c.answer = d.answer
Grows == Decided \subseteq Decided' /\ versions \subseteq versions' /\ runs \subseteq runs'

LEMMA EnterEffect ==
  ASSUME TypeOK, NEW p \in Process, NEW phase \in Phase, Enter(p, phase)
  PROVE  /\ proc' \in [Process -> Call] /\ proc'[p].phase = phase
         /\ SameCall(proc'[p], proc[p]) /\ Others(p)
  BY DEF TypeOK, Enter, Call, SameCall, Others

LEMMA ReturnEffect ==
  ASSUME TypeOK, NEW p \in Process, Return(p)
  PROVE  /\ proc' \in [Process -> Call] /\ proc'[p] = Idle /\ Others(p)
  BY IdleType DEF TypeOK, Return, Others

(* What a call knows stays true while the tables grow.                     *)
LEMMA KnowledgeStays ==
  ASSUME Grows, NEW c, Knows(c) PROVE Knows(c)'
  <1>1. \A n : n \in Numbers => n \in Numbers'
    BY DEF Grows, Numbers
  <1> QED
    BY <1>1 DEF Grows, Knows, Backed, Wrote, Covers

LEMMA CallsKeep ==
  ASSUME CallsSound, Grows, NEW p \in Process, Others(p), Shaped(proc[p])', Knows(proc[p])'
  PROVE  CallsSound'
  <1> SUFFICES ASSUME NEW q \in Process PROVE Shaped(proc[q])' /\ Knows(proc[q])'
    BY DEF CallsSound
  <1>1. CASE q = p
    BY <1>1
  <1>2. CASE q # p
    <2>1. proc'[q] = proc[q] /\ Shaped(proc[q]) /\ Knows(proc[q])
      BY <1>2 DEF Others, CallsSound
    <2> QED
      BY <2>1, KnowledgeStays
  <1> QED
    BY <1>1, <1>2

(* Who writes a row owns the key it is written for.                        *)
WritesAsOwner(p) ==
  /\ \A v \in versions' \ versions : Holds(p, v.by)
  /\ \A x \in runs' \ runs : Holds(p, x.by)

(* What another key wrote is not touched by the call of p.                 *)
LEMMA NewestStays ==
  ASSUME NEW p \in Process, WritesAsOwner(p), NEW k \in Key, ~ Holds(p, k),
         NEW o, NEW b, Newest(k, o, b)
  PROVE  Newest(k, o, b)'
  <1>1. OwnVersions(k)' \subseteq OwnVersions(k)
    BY DEF WritesAsOwner, OwnVersions
  <1>2. OwnRuns(k)' \subseteq OwnRuns(k)
    BY DEF WritesAsOwner, OwnRuns
  <1> QED
    BY <1>1, <1>2 DEF Newest

LEMMA NothingWritten ==
  ASSUME UNCHANGED <<versions, runs>>, NEW p \in Process
  PROVE  /\ WritesAsOwner(p)
         /\ \A k, o, b : Newest(k, o, b)' <=> Newest(k, o, b)
  BY DEF WritesAsOwner, Newest, OwnVersions, OwnRuns

(* A step that leaves the ledger alone keeps what is said of leases.       *)
LEMMA LeasesKeep ==
  ASSUME LeasesSound, Grows, NEW p \in Process, Others(p), UNCHANGED ledger,
         disturbed \subseteq disturbed', WritesAsOwner(p),
         \A k \in Key \ disturbed' : Holds(p, k)' =>
            Holds(p, k) /\ proc'[p].op = proc[p].op,
         \A k \in Key \ disturbed' :
            Completing(p, k)' => Newest(k, proc[p].op, proc[p].answer)'
  PROVE  LeasesSound'
  <1>1. \A k \in Key, q \in Process \ {p} : Holds(q, k)' <=> Holds(q, k)
    BY DEF Holds, Holding, Others
  <1>2. ASSUME NEW k \in Key \ disturbed' PROVE Excl(k)'
    <2>1. Excl(k)
      BY DEF LeasesSound
    <2> QED
      BY <1>1, <2>1 DEF Excl, Others
  <1>3. ASSUME NEW k \in Key \ disturbed', ledger'[k].state = "done"
        PROVE  /\ Covers(k, ledger[k].hash, ledger[k].body)'
               /\ Newest(k, ledger[k].hash, ledger[k].body)'
    <2>1. /\ Covers(k, ledger[k].hash, ledger[k].body)
          /\ Newest(k, ledger[k].hash, ledger[k].body)
      BY <1>3 DEF LeasesSound
    <2>2. ~ Holds(p, k)
      BY <1>3 DEF LeasesSound, Excl
    <2>3. Newest(k, ledger[k].hash, ledger[k].body)'
      BY <2>1, <2>2, NewestStays DEF Newest, OwnVersions, OwnRuns
    <2> QED
      BY <2>1, <2>3 DEF Covers, Grows
  <1>4. ASSUME NEW k \in Key \ disturbed', NEW q \in Process, Completing(q, k)'
        PROVE  Newest(k, proc[q].op, proc[q].answer)'
    <2>1. CASE q = p
      BY <1>4, <2>1
    <2>2. CASE q # p
      <3>1. proc'[q] = proc[q] /\ Completing(q, k) /\ Holds(q, k)
        BY <1>4, <2>2 DEF Others, Completing, Holds, Holding
      <3>2. ~ Holds(p, k)
        BY <2>2, <3>1 DEF LeasesSound, Excl
      <3>3. Newest(k, proc[q].op, proc[q].answer)
        BY <3>1 DEF LeasesSound
      <3> QED
        BY <3>1, <3>2, <3>3, NewestStays DEF Newest, OwnVersions, OwnRuns
    <2> QED
      BY <2>1, <2>2
  <1> QED
    BY <1>2, <1>3, <1>4 DEF LeasesSound

LEMMA LeasesStay ==
  ASSUME LeasesSound, Grows, NEW p \in Process, Others(p),
         UNCHANGED <<versions, runs, ledger>>, disturbed \subseteq disturbed',
         \/ proc'[p].phase # "completing"
         \/ proc'[p].op.op \notin {"normalize", "reconcile"},
         \A k \in Key \ disturbed' : Holds(p, k)' =>
            Holds(p, k) /\ proc'[p].op = proc[p].op
  PROVE  LeasesSound'
  <1>1. WritesAsOwner(p)
    BY NothingWritten
  <1>2. \A k \in Key \ disturbed' :
          Completing(p, k)' => Newest(k, proc[p].op, proc[p].answer)'
    BY DEF Completing, Newest
  <1> QED
    BY <1>1, <1>2, LeasesKeep

(* One that writes the row of key k, for the call of p.                    *)
LEMMA LeaseChanges ==
  ASSUME LeasesSound, NEW p \in Process, Others(p), NEW k \in Key,
         \A j \in Key \ {k} : ledger'[j] = ledger[j],
         UNCHANGED <<versions, runs, disturbed>>,
         \A j \in Key \ {k} : ~ Holds(p, j)',
         proc'[p].phase # "completing",
         k \notin disturbed =>
           /\ ~ ledger'[k].lapsed
           /\ Excl(k)'
           /\ ledger'[k].state = "done" => /\ Covers(k, ledger'[k].hash, ledger'[k].body)
                                           /\ Newest(k, ledger'[k].hash, ledger'[k].body)
  PROVE  LeasesSound'
  <1>1. \A j \in Key, q \in Process \ {p} : Holds(q, j)' <=> Holds(q, j)
    BY DEF Holds, Holding, Others
  <1>2. ASSUME NEW j \in Key \ {k}, j \notin disturbed PROVE Excl(j)'
    <2>1. Excl(j)
      BY <1>2 DEF LeasesSound
    <2> QED
      BY <1>1, <2>1 DEF Excl, Others
  <1>3. ASSUME NEW j \in Key \ disturbed', ledger'[j].state = "done"
        PROVE  /\ Covers(j, ledger[j].hash, ledger[j].body)'
               /\ Newest(j, ledger[j].hash, ledger[j].body)'
    <2>1. /\ Covers(j, ledger'[j].hash, ledger'[j].body)
          /\ Newest(j, ledger'[j].hash, ledger'[j].body)
      BY <1>3 DEF LeasesSound
    <2> QED
      BY <2>1 DEF Covers, Newest, OwnVersions, OwnRuns
  <1>4. ASSUME NEW j \in Key \ disturbed', NEW q \in Process, Completing(q, j)'
        PROVE  Newest(j, proc[q].op, proc[q].answer)'
    <2>1. q # p /\ proc'[q] = proc[q] /\ Completing(q, j)
      BY <1>4 DEF Completing, Others
    <2>2. Newest(j, proc[q].op, proc[q].answer)
      BY <2>1 DEF LeasesSound
    <2> QED
      BY <2>1, <2>2 DEF Newest, OwnVersions, OwnRuns
  <1> QED
    BY <1>2, <1>3, <1>4 DEF LeasesSound

(* One that begins no decision keeps what is said of open proposals.       *)
LEMMA DecisionsKeep ==
  ASSUME DecisionsSound, NEW p \in Process, Others(p), proc'[p].phase # "deciding",
         contended \subseteq contended',
         \A r \in Pair : proposals[r] = "PROPOSED" => proposals'[r] = "PROPOSED"
  PROVE  DecisionsSound'
  BY DEF DecisionsSound, Deciding, Others

(* Most steps leave the tables alone.                                      *)
LEMMA TablesStay ==
  ASSUME UNCHANGED tables PROVE Grows /\ (TablesSound => TablesSound')
  BY DEF tables, Grows, Decided, TablesSound, Numbers, VersionsAreReviewed, StatusIsBacked

-----------------------------------------------------------------------------
LEMMA FirstPhases ==
  ASSUME NEW o, o.op \in {"discover", "decide", "normalize", "reconcile"}
  PROVE  /\ FirstPhase(o) \in {"preparing", "loading", "reserving"}
         /\ FirstPhase(o) \in Phase
         /\ PhaseOfOp(FirstPhase(o), o.op)
         /\ o.op = "reconcile" => FirstPhase(o) = "loading"
  BY DEF FirstPhase, Phase, PhaseOfOp

LEMMA RequestType ==
  ASSUME NEW o \in Request
  PROVE  /\ o \in Op /\ o.op \in {"discover", "decide", "normalize", "reconcile"}
         /\ o.op = "decide" => o.pair \in Pair /\ o.decision \in Decision
  BY PipelineAssumption DEF Request, Op, Discover, Decide, Normalize, Reconcile

LEMMA BeginStep ==
  ASSUME IInv, NEW p \in Process, NEW k \in Key, NEW o \in Request, Begin(p, k, o) PROVE IInv'
  <1> USE DEF IInv
  <1> DEFINE c == [Idle EXCEPT !.phase = FirstPhase(o), !.op = o, !.key = k]
  <1>1. /\ c \in Call /\ c.phase = FirstPhase(o) /\ c.key = k /\ c.op = o
        /\ c.seen = {}
    <2>1. o \in Op /\ FirstPhase(o) \in Phase
      BY RequestType, FirstPhases
    <2> QED
      BY <2>1 DEF Idle, Call
  <1>2. proc' = [proc EXCEPT ![p] = c] /\ UNCHANGED <<tables, clock, ledger, history>>
        /\ begun' \in Nat
    BY DEF Begin, TypeOK
  <1>3. c.phase \in {"preparing", "loading", "reserving"}
    BY <1>1, RequestType, FirstPhases
  <1> HIDE DEF c
  <1>4. proc'[p] = c /\ Others(p)
    BY <1>2 DEF TypeOK, Others
  <1>5. TypeOK'
    BY <1>1, <1>2 DEF TypeOK, tables, history
  <1>6. Shaped(proc[p])' /\ Knows(proc[p])'
    BY <1>1, <1>3, <1>4, RequestType, FirstPhases DEF Shaped, Knows, PhaseOfOp
  <1>7. CallsSound'
    BY <1>2, <1>4, <1>6, TablesStay, CallsKeep
  <1>8. LeasesSound'
    BY <1>2, <1>3, <1>4, TablesStay, LeasesStay DEF history, Holds, Holding, tables
  <1>9. DecisionsSound'
    BY <1>2, <1>3, <1>4, DecisionsKeep DEF tables, history
  <1> QED
    BY <1>2, <1>5, <1>7, <1>8, <1>9, TablesStay

LEMMA PrepareStep ==
  ASSUME IInv, NEW p \in Process, NEW sound \in BOOLEAN, Prepare(p, sound) PROVE IInv'
  <1> USE DEF IInv
  <1>1. /\ proc[p] \in Call /\ proc[p].phase = "preparing" /\ Shaped(proc[p])
        /\ UNCHANGED <<tables, clock, ledger, begun, history>>
    BY DEF TypeOK, Prepare, At, CallsSound
  <1>2. /\ proc' \in [Process -> Call] /\ proc'[p].phase = "reserving" /\ Others(p)
        /\ proc'[p].op = proc[p].op /\ proc'[p].key = proc[p].key /\ proc'[p].seen = Proposed
    BY <1>1 DEF TypeOK, Prepare, Call, Phase, Others, Proposed, Open, Decided
  <1>3. Proposed = Decided
    BY DEF Prepare, Proposed
  <1>4. TypeOK'
    BY <1>1, <1>2 DEF TypeOK, tables, history
  <1>5. Decided' = Decided
    BY <1>1 DEF tables, Decided
  <1>6. Shaped(proc[p])' /\ Knows(proc[p])'
    BY <1>1, <1>2, <1>3, <1>5 DEF Shaped, Knows, PhaseOfOp
  <1>7. CallsSound'
    BY <1>1, <1>2, <1>6, TablesStay, CallsKeep
  <1>8. LeasesSound'
    BY <1>1, <1>2, TablesStay, LeasesStay DEF history, Holds, Holding, tables
  <1>9. DecisionsSound'
    BY <1>1, <1>2, DecisionsKeep DEF tables, history
  <1> QED
    BY <1>1, <1>4, <1>7, <1>8, <1>9, TablesStay

LEMMA LoadStep == ASSUME IInv, NEW p \in Process, Load(p) PROVE IInv'
  <1> USE DEF IInv
  <1>1. /\ proc[p] \in Call /\ proc[p].phase = "loading" /\ Shaped(proc[p]) /\ Knows(proc[p])
        /\ UNCHANGED <<tables, clock, ledger, begun, history>>
    BY DEF TypeOK, Load, At, CallsSound
  <1>2. PICK v \in versions :
          proc' = [proc EXCEPT ![p].phase = IF v.sound THEN "stamping" ELSE "reserving",
                               ![p].no = v.no, ![p].sound = v.sound]
    BY DEF Load
  <1>3. v.no \in Nat /\ v.sound \in BOOLEAN
    BY DEF TypeOK, Version
  <1>4. /\ proc' \in [Process -> Call] /\ Others(p)
        /\ proc'[p].phase = IF v.sound THEN "stamping" ELSE "reserving"
        /\ proc'[p].op = proc[p].op /\ proc'[p].key = proc[p].key
        /\ proc'[p].seen = proc[p].seen
        /\ proc'[p].no = v.no /\ proc'[p].sound = v.sound
    BY <1>1, <1>2, <1>3 DEF TypeOK, Call, Phase, Others
  <1>5. TypeOK'
    BY <1>1, <1>4 DEF TypeOK, tables, history
  <1>6. Decided' = Decided /\ versions' = versions
    BY <1>1 DEF tables, Decided
  <1>7. Shaped(proc[p])' /\ Knows(proc[p])'
    BY <1>1, <1>4, <1>6 DEF Shaped, Knows, PhaseOfOp, Backed
  <1>8. CallsSound'
    BY <1>1, <1>4, <1>7, TablesStay, CallsKeep
  <1>9. LeasesSound'
    BY <1>1, <1>4, TablesStay, LeasesStay DEF history, Holds, Holding, tables
  <1>10. DecisionsSound'
    BY <1>1, <1>4, DecisionsKeep DEF tables, history
  <1> QED
    BY <1>1, <1>5, <1>8, <1>9, <1>10, TablesStay

LEMMA StampStep == ASSUME IInv, NEW p \in Process, Stamp(p) PROVE IInv'
  <1> USE DEF IInv
  <1>1. /\ proc[p] \in Call /\ proc[p].phase = "stamping" /\ Shaped(proc[p]) /\ Knows(proc[p])
        /\ UNCHANGED <<tables, ledger, begun, history>> /\ clock' \in Nat
    BY DEF TypeOK, Stamp, At, CallsSound
  <1>2. /\ proc' \in [Process -> Call] /\ Others(p)
        /\ proc'[p].phase = IF proc[p].sound THEN "reserving" ELSE "saving"
        /\ proc'[p].op = proc[p].op /\ proc'[p].key = proc[p].key
        /\ proc'[p].seen = proc[p].seen
        /\ proc'[p].no = proc[p].no /\ proc'[p].sound = proc[p].sound
    BY <1>1 DEF Stamp, TypeOK, Call, Phase, Others
  <1>3. TypeOK'
    BY <1>1, <1>2 DEF TypeOK, tables, history
  <1>4. Decided' = Decided /\ versions' = versions
    BY <1>1 DEF tables, Decided
  <1>5. Shaped(proc[p])' /\ Knows(proc[p])'
    BY <1>1, <1>2, <1>4 DEF Shaped, Knows, PhaseOfOp, Backed
  <1>6. CallsSound'
    BY <1>1, <1>2, <1>5, TablesStay, CallsKeep
  <1>7. LeasesSound'
    BY <1>1, <1>2, TablesStay, LeasesStay DEF history, Holds, Holding, tables
  <1>8. DecisionsSound'
    BY <1>1, <1>2, DecisionsKeep DEF tables, history
  <1> QED
    BY <1>1, <1>3, <1>6, <1>7, <1>8, TablesStay

-----------------------------------------------------------------------------
(* What a call that owns its key goes on with.                             *)
LEMMA WorkPhases ==
  ASSUME NEW c, c.op.op \in {"discover", "decide", "normalize", "reconcile"}
  PROVE  /\ Work(c) \in {"profiling", "looking", "numbering", "saving", "stamping"}
         /\ Work(c) \in Phase
         /\ PhaseOfOp(Work(c), c.op.op)
         /\ Work(c) = "saving" => c.op.op = "reconcile"
         /\ Work(c) = "stamping" => ~ c.sound
  BY DEF Work, Phase, PhaseOfOp

LEMMA OpNames == \A o \in Op : o.op \in {"discover", "decide", "normalize", "reconcile"}
  BY DEF Op

(* A step that moves the call of p on, from a phase to a phase, and leaves *)
(* the tables alone.                                                       *)
LEMMA MoveOn ==
  ASSUME IInv, NEW p \in Process, NEW phase \in Phase, Enter(p, phase), UNCHANGED tables,
         proc[p].phase # "idle", PhaseOfOp(phase, proc[p].op.op),
         phase \notin {"idle", "deciding", "rereading", "counting", "completing", "publishing"},
         proc[p].phase \notin {"loading", "releasing"} \/ phase = "releasing",
         phase = "saving" => proc[p].op.op = "reconcile"
  PROVE  /\ CallsSound' /\ TablesSound' /\ Others(p) /\ proc' \in [Process -> Call]
         /\ proc'[p].phase = phase /\ SameCall(proc'[p], proc[p])
  <1> USE DEF IInv
  <1>1. /\ proc' \in [Process -> Call] /\ proc'[p].phase = phase
        /\ SameCall(proc'[p], proc[p]) /\ Others(p)
    BY EnterEffect
  <1>2. Shaped(proc[p]) /\ Knows(proc[p])
    BY DEF CallsSound
  <1>3. Shaped(proc[p])'
    BY <1>1, <1>2 DEF Shaped, SameCall
  <1>4. Decided' = Decided /\ versions' = versions /\ runs' = runs
    BY DEF tables, Decided
  <1>5. Knows(proc[p])'
    BY <1>1, <1>2, <1>4 DEF SameCall, Knows, Backed, Wrote
  <1>6. CallsSound'
    BY <1>1, <1>3, <1>5, TablesStay, CallsKeep
  <1> QED
    BY <1>1, <1>6, TablesStay

LEMMA ReserveStep == ASSUME IInv, NEW p \in Process, Reserve(p) PROVE IInv'
  <1> USE DEF IInv
  <1>0. PICK k \in Key : k = proc[p].key
    BY DEF Reserve, At, CallsSound, Shaped
  <1> DEFINE w == Work(proc[p])
  <1>1. /\ proc[p].phase = "reserving" /\ Shaped(proc[p]) /\ proc[p].op \in Op
        /\ UNCHANGED <<tables, clock, begun, history>> /\ Enter(p, w)
    BY DEF Reserve, At, CallsSound, Shaped
  <1>2. /\ w \in {"profiling", "looking", "numbering", "saving", "stamping"}
        /\ w \in Phase /\ PhaseOfOp(w, proc[p].op.op)
        /\ w = "saving" => proc[p].op.op = "reconcile"
        /\ w = "stamping" => ~ proc[p].sound
    BY <1>1, OpNames, WorkPhases
  <1> HIDE DEF w
  <1>3. /\ CallsSound' /\ TablesSound' /\ Others(p) /\ proc' \in [Process -> Call]
        /\ proc'[p].phase = w /\ SameCall(proc'[p], proc[p])
    BY <1>1, <1>2, MoveOn
  <1>4. /\ ledger' \in [Key -> Ledger!Row]
        /\ ledger'[k] = Ledger!Pending(proc[p].op)
        /\ \A j \in Key \ {k} : ledger'[j] = ledger[j]
    BY <1>0, <1>1, RowTypes DEF Reserve, TypeOK
  <1>5. /\ ledger'[k].state = "pending" /\ ledger'[k].hash = proc[p].op
        /\ ~ ledger'[k].lapsed
    BY <1>4 DEF Ledger!Pending
  <1>6. TypeOK'
    BY <1>1, <1>3, <1>4 DEF TypeOK, tables, history
  <1>7. k \notin disturbed => Excl(k)'
    <2>1. k \notin disturbed => ledger[k].state = "absent"
      BY <1>0 DEF Reserve, Ledger!Reservable, LeasesSound
    <2>2. k \notin disturbed => \A q \in Process : ~ Holds(q, k)
      BY <2>1 DEF LeasesSound, Excl
    <2>3. \A q \in Process \ {p} : Holds(q, k)' <=> Holds(q, k)
      BY <1>3 DEF Holds, Holding, Others
    <2> QED
      BY <1>3, <1>5, <2>2, <2>3 DEF Excl, SameCall
  <1>8. LeasesSound'
    <2>1. \A j \in Key \ {k} : ~ Holds(p, j)'
      BY <1>0, <1>3 DEF Holds, SameCall
    <2> QED
      BY <1>1, <1>2, <1>3, <1>4, <1>5, <1>7, <2>1, LeaseChanges DEF tables, history
  <1>9. DecisionsSound'
    BY <1>1, <1>2, <1>3, DecisionsKeep DEF tables, history
  <1> QED
    BY <1>3, <1>6, <1>8, <1>9

LEMMA LostStep ==
  ASSUME IInv, NEW p \in Process, ReserveLost(p) \/ ReadBack(p) PROVE IInv'
  <1> USE DEF IInv
  <1> DEFINE w == Work(proc[p])
  <1>1. /\ proc[p].phase \in {"reserving", "readback"} /\ Shaped(proc[p])
        /\ proc[p].op \in Op /\ proc[p].key \in Key
        /\ UNCHANGED <<tables, clock, ledger, begun, contended>>
        /\ disturbed \subseteq disturbed' /\ disturbed' \subseteq Key
        /\ \/ Enter(p, "readback")
           \/ Enter(p, w) /\ proc[p].key \in disturbed'
           \/ Return(p)
    BY DEF ReserveLost, ReadBack, At, CallsSound, Shaped, history, TypeOK
  <1>2. /\ w \in {"profiling", "looking", "numbering", "saving", "stamping"}
        /\ w \in Phase /\ PhaseOfOp(w, proc[p].op.op)
        /\ w = "saving" => proc[p].op.op = "reconcile"
    BY <1>1, OpNames, WorkPhases
  <1> HIDE DEF w
  <1>3. CASE Return(p)
    <2>1. proc' \in [Process -> Call] /\ proc'[p] = Idle /\ Others(p)
      BY <1>3, ReturnEffect
    <2>2. TypeOK'
      BY <1>1, <2>1 DEF TypeOK, tables
    <2>3. Shaped(proc[p])' /\ Knows(proc[p])'
      BY <2>1, IdleType DEF Shaped, Knows
    <2>4. CallsSound'
      BY <1>1, <2>1, <2>3, TablesStay, CallsKeep
    <2>5. LeasesSound'
      BY <1>1, <2>1, IdleType, TablesStay, LeasesStay DEF Holds, Holding, tables
    <2>6. DecisionsSound'
      BY <1>1, <2>1, IdleType, DecisionsKeep DEF tables
    <2> QED
      BY <1>1, <2>2, <2>4, <2>5, <2>6, TablesStay
  <1>4. CASE \/ Enter(p, "readback")
             \/ Enter(p, w) /\ proc[p].key \in disturbed'
    <2>1. PICK phase \in {"readback", w} :
            Enter(p, phase) /\ (phase # "readback" => proc[p].key \in disturbed')
      BY <1>4
    <2>2. /\ phase \in Phase /\ PhaseOfOp(phase, proc[p].op.op)
          /\ phase \notin {"idle", "counting", "completing", "deciding", "rereading",
                           "publishing"}
          /\ phase = "saving" => proc[p].op.op = "reconcile"
      BY <1>2, <2>1 DEF Phase, PhaseOfOp
    <2>3. /\ CallsSound' /\ TablesSound' /\ Others(p) /\ proc' \in [Process -> Call]
          /\ proc'[p].phase = phase /\ SameCall(proc'[p], proc[p])
      BY <1>1, <2>1, <2>2, MoveOn
    <2>4. TypeOK'
      BY <1>1, <2>3 DEF TypeOK, tables
    <2>5. LeasesSound'
      BY <1>1, <2>1, <2>2, <2>3, TablesStay, LeasesStay DEF Holds, Holding, SameCall, tables
    <2>6. DecisionsSound'
      BY <1>1, <2>2, <2>3, DecisionsKeep DEF tables
    <2> QED
      BY <2>3, <2>4, <2>5, <2>6
  <1> QED
    BY <1>1, <1>3, <1>4

LEMMA FailsStep == ASSUME IInv, NEW p \in Process, Fails(p) PROVE IInv'
  <1> USE DEF IInv
  <1>1. /\ proc[p].phase \in {"profiling", "publishing", "completing", "saving", "rereading"}
        /\ proc[p].phase = "publishing" => proc[p].op.op = "discover"
        /\ UNCHANGED <<tables, clock, ledger, begun, history>>
        /\ Enter(p, "releasing") /\ "releasing" \in Phase
        /\ PhaseOfOp("releasing", proc[p].op.op)
    BY DEF Fails, At, Phase, PhaseOfOp
  <1>2. /\ CallsSound' /\ TablesSound' /\ Others(p) /\ proc' \in [Process -> Call]
        /\ proc'[p].phase = "releasing" /\ SameCall(proc'[p], proc[p])
    BY <1>1, MoveOn
  <1>3. TypeOK'
    BY <1>1, <1>2 DEF TypeOK, tables, history
  <1>4. LeasesSound'
    BY <1>1, <1>2, TablesStay, LeasesStay DEF Holds, Holding, SameCall, history, tables
  <1>5. DecisionsSound'
    BY <1>1, <1>2, DecisionsKeep DEF tables, history
  <1> QED
    BY <1>2, <1>3, <1>4, <1>5

LEMMA AbandonStep == ASSUME IInv, NEW p \in Process, Abandon(p) PROVE IInv'
  <1> USE DEF IInv
  <1>1. UNCHANGED <<tables, clock, ledger, begun, history>> /\ Return(p)
    BY DEF Abandon
  <1>2. proc' \in [Process -> Call] /\ proc'[p] = Idle /\ Others(p)
    BY <1>1, ReturnEffect
  <1>3. TypeOK'
    BY <1>1, <1>2 DEF TypeOK, tables, history
  <1>4. Shaped(proc[p])' /\ Knows(proc[p])'
    BY <1>2, IdleType DEF Shaped, Knows
  <1>5. CallsSound'
    BY <1>1, <1>2, <1>4, TablesStay, CallsKeep
  <1>6. LeasesSound'
    BY <1>1, <1>2, IdleType, TablesStay, LeasesStay DEF Holds, Holding, history, tables
  <1>7. DecisionsSound'
    BY <1>1, <1>2, IdleType, DecisionsKeep DEF tables, history
  <1> QED
    BY <1>1, <1>3, <1>5, <1>6, <1>7, TablesStay

-----------------------------------------------------------------------------
(* Proposals.                                                              *)
LEMMA TablesGrow ==
  ASSUME TablesSound, Grows, UNCHANGED <<versions, runs, status>> PROVE TablesSound'
  BY DEF TablesSound, Grows, Numbers, VersionsAreReviewed, StatusIsBacked

LEMMA UpsertStep ==
  ASSUME IInv, NEW p \in Process, NEW found \in SUBSET Pair, Upsert(p, found) PROVE IInv'
  <1> USE DEF IInv
  <1>1. /\ proc[p].phase = "profiling" /\ Shaped(proc[p]) /\ Knows(proc[p])
        /\ UNCHANGED <<versions, runs, status, clock, ledger, begun, history>>
        /\ Enter(p, "publishing") /\ "publishing" \in Phase
    BY DEF Upsert, At, CallsSound, Phase
  <1>2. /\ proc' \in [Process -> Call] /\ proc'[p].phase = "publishing"
        /\ SameCall(proc'[p], proc[p]) /\ Others(p)
    BY <1>1, EnterEffect
  <1>3. /\ proposals' \in [Pair -> {"absent", "PROPOSED"} \cup Decision]
        /\ \A r \in Pair : proposals[r] = "PROPOSED" => proposals'[r] = "PROPOSED"
        /\ \A r \in Decided : proposals'[r] = proposals[r]
    BY DEF Upsert, TypeOK, Proposed, Open, Decided
  <1>4. Grows
    BY <1>1, <1>3 DEF Grows, Decided
  <1>5. TypeOK'
    BY <1>1, <1>2, <1>3 DEF TypeOK, history
  <1>6. proc[p].op.op = "discover"
    BY <1>1 DEF Shaped, PhaseOfOp
  <1>7. Shaped(proc[p])' /\ Knows(proc[p])'
    BY <1>1, <1>2, <1>4, <1>6 DEF Shaped, Knows, PhaseOfOp, SameCall, Wrote, Grows
  <1>8. CallsSound'
    BY <1>2, <1>4, <1>7, CallsKeep
  <1>9. LeasesSound'
    BY <1>1, <1>2, <1>4, LeasesStay DEF Holds, Holding, SameCall, history, tables
  <1>10. DecisionsSound'
    BY <1>1, <1>2, <1>3, DecisionsKeep DEF history
  <1> QED
    BY <1>1, <1>4, <1>5, <1>8, <1>9, <1>10, TablesGrow

LEMMA LookStep == ASSUME IInv, NEW p \in Process, Look(p) PROVE IInv'
  <1> USE DEF IInv
  <1> DEFINE r == proc[p].op.pair
  <1>1. /\ proc[p].phase = "looking" /\ Shaped(proc[p]) /\ Knows(proc[p]) /\ r \in Pair
        /\ UNCHANGED <<tables, clock, ledger, begun, disturbed>>
        /\ Enter(p, IF r \in Open THEN "deciding" ELSE "releasing")
        /\ contended \subseteq contended' /\ contended' \subseteq Pair
        /\ r \notin contended' => \A q \in Process \ {p} : ~ Deciding(q, r)
    BY DEF Look, At, CallsSound, Shaped, PhaseOfOp, TypeOK, Deciding
  <1>2. PICK phase \in Phase :
          /\ Enter(p, phase) /\ phase \in {"deciding", "releasing"}
          /\ phase = "deciding" => r \in Open
    BY <1>1 DEF Phase
  <1>3. /\ proc' \in [Process -> Call] /\ proc'[p].phase = phase
        /\ SameCall(proc'[p], proc[p]) /\ Others(p)
    BY <1>2, EnterEffect
  <1>4. TypeOK'
    BY <1>1, <1>3 DEF TypeOK, tables
  <1>5. proc[p].op.op = "decide" /\ Decided' = Decided
    BY <1>1 DEF Shaped, PhaseOfOp, tables, Decided
  <1>6. Shaped(proc[p])' /\ Knows(proc[p])'
    BY <1>1, <1>2, <1>3, <1>5 DEF Shaped, Knows, PhaseOfOp, SameCall
  <1>7. CallsSound'
    BY <1>1, <1>3, <1>6, TablesStay, CallsKeep
  <1>8. LeasesSound'
    BY <1>1, <1>2, <1>3, TablesStay, LeasesStay DEF Holds, Holding, SameCall, tables
  <1>9. DecisionsSound'
    <2>1. \A q \in Process \ {p}, x \in Pair : Deciding(q, x)' <=> Deciding(q, x)
      BY <1>3 DEF Deciding, Others
    <2>2. \A x \in Pair : Deciding(p, x)' => x = r /\ proposals[x] = "PROPOSED"
      BY <1>2, <1>3 DEF Deciding, SameCall, Open
    <2>3. proposals' = proposals
      BY <1>1 DEF tables
    <2> QED
      BY <1>1, <2>1, <2>2, <2>3 DEF DecisionsSound
  <1> QED
    BY <1>1, <1>4, <1>7, <1>8, <1>9, TablesStay

LEMMA ApplyStep == ASSUME IInv, NEW p \in Process, Apply(p) PROVE IInv'
  <1> USE DEF IInv
  <1>0. PICK r \in Pair : r = proc[p].op.pair
    BY DEF Apply, At, CallsSound, Shaped, PhaseOfOp
  <1>1. /\ proc[p].phase = "deciding" /\ Shaped(proc[p]) /\ Knows(proc[p])
        /\ proc[p].op.op = "decide" /\ proc[p].op.decision \in Decision
        /\ UNCHANGED <<versions, runs, status, clock, ledger, begun, history>>
        /\ Enter(p, "rereading") /\ "rereading" \in Phase
    BY DEF Apply, At, CallsSound, Shaped, PhaseOfOp, Phase
  <1>2. /\ proc' \in [Process -> Call] /\ proc'[p].phase = "rereading"
        /\ SameCall(proc'[p], proc[p]) /\ Others(p)
    BY <1>1, EnterEffect
  <1>3. /\ proposals' \in [Pair -> {"absent", "PROPOSED"} \cup Decision]
        /\ proposals'[r] = proc[p].op.decision
        /\ \A x \in Pair \ {r} : proposals'[x] = proposals[x]
    BY <1>0, <1>1 DEF Apply, TypeOK
  <1>4. Grows /\ r \in Decided'
    BY <1>1, <1>3 DEF Grows, Decided
  <1>5. TypeOK'
    BY <1>1, <1>2, <1>3 DEF TypeOK, history
  <1>6. Shaped(proc[p])' /\ Knows(proc[p])'
    BY <1>0, <1>1, <1>2, <1>4 DEF Shaped, Knows, PhaseOfOp, SameCall, Wrote, Grows
  <1>7. CallsSound'
    BY <1>2, <1>4, <1>6, CallsKeep
  <1>8. LeasesSound'
    BY <1>1, <1>2, <1>4, LeasesStay DEF Holds, Holding, SameCall, history, tables
  <1>9. DecisionsSound'
    <2>1. \A q \in Process \ {p}, x \in Pair : Deciding(q, x)' <=> Deciding(q, x)
      BY <1>2 DEF Deciding, Others
    <2>2. \A x \in Pair : ~ Deciding(p, x)'
      BY <1>2 DEF Deciding
    <2>3. r \notin contended => \A q \in Process \ {p} : ~ Deciding(q, r)
      BY <1>0, <1>1 DEF DecisionsSound, Deciding
    <2> QED
      BY <1>1, <1>3, <2>1, <2>2, <2>3 DEF DecisionsSound, history
  <1> QED
    BY <1>1, <1>4, <1>5, <1>7, <1>8, <1>9, TablesGrow

LEMMA CountOpenStep == ASSUME IInv, NEW p \in Process, CountOpen(p) PROVE IInv'
  <1> USE DEF IInv
  <1>1. /\ proc[p].phase = "counting" /\ Shaped(proc[p]) /\ Knows(proc[p])
        /\ UNCHANGED <<tables, clock, ledger, begun, history>>
        /\ Enter(p, IF Open = {} THEN "publishing" ELSE "completing")
    BY DEF CountOpen, At, CallsSound
  <1>2. PICK phase \in Phase : Enter(p, phase) /\ phase \in {"publishing", "completing"}
    BY <1>1 DEF Phase
  <1>3. /\ proc' \in [Process -> Call] /\ proc'[p].phase = phase
        /\ SameCall(proc'[p], proc[p]) /\ Others(p)
    BY <1>2, EnterEffect
  <1>4. TypeOK'
    BY <1>1, <1>3 DEF TypeOK, tables, history
  <1>5. proc[p].op.op = "decide" /\ Decided' = Decided
    BY <1>1 DEF Shaped, PhaseOfOp, tables, Decided
  <1>6. Shaped(proc[p])' /\ Knows(proc[p])'
    BY <1>1, <1>2, <1>3, <1>5 DEF Shaped, Knows, PhaseOfOp, SameCall, Wrote, Covers
  <1>7. CallsSound'
    BY <1>1, <1>3, <1>6, TablesStay, CallsKeep
  <1>8. LeasesSound'
    BY <1>1, <1>2, <1>3, <1>5, TablesStay, LeasesStay
    DEF Holds, Holding, SameCall, history, tables
  <1>9. DecisionsSound'
    BY <1>1, <1>2, <1>3, DecisionsKeep DEF tables, history
  <1> QED
    BY <1>1, <1>4, <1>7, <1>8, <1>9, TablesStay

-----------------------------------------------------------------------------
(* Versions and runs.                                                      *)
LEMMA NumberStep == ASSUME IInv, NEW p \in Process, Number(p) PROVE IInv'
  <1> USE DEF IInv
  <1>0. PICK m \in Nat : Numbers = 1 .. m
    BY DEF TablesSound
  <1>1. /\ proc[p] \in Call /\ proc[p].phase = "numbering" /\ Shaped(proc[p]) /\ Knows(proc[p])
        /\ UNCHANGED <<tables, clock, ledger, begun, history>>
        /\ proc' = [proc EXCEPT ![p].no = m + 1, ![p].phase = "saving"]
    BY <1>0, LatestIsLast DEF Number, At, CallsSound, TypeOK
  <1>2. /\ proc' \in [Process -> Call] /\ Others(p)
        /\ proc'[p].phase = "saving" /\ proc'[p].no = m + 1
        /\ proc'[p].op = proc[p].op /\ proc'[p].key = proc[p].key
        /\ proc'[p].seen = proc[p].seen
    BY <1>1 DEF TypeOK, Call, Phase, Others
  <1>3. TypeOK'
    BY <1>1, <1>2 DEF TypeOK, tables, history
  <1>4. Decided' = Decided /\ Numbers' = 1 .. m /\ proc[p].op.op = "normalize"
    BY <1>0, <1>1 DEF tables, Decided, Numbers, Shaped, PhaseOfOp
  <1>5. m + 1 # 0 /\ \A n \in 1 .. (m + 1) : n # m + 1 => n \in 1 .. m
    OBVIOUS
  <1>6. Shaped(proc[p])' /\ Knows(proc[p])'
    BY <1>1, <1>2, <1>4, <1>5 DEF Shaped, Knows, PhaseOfOp
  <1>7. CallsSound'
    BY <1>1, <1>2, <1>6, TablesStay, CallsKeep
  <1>8. LeasesSound'
    BY <1>1, <1>2, TablesStay, LeasesStay DEF history, Holds, Holding, tables
  <1>9. DecisionsSound'
    BY <1>1, <1>2, DecisionsKeep DEF tables, history
  <1> QED
    BY <1>1, <1>3, <1>7, <1>8, <1>9, TablesStay

LEMMA SaveVersionStep == ASSUME IInv, NEW p \in Process, SaveVersion(p) PROVE IInv'
  <1> USE DEF IInv
  <1> DEFINE c == proc[p]
             row == [no |-> c.no, sound |-> c.sound, reviewed |-> c.seen, by |-> c.key]
  <1>1. /\ c \in Call /\ c.phase = "saving" /\ Shaped(c) /\ Knows(c) /\ c.op.op = "normalize"
        /\ c.no \notin Numbers /\ versions' = versions \cup {row}
        /\ UNCHANGED <<proposals, runs, status, clock, ledger, begun, history>>
        /\ Enter(p, "rereading") /\ "rereading" \in Phase
    BY DEF SaveVersion, At, CallsSound, TypeOK, Phase
  <1>2. /\ proc' \in [Process -> Call] /\ proc'[p].phase = "rereading"
        /\ SameCall(proc'[p], c) /\ Others(p)
    BY <1>1, EnterEffect
  <1>3. row \in Version /\ row.no = c.no /\ row.reviewed \subseteq Decided /\ row.by = c.key
    BY <1>1 DEF Call, Version, Shaped, Knows
  <1>4. /\ c.no \in Nat /\ c.no # 0
        /\ \A n \in 1 .. c.no : n # c.no => n \in Numbers
    BY <1>1 DEF Call, Knows
  <1> HIDE DEF row
  <1>5. Grows /\ Decided' = Decided
    BY <1>1 DEF Grows, Decided
  <1>6. TypeOK'
    BY <1>1, <1>2, <1>3 DEF TypeOK, history
  <1>7. TablesSound'
    <2>1. PICK m \in Nat : Numbers = 1 .. m
      BY DEF TablesSound
    <2>2. c.no = m + 1
      <3>1. c.no > m
        BY <1>1, <1>4, <2>1
      <3>2. ~ (c.no > m + 1)
        <4> SUFFICES ASSUME c.no > m + 1 PROVE FALSE
          OBVIOUS
        <4>1. m + 1 \in 1 .. c.no /\ m + 1 # c.no
          BY <1>4
        <4>2. m + 1 \in Numbers
          BY <1>4, <4>1
        <4> QED
          BY <2>1, <4>2
      <3> QED
        BY <1>4, <3>1, <3>2
    <2>3. Numbers' = 1 .. (m + 1)
      <3>1. Numbers' = Numbers \cup {c.no}
        BY <1>1, <1>3 DEF Numbers
      <3> QED
        BY <2>1, <2>2, <3>1
    <2>4. \A v, w \in versions' : v.no = w.no => v = w
      BY <1>1, <1>3 DEF TablesSound, Numbers
    <2>5. VersionsAreReviewed'
      BY <1>1, <1>3, <1>5 DEF TablesSound, VersionsAreReviewed
    <2>6. StatusIsBacked'
      BY <1>1, <1>5 DEF TablesSound, StatusIsBacked
    <2>7. \E n \in Nat : Numbers' = 1 .. n
      BY <2>3
    <2> QED
      BY <1>1, <2>4, <2>5, <2>6, <2>7 DEF TablesSound
  <1>8. Shaped(proc[p])' /\ Knows(proc[p])'
    <2>1. \E own \in versions' : own.by = proc'[p].key
      BY <1>1, <1>2, <1>3 DEF SameCall
    <2> QED
      BY <1>1, <1>2, <1>5, <2>1 DEF Shaped, Knows, PhaseOfOp, SameCall, Wrote
  <1>9. CallsSound'
    BY <1>2, <1>5, <1>8, CallsKeep
  <1>10. LeasesSound'
    <2>1. WritesAsOwner(p)
      BY <1>1, <1>3 DEF WritesAsOwner, Holds, Holding
    <2> QED
      BY <1>1, <1>2, <1>5, <2>1, LeasesKeep DEF Holds, Holding, Completing, SameCall, history
  <1>11. DecisionsSound'
    BY <1>1, <1>2, DecisionsKeep DEF history
  <1> QED
    BY <1>6, <1>7, <1>9, <1>10, <1>11

LEMMA SaveRunStep == ASSUME IInv, NEW p \in Process, SaveRun(p) PROVE IInv'
  <1> USE DEF IInv
  <1> DEFINE c == proc[p]
             row == [started |-> c.started, version |-> c.no,
                     status |-> IF c.sound THEN "COMPLETED" ELSE "INCOMPLETE", by |-> c.key]
  <1>1. /\ c \in Call /\ c.phase = "saving" /\ Shaped(c) /\ Knows(c) /\ c.op.op = "reconcile"
        /\ runs' = runs \cup {row}
        /\ UNCHANGED <<proposals, versions, status, clock, ledger, begun, history>>
        /\ Enter(p, "rereading") /\ "rereading" \in Phase
    BY DEF SaveRun, At, CallsSound, TypeOK, Phase
  <1>2. /\ proc' \in [Process -> Call] /\ proc'[p].phase = "rereading"
        /\ SameCall(proc'[p], c) /\ Others(p)
    BY <1>1, EnterEffect
  <1>3. /\ row \in Run /\ row.started = c.started /\ row.version = c.no /\ row.by = c.key
        /\ row.status = IF c.sound THEN "COMPLETED" ELSE "INCOMPLETE"
        /\ c.started \in Nat
    BY <1>1 DEF Call, Run, Shaped
  <1> HIDE DEF row
  <1>4. Grows /\ Decided' = Decided
    BY <1>1 DEF Grows, Decided
  <1>5. TypeOK'
    BY <1>1, <1>2, <1>3 DEF TypeOK, history
  <1>6. TablesSound'
    <2>1. \E x \in runs' : \A y \in runs' : y.started <= x.started
      <3>1. CASE runs = {}
        BY <1>1, <1>3, <3>1
      <3>2. CASE runs # {}
        <4>1. PICK x \in runs : \A y \in runs : y.started <= x.started
          BY <3>2 DEF TablesSound
        <4>2. \A y \in runs : y.started \in Nat
          BY DEF TypeOK, Run
        <4>3. CASE row.started <= x.started
          BY <1>1, <4>1, <4>3
        <4>4. CASE ~ (row.started <= x.started)
          <5>1. \A y \in runs' : y.started <= row.started
            BY <1>1, <1>3, <4>1, <4>2, <4>4
          <5> QED
            BY <1>1, <5>1
        <4> QED
          BY <4>3, <4>4
      <3> QED
        BY <3>1, <3>2
    <2>2. StatusIsBacked'
      BY <1>1, <1>4 DEF TablesSound, StatusIsBacked
    <2> QED
      BY <1>1, <1>4, <2>1, <2>2 DEF TablesSound, Numbers, VersionsAreReviewed
  <1>7. Shaped(proc[p])' /\ Knows(proc[p])'
    <2>1. \E own \in runs' : /\ own.by = proc'[p].key /\ own.version = proc'[p].no
                             /\ own.status = IF proc'[p].sound THEN "COMPLETED" ELSE "INCOMPLETE"
      BY <1>1, <1>2, <1>3 DEF SameCall
    <2>2. Backed(c)
      BY <1>1 DEF Knows
    <2>3. Backed(proc[p])'
      BY <1>1, <1>2, <2>2 DEF Backed, SameCall
    <2> QED
      BY <1>1, <1>2, <1>4, <2>1, <2>3 DEF Shaped, Knows, PhaseOfOp, SameCall, Wrote
  <1>8. CallsSound'
    BY <1>2, <1>4, <1>7, CallsKeep
  <1>9. LeasesSound'
    <2>1. WritesAsOwner(p)
      BY <1>1, <1>3 DEF WritesAsOwner, Holds, Holding
    <2> QED
      BY <1>1, <1>2, <1>4, <2>1, LeasesKeep DEF Holds, Holding, Completing, SameCall, history
  <1>10. DecisionsSound'
    BY <1>1, <1>2, DecisionsKeep DEF history
  <1> QED
    BY <1>5, <1>6, <1>8, <1>9, <1>10

LEMMA RereadStep == ASSUME IInv, NEW p \in Process, Reread(p) PROVE IInv'
  <1> USE DEF IInv
  <1> DEFINE c == proc[p]
  <1>1. /\ c \in Call /\ c.phase = "rereading" /\ Shaped(c) /\ Knows(c)
        /\ c.op.op \in {"decide", "normalize", "reconcile"}
        /\ UNCHANGED <<tables, clock, ledger, begun, history>>
    BY OpNames DEF Reread, At, CallsSound, TypeOK, Shaped, PhaseOfOp
  <1>2. PICK b, phase :
          /\ proc' = [proc EXCEPT ![p].phase = phase, ![p].answer = b]
          /\ b = CASE c.op.op = "decide"    -> Answer(0, 0, proposals[c.op.pair])
                   [] c.op.op = "normalize" -> Answer(Latest(Numbers), 0, None)
                   [] OTHER -> Answer(LatestRun.version, LatestRun.started, None)
          /\ phase = IF c.op.op = "decide" THEN "counting" ELSE "completing"
    BY DEF Reread
  <1>3. b \in Response /\ Covers(c.key, c.op, b) /\ Newest(c.key, c.op, b)
    <2>1. CASE c.op.op = "decide"
      <3>1. b = Answer(0, 0, proposals[c.op.pair])
        BY <1>2, <2>1
      <3>2. proposals[c.op.pair] \in Decision \cup {None, "absent", "PROPOSED"}
        BY <1>1, <2>1 DEF Shaped, TypeOK
      <3> QED
        BY <2>1, <3>1, <3>2, AnswerType DEF Covers, Newest
    <2>2. CASE c.op.op = "normalize"
      <3>1. PICK m \in Nat : Numbers = 1 .. m
        BY DEF TablesSound
      <3>2. b = Answer(m, 0, None)
        BY <1>2, <2>2, <3>1, LatestIsLast
      <3>3. b \in Response /\ b.version = m
        BY <3>2, AnswerType
      <3>4. PICK own \in versions : own.by = c.key
        BY <1>1, <2>2 DEF Knows, Wrote
      <3>5. own.no \in 1 .. m
        BY <3>1 DEF Numbers
      <3>6. m \in Numbers
        BY <3>1, <3>5
      <3>7. PICK v \in versions : v.no = m
        BY <3>6 DEF Numbers
      <3>8. own.no <= v.no
        BY <3>5, <3>7
      <3>9. \A w \in versions : w.no <= m
        BY <3>1 DEF Numbers
      <3> QED
        BY <2>2, <3>3, <3>4, <3>7, <3>8, <3>9 DEF Covers, Newest, OwnVersions
    <2>3. CASE c.op.op = "reconcile"
      <3>1. PICK own \in runs : own.by = c.key
        BY <1>1, <2>3 DEF Knows, Wrote
      <3>2. \E x \in runs : \A y \in runs : y.started <= x.started
        BY <3>1 DEF TablesSound
      <3>3. LatestRun \in runs /\ \A y \in runs : y.started <= LatestRun.started
        BY <3>2 DEF LatestRun
      <3>4. LatestRun.version \in Nat /\ LatestRun.started \in Nat
        BY <3>3 DEF TypeOK, Run
      <3>5. b = Answer(LatestRun.version, LatestRun.started, None)
        BY <1>2, <2>3
      <3>6. /\ b \in Response /\ b.version = LatestRun.version
            /\ b.started = LatestRun.started
        BY <3>4, <3>5, AnswerType
      <3> QED
        BY <2>3, <3>1, <3>3, <3>6 DEF Covers, Newest, OwnRuns
    <2> QED
      BY <1>1, <2>1, <2>2, <2>3
  <1>4. /\ proc' \in [Process -> Call] /\ Others(p)
        /\ proc'[p].phase = phase /\ proc'[p].answer = b
        /\ proc'[p].op = c.op /\ proc'[p].key = c.key /\ proc'[p].seen = c.seen
        /\ proc'[p].no = c.no /\ proc'[p].sound = c.sound
    <2>1. phase \in Phase
      BY <1>2 DEF Phase
    <2> QED
      BY <1>1, <1>2, <1>3, <2>1 DEF TypeOK, Call, Others
  <1>5. TypeOK'
    BY <1>1, <1>4 DEF TypeOK, tables, history
  <1>6. Decided' = Decided /\ versions' = versions /\ runs' = runs
    BY <1>1 DEF tables, Decided
  <1>7. Covers(proc[p].key, proc[p].op, proc[p].answer)'
    BY <1>3, <1>4, <1>6 DEF Covers
  <1>8. phase \in {"counting", "completing"} /\ (phase = "counting" => c.op.op = "decide")
    BY <1>2
  <1>9. Shaped(proc[p])' /\ Knows(proc[p])'
    BY <1>1, <1>3, <1>4, <1>6, <1>7, <1>8
    DEF Shaped, Knows, PhaseOfOp, Wrote, Backed
  <1>10. CallsSound'
    BY <1>1, <1>4, <1>9, TablesStay, CallsKeep
  <1>11. LeasesSound'
    <2>1. WritesAsOwner(p)
      BY <1>6, NothingWritten
    <2>2. Newest(proc[p].key, proc[p].op, proc[p].answer)'
      BY <1>3, <1>4, <1>6 DEF Newest, OwnVersions, OwnRuns
    <2> QED
      BY <1>1, <1>4, <1>8, <2>1, <2>2, TablesStay, LeasesKeep
      DEF Holds, Holding, Completing, Newest, OwnVersions, OwnRuns, history
  <1>12. DecisionsSound'
    BY <1>1, <1>4, <1>8, DecisionsKeep DEF tables, history
  <1> QED
    BY <1>1, <1>5, <1>10, <1>11, <1>12, TablesStay

(* The status a call publishes has its backing in what the call wrote.     *)
LEMMA PublishStep == ASSUME IInv, NEW p \in Process, Publish(p) PROVE IInv'
  <1> USE DEF IInv
  <1> DEFINE c == proc[p]
  <1>1. /\ c \in Call /\ c.phase = "publishing" /\ Shaped(c) /\ Knows(c)
        /\ c.op.op \in {"discover", "decide", "normalize", "reconcile"}
        /\ UNCHANGED <<proposals, versions, runs, clock, ledger, begun, history>>
        /\ status' = Outcome(c)
        /\ IF c.op.op \in {"normalize", "reconcile"} THEN Return(p) ELSE Enter(p, "completing")
    BY OpNames DEF Publish, At, CallsSound, TypeOK, Shaped
  <1>2. Grows /\ Decided' = Decided
    BY <1>1 DEF Grows, Decided
  <1>3. status' \in Status /\ StatusIsBacked'
    <2>1. CASE c.op.op = "discover"
      <3>1. status' = "RELATIONSHIP_REVIEW"
        BY <1>1, <2>1 DEF Outcome
      <3> QED
        BY <3>1 DEF Status, StatusIsBacked
    <2>2. CASE c.op.op = "decide"
      <3>1. status' = "READY_TO_BUILD"
        BY <1>1, <2>2 DEF Outcome
      <3>2. Decided' # {}
        BY <1>1, <1>2, <2>2 DEF Knows, Wrote
      <3> QED
        BY <3>1, <3>2 DEF Status, StatusIsBacked
    <2>3. CASE c.op.op = "normalize"
      <3>1. status' = "PROCESSING"
        BY <1>1, <2>3 DEF Outcome
      <3>2. versions' # {}
        BY <1>1, <2>3 DEF Knows, Wrote
      <3> QED
        BY <3>1, <3>2 DEF Status, StatusIsBacked
    <2>4. CASE c.op.op = "reconcile"
      <3>1. status' = IF c.sound THEN "RECONCILED" ELSE "FAILED"
        BY <1>1, <2>4 DEF Outcome
      <3>2. PICK x \in runs : /\ x.version = c.no
                              /\ x.status = IF c.sound THEN "COMPLETED" ELSE "INCOMPLETE"
        BY <1>1, <2>4 DEF Knows, Wrote
      <3>3. PICK v \in versions : v.no = c.no /\ v.sound = c.sound
        BY <1>1, <2>4 DEF Knows, Backed
      <3>4. x \in runs' /\ v \in versions'
        BY <1>1
      <3> QED
        BY <3>1, <3>2, <3>3, <3>4 DEF Status, StatusIsBacked
    <2> QED
      BY <1>1, <2>1, <2>2, <2>3, <2>4
  <1>4. TablesSound'
    BY <1>1, <1>2, <1>3 DEF TablesSound, Numbers, VersionsAreReviewed
  <1>5. CASE Return(p)
    <2>1. proc' \in [Process -> Call] /\ proc'[p] = Idle /\ Others(p)
      BY <1>5, ReturnEffect
    <2>2. TypeOK'
      BY <1>1, <1>3, <2>1 DEF TypeOK, history
    <2>3. Shaped(proc[p])' /\ Knows(proc[p])'
      BY <2>1, IdleType DEF Shaped, Knows
    <2>4. CallsSound'
      BY <1>2, <2>1, <2>3, CallsKeep
    <2>5. LeasesSound'
      BY <1>1, <1>2, <2>1, IdleType, LeasesStay DEF Holds, Holding, history, tables
    <2>6. DecisionsSound'
      BY <1>1, <2>1, IdleType, DecisionsKeep DEF history
    <2> QED
      BY <1>4, <2>2, <2>4, <2>5, <2>6
  <1>6. CASE Enter(p, "completing") /\ c.op.op \in {"discover", "decide"}
    <2>1. /\ proc' \in [Process -> Call] /\ proc'[p].phase = "completing"
          /\ SameCall(proc'[p], c) /\ Others(p)
      BY <1>6, EnterEffect DEF Phase
    <2>2. TypeOK'
      BY <1>1, <1>3, <2>1 DEF TypeOK, history
    <2>3. Shaped(proc[p])' /\ Knows(proc[p])'
      BY <1>1, <1>2, <1>6, <2>1 DEF Shaped, Knows, PhaseOfOp, SameCall, Wrote, Covers
    <2>4. CallsSound'
      BY <1>2, <2>1, <2>3, CallsKeep
    <2>5. LeasesSound'
      BY <1>1, <1>2, <1>6, <2>1, LeasesStay DEF Holds, Holding, SameCall, history, tables
    <2>6. DecisionsSound'
      BY <1>1, <2>1, DecisionsKeep DEF history
    <2> QED
      BY <1>4, <2>2, <2>4, <2>5, <2>6
  <1> QED
    BY <1>1, <1>5, <1>6

-----------------------------------------------------------------------------
(* The ends of a lease.                                                    *)
LEMMA CompleteStep == ASSUME IInv, NEW p \in Process, Complete(p) PROVE IInv'
  <1> USE DEF IInv
  <1> DEFINE c == proc[p]
             b == IF c.op.op = "discover" THEN Answer(0, 0, None) ELSE c.answer
  <1>0. PICK k \in Key : k = c.key
    BY DEF Complete, At, CallsSound, Shaped
  <1>1. /\ c \in Call /\ c.phase = "completing" /\ Shaped(c) /\ Knows(c)
        /\ c.op.op \in {"discover", "decide", "normalize", "reconcile"}
        /\ UNCHANGED <<tables, clock, begun, history>>
        /\ IF c.op.op \in {"normalize", "reconcile"} THEN Enter(p, "publishing") ELSE Return(p)
    BY OpNames DEF Complete, At, CallsSound, TypeOK, Shaped
  <1>2. b \in Response /\ Covers(k, c.op, b)
    BY <1>0, <1>1, AnswerType DEF Shaped, Knows, Covers
  <1>3. /\ ledger' \in [Key -> Ledger!Row]
        /\ ledger'[k] = Ledger!Complete(ledger[k], b)
        /\ \A j \in Key \ {k} : ledger'[j] = ledger[j]
    BY <1>0, <1>2, RowTypes DEF Complete, TypeOK
  <1>4. Decided' = Decided /\ versions' = versions /\ runs' = runs
    BY <1>1 DEF tables, Decided
  <1>5. /\ proc' \in [Process -> Call] /\ Others(p)
        /\ ~ Holding(proc'[p]) /\ proc'[p].phase \notin {"deciding", "completing"}
        /\ Shaped(proc[p])' /\ Knows(proc[p])'
    <2>1. CASE c.op.op \in {"normalize", "reconcile"}
      <3>1. /\ proc' \in [Process -> Call] /\ proc'[p].phase = "publishing"
            /\ SameCall(proc'[p], c) /\ Others(p)
        BY <1>1, <2>1, EnterEffect DEF Phase
      <3>2. Knows(proc[p])'
        BY <1>1, <1>4, <3>1 DEF Knows, SameCall, Wrote, Backed
      <3> QED
        BY <1>1, <2>1, <3>1, <3>2 DEF Shaped, PhaseOfOp, SameCall, Holding
    <2>2. CASE c.op.op \notin {"normalize", "reconcile"}
      <3>1. proc' \in [Process -> Call] /\ proc'[p] = Idle /\ Others(p)
        BY <1>1, <2>2, ReturnEffect
      <3> QED
        BY <3>1, IdleType DEF Shaped, Knows, Holding
    <2> QED
      BY <2>1, <2>2
  <1> HIDE DEF b
  <1>6. TypeOK'
    BY <1>1, <1>3, <1>5 DEF TypeOK, tables, history
  <1>7. CallsSound'
    BY <1>1, <1>5, TablesStay, CallsKeep
  <1>8. ASSUME k \notin disturbed
        PROVE  /\ ~ ledger'[k].lapsed
               /\ Excl(k)'
               /\ ledger'[k].state = "done" => /\ Covers(k, ledger'[k].hash, ledger'[k].body)
                                               /\ Newest(k, ledger'[k].hash, ledger'[k].body)
    <2>1. Excl(k) /\ Holds(p, k)
      BY <1>0, <1>1, <1>8 DEF LeasesSound, Holds, Holding
    <2>6. Newest(k, c.op, b)
      <3>1. Newest(k, c.op, c.answer)
        BY <1>0, <1>1, <1>8 DEF LeasesSound, Completing
      <3> QED
        BY <3>1 DEF Newest, b
    <2>2. /\ ledger[k].state = "pending" /\ ledger[k].hash = c.op
          /\ \A q \in Process \ {p} : ~ Holds(q, k)
      BY <2>1 DEF Excl
    <2>3. \A q \in Process : ~ Holds(q, k)'
      BY <1>5, <2>2 DEF Holds, Holding, Others
    <2>4. ledger'[k] = Ledger!Done(c.op, b)
      BY <1>3, <2>2 DEF Ledger!Complete
    <2>5. ~ ledger'[k].lapsed /\ ledger'[k].hash = c.op /\ ledger'[k].body = b
      BY <2>4 DEF Ledger!Done
    <2> QED
      BY <1>2, <2>3, <2>5, <2>6 DEF Excl
  <1>9. LeasesSound'
    <2>1. \A j \in Key \ {k} : ~ Holds(p, j)'
      BY <1>5 DEF Holds, Holding
    <2> QED
      BY <1>1, <1>3, <1>5, <1>8, <2>1, LeaseChanges DEF tables, history
  <1>10. DecisionsSound'
    BY <1>1, <1>5, DecisionsKeep DEF tables, history
  <1> QED
    BY <1>1, <1>6, <1>7, <1>9, <1>10, TablesStay

LEMMA ReleaseStep == ASSUME IInv, NEW p \in Process, ReleaseLease(p) PROVE IInv'
  <1> USE DEF IInv
  <1>0. PICK k \in Key : k = proc[p].key
    BY DEF ReleaseLease, At, CallsSound, Shaped
  <1>1. /\ proc[p].phase = "releasing" /\ Return(p)
        /\ UNCHANGED <<tables, clock, begun, history>>
    BY DEF ReleaseLease, At
  <1>2. proc' \in [Process -> Call] /\ proc'[p] = Idle /\ Others(p)
    BY <1>1, ReturnEffect
  <1>3. /\ ledger' \in [Key -> Ledger!Row]
        /\ ledger'[k] = Ledger!Release(ledger[k])
        /\ \A j \in Key \ {k} : ledger'[j] = ledger[j]
    BY <1>0, RowTypes DEF ReleaseLease, TypeOK
  <1>4. TypeOK'
    BY <1>1, <1>2, <1>3 DEF TypeOK, tables, history
  <1>5. Shaped(proc[p])' /\ Knows(proc[p])'
    BY <1>2, IdleType DEF Shaped, Knows
  <1>6. CallsSound'
    BY <1>1, <1>2, <1>5, TablesStay, CallsKeep
  <1>7. ASSUME k \notin disturbed
        PROVE  ~ ledger'[k].lapsed /\ Excl(k)' /\ ledger'[k].state # "done"
    <2>1. Excl(k) /\ Holds(p, k)
      BY <1>0, <1>1, <1>7 DEF LeasesSound, Holds, Holding
    <2>2. ledger[k].state = "pending" /\ \A q \in Process \ {p} : ~ Holds(q, k)
      BY <2>1 DEF Excl
    <2>3. \A q \in Process : ~ Holds(q, k)'
      BY <1>2, <2>2, IdleType DEF Holds, Holding, Others
    <2>4. ledger'[k] = Ledger!Absent
      BY <1>3, <2>2 DEF Ledger!Release
    <2> QED
      BY <2>3, <2>4 DEF Excl, Ledger!Absent
  <1>8. LeasesSound'
    <2>1. \A j \in Key \ {k} : ~ Holds(p, j)'
      BY <1>2, IdleType DEF Holds, Holding
    <2> QED
      BY <1>1, <1>2, <1>3, <1>7, <2>1, IdleType, LeaseChanges DEF tables, history
  <1>9. DecisionsSound'
    BY <1>1, <1>2, IdleType, DecisionsKeep DEF tables, history
  <1> QED
    BY <1>1, <1>4, <1>6, <1>8, <1>9, TablesStay

LEMMA LapseStep == ASSUME IInv, NEW k \in Key, LeaseEnds(k) PROVE IInv'
  <1> USE DEF IInv
  <1>1. /\ UNCHANGED <<tables, clock, begun, proc, contended>>
        /\ disturbed' = disturbed \cup {k}
        /\ ledger' \in [Key -> Ledger!Row]
        /\ \A j \in Key \ {k} : ledger'[j] = ledger[j]
    BY RowTypes DEF LeaseEnds, TypeOK
  <1>2. TypeOK'
    BY <1>1 DEF TypeOK, tables
  <1>3. CallsSound'
    <2>1. Grows
      BY <1>1, TablesStay
    <2> QED
      BY <1>1, <2>1, KnowledgeStays DEF CallsSound
  <1>4. LeasesSound'
    <2>1. \A j \in Key \ disturbed' : Excl(j)'
      BY <1>1 DEF LeasesSound, Excl, Holds
    <2>2. ASSUME NEW j \in Key \ disturbed', ledger'[j].state = "done"
          PROVE  /\ Covers(j, ledger[j].hash, ledger[j].body)'
                 /\ Newest(j, ledger[j].hash, ledger[j].body)'
      <3>1. /\ Covers(j, ledger'[j].hash, ledger'[j].body)
            /\ Newest(j, ledger'[j].hash, ledger'[j].body)
        BY <1>1, <2>2 DEF LeasesSound
      <3> QED
        BY <1>1, <3>1 DEF Covers, Newest, OwnVersions, OwnRuns, tables
    <2>4. ASSUME NEW j \in Key \ disturbed', NEW p \in Process, Completing(p, j)'
          PROVE  Newest(j, proc[p].op, proc[p].answer)'
      <3>1. Newest(j, proc[p].op, proc[p].answer)
        BY <1>1, <2>4 DEF LeasesSound, Completing
      <3> QED
        BY <1>1, <3>1 DEF Newest, OwnVersions, OwnRuns, tables
    <2>3. \A j \in Key : ledger'[j].lapsed => j \in disturbed'
      BY <1>1 DEF LeasesSound
    <2> QED
      BY <2>1, <2>2, <2>3, <2>4 DEF LeasesSound
  <1>5. DecisionsSound'
    BY <1>1 DEF DecisionsSound, Deciding, tables
  <1> QED
    BY <1>1, <1>2, <1>3, <1>4, <1>5, TablesStay

-----------------------------------------------------------------------------
LEMMA StepInv == IInv /\ [Next]_vars => IInv'
  <1> SUFFICES ASSUME IInv, [Next]_vars PROVE IInv'
    OBVIOUS
  <1>1. CASE Next
    <2>1. ASSUME NEW p \in Process, NEW k \in Key, NEW o \in Request, Begin(p, k, o)
          PROVE  IInv'
      BY <2>1, BeginStep
    <2>2. ASSUME NEW p \in Process, NEW sound \in BOOLEAN, Prepare(p, sound) PROVE IInv'
      BY <2>2, PrepareStep
    <2>3. ASSUME NEW p \in Process, NEW found \in SUBSET Pair, Upsert(p, found) PROVE IInv'
      BY <2>3, UpsertStep
    <2>4. ASSUME NEW p \in Process,
                 \/ Load(p) \/ Stamp(p)
                 \/ Reserve(p) \/ ReserveLost(p) \/ ReadBack(p)
                 \/ Look(p) \/ Apply(p) \/ CountOpen(p)
          PROVE  IInv'
      BY <2>4, LoadStep, StampStep, ReserveStep, LostStep, LookStep, ApplyStep, CountOpenStep
    <2>5. ASSUME NEW p \in Process,
                 \/ Number(p) \/ SaveVersion(p) \/ SaveRun(p) \/ Reread(p)
                 \/ Complete(p) \/ Publish(p)
                 \/ Fails(p) \/ ReleaseLease(p) \/ Abandon(p)
          PROVE  IInv'
      BY <2>5, NumberStep, SaveVersionStep, SaveRunStep, RereadStep, CompleteStep,
         PublishStep, FailsStep, ReleaseStep, AbandonStep
    <2>6. ASSUME NEW k \in Key, LeaseEnds(k) PROVE IInv'
      BY <2>6, LapseStep
    <2> QED
      BY <1>1, <2>1, <2>2, <2>3, <2>4, <2>5, <2>6 DEF Next
  <1>2. CASE UNCHANGED vars
    <2>1. UNCHANGED tables /\ TablesSound'
      BY <1>2, TablesStay DEF vars, tables, IInv
    <2>2. TypeOK' /\ DecisionsSound'
      BY <1>2 DEF vars, IInv, TypeOK, DecisionsSound, Deciding
    <2>3. CallsSound'
      <3>1. Grows
        BY <2>1, TablesStay
      <3>2. ASSUME NEW q \in Process PROVE Shaped(proc[q])' /\ Knows(proc[q])'
        <4>1. proc'[q] = proc[q] /\ Shaped(proc[q]) /\ Knows(proc[q])
          BY <1>2 DEF vars, IInv, CallsSound
        <4> QED
          BY <3>1, <4>1, KnowledgeStays
      <3> QED
        BY <3>2 DEF CallsSound
    <2>4. LeasesSound'
      <3>1. \A k \in Key : Excl(k) => Excl(k)'
        BY <1>2 DEF vars, Excl, Holds
      <3>2. \A k \in Key : Covers(k, ledger[k].hash, ledger[k].body) =>
              Covers(k, ledger[k].hash, ledger[k].body)'
        BY <1>2 DEF vars, Covers
      <3>3. ASSUME NEW k \in Key \ disturbed
            PROVE  /\ \A q \in Process : Completing(q, k)' => Newest(k, proc[q].op, proc[q].answer)'
                   /\ (ledger[k].state = "done")' => Newest(k, ledger[k].hash, ledger[k].body)'
        BY <1>2 DEF vars, IInv, LeasesSound, Newest, OwnVersions, OwnRuns, Completing
      <3> QED
        BY <1>2, <3>1, <3>2, <3>3 DEF vars, IInv, LeasesSound
    <2> QED
      BY <2>1, <2>2, <2>3, <2>4 DEF IInv
  <1> QED
    BY <1>1, <1>2

LEMMA Invariance == Spec => []IInv
  BY InitInv, StepInv, PTL DEF Spec

-----------------------------------------------------------------------------
(* Every variable keeps its type: a call that is under way has its key and *)
(* its request, and the status is one of those that a call publishes.      *)
THEOREM StatesAreTyped == Spec => []TypeOK
  BY Invariance, PTL DEF IInv

(* However many normalizations draw a number at the same time, the numbers *)
(* of the saved versions are 1, 2, ... (next_dataset_version and the unique*)
(* constraint that save_dataset_version runs into).                        *)
THEOREM VersionsCountUp == Spec => []VersionsAreDense
  <1>1. IInv => VersionsAreDense
    <2> SUFFICES ASSUME IInv PROVE VersionsAreDense
      OBVIOUS
    <2>1. PICK m \in Nat : Numbers = 1 .. m
      BY DEF IInv, TablesSound
    <2>2. \A v \in versions : v.no \in 1 .. m
      BY <2>1 DEF Numbers
    <2>3. \A v \in versions : \A n \in 1 .. v.no : n \in Numbers
      BY <2>1, <2>2
    <2> QED
      BY <2>3 DEF IInv, TablesSound, VersionsAreDense
  <1> QED
    BY <1>1, Invariance, PTL

(* The relationships beside which a version was prepared stay decided.     *)
THEOREM ReviewedStaysDecided == Spec => []VersionsAreReviewed
  <1>1. IInv => VersionsAreReviewed
    BY DEF IInv, TablesSound
  <1> QED
    BY <1>1, Invariance, PTL

(* What an undisturbed key replays is in the table and not older than      *)
(* anything the calls with this key wrote, though the answer is read back  *)
(* in a later transaction, which may fail and leave the write behind.      *)
THEOREM AnswersCoverWrites == Spec => []AnswerCoversWrite
  <1>1. IInv => AnswerCoversWrite
    <2> SUFFICES ASSUME IInv, NEW k \in Key \ disturbed, ledger[k].state = "done"
                 PROVE  /\ ledger[k].hash.op = "normalize" =>
                             /\ OwnVersions(k) # {}
                             /\ \E v \in versions :
                                  /\ v.no = ledger[k].body.version
                                  /\ \A own \in OwnVersions(k) : own.no <= v.no
                        /\ ledger[k].hash.op = "reconcile" =>
                             /\ OwnRuns(k) # {}
                             /\ \E x \in runs :
                                  /\ x.started = ledger[k].body.started
                                  /\ x.version = ledger[k].body.version
                                  /\ \A own \in OwnRuns(k) : own.started <= x.started
      BY DEF AnswerCoversWrite
    <2>1. /\ Covers(k, ledger[k].hash, ledger[k].body)
          /\ Newest(k, ledger[k].hash, ledger[k].body)
      BY DEF IInv, LeasesSound
    <2>2. CASE ledger[k].hash.op = "normalize"
      BY <2>1, <2>2 DEF Covers, Newest, OwnVersions
    <2>3. CASE ledger[k].hash.op = "reconcile"
      BY <2>1, <2>3 DEF Covers, Newest, OwnRuns
    <2> QED
      BY <2>2, <2>3
  <1> QED
    BY <1>1, Invariance, PTL

(* The status of the investigation never runs ahead of the tables, though  *)
(* no call looks at it before it publishes another.                        *)
THEOREM StatusHasBacking == Spec => []StatusIsBacked
  <1>1. IInv => StatusIsBacked
    BY DEF IInv, TablesSound
  <1> QED
    BY <1>1, Invariance, PTL

(* A decision is changed only where two calls found the proposal open.     *)
THEOREM DecisionsAreKept == Spec => DecisionStands
  <1> DEFINE Stands == \A r \in Decided : proposals'[r] # proposals[r] => r \in contended'
  <1>1. IInv /\ [Next]_vars => [Stands]_vars
    <2> SUFFICES ASSUME IInv, Next PROVE Stands
      OBVIOUS
    <2>1. ASSUME NEW p \in Process, NEW found \in SUBSET Pair, Upsert(p, found) PROVE Stands
      BY <2>1 DEF IInv, TypeOK, Upsert, Proposed, Decided
    <2>2. ASSUME NEW p \in Process, Apply(p) PROVE Stands
      <3>1. /\ proc[p].phase = "deciding" /\ contended' = contended
            /\ \A x \in Pair : x # proc[p].op.pair => proposals'[x] = proposals[x]
        BY <2>2 DEF Apply, At, history, IInv, TypeOK
      <3>2. ASSUME NEW r \in Decided, r = proc[p].op.pair PROVE r \in contended
        <4>1. r \in Pair /\ proposals[r] # "PROPOSED" /\ Deciding(p, r)
          BY <3>1, <3>2, PipelineAssumption DEF Decided, Deciding
        <4> QED
          BY <4>1 DEF IInv, DecisionsSound
      <3> QED
        BY <3>1, <3>2 DEF Decided
    <2>3. CASE UNCHANGED proposals
      BY <2>3
    <2>4. \/ UNCHANGED proposals
          \/ \E p \in Process : Apply(p) \/ \E found \in SUBSET Pair : Upsert(p, found)
      BY DEF Next, Begin, Prepare, Load, Stamp, Reserve, ReserveLost, ReadBack, Look,
             CountOpen, Number, SaveVersion, SaveRun, Reread, Complete, Publish, Fails,
             ReleaseLease, Abandon, LeaseEnds, tables
    <2> QED
      BY <2>1, <2>2, <2>3, <2>4
  <1> QED
    BY <1>1, Invariance, PTL DEF Spec, DecisionStands
=============================================================================
