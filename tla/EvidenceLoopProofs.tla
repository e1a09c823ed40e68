------------------------- MODULE EvidenceLoopProofs -------------------------
(***************************************************************************)
(* Proofs about EvidenceLoop for any tools, baselines, arguments and bound *)
(* on the steps.                                                           *)
(***************************************************************************)
EXTENDS EvidenceLoop, FiniteSetTheorems, TLAPS

Native == {"collecting", "deciding", "repairing", "finishing", "correcting"}

(* Who is in which phase, and what a phase can rely on.                    *)
PhaseInv ==
  /\ phase \in Native => client # "legacy"
  /\ phase \in {"selecting", "concluding"} => client = "legacy"
  /\ phase # "done" => outcome = None
  /\ phase \in {"verifying", "correcting"} => candidate \in Status
  /\ phase = "correcting" => checked \in Verdict

(* How far the counters can be in each phase: this is what bounds them.    *)
CountInv ==
  /\ phase = "collecting" =>
       calls + Cardinality(left) = Cardinality(baseline) /\ step = 0 /\ asked = 0
  /\ phase = "deciding" =>
       calls = Cardinality(baseline) + step /\ step < Steps /\ asked = step
  /\ phase \in {"repairing", "finishing"} =>
       calls = Cardinality(baseline) + step /\ step < Steps /\ asked = step + 1
  /\ phase \in {"verifying", "correcting"} => asked <= Steps + 1
  /\ phase \in {"selecting", "concluding"} => asked = 0

(* Every pair in called was answered once, the baseline first.             *)
CalledInv ==
  /\ IsFiniteSet(called)
  /\ client # "legacy" /\ phase # "done" => calls = Cardinality(called)
  /\ phase = "collecting" => called = (baseline \ left) \X {Empty}
  /\ client # "legacy" /\ phase # "done" => (baseline \ left) \X {Empty} \subseteq called
  /\ client # "legacy" /\ phase \notin {"collecting", "done"} => left = {}

IInv ==
  /\ TypeOK /\ PhaseInv /\ CountInv /\ CalledInv
  /\ ComparisonIsCollected /\ SupportedIsVerified

-----------------------------------------------------------------------------
LEMMA BaselineFinite ==
  ASSUME baseline \in Baselines, left \subseteq baseline
  PROVE  /\ IsFiniteSet(baseline) /\ IsFiniteSet(left)
         /\ Cardinality(baseline) \in Nat /\ Cardinality(left) \in Nat
  BY LoopAssumption, FS_Subset, FS_CardinalityType

LEMMA InitInv == Init => IInv
  <1> SUFFICES ASSUME Init PROVE IInv
    OBVIOUS
  <1>1. /\ IsFiniteSet({}) /\ Cardinality({}) = 0
    BY FS_EmptySet
  <1>2. Cardinality(baseline) \in Nat
    BY BaselineFinite DEF Init
  <1>3. TypeOK
    BY <1>2, LoopAssumption DEF Init, TypeOK, Phase
  <1>4. PhaseInv
    BY DEF Init, PhaseInv, Native
  <1>5. CountInv
    <2>1. CASE client = "legacy"
      BY <2>1 DEF Init, CountInv
    <2>2. CASE client # "legacy" /\ baseline = {}
      <3>1. Cardinality(baseline) = 0
        BY <1>1, <2>2
      <3>2. phase = "deciding" /\ calls = 0 /\ step = 0 /\ asked = 0
        BY <2>2 DEF Init
      <3> QED
        BY <3>1, <3>2, LoopAssumption DEF CountInv
    <2>3. CASE client # "legacy" /\ baseline # {}
      BY <1>2, <2>3 DEF Init, CountInv
    <2> QED
      BY <2>1, <2>2, <2>3
  <1>6. CalledInv
    BY <1>1 DEF Init, CalledInv
  <1>7. ComparisonIsCollected /\ SupportedIsVerified
    BY LoopAssumption DEF Init, ComparisonIsCollected, SupportedIsVerified
  <1> QED
    BY <1>3, <1>4, <1>5, <1>6, <1>7 DEF IInv

(* One more pair in called.                                                *)
LEMMA OneMore ==
  ASSUME NEW x, x \notin called, IsFiniteSet(called)
  PROVE  /\ IsFiniteSet(called \cup {x})
         /\ Cardinality(called \cup {x}) = Cardinality(called) + 1
         /\ Cardinality(called) \in Nat
  BY FS_AddElement, FS_CardinalityType

LEMMA CollectStep == ASSUME IInv, NEW t \in baseline, Collect(t) PROVE IInv'
  <1> USE DEF IInv, Collect
  <1>1. /\ IsFiniteSet(left) /\ Cardinality(baseline) \in Nat /\ Cardinality(left) \in Nat
    BY BaselineFinite DEF TypeOK
  <1>2. /\ Cardinality(left \ {t}) = Cardinality(left) - 1
        /\ Cardinality(left \ {t}) \in Nat
    BY <1>1, FS_RemoveElement, FS_Subset, FS_CardinalityType
  <1>3. <<t, Empty>> \notin called
    BY DEF CalledInv
  <1>4. /\ IsFiniteSet(called') /\ Cardinality(called') = Cardinality(called) + 1
        /\ Cardinality(called) \in Nat
    BY <1>3, OneMore DEF CalledInv
  <1>5. left' = {} => Cardinality(left') = 0
    BY FS_EmptySet
  <1>6. TypeOK'
    <2>1. calls + 1 \in 0 .. Cardinality(baseline) + Steps
      BY <1>1, <1>2, LoopAssumption DEF TypeOK, CountInv
    <2>2. called' \subseteq (Tool \cup {Foreign}) \X Arguments
      BY LoopAssumption DEF TypeOK
    <2> QED
      BY <2>1, <2>2 DEF TypeOK, Phase
  <1>7. PhaseInv'
    BY DEF PhaseInv, Native
  <1>8. CountInv'
    BY <1>1, <1>2, <1>5, LoopAssumption DEF CountInv, TypeOK
  <1>9. CalledInv'
    <2>1. (baseline \ (left \ {t})) \X {Empty} = ((baseline \ left) \X {Empty}) \cup {<<t, Empty>>}
      BY DEF TypeOK
    <2> QED
      BY <1>4, <2>1 DEF CalledInv, PhaseInv, Native
  <1>10. ComparisonIsCollected' /\ SupportedIsVerified'
    BY LoopAssumption DEF ComparisonIsCollected, SupportedIsVerified, PhaseInv
  <1> QED
    BY <1>6, <1>7, <1>8, <1>9, <1>10
-----------------------------------------------------------------------------
(* The steps that ask the provider or the tool, and end or go on.          *)
LEMMA AskStep == ASSUME TypeOK, Ask
                 PROVE  /\ asked <= Steps + 1 => asked' = asked + 1 /\ asked' \in 0 .. Steps + 2
                        /\ asked \in Nat
  BY LoopAssumption DEF TypeOK, Ask

(* Which variables a step leaves alone decides what it has to keep.        *)
SameCollected == UNCHANGED <<client, baseline, left, called>>

LEMMA FailedEnds == ASSUME NEW n, Failed(n)
                    PROVE  phase' = "done" /\ outcome' \in {"raised", "FAILED"}
  BY DEF Failed, End

(* A step that ends the investigation otherwise than SUPPORTED.            *)
LEMMA EndStep ==
  ASSUME IInv, SameCollected, UNCHANGED <<step, candidate, checked>>,
         phase' = "done", outcome' \in {"UNRESOLVED", "FAILED", "raised"},
         calls' \in 0 .. Cardinality(baseline) + Steps, asked' \in 0 .. Steps + 2
  PROVE  IInv'
  <1> USE DEF IInv, SameCollected
  <1>1. TypeOK'
    BY DEF TypeOK, Phase, Status
  <1>2. PhaseInv' /\ CountInv' /\ CalledInv'
    BY DEF PhaseInv, Native, CountInv, CalledInv
  <1>3. ComparisonIsCollected' /\ SupportedIsVerified'
    BY DEF ComparisonIsCollected, SupportedIsVerified
  <1> QED
    BY <1>1, <1>2, <1>3

LEMMA CollectRefusedStep == ASSUME IInv, CollectRefused PROVE IInv'
  <1>1. asked' \in 0 .. Steps + 2 /\ calls' \in 0 .. Cardinality(baseline) + Steps
    BY DEF CollectRefused, IInv, TypeOK
  <1> QED
    BY <1>1, EndStep DEF CollectRefused, End, SameCollected

LEMMA UnavailableStep ==
  ASSUME IInv, NEW n \in {None, calls + 1}, Unavailable(n) PROVE IInv'
  <1>1. asked' \in 0 .. Steps + 2
    BY AskStep, LoopAssumption DEF Unavailable, IInv, CountInv, TypeOK
  <1>2. calls' \in 0 .. Cardinality(baseline) + Steps
    BY DEF Unavailable, IInv, TypeOK
  <1> QED
    BY <1>1, <1>2, EndStep, FailedEnds DEF Unavailable, SameCollected

LEMMA UndecidedStep == ASSUME IInv, Undecided \/ FinishOtherwise PROVE IInv'
  <1> USE DEF Undecided, FinishOtherwise
  <1>1. asked' \in 0 .. Steps + 2
    BY AskStep, LoopAssumption DEF IInv, CountInv, TypeOK
  <1>2. calls' \in 0 .. Cardinality(baseline) + Steps
    BY DEF IInv, TypeOK
  <1> QED
    BY <1>1, <1>2, EndStep DEF SameCollected, End

LEMMA RepeatStep ==
  ASSUME IInv, NEW t \in Tool, NEW a \in Arguments, Repeat(t, a) PROVE IInv'
  <1> USE DEF IInv, Repeat
  <1>1. asked' \in 0 .. Steps + 2 /\ asked' = asked + 1
    BY AskStep, LoopAssumption DEF CountInv, TypeOK
  <1>2. TypeOK'
    BY <1>1 DEF TypeOK, Phase
  <1>3. PhaseInv' /\ CountInv' /\ CalledInv'
    BY <1>1 DEF PhaseInv, Native, CountInv, CalledInv
  <1>4. ComparisonIsCollected' /\ SupportedIsVerified'
    BY LoopAssumption DEF ComparisonIsCollected, SupportedIsVerified, CalledInv, PhaseInv, Native
  <1> QED
    BY <1>2, <1>3, <1>4

LEMMA InvokeStep ==
  ASSUME IInv, NEW t \in Tool, NEW a \in Arguments, Invoke(t, a) PROVE IInv'
  <1> USE DEF IInv, Invoke
  <1>1. asked' \in 0 .. Steps + 2 /\ asked' = asked + 1
    BY AskStep, LoopAssumption DEF CountInv, TypeOK
  <1>2. Cardinality(baseline) \in Nat
    BY BaselineFinite DEF TypeOK
  <1>3. /\ IsFiniteSet(called') /\ Cardinality(called') = Cardinality(called) + 1
        /\ Cardinality(called) \in Nat
    BY OneMore DEF CalledInv
  <1>4. TypeOK'
    BY <1>1, <1>2, LoopAssumption DEF TypeOK, CountInv, Phase, End, Status
  <1>5. PhaseInv'
    BY DEF PhaseInv, Native, End
  <1>6. CountInv'
    BY <1>1, <1>2, LoopAssumption DEF CountInv, End, TypeOK
  <1>7. CalledInv'
    BY <1>3 DEF CalledInv, PhaseInv, Native, End
  <1>8. ComparisonIsCollected' /\ SupportedIsVerified'
    BY LoopAssumption DEF ComparisonIsCollected, SupportedIsVerified, PhaseInv, End
  <1> QED
    BY <1>4, <1>5, <1>6, <1>7, <1>8

LEMMA RefuseStep ==
  ASSUME IInv, NEW t \in Tool, NEW a \in Arguments \cup {NotAnObject}, Refuse(t, a) PROVE IInv'
  <1> USE DEF Refuse
  <1>1. asked' \in 0 .. Steps + 2
    BY AskStep, LoopAssumption DEF IInv, CountInv, TypeOK
  <1>2. Cardinality(baseline) \in Nat
    BY BaselineFinite DEF IInv, TypeOK
  <1>3. calls' \in 0 .. Cardinality(baseline) + Steps
    BY <1>2, LoopAssumption DEF IInv, CountInv, TypeOK
  <1> QED
    BY <1>1, <1>3, EndStep DEF SameCollected, End
-----------------------------------------------------------------------------
(* Where a conclusion can be accepted.                                     *)
LEMMA AcceptStep ==
  ASSUME IInv, SameCollected, UNCHANGED <<calls, step, checked>>,
         phase \in {"deciding", "repairing", "finishing", "selecting", "concluding"},
         NEW c \in Status, Accept(c), asked' \in 0 .. Steps + 1
  PROVE  IInv'
  <1> USE DEF IInv, SameCollected, Accept
  <1>1. TypeOK'
    BY LoopAssumption DEF TypeOK, Phase
  <1>2. PhaseInv' /\ CountInv' /\ CalledInv'
    BY LoopAssumption DEF PhaseInv, Native, CountInv, CalledInv
  <1>3. ComparisonIsCollected' /\ SupportedIsVerified'
    BY LoopAssumption DEF ComparisonIsCollected, SupportedIsVerified, CalledInv, PhaseInv
  <1> QED
    BY <1>1, <1>2, <1>3

LEMMA ConcludeStep ==
  ASSUME IInv, NEW c \in Conclusion, Conclude(c) PROVE IInv'
  <1> USE DEF Conclude
  <1>1. asked' \in 0 .. Steps + 1 /\ asked' = asked + 1
    BY AskStep, LoopAssumption DEF IInv, CountInv, TypeOK
  <1>2. CASE c \in Status
    BY <1>1, <1>2, AcceptStep, LoopAssumption DEF SameCollected, Status
  <1>3. CASE c = "invalid"
    <2> USE <1>3 DEF IInv, Status
    <2>1. TypeOK'
      BY <1>1, LoopAssumption DEF TypeOK, Phase
    <2>2. PhaseInv' /\ CountInv' /\ CalledInv'
      BY <1>1 DEF PhaseInv, Native, CountInv, CalledInv
    <2>3. ComparisonIsCollected' /\ SupportedIsVerified'
      BY LoopAssumption
      DEF ComparisonIsCollected, SupportedIsVerified, CalledInv, PhaseInv, Native
    <2> QED
      BY <2>1, <2>2, <2>3
  <1>4. CASE c \in {"odd", "stray"}
    <2>1. calls' \in 0 .. Cardinality(baseline) + Steps /\ asked' \in 0 .. Steps + 2
      BY <1>1, LoopAssumption DEF IInv, TypeOK
    <2> QED
      BY <1>4, <2>1, EndStep DEF SameCollected, End, Status
  <1> QED
    BY <1>2, <1>3, <1>4 DEF Conclusion

LEMMA RepairStep ==
  ASSUME IInv, NEW c \in Conclusion, Repair(c) \/ Finish(c) PROVE IInv'
  <1> USE DEF Repair, Finish
  <1>1. asked' \in 0 .. Steps + 1
    BY AskStep, LoopAssumption DEF IInv, CountInv, TypeOK
  <1>2. CASE c \in Status
    BY <1>1, <1>2, AcceptStep, LoopAssumption DEF SameCollected, Status
  <1>3. CASE c \notin Status
    <2>1. calls' \in 0 .. Cardinality(baseline) + Steps /\ asked' \in 0 .. Steps + 2
      BY <1>1, LoopAssumption DEF IInv, TypeOK
    <2>2. /\ phase' = "done" /\ outcome' \in {"raised", "FAILED"}
          /\ UNCHANGED candidate
      BY <1>3, FailedEnds DEF End, Conclusion
    <2> QED
      BY <2>1, <2>2, EndStep DEF SameCollected
  <1> QED
    BY <1>2, <1>3

-----------------------------------------------------------------------------
LEMMA SelectStep ==
  ASSUME IInv, NEW t \in Tool, Select(t) PROVE IInv'
  <1> USE DEF IInv, Select
  <1>1. Cardinality(baseline) \in Nat
    BY BaselineFinite DEF TypeOK
  <1>2. IsFiniteSet(called')
    BY FS_AddElement DEF CalledInv
  <1>3. TypeOK'
    BY <1>1, LoopAssumption DEF TypeOK, Phase
  <1>4. PhaseInv' /\ CountInv' /\ CalledInv'
    BY <1>2 DEF PhaseInv, Native, CountInv, CalledInv
  <1>5. ComparisonIsCollected' /\ SupportedIsVerified'
    BY LoopAssumption DEF ComparisonIsCollected, SupportedIsVerified, PhaseInv
  <1> QED
    BY <1>3, <1>4, <1>5

LEMMA SelectedStep == ASSUME IInv, Selected PROVE IInv'
  <1> USE DEF IInv, Selected
  <1>1. TypeOK' /\ PhaseInv' /\ CountInv' /\ CalledInv'
    BY DEF TypeOK, Phase, PhaseInv, Native, CountInv, CalledInv
  <1>2. ComparisonIsCollected' /\ SupportedIsVerified'
    BY LoopAssumption DEF ComparisonIsCollected, SupportedIsVerified, PhaseInv
  <1> QED
    BY <1>1, <1>2

LEMMA LegacyUnavailableStep == ASSUME IInv, LegacyUnavailable PROVE IInv'
  <1>1. asked' \in 0 .. Steps + 2 /\ calls' \in 0 .. Cardinality(baseline) + Steps
    BY DEF LegacyUnavailable, IInv, TypeOK
  <1> QED
    BY <1>1, EndStep, FailedEnds DEF LegacyUnavailable, SameCollected

LEMMA LegacyConcludeStep ==
  ASSUME IInv, NEW c \in Conclusion, LegacyConclude(c) PROVE IInv'
  <1> USE DEF LegacyConclude
  <1>1. CASE c = "invalid" /\ step = 0
    <2> USE <1>1 DEF IInv
    <2>1. TypeOK'
      BY LoopAssumption DEF TypeOK
    <2>2. PhaseInv' /\ CountInv' /\ CalledInv'
      BY DEF PhaseInv, Native, CountInv, CalledInv
    <2>3. ComparisonIsCollected' /\ SupportedIsVerified'
      BY LoopAssumption DEF ComparisonIsCollected, SupportedIsVerified, PhaseInv
    <2> QED
      BY <2>1, <2>2, <2>3
  <1>2. CASE ~ (c = "invalid" /\ step = 0)
    <2>1. PICK d \in Status : Accept(d)
      BY <1>2 DEF Status
    <2>2. asked' \in 0 .. Steps + 1
      BY LoopAssumption DEF IInv, CountInv
    <2>3. UNCHANGED step
      BY <1>2
    <2> QED
      BY <2>1, <2>2, <2>3, AcceptStep DEF SameCollected
  <1> QED
    BY <1>1, <1>2

-----------------------------------------------------------------------------
LEMMA VerifyStep ==
  ASSUME IInv, NEW verdict \in Verdict, Verify(verdict) PROVE IInv'
  <1> USE DEF IInv, Verify
  <1>1. TypeOK'
    BY DEF TypeOK, Phase, Verdict, Respond, End, Status, PhaseInv
  <1>2. PhaseInv' /\ CountInv' /\ CalledInv'
    BY DEF PhaseInv, Native, CountInv, CalledInv, Respond, End
  <1>3. ComparisonIsCollected' /\ SupportedIsVerified'
    BY LoopAssumption
    DEF ComparisonIsCollected, SupportedIsVerified, PhaseInv, CalledInv, Respond, End
  <1> QED
    BY <1>1, <1>2, <1>3

LEMMA CorrectStep ==
  ASSUME IInv, NEW c \in Conclusion, NEW verdict \in Verdict, Correct(c, verdict)
  PROVE  IInv'
  <1> USE DEF IInv, Correct
  <1>1. asked' \in 0 .. Steps + 2
    BY AskStep DEF CountInv, TypeOK
  <1>2. phase' = "done"
    BY DEF Respond, End
  <1>3. TypeOK'
    BY <1>1 DEF TypeOK, Phase, Respond, End, Status, PhaseInv, Verdict
  <1>4. PhaseInv' /\ CountInv' /\ CalledInv'
    BY <1>2 DEF PhaseInv, Native, CountInv, CalledInv
  <1>5. ComparisonIsCollected'
    BY <1>2 DEF ComparisonIsCollected
  <1>6. SupportedIsVerified'
    BY <1>2 DEF SupportedIsVerified, PhaseInv, Native, CalledInv, Respond, End, Status
  <1> QED
    BY <1>3, <1>4, <1>5, <1>6

-----------------------------------------------------------------------------
LEMMA StepInv == IInv /\ [Next]_vars => IInv'
  <1> SUFFICES ASSUME IInv, [Next]_vars PROVE IInv'
    OBVIOUS
  <1>1. ASSUME NEW t \in baseline, Collect(t) PROVE IInv'
    BY <1>1, CollectStep
  <1>2. CASE CollectRefused
    BY <1>2, CollectRefusedStep
  <1>3. ASSUME NEW n \in {None, calls + 1}, Unavailable(n) PROVE IInv'
    BY <1>3, UnavailableStep
  <1>4. CASE Undecided \/ FinishOtherwise
    BY <1>4, UndecidedStep
  <1>5. ASSUME NEW t \in Tool, NEW a \in Arguments, Repeat(t, a) \/ Invoke(t, a) PROVE IInv'
    BY <1>5, RepeatStep, InvokeStep
  <1>6. ASSUME NEW t \in Tool, NEW a \in Arguments \cup {NotAnObject}, Refuse(t, a) PROVE IInv'
    BY <1>6, RefuseStep
  <1>7. ASSUME NEW c \in Conclusion, Conclude(c) \/ Repair(c) \/ Finish(c) \/ LegacyConclude(c)
        PROVE IInv'
    BY <1>7, ConcludeStep, RepairStep, LegacyConcludeStep
  <1>8. ASSUME NEW t \in Tool, Select(t) PROVE IInv'
    BY <1>8, SelectStep
  <1>9. CASE Selected \/ LegacyUnavailable
    BY <1>9, SelectedStep, LegacyUnavailableStep
  <1>10. ASSUME NEW verdict \in Verdict, Verify(verdict) PROVE IInv'
    BY <1>10, VerifyStep
  <1>11. ASSUME NEW c \in Conclusion, NEW verdict \in Verdict, Correct(c, verdict) PROVE IInv'
    BY <1>11, CorrectStep
  <1>12. CASE UNCHANGED vars
    BY <1>12 DEF vars, IInv, TypeOK, PhaseInv, Native, CountInv, CalledInv,
                 ComparisonIsCollected, SupportedIsVerified
  <1> QED
    BY <1>1, <1>2, <1>3, <1>4, <1>5, <1>6, <1>7, <1>8, <1>9, <1>10, <1>11, <1>12 DEF Next

LEMMA Invariance == Spec => []IInv
  BY InitInv, StepInv, PTL DEF Spec

-----------------------------------------------------------------------------
(* Every variable keeps its type, and the counters their bounds: whatever  *)
(* the provider answers, an investigation asks it at most Steps + 2 times  *)
(* and calls at most Steps tools beside the baseline (service.py:205).     *)
THEOREM TypesAndBounds == Spec => []TypeOK
  BY Invariance, PTL DEF IInv

(* No conclusion on a type that has to be compared is accepted, verified   *)
(* or answered before every tool of its baseline has answered.             *)
THEOREM BaselineComesFirst == Spec => []ComparisonIsCollected
  BY Invariance, PTL DEF IInv

(* A SUPPORTED response carries the very candidate that the verifier       *)
(* cleared, after a loop without a refused or a repeated tool call.        *)
THEOREM SupportedWasCleared == Spec => []SupportedIsVerified
  BY Invariance, PTL DEF IInv
=============================================================================
